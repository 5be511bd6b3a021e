\* Three hosts: exports chained from host to host, and handed back.
SPECIFICATION Spec
CONSTANTS
    a1 = a1
    a2 = a2
    a3 = a3
    h1 = h1
    h2 = h2
    h3 = h3
    t1 = t1
    w1 = w1
    w2 = w2
    None = None
    Agents = {a1, a2, a3}
    Hosts = {h1, h2, h3}
    Host <- MCHost3
    Tasks = {t1}
    Origin <- MCOrigin
    Workers = {w1}
    Tokens = {k1, k2}
    HandoffIds = {i1}
    Details = {d1}
    Callers = {c1}
    MaxGen = 2
    Damaged = {a2}
SYMMETRY Symmetry
CHECK_DEADLOCK FALSE
INVARIANTS SingleCustodian CustodyInv
PROPERTY ImplementsLedger
