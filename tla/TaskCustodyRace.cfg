\* Two hosts, two callers racing over one task.
SPECIFICATION Spec
CONSTANTS
    a1 = a1
    a2 = a2
    a3 = a3
    h1 = h1
    h2 = h2
    h3 = h3
    t1 = t1
    w1 = w1
    w2 = w2
    None = None
    Agents = {a1, a2}
    Hosts = {h1, h2}
    Host <- MCHost
    Tasks = {t1}
    Origin <- MCOrigin
    Workers = {w1, w2}
    Tokens = {k1, k2}
    HandoffIds = {i1, i2}
    Details = {d1}
    Callers = {c1, c2}
    MaxGen = 1
    Damaged = {a1}
SYMMETRY Symmetry
CHECK_DEADLOCK FALSE
INVARIANTS SingleCustodian OneRunner OutcomeStands OneExport
PROPERTIES MovesOn RetriesPay ImplementsLedger
