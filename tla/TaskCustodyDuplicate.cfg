\* An import repeated after the task was claimed.
SPECIFICATION Spec
CONSTANTS
    a1 = a1
    a2 = a2
    a3 = a3
    h1 = h1
    h2 = h2
    h3 = h3
    t1 = t1
    w1 = w1
    w2 = w2
    None = None
    Agents = {a1, a2}
    Hosts = {h1, h2}
    Host <- MCHost
    Tasks = {t1}
    Origin <- MCOrigin
    Workers = {w1}
    Tokens = {k1}
    HandoffIds = {i1}
    Details = {d1}
    Callers = {c1, c2}
    MaxGen = 1
    Damaged = {}
CHECK_DEADLOCK FALSE
INVARIANT DuplicateImportIdempotent
