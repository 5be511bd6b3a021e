\* Two calls, two models, two tokens; no symmetry, as liveness is checked.
SPECIFICATION FairSpec
CONSTANTS
    m1 = m1
    m2 = m2
    m3 = m3
    b1 = b1
    b2 = b2
    c1 = c1
    c2 = c2
    Callers = {c1, c2}
    Models = {m1, m2}
    Bases = {b1, b2}
    None = None
    MaxAttempts = 2
    Margin = 1
    Lifetimes = {2}
    MaxTokens = 2
    MaxTime = 1
CHECK_DEADLOCK FALSE
INVARIANTS TokenToItsBase AskedOnce
PROPERTIES SessionMovesOn CallsEnd
