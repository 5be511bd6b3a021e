SPECIFICATION Spec
CONSTANTS
    Free = Free
    c1 = c1
    c2 = c2
    Callers = {c1, c2}
    MaxSessions = 1
    MaxOutput = 1
    ReadSize = 2
    PipeSize = 1
    Input = 2
    MaxBytes = 2
    MaxSpawned = 2
SYMMETRY MCSymmetry
CHECK_DEADLOCK FALSE
INVARIANTS TypeOK LimitSlack NoOrphan OutputKept OneStreamPolledOnce
PROPERTY EndIsFinal
