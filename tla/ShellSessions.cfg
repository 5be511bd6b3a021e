SPECIFICATION FairSpec
CONSTANTS
    Free = Free
    c1 = c1
    c2 = c2
    Callers = {c1, c2}
    MaxSessions = 1
    MaxOutput = 2
    ReadSize = 2
    PipeSize = 1
    Input = 2
    MaxBytes = 3
    MaxSpawned = 1
CHECK_DEADLOCK FALSE
INVARIANTS TypeOK LimitSlack NoOrphan OutputKept OneStreamPolledOnce
PROPERTIES EndIsFinal EndNoticed
