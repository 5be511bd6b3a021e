SPECIFICATION FairSpec
CONSTANTS
    Free = Free
    c1 = c1
    c2 = c2
    Callers = {c1, c2}
    MaxSessions = 1
    MaxOutput = 2
    ReadSize = 1
    PipeSize = 1
    Input = 2
    MaxBytes = 2
    MaxSpawned = 2
CHECK_DEADLOCK FALSE
PROPERTY KillReturns
