\* Two tasks that may use one path after another, two commands at once.
SPECIFICATION Spec
CONSTANTS
    t1 = t1
    t2 = t2
    c1 = c1
    c2 = c2
    None = None
    Tasks = {t1, t2}
    Sites = {s1}
    Commands = {c1, c2}
    Volumes = {TRUE, FALSE}
    MaxWork = 2
    MaxTime = 1
    MaxStarts = 4
    MaxCrashes = 1
SYMMETRY MCSymmetry
CHECK_DEADLOCK FALSE
INVARIANTS TypeOK NoWorkLost DoneIsLanded ClosedHasNoTree
PROPERTY CommitsKept
