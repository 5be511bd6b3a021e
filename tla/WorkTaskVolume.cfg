\* The quarantine root is on another volume.
SPECIFICATION Spec
CONSTANTS
    t1 = t1
    t2 = t2
    c1 = c1
    c2 = c2
    None = None
    Tasks = {t1, t2}
    Sites = {s1}
    Commands = {c1, c2}
    Volumes = {TRUE}
    MaxWork = 2
    MaxTime = 1
    MaxStarts = 4
    MaxCrashes = 0
CHECK_DEADLOCK FALSE
INVARIANT OnlyRelocated
