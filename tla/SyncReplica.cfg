\* Three devices, two changes, stamped with nothing or with one of two times.
SPECIFICATION SyncSpec
CONSTANTS
    d1 = d1
    d2 = d2
    d3 = d3
    Devices = {d1, d2, d3}
    MaxWrites = 2
    MaxTime = 2
SYMMETRY MCSymmetry
CHECK_DEADLOCK FALSE
INVARIANTS NewestEverywhere
