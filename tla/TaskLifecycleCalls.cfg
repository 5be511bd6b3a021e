\* Two tasks, two calls at once.
SPECIFICATION Spec
CONSTANTS
    t1 = t1
    t2 = t2
    c1 = c1
    c2 = c2
    None = None
    Tasks = {t1, t2}
    Callers = {c1, c2}
    Conditions = {ack}
    AckConditions = {ack}
    MaxAttempts = 1
SYMMETRY MCSymmetry
CHECK_DEADLOCK FALSE
INVARIANTS TypeOK ClosedAloneStays LinksLead AttemptsMade
