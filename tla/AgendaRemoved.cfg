\* A task removed while it runs.
SPECIFICATION Spec
CONSTANTS
    once = once
    every = every
    cron = cron
    None = None
    Schedule <- MCSchedule
    MinuteLen = 2
    Users = {u1}
    Tasks = {every}
    Timely = FALSE
    MaxTime = 2
    MaxCrashes = 1
    MaxCalls = 2
CHECK_DEADLOCK FALSE
INVARIANT RemovedStaysRemoved
