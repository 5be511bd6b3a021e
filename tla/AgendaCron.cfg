\* A cron task that matches every minute.
SPECIFICATION Spec
CONSTANTS
    once = once
    every = every
    cron = cron
    None = None
    Schedule <- MCSchedule
    MinuteLen = 2
    Users = {u1}
    Tasks = {cron}
    Timely = TRUE
    MaxTime = 7
    MaxCrashes = 0
    MaxCalls = 1
CHECK_DEADLOCK FALSE
INVARIANT CronFiresInItsMinutes
