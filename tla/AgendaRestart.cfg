\* A one-time and a cron task, over a restart and with a loop that may be late.
SPECIFICATION FairSpec
CONSTANTS
    once = once
    every = every
    cron = cron
    None = None
    Schedule <- MCSchedule
    MinuteLen = 2
    Users = {u1}
    Tasks = {once, cron}
    Timely = FALSE
    MaxTime = 2
    MaxCrashes = 1
    MaxCalls = 3
CHECK_DEADLOCK FALSE
INVARIANTS NoRefire AddedSurvives
PROPERTY DueTaskRuns
