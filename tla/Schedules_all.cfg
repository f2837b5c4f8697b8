SPECIFICATION FairSpec
CONSTANTS
    MaxSchedules = 1
    Ticks = {t1, t2}
    Users = {u1}
    Kinds = {"pause", "resume", "update", "delete", "runOnce"}
    Limits = {2}
    Expiries = {0}
    None = None
    Torn = Torn
    MaxTime = 2
    MaxFires = 2
    MaxCrashes = 1
    MaxFaults = 2
INVARIANT TypeOK
INVARIANT OneRunAtATime
INVARIANT ScheduledIfActive
INVARIANT UserWordHolds
PROPERTY CatchesUp
CHECK_DEADLOCK FALSE
