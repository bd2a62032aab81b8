CONSTANTS
    Schedules = {s1}
    Pods = {p1, p2}
    Callers = {c1}
    Crons <- MCCrons
    CronNext <- MCCronNext
    LockTimeout = 1
    ExecutionTimeout = 2
    MaxTime = 4
    MaxFaults = 2
    NoPod = NoPod
    NoSchedule = NoSchedule
SPECIFICATION FairSpec
INVARIANTS
    TypeOK
    LockOutlivesTimeout
    SlotsGoForward
    ActiveHasNextRun
PROPERTIES
    DueIsExecuted
CHECK_DEADLOCK FALSE
