CONSTANTS
    Keys = {"k"}
    RequestKeys = {}
    StartKeys = {"s1"}
    Commands <- ExplicitOnly
    OperationKeys = {"o1"}
    AgentNames = {""}
    Undeclared = ""
    Inputs = {"inline"}
    Results <- NoLoss
    OneShots = {TRUE, FALSE}
    Outcomes = {"completed"}
    SystemPartial = {FALSE}
    Claims = {FALSE}
    MaxOperationsPerInteraction = 2
    LeaseDurations = {1}
    RenewalDuration = 2
    AssemblyTimeout = 1
    IdleTTL = 1
    MaxLockWait = 1
    Replicas = {p1}
    MaxGenerations = 1
    MaxOrdinals = 1
    MaxAttempts = 2
    MaxLeaseVersion = 3
    LastCall = 1
    MaxClock = 3
    NoTime = NoTime
SPECIFICATION Spec
INVARIANTS
    ExplicitReplayAccepted
CHECK_DEADLOCK FALSE
