CONSTANTS
    Keys = {"k"}
    RequestKeys = {"q1"}
    StartKeys = {"s1", "s2"}
    Commands <- OneCommand
    OperationKeys = {}
    AgentNames = {"", "agent"}
    Undeclared = ""
    Inputs = {"inline"}
    Results <- AllResults
    OneShots = {TRUE, FALSE}
    Outcomes = {"completed"}
    SystemPartial = {FALSE}
    Claims = {FALSE}
    MaxOperationsPerInteraction = 2
    LeaseDurations = {1}
    RenewalDuration = 2
    AssemblyTimeout = 1
    IdleTTL = 1
    MaxLockWait = 1
    Replicas = {p1}
    MaxGenerations = 2
    MaxOrdinals = 2
    MaxAttempts = 2
    MaxLeaseVersion = 3
    LastCall = 2
    MaxClock = 3
    NoTime = NoTime
SPECIFICATION Spec
INVARIANTS
    TypeOK
    OnlyNewestGenerationActive
    ActiveInteractionIsHosted
    ProjectionCurrent
CHECK_DEADLOCK FALSE
