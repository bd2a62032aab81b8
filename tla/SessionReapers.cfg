CONSTANTS
    Keys = {"k"}
    RequestKeys = {}
    StartKeys = {"s1"}
    Commands <- DatedToo
    OperationKeys = {"o1"}
    AgentNames = {""}
    Undeclared = ""
    Inputs = {"inline", "omitted"}
    Results <- Answers
    OneShots = {TRUE, FALSE}
    Outcomes = {"completed"}
    SystemPartial = {TRUE, FALSE}
    Claims = {TRUE, FALSE}
    MaxOperationsPerInteraction = 2
    LeaseDurations = {1}
    RenewalDuration = 2
    AssemblyTimeout = 1
    IdleTTL = 1
    MaxLockWait = 1
    Replicas = {p1, p2}
    MaxGenerations = 1
    MaxOrdinals = 1
    MaxAttempts = 1
    MaxLeaseVersion = 3
    LastCall = 1
    MaxClock = 3
    NoTime = NoTime
SPECIFICATION FairSpec
PROPERTIES
    OnlyLapsedAreAbandoned
    InteractionsEnd
    EvidenceIsDecided
CHECK_DEADLOCK FALSE
