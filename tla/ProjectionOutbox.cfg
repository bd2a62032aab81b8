CONSTANTS
    Rows = {1, 2}
    Aggregates = {"interaction"}
    AggregateOf <- MCAggregateOf
    VersionOf <- MCVersionOf
    Workers = {w1, w2}
    BatchSize = 2
    MaxAttempts = 2
    MaxDisruptions = 2
    MaxReplays = 1
    NoWorker = NoWorker
SPECIFICATION Spec
INVARIANTS
    TypeOK
    DeliveredIsIndexed
    DeadIffOpenDeadLetter
    RetryBudgetKept
PROPERTIES
    SettledRowsAreFenced
    DeliveryPromise
SYMMETRY WorkerSymmetry
CHECK_DEADLOCK FALSE
