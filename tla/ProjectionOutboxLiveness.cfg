CONSTANTS
    Rows = {1, 2}
    Aggregates = {"interaction"}
    AggregateOf <- MCAggregateOf
    VersionOf <- MCVersionOf
    Workers = {w1, w2}
    BatchSize = 2
    MaxAttempts = 2
    MaxDisruptions = 1
    MaxReplays = 0
    NoWorker = NoWorker
SPECIFICATION FairSpec
PROPERTIES
    EventuallySettled
CHECK_DEADLOCK FALSE
