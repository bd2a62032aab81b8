CONSTANTS
    Tasks = {1, 2}
    Workers = {w1}
    TaskCallers = {c1}
    Editors = {e1}
    Configs <- MCConfigs
    FirstConfig <- MCFirstConfig
    BatchSize = 1
    MaxRows = 1
    MaxEdits = 1
    MaxStarts = 1
    MaxRestarts = 1
    NoTask = 0
SPECIFICATION Spec
INVARIANTS
    TypeOK
    PublishedIsComplete
    CheckpointIsBacked
    OneWorkerPerTask
    OnlyCompletedIsPublished
CHECK_DEADLOCK FALSE
