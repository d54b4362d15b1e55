SPECIFICATION Spec
CONSTANTS
    Nil = Nil
    MaxPods = 2
    MaxPasses = 3
    QueueSize = 4
    Configs <- Environments
INVARIANTS
    TypeOK
    SpansTellResult
    FailuresReachTheRoot
PROPERTIES
    StopsWhenTold
CHECK_DEADLOCK FALSE
