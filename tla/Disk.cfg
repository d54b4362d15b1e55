SPECIFICATION RestSpec
CONSTANTS
    Nil = Nil
    MinInt32 <- NarrowMinInt32
    MaxInt32 = 3
    SecretNames = {}
    MaxPods = 2
    MaxId = 4
    MaxLag = 1
    Specs <- DiskSpecs
    Fuels <- DiskFuels
INVARIANTS
    ClaimFollowsSpec
    DiskPodsAgree
    ReadyWhenSettled
PROPERTIES
    ClaimIsImmutable
CHECK_DEADLOCK FALSE
