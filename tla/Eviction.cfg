SPECIFICATION RestSpec
CONSTANTS
    Nil = Nil
    MinInt32 <- NarrowMinInt32
    MaxInt32 = 3
    SecretNames = {}
    MaxPods = 2
    MaxId = 4
    MaxLag = 1
    Specs <- EvictionSpecs
    Fuels <- EvictionFuels
INVARIANTS
    ReadyWhenSettled
CHECK_DEADLOCK FALSE
