SPECIFICATION FairSpec
CONSTANTS
    Nil = Nil
    MinInt32 <- NarrowMinInt32
    MaxInt32 = 3
    SecretNames = {}
    MaxPods = 1
    MaxId = 2
    MaxLag = 1
    Specs <- FaultSpecs
    Fuels <- FaultFuels
PROPERTIES
    EventuallyQuiescent
CHECK_DEADLOCK FALSE
