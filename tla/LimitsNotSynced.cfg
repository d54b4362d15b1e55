SPECIFICATION Spec
CONSTANTS
    Nil = Nil
    MinInt32 <- NarrowMinInt32
    MaxInt32 = 3
    SecretNames = {}
    MaxPods = 1
    MaxId = 4
    MaxLag = 1
    Specs <- LimitsSpecs
    Fuels <- LimitsFuels
INVARIANTS
    LimitsSyncedWhenSettled
CHECK_DEADLOCK FALSE
