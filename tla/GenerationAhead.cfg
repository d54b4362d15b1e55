SPECIFICATION Spec
CONSTANTS
    Nil = Nil
    MinInt32 <- NarrowMinInt32
    MaxInt32 = 3
    SecretNames = {}
    MaxPods = 0
    MaxId = 4
    MaxLag = 1
    Specs <- AheadSpecs
    Fuels <- AheadFuels
INVARIANTS
    ObservedGenerationNotAhead
CHECK_DEADLOCK FALSE
