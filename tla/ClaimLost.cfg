SPECIFICATION Spec
CONSTANTS
    Nil = Nil
    MinInt32 <- NarrowMinInt32
    MaxInt32 = 3
    SecretNames = {}
    MaxPods = 0
    MaxId = 2
    MaxLag = 1
    Specs <- ClaimSpecs
    Fuels <- ClaimFuels
INVARIANTS
    ClaimKeptWhenQuiescent
CHECK_DEADLOCK FALSE
