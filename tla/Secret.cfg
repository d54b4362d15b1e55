SPECIFICATION FairSpec
CONSTANTS
    Nil = Nil
    MinInt32 <- NarrowMinInt32
    MaxInt32 = 3
    SecretNames = {"secret"}
    MaxPods = 0
    MaxId = 2
    MaxLag = 1
    Specs <- SecretSpecs
    Fuels <- SecretFuels
INVARIANTS
    TypeOK
    ReplicasAsAsked
PROPERTIES
    EventuallyConverged
CHECK_DEADLOCK FALSE
