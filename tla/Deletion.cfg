SPECIFICATION FairSpec
CONSTANTS
    Nil = Nil
    MinInt32 <- NarrowMinInt32
    MaxInt32 = 3
    SecretNames = {}
    MaxPods = 0
    MaxId = 1
    MaxLag = 1
    Specs <- DeletionSpecs
    Fuels <- DeletionFuels
PROPERTIES
    DeletionCompletes
    NoOrphans
CHECK_DEADLOCK FALSE
