SPECIFICATION Spec
CONSTANTS
    Nil = Nil
    MinInt32 <- NarrowMinInt32
    MaxInt32 = 3
    SecretNames = {}
    MaxPods = 0
    MaxId = 2
    MaxLag = 1
    Specs <- ConvergenceSpecs
    Fuels <- ConvergenceFuels
INVARIANTS
    ConvergedWhenQuiescent
    StatusAccurateWhenQuiescent
    UndisturbedPass
    ReadyImpliesApplied
PROPERTIES
    ObservedGenerationMonotone
    RefinesContract
CHECK_DEADLOCK FALSE
