SPECIFICATION HandoverSpec
CONSTANTS
    Nil = Nil
    MinInt32 <- NarrowMinInt32
    MaxInt32 = 3
    SecretNames = {}
    MaxPods = 0
    MaxId = 2
    MaxLag = 1
    Specs <- HandoverSpecs
    Fuels <- HandoverFuels
INVARIANTS
    ConvergedDespiteLateCalls
PROPERTIES
    SidecarPreserved
CHECK_DEADLOCK FALSE
