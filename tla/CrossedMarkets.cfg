\* The evaluation of one edge with three pools, empty and thin ones included.
SPECIFICATION Spec
CONSTANTS
    NumMarkets = 3
    MaxReserve = 1500
    Pools <- MCPools
    Sizes <- MCSizes
    Step = 5
    Precision = 2
    MinProfit = 1
    MaxIterations = 20
INVARIANTS
    TypeOK
    ProbesInRange
    CrossingDoesNotLose
    KeptMarketsDiffer
    IntervalIsHalved
PROPERTY
    EndsInTimeOrNever
CHECK_DEADLOCK FALSE
