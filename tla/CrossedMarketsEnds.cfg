\* arbitrage.rs:95: the bisection of two pools never ends.
SPECIFICATION Spec
CONSTANTS
    NumMarkets = 2
    MaxReserve = 1500
    Pools <- MCPools
    Sizes <- MCSizes
    Step = 5
    Precision = 2
    MinProfit = 1
    MaxIterations = 300
INVARIANTS
    AtMost256Iterations
CHECK_DEADLOCK FALSE
