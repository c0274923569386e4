\* utilities.rs:120: the gas price pays the miner a second time.
SPECIFICATION Spec
CONSTANTS
    Edges = {e1}
    InitPools <- MCInitPools
    Funds = {150}
    Transfers = {60}
    Orders = {40}
    MaxMoves = 0
    MaxOrders = 0
    Volumes = {10, 100}
    Cent = 10
    MinProfit = 1
    GasEstimates = {90, 180}
    LowPrices = {0, 1}
INVARIANTS
    ProfitableBundle
