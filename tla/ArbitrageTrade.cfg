\* Two edges, an order of another trader and a movement of the owner at any time.
SPECIFICATION Spec
CONSTANTS
    Edges = {e1, e2}
    InitPools <- MCInitPools
    Funds = {50, 150}
    Transfers = {60}
    Orders = {40}
    MaxMoves = 1
    MaxOrders = 1
    Volumes = {10, 100}
    Cent = 10
    MinProfit = 1
    GasEstimates = {90, 180}
    LowPrices = {0, 1}
INVARIANTS
    TypeOK
    FailureHasCause
PROPERTIES
    ImplementsAtomicTrade
