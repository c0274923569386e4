\* Trades of up to two calls; the argument words include ones that look like headers.
SPECIFICATION Spec
CONSTANTS
    BlockUnit = 8
    BlockRange = 2
    CoinbaseUnit = 16
    CoinbaseRange = 2
    TargetRange = 2
    SizeUnit = 4
    SizeRange = 4
    OutUnit = 16
    OutRange = 2
    TypeUnit = 64
    TypeRange = 4
    MethodUnit = 512
    MethodRange = 2
    Words = {0, 580}
    MaxWords = 2
    MaxCalls = 2
INVARIANTS
    TypeOK
    MakesTheTrade
    SettingsArrive
CHECK_DEADLOCK FALSE
