\* Two factories whose lists cross the end of a batch while they are read.
SPECIFICATION Spec
CONSTANTS
    Weth = weth
    Eth = eth
    Ceth = ceth
    Others = {dai, bad}
    Blacklisted = {bad}
    BadPools = {2}
    NumFactories = 2
    BatchSize = 2
    BatchLimit = 2
    MaxPairs = 4
    MaxReorgs = 1
INVARIANTS
    TypeOK
    GraphIsComplete
    RangesAreAccepted
CHECK_DEADLOCK FALSE
