\* Blocks extend the chain, the next one after the logs of the last: a search lacks at
\* most the block that is queued, and the graph implements AtomicView.
SPECIFICATION QuietSpec
CONSTANTS
    Pairs = {p1, p2}
    Accruing = {ceth}
    Static = {weth}
    MaxBlocks = 3
    MaxReorg = 0
    MaxSyncs = 2
    MaxRestarts = 1
INVARIANTS
    LacksAtMostTheNextBlock
PROPERTIES
    ImplementsAtomicView
CHECK_DEADLOCK FALSE
