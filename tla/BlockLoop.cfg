\* The loop and its cache under weak fairness of its own steps: reorganisations,
\* blocks that arrive during an iteration, syncing, a failed process and its restart.
SPECIFICATION FairSpec
CONSTANTS
    Pairs = {p1}
    Accruing = {ceth}
    Static = {weth}
    MaxBlocks = 3
    MaxReorg = 1
    MaxSyncs = 1
    MaxRestarts = 1
INVARIANTS
    TypeOK
    LoopInv
    StaleOnlyIfMissed
    RereadSinceSync
    NoHeadIsForgotten
PROPERTIES
    EveryHeadServed
CHECK_DEADLOCK FALSE
