\* Two bundle generators, for which the choice among several bundles is written (the
\* program registers one), two relays, a restart.
SPECIFICATION FairSpec
CONSTANTS
    Relays = {flashbots, ethermine}
    NumGenerators = 2
    MaxScore = 2
    MaxHeight = 2
INVARIANTS
    TypeOK
    OneBundlePerBlock
    SimulateOnly
    BestPassedIsSubmitted
PROPERTIES
    SubmissionEnds
    SearchAdvances
CHECK_DEADLOCK FALSE
