\* The one generator of the program: its bundle is sent though its simulation failed.
SPECIFICATION Spec
CONSTANTS
    Relays = {flashbots, ethermine}
    NumGenerators = 1
    MaxScore = 1
    MaxHeight = 2
INVARIANTS
    FailedIsDropped
CHECK_DEADLOCK FALSE
