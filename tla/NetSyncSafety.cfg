\* Frames that may be the last one, and one that is; a node may also leave the
\* main loop on its own.
CONSTANTS
    c1 = c1
    c2 = c2
    Server = server
    Clients = {c1, c2}
    Times <- MCTimes
    Inputs = {}
    MaxFrames = 3
    LocalShutdown = TRUE
SPECIFICATION SafetySpec
SYMMETRY Symmetry
INVARIANTS
    TypeOK
    SameEvents
    EventsMerged
    SwapTogether
    ExpectedOnly
PROPERTIES
    ImplementsLockstep
