\* Control only: one clock value, no event but "quit", at most three frames.
CONSTANTS
    c1 = c1
    c2 = c2
    Server = server
    Clients = {c1, c2}
    Times <- MCOneTime
    Inputs = {}
    MaxFrames = 3
    LocalShutdown = FALSE
SPECIFICATION Spec
PROPERTIES
    AllStop
