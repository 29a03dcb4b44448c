\* A client leaves the main loop, the server does not.
CONSTANTS
    c1 = c1
    c2 = c2
    Server = server
    Clients = {c1, c2}
    Times <- MCOneTime
    Inputs = {}
    MaxFrames = 2
    LocalShutdown = TRUE
SPECIFICATION Spec
PROPERTIES
    LossNoticed
