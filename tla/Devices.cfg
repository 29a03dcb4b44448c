SPECIFICATION Spec
CONSTANTS
    Setups <- MCSetups
    Events <- MCEvents
    MaxLost = 1
INVARIANTS
    
    TrackersInMode
    Shared
CHECK_DEADLOCK FALSE
