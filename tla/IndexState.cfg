\* A container with one name in it, and one name outside; three open states.
CONSTANTS
    Order <- MCOrder
    Inside <- MCInside
    Values = {0, 1}
    MaxDepth = 3
    Restrictions = {"setLast", "linkFirst"}
SPECIFICATION Spec
INVARIANTS
    TypeOK

    
\* A caller that keeps to both restrictions may have nothing left to call.
CHECK_DEADLOCK FALSE
