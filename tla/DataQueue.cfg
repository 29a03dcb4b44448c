\* Two equal or different stamps, and room for a collision of three.
CONSTANTS
    a = a
    b = b
    Ids = {a, b}
    Times = {1, 2}
    MaxItems = 3
    MaxAdded = 2
    CollectThenConsume = TRUE
SPECIFICATION Spec
INVARIANTS
    TypeOK
    RoundTrip
PROPERTIES
    ImplementsEventList
