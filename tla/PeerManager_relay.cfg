\* The three parties of a registration.
SPECIFICATION Spec
CONSTANTS
    new = new
    existing = existing
    Clients = {new, existing}
    Server = server
    Pairs <- SomePairs
    MaxSends = 2
INVARIANTS
    TypeOK
PROPERTIES
    DeliversInOrder
CHECK_DEADLOCK FALSE
