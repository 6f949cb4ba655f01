\* Two calls of Dkg one after the other, up to two failures.
SPECIFICATION FairSpec
CONSTANTS
    Calls = {c1, c2}
    OneAtATime = TRUE
    MaxFaults = 2
INVARIANTS
    TypeOK
    ReturnedIsUsable
    NormalEndMeansDelivered
PROPERTIES
    StoredIsDelivered
CHECK_DEADLOCK FALSE
