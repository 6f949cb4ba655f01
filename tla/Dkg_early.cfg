\* One call, no failure: the early acknowledgement.
SPECIFICATION FairSpec
CONSTANTS
    Calls = {c1}
    OneAtATime = TRUE
    MaxFaults = 0
PROPERTIES
    StoredIsReturned
CHECK_DEADLOCK FALSE
