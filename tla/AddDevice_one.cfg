\* One registration, accepted up to twice from the same device, one failure.
SPECIFICATION FairSpec
CONSTANTS
    None = None
    Regs = {r1}
    Accs = {a1, a2}
    Owners = {d1}
    OneAtATime = FALSE
    MaxFaults = 1
INVARIANTS
    TypeOK
    RegisteredPersisted
    AcceptedPersisted
    StoredOnlyIfComplete
PROPERTIES
    AcceptedSessionCompletes
    JoinedRegistrationCompletes
CHECK_DEADLOCK FALSE
