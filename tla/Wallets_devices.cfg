\* A browser and an iPhone, up to five shares, two failures or crashes.
SPECIFICATION FairSpec
CONSTANTS
    None = None
    Web = {w1}
    IOS = {i1}
    MaxPeers = 5
    MaxFaults = 2
INVARIANTS
    TypeOK
    ReturnedUsable
PROPERTIES
    OthersUnharmed
    BackupEnds
CHECK_DEADLOCK FALSE
