\* A browser, a wallet and a backup, two failures.
SPECIFICATION Spec
CONSTANTS
    None = None
    Web = {w1}
    IOS = {}
    MaxPeers = 2
    MaxFaults = 2
INVARIANTS
    BackupUsable
CHECK_DEADLOCK FALSE
