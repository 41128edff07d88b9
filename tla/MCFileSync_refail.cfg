\* A file that failed for good is tried again, by gossip alone.
SPECIFICATION Spec
CONSTANTS
    Hashes = {f1}
    Keys = {alice}
    Callers = {c1, c2}
    Workers = {w1, w2}
    SyncCap = 1
    MaxRetries = 3
    FailThreshold = 3
    Oversized = {}
    UserOps = {}
    DbFaults = FALSE
    MaxCrashes = 0
SYMMETRY MCSymmetry
PROPERTIES FailedStaysManual
