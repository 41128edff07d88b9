\* A publication is taken back by a download session of the same hash.
SPECIFICATION Spec
CONSTANTS
    Hashes = {f1}
    Keys = {alice}
    Callers = {c1, c2}
    Workers = {w1, w2}
    SyncCap = 1
    MaxRetries = 3
    FailThreshold = 3
    Oversized = {}
    UserOps = {"publish"}
    DbFaults = FALSE
    MaxCrashes = 0
SYMMETRY MCSymmetry
INVARIANTS PublishedIsServed
