\* Every interleaving of handlers, commands and sessions on one hash, with failing transactions.
SPECIFICATION Spec
CONSTANTS
    Hashes = {f1}
    Keys = {alice, bob}
    Callers = {c1, c2}
    Workers = {w1, w2}
    SyncCap = 1
    MaxRetries = 2
    FailThreshold = 1
    Oversized = {}
    UserOps = {"pull", "publish"}
    DbFaults = TRUE
    MaxCrashes = 1
SYMMETRY MCSymmetry
INVARIANTS TypeOK OneWorkerPerHash InFlightTracksWorkers SlotsConserved
PROPERTIES OwnedOnlyChangedBySession
