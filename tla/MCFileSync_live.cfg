\* Sessions end, and the pool is implemented, under the daemon's fairness.
SPECIFICATION FairSpec
CONSTANTS
    Hashes = {f1, f2}
    Keys = {alice}
    Callers = {c1}
    Workers = {w1, w2}
    SyncCap = 1
    MaxRetries = 2
    FailThreshold = 1
    Oversized = {f2}
    UserOps = {"pull"}
    DbFaults = FALSE
    MaxCrashes = 1
INVARIANTS NoOrphanDownloading
PROPERTIES ImplementsPool SessionsGoOn DownloadingEnds RebroadcastWhileSeeding
