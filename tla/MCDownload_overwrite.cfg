\* Two versions of one name, one after the other.
SPECIFICATION Spec
CONSTANTS
    v1 = v1
    v2 = v2
    report = report
    notes = notes
    Hashes <- TwoHashes
    Names = {report}
    NameOf <- SameName
    SizeOf <- Sizes
    MaxInodes = 3
    SyncCap = 1
    MaxRetries = 1
    MaxLeft = 0
    MaxChanges = 0
    MaxFails = 0
    MaxCrashes = 0
INVARIANTS SavedIntact
CHECK_DEADLOCK FALSE
