\* Two versions of one name downloaded at the same time.
SPECIFICATION Spec
CONSTANTS
    v1 = v1
    v2 = v2
    report = report
    notes = notes
    Hashes <- TwoHashes
    Names = {report}
    NameOf <- SameName
    SizeOf <- Sizes
    MaxInodes = 4
    SyncCap = 2
    MaxRetries = 1
    MaxLeft = 0
    MaxChanges = 0
    MaxFails = 0
    MaxCrashes = 0
PROPERTIES ReturnedIsVerified
CHECK_DEADLOCK FALSE
