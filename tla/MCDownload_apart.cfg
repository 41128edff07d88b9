\* Downloads of files with different names, from sources that change, one at a time.
SPECIFICATION FairSpec
CONSTANTS
    v1 = v1
    v2 = v2
    report = report
    notes = notes
    Hashes <- TwoHashes
    Names = {report, notes}
    NameOf <- OwnNames
    SizeOf <- OneEmpty
    MaxInodes = 4
    SyncCap = 1
    MaxRetries = 3
    MaxLeft = 3
    MaxChanges = 1
    MaxFails = 1
    MaxCrashes = 1
INVARIANTS TypeOK SavedIntact
PROPERTIES ReturnedIsVerified GoodPartIsKept SessionsSucceed
CHECK_DEADLOCK FALSE
