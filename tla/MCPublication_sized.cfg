\* A peer offers a file under a wrong size.
SPECIFICATION Spec
CONSTANTS
    draft = draft
    letter = letter
    torn = torn
    here = here
    there = there
    stored = stored
    NoPath = NoPath
    Absent = Absent
    Hashes <- AllHashes
    Normal = 1
    Paths <- AllPaths
    Sizes = {1, 2}
    Torn = torn
    SizeOf <- TheSizes
    StoredAt <- InStore
    UserPaths = {here, there}
    Fetched = {letter}
    UserContents = {draft, letter}
    Disks <- SomeDisks
    OfferedSizes <- AnySize
    OldHashes = {letter}
    OldSpellings = 1
    MaxOffers = 1
    MaxPublish = 2
    MaxEdits = 1
    MaxCrashes = 1
INVARIANTS SeedingIsServed
CHECK_DEADLOCK FALSE
