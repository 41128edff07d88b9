\* An older version recorded a hash twice.
SPECIFICATION Spec
CONSTANTS
    draft = draft
    letter = letter
    torn = torn
    here = here
    there = there
    stored = stored
    NoPath = NoPath
    Absent = Absent
    Hashes <- AllHashes
    Normal = 2
    Paths <- AllPaths
    Sizes = {1, 2}
    Torn = torn
    SizeOf <- TheSizes
    StoredAt <- InStore
    UserPaths = {here, there}
    Fetched = {letter}
    UserContents = {draft, letter}
    Disks <- SomeDisks
    OfferedSizes <- Truthful
    OldHashes = {draft}
    OldSpellings = 2
    MaxOffers = 1
    MaxPublish = 2
    MaxEdits = 1
    MaxCrashes = 1
PROPERTIES OwnedUnderAnyKey
CHECK_DEADLOCK FALSE
