\* One daemon, restarted, one --add at a time, commands; writes may fail.
SPECIFICATION Spec
CONSTANTS
    Daemons = {"d1"}
    Commands = {"status"}
    Adders = {"a1"}
    Targets = {"t1", "t2"}
    Mixed = "mixed"
    Garbled = Garbled
    Chosen = {9}
    Scenes <- Orderly
    MaxInodes = 4
    MaxIds = 4
    MaxFails = 2
    MaxCrashes = 2
INVARIANTS TypeOK IdentityKept AddedIsPersisted
PROPERTIES NothingLost
CHECK_DEADLOCK FALSE
