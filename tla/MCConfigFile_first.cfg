\* A command is entered while the daemon starts for the first time.
SPECIFICATION Spec
CONSTANTS
    Daemons = {"d1"}
    Commands = {"status"}
    Adders = {"a1"}
    Targets = {"t1", "t2"}
    Mixed = "mixed"
    Garbled = Garbled
    Chosen = {}
    Scenes <- FirstStart
    MaxInodes = 4
    MaxIds = 4
    MaxFails = 1
    MaxCrashes = 1
INVARIANTS IdentityKept
CHECK_DEADLOCK FALSE
