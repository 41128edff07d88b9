\* Two --add requests at once.
SPECIFICATION Spec
CONSTANTS
    Daemons = {"d1"}
    Commands = {"status"}
    Adders = {"a1", "a2"}
    Targets = {"t1", "t2"}
    Mixed = "mixed"
    Garbled = Garbled
    Chosen = {}
    Scenes <- Settled
    MaxInodes = 4
    MaxIds = 4
    MaxFails = 1
    MaxCrashes = 0
PROPERTIES WrittenAtomically
CHECK_DEADLOCK FALSE
