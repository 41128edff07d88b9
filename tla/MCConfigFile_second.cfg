\* A daemon is started while another runs.
SPECIFICATION Spec
CONSTANTS
    Daemons = {"d1", "d2"}
    Commands = {"status"}
    Adders = {"a1"}
    Targets = {"t1", "t2"}
    Mixed = "mixed"
    Garbled = Garbled
    Chosen = {}
    Scenes <- Settled
    MaxInodes = 4
    MaxIds = 4
    MaxFails = 1
    MaxCrashes = 0
INVARIANTS AddedIsPersisted
CHECK_DEADLOCK FALSE
