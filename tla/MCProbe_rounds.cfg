\* Every block of three-bit addresses; a point-to-point block is added; shutdown.
SPECIFICATION FairSpec
CONSTANTS
    Width = 3
    Rounds = {"r1", "r2"}
    Workers = 1
    Capacity = 1
    Interval = 1
    Configs <- OneBlock
    Additions <- Pair
INVARIANTS TypeOK
PROPERTIES RoundIsExact AddedIsProbed
CHECK_DEADLOCK FALSE
