\* Rounds that take longer than the time between two heartbeats.
SPECIFICATION Spec
CONSTANTS
    Width = 3
    Rounds = {"r1", "r2", "r3"}
    Workers = 2
    Capacity = 2
    Interval = 3
    Configs <- WholeRange
    Additions = {}
INVARIANTS RateIsKept
CHECK_DEADLOCK FALSE
