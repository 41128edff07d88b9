\* Two peers, which may leave: writes and deletions in any order, a restart.
SPECIFICATION TableFairSpec
CONSTANTS
    Peers = {p1, p2}
    Absent = Absent
    StaleAge = 1
    DbStaleAge = 2
    MaxPending = 2
    MaxCrashes = 1
INVARIANTS NeverRejuvenated
PROPERTIES LivePeersReturn GoneAreForgotten
