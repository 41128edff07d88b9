\* A line: messages reach a through b, whatever is lost or down meanwhile.
SPECIFICATION FairSpec
CONSTANTS
    a = a
    b = b
    c = c
    m1 = m1
    Nodes <- LineNodes
    Askers = {a}
    Ids = {m1}
    Authors <- FromAC
    Peers <- LinePeers
    MaxFaults = 1
INVARIANTS TypeOK ShownOnce
PROPERTIES CatchesUp
CHECK_DEADLOCK FALSE
