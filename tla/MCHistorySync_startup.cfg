\* The startup request is made before the socket is open.
SPECIFICATION Spec
CONSTANTS
    a = a
    b = b
    c = c
    m1 = m1
    Nodes <- PairNodes
    Askers = {a}
    Ids = {m1}
    Authors <- FromB
    Peers <- PairPeers
    MaxFaults = 1
PROPERTIES StartupAsksPeers
CHECK_DEADLOCK FALSE
