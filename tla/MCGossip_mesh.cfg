\* A ring and two ways into it: loss, repetition, expiring seen entries, a
\* restart, a refused insertion.
SPECIFICATION FairSpec
CONSTANTS
    a = a
    b = b
    c = c
    d = d
    m1 = m1
    Nodes <- Four
    Ids = {m1}
    OriginOf <- OneMessage
    Peers <- Ways
    Lan <- Segment
    InitTTL = 3
    Expiry = TRUE
    MaxLosses = 1
    MaxDups = 1
    MaxCrashes = 1
    MaxDbFails = 1
INVARIANTS TypeOK ShownOnce
PROPERTIES FloodsEnd ImplementsBroadcast ReachesEveryNode
CHECK_DEADLOCK FALSE
