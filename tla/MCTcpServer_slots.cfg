\* Two connections, one slot, every kind of request, clients that stall or leave.
SPECIFICATION FairSpec
CONSTANTS
    Conns = {c1, c2}
    UploadCap = 1
    Requests <- Asked
    Size = 2
    MaxLen = 3
    MaxChunk = 1
    HandshakeDeadline = 1
    SlotWait = 2
    TransferDeadline = 3
INVARIANTS SlotsConserved AnswersFitSnapshot
PROPERTIES ConnectionsEnd
