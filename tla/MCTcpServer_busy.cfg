\* The busy reply comes after the handshake deadline.
SPECIFICATION Spec
CONSTANTS
    Conns = {c1, c2}
    UploadCap = 1
    Requests <- Whole
    Size = 1
    MaxLen = 1
    MaxChunk = 1
    HandshakeDeadline = 1
    SlotWait = 2
    TransferDeadline = 3
PROPERTIES BusyIsTold
