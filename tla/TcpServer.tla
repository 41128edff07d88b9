------------------------------ MODULE TcpServer ------------------------------
(***************************************************************************)
(* The TCP file server of one node (internal/network/tcp.go): the          *)
(* goroutines that run handleConn, one per connection, the upload slots    *)
(* they share, and the two clocks each of them lives by: the I/O deadline  *)
(* of its connection and the 30 seconds it waits for a slot.               *)
(*                                                                         *)
(* All connections ask for one seeded file.  Its record gives the size it  *)
(* had when it was published; the file itself may be changed by its user   *)
(* at any time.  A duration is a number of ticks; a timer that has run out *)
(* is acted upon before the next tick.                                     *)
(***************************************************************************)
EXTENDS Naturals, FiniteSets

CONSTANTS
    Conns,              \* connections that may be open at once
    UploadCap,          \* cfg.MaxConcurrentSyncs, the capacity of sem
    Requests,           \* requests that clients send
    Size,               \* rec.FileSize, the size when published, in units
    MaxLen,             \* bound on the size of the changed file
    MaxChunk,           \* tcpMaxChunkSize, in units
    HandshakeDeadline,  \* tcpHandshakeDeadline (15 s), in ticks
    SlotWait,           \* the time.After of the slot select (30 s), in ticks
    TransferDeadline    \* tcpConnDeadline (5 min), in ticks

Request == [meta : BOOLEAN, offset : Nat, chunk : Nat]

ASSUME ServerAssumption ==
    /\ IsFiniteSet(Conns)
    /\ UploadCap \in Nat \ {0}
    /\ Requests \subseteq Request
    /\ {Size, MaxLen} \subseteq Nat /\ Size <= MaxLen
    /\ MaxChunk \in Nat \ {0}
    /\ {HandshakeDeadline, SlotWait, TransferDeadline} \subseteq Nat \ {0}

VARIABLES
    stopping,   \* ctx has been cancelled
    freeSlots,  \* items in the channel sem
    fileLen,    \* current length of the local file
    pc,         \* control state of each connection's handler
    io,         \* ticks left until each connection's I/O deadline
    wait,       \* ticks left until the slot wait is given up
    req,        \* the request each handler has read
    told,       \* what the client of each connection has been answered
    promised,   \* content_size of the answer
    sent        \* units streamed behind it

timers == <<io, wait>>
answers == <<told, promised, sent>>
vars == <<stopping, freeSlots, fileLen, pc, timers, req, answers>>

Pcs == {"closed", "reading", "lookup", "waiting", "open", "stream", "release"}
Outcomes == {"nothing", "ok", "refused", "busy", "lost"}

NoRequest == [meta |-> TRUE, offset |-> 0, chunk |-> 0]

HoldingPcs == {"open", "stream", "release"}
Holding == {c \in Conns : pc[c] \in HoldingPcs}

BaseType ==
    /\ stopping \in BOOLEAN
    /\ freeSlots \in Nat
    /\ fileLen \in 0..MaxLen
    /\ pc \in [Conns -> Pcs]
    /\ io \in [Conns -> Nat]
    /\ wait \in [Conns -> Nat]
    /\ req \in [Conns -> Requests \cup {NoRequest}]
    /\ told \in [Conns -> Outcomes]
    /\ promised \in [Conns -> Nat]
    /\ sent \in [Conns -> Nat]

\* The variables have their types; giving a slot back never finds sem full.
TypeOK == BaseType /\ freeSlots <= UploadCap

Init ==
    /\ stopping = FALSE
    /\ freeSlots = UploadCap
    /\ fileLen = Size
    /\ pc = [c \in Conns |-> "closed"]
    /\ io = [c \in Conns |-> 0]
    /\ wait = [c \in Conns |-> 0]
    /\ req = [c \in Conns |-> NoRequest]
    /\ told = [c \in Conns |-> "nothing"]
    /\ promised = [c \in Conns |-> 0]
    /\ sent = [c \in Conns |-> 0]

Goes(c, to) == pc' = [pc EXCEPT ![c] = to]

\* writeErrorResponse: its error is dropped, a write after the deadline too.
Reply(c, answer) ==
    /\ told' = [told EXCEPT ![c] = IF io[c] > 0 THEN answer ELSE "lost"]
    /\ UNCHANGED <<promised, sent>>

-----------------------------------------------------------------------------
\* Run's accept loop and the handshake deadline.
Accept(c) ==
    /\ ~stopping
    /\ pc[c] = "closed"
    /\ Goes(c, "reading")
    /\ io' = [io EXCEPT ![c] = HandshakeDeadline]
    /\ told' = [told EXCEPT ![c] = "nothing"]
    /\ promised' = [promised EXCEPT ![c] = 0]
    /\ sent' = [sent EXCEPT ![c] = 0]
    /\ UNCHANGED <<stopping, freeSlots, fileLen, wait, req>>

\* The request line arrives; a malformed one is refused.
ReadRequest(c, r) ==
    /\ pc[c] = "reading"
    /\ io[c] > 0
    /\ \/ /\ Goes(c, "lookup")
          /\ req' = [req EXCEPT ![c] = r]
          /\ UNCHANGED answers
       \/ /\ Goes(c, "closed")
          /\ Reply(c, "refused")
          /\ UNCHANGED req
    /\ UNCHANGED <<stopping, freeSlots, fileLen, timers>>

\* The deadline passes before a request has come.
ReadTimesOut(c) ==
    /\ pc[c] = "reading"
    /\ io[c] = 0
    /\ Goes(c, "closed")
    /\ UNCHANGED <<stopping, freeSlots, fileLen, timers, req, answers>>

\* GetFile and the checks of the record; then the select on sem.
Lookup(c) ==
    /\ pc[c] = "lookup"
    /\ \/ /\ Goes(c, "waiting")
          /\ wait' = [wait EXCEPT ![c] = SlotWait]
          /\ UNCHANGED answers
       \/ /\ Goes(c, "closed")
          /\ Reply(c, "refused")
          /\ UNCHANGED wait
    /\ UNCHANGED <<stopping, freeSlots, fileLen, io, req>>

AcquireSlot(c) ==
    /\ pc[c] = "waiting"
    /\ freeSlots > 0
    /\ freeSlots' = freeSlots - 1
    /\ Goes(c, "open")
    /\ wait' = [wait EXCEPT ![c] = 0]
    /\ UNCHANGED <<stopping, fileLen, io, req, answers>>

\* The select's other two cases: time.After and ctx.Done.
GiveUpWaiting(c) ==
    /\ pc[c] = "waiting"
    /\ \/ wait[c] = 0 /\ Reply(c, "busy")
       \/ stopping /\ Reply(c, "refused")
    /\ wait' = [wait EXCEPT ![c] = 0]
    /\ Goes(c, "closed")
    /\ UNCHANGED <<stopping, freeSlots, fileLen, io, req>>

SmallerOf(a, b) == IF a < b THEN a ELSE b

ContentSize_Current(r) ==   \* mutant: computed from the file as it is now
    IF r.meta THEN 0
    ELSE IF r.chunk > 0 THEN SmallerOf(SmallerOf(r.chunk, MaxChunk), fileLen - r.offset)
    ELSE fileLen - r.offset
\* How much of the snapshot an answer carries.
ContentSize(r) ==
    IF r.meta THEN 0
    ELSE IF r.chunk > 0 THEN SmallerOf(SmallerOf(r.chunk, MaxChunk), Size - r.offset)
    ELSE Size - r.offset

\* Open the file, compare it with the record, answer.
OpenFile(c) ==
    /\ pc[c] = "open"
    /\ \/ /\ fileLen >= Size
          /\ req[c].offset <= Size
          /\ io' = [io EXCEPT ![c] = TransferDeadline]
          /\ told' = [told EXCEPT ![c] = "ok"]
          /\ promised' = [promised EXCEPT ![c] = ContentSize(req[c])]
          /\ UNCHANGED sent
          /\ Goes(c, "stream")
       \/ \* the file cannot be opened, has shrunk, or ends before the offset
          /\ Reply(c, "refused")
          /\ UNCHANGED io
          /\ Goes(c, "release")
    /\ UNCHANGED <<stopping, freeSlots, fileLen, wait, req>>

StreamUnit(c) ==
    /\ pc[c] = "stream"
    /\ io[c] > 0
    /\ sent[c] < promised[c]
    /\ req[c].offset + sent[c] < fileLen
    /\ sent' = [sent EXCEPT ![c] = @ + 1]
    /\ UNCHANGED <<stopping, freeSlots, fileLen, pc, timers, req, told, promised>>

MustStop_Never(c) == FALSE  \* mutant: a stalled write is not interrupted
\* The I/O deadline fails the write that is going on.
MustStop(c) == io[c] = 0

StreamEnds(c) ==
    /\ pc[c] = "stream"
    /\ \/ sent[c] = promised[c]
       \/ req[c].offset + sent[c] >= fileLen
       \/ MustStop(c)
    /\ Goes(c, "release")
    /\ UNCHANGED <<stopping, freeSlots, fileLen, timers, req, answers>>

\* The client closes its end: reads and writes fail at once.
ClientLeaves(c) ==
    /\ \/ pc[c] = "reading" /\ Goes(c, "closed")
       \/ pc[c] = "stream" /\ Goes(c, "release")
    /\ UNCHANGED <<stopping, freeSlots, fileLen, timers, req, answers>>

SlotsAfter_Answered(c) ==   \* mutant: a refused connection keeps its slot
    freeSlots + (IF told[c] = "ok" THEN 1 ELSE 0)
SlotsAfter(c) == freeSlots + 1

\* The deferred release.
ReleaseSlot(c) ==
    /\ pc[c] = "release"
    /\ freeSlots' = SlotsAfter(c)
    /\ Goes(c, "closed")
    /\ UNCHANGED <<stopping, fileLen, timers, req, answers>>

-----------------------------------------------------------------------------
Left(t) == IF t > 0 THEN t - 1 ELSE 0

RunOut(c) == \/ pc[c] \in {"reading", "stream"} /\ io[c] = 0
             \/ pc[c] = "waiting" /\ wait[c] = 0

Tick ==
    /\ \A c \in Conns : ~RunOut(c)
    /\ \E c \in Conns : pc[c] # "closed" /\ (io[c] > 0 \/ wait[c] > 0)
    /\ io' = [c \in Conns |-> IF pc[c] = "closed" THEN io[c] ELSE Left(io[c])]
    /\ wait' = [c \in Conns |-> Left(wait[c])]
    /\ UNCHANGED <<stopping, freeSlots, fileLen, pc, req, answers>>

\* The user edits the published file.
FileChanges ==
    /\ fileLen' \in 0..MaxLen
    /\ UNCHANGED <<stopping, freeSlots, pc, timers, req, answers>>

Stop ==
    /\ ~stopping
    /\ stopping' = TRUE
    /\ UNCHANGED <<freeSlots, fileLen, pc, timers, req, answers>>

\* What the handler does by itself, without its client.
Handler(c) ==
    \/ ReadTimesOut(c) \/ Lookup(c) \/ AcquireSlot(c) \/ GiveUpWaiting(c)
    \/ OpenFile(c) \/ StreamEnds(c) \/ ReleaseSlot(c)

Client(c) == \/ Accept(c) \/ StreamUnit(c) \/ ClientLeaves(c)
             \/ \E r \in Requests : ReadRequest(c, r)

Next == Tick \/ FileChanges \/ Stop \/ \E c \in Conns : Handler(c) \/ Client(c)

Spec == Init /\ [][Next]_vars

(* Time passes and handlers run on; clients owe nothing.                   *)
FairSpec == Spec /\ WF_vars(Tick) /\ \A c \in Conns : WF_vars(Handler(c))

-----------------------------------------------------------------------------
\* Every return of handleConn behind the slot select gives the slot back, and no
\* return before it does: the cap on concurrent uploads never drifts.
SlotsConserved == freeSlots + Cardinality(Holding) = UploadCap

\* tcp.go:276-277: what the client is sent never reaches beyond the published
\* size, however the file has grown since; and a client that asks for the rest
\* of the file is never answered with nothing, which it would take for a failure.
AnswersFitSnapshot ==
    \A c \in Conns : told[c] = "ok" =>
        /\ req[c].offset + promised[c] <= Size
        /\ sent[c] <= promised[c]
        /\ ~req[c].meta /\ req[c].offset < Size => promised[c] > 0

\* tcp.go:14-15: a stalled peer cannot hold a slot indefinitely: every connection
\* is closed by the server, whatever its client does.
ConnectionsEnd == \A c \in Conns : pc[c] # "closed" ~> pc[c] = "closed"

\* tcp.go:260: the peer is told to retry later when all upload slots are busy.
BusyIsTold ==
    [][\A c \in Conns : /\ pc[c] = "waiting" /\ wait[c] = 0 /\ pc'[c] = "closed"
                        /\ freeSlots = 0 /\ ~stopping
          => told'[c] = "busy"]_vars

=============================================================================
