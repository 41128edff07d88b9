--------------------------- MODULE TcpServerProofs ---------------------------
(* Proofs about TcpServer for every set of connections and requests, every  *)
(* number of upload slots, every file size and every duration.              *)
EXTENDS TcpServer, FiniteSetTheorems, TLAPS

USE ServerAssumption

-----------------------------------------------------------------------------
(* Types.                                                                  *)

\* A request that is read is a request, and so is the one there is at first.
LEMMA RequestsTyped == Requests \cup {NoRequest} \subseteq Request
<1>1. NoRequest \in Request
  BY DEF NoRequest, Request
<1> QED
  BY <1>1

\* What an answer promises within the snapshot is a number, fits behind the
\* offset, and is not nothing while there is something left.
LEMMA ContentFits ==
    ASSUME NEW r \in Request, r.offset <= Size
    PROVE  /\ ContentSize(r) \in Nat
           /\ r.offset + ContentSize(r) <= Size
           /\ ~r.meta /\ r.offset < Size => ContentSize(r) > 0
<1>1. r.offset \in Nat /\ r.chunk \in Nat
  BY DEF Request
<1> QED
  BY <1>1 DEF ContentSize, SmallerOf

\* The initial state has the right types.
LEMMA BaseTypeInit == Init => BaseType
<1> SUFFICES ASSUME Init PROVE BaseType
  OBVIOUS
<1>1. Size \in 0..MaxLen
  OBVIOUS
<1> QED
  BY <1>1 DEF Init, BaseType, Pcs, Outcomes

\* Every step keeps the types.
LEMMA BaseTypeStep == BaseType /\ [Next]_vars => BaseType'
<1> SUFFICES ASSUME BaseType, [Next]_vars PROVE BaseType'
  OBVIOUS
<1> USE DEF BaseType, timers, answers, Goes, Pcs, Outcomes
<1>1. CASE Tick
  <2>1. \A t \in Nat : Left(t) \in Nat
    BY DEF Left
  <2> QED
    BY <1>1, <2>1 DEF Tick
<1>2. CASE FileChanges
  BY <1>2 DEF FileChanges
<1>3. CASE Stop
  BY <1>3 DEF Stop
<1>4. ASSUME NEW c \in Conns, Accept(c) PROVE BaseType'
  BY <1>4 DEF Accept
<1>5. ASSUME NEW c \in Conns, NEW r \in Requests, ReadRequest(c, r) PROVE BaseType'
  BY <1>5 DEF ReadRequest, Reply
<1>6. ASSUME NEW c \in Conns, ReadTimesOut(c) PROVE BaseType'
  BY <1>6 DEF ReadTimesOut
<1>7. ASSUME NEW c \in Conns, Lookup(c) PROVE BaseType'
  BY <1>7 DEF Lookup, Reply
<1>8. ASSUME NEW c \in Conns, AcquireSlot(c) PROVE BaseType'
  BY <1>8 DEF AcquireSlot
<1>9. ASSUME NEW c \in Conns, GiveUpWaiting(c) PROVE BaseType'
  BY <1>9 DEF GiveUpWaiting, Reply
<1>10. ASSUME NEW c \in Conns, OpenFile(c) PROVE BaseType'
  <2>1. req[c] \in Request
    BY RequestsTyped
  <2>2. req[c].offset <= Size => ContentSize(req[c]) \in Nat
    BY <2>1, ContentFits
  <2> QED
    BY <1>10, <2>2 DEF OpenFile, Reply
<1>11. ASSUME NEW c \in Conns, StreamUnit(c) PROVE BaseType'
  BY <1>11 DEF StreamUnit
<1>12. ASSUME NEW c \in Conns, StreamEnds(c) PROVE BaseType'
  BY <1>12 DEF StreamEnds
<1>13. ASSUME NEW c \in Conns, ClientLeaves(c) PROVE BaseType'
  BY <1>13 DEF ClientLeaves
<1>14. ASSUME NEW c \in Conns, ReleaseSlot(c) PROVE BaseType'
  BY <1>14 DEF ReleaseSlot, SlotsAfter
<1>15. CASE UNCHANGED vars
  BY <1>15 DEF vars
<1> QED
  BY <1>1, <1>2, <1>3, <1>4, <1>5, <1>6, <1>7, <1>8, <1>9, <1>10, <1>11, <1>12,
     <1>13, <1>14, <1>15 DEF Next, Handler, Client

-----------------------------------------------------------------------------
(* The upload slots.                                                       *)

\* A step that leaves sem alone leaves the set of its holders alone.
LEMMA HoldersStay ==
    ASSUME BaseType, [Next]_vars,
           \A c \in Conns : ~AcquireSlot(c) /\ ~ReleaseSlot(c)
    PROVE  Holding' = Holding /\ freeSlots' = freeSlots
<1> USE DEF BaseType, Holding, HoldingPcs, Goes, timers, answers
<1>1. CASE Tick \/ FileChanges \/ Stop
  BY <1>1 DEF Tick, FileChanges, Stop
<1>2. ASSUME NEW c \in Conns, Handler(c)
      PROVE  Holding' = Holding /\ freeSlots' = freeSlots
  BY <1>2 DEF Handler, ReadTimesOut, Lookup, GiveUpWaiting, OpenFile, StreamEnds
<1>3. ASSUME NEW c \in Conns, Client(c)
      PROVE  Holding' = Holding /\ freeSlots' = freeSlots
  BY <1>3 DEF Client, Accept, StreamUnit, ClientLeaves, ReadRequest
<1>4. CASE UNCHANGED vars
  BY <1>4 DEF vars
<1> QED
  BY <1>1, <1>2, <1>3, <1>4 DEF Next

\* A step takes a slot out of sem for one connection, gives one back, or neither.
LEMMA SlotStep == BaseType /\ SlotsConserved /\ [Next]_vars => SlotsConserved'
<1> SUFFICES ASSUME BaseType, SlotsConserved, [Next]_vars PROVE SlotsConserved'
  OBVIOUS
<1>0. IsFiniteSet(Holding) /\ Cardinality(Holding) \in Nat
  BY FS_Subset, FS_CardinalityType DEF Holding
<1>1. ASSUME NEW c \in Conns, AcquireSlot(c) PROVE SlotsConserved'
  <2>1. Holding' = Holding \cup {c} /\ c \notin Holding
    BY <1>1 DEF AcquireSlot, Goes, Holding, HoldingPcs, BaseType
  <2>2. Cardinality(Holding') = Cardinality(Holding) + 1
    BY <1>0, <2>1, FS_AddElement
  <2> QED
    BY <1>0, <1>1, <2>2 DEF AcquireSlot, SlotsConserved, BaseType
<1>2. ASSUME NEW c \in Conns, ReleaseSlot(c) PROVE SlotsConserved'
  <2>1. Holding' = Holding \ {c} /\ c \in Holding
    BY <1>2 DEF ReleaseSlot, Goes, Holding, HoldingPcs, BaseType
  <2>2. Cardinality(Holding') = Cardinality(Holding) - 1
    BY <1>0, <2>1, FS_RemoveElement
  <2> QED
    BY <1>0, <1>2, <2>2 DEF ReleaseSlot, SlotsAfter, SlotsConserved, BaseType
<1>3. CASE \A c \in Conns : ~AcquireSlot(c) /\ ~ReleaseSlot(c)
  BY <1>3, HoldersStay DEF SlotsConserved
<1> QED
  BY <1>1, <1>2, <1>3

-----------------------------------------------------------------------------
(* Answers.  That they fit the snapshot is inductive only together with     *)
(* where a handler can be once it has answered "ok", for a request is never *)
(* read behind an answer that stands, and with what it has sent before.     *)

AnsweredPcs == \A c \in Conns : told[c] = "ok" => pc[c] \in {"stream", "release", "closed"}
NothingSentYet ==
    \A c \in Conns : pc[c] \in {"reading", "lookup", "waiting", "open"} => sent[c] = 0

AnswerInv == AnsweredPcs /\ NothingSentYet /\ AnswersFitSnapshot

\* Every step keeps what has been answered within the snapshot.
LEMMA AnswerStep == BaseType /\ AnswerInv /\ [Next]_vars => AnswerInv'
<1> SUFFICES ASSUME BaseType, AnswerInv, [Next]_vars PROVE AnswerInv'
  OBVIOUS
<1> USE DEF AnswerInv, AnsweredPcs, NothingSentYet, AnswersFitSnapshot, BaseType, timers, answers, Goes
<1>1. CASE Tick \/ FileChanges \/ Stop
  BY <1>1 DEF Tick, FileChanges, Stop
<1>2. ASSUME NEW c \in Conns, Accept(c) PROVE AnswerInv'
  BY <1>2 DEF Accept
<1>3. ASSUME NEW c \in Conns, NEW r \in Requests, ReadRequest(c, r) PROVE AnswerInv'
  BY <1>3 DEF ReadRequest, Reply
<1>4. ASSUME NEW c \in Conns,
             ReadTimesOut(c) \/ StreamEnds(c) \/ ClientLeaves(c) \/ ReleaseSlot(c)
      PROVE AnswerInv'
  BY <1>4 DEF ReadTimesOut, StreamEnds, ClientLeaves, ReleaseSlot
<1>5. ASSUME NEW c \in Conns, Lookup(c) \/ AcquireSlot(c) \/ GiveUpWaiting(c)
      PROVE AnswerInv'
  BY <1>5 DEF Lookup, AcquireSlot, GiveUpWaiting, Reply
<1>6. ASSUME NEW c \in Conns, OpenFile(c) PROVE AnswerInv'
  <2>1. req[c] \in Request
    BY RequestsTyped
  <2>2. CASE told' = [told EXCEPT ![c] = "ok"]
    <3>1. req[c].offset <= Size /\ promised' = [promised EXCEPT ![c] = ContentSize(req[c])]
      BY <1>6, <2>2 DEF OpenFile, Reply
    <3>2. /\ ContentSize(req[c]) \in Nat
          /\ req[c].offset + ContentSize(req[c]) <= Size
          /\ ~req[c].meta /\ req[c].offset < Size => ContentSize(req[c]) > 0
      BY <2>1, <3>1, ContentFits
    <3>3. sent[c] = 0
      BY <1>6 DEF OpenFile
    <3>4. Goes(c, "stream") /\ req' = req /\ sent' = sent
      BY <1>6, <2>2 DEF OpenFile, Reply
    <3> QED
      BY <2>2, <3>1, <3>2, <3>3, <3>4
  <2>3. CASE Reply(c, "refused") /\ Goes(c, "release") /\ req' = req
    BY <2>3 DEF Reply
  <2> QED
    BY <1>6, <2>2, <2>3 DEF OpenFile
<1>7. ASSUME NEW c \in Conns, StreamUnit(c) PROVE AnswerInv'
  BY <1>7 DEF StreamUnit
<1>8. CASE UNCHANGED vars
  BY <1>8 DEF vars
<1> QED
  BY <1>1, <1>2, <1>3, <1>4, <1>5, <1>6, <1>7, <1>8 DEF Next, Handler, Client

-----------------------------------------------------------------------------
(* The inductive invariant and the theorems that follow from it.           *)

IInv == BaseType /\ SlotsConserved /\ AnswerInv

\* IInv holds in every reachable state.
THEOREM Invariance == Spec => []IInv
<1>1. Init => IInv
  <2> SUFFICES ASSUME Init PROVE IInv
    OBVIOUS
  <2>1. Holding = {}
    BY DEF Init, Holding, HoldingPcs
  <2>2. SlotsConserved
    BY <2>1, FS_EmptySet DEF Init, SlotsConserved
  <2>3. AnswerInv
    BY DEF Init, AnswerInv, AnsweredPcs, NothingSentYet, AnswersFitSnapshot
  <2> QED
    BY <2>2, <2>3, BaseTypeInit DEF IInv
<1>2. IInv /\ [Next]_vars => IInv'
  BY BaseTypeStep, SlotStep, AnswerStep DEF IInv
<1> QED
  BY <1>1, <1>2, PTL DEF Spec

\* On every path through handleConn behind the slot select the slot is given
\* back, and on no other: slots and holders always add up to the cap.
THEOREM Slots == Spec => []SlotsConserved
<1>1. IInv => SlotsConserved
  BY DEF IInv
<1> QED
  BY <1>1, Invariance, PTL

\* The variables keep their types, and a slot that is given back always finds
\* room in sem, so the deferred release never blocks.
THEOREM TypeCorrect == Spec => []TypeOK
<1>1. IInv => TypeOK
  <2> SUFFICES ASSUME IInv PROVE TypeOK
    OBVIOUS
  <2>1. Cardinality(Holding) \in Nat
    BY FS_Subset, FS_CardinalityType DEF Holding
  <2> QED
    BY <2>1 DEF IInv, SlotsConserved, TypeOK, BaseType
<1> QED
  BY <1>1, Invariance, PTL

\* However the published file has changed since, no answer promises or sends
\* anything beyond the published size, and none is empty while something of the
\* snapshot is left behind the offset.
THEOREM Answers == Spec => []AnswersFitSnapshot
<1>1. IInv => AnswersFitSnapshot
  BY DEF IInv, AnswerInv
<1> QED
  BY <1>1, Invariance, PTL

-----------------------------------------------------------------------------
(* How long a connection can last.  Its fuel counts the ticks, the units and *)
(* the steps of its handler that are left to it at most.                     *)

Afterwards == TransferDeadline + Size

Fuel(c) ==
    IF pc[c] = "reading" THEN 6 + io[c] + SlotWait + Afterwards
    ELSE IF pc[c] = "lookup" THEN 5 + SlotWait + Afterwards
    ELSE IF pc[c] = "waiting" THEN 4 + wait[c] + Afterwards
    ELSE IF pc[c] = "open" THEN 3 + Afterwards
    ELSE IF pc[c] = "stream" THEN 2 + io[c] + (promised[c] - sent[c])
    ELSE IF pc[c] = "release" THEN 1
    ELSE 0

FullTank == 6 + HandshakeDeadline + SlotWait + Afterwards

\* A connection that streams has been answered, and none has more fuel than it
\* was accepted with.
StreamAnswered == \A c \in Conns : pc[c] = "stream" => told[c] = "ok"
TankIsEnough == \A c \in Conns : Fuel(c) \in 0..FullTank

FuelInv == IInv /\ StreamAnswered /\ TankIsEnough

\* While a connection is open, whatever it does or its client makes it do uses
\* fuel, and so does each tick that its handler may spend waiting; nothing that
\* other connections, the user or the daemon do gives it any back.
FuelIsUsed ==
    \A c \in Conns : pc[c] # "closed" =>
        /\ Fuel(c)' <= Fuel(c)
        /\ Handler(c) \/ Client(c) => Fuel(c)' < Fuel(c)
        /\ Tick /\ pc[c] \in {"reading", "waiting", "stream"} => Fuel(c)' < Fuel(c)

\* A step of connection c touches no other connection.
LEMMA OthersRest ==
    ASSUME BaseType, NEW c \in Conns, Handler(c) \/ Client(c),
           NEW e \in Conns, e # c
    PROVE  /\ pc'[e] = pc[e] /\ io'[e] = io[e] /\ wait'[e] = wait[e]
           /\ told'[e] = told[e] /\ promised'[e] = promised[e] /\ sent'[e] = sent[e]
<1> USE DEF BaseType, timers, answers, Goes
<1>1. CASE ReadTimesOut(c) \/ AcquireSlot(c) \/ StreamEnds(c) \/ ReleaseSlot(c)
  BY <1>1 DEF ReadTimesOut, AcquireSlot, StreamEnds, ReleaseSlot
<1>2. CASE Lookup(c) \/ GiveUpWaiting(c) \/ OpenFile(c)
  BY <1>2 DEF Lookup, GiveUpWaiting, OpenFile, Reply
<1>3. CASE Accept(c) \/ StreamUnit(c) \/ ClientLeaves(c)
  BY <1>3 DEF Accept, StreamUnit, ClientLeaves
<1>4. ASSUME NEW r \in Requests, ReadRequest(c, r)
      PROVE  /\ pc'[e] = pc[e] /\ io'[e] = io[e] /\ wait'[e] = wait[e]
             /\ told'[e] = told[e] /\ promised'[e] = promised[e] /\ sent'[e] = sent[e]
  BY <1>4 DEF ReadRequest, Reply
<1> QED
  BY <1>1, <1>2, <1>3, <1>4 DEF Handler, Client

\* What the fuel of a connection that streams is made of.
LEMMA StreamFuel ==
    ASSUME FuelInv, NEW c \in Conns, pc[c] = "stream"
    PROVE  promised[c] - sent[c] \in Nat /\ promised[c] <= Size
<1>1. told[c] = "ok"
  BY DEF FuelInv, StreamAnswered
<1>2. req[c] \in Request /\ sent[c] \in Nat /\ promised[c] \in Nat
  BY RequestsTyped DEF FuelInv, IInv, BaseType
<1>3. req[c].offset \in Nat
  BY <1>2 DEF Request
<1>4. req[c].offset + promised[c] <= Size /\ sent[c] <= promised[c]
  BY <1>1 DEF FuelInv, IInv, AnswerInv, AnswersFitSnapshot
<1> QED
  BY <1>2, <1>3, <1>4

\* A connection's own step, as far as its fuel is concerned.
LEMMA OwnStep ==
    ASSUME FuelInv, NEW c \in Conns, Handler(c) \/ Client(c)
    PROVE  /\ pc[c] # "closed" => Fuel(c)' < Fuel(c)
           /\ pc[c] = "closed" => Fuel(c)' <= FullTank
           /\ Fuel(c)' >= 0
           /\ pc'[c] = "stream" => told'[c] = "ok"
<1> USE DEF FuelInv, IInv, BaseType, timers, answers, Goes
<1>t. io[c] \in Nat /\ wait[c] \in Nat /\ sent[c] \in Nat /\ promised[c] \in Nat
  OBVIOUS
<1>1. CASE ReadTimesOut(c)
  BY <1>1, <1>t DEF ReadTimesOut, Fuel, FullTank, Afterwards
<1>2. CASE Lookup(c)
  BY <1>2, <1>t DEF Lookup, Reply, Fuel, FullTank, Afterwards
<1>3. CASE AcquireSlot(c)
  BY <1>3, <1>t DEF AcquireSlot, Fuel, FullTank, Afterwards
<1>4. CASE GiveUpWaiting(c)
  BY <1>4, <1>t DEF GiveUpWaiting, Reply, Fuel, FullTank, Afterwards
<1>5. CASE OpenFile(c)
  <2>1. pc[c] = "open" /\ Fuel(c) = 3 + Afterwards
    BY <1>5 DEF OpenFile, Fuel
  <2>2. CASE /\ req[c].offset <= Size
             /\ io' = [io EXCEPT ![c] = TransferDeadline]
             /\ told' = [told EXCEPT ![c] = "ok"]
             /\ promised' = [promised EXCEPT ![c] = ContentSize(req[c])]
             /\ UNCHANGED sent
             /\ Goes(c, "stream")
    <3>1. req[c] \in Request /\ req[c].offset \in Nat
      BY RequestsTyped DEF Request
    <3>2. ContentSize(req[c]) \in Nat /\ ContentSize(req[c]) <= Size
      BY <2>2, <3>1, ContentFits
    <3>3. sent[c] = 0
      BY <2>1 DEF AnswerInv, NothingSentYet
    <3>4. /\ pc'[c] = "stream" /\ told'[c] = "ok" /\ io'[c] = TransferDeadline
          /\ promised'[c] = ContentSize(req[c]) /\ sent'[c] = 0
      BY <2>2, <3>3
    <3>5. Fuel(c)' = 2 + TransferDeadline + ContentSize(req[c])
      BY <3>2, <3>4 DEF Fuel
    <3> QED
      BY <2>1, <3>2, <3>4, <3>5 DEF Afterwards
  <2>3. CASE Goes(c, "release")
    <3>1. pc'[c] = "release" /\ Fuel(c)' = 1
      BY <2>3 DEF Fuel
    <3> QED
      BY <2>1, <3>1 DEF Afterwards
  <2> QED
    BY <1>5, <2>2, <2>3 DEF OpenFile
<1>6. CASE StreamEnds(c)
  <2>1. pc[c] = "stream" /\ pc'[c] = "release"
    BY <1>6 DEF StreamEnds
  <2>2. Fuel(c) >= 2 /\ Fuel(c)' = 1
    BY <1>t, <2>1, StreamFuel DEF Fuel
  <2> QED
    BY <1>t, <2>1, <2>2, StreamFuel DEF Fuel
<1>7. CASE ReleaseSlot(c)
  BY <1>7 DEF ReleaseSlot, Fuel
<1>8. CASE Accept(c)
  <2>1. pc[c] = "closed" /\ pc'[c] = "reading" /\ io'[c] = HandshakeDeadline
    BY <1>8 DEF Accept
  <2> QED
    BY <2>1 DEF Fuel, FullTank, Afterwards
<1>9. CASE StreamUnit(c)
  <2>1. /\ pc[c] = "stream" /\ pc'[c] = "stream" /\ io'[c] = io[c] /\ told'[c] = told[c]
        /\ promised'[c] = promised[c] /\ sent'[c] = sent[c] + 1 /\ sent[c] < promised[c]
    BY <1>9 DEF StreamUnit
  <2>2. told[c] = "ok"
    BY <2>1 DEF StreamAnswered
  <2> QED
    BY <1>t, <2>1, <2>2 DEF Fuel
<1>10. CASE ClientLeaves(c)
  <2>1. CASE pc[c] = "reading" /\ Goes(c, "closed")
    <3>1. pc'[c] = "closed"
      BY <2>1
    <3> QED
      BY <1>t, <2>1, <3>1 DEF Fuel, Afterwards
  <2>2. CASE pc[c] = "stream" /\ Goes(c, "release")
    <3>1. pc'[c] = "release"
      BY <2>2
    <3> QED
      BY <1>t, <2>2, <3>1, StreamFuel DEF Fuel
  <2> QED
    BY <1>10, <2>1, <2>2 DEF ClientLeaves
<1>11. ASSUME NEW r \in Requests, ReadRequest(c, r)
       PROVE  /\ pc[c] = "reading" /\ Fuel(c)' >= 0 /\ Fuel(c)' < Fuel(c)
              /\ pc'[c] # "stream"
  <2>1. pc[c] = "reading" /\ (pc'[c] = "lookup" \/ pc'[c] = "closed")
    BY <1>11 DEF ReadRequest
  <2> QED
    BY <1>t, <2>1 DEF Fuel, Afterwards
<1> QED
  BY <1>1, <1>2, <1>3, <1>4, <1>5, <1>6, <1>7, <1>8, <1>9, <1>10, <1>11 DEF Handler, Client

\* A tick takes fuel from every connection whose handler waits.
LEMMA TickFuel ==
    ASSUME FuelInv, Tick, NEW c \in Conns
    PROVE  /\ Fuel(c)' \in 0..Fuel(c)
           /\ pc[c] \in {"reading", "waiting", "stream"} => Fuel(c)' < Fuel(c)
           /\ UNCHANGED <<pc, told>>
<1> USE DEF FuelInv, IInv, BaseType, answers
<1>1. /\ pc' = pc /\ promised' = promised /\ sent' = sent /\ told' = told
      /\ io'[c] = IF pc[c] = "closed" THEN io[c] ELSE Left(io[c])
      /\ wait'[c] = Left(wait[c])
      /\ ~RunOut(c)
  BY DEF Tick
<1>2. /\ pc[c] \in {"reading", "stream"} => io[c] > 0
      /\ pc[c] = "waiting" => wait[c] > 0
  BY <1>1 DEF RunOut
<1>3. io[c] \in Nat /\ wait[c] \in Nat
  OBVIOUS
<1>4. CASE pc[c] = "stream"
  <2>1. io'[c] = io[c] - 1 /\ io[c] - 1 \in Nat
    BY <1>1, <1>2, <1>3, <1>4 DEF Left
  <2>2. Fuel(c) = 2 + io[c] + (promised[c] - sent[c])
    BY <1>4 DEF Fuel
  <2>3. Fuel(c)' = 2 + (io[c] - 1) + (promised[c] - sent[c])
    BY <1>1, <1>4, <2>1 DEF Fuel
  <2>4. promised[c] - sent[c] \in Nat
    BY <1>4, StreamFuel
  <2> QED
    BY <1>1, <1>3, <2>1, <2>2, <2>3, <2>4
<1>5. CASE pc[c] # "stream"
  BY <1>1, <1>2, <1>3, <1>5 DEF Fuel, Left, Afterwards
<1> QED
  BY <1>4, <1>5

\* What no step of connection c's own changes but time, or not even that.
LEMMA FuelKept ==
    ASSUME FuelInv, [Next]_vars, NEW c \in Conns, ~Handler(c), ~Client(c)
    PROVE  /\ Fuel(c)' \in 0..Fuel(c)
           /\ pc'[c] = pc[c] /\ told'[c] = told[c]
<1>0. Fuel(c) \in 0..FullTank /\ BaseType
  BY DEF FuelInv, TankIsEnough, IInv
<1>1. CASE Tick
  BY <1>1, TickFuel
<1>2. CASE FileChanges \/ Stop \/ UNCHANGED vars
  <2>1. UNCHANGED <<pc, io, wait, told, promised, sent>>
    BY <1>2 DEF FileChanges, Stop, vars, timers, answers
  <2>2. Fuel(c)' = Fuel(c)
    BY <2>1 DEF Fuel
  <2> QED
    BY <1>0, <2>1, <2>2 DEF FullTank, Afterwards
<1>3. ASSUME NEW e \in Conns, Handler(e) \/ Client(e)
      PROVE  /\ Fuel(c)' \in 0..Fuel(c)
             /\ pc'[c] = pc[c] /\ told'[c] = told[c]
  <2>1. /\ pc'[c] = pc[c] /\ io'[c] = io[c] /\ wait'[c] = wait[c]
        /\ told'[c] = told[c] /\ promised'[c] = promised[c] /\ sent'[c] = sent[c]
    BY <1>0, <1>3, OthersRest
  <2>2. Fuel(c)' = Fuel(c)
    BY <2>1 DEF Fuel
  <2> QED
    BY <1>0, <2>1, <2>2 DEF FullTank, Afterwards
<1> QED
  BY <1>1, <1>2, <1>3 DEF Next

\* Every step keeps FuelInv and uses fuel.
LEMMA FuelStep ==
    ASSUME FuelInv, [Next]_vars
    PROVE  FuelInv' /\ FuelIsUsed
<1>1. IInv'
  BY BaseTypeStep, SlotStep, AnswerStep DEF FuelInv, IInv
<1>2. \A c \in Conns : Fuel(c) \in 0..FullTank /\ Fuel(c)' \in Int
  <2>1. \A c \in Conns : Fuel(c)' \in Int
    BY <1>1 DEF IInv, BaseType, Fuel, Afterwards
  <2> QED
    BY <2>1 DEF FuelInv, TankIsEnough
<1>3. FullTank \in Nat
  BY DEF FullTank, Afterwards
<1>4. ASSUME NEW c \in Conns
      PROVE  /\ Fuel(c)' \in 0..FullTank
             /\ pc[c] # "closed" => Fuel(c)' <= Fuel(c)
             /\ pc'[c] = "stream" => told'[c] = "ok"
  <2>1. CASE Handler(c) \/ Client(c)
    BY <1>2, <1>3, <2>1, OwnStep
  <2>2. CASE ~Handler(c) /\ ~Client(c)
    <3>1. Fuel(c)' \in 0..Fuel(c)
      BY <2>2, FuelKept
    <3>2. pc'[c] = pc[c] /\ told'[c] = told[c]
      BY <2>2, FuelKept
    <3>3. pc'[c] = "stream" => told'[c] = "ok"
      BY <3>2 DEF FuelInv, StreamAnswered
    <3> QED
      BY <1>2, <1>3, <3>1, <3>3
  <2> QED
    BY <2>1, <2>2
<1>5. FuelInv'
  BY <1>1, <1>4 DEF FuelInv, StreamAnswered, TankIsEnough, FullTank, Afterwards
<1>6. FuelIsUsed
  BY <1>4, OwnStep, TickFuel DEF FuelIsUsed
<1> QED
  BY <1>5, <1>6

\* tcp.go:14-15, as far as safety goes: from its acceptance to its end a
\* connection has FullTank ticks, units and steps at most, and each uses one up.
\* No client can make it last longer, by stalling or by sending slowly.
THEOREM LifeIsBounded == Spec => []TankIsEnough /\ [][FuelIsUsed]_vars
<1>1. Init => StreamAnswered /\ TankIsEnough
  BY DEF Init, StreamAnswered, TankIsEnough, Fuel, FullTank, Afterwards
<1>2. IInv /\ StreamAnswered /\ TankIsEnough => FuelInv
  BY DEF FuelInv
<1>3. FuelInv => IInv /\ StreamAnswered /\ TankIsEnough
  BY DEF FuelInv
<1>4. FuelInv /\ [Next]_vars => FuelInv' /\ FuelIsUsed
  BY FuelStep
<1> QED
  BY <1>1, <1>2, <1>3, <1>4, Invariance, PTL DEF Spec

=============================================================================
