--------------------------- MODULE FileSyncProofs ---------------------------
(* Proofs about FileSync for every set of hashes, keys, callers and workers *)
(* and every value of the numeric parameters.                               *)
EXTENDS FileSync, FiniteSetTheorems, TLAPS

USE SizesAssumption, SetsAssumption

-----------------------------------------------------------------------------
(* The files bucket's operations keep its type.                            *)

\* UpdateFileStatus yields a well-typed bucket.
LEMMA UpdateTyped ==
    ASSUME files \in [Hashes -> Record \cup {NoRecord}],
           NEW h \in Hashes, NEW s \in Statuses, NEW p \in Paths
    PROVE  UpdateFileStatus(h, s, p) \in [Hashes -> Record \cup {NoRecord}]
<1>1. CASE files[h] = NoRecord
  BY <1>1 DEF UpdateFileStatus
<1>2. CASE files[h] # NoRecord
  <2>1. files[h] \in Record
    BY <1>2
  <2>2. [status |-> s, key |-> files[h].key, path |-> NewPath(files[h].path, p)] \in Record
    BY <2>1 DEF Record, NewPath
  <2> QED
    BY <1>2, <2>2 DEF UpdateFileStatus
<1> QED
  BY <1>1, <1>2

\* InsertFileRecord yields a well-typed bucket.
LEMMA InsertTyped ==
    ASSUME files \in [Hashes -> Record \cup {NoRecord}],
           NEW h \in Hashes, NEW rec \in Record
    PROVE  InsertFileRecord(h, rec) \in [Hashes -> Record \cup {NoRecord}]
BY DEF InsertFileRecord

\* A worker in any control state but "idle" has a job.
LEMMA PcOfActive ==
    ASSUME BaseType, NEW w \in Workers, worker[w].pc # "idle"
    PROVE  worker[w] \in Job /\ worker[w] # Idle
BY DEF BaseType, Idle

\* A caller in one of the states of HandleFileMeta or PullFileByHash has an offer.
LEMMA OfferOf ==
    ASSUME BaseType, NEW c \in Callers, caller[c].pc \in OfferPcs
    PROVE  caller[c] \in Offer
BY DEF BaseType, Idle, OfferPcs, Publication

\* A worker that goes to another control state keeps its job's type.
LEMMA GoesTyped ==
    ASSUME BaseType, NEW w \in Workers, NEW pc \in WorkerPcs,
           worker[w].pc # "idle", WorkerGoes(w, pc)
    PROVE  worker' \in [Workers -> Job \cup {Idle}]
<1>1. worker[w] \in Job
  BY PcOfActive
<1>2. [worker[w] EXCEPT !.pc = pc] \in Job
  BY <1>1 DEF Job
<1> QED
  BY <1>2 DEF WorkerGoes, BaseType

\* A caller that goes on with its offer keeps its type.
LEMMA CallerGoesTyped ==
    ASSUME BaseType, NEW c \in Callers, NEW pc \in OfferPcs,
           caller[c].pc \in OfferPcs, CallerGoes(c, pc)
    PROVE  caller' \in [Callers -> Offer \cup Publication \cup {Idle}]
<1>1. caller[c] \in Offer
  BY OfferOf
<1>2. [caller[c] EXCEPT !.pc = pc] \in Offer
  BY <1>1 DEF Offer
<1> QED
  BY <1>2 DEF CallerGoes, BaseType

\* A caller that returns keeps the type of all callers.
LEMMA CallerEndsTyped ==
    ASSUME BaseType, NEW c \in Callers, CallerEnds(c)
    PROVE  caller' \in [Callers -> Offer \cup Publication \cup {Idle}]
BY DEF CallerEnds, BaseType

-----------------------------------------------------------------------------
(* BaseType is inductive.                                                  *)

\* The initial state has the right types.
LEMMA BaseTypeInit == Init => BaseType
BY DEF Init, BaseType, NoFailures

\* Every step keeps the types.
LEMMA BaseTypeStep == BaseType /\ [Next]_vars => BaseType'
<1> SUFFICES ASSUME BaseType, [Next]_vars PROVE BaseType'
  OBVIOUS
<1>1. CASE ComeUp
  BY <1>1 DEF ComeUp, BaseType, volatile
<1>2. ASSUME NEW h \in Hashes, ResumeRecord(h) PROVE BaseType'
  <2>1. files' \in [Hashes -> Record \cup {NoRecord}]
    BY <1>2, UpdateTyped DEF ResumeRecord, BaseType, Statuses, Paths
  <2> QED
    BY <1>2, <2>1 DEF ResumeRecord, BaseType, volatile
<1>3. CASE Crash
  BY <1>3 DEF Crash, BaseType, NoFailures
<1>4. ASSUME NEW c \in Callers, NEW h \in Hashes, NEW k \in Keys, ReadPrevious(c, h, k)
      PROVE  BaseType'
  <2>1. [pc |-> "checkMode", hash |-> h, key |-> k, auto |-> TRUE] \in Offer
    BY DEF Offer, OfferPcs
  <2> QED
    BY <1>4, <2>1 DEF ReadPrevious, BaseType, volatile
<1>5. ASSUME NEW c \in Callers, CheckMode(c) PROVE BaseType'
  <2>1. caller' \in [Callers -> Offer \cup Publication \cup {Idle}]
    BY <1>5, CallerGoesTyped DEF CheckMode, OfferPcs
  <2> QED
    BY <1>5, <2>1 DEF CheckMode, BaseType, volatile
<1>6. ASSUME NEW c \in Callers, InsertManualOnly(c) PROVE BaseType'
  <2>1. caller[c] \in Offer
    BY <1>6, OfferOf DEF OfferPcs, InsertManualOnly
  <2>2. NewRecord(c, "FAILED") \in Record
    BY <2>1 DEF NewRecord, Record, Offer, Statuses, Paths
  <2>3. files' \in [Hashes -> Record \cup {NoRecord}]
    BY <1>6, <2>1, <2>2, InsertTyped DEF InsertManualOnly, Commit, BaseType, Offer
  <2>4. caller' \in [Callers -> Offer \cup Publication \cup {Idle}]
    BY <1>6, CallerEndsTyped DEF InsertManualOnly
  <2> QED
    BY <1>6, <2>3, <2>4 DEF InsertManualOnly, BaseType, volatile
<1>7. ASSUME NEW c \in Callers, InsertKnown(c) PROVE BaseType'
  <2>1. caller[c] \in Offer
    BY <1>7, OfferOf DEF OfferPcs, InsertKnown
  <2>2. NewRecord(c, "KNOWN") \in Record
    BY <2>1 DEF NewRecord, Record, Offer, Statuses, Paths
  <2>3. files' \in [Hashes -> Record \cup {NoRecord}]
    BY <1>7, <2>1, <2>2, InsertTyped DEF InsertKnown, Commit, BaseType, Offer
  <2>4. caller' \in [Callers -> Offer \cup Publication \cup {Idle}]
    BY <1>7, CallerEndsTyped, CallerGoesTyped DEF InsertKnown, OfferPcs
  <2> QED
    BY <1>7, <2>3, <2>4 DEF InsertKnown, BaseType, volatile
<1>8. ASSUME NEW c \in Callers, NEW h \in Hashes, ReadForPull(c, h) PROVE BaseType'
  <2>1. files[h] \in Record
    BY <1>8 DEF ReadForPull, BaseType
  <2>2. [pc |-> "start", hash |-> h, key |-> files[h].key, auto |-> FALSE] \in Offer
    BY <1>8, <2>1 DEF Offer, OfferPcs, Record, ReadForPull
  <2> QED
    BY <1>8, <2>2 DEF ReadForPull, BaseType, volatile
<1>9. ASSUME NEW c \in Callers, AlreadyInFlight(c) PROVE BaseType'
  <2>1. caller' \in [Callers -> Offer \cup Publication \cup {Idle}]
    BY <1>9, CallerEndsTyped DEF AlreadyInFlight
  <2> QED
    BY <1>9, <2>1 DEF AlreadyInFlight, BaseType, volatile
<1>10. ASSUME NEW c \in Callers, NEW w \in Workers, StartDownload(c, w) PROVE BaseType'
  <2>1. caller[c] \in Offer
    BY <1>10, OfferOf DEF OfferPcs, StartDownload
  <2>2. FirstJob(c) \in Job
    BY <2>1, <1>10 DEF FirstJob, Job, Offer, WorkerPcs, StartDownload
  <2>3. caller' \in [Callers -> Offer \cup Publication \cup {Idle}]
    BY <1>10, CallerEndsTyped DEF StartDownload
  <2>4. inFlight' \in SUBSET Hashes
    BY <1>10, <2>1 DEF StartDownload, BaseType, Offer
  <2>5. worker' \in [Workers -> Job \cup {Idle}]
    BY <1>10, <2>2 DEF StartDownload, BaseType
  <2> QED
    BY <1>10, <2>3, <2>4, <2>5 DEF StartDownload, BaseType
<1>11. ASSUME NEW c \in Callers, NEW h \in Hashes, PublishInsert(c, h) PROVE BaseType'
  <2>1. [status |-> "SEEDING", key |-> "self", path |-> "published"] \in Record
    BY DEF Record, Statuses, Paths
  <2>2. files' \in [Hashes -> Record \cup {NoRecord}]
    BY <1>11, <2>1, InsertTyped DEF PublishInsert, BaseType
  <2>3. [pc |-> "announce", hash |-> h] \in Publication
    BY DEF Publication
  <2> QED
    BY <1>11, <2>2, <2>3 DEF PublishInsert, BaseType, volatile
<1>12. ASSUME NEW c \in Callers, PublishAnnounce(c) PROVE BaseType'
  <2>1. caller' \in [Callers -> Offer \cup Publication \cup {Idle}]
    BY <1>12, CallerEndsTyped DEF PublishAnnounce
  <2> QED
    BY <1>12, <2>1 DEF PublishAnnounce, BaseType, volatile
<1>13. ASSUME NEW w \in Workers, AcquireSlot(w) PROVE BaseType'
  <2>1. worker' \in [Workers -> Job \cup {Idle}]
    BY <1>13, GoesTyped DEF AcquireSlot, WorkerPcs, HoldingPcs
  <2>2. freeSlots' \in Nat
    BY <1>13 DEF AcquireSlot, BaseType
  <2> QED
    BY <1>13, <2>1, <2>2 DEF AcquireSlot, BaseType
<1>14. ASSUME NEW w \in Workers, MarkDownloading(w) PROVE BaseType'
  <2>1. worker[w] \in Job
    BY <1>14, PcOfActive DEF MarkDownloading
  <2>2. UpdateFileStatus(worker[w].hash, "DOWNLOADING", "") \in [Hashes -> Record \cup {NoRecord}]
    <3>1. worker[w].hash \in Hashes /\ "DOWNLOADING" \in Statuses /\ "" \in Paths
      BY <2>1 DEF Job, Statuses, Paths
    <3>2. files \in [Hashes -> Record \cup {NoRecord}]
      BY DEF BaseType
    <3> QED
      BY <3>1, <3>2, UpdateTyped
  <2>3. files' \in [Hashes -> Record \cup {NoRecord}]
    BY <1>14, <2>2 DEF MarkDownloading, Commit, BaseType
  <2>4. worker' \in [Workers -> Job \cup {Idle}]
    BY <1>14, GoesTyped DEF MarkDownloading, WorkerPcs, HoldingPcs
  <2> QED
    BY <1>14, <2>3, <2>4 DEF MarkDownloading, BaseType, volatile
<1>15. ASSUME NEW w \in Workers, TransferFails(w) PROVE BaseType'
  <2>1. worker[w] \in Job
    BY <1>15, PcOfActive DEF TransferFails
  <2>2. UpdateFileStatus(worker[w].hash, "FAILED", "") \in [Hashes -> Record \cup {NoRecord}]
    <3>1. worker[w].hash \in Hashes /\ "FAILED" \in Statuses /\ "" \in Paths
      BY <2>1 DEF Job, Statuses, Paths
    <3>2. files \in [Hashes -> Record \cup {NoRecord}]
      BY DEF BaseType
    <3> QED
      BY <3>1, <3>2, UpdateTyped
  <2>3. files' \in [Hashes -> Record \cup {NoRecord}]
    BY <1>15, <2>2 DEF TransferFails, Commit, BaseType
  <2>4. worker' \in [Workers -> Job \cup {Idle}]
    BY <1>15, GoesTyped DEF TransferFails, WorkerPcs, HoldingPcs
  <2> QED
    BY <1>15, <2>3, <2>4 DEF TransferFails, BaseType, volatile
<1>16. ASSUME NEW w \in Workers, Promote(w) PROVE BaseType'
  <2>1. worker[w] \in Job
    BY <1>16, PcOfActive DEF Promote
  <2>2. UpdateFileStatus(worker[w].hash, "SEEDING", "stored") \in [Hashes -> Record \cup {NoRecord}]
    <3>1. worker[w].hash \in Hashes /\ "SEEDING" \in Statuses /\ "stored" \in Paths
      BY <2>1 DEF Job, Statuses, Paths
    <3>2. files \in [Hashes -> Record \cup {NoRecord}]
      BY DEF BaseType
    <3> QED
      BY <3>1, <3>2, UpdateTyped
  <2>3. files' \in [Hashes -> Record \cup {NoRecord}]
    BY <1>16, <2>2 DEF Promote, Commit, BaseType
  <2>4. worker' \in [Workers -> Job \cup {Idle}]
    BY <1>16, GoesTyped DEF Promote, WorkerPcs, HoldingPcs
  <2> QED
    BY <1>16, <2>3, <2>4 DEF Promote, BaseType, volatile
<1>17. ASSUME NEW w \in Workers, GiveUp(w) PROVE BaseType'
  <2>1. worker[w] \in Job
    BY <1>17, PcOfActive DEF GiveUp
  <2>2. UpdateFileStatus(worker[w].hash, "FAILED", "") \in [Hashes -> Record \cup {NoRecord}]
    <3>1. worker[w].hash \in Hashes /\ "FAILED" \in Statuses /\ "" \in Paths
      BY <2>1 DEF Job, Statuses, Paths
    <3>2. files \in [Hashes -> Record \cup {NoRecord}]
      BY DEF BaseType
    <3> QED
      BY <3>1, <3>2, UpdateTyped
  <2>3. files' \in [Hashes -> Record \cup {NoRecord}]
    BY <1>17, <2>2 DEF GiveUp, Commit, BaseType
  <2>4. worker' \in [Workers -> Job \cup {Idle}]
    BY <1>17, GoesTyped DEF GiveUp, WorkerPcs, HoldingPcs
  <2> QED
    BY <1>17, <2>3, <2>4 DEF GiveUp, BaseType, volatile
<1>18. ASSUME NEW w \in Workers, ClearAutoFailure(w) PROVE BaseType'
  <2>1. worker' \in [Workers -> Job \cup {Idle}]
    BY <1>18, GoesTyped DEF ClearAutoFailure, WorkerPcs, HoldingPcs
  <2>2. failCount' \in [Keys -> Nat] /\ manualOnly' \in SUBSET Keys
    BY <1>18 DEF ClearAutoFailure, CountsCleared, BaseType
  <2> QED
    BY <1>18, <2>1, <2>2 DEF ClearAutoFailure, BaseType
<1>19. ASSUME NEW w \in Workers, RebroadcastFileMeta(w) PROVE BaseType'
  <2>1. worker' \in [Workers -> Job \cup {Idle}]
    BY <1>19, GoesTyped DEF RebroadcastFileMeta, WorkerPcs, HoldingPcs
  <2> QED
    BY <1>19, <2>1 DEF RebroadcastFileMeta, BaseType, volatile
<1>20. ASSUME NEW w \in Workers, ReleaseSlot(w) PROVE BaseType'
  <2>1. worker[w] \in Job
    BY <1>20, PcOfActive DEF ReleaseSlot
  <2>2. ASSUME ~LastAttempt(w), worker' = [worker EXCEPT ![w].pc = "waiting", ![w].attempt = @ + 1]
        PROVE  worker' \in [Workers -> Job \cup {Idle}]
    <3>1. worker[w].attempt + 1 \in 1..MaxRetries
      BY <2>1, <2>2 DEF LastAttempt, Job
    <3>2. [worker[w] EXCEPT !.pc = "waiting", !.attempt = @ + 1] \in Job
      BY <2>1, <3>1 DEF Job, WorkerPcs
    <3> QED
      BY <2>2, <3>2 DEF BaseType
  <2>3. worker' \in [Workers -> Job \cup {Idle}]
    BY <1>20, <2>2, GoesTyped DEF ReleaseSlot, WorkerPcs
  <2>4. freeSlots' \in Nat
    BY <1>20 DEF ReleaseSlot, SlotsAfter, BaseType
  <2> QED
    BY <1>20, <2>3, <2>4 DEF ReleaseSlot, BaseType
<1>21. ASSUME NEW w \in Workers, NoteAutoFailure(w) PROVE BaseType'
  <2>1. worker[w] \in Job
    BY <1>21, PcOfActive DEF NoteAutoFailure
  <2>2. worker' \in [Workers -> Job \cup {Idle}]
    BY <1>21, GoesTyped DEF NoteAutoFailure, WorkerPcs
  <2>3. failCount' \in [Keys -> Nat] /\ manualOnly' \in SUBSET Keys
    BY <1>21, <2>1 DEF NoteAutoFailure, BaseType, Job
  <2> QED
    BY <1>21, <2>2, <2>3 DEF NoteAutoFailure, BaseType
<1>22. ASSUME NEW w \in Workers, Finish(w) PROVE BaseType'
  BY <1>22 DEF Finish, InFlightWithout, BaseType
<1>23. CASE UNCHANGED vars
  BY <1>23 DEF vars, volatile, BaseType
<1> QED
  BY <1>1, <1>2, <1>3, <1>4, <1>5, <1>6, <1>7, <1>8, <1>9, <1>10, <1>11, <1>12,
     <1>13, <1>14, <1>15, <1>16, <1>17, <1>18, <1>19, <1>20, <1>21, <1>22, <1>23
     DEF Next, Startup, CallerStep, Environment, WorkerStep

-----------------------------------------------------------------------------
(* What a step does to the workers, to inFlight and to the semaphore: it    *)
(* leaves all three alone, starts a session, ends one, stops the daemon, or *)
(* moves one worker on within its session.                                  *)

Moves(w, j) ==
    /\ w \in Workers
    /\ worker[w] \in Job /\ j \in Job /\ j.hash = worker[w].hash
    /\ worker' = [worker EXCEPT ![w] = j]
    /\ inFlight' = inFlight
    /\ \/ /\ freeSlots' = freeSlots
          /\ Phase(j.pc) = Phase(worker[w].pc) /\ j.attempt = worker[w].attempt
       \/ /\ freeSlots > 0 /\ freeSlots' = freeSlots - 1
          /\ Phase(worker[w].pc) = "queued" /\ Phase(j.pc) = "running"
          /\ j.attempt = worker[w].attempt
       \/ /\ freeSlots' = freeSlots + 1
          /\ Phase(worker[w].pc) = "running"
          /\ \/ Phase(j.pc) = "closing" /\ j.attempt = worker[w].attempt
             \/ /\ Phase(j.pc) = "queued" /\ worker[w].attempt < MaxRetries
                /\ j.attempt = worker[w].attempt + 1

\* The phases that the code's control states belong to.
LEMMA Phases ==
    /\ Phase("waiting") = "queued"
    /\ \A pc \in HoldingPcs : Phase(pc) = "running"
    /\ \A pc \in {"giveUp", "note", "finish"} : Phase(pc) = "closing"
    /\ \A pc : Phase(pc) = "running" => pc \in HoldingPcs
BY DEF Phase, HoldingPcs

Quiet == UNCHANGED <<worker, inFlight, freeSlots>>

StepKind == \/ Quiet
            \/ \E c \in Callers, w \in Workers : StartDownload(c, w)
            \/ \E w \in Workers : Finish(w)
            \/ Crash
            \/ \E w, j : Moves(w, j)

\* A worker that goes to another control state moves, if its slot goes along.
LEMMA GoingMoves ==
    ASSUME BaseType, NEW w \in Workers, NEW pc \in WorkerPcs,
           worker[w].pc # "idle", WorkerGoes(w, pc), inFlight' = inFlight,
           \/ freeSlots' = freeSlots /\ Phase(pc) = Phase(worker[w].pc)
           \/ /\ freeSlots > 0 /\ freeSlots' = freeSlots - 1
              /\ Phase(worker[w].pc) = "queued" /\ Phase(pc) = "running"
           \/ /\ freeSlots' = freeSlots + 1
              /\ Phase(worker[w].pc) = "running" /\ Phase(pc) = "closing"
    PROVE  \E v, j : Moves(v, j)
<1> DEFINE j == [worker[w] EXCEPT !.pc = pc]
<1>1. worker[w] \in Job
  BY PcOfActive
<1>2. j \in Job /\ j.pc = pc /\ j.hash = worker[w].hash /\ j.attempt = worker[w].attempt
  BY <1>1 DEF Job
<1>3. worker' = [worker EXCEPT ![w] = j]
  BY DEF WorkerGoes, BaseType
<1>4. Moves(w, j)
  BY <1>1, <1>2, <1>3 DEF Moves
<1> QED
  BY <1>4

\* Every step is of one of these kinds.
LEMMA EveryStepHasAKind == BaseType /\ [Next]_vars => StepKind
<1> SUFFICES ASSUME BaseType, [Next]_vars PROVE StepKind
  OBVIOUS
<1>1. CASE Startup
  BY <1>1 DEF Startup, ComeUp, ResumeRecord, volatile, StepKind, Quiet
<1>2. CASE Crash
  BY <1>2 DEF StepKind
<1>3. ASSUME NEW c \in Callers, CallerStep(c) PROVE StepKind
  <2>1. CASE \E w \in Workers : StartDownload(c, w)
    BY <2>1 DEF StepKind
  <2>2. CASE ~ \E w \in Workers : StartDownload(c, w)
    BY <1>3, <2>2 DEF CallerStep, CheckMode, InsertManualOnly, InsertKnown,
       AlreadyInFlight, PublishAnnounce, volatile, StepKind, Quiet
  <2> QED
    BY <2>1, <2>2
<1>4. ASSUME NEW c \in Callers, Environment(c) PROVE StepKind
  BY <1>4 DEF Environment, ReadPrevious, ReadForPull, PublishInsert, volatile,
     StepKind, Quiet
<1>5. ASSUME NEW w \in Workers, AcquireSlot(w) PROVE StepKind
  <2>1. \E v, j : Moves(v, j)
    BY <1>5, GoingMoves, Phases DEF AcquireSlot, WorkerPcs, HoldingPcs
  <2> QED
    BY <2>1 DEF StepKind
<1>6. ASSUME NEW w \in Workers, WorkerStep(w) PROVE StepKind
  <2>1. CASE Finish(w)
    BY <2>1 DEF StepKind
  <2>2. CASE ReleaseSlot(w)
    <3>1. worker[w] \in Job
      BY <2>2, PcOfActive DEF ReleaseSlot
    <3>2. CASE worker' = [worker EXCEPT ![w].pc = "waiting", ![w].attempt = @ + 1]
               /\ ~LastAttempt(w)
      <4> DEFINE j == [worker[w] EXCEPT !.pc = "waiting", !.attempt = @ + 1]
      <4>1. worker[w].attempt + 1 \in 1..MaxRetries /\ worker[w].attempt < MaxRetries
        <5>1. worker[w].attempt \in 1..MaxRetries /\ worker[w].attempt # MaxRetries
          BY <3>1, <3>2 DEF LastAttempt, Job
        <5> QED
          BY <5>1
      <4>2. /\ j \in Job /\ j.hash = worker[w].hash /\ j.pc = "waiting"
            /\ j.attempt = worker[w].attempt + 1 /\ worker[w].attempt < MaxRetries
        BY <3>1, <4>1 DEF Job, WorkerPcs
      <4>3. worker' = [worker EXCEPT ![w] = j]
        BY <3>2 DEF BaseType
      <4>4. Moves(w, j)
        BY <2>2, <3>1, <4>2, <4>3, Phases DEF Moves, ReleaseSlot, SlotsAfter, HoldingPcs
      <4> QED
        BY <4>4 DEF StepKind
    <3>3. CASE WorkerGoes(w, "finish") \/ WorkerGoes(w, "giveUp")
      <4>1. \E v, j : Moves(v, j)
        BY <2>2, <3>3, GoingMoves, Phases DEF ReleaseSlot, SlotsAfter, WorkerPcs, HoldingPcs
      <4> QED
        BY <4>1 DEF StepKind
    <3> QED
      BY <2>2, <3>2, <3>3 DEF ReleaseSlot
  <2>3. CASE MarkDownloading(w) \/ TransferFails(w) \/ Promote(w) \/ ClearAutoFailure(w)
    <3>1. \E v, j : Moves(v, j)
      BY <2>3, GoingMoves, Phases DEF MarkDownloading, TransferFails, Promote, ClearAutoFailure,
         volatile, WorkerPcs, HoldingPcs
    <3> QED
      BY <3>1 DEF StepKind
  <2>4. CASE RebroadcastFileMeta(w) \/ GiveUp(w) \/ NoteAutoFailure(w)
    <3>1. \E v, j : Moves(v, j)
      BY <2>4, GoingMoves, Phases DEF RebroadcastFileMeta, GiveUp, NoteAutoFailure,
         volatile, WorkerPcs, HoldingPcs
    <3> QED
      BY <3>1 DEF StepKind
  <2> QED
    BY <1>6, <2>1, <2>2, <2>3, <2>4 DEF WorkerStep
<1>7. CASE UNCHANGED vars
  BY <1>7 DEF vars, volatile, StepKind, Quiet
<1> QED
  BY <1>1, <1>2, <1>3, <1>4, <1>5, <1>6, <1>7 DEF Next

-----------------------------------------------------------------------------
(* One worker per hash.  Neither half is inductive alone: a start is safe   *)
(* because inFlight names every worked-on hash, and removing a hash from    *)
(* inFlight is right because only one worker had it.                        *)

SessionInv == OneWorkerPerHash /\ InFlightTracksWorkers

\* Every step keeps the workers' hashes distinct and inFlight equal to them.
LEMMA SessionStep ==
    BaseType /\ SessionInv /\ StepKind => SessionInv'
<1> SUFFICES ASSUME BaseType, SessionInv, StepKind PROVE SessionInv'
  OBVIOUS
<1>1. CASE Quiet
  BY <1>1 DEF Quiet, SessionInv, OneWorkerPerHash, InFlightTracksWorkers, Active
<1>2. ASSUME NEW c \in Callers, NEW w \in Workers, StartDownload(c, w) PROVE SessionInv'
  <2> DEFINE h == caller[c].hash
  <2>1. h \notin inFlight /\ inFlight' = inFlight \cup {h} /\ worker[w] = Idle
    BY <1>2 DEF StartDownload, MayStart
  <2>2. worker' = [worker EXCEPT ![w] = FirstJob(c)]
    BY <1>2 DEF StartDownload
  <2>3. FirstJob(c) # Idle /\ FirstJob(c).hash = h
    BY DEF FirstJob, Idle
  <2>4. worker'[w] = FirstJob(c) /\ \A v \in Workers \ {w} : worker'[v] = worker[v]
    BY <2>2 DEF BaseType
  <2>5. Active' = Active \cup {w} /\ w \notin Active
    BY <2>1, <2>3, <2>4 DEF Active
  <2>6. \A v \in Active : v # w /\ worker'[v] = worker[v] /\ worker[v].hash # h
    BY <2>1, <2>4, <2>5 DEF SessionInv, InFlightTracksWorkers, Active
  <2>7. OneWorkerPerHash'
    BY <2>3, <2>4, <2>5, <2>6 DEF SessionInv, OneWorkerPerHash
  <2>8. InFlightTracksWorkers'
    BY <2>1, <2>3, <2>4, <2>5, <2>6 DEF SessionInv, InFlightTracksWorkers
  <2> QED
    BY <2>7, <2>8 DEF SessionInv
<1>3. ASSUME NEW w \in Workers, Finish(w) PROVE SessionInv'
  <2>1. worker' = [worker EXCEPT ![w] = Idle] /\ inFlight' = inFlight \ {worker[w].hash}
    BY <1>3 DEF Finish, InFlightWithout
  <2>2. worker[w] # Idle
    BY <1>3 DEF Finish, Idle
  <2>3. Active' = Active \ {w} /\ w \in Active
    BY <2>1, <2>2 DEF Active, BaseType
  <2>4. \A v \in Active \ {w} : worker'[v] = worker[v] /\ worker[v].hash # worker[w].hash
    BY <2>1, <2>3 DEF SessionInv, OneWorkerPerHash, Active, BaseType
  <2>5. OneWorkerPerHash'
    BY <2>3, <2>4 DEF SessionInv, OneWorkerPerHash
  <2>6. InFlightTracksWorkers'
    BY <2>1, <2>3, <2>4 DEF SessionInv, InFlightTracksWorkers
  <2> QED
    BY <2>5, <2>6 DEF SessionInv
<1>4. CASE Crash
  <2>1. Active' = {} /\ inFlight' = {}
    BY <1>4 DEF Crash, Active
  <2> QED
    BY <2>1 DEF SessionInv, OneWorkerPerHash, InFlightTracksWorkers
<1>5. ASSUME NEW w, NEW j, Moves(w, j) PROVE SessionInv'
  <2>1. j # Idle /\ worker[w] # Idle
    BY <1>5 DEF Moves, Job, Idle
  <2>2. worker'[w] = j /\ \A v \in Workers \ {w} : worker'[v] = worker[v]
    BY <1>5 DEF Moves, BaseType
  <2>3. Active' = Active
    BY <1>5, <2>1, <2>2 DEF Active, Moves
  <2>4. \A v \in Active : worker'[v].hash = worker[v].hash
    BY <1>5, <2>2 DEF Moves, Active
  <2> QED
    BY <1>5, <2>3, <2>4
       DEF Moves, SessionInv, OneWorkerPerHash, InFlightTracksWorkers, Active
<1> QED
  BY <1>1, <1>2, <1>3, <1>4, <1>5 DEF StepKind

-----------------------------------------------------------------------------
(* The semaphore: free slots and holding workers always add up to SyncCap.  *)

\* Every step moves a slot between the channel and a worker, or none.
LEMMA SlotStep == BaseType /\ SlotsConserved /\ StepKind => SlotsConserved'
<1> SUFFICES ASSUME BaseType, SlotsConserved, StepKind PROVE SlotsConserved'
  OBVIOUS
<1>0. IsFiniteSet(Holding) /\ Cardinality(Holding) \in Nat
  BY FS_Subset, FS_CardinalityType DEF Holding
<1>1. CASE Quiet
  BY <1>1 DEF Quiet, SlotsConserved, Holding
<1>2. ASSUME NEW c \in Callers, NEW w \in Workers, StartDownload(c, w) PROVE SlotsConserved'
  <2>1. Holding' = Holding
    BY <1>2 DEF StartDownload, Holding, FirstJob, Idle, HoldingPcs, BaseType
  <2> QED
    BY <1>2, <2>1 DEF StartDownload, SlotsConserved
<1>3. ASSUME NEW w \in Workers, Finish(w) PROVE SlotsConserved'
  <2>1. Holding' = Holding
    BY <1>3 DEF Finish, Holding, Idle, HoldingPcs, BaseType
  <2> QED
    BY <1>3, <2>1 DEF Finish, SlotsConserved
<1>4. CASE Crash
  <2>1. Holding' = {} /\ freeSlots' = SyncCap
    BY <1>4 DEF Crash, Holding, Idle, HoldingPcs
  <2> QED
    BY <2>1, FS_EmptySet DEF SlotsConserved
<1>5. ASSUME NEW w, NEW j, Moves(w, j) PROVE SlotsConserved'
  <2>1. w \in Workers /\ worker'[w] = j /\ \A v \in Workers \ {w} : worker'[v] = worker[v]
    BY <1>5 DEF Moves, BaseType
  <2>2. CASE freeSlots' = freeSlots /\ Phase(worker[w].pc) = Phase(j.pc)
    <3>1. Holding' = Holding
      BY <2>1, <2>2, Phases DEF Holding
    <3> QED
      BY <2>2, <3>1 DEF SlotsConserved
  <2>3. CASE /\ freeSlots' = freeSlots - 1
             /\ Phase(worker[w].pc) # "running" /\ Phase(j.pc) = "running"
    <3>1. Holding' = Holding \cup {w} /\ w \notin Holding
      BY <2>1, <2>3, Phases DEF Holding
    <3>2. Cardinality(Holding') = Cardinality(Holding) + 1
      BY <1>0, <3>1, FS_AddElement
    <3> QED
      BY <1>0, <2>3, <3>2 DEF SlotsConserved, BaseType
  <2>4. CASE /\ freeSlots' = freeSlots + 1
             /\ Phase(worker[w].pc) = "running" /\ Phase(j.pc) # "running"
    <3>1. Holding' = Holding \ {w} /\ w \in Holding
      BY <2>1, <2>4, Phases DEF Holding
    <3>2. Cardinality(Holding') = Cardinality(Holding) - 1
      BY <1>0, <3>1, FS_RemoveElement
    <3> QED
      BY <1>0, <2>4, <3>2 DEF SlotsConserved, BaseType
  <2> QED
    BY <1>5, <2>2, <2>3, <2>4 DEF Moves
<1> QED
  BY <1>1, <1>2, <1>3, <1>4, <1>5 DEF StepKind

-----------------------------------------------------------------------------
(* The inductive invariant and the theorems that follow from it.           *)

IInv == BaseType /\ SessionInv /\ SlotsConserved

\* IInv holds initially: nothing is in flight and every slot is free.
LEMMA IInvInit == Init => IInv
<1> SUFFICES ASSUME Init PROVE IInv
  OBVIOUS
<1>1. BaseType
  BY BaseTypeInit
<1>2. Active = {} /\ Holding = {}
  BY DEF Init, Active, Holding, Idle, HoldingPcs
<1>3. SessionInv
  BY <1>2 DEF Init, SessionInv, OneWorkerPerHash, InFlightTracksWorkers
<1>4. SlotsConserved
  BY <1>2, FS_EmptySet DEF Init, SlotsConserved
<1> QED
  BY <1>1, <1>3, <1>4 DEF IInv

\* IInv is inductive.
LEMMA IInvStep == IInv /\ [Next]_vars => IInv'
BY BaseTypeStep, EveryStepHasAKind, SessionStep, SlotStep DEF IInv

\* IInv holds in every reachable state.
THEOREM Invariance == Spec => []IInv
<1>1. Init => IInv
  BY IInvInit
<1>2. IInv /\ [Next]_vars => IInv'
  BY IInvStep
<1> QED
  BY <1>1, <1>2, PTL DEF Spec

\* Through every interleaving of handlers, pulls and ending sessions, and
\* across crashes and failing transactions, no two goroutines ever download
\* the same hash (startTrackedDownload and the deferred delete).
THEOREM OneWorker == Spec => []OneWorkerPerHash
<1>1. IInv => OneWorkerPerHash
  BY DEF IInv, SessionInv
<1> QED
  BY <1>1, Invariance, PTL

\* inFlight never keeps an entry whose session is over and never lacks one
\* whose session is on.
THEOREM InFlightExact == Spec => []InFlightTracksWorkers
<1>1. IInv => InFlightTracksWorkers
  BY DEF IInv, SessionInv
<1> QED
  BY <1>1, Invariance, PTL

\* Whatever path downloadWithRetry takes, each slot of sem is either in the
\* channel or with exactly one worker.
THEOREM Slots == Spec => []SlotsConserved
<1>1. IInv => SlotsConserved
  BY DEF IInv
<1> QED
  BY <1>1, Invariance, PTL

\* The variables keep their types, and the channel never holds more than
\* SyncCap items, so giving a slot back never blocks.
THEOREM TypeCorrect == Spec => []TypeOK
<1>1. IInv => TypeOK
  <2> SUFFICES ASSUME IInv PROVE TypeOK
    OBVIOUS
  <2>1. Cardinality(Holding) \in Nat
    BY FS_Subset, FS_CardinalityType DEF Holding
  <2> QED
    BY <2>1 DEF IInv, SlotsConserved, TypeOK, BaseType
<1> QED
  BY <1>1, Invariance, PTL

-----------------------------------------------------------------------------
(* What becomes of records.  Each step leaves the bucket alone, inserts a   *)
(* record, or updates one: for its hash at startup, or for a session's.     *)

\* The update of the bucket that a worker's step may commit.
UpdateBy(w) ==
    \/ MarkDownloading(w) /\ files' = UpdateFileStatus(worker[w].hash, "DOWNLOADING", "")
    \/ TransferFails(w) /\ files' = UpdateFileStatus(worker[w].hash, "FAILED", "")
    \/ Promote(w) /\ files' = UpdateFileStatus(worker[w].hash, "SEEDING", "stored")
    \/ GiveUp(w) /\ files' = UpdateFileStatus(worker[w].hash, "FAILED", "")

\* An insertion by a caller.
InsertBy(c) ==
    \E h \in Hashes, rec \in Record :
        /\ files' = InsertFileRecord(h, rec) /\ rec.status # "DOWNLOADING"
        /\ node = "up" \/ caller[c] # Idle
        /\ UNCHANGED <<node, worker>>

FilesKind == \/ files' = files
             \/ \E h \in Hashes : ResumeRecord(h)
             \/ \E c \in Callers : InsertBy(c)
             \/ \E w \in Workers : UpdateBy(w)

\* Every step's change of the bucket is of one of these kinds.
LEMMA EveryFilesStep == BaseType /\ [Next]_vars => FilesKind
<1> SUFFICES ASSUME BaseType, [Next]_vars PROVE FilesKind
  OBVIOUS
<1>1. CASE Startup
  BY <1>1 DEF Startup, ComeUp, FilesKind
<1>2. ASSUME NEW c \in Callers, CallerStep(c) PROVE FilesKind
  <2>1. ASSUME NEW status \in {"FAILED", "KNOWN"}, caller[c].pc \in OfferPcs,
               files' = InsertFileRecord(caller[c].hash, NewRecord(c, status)),
               UNCHANGED <<node, worker>>
        PROVE  FilesKind
    <3>1. caller[c] \in Offer /\ caller[c] # Idle
      BY <2>1, OfferOf DEF Offer, OfferPcs, Idle
    <3>2. NewRecord(c, status) \in Record /\ NewRecord(c, status).status # "DOWNLOADING"
      BY <3>1 DEF NewRecord, Record, Offer, Statuses, Paths
    <3>3. caller[c].hash \in Hashes
      BY <3>1 DEF Offer
    <3>4. InsertBy(c)
      BY <2>1, <3>1, <3>2, <3>3 DEF InsertBy
    <3> QED
      BY <3>4 DEF FilesKind
  <2>2. CASE InsertManualOnly(c)
    BY <2>1, <2>2 DEF InsertManualOnly, Commit, OfferPcs, FilesKind
  <2>3. CASE InsertKnown(c)
    BY <2>1, <2>3 DEF InsertKnown, Commit, OfferPcs, FilesKind
  <2> QED
    BY <1>2, <2>2, <2>3 DEF CallerStep, CheckMode, AlreadyInFlight, PublishAnnounce,
       StartDownload, FilesKind
<1>3. ASSUME NEW c \in Callers, Environment(c) PROVE FilesKind
  <2>1. ASSUME NEW h \in Hashes, PublishInsert(c, h) PROVE FilesKind
    <3>1. [status |-> "SEEDING", key |-> "self", path |-> "published"] \in Record
      BY DEF Record, Statuses, Paths
    <3>2. InsertBy(c)
      BY <2>1, <3>1 DEF InsertBy, PublishInsert
    <3> QED
      BY <3>2 DEF FilesKind
  <2> QED
    BY <1>3, <2>1 DEF Environment, ReadPrevious, ReadForPull, FilesKind
<1>4. ASSUME NEW w \in Workers, AcquireSlot(w) \/ WorkerStep(w) PROVE FilesKind
  BY <1>4 DEF AcquireSlot, WorkerStep, MarkDownloading, TransferFails, Promote, Commit,
     ClearAutoFailure, RebroadcastFileMeta, ReleaseSlot, GiveUp, NoteAutoFailure, Finish,
     UpdateBy, FilesKind
<1>5. CASE Crash \/ UNCHANGED vars
  BY <1>5 DEF Crash, vars, FilesKind
<1> QED
  BY <1>1, <1>2, <1>3, <1>4, <1>5 DEF Next

\* A record the node owns is changed by nothing but a session of its hash.
LEMMA OwnedStep ==
    ASSUME BaseType, [Next]_vars, NEW h \in Hashes,
           files[h].status = "SEEDING", files'[h] # files[h]
    PROVE  \E w \in Active : worker[w].hash = h /\ UpdateBy(w)
<1>1. ASSUME NEW g \in Hashes, ResumeRecord(g) PROVE FALSE
  BY <1>1 DEF ResumeRecord, Stale, UpdateFileStatus, BaseType
<1>2. ASSUME NEW c \in Callers, InsertBy(c) PROVE FALSE
  BY <1>2 DEF InsertBy, InsertFileRecord, Owned, BaseType
<1>3. ASSUME NEW w \in Workers, UpdateBy(w)
      PROVE  w \in Active /\ worker[w].hash = h
  <2>1. worker[w].pc # "idle"
    BY <1>3 DEF UpdateBy, MarkDownloading, TransferFails, Promote, GiveUp
  <2>2. worker[w] # Idle
    BY <2>1, PcOfActive
  <2>3. worker[w].hash = h
    BY <1>3 DEF UpdateBy, UpdateFileStatus, BaseType
  <2> QED
    BY <2>2, <2>3 DEF Active
<1> QED
  BY <1>1, <1>2, <1>3, EveryFilesStep DEF FilesKind

\* No FILE_META, publication or restart overwrites a record that the node owns,
\* though transactions fail and daemons crash.
THEOREM OwnedKept == Spec => OwnedOnlyChangedBySession
<1>1. BaseType /\ [Next]_vars
        => [\A h \in Hashes : files[h].status = "SEEDING" /\ files'[h] # files[h]
              => \E w \in Active : worker[w].hash = h]_vars
  BY OwnedStep
<1>2. Init => BaseType
  BY BaseTypeInit
<1>3. BaseType /\ [Next]_vars => BaseType'
  BY BaseTypeStep
<1> QED
  BY <1>1, <1>2, <1>3, PTL DEF Spec, OwnedOnlyChangedBySession

-----------------------------------------------------------------------------
(* With a database that does not fail, a record is busy only while a worker *)
(* transfers, and a download that has succeeded is announced as it is.      *)

\* A worker that transfers is left alone by the others.
LEMMA TransferStays ==
    ASSUME BaseType, [Next]_vars, node' = "up", NEW w \in Workers, worker[w].pc = "transfer"
    PROVE  worker'[w] = worker[w] \/ TransferFails(w) \/ Promote(w)
<1> USE DEF BaseType
<1>1. CASE Startup \/ UNCHANGED vars
  BY <1>1 DEF Startup, ComeUp, ResumeRecord, vars
<1>2. CASE Crash
  BY <1>2 DEF Crash
<1>3. ASSUME NEW c \in Callers, CallerStep(c) \/ Environment(c) PROVE worker'[w] = worker[w]
  BY <1>3 DEF CallerStep, CheckMode, InsertManualOnly, InsertKnown, AlreadyInFlight,
     PublishAnnounce, StartDownload, Idle, Environment, ReadPrevious, ReadForPull, PublishInsert
<1>4. ASSUME NEW v \in Workers, AcquireSlot(v) \/ WorkerStep(v)
      PROVE  worker'[w] = worker[w] \/ TransferFails(w) \/ Promote(w)
  <2>1. CASE v # w
    BY <1>4, <2>1 DEF AcquireSlot, WorkerStep, MarkDownloading, TransferFails, Promote,
       ClearAutoFailure, RebroadcastFileMeta, ReleaseSlot, GiveUp, NoteAutoFailure, Finish,
       WorkerGoes
  <2>2. CASE v = w
    BY <1>4, <2>2 DEF AcquireSlot, WorkerStep, MarkDownloading, ClearAutoFailure,
       RebroadcastFileMeta, ReleaseSlot, GiveUp, NoteAutoFailure, Finish
  <2> QED
    BY <2>1, <2>2
<1> QED
  BY <1>1, <1>2, <1>3, <1>4 DEF Next

\* A record becomes DOWNLOADING only when a worker marks it.
LEMMA OnlyMarked ==
    ASSUME BaseType, [Next]_vars, NEW h \in Hashes, files'[h].status = "DOWNLOADING"
    PROVE  \/ files'[h] = files[h]
           \/ \E w \in Workers : MarkDownloading(w) /\ worker[w].hash = h
<1> USE DEF BaseType
<1>1. ASSUME NEW g \in Hashes, ResumeRecord(g) PROVE files'[h] = files[h]
  BY <1>1 DEF ResumeRecord, UpdateFileStatus
<1>2. ASSUME NEW c \in Callers, InsertBy(c) PROVE files'[h] = files[h]
  BY <1>2 DEF InsertBy, InsertFileRecord
<1>3. ASSUME NEW w \in Workers, UpdateBy(w)
      PROVE  files'[h] = files[h] \/ (MarkDownloading(w) /\ worker[w].hash = h)
  <2>1. CASE worker[w].hash # h \/ files[worker[w].hash] = NoRecord
    BY <1>3, <2>1 DEF UpdateBy, UpdateFileStatus
  <2>2. CASE worker[w].hash = h /\ files[h] # NoRecord
    <3>1. ASSUME NEW s, NEW q, files' = UpdateFileStatus(h, s, q) PROVE s = "DOWNLOADING"
      BY <2>2, <3>1 DEF UpdateFileStatus
    <3> QED
      BY <1>3, <2>2, <3>1 DEF UpdateBy
  <2> QED
    BY <2>1, <2>2
<1> QED
  BY <1>1, <1>2, <1>3, EveryFilesStep DEF FilesKind

\* Every step keeps it that a busy record has its worker.
LEMMA NoOrphanStep ==
    DbFaults = FALSE /\ BaseType /\ NoOrphanDownloading /\ [Next]_vars => NoOrphanDownloading'
<1> SUFFICES ASSUME DbFaults = FALSE, BaseType, NoOrphanDownloading, [Next]_vars,
                    node' = "up", NEW h \in Hashes, files'[h].status = "DOWNLOADING"
             PROVE  \E w \in Active' : worker'[w].hash = h /\ worker'[w].pc = "transfer"
  BY DEF NoOrphanDownloading
<1>1. ASSUME NEW w \in Workers, MarkDownloading(w), worker[w].hash = h
      PROVE  worker'[w].hash = h /\ worker'[w].pc = "transfer"
  <2>1. worker[w] \in Job
    BY <1>1, PcOfActive DEF MarkDownloading
  <2> QED
    BY <1>1, <2>1 DEF MarkDownloading, WorkerGoes, BaseType, Job
<1>2. CASE files'[h] = files[h]
  <2>1. CASE node = "up"
    <3>1. PICK w \in Active : worker[w].hash = h /\ worker[w].pc = "transfer"
      BY <1>2, <2>1 DEF NoOrphanDownloading
    <3>2. w \in Workers /\ (worker'[w] = worker[w] \/ TransferFails(w) \/ Promote(w))
      BY <3>1, TransferStays DEF Active
    <3>3. ~TransferFails(w) /\ ~Promote(w)
      <4>1. files[h] # NoRecord /\ files \in [Hashes -> Record \cup {NoRecord}]
        BY <1>2 DEF NoRecord, BaseType
      <4>2. ASSUME NEW s, NEW q, files' = UpdateFileStatus(h, s, q) PROVE s = "DOWNLOADING"
        BY <4>1, <4>2 DEF UpdateFileStatus
      <4> QED
        BY <3>1, <4>2 DEF TransferFails, Promote, Commit
    <3> QED
      BY <3>1, <3>2, <3>3 DEF Active
  <2>2. CASE node # "up"
    <3>1. ComeUp
      BY <2>2 DEF Next, Startup, ResumeRecord, Crash, CallerStep, CheckMode, InsertManualOnly,
         InsertKnown, AlreadyInFlight, PublishAnnounce, StartDownload, Environment,
         ReadPrevious, ReadForPull, PublishInsert, AcquireSlot, WorkerStep, MarkDownloading,
         TransferFails, Promote, ClearAutoFailure, RebroadcastFileMeta, ReleaseSlot, GiveUp,
         NoteAutoFailure, Finish, vars
    <3> QED
      BY <1>2, <3>1 DEF ComeUp, Stale
  <2> QED
    BY <2>1, <2>2
<1>3. ASSUME NEW w \in Workers, MarkDownloading(w), worker[w].hash = h
      PROVE  \E v \in Active' : worker'[v].hash = h /\ worker'[v].pc = "transfer"
  BY <1>1, <1>3 DEF Active, Idle
<1> QED
  BY <1>2, <1>3, OnlyMarked

\* While the daemon is up, no record says DOWNLOADING that no worker transfers,
\* provided that transactions do not fail.
THEOREM NoOrphan ==
    ASSUME DbFaults = FALSE
    PROVE  Spec => []NoOrphanDownloading
<1>1. Init => BaseType /\ NoOrphanDownloading
  BY BaseTypeInit DEF Init, NoOrphanDownloading
<1>2. BaseType /\ NoOrphanDownloading /\ [Next]_vars => BaseType' /\ NoOrphanDownloading'
  BY BaseTypeStep, NoOrphanStep
<1> QED
  BY <1>1, <1>2, PTL DEF Spec

\* Whoever is about to start a session, and every worker, has a record to work
\* on; and after a success the record says so until the broadcast.
SessionsHaveRecords ==
    /\ \A c \in Callers : caller[c].pc = "start" => files[caller[c].hash] # NoRecord
    /\ \A w \in Active : files[worker[w].hash] # NoRecord
    /\ \A w \in Active : worker[w].pc \in {"clear", "announce"}
                            => files[worker[w].hash].status = "SEEDING"

\* No step removes a record.
LEMMA RecordsStay ==
    ASSUME BaseType, [Next]_vars, NEW h \in Hashes, files[h] # NoRecord
    PROVE  files'[h] # NoRecord
<1>1. \A rec \in Record : rec # NoRecord
  BY DEF Record, NoRecord, Statuses
<1>2. BaseType'
  BY BaseTypeStep
<1>3. ASSUME NEW g \in Hashes, NEW s \in Statuses, NEW p \in Paths, files' = UpdateFileStatus(g, s, p)
      PROVE  files'[h] # NoRecord
  <2>1. [status |-> s, key |-> files[g].key, path |-> NewPath(files[g].path, p)] # NoRecord
    BY DEF NoRecord, Statuses
  <2> QED
    BY <1>3, <2>1 DEF UpdateFileStatus, BaseType
<1>4. ASSUME NEW g \in Hashes, ResumeRecord(g) PROVE files'[h] # NoRecord
  BY <1>3, <1>4 DEF ResumeRecord, Statuses, Paths
<1>5. ASSUME NEW c \in Callers, InsertBy(c) PROVE files'[h] # NoRecord
  BY <1>1, <1>5 DEF InsertBy, InsertFileRecord, BaseType
<1>6. ASSUME NEW w \in Workers, UpdateBy(w) PROVE files'[h] # NoRecord
  <2>1. worker[w].hash \in Hashes
    BY <1>6, PcOfActive DEF UpdateBy, MarkDownloading, TransferFails, Promote, GiveUp, Job
  <2> QED
    BY <1>3, <1>6, <2>1 DEF UpdateBy, Statuses, Paths
<1> QED
  BY <1>4, <1>5, <1>6, EveryFilesStep DEF FilesKind

\* A caller comes to start a session only with a hash that has a record.
LEMMA CallersStep ==
    ASSUME DbFaults = FALSE, BaseType, SessionsHaveRecords, [Next]_vars,
           NEW c \in Callers, caller'[c].pc = "start"
    PROVE  files'[caller'[c].hash] # NoRecord
<1>1. CASE caller'[c] = caller[c]
  <2>1. caller[c].hash \in Hashes
    BY <1>1, OfferOf DEF OfferPcs, Offer
  <2> QED
    BY <1>1, <2>1, RecordsStay DEF SessionsHaveRecords
<1>2. ASSUME NEW h \in Hashes, ReadForPull(c, h) PROVE files'[caller'[c].hash] # NoRecord
  BY <1>2 DEF ReadForPull, BaseType
<1>3. CASE InsertKnown(c)
  <2>1. caller[c] \in Offer
    BY <1>3, OfferOf DEF InsertKnown, OfferPcs
  <2>2. caller'[c].hash = caller[c].hash /\ caller[c].hash \in Hashes /\ ~Owned(files[caller[c].hash])
    BY <1>3, <2>1 DEF InsertKnown, CallerGoes, CallerEnds, Idle, BaseType, Offer
  <2>3. files' = [files EXCEPT ![caller[c].hash] = NewRecord(c, "KNOWN")]
    BY <1>3, <2>2 DEF InsertKnown, Commit, InsertFileRecord
  <2>4. NewRecord(c, "KNOWN") # NoRecord
    BY DEF NewRecord, NoRecord
  <2> QED
    BY <2>2, <2>3, <2>4 DEF BaseType
<1>4. ASSUME NEW d \in Callers, CallerStep(d) \/ Environment(d), d # c PROVE caller'[c] = caller[c]
  BY <1>4 DEF CallerStep, CheckMode, InsertManualOnly, InsertKnown, AlreadyInFlight,
     PublishAnnounce, StartDownload, Environment, ReadPrevious, ReadForPull, PublishInsert,
     CallerGoes, CallerEnds, BaseType
<1>5. CASE CallerStep(c) \/ Environment(c)
  <2>1. CASE CheckMode(c)
    <3>1. caller[c] \in Offer
      BY <2>1, OfferOf DEF CheckMode, OfferPcs
    <3> QED
      BY <2>1, <3>1 DEF CheckMode, CallerGoes, BaseType, Offer
  <2>2. CASE InsertManualOnly(c) \/ AlreadyInFlight(c) \/ PublishAnnounce(c)
             \/ \E w \in Workers : StartDownload(c, w)
    BY <2>2 DEF InsertManualOnly, AlreadyInFlight, PublishAnnounce, StartDownload, CallerEnds,
       Idle, BaseType
  <2>3. CASE \E h \in Hashes : PublishInsert(c, h) \/ \E k \in Keys : ReadPrevious(c, h, k)
    <3>1. caller'[c].pc \in {"announce", "checkMode"} \/ caller'[c] = caller[c]
      BY <2>3 DEF PublishInsert, ReadPrevious, BaseType
    <3> QED
      BY <1>1, <3>1
  <2>4. CASE CallerStep(c)
    BY <1>3, <2>1, <2>2, <2>4 DEF CallerStep
  <2>5. CASE Environment(c)
    BY <1>2, <2>3, <2>5 DEF Environment
  <2> QED
    BY <1>5, <2>4, <2>5
<1>6. CASE Startup \/ UNCHANGED vars
  BY <1>1, <1>6 DEF Startup, ComeUp, ResumeRecord, vars
<1>7. ~Crash
  BY DEF Crash, Idle
<1>8. ASSUME NEW w \in Workers, AcquireSlot(w) \/ WorkerStep(w) PROVE caller'[c] = caller[c]
  BY <1>8 DEF AcquireSlot, WorkerStep, MarkDownloading, TransferFails, Promote,
     ClearAutoFailure, RebroadcastFileMeta, ReleaseSlot, GiveUp, NoteAutoFailure, Finish
<1> QED
  BY <1>1, <1>4, <1>5, <1>6, <1>7, <1>8 DEF Next

\* A worker that is past its success was so before, or has just been promoted.
LEMMA ComesToAnnounce ==
    ASSUME BaseType, [Next]_vars, NEW w \in Workers, worker'[w].pc \in {"clear", "announce"}
    PROVE  \/ worker[w].pc \in {"clear", "announce"} /\ worker'[w].hash = worker[w].hash
           \/ Promote(w) /\ worker'[w].hash = worker[w].hash
<1> USE DEF BaseType
<1>1. CASE worker'[w] = worker[w]
  BY <1>1
<1>2. ASSUME NEW c \in Callers, CallerStep(c) \/ Environment(c) PROVE worker'[w] = worker[w]
  <2>1. \A v \in Workers : StartDownload(c, v) => worker'[w] = worker[w] \/ worker'[w].pc = "waiting"
    BY DEF StartDownload, FirstJob
  <2> QED
    BY <1>2, <2>1 DEF CallerStep, CheckMode, InsertManualOnly, InsertKnown, AlreadyInFlight,
       PublishAnnounce, Environment, ReadPrevious, ReadForPull, PublishInsert
<1>3. ASSUME NEW v \in Workers, AcquireSlot(v) \/ WorkerStep(v), v # w
      PROVE  worker'[w] = worker[w]
  BY <1>3 DEF AcquireSlot, WorkerStep, MarkDownloading, TransferFails, Promote,
     ClearAutoFailure, RebroadcastFileMeta, ReleaseSlot, GiveUp, NoteAutoFailure, Finish,
     WorkerGoes
<1>4. CASE AcquireSlot(w) \/ WorkerStep(w)
  <2>1. worker[w].pc # "idle" /\ worker[w] \in Job
    <3>1. worker[w].pc # "idle"
      BY <1>4 DEF AcquireSlot, WorkerStep, MarkDownloading, TransferFails, Promote,
         ClearAutoFailure, RebroadcastFileMeta, ReleaseSlot, GiveUp, NoteAutoFailure, Finish
    <3> QED
      BY <3>1, PcOfActive
  <2>2. ASSUME NEW pc, WorkerGoes(w, pc)
        PROVE  worker'[w].pc = pc /\ worker'[w].hash = worker[w].hash
    BY <2>1, <2>2 DEF WorkerGoes, Job
  <2>3. CASE Promote(w) \/ ClearAutoFailure(w)
    BY <2>2, <2>3 DEF Promote, ClearAutoFailure
  <2>4. CASE ReleaseSlot(w)
    BY <2>1, <2>2, <2>4 DEF ReleaseSlot, Job
  <2>5. CASE Finish(w)
    BY <2>5 DEF Finish, Idle
  <2>6. CASE AcquireSlot(w) \/ MarkDownloading(w) \/ TransferFails(w)
    BY <2>2, <2>6 DEF AcquireSlot, MarkDownloading, TransferFails
  <2>7. CASE RebroadcastFileMeta(w) \/ GiveUp(w) \/ NoteAutoFailure(w)
    <3>1. WorkerGoes(w, "releaseDone") \/ WorkerGoes(w, "finish") \/ WorkerGoes(w, "note")
      BY <2>7 DEF RebroadcastFileMeta, GiveUp, NoteAutoFailure
    <3> QED
      BY <2>2, <3>1
  <2> QED
    BY <1>4, <2>3, <2>4, <2>5, <2>6, <2>7 DEF WorkerStep
<1>5. CASE Startup \/ UNCHANGED vars
  BY <1>1, <1>5 DEF Startup, ComeUp, ResumeRecord, vars
<1>6. ~Crash
  BY DEF Crash, Idle
<1> QED
  BY <1>1, <1>2, <1>3, <1>4, <1>5, <1>6 DEF Next

\* Every step keeps records under the sessions, and their success on record.
LEMMA SessionRecordsStep ==
    DbFaults = FALSE /\ BaseType /\ OneWorkerPerHash /\ SessionsHaveRecords /\ [Next]_vars
      => SessionsHaveRecords'
<1> SUFFICES ASSUME DbFaults = FALSE, BaseType, OneWorkerPerHash, SessionsHaveRecords, [Next]_vars
             PROVE  SessionsHaveRecords'
  OBVIOUS
<1>1. \A w \in Active : w \in Workers /\ worker[w] \in Job /\ worker[w].hash \in Hashes
                        /\ files'[worker[w].hash] # NoRecord
  BY RecordsStay DEF Active, BaseType, Job, SessionsHaveRecords
<1>2. ASSUME NEW w \in Active' PROVE files'[worker'[w].hash] # NoRecord
  <2>1. CASE w \in Active /\ worker'[w].hash = worker[w].hash
    BY <1>1, <2>1
  <2>2. ASSUME NEW c \in Callers, StartDownload(c, w) PROVE files'[worker'[w].hash] # NoRecord
    BY <2>2 DEF StartDownload, FirstJob, SessionsHaveRecords, BaseType, Active
  <2>3. \/ w \in Active /\ worker'[w].hash = worker[w].hash
        \/ \E c \in Callers : StartDownload(c, w)
    <3>1. CASE Quiet
      BY <3>1 DEF Quiet, Active
    <3>2. ASSUME NEW c \in Callers, NEW v \in Workers, StartDownload(c, v), v # w
          PROVE  w \in Active /\ worker'[w].hash = worker[w].hash
      BY <3>2 DEF StartDownload, Active, BaseType
    <3>3. ASSUME NEW v \in Workers, Finish(v)
          PROVE  w \in Active /\ worker'[w].hash = worker[w].hash
      BY <3>3 DEF Finish, Active, BaseType
    <3>4. CASE Crash
      BY <3>4 DEF Crash, Active
    <3>5. ASSUME NEW v, NEW j, Moves(v, j)
          PROVE  w \in Active /\ worker'[w].hash = worker[w].hash
      BY <3>5 DEF Moves, Active, BaseType, Job, Idle
    <3> QED
      BY <3>1, <3>2, <3>3, <3>4, <3>5, EveryStepHasAKind DEF StepKind
  <2> QED
    BY <2>1, <2>2, <2>3
<1>3. ASSUME NEW w \in Active', worker'[w].pc \in {"clear", "announce"}
      PROVE  files'[worker'[w].hash].status = "SEEDING"
  <2>0. w \in Workers
    BY DEF Active
  <2>1. CASE worker[w].pc \in {"clear", "announce"} /\ worker'[w].hash = worker[w].hash
    <3>1. w \in Active /\ files[worker[w].hash].status = "SEEDING"
      BY <2>0, <2>1 DEF Active, Idle, SessionsHaveRecords
    <3>2. ASSUME NEW v \in Active, worker[v].hash = worker[w].hash, UpdateBy(v) PROVE FALSE
      BY <2>1, <3>1, <3>2 DEF OneWorkerPerHash, UpdateBy, MarkDownloading, TransferFails,
         Promote, GiveUp
    <3> QED
      BY <1>1, <2>1, <3>1, <3>2, OwnedStep
  <2>2. CASE Promote(w) /\ worker'[w].hash = worker[w].hash
    <3>1. w \in Active
      BY <2>0, <2>2 DEF Active, Promote, Idle
    <3>2. files[worker[w].hash] # NoRecord /\ worker[w].hash \in Hashes
      BY <1>1, <3>1 DEF SessionsHaveRecords
    <3> QED
      BY <2>2, <3>2 DEF Promote, Commit, UpdateFileStatus, BaseType
  <2> QED
    BY <1>3, <2>0, <2>1, <2>2, ComesToAnnounce
<1>4. \A c \in Callers : caller'[c].pc = "start" => files'[caller'[c].hash] # NoRecord
  BY CallersStep
<1> QED
  BY <1>2, <1>3, <1>4 DEF SessionsHaveRecords

\* The FILE_META that follows a download is broadcast while the record says
\* SEEDING, provided that transactions do not fail.
THEOREM Rebroadcast ==
    ASSUME DbFaults = FALSE
    PROVE  Spec => RebroadcastWhileSeeding
<1>1. Init => IInv /\ SessionsHaveRecords
  BY IInvInit DEF Init, SessionsHaveRecords, Idle, Active
<1>2. IInv /\ SessionsHaveRecords /\ [Next]_vars => IInv' /\ SessionsHaveRecords'
  BY IInvStep, SessionRecordsStep DEF IInv, SessionInv
<1>3. IInv /\ SessionsHaveRecords /\ [Next]_vars
        => [\A w \in Workers : RebroadcastFileMeta(w)
              => files[worker[w].hash].status = "SEEDING"]_vars
  BY DEF RebroadcastFileMeta, SessionsHaveRecords, Active, Idle
<1> QED
  BY <1>1, <1>2, <1>3, PTL DEF Spec, RebroadcastWhileSeeding

-----------------------------------------------------------------------------
(* The refinement of DownloadPool.  Sessions are read off a function from   *)
(* workers to jobs, which is here a parameter, for use before and after a   *)
(* step.                                                                    *)

Distinct(f) == \A v \in Workers, w \in Workers :
                  f[v] # Idle /\ f[w] # Idle /\ f[v].hash = f[w].hash => v = w

Session(f, h) ==
    IF \E w \in {v \in Workers : f[v] # Idle} : f[w].hash = h
      THEN LET w == CHOOSE w \in {v \in Workers : f[v] # Idle} : f[w].hash = h
           IN  [phase |-> Phase(f[w].pc), attempt |-> f[w].attempt]
      ELSE [phase |-> "none", attempt |-> 0]

SessionMap == [h \in Hashes |-> SessionOf(h)]

\* The session of a worker's hash is that worker's.
LEMMA SessionIs ==
    ASSUME NEW f, Distinct(f), NEW w \in Workers, f[w] # Idle
    PROVE  Session(f, f[w].hash) = [phase |-> Phase(f[w].pc), attempt |-> f[w].attempt]
<1> DEFINE v == CHOOSE v \in {x \in Workers : f[x] # Idle} : f[v].hash = f[w].hash
<1>1. v \in Workers /\ f[v] # Idle /\ f[v].hash = f[w].hash
  OBVIOUS
<1>2. v = w
  BY <1>1 DEF Distinct
<1> QED
  BY <1>2 DEF Session

\* Where only w's job changes, sessions of other hashes are the same.
LEMMA SessionElsewhere ==
    ASSUME NEW f, NEW g, Distinct(f), Distinct(g), NEW w \in Workers, NEW h,
           \A v \in Workers \ {w} : g[v] = f[v],
           f[w] # Idle => f[w].hash # h, g[w] # Idle => g[w].hash # h
    PROVE  Session(g, h) = Session(f, h)
<1>1. ASSUME NEW v \in Workers, f[v] # Idle, f[v].hash = h PROVE Session(g, h) = Session(f, h)
  <2>1. v # w /\ g[v] = f[v]
    BY <1>1
  <2>2. Session(f, h) = [phase |-> Phase(f[v].pc), attempt |-> f[v].attempt]
    BY <1>1, SessionIs
  <2>3. Session(g, h) = [phase |-> Phase(g[v].pc), attempt |-> g[v].attempt]
    BY <1>1, <2>1, SessionIs
  <2> QED
    BY <2>1, <2>2, <2>3
<1>2. CASE ~\E v \in Workers : f[v] # Idle /\ f[v].hash = h
  <2>1. ~\E v \in Workers : g[v] # Idle /\ g[v].hash = h
    BY <1>2
  <2> QED
    BY <1>2, <2>1 DEF Session
<1> QED
  BY <1>1, <1>2

\* A change of one job is a change of at most one session.
LEMMA SessionMapChanges ==
    ASSUME BaseType, Distinct(worker), Distinct(worker'), NEW w \in Workers, NEW h \in Hashes,
           \A v \in Workers \ {w} : worker'[v] = worker[v],
           worker[w] # Idle => worker[w].hash = h, worker'[w] # Idle => worker'[w].hash = h
    PROVE  SessionMap' = [SessionMap EXCEPT ![h] = Session(worker', h)]
<1>1. \A g \in Hashes : SessionMap[g] = Session(worker, g)
  BY DEF SessionMap, SessionOf, Session, Active
<1>2. \A g \in Hashes : SessionMap'[g] = Session(worker', g)
  BY DEF SessionMap, SessionOf, Session, Active
<1>3. \A g \in Hashes \ {h} : Session(worker', g) = Session(worker, g)
  BY SessionElsewhere
<1> QED
  BY <1>1, <1>2, <1>3 DEF SessionMap

\* Fewer attempts run than slots are taken.
LEMMA RunningHolds ==
    ASSUME IInv, freeSlots > 0
    PROVE  Cardinality({h \in Hashes : SessionMap[h].phase = "running"}) < SyncCap
<1> DEFINE R == {h \in Hashes : SessionMap[h].phase = "running"}
<1>1. \A h \in R : \E w \in Holding : worker[w].hash = h
  <2> SUFFICES ASSUME NEW h \in R PROVE \E w \in Holding : worker[w].hash = h
    OBVIOUS
  <2>1. SessionOf(h).phase = "running"
    BY DEF SessionMap
  <2>2. \E w \in Active : worker[w].hash = h /\ Phase(worker[w].pc) = "running"
    BY <2>1 DEF SessionOf
  <2> QED
    BY <2>2, Phases DEF Holding, Active
<1>2. IsFiniteSet(Holding) /\ Cardinality(Holding) \in Nat
  BY FS_Subset, FS_CardinalityType DEF Holding
<1> DEFINE f == [h \in R |-> CHOOSE w \in Holding : worker[w].hash = h]
<1>3. \A h \in R : f[h] \in Holding /\ worker[f[h]].hash = h
  BY <1>1
<1> HIDE DEF R
<1>4. f \in Injection(R, Holding)
  BY <1>3 DEF Injection, IsInjective
<1>5. IsFiniteSet(R) /\ Cardinality(R) <= Cardinality(Holding)
  BY <1>2, <1>4, FS_Injection
<1>6. Cardinality(R) \in Nat
  BY <1>5, FS_CardinalityType
<1>7. Cardinality(Holding) < SyncCap
  BY <1>2 DEF IInv, SlotsConserved, BaseType
<1>8. Cardinality(R) < SyncCap
  BY <1>2, <1>5, <1>6, <1>7
<1> QED
  BY <1>8 DEF R

\* The pool counts as this module does.
LEMMA PoolCardinality == \A S : Pool!Cardinality(S) = Cardinality(S)
BY DEF Pool!Cardinality, Cardinality, Pool!IsFiniteSet, IsFiniteSet

\* Every step of the orchestrator is a step of the pool, or none.
LEMMA PoolStep == IInv /\ IInv' /\ StepKind => [Pool!Next]_SessionMap
<1> SUFFICES ASSUME IInv, IInv', StepKind PROVE Pool!Next \/ SessionMap' = SessionMap
  OBVIOUS
<1>0. BaseType /\ Distinct(worker) /\ Distinct(worker')
  BY DEF IInv, SessionInv, OneWorkerPerHash, Active, Distinct
<1>1. CASE Quiet
  BY <1>1 DEF Quiet, SessionMap, SessionOf, Active
<1>2. ASSUME NEW c \in Callers, NEW w \in Workers, StartDownload(c, w) PROVE Pool!Next
  <2> DEFINE h == caller[c].hash
  <2>1. h \in Hashes /\ h \notin inFlight /\ worker[w] = Idle
    BY <1>0, <1>2, OfferOf DEF StartDownload, OfferPcs, Offer, MayStart
  <2>2. worker'[w] = FirstJob(c) /\ \A v \in Workers \ {w} : worker'[v] = worker[v]
    BY <1>0, <1>2 DEF StartDownload, BaseType
  <2>3. /\ worker'[w] # Idle /\ worker'[w].hash = h
        /\ worker'[w].pc = "waiting" /\ worker'[w].attempt = 1
    BY <2>2 DEF FirstJob, Idle
  <2> HIDE DEF h
  <2>4. Session(worker', h) = [phase |-> "queued", attempt |-> 1]
    BY <1>0, <2>3, SessionIs, Phases
  <2>5. SessionMap' = [SessionMap EXCEPT ![h] = Session(worker', h)]
    BY <1>0, <2>1, <2>2, <2>3, SessionMapChanges
  <2>6. SessionMap[h] = [phase |-> "none", attempt |-> 0]
    BY <2>1 DEF SessionMap, SessionOf, IInv, SessionInv, InFlightTracksWorkers
  <2>7. Pool!Open(h)
    BY <2>4, <2>5, <2>6 DEF Pool!Open, Pool!Set, Pool!NoSession, SessionMap
  <2> QED
    BY <2>1, <2>7 DEF Pool!Next
<1>3. ASSUME NEW w \in Workers, Finish(w) PROVE Pool!Next
  <2> DEFINE h == worker[w].hash
  <2>1. worker[w] \in Job /\ worker[w] # Idle /\ h \in Hashes /\ worker[w].pc = "finish"
    BY <1>0, <1>3, PcOfActive DEF Finish, Job
  <2>2. worker'[w] = Idle /\ \A v \in Workers \ {w} : worker'[v] = worker[v]
    BY <1>0, <1>3 DEF Finish, BaseType
  <2>3. SessionMap' = [SessionMap EXCEPT ![h] = Session(worker', h)]
    BY <1>0, <2>1, <2>2, SessionMapChanges
  <2>4. Session(worker', h) = [phase |-> "none", attempt |-> 0]
    BY <1>0, <2>1, <2>2 DEF Session, Distinct
  <2>5. SessionMap[h] = [phase |-> "closing", attempt |-> worker[w].attempt]
    <3>1. Session(worker, h) = [phase |-> "closing", attempt |-> worker[w].attempt]
      BY <1>0, <2>1, SessionIs, Phases
    <3> QED
      BY <2>1, <3>1 DEF SessionMap, SessionOf, Session, Active
  <2> HIDE DEF h
  <2>6. Pool!Leave(h)
    BY <2>3, <2>4, <2>5 DEF Pool!Leave, Pool!NoSession, SessionMap
  <2> QED
    BY <2>1, <2>6 DEF Pool!Next
<1>4. CASE Crash
  <2>1. SessionMap' = [h \in Hashes |-> [phase |-> "none", attempt |-> 0]]
    BY <1>4 DEF Crash, SessionMap, SessionOf, Active
  <2> QED
    BY <2>1 DEF Pool!Next, Pool!Crash, Pool!NoSession, SessionMap
<1>5. ASSUME NEW w, NEW j, Moves(w, j) PROVE Pool!Next \/ SessionMap' = SessionMap
  <2> DEFINE h == worker[w].hash
  <2>1. w \in Workers /\ worker[w] \in Job /\ j \in Job /\ j.hash = h /\ h \in Hashes
    BY <1>5 DEF Moves, Job
  <2>2. worker'[w] = j /\ \A v \in Workers \ {w} : worker'[v] = worker[v]
    BY <1>0, <1>5 DEF Moves, BaseType
  <2>3. worker[w] # Idle /\ j # Idle
    BY <2>1 DEF Job, Idle
  <2>4. SessionMap' = [SessionMap EXCEPT ![h] = Session(worker', h)]
    BY <1>0, <2>1, <2>2, <2>3, SessionMapChanges
  <2>5. Session(worker', h) = [phase |-> Phase(j.pc), attempt |-> j.attempt]
    BY <1>0, <2>1, <2>2, <2>3, SessionIs
  <2>6. SessionMap[h] = [phase |-> Phase(worker[w].pc), attempt |-> worker[w].attempt]
    <3>1. Session(worker, h) = [phase |-> Phase(worker[w].pc), attempt |-> worker[w].attempt]
      BY <1>0, <2>1, <2>3, SessionIs
    <3> QED
      BY <2>1, <3>1 DEF SessionMap, SessionOf, Session, Active
  <2> HIDE DEF h
  <2>7. CASE Phase(j.pc) = Phase(worker[w].pc) /\ j.attempt = worker[w].attempt
    <3>1. SessionMap' = SessionMap
      BY <2>1, <2>4, <2>5, <2>6, <2>7 DEF SessionMap
    <3> QED
      BY <3>1
  <2>8. CASE /\ freeSlots > 0 /\ Phase(worker[w].pc) = "queued" /\ Phase(j.pc) = "running"
             /\ j.attempt = worker[w].attempt
    <3>1. /\ SessionMap[h].phase = "queued"
          /\ SessionMap' = [SessionMap EXCEPT ![h] = [phase |-> "running",
                                                     attempt |-> SessionMap[h].attempt]]
      BY <2>4, <2>5, <2>6, <2>8
    <3>2. Pool!Cardinality(Pool!Running) < SyncCap
      <4>1. Pool!Running = {g \in Hashes : SessionMap[g].phase = "running"}
        BY DEF Pool!Running, SessionMap
      <4> QED
        BY <2>8, <4>1, RunningHolds, PoolCardinality
    <3>3. Pool!Set(h, "running", SessionMap[h].attempt)
      BY <3>1 DEF Pool!Set, SessionMap
    <3>4. Pool!Attempt(h)
      BY <3>1, <3>2, <3>3 DEF Pool!Attempt, SessionMap
    <3> QED
      BY <2>1, <3>4 DEF Pool!Next
  <2>9. CASE /\ Phase(worker[w].pc) = "running" /\ Phase(j.pc) = "closing"
             /\ j.attempt = worker[w].attempt
    <3>1. /\ SessionMap[h].phase = "running"
          /\ SessionMap' = [SessionMap EXCEPT ![h] = [phase |-> "closing",
                                                     attempt |-> SessionMap[h].attempt]]
      BY <2>4, <2>5, <2>6, <2>9
    <3>2. Pool!Close(h)
      BY <3>1 DEF Pool!Close, Pool!Set, SessionMap
    <3> QED
      BY <2>1, <3>2 DEF Pool!Next
  <2>10. CASE /\ Phase(worker[w].pc) = "running" /\ Phase(j.pc) = "queued"
              /\ worker[w].attempt < MaxRetries /\ j.attempt = worker[w].attempt + 1
    <3>1. /\ SessionMap[h].phase = "running" /\ SessionMap[h].attempt < MaxRetries
          /\ SessionMap' = [SessionMap EXCEPT ![h] = [phase |-> "queued",
                                                     attempt |-> SessionMap[h].attempt + 1]]
      BY <2>4, <2>5, <2>6, <2>10
    <3>2. Pool!Retry(h)
      BY <3>1 DEF Pool!Retry, Pool!Set, SessionMap
    <3> QED
      BY <2>1, <3>2 DEF Pool!Next
  <2> QED
    BY <1>5, <2>7, <2>8, <2>9, <2>10 DEF Moves
<1> QED
  BY <1>1, <1>2, <1>3, <1>4, <1>5 DEF StepKind

\* The orchestrator, with its goroutines, lock, semaphore, failing transactions
\* and crashes, implements the pool: one session a hash, MaxRetries attempts a
\* session, SyncCap attempts at a time.
THEOREM PoolImplemented == Spec => ImplementsPool
<1>1. Init => Pool!Init
  BY DEF Init, Pool!Init, Pool!NoSession, SessionOf, Active
<1>2. IInv /\ IInv' /\ [Next]_vars => [Pool!Next]_SessionMap
  BY PoolStep, EveryStepHasAKind DEF IInv
<1>3. IInv /\ IInv' /\ [Next]_vars => [Pool!Next]_([h \in Hashes |-> SessionOf(h)])
  BY <1>2 DEF SessionMap
<1> QED
  BY <1>1, <1>3, Invariance, PTL DEF Spec, ImplementsPool, Pool!Safe

-----------------------------------------------------------------------------
(* Sessions come to an end.                                                 *)

\* How far a turn of downloadWithRetry's loop has got, counted backwards.
Stage == [waiting |-> 9, mark |-> 8, transfer |-> 7, clear |-> 6, announce |-> 5,
          releaseDone |-> 4, releaseRetry |-> 4, giveUp |-> 3, note |-> 2, finish |-> 1]

\* The steps that a worker with job j can still take at most.
TurnsLeft(j) == IF j.pc = "idle" THEN 0 ELSE 9 * (MaxRetries - j.attempt) + Stage[j.pc]

\* Every step of a session brings it nearer to its end, a retry included, and
\* nothing that callers, other sessions or a crash do takes it back.
SessionsShorten ==
    \A w \in Active :
        /\ TurnsLeft(worker'[w]) <= TurnsLeft(worker[w])
        /\ AcquireSlot(w) \/ WorkerStep(w) => TurnsLeft(worker'[w]) < TurnsLeft(worker[w])

\* Whoever waits for a slot in vain waits behind somebody who holds one.
WaitingBehindHolders ==
    \A w \in Workers : worker[w].pc = "waiting" /\ freeSlots = 0 => Holding # {}

\* Stages are numbers.
LEMMA StageTyped == \A pc \in WorkerPcs : Stage[pc] \in 1..9
BY DEF Stage, WorkerPcs, HoldingPcs

\* The steps that are left are a number, and few enough for MaxRetries attempts.
LEMMA TurnsTyped ==
    ASSUME NEW j \in Job \cup {Idle}
    PROVE  TurnsLeft(j) \in 0..(9 * MaxRetries)
<1>1. CASE j = Idle
  <2>1. j.pc = "idle"
    BY <1>1 DEF Idle
  <2> QED
    BY <2>1 DEF TurnsLeft
<1>2. CASE j \in Job
  <2>1. j.pc \in WorkerPcs /\ j.attempt \in 1..MaxRetries
    BY <1>2 DEF Job
  <2>2. Stage[j.pc] \in 1..9
    BY <2>1, StageTyped
  <2> QED
    BY <2>1, <2>2 DEF TurnsLeft
<1> QED
  BY <1>1, <1>2

\* A step to a later stage of the same attempt.
LEMMA NextStage ==
    ASSUME BaseType, NEW w \in Workers, NEW pc \in WorkerPcs, worker[w].pc # "idle",
           WorkerGoes(w, pc), Stage[pc] < Stage[worker[w].pc]
    PROVE  TurnsLeft(worker'[w]) < TurnsLeft(worker[w])
<1>1. PICK j \in Job : j = worker[w]
  BY PcOfActive
<1>2. PICK k : k = [j EXCEPT !.pc = pc]
  OBVIOUS
<1>3. k.pc = pc /\ k.attempt = j.attempt
  BY <1>2 DEF Job
<1>4. worker'[w] = k
  BY <1>1, <1>2 DEF WorkerGoes, BaseType
<1>5. j.attempt \in 1..MaxRetries /\ j.pc \in WorkerPcs
  BY DEF Job
<1>6. Stage[pc] \in 1..9 /\ Stage[j.pc] \in 1..9
  BY <1>5, StageTyped
<1>7. pc # "idle"
  BY DEF WorkerPcs, HoldingPcs
<1>8. TurnsLeft(k) = 9 * (MaxRetries - j.attempt) + Stage[pc]
  BY <1>3, <1>7 DEF TurnsLeft
<1>9. TurnsLeft(j) = 9 * (MaxRetries - j.attempt) + Stage[j.pc]
  BY <1>1 DEF TurnsLeft
<1> QED
  BY <1>1, <1>4, <1>5, <1>6, <1>8, <1>9

\* A session's own step.
LEMMA OwnTurn ==
    ASSUME BaseType, NEW w \in Workers, AcquireSlot(w) \/ WorkerStep(w)
    PROVE  TurnsLeft(worker'[w]) < TurnsLeft(worker[w])
<1>1. CASE AcquireSlot(w)
  <2>1. worker[w].pc = "waiting" /\ WorkerGoes(w, "mark")
    BY <1>1 DEF AcquireSlot
  <2> QED
    BY <2>1, NextStage DEF Stage, WorkerPcs, HoldingPcs
<1>2. CASE MarkDownloading(w)
  <2>1. worker[w].pc = "mark" /\ WorkerGoes(w, "transfer")
    BY <1>2 DEF MarkDownloading
  <2> QED
    BY <2>1, NextStage DEF Stage, WorkerPcs, HoldingPcs
<1>3. CASE TransferFails(w)
  <2>1. worker[w].pc = "transfer" /\ WorkerGoes(w, "releaseRetry")
    BY <1>3 DEF TransferFails
  <2> QED
    BY <2>1, NextStage DEF Stage, WorkerPcs, HoldingPcs
<1>4. CASE Promote(w)
  <2>1. worker[w].pc = "transfer" /\ WorkerGoes(w, "clear")
    BY <1>4 DEF Promote
  <2> QED
    BY <2>1, NextStage DEF Stage, WorkerPcs, HoldingPcs
<1>5. CASE ClearAutoFailure(w)
  <2>1. worker[w].pc = "clear" /\ WorkerGoes(w, "announce")
    BY <1>5 DEF ClearAutoFailure
  <2> QED
    BY <2>1, NextStage DEF Stage, WorkerPcs, HoldingPcs
<1>6. CASE RebroadcastFileMeta(w)
  <2>1. worker[w].pc = "announce" /\ WorkerGoes(w, "releaseDone")
    BY <1>6 DEF RebroadcastFileMeta
  <2> QED
    BY <2>1, NextStage DEF Stage, WorkerPcs, HoldingPcs
<1>7. CASE GiveUp(w)
  <2>1. worker[w].pc = "giveUp" /\ (WorkerGoes(w, "note") \/ WorkerGoes(w, "finish"))
    BY <1>7 DEF GiveUp
  <2> QED
    BY <2>1, NextStage DEF Stage, WorkerPcs, HoldingPcs
<1>8. CASE NoteAutoFailure(w)
  <2>1. worker[w].pc = "note" /\ WorkerGoes(w, "finish")
    BY <1>8 DEF NoteAutoFailure
  <2> QED
    BY <2>1, NextStage DEF Stage, WorkerPcs, HoldingPcs
<1>9. CASE Finish(w)
  <2>1. PICK j \in Job : j = worker[w] /\ j.pc = "finish"
    BY <1>9, PcOfActive DEF Finish
  <2>2. j.attempt \in 1..MaxRetries
    BY DEF Job
  <2>3. TurnsLeft(j) = 9 * (MaxRetries - j.attempt) + 1
    BY <2>1 DEF TurnsLeft, Stage
  <2>4. worker'[w] = Idle
    BY <1>9 DEF Finish, BaseType
  <2>5. TurnsLeft(Idle) = 0
    BY DEF TurnsLeft, Idle
  <2>6. TurnsLeft(worker[w]) = TurnsLeft(j) /\ TurnsLeft(worker'[w]) = TurnsLeft(Idle)
    BY <2>1, <2>4
  <2>7. 0 < 9 * (MaxRetries - j.attempt) + 1
    BY <2>2
  <2> QED
    BY <2>3, <2>5, <2>6, <2>7
<1>10. CASE ReleaseSlot(w)
  <2>1. CASE WorkerGoes(w, "finish") \/ WorkerGoes(w, "giveUp")
    <3>1. worker[w].pc \in {"releaseDone", "releaseRetry"}
      BY <1>10 DEF ReleaseSlot
    <3> QED
      BY <2>1, <3>1, NextStage DEF Stage, WorkerPcs, HoldingPcs
  <2>2. CASE /\ worker[w].pc = "releaseRetry"
             /\ ~LastAttempt(w)
             /\ worker' = [worker EXCEPT ![w].pc = "waiting", ![w].attempt = @ + 1]
    <3>1. PICK j \in Job : j = worker[w] /\ j.pc = "releaseRetry"
      BY <2>2, PcOfActive
    <3>2. PICK k : k = [j EXCEPT !.pc = "waiting", !.attempt = @ + 1]
      OBVIOUS
    <3>3. k.pc = "waiting" /\ k.attempt = j.attempt + 1
      BY <3>2 DEF Job
    <3>4. worker'[w] = k
      BY <2>2, <3>1, <3>2 DEF BaseType
    <3>5. j.attempt \in 1..MaxRetries
      BY DEF Job
    <3>6. TurnsLeft(k) = 9 * (MaxRetries - (j.attempt + 1)) + 9
      BY <3>3 DEF TurnsLeft, Stage
    <3>7. TurnsLeft(j) = 9 * (MaxRetries - j.attempt) + 4
      BY <3>1 DEF TurnsLeft, Stage
    <3> QED
      BY <3>1, <3>4, <3>5, <3>6, <3>7
  <2> QED
    BY <1>10, <2>1, <2>2 DEF ReleaseSlot
<1> QED
  BY <1>1, <1>2, <1>3, <1>4, <1>5, <1>6, <1>7, <1>8, <1>9, <1>10 DEF WorkerStep

\* What the others do to a session: nothing, or they end it with the daemon.
LEMMA OthersTurn ==
    ASSUME BaseType, [Next]_vars, NEW w \in Active, ~AcquireSlot(w), ~WorkerStep(w)
    PROVE  worker'[w] \in {worker[w], Idle}
<1>0. w \in Workers /\ worker[w] # Idle
  BY DEF Active
<1>1. CASE Startup
  BY <1>1 DEF Startup, ComeUp, ResumeRecord
<1>2. CASE Crash
  BY <1>0, <1>2 DEF Crash
<1>3. ASSUME NEW c \in Callers, CallerStep(c) PROVE worker'[w] = worker[w]
  <2>1. ASSUME NEW v \in Workers, StartDownload(c, v) PROVE worker'[w] = worker[w]
    BY <1>0, <2>1 DEF StartDownload, BaseType
  <2>2. CASE CheckMode(c) \/ InsertManualOnly(c) \/ InsertKnown(c) \/ AlreadyInFlight(c)
             \/ PublishAnnounce(c)
    BY <2>2 DEF CheckMode, InsertManualOnly, InsertKnown, AlreadyInFlight, PublishAnnounce
  <2> QED
    BY <1>3, <2>1, <2>2 DEF CallerStep
<1>4. ASSUME NEW c \in Callers, Environment(c) PROVE worker'[w] = worker[w]
  BY <1>4 DEF Environment, ReadPrevious, ReadForPull, PublishInsert
<1>5. ASSUME NEW v \in Workers, v # w, AcquireSlot(v) \/ WorkerStep(v)
      PROVE  worker'[w] = worker[w]
  <2>1. CASE AcquireSlot(v) \/ Finish(v) \/ ReleaseSlot(v)
    BY <1>0, <1>5, <2>1 DEF AcquireSlot, Finish, ReleaseSlot, WorkerGoes, BaseType
  <2>2. CASE \/ MarkDownloading(v) \/ TransferFails(v) \/ Promote(v) \/ ClearAutoFailure(v)
             \/ RebroadcastFileMeta(v) \/ GiveUp(v) \/ NoteAutoFailure(v)
    BY <1>0, <1>5, <2>2 DEF MarkDownloading, TransferFails, Promote, ClearAutoFailure,
       RebroadcastFileMeta, GiveUp, NoteAutoFailure, WorkerGoes, BaseType
  <2> QED
    BY <1>5, <2>1, <2>2 DEF WorkerStep
<1>6. CASE UNCHANGED vars
  BY <1>6 DEF vars
<1> QED
  BY <1>1, <1>2, <1>3, <1>4, <1>5, <1>6 DEF Next

\* The safety core of SessionsGoOn: a session has a number of steps left that each
\* of its steps lessens and nothing adds to, and where it cannot go on at once
\* another session, which can, holds the slot it waits for.
THEOREM SessionsAreFinite == Spec => []WaitingBehindHolders /\ [][SessionsShorten]_vars
<1>1. IInv => WaitingBehindHolders
  <2> SUFFICES ASSUME IInv, Holding = {}, freeSlots = 0 PROVE FALSE
    BY DEF WaitingBehindHolders
  <2>1. Cardinality(Holding) = 0
    BY FS_EmptySet
  <2> QED
    BY <2>1, SizesAssumption DEF IInv, SlotsConserved
<1>2. IInv /\ [Next]_vars => SessionsShorten
  <2> SUFFICES ASSUME IInv, [Next]_vars, NEW w \in Active
               PROVE  /\ TurnsLeft(worker'[w]) <= TurnsLeft(worker[w])
                      /\ AcquireSlot(w) \/ WorkerStep(w)
                           => TurnsLeft(worker'[w]) < TurnsLeft(worker[w])
    BY DEF SessionsShorten
  <2>1. BaseType /\ BaseType' /\ w \in Workers
    BY BaseTypeStep DEF IInv, Active
  <2>2. worker[w] \in Job \cup {Idle} /\ worker'[w] \in Job \cup {Idle}
    BY <2>1 DEF BaseType
  <2>3. TurnsLeft(worker[w]) \in Nat /\ TurnsLeft(worker'[w]) \in Nat
    BY <2>2, TurnsTyped, SizesAssumption
  <2>4. ASSUME AcquireSlot(w) \/ WorkerStep(w)
        PROVE  TurnsLeft(worker'[w]) < TurnsLeft(worker[w])
    BY <2>1, <2>4, OwnTurn
  <2>5. ASSUME ~AcquireSlot(w), ~WorkerStep(w)
        PROVE  TurnsLeft(worker'[w]) <= TurnsLeft(worker[w])
    <3>1. worker'[w] = worker[w] \/ worker'[w] = Idle
      BY <2>1, <2>5, OthersTurn
    <3>2. TurnsLeft(Idle) = 0
      BY DEF TurnsLeft, Idle
    <3> QED
      BY <2>3, <3>1, <3>2
  <2> QED
    BY <2>3, <2>4, <2>5
<1> QED
  BY <1>1, <1>2, Invariance, PTL DEF Spec

=============================================================================
