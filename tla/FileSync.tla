------------------------------ MODULE FileSync ------------------------------
(***************************************************************************)
(* The file-synchronisation orchestrator of one EchoSend node              *)
(* (internal/filesync) together with the files bucket it works on          *)
(* (internal/storage).                                                     *)
(*                                                                         *)
(* Callers are the goroutines that run HandleFileMeta (one per novel       *)
(* FILE_META datagram), PullFileByHash and PublishFile (IPC requests).     *)
(* Workers are the goroutines that run downloadWithRetry.  One step is one *)
(* database transaction, one critical section or one channel operation, so *)
(* every read-then-act window of the code is a place where other steps can *)
(* come in between.                                                        *)
(*                                                                         *)
(* A transfer is abstracted to its outcome, success or error; the module   *)
(* Download has its steps.  A broadcast is a step with no local effect.  A *)
(* record keeps what the orchestrator decides by: its status, its          *)
(* LocalPath, and the (sender, file name) pair that autoKey builds.        *)
(***************************************************************************)
EXTENDS Naturals, FiniteSets

CONSTANTS
    Hashes,         \* SHA-256 hashes of the files that are ever offered
    Keys,           \* autoKey values: (sender, file name) pairs of remote offers
    Callers,        \* concurrent callers of the orchestrator
    Workers,        \* goroutines available for downloadWithRetry
    SyncCap,        \* cfg.MaxConcurrentSyncs, the capacity of sem
    MaxRetries,     \* maxDownloadRetries
    FailThreshold,  \* autoToManualFailThreshold
    Oversized,      \* hashes above the auto-download limit (all when it is 0)
    UserOps,        \* user commands in play: subset of {"pull", "publish"}
    DbFaults,       \* whether a database transaction may fail
    MaxCrashes      \* bound on the crashes and restarts of one behaviour

ASSUME SizesAssumption ==
    /\ SyncCap \in Nat \ {0}
    /\ MaxRetries \in Nat \ {0}
    /\ FailThreshold \in Nat \ {0}
    /\ MaxCrashes \in Nat
ASSUME SetsAssumption ==
    /\ IsFiniteSet(Workers)
    /\ Oversized \subseteq Hashes
    /\ DbFaults \in BOOLEAN
    /\ "self" \notin Keys

VARIABLES
    node,        \* "resuming" while Run resets stale records, then "up"
    files,       \* the files bucket (persistent)
    inFlight,    \* Orchestrator.inFlight
    freeSlots,   \* items in the channel Orchestrator.sem
    failCount,   \* Orchestrator.autoFailCount
    manualOnly,  \* Orchestrator.manualOnlyAuto
    caller,      \* control state of each caller
    worker,      \* control state of each worker
    crashes      \* crashes so far

volatile == <<inFlight, freeSlots, failCount, manualOnly>>
vars == <<node, files, volatile, caller, worker, crashes>>

-----------------------------------------------------------------------------
(* The files bucket.                                                       *)

Statuses == {"KNOWN", "DOWNLOADING", "FAILED", "SEEDING"}
Paths == {"", "stored", "published"}    \* LocalPath: none, storage dir, user's file

NoRecord == [status |-> "ABSENT"]
Record == [status : Statuses, key : Keys \cup {"self"}, path : Paths]

Owned_Never(rec) == FALSE   \* mutant: the duplicate check is gone
\* A record that makes InsertFileRecord answer ErrDuplicateFile.
Owned(rec) == rec.status = "SEEDING"

\* InsertFileRecord: overwrites any record but an owned one.
InsertFileRecord(h, rec) ==
    IF Owned(files[h]) THEN files ELSE [files EXCEPT ![h] = rec]

NewPath(old, path) == IF path = "" THEN old ELSE path

\* UpdateFileStatus: a no-op without a record; keeps LocalPath when given "".
UpdateFileStatus(h, status, path) ==
    IF files[h] = NoRecord THEN files
    ELSE [files EXCEPT ![h] = [status |-> status, key |-> files[h].key,
                               path |-> NewPath(files[h].path, path)]]

\* A transaction commits newFiles or, where faults are allowed, fails.
Commit(newFiles) == \/ files' = newFiles
                    \/ DbFaults /\ UNCHANGED files

-----------------------------------------------------------------------------
(* Control states.                                                         *)

Idle == [pc |-> "idle"]

OfferPcs == {"checkMode", "insertFailed", "insertKnown", "start"}
Offer == [pc : OfferPcs, hash : Hashes, key : Keys, auto : BOOLEAN]
Publication == [pc : {"announce"}, hash : Hashes]

\* Between acquiring a slot and giving it back; with and without success.
HoldingPcs == {"mark", "transfer", "clear", "announce", "releaseDone", "releaseRetry"}
WorkerPcs == {"waiting", "giveUp", "note", "finish"} \cup HoldingPcs
Job == [pc : WorkerPcs, hash : Hashes, key : Keys, auto : BOOLEAN,
        attempt : 1..MaxRetries]

Active == {w \in Workers : worker[w] # Idle}
Holding == {w \in Workers : worker[w].pc \in HoldingPcs}

CallerGoes(c, pc) == caller' = [caller EXCEPT ![c].pc = pc]
CallerEnds(c) == caller' = [caller EXCEPT ![c] = Idle]
WorkerGoes(w, pc) == worker' = [worker EXCEPT ![w].pc = pc]

BaseType ==
    /\ node \in {"resuming", "up"}
    /\ files \in [Hashes -> Record \cup {NoRecord}]
    /\ inFlight \in SUBSET Hashes
    /\ freeSlots \in Nat
    /\ failCount \in [Keys -> Nat]
    /\ manualOnly \in SUBSET Keys
    /\ caller \in [Callers -> Offer \cup Publication \cup {Idle}]
    /\ worker \in [Workers -> Job \cup {Idle}]
    /\ crashes \in 0..MaxCrashes

\* The variables have their types, and giving a slot back never finds the
\* channel sem full (the worker would block on the send for ever).
TypeOK == BaseType /\ freeSlots <= SyncCap

NoFailures == [k \in Keys |-> 0]

Init ==
    /\ node = "resuming"
    /\ files = [h \in Hashes |-> NoRecord]
    /\ inFlight = {}
    /\ freeSlots = SyncCap
    /\ failCount = NoFailures
    /\ manualOnly = {}
    /\ caller = [c \in Callers |-> Idle]
    /\ worker = [w \in Workers |-> Idle]
    /\ crashes = 0

-----------------------------------------------------------------------------
(* Startup: ResumePendingDownloads runs before any subsystem does.         *)

Stale_Missed(h) == FALSE    \* mutant: interrupted downloads are not found
Stale(h) == files[h].status = "DOWNLOADING"

ResumeRecord(h) ==
    /\ node = "resuming"
    /\ Stale(h)
    /\ files' = UpdateFileStatus(h, "KNOWN", "")
    /\ UNCHANGED <<node, volatile, caller, worker, crashes>>

\* A reset that fails is only logged: the daemon comes up all the same.
ComeUp ==
    /\ node = "resuming"
    /\ DbFaults \/ \A h \in Hashes : ~Stale(h)
    /\ node' = "up"
    /\ UNCHANGED <<files, volatile, caller, worker, crashes>>

Crash ==
    /\ crashes < MaxCrashes
    /\ crashes' = crashes + 1
    /\ node' = "resuming"
    /\ inFlight' = {}
    /\ freeSlots' = SyncCap
    /\ failCount' = NoFailures
    /\ manualOnly' = {}
    /\ caller' = [c \in Callers |-> Idle]
    /\ worker' = [w \in Workers |-> Idle]
    /\ UNCHANGED files

-----------------------------------------------------------------------------
(* HandleFileMeta(h, k): a FILE_META for hash h under auto key k.          *)

\* The status is read once; FAILED ends the handler, a failing read does not.
ReadPrevious(c, h, k) ==
    /\ node = "up"
    /\ caller[c] = Idle
    /\ \/ /\ files[h].status = "FAILED"
          /\ UNCHANGED caller
       \/ /\ DbFaults \/ files[h].status # "FAILED"
          /\ caller' = [caller EXCEPT ![c] = [pc |-> "checkMode", hash |-> h,
                                              key |-> k, auto |-> TRUE]]
    /\ UNCHANGED <<node, files, volatile, worker, crashes>>

CheckMode(c) ==
    /\ caller[c].pc = "checkMode"
    /\ CallerGoes(c, IF caller[c].key \in manualOnly THEN "insertFailed" ELSE "insertKnown")
    /\ UNCHANGED <<node, files, volatile, worker, crashes>>

NewRecord(c, status) == [status |-> status, key |-> caller[c].key, path |-> ""]

InsertManualOnly(c) ==
    /\ caller[c].pc = "insertFailed"
    /\ Commit(InsertFileRecord(caller[c].hash, NewRecord(c, "FAILED")))
    /\ CallerEnds(c)
    /\ UNCHANGED <<node, volatile, worker, crashes>>

\* ErrDuplicateFile ends the handler; any other error does not.
InsertKnown(c) ==
    LET h == caller[c].hash IN
    /\ caller[c].pc = "insertKnown"
    /\ \/ /\ Owned(files[h])
          /\ UNCHANGED files
          /\ CallerEnds(c)
       \/ /\ DbFaults \/ ~Owned(files[h])
          /\ Commit(InsertFileRecord(h, NewRecord(c, "KNOWN")))
          /\ IF h \in Oversized THEN CallerEnds(c) ELSE CallerGoes(c, "start")
    /\ UNCHANGED <<node, volatile, worker, crashes>>

-----------------------------------------------------------------------------
(* PullFileByHash(h): no status is asked for.  The node's own publications *)
(* have no source to pull from (ErrManualPullNoSource).                    *)

ReadForPull(c, h) ==
    /\ "pull" \in UserOps
    /\ node = "up"
    /\ caller[c] = Idle
    /\ files[h] # NoRecord
    /\ files[h].key # "self"
    /\ caller' = [caller EXCEPT ![c] = [pc |-> "start", hash |-> h,
                                        key |-> files[h].key, auto |-> FALSE]]
    /\ UNCHANGED <<node, files, volatile, worker, crashes>>

(* startTrackedDownload, from either caller: the check and the insertion   *)
(* are one critical section; the goroutine is spawned after it.            *)

MayStart_Unchecked(h) == TRUE   \* mutant: the set is not consulted
MayStart(h) == h \notin inFlight

FirstJob(c) == [pc |-> "waiting", hash |-> caller[c].hash, key |-> caller[c].key,
                auto |-> caller[c].auto, attempt |-> 1]

AlreadyInFlight(c) ==
    /\ caller[c].pc = "start"
    /\ ~MayStart(caller[c].hash)
    /\ CallerEnds(c)
    /\ UNCHANGED <<node, files, volatile, worker, crashes>>

StartDownload(c, w) ==
    /\ caller[c].pc = "start"
    /\ MayStart(caller[c].hash)
    /\ worker[w] = Idle
    /\ inFlight' = inFlight \cup {caller[c].hash}
    /\ worker' = [worker EXCEPT ![w] = FirstJob(c)]
    /\ CallerEnds(c)
    /\ UNCHANGED <<node, files, freeSlots, failCount, manualOnly, crashes>>

-----------------------------------------------------------------------------
(* PublishFile: the record first, then the broadcast.  A failed insert     *)
(* returns an error and broadcasts nothing.                                *)

PublishInsert(c, h) ==
    /\ "publish" \in UserOps
    /\ node = "up"
    /\ caller[c] = Idle
    /\ files' = InsertFileRecord(h, [status |-> "SEEDING", key |-> "self",
                                     path |-> "published"])
    /\ caller' = [caller EXCEPT ![c] = [pc |-> "announce", hash |-> h]]
    /\ UNCHANGED <<node, volatile, worker, crashes>>

PublishAnnounce(c) ==
    /\ caller[c].pc = "announce"
    /\ CallerEnds(c)
    /\ UNCHANGED <<node, files, volatile, worker, crashes>>

-----------------------------------------------------------------------------
(* downloadWithRetry and executeDownload.                                  *)

\* The back-off timer, if any, and then a slot.
AcquireSlot(w) ==
    /\ worker[w].pc = "waiting"
    /\ freeSlots > 0
    /\ freeSlots' = freeSlots - 1
    /\ WorkerGoes(w, "mark")
    /\ UNCHANGED <<node, files, inFlight, failCount, manualOnly, caller, crashes>>

MarkDownloading(w) ==
    /\ worker[w].pc = "mark"
    /\ Commit(UpdateFileStatus(worker[w].hash, "DOWNLOADING", ""))
    /\ WorkerGoes(w, "transfer")
    /\ UNCHANGED <<node, volatile, caller, crashes>>

\* DownloadFile returns an error: the record is FAILED at once.
TransferFails(w) ==
    /\ worker[w].pc = "transfer"
    /\ Commit(UpdateFileStatus(worker[w].hash, "FAILED", ""))
    /\ WorkerGoes(w, "releaseRetry")
    /\ UNCHANGED <<node, volatile, caller, crashes>>

\* DownloadFile returns a path: the node becomes a seeder.
Promote(w) ==
    /\ worker[w].pc = "transfer"
    /\ Commit(UpdateFileStatus(worker[w].hash, "SEEDING", "stored"))
    /\ WorkerGoes(w, "clear")
    /\ UNCHANGED <<node, volatile, caller, crashes>>

CountsCleared(k) == [failCount EXCEPT ![k] = 0]

ClearAutoFailure(w) ==
    /\ worker[w].pc = "clear"
    /\ failCount' = CountsCleared(worker[w].key)
    /\ manualOnly' = manualOnly \ {worker[w].key}
    /\ WorkerGoes(w, "announce")
    /\ UNCHANGED <<node, files, inFlight, freeSlots, caller, crashes>>

RebroadcastFileMeta(w) ==
    /\ worker[w].pc = "announce"
    /\ WorkerGoes(w, "releaseDone")
    /\ UNCHANGED <<node, files, volatile, caller, crashes>>

SlotsAfter_Success(w) ==    \* mutant: a failed attempt keeps its slot
    freeSlots + (IF worker[w].pc = "releaseDone" THEN 1 ELSE 0)
SlotsAfter(w) == freeSlots + 1

LastAttempt_Late(w) == worker[w].attempt > MaxRetries   \* mutant: off by one
LastAttempt(w) == worker[w].attempt = MaxRetries

\* The slot goes back whatever the outcome; then the loop's next turn.
ReleaseSlot(w) ==
    /\ worker[w].pc \in {"releaseDone", "releaseRetry"}
    /\ freeSlots' = SlotsAfter(w)
    /\ \/ /\ worker[w].pc = "releaseDone"
          /\ WorkerGoes(w, "finish")
       \/ /\ worker[w].pc = "releaseRetry"
          /\ ~LastAttempt(w)
          /\ worker' = [worker EXCEPT ![w].pc = "waiting", ![w].attempt = @ + 1]
       \/ /\ worker[w].pc = "releaseRetry"
          /\ LastAttempt(w)
          /\ WorkerGoes(w, "giveUp")
    /\ UNCHANGED <<node, files, inFlight, failCount, manualOnly, caller, crashes>>

GiveUp(w) ==
    /\ worker[w].pc = "giveUp"
    /\ Commit(UpdateFileStatus(worker[w].hash, "FAILED", ""))
    /\ WorkerGoes(w, IF worker[w].auto THEN "note" ELSE "finish")
    /\ UNCHANGED <<node, volatile, caller, crashes>>

NoteAutoFailure(w) ==
    LET k == worker[w].key IN
    /\ worker[w].pc = "note"
    /\ failCount' = [failCount EXCEPT ![k] = @ + 1]
    /\ manualOnly' = IF failCount[k] + 1 >= FailThreshold
                       THEN manualOnly \cup {k} ELSE manualOnly
    /\ WorkerGoes(w, "finish")
    /\ UNCHANGED <<node, files, inFlight, freeSlots, caller, crashes>>

InFlightWithout_Kept(h) == inFlight     \* mutant: the entry is never removed
InFlightWithout(h) == inFlight \ {h}

\* The deferred function: the last thing a session does.
Finish(w) ==
    /\ worker[w].pc = "finish"
    /\ inFlight' = InFlightWithout(worker[w].hash)
    /\ worker' = [worker EXCEPT ![w] = Idle]
    /\ UNCHANGED <<node, files, freeSlots, failCount, manualOnly, caller, crashes>>

-----------------------------------------------------------------------------
Startup == ComeUp \/ \E h \in Hashes : ResumeRecord(h)

CallerStep(c) ==
    \/ CheckMode(c) \/ InsertManualOnly(c) \/ InsertKnown(c)
    \/ AlreadyInFlight(c) \/ PublishAnnounce(c)
    \/ \E w \in Workers : StartDownload(c, w)

Environment(c) ==
    \E h \in Hashes : \/ \E k \in Keys : ReadPrevious(c, h, k)
                      \/ ReadForPull(c, h)
                      \/ PublishInsert(c, h)

WorkerStep(w) ==
    \/ MarkDownloading(w) \/ TransferFails(w) \/ Promote(w)
    \/ ClearAutoFailure(w) \/ RebroadcastFileMeta(w) \/ ReleaseSlot(w)
    \/ GiveUp(w) \/ NoteAutoFailure(w) \/ Finish(w)

Next == \/ Startup \/ Crash
        \/ \E c \in Callers : CallerStep(c) \/ Environment(c)
        \/ \E w \in Workers : AcquireSlot(w) \/ WorkerStep(w)

Spec == Init /\ [][Next]_vars

(* Goroutines that can run do run; a channel serves its receivers in the   *)
(* order they came, so a waiting worker is not overtaken for ever; every   *)
(* connection has a deadline, so every transfer returns.                   *)
FairSpec == /\ Spec
            /\ WF_vars(Startup)
            /\ \A c \in Callers : WF_vars(CallerStep(c))
            /\ \A w \in Workers : WF_vars(WorkerStep(w)) /\ SF_vars(AcquireSlot(w))

-----------------------------------------------------------------------------
(* Safety.                                                                 *)

\* inFlight keeps two goroutines from ever working on the same hash, through
\* every interleaving of gossip handlers, manual pulls and ending sessions.
OneWorkerPerHash ==
    \A v, w \in Active : worker[v].hash = worker[w].hash => v = w

\* inFlight is exactly the set of hashes being worked on: an entry left behind
\* would refuse every later download of that hash, one removed too early would
\* let a second goroutine in.
InFlightTracksWorkers == inFlight = {worker[w].hash : w \in Active}

\* No slot of sem is lost or made up on any path of downloadWithRetry, so the
\* cap on concurrent downloads holds for the daemon's whole life.
SlotsConserved == freeSlots + Cardinality(Holding) = SyncCap

\* While the daemon is up, a record says DOWNLOADING only if some worker is
\* transferring that file now: no crash, retry or overwriting FILE_META leaves
\* a record that looks busy for ever.  (Needs a database that does not fail.)
NoOrphanDownloading ==
    node = "up" => \A h \in Hashes : files[h].status = "DOWNLOADING" =>
        \E w \in Active : worker[w].hash = h /\ worker[w].pc = "transfer"

(* What a step may never do.                                               *)

\* A record the node owns is changed by nothing but a download session of that
\* very hash: no FILE_META, publication or restart overwrites it.
OwnedOnlyChangedBySession ==
    [][\A h \in Hashes : files[h].status = "SEEDING" /\ files'[h] # files[h]
          => \E w \in Active : worker[w].hash = h]_vars

\* When a session re-broadcasts FILE_META after its download, the record is
\* SEEDING at that moment, whatever ran between the promotion and the broadcast:
\* the peers that react at once are served.
RebroadcastWhileSeeding ==
    [][\A w \in Workers : RebroadcastFileMeta(w)
          => files[worker[w].hash].status = "SEEDING"]_vars

(* Liveness, under FairSpec.                                               *)

\* A record never stays DOWNLOADING: the session ends it, or the restart does.
DownloadingEnds ==
    \A h \in Hashes : files[h].status = "DOWNLOADING" ~> files[h].status # "DOWNLOADING"

(* The abstract specification: session h is read off the worker on hash h. *)

Phase(pc) == CASE pc = "waiting" -> "queued"
               [] pc \in HoldingPcs -> "running"
               [] OTHER -> "closing"

SessionOf(h) ==
    IF \E w \in Active : worker[w].hash = h
      THEN LET w == CHOOSE w \in Active : worker[w].hash = h
           IN  [phase |-> Phase(worker[w].pc), attempt |-> worker[w].attempt]
      ELSE [phase |-> "none", attempt |-> 0]

Pool == INSTANCE DownloadPool WITH session <- [h \in Hashes |-> SessionOf(h)]

\* The orchestrator implements the abstract pool of download sessions: whatever
\* callers, retries and crashes do, a hash has one session at a time, a session
\* MaxRetries attempts, and SyncCap attempts run at once.
ImplementsPool == Pool!Safe

\* The pool's promise that sessions go on: one that queues behind others gets its
\* turn, and each one ends.
SessionsGoOn == Pool!GoesOn

(* What the documentation and comments say, and the code does not do.      *)

\* README.md:825-827: a file of the same hash is not downloaded twice.
OwnedNeverDownloadedAgain ==
    [][\A h \in Hashes : files[h].status = "SEEDING"
          => files'[h].status # "DOWNLOADING"]_vars

\* filesync.go:183-184: a hash that has failed stays in manual mode; without a
\* user command nothing takes it out of FAILED once its session is over.
FailedStaysManual ==
    [][\A h \in Hashes : files[h].status = "FAILED" /\ h \notin inFlight
          => files'[h].status = "FAILED"]_vars

\* filesync.go:59-61: a record is marked FAILED when the session has used up its
\* attempts, not before.
FailedMeansExhausted ==
    [][\A w \in Active : LET h == worker[w].hash IN
          files[h].status # "FAILED" /\ files'[h].status = "FAILED"
          => worker[w].attempt = MaxRetries]_vars

\* filesync.go:476-479: PublishFile records the file as SEEDING and broadcasts
\* it "so remote peers can pull it"; with no manual pull, it stays that way.
PublishedIsServed ==
    \A c \in Callers : caller[c].pc = "announce"
        => files[caller[c].hash].status = "SEEDING"

=============================================================================
