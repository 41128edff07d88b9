---------------------------- MODULE DownloadPool ----------------------------
(***************************************************************************)
(* What the download orchestrator promises, with the goroutines, the lock  *)
(* and the database taken away: each file hash has at most one download    *)
(* session; a session is queued for a slot, runs an attempt, and after a   *)
(* failed attempt queues again or closes; at most SyncCap attempts run at  *)
(* once; a session has at most MaxRetries attempts; and every session ends.*)
(* FileSync implements this module (see FileSync!Pool).                    *)
(***************************************************************************)
EXTENDS Naturals, FiniteSets

CONSTANTS Hashes,       \* file hashes
          SyncCap,      \* config max_concurrent_syncs
          MaxRetries    \* maxDownloadRetries

VARIABLE session        \* the download session of each hash

NoSession == [phase |-> "none", attempt |-> 0]

Sessions == {NoSession} \cup
            [phase : {"queued", "running", "closing"}, attempt : 1..MaxRetries]

Running == {h \in Hashes : session[h].phase = "running"}

PoolTypeOK == session \in [Hashes -> Sessions]

Init == session = [h \in Hashes |-> NoSession]

Set(h, phase, attempt) ==
    session' = [session EXCEPT ![h] = [phase |-> phase, attempt |-> attempt]]

\* A session opens only where there is none.
Open(h) == /\ session[h] = NoSession
           /\ Set(h, "queued", 1)

\* An attempt starts when fewer than SyncCap are running.
Attempt(h) == /\ session[h].phase = "queued"
              /\ Cardinality(Running) < SyncCap
              /\ Set(h, "running", session[h].attempt)

\* A failed attempt that is not the last one queues for the next.
Retry(h) == /\ session[h].phase = "running"
            /\ session[h].attempt < MaxRetries
            /\ Set(h, "queued", session[h].attempt + 1)

\* A successful attempt, or the last failed one, ends the attempts.
Close(h) == /\ session[h].phase = "running"
            /\ Set(h, "closing", session[h].attempt)

Leave(h) == /\ session[h].phase = "closing"
            /\ session' = [session EXCEPT ![h] = NoSession]

\* The daemon stops: no session survives.
Crash == session' = [h \in Hashes |-> NoSession]

Next == \/ \E h \in Hashes : \/ Open(h) \/ Attempt(h) \/ Retry(h)
                             \/ Close(h) \/ Leave(h)
        \/ Crash

Safe == Init /\ [][Next]_session

\* A session that queues has its turn, and one that runs or closes goes on.
GoesOn == \A h \in Hashes : /\ SF_session(Attempt(h))
                            /\ WF_session(Retry(h) \/ Close(h))
                            /\ WF_session(Leave(h))

Spec == Safe /\ GoesOn
=============================================================================
