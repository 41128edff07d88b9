------------------------------ MODULE PeerTable ------------------------------
(***************************************************************************)
(* What one node knows of its peers: the in-memory registry                *)
(* (internal/network/peers.go) in front of the nodes bucket                *)
(* (internal/storage), the goroutines that carry each change of the first  *)
(* to the second, the registry's pruning and the daemon's housekeeping.    *)
(*                                                                         *)
(* A LastSeen timestamp is modelled by its age in ticks, which stops       *)
(* growing where no code can tell the difference; so behaviours need no    *)
(* bound on the time.  Addresses and names of the peers are left out.      *)
(***************************************************************************)
EXTENDS Naturals, FiniteSets

CONSTANTS
    Peers,          \* other nodes
    Absent,         \* no entry
    StaleAge,       \* peerStaleAge of the registry (3 min), in ticks
    DbStaleAge,     \* age at which housekeeping prunes the bucket (10 min)
    MaxPending,     \* bound on the goroutines of Upsert not yet run
    MaxCrashes      \* bound on crashes

ASSUME PeerAssumption ==
    /\ {StaleAge, DbStaleAge, MaxPending, MaxCrashes} \subseteq Nat
    /\ StaleAge <= DbStaleAge
    /\ Absent \notin Nat

VARIABLES
    up,         \* whether the daemon runs
    registry,   \* age of LastSeen in PeerRegistry.peers
    bucket,     \* age of LastSeen in the nodes bucket (persistent)
    tasks,      \* goroutines that have a change of the bucket to make
    doomed,     \* what PruneStaleNodes has collected and not yet deleted
    gone,       \* peers that will never be heard of again
    crashes

tableVars == <<up, registry, bucket, tasks, doomed, gone, crashes>>

Oldest == DbStaleAge + 1
Ages == 0..Oldest
Older(age) == IF age = Absent \/ age = Oldest THEN age ELSE age + 1

Task == [kind : {"put"}, peer : Peers, age : Ages]
        \cup [kind : {"delete"}, peer : Peers, age : {0}]

TableTypeOK ==
    /\ up \in BOOLEAN
    /\ registry \in [Peers -> Ages \cup {Absent}]
    /\ bucket \in [Peers -> Ages \cup {Absent}]
    /\ tasks \subseteq Task
    /\ doomed \subseteq Peers
    /\ gone \subseteq Peers
    /\ crashes \in 0..MaxCrashes

Nothing == [p \in Peers |-> Absent]

TableInit ==
    /\ up = TRUE
    /\ registry = Nothing
    /\ bucket = Nothing
    /\ tasks = {}
    /\ doomed = {}
    /\ gone = {}
    /\ crashes = 0

-----------------------------------------------------------------------------
Persists_New(p) == registry[p] = Absent   \* mutant: known peers are not written
Persists(p) == TRUE

\* Upsert, for a PRESENCE packet: the registry now, the bucket later.
Upsert(p) ==
    /\ up
    /\ p \notin gone
    /\ Cardinality(tasks) < MaxPending
    /\ registry' = [registry EXCEPT ![p] = 0]
    /\ tasks' = IF Persists(p) THEN tasks \cup {[kind |-> "put", peer |-> p, age |-> 0]}
                               ELSE tasks
    /\ UNCHANGED <<up, bucket, doomed, gone, crashes>>

Written_Now(t) == IF t.kind = "put" THEN 0 ELSE Absent    \* mutant: stamped when written
Written(t) == IF t.kind = "put" THEN t.age ELSE Absent

\* UpsertNode or DeleteNode; the goroutines run in any order.
RunTask(t) ==
    /\ t \in tasks
    /\ tasks' = tasks \ {t}
    /\ bucket' = [bucket EXCEPT ![t.peer] = Written(t)]
    /\ UNCHANGED <<up, registry, doomed, gone, crashes>>

Expired(p) == registry[p] # Absent /\ registry[p] > StaleAge

\* PruneExpired, every minute.
PruneExpired ==
    LET pruned == {p \in Peers : Expired(p)} IN
    /\ up
    /\ pruned # {}
    /\ registry' = [p \in Peers |-> IF p \in pruned THEN Absent ELSE registry[p]]
    /\ tasks' = tasks \cup {[kind |-> "delete", peer |-> p, age |-> 0] : p \in pruned}
    /\ UNCHANGED <<up, bucket, doomed, gone, crashes>>

StaleInBucket_Never(p) == FALSE     \* mutant: housekeeping finds nothing
StaleInBucket(p) == bucket[p] # Absent /\ bucket[p] > DbStaleAge

\* PruneStaleNodes: a read transaction collects, a write transaction deletes.
CollectStale ==
    /\ up
    /\ doomed = {}
    /\ doomed' = {p \in Peers : StaleInBucket(p)}
    /\ doomed' # {}
    /\ UNCHANGED <<up, registry, bucket, tasks, gone, crashes>>

DeleteStale ==
    /\ doomed # {}
    /\ bucket' = [p \in Peers |-> IF p \in doomed THEN Absent ELSE bucket[p]]
    /\ doomed' = {}
    /\ UNCHANGED <<up, registry, tasks, gone, crashes>>

-----------------------------------------------------------------------------
Crash ==
    /\ up
    /\ crashes < MaxCrashes
    /\ crashes' = crashes + 1
    /\ up' = FALSE
    /\ registry' = Nothing
    /\ tasks' = {}
    /\ doomed' = {}
    /\ UNCHANGED <<bucket, gone>>

\* daemon.New: LoadFromStore warms the registry, with the stored LastSeen.
Restart ==
    /\ ~up
    /\ up' = TRUE
    /\ registry' = bucket
    /\ UNCHANGED <<bucket, tasks, doomed, gone, crashes>>

Tick ==
    /\ registry' = [p \in Peers |-> Older(registry[p])]
    /\ bucket' = [p \in Peers |-> Older(bucket[p])]
    /\ tasks' = {IF t.kind = "put" THEN [t EXCEPT !.age = Older(@)] ELSE t : t \in tasks}
    /\ UNCHANGED <<up, doomed, gone, crashes>>

Leave(p) ==
    /\ gone' = gone \cup {p}
    /\ UNCHANGED <<up, registry, bucket, tasks, doomed, crashes>>

Housekeeping == CollectStale \/ DeleteStale

TableNext == \/ \E p \in Peers : Upsert(p) \/ Leave(p)
        \/ \E t \in tasks : RunTask(t)
        \/ PruneExpired \/ Housekeeping \/ Crash \/ Restart \/ Tick

TableSpec == TableInit /\ [][TableNext]_tableVars

(* Tickers keep ticking, goroutines run; a peer that has not left keeps    *)
(* sending heartbeats, of which not all are lost for ever.                 *)
TableFairSpec ==
    /\ TableSpec
    /\ WF_tableVars(Tick) /\ WF_tableVars(PruneExpired)
    /\ WF_tableVars(Housekeeping) /\ WF_tableVars(Restart)
    /\ \A t \in Task : WF_tableVars(RunTask(t))
    /\ \A p \in Peers : SF_tableVars(Upsert(p))

-----------------------------------------------------------------------------
\* The bucket is never fresher than the registry, so a restart never makes a
\* peer look more recently seen than it was.
NeverRejuvenated ==
    \A p \in Peers : registry[p] # Absent /\ bucket[p] # Absent
        => registry[p] <= bucket[p]

\* Whatever the order in which writes and deletions reach the bucket, a peer that
\* keeps sending heartbeats is in it again and again: losses heal.
LivePeersReturn == \A p \in Peers : []<>(p \in gone \/ bucket[p] # Absent)

\* A peer that is gone is in the end forgotten by registry and bucket, for good:
\* neither a late write nor a restart brings it back to stay.
GoneAreForgotten ==
    \A p \in Peers : [](p \in gone => <>[](registry[p] = Absent /\ bucket[p] = Absent))

\* peers.go:20: every PRESENCE packet upserts the peer "both here and in the DB":
\* with nothing left to write, a peer just heard of is in the bucket.
BucketFollowsRegistry ==
    tasks = {} /\ doomed = {} => \A p \in Peers : registry[p] = 0 => bucket[p] # Absent

\* storage.go:461-462: PruneStaleNodes removes records older than maxAge.
OnlyStaleArePruned ==
    [][DeleteStale => \A p \in doomed : bucket[p] = Absent \/ bucket[p] > DbStaleAge]_tableVars

=============================================================================
