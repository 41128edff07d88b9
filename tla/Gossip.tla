------------------------------- MODULE Gossip -------------------------------
(***************************************************************************)
(* The UDP gossip engine (internal/network/udp.go) of a mesh of nodes, with *)
(* the MSG handlers at its two ends: handleSendMessage of the IPC server   *)
(* and handleMessage of the daemon.                                        *)
(*                                                                         *)
(* Each datagram is handled by a goroutine of its own: a job, which marks  *)
(* the packet seen, stores the message and floods it on in three steps.    *)
(* The network may lose, repeat and reorder datagrams.  The peer registry  *)
(* and the reach of the LAN broadcast are constant here.  Jobs and         *)
(* datagrams are sets: two that are equal in all fields are one.           *)
(***************************************************************************)
EXTENDS Naturals, FiniteSets

CONSTANTS
    Nodes,       \* daemons
    Ids,         \* packet identifiers, the MessageID of a MSG
    OriginOf,    \* [Ids -> Nodes]: pkt.SenderID
    Peers,       \* [Nodes -> SUBSET Nodes]: the peer registries
    Lan,         \* [Nodes -> SUBSET Nodes]: who hears a node's LAN broadcast
    InitTTL,     \* defaultGossipTTL
    Expiry,      \* whether seen entries expire while a packet still travels
    MaxLosses,   \* bound on lost datagrams
    MaxDups,     \* bound on repeated deliveries
    MaxCrashes,  \* bound on crashes
    MaxDbFails   \* bound on messages a database refuses

ASSUME GossipAssumption ==
    /\ OriginOf \in [Ids -> Nodes]
    /\ Peers \in [Nodes -> SUBSET Nodes]
    /\ Lan \in [Nodes -> SUBSET Nodes]
    /\ InitTTL \in Nat \ {0}
    /\ Expiry \in BOOLEAN
    /\ {MaxLosses, MaxDups, MaxCrashes, MaxDbFails} \subseteq Nat

VARIABLES
    stored,    \* the messages bucket of each node (persistent)
    seen,      \* seenPkts of each node, as the identifiers not yet expired
    net,       \* datagrams on their way
    jobs,      \* goroutines at work
    shown,     \* how often each node has logged a message as new
    sent,      \* messages entered by a user
    losses, dups, crashes, dbFails

faults == <<losses, dups, crashes, dbFails>>
vars == <<stored, seen, net, jobs, shown, sent, faults>>

Datagram == [id : Ids, ttl : 1..InitTTL, to : Nodes]
Job == [node : Nodes, id : Ids, ttl : 1..InitTTL, pc : {"send", "store", "flood"}]

TypeOK ==
    /\ stored \in [Nodes -> SUBSET Ids]
    /\ seen \in [Nodes -> SUBSET Ids]
    /\ net \subseteq Datagram
    /\ jobs \subseteq Job
    /\ shown \in [Nodes -> [Ids -> Nat]]
    /\ sent \subseteq Ids
    /\ losses \in 0..MaxLosses
    /\ dups \in 0..MaxDups
    /\ crashes \in 0..MaxCrashes
    /\ dbFails \in 0..MaxDbFails

Init ==
    /\ stored = [n \in Nodes |-> {}]
    /\ seen = [n \in Nodes |-> {}]
    /\ net = {}
    /\ jobs = {}
    /\ shown = [n \in Nodes |-> [id \in Ids |-> 0]]
    /\ sent = {}
    /\ losses = 0
    /\ dups = 0
    /\ crashes = 0
    /\ dbFails = 0

To(ms, id, ttl) == {[id |-> id, ttl |-> ttl, to |-> m] : m \in ms}
Goes(j, pc) == jobs' = (jobs \ {j}) \cup {[j EXCEPT !.pc = pc]}

-----------------------------------------------------------------------------
FirstStep_Send(id) == [n \in Nodes |-> stored[n]]   \* mutant: nothing is persisted first
FirstStep(id) == [stored EXCEPT ![OriginOf[id]] = @ \cup {id}]

\* handleSendMessage: the message is persisted locally first ...
SubmitMessage(id) ==
    /\ id \notin sent
    /\ sent' = sent \cup {id}
    /\ stored' = FirstStep(id)
    /\ jobs' = jobs \cup {[node |-> OriginOf[id], id |-> id, ttl |-> InitTTL, pc |-> "send"]}
    /\ UNCHANGED <<seen, net, shown, faults>>

\* ... and then sent: marked seen, broadcast to the LAN and to every peer.
Send(j) ==
    /\ j.pc = "send"
    /\ seen' = [seen EXCEPT ![j.node] = @ \cup {j.id}]
    /\ net' = net \cup To((Lan[j.node] \cup Peers[j.node]) \ {j.node}, j.id, j.ttl)
    /\ jobs' = jobs \ {j}
    /\ UNCHANGED <<stored, shown, sent, faults>>

\* Not sent by this very node, and not within the seen window.
Novel(n, id) == OriginOf[id] # n /\ id \notin seen[n]

\* receiveLoop and the head of handleDatagram: markSeen is one critical section.
Receive(d) ==
    /\ \/ net' = net \ {d} /\ UNCHANGED dups
       \/ dups < MaxDups /\ dups' = dups + 1 /\ UNCHANGED net
    /\ IF Novel(d.to, d.id)
         THEN /\ seen' = [seen EXCEPT ![d.to] = @ \cup {d.id}]
              /\ jobs' = jobs \cup {[node |-> d.to, id |-> d.id, ttl |-> d.ttl,
                                     pc |-> "store"]}
         ELSE UNCHANGED <<seen, jobs>>
    /\ UNCHANGED <<stored, shown, sent, losses, crashes, dbFails>>

InsertsAs_Always(n, id) == 1    \* mutant: a duplicate is not told apart
\* InsertMessage: 1 for a new message, 0 for ErrDuplicateMessage.
InsertsAs(n, id) == IF id \in stored[n] THEN 0 ELSE 1

\* handleMessage: a new message is logged, a stored one ignored, and one that the
\* database refuses is lost to this node; the packet is flooded all the same.
StoreMessage(j) ==
    /\ j.pc = "store"
    /\ \/ /\ stored' = [stored EXCEPT ![j.node] = @ \cup {j.id}]
          /\ shown' = [shown EXCEPT ![j.node][j.id] = @ + InsertsAs(j.node, j.id)]
          /\ UNCHANGED dbFails
       \/ /\ dbFails < MaxDbFails
          /\ dbFails' = dbFails + 1
          /\ UNCHANGED <<stored, shown>>
    /\ Goes(j, "flood")
    /\ UNCHANGED <<seen, net, sent, losses, dups, crashes>>

MayForward_Zero(ttl) == ttl >= 1    \* mutant: a last hop is forwarded too
MayForward_Early(ttl) == ttl > 2   \* mutant: the last hop is not taken
MayForward(ttl) == ttl > 1

Forwarded_SameTTL(ttl) == ttl   \* mutant: the hop is not counted
Forwarded(ttl) == ttl - 1

\* floodToPeers: to every peer but the original sender, the previous hop included.
Flood(j) ==
    /\ j.pc = "flood"
    /\ net' = IF MayForward(j.ttl)
                THEN net \cup To(Peers[j.node] \ {OriginOf[j.id]}, j.id, Forwarded(j.ttl))
                ELSE net
    /\ jobs' = jobs \ {j}
    /\ UNCHANGED <<stored, seen, shown, sent, faults>>

-----------------------------------------------------------------------------
\* The seen window passes (markSeen's refresh and sweepSeen both see to it).
Expire(n, id) ==
    /\ Expiry
    /\ id \in seen[n]
    /\ seen' = [seen EXCEPT ![n] = @ \ {id}]
    /\ UNCHANGED <<stored, net, jobs, shown, sent, faults>>

Lose(d) ==
    /\ losses < MaxLosses
    /\ losses' = losses + 1
    /\ net' = net \ {d}
    /\ UNCHANGED <<stored, seen, jobs, shown, sent, dups, crashes, dbFails>>

\* A daemon stops and starts again: the bucket survives, the seen map does not.
Crash(n) ==
    /\ crashes < MaxCrashes
    /\ crashes' = crashes + 1
    /\ seen' = [seen EXCEPT ![n] = {}]
    /\ jobs' = {j \in jobs : j.node # n}
    /\ UNCHANGED <<stored, net, shown, sent, losses, dups, dbFails>>

JobStep == \E j \in jobs : Send(j) \/ StoreMessage(j) \/ Flood(j)

Next == \/ \E id \in Ids : SubmitMessage(id)
        \/ JobStep
        \/ \E d \in net : Receive(d) \/ Lose(d)
        \/ \E n \in Nodes : Crash(n) \/ \E id \in Ids : Expire(n, id)

Spec == Init /\ [][Next]_vars

(* Goroutines run on; a datagram that is not lost arrives.                 *)
FairSpec == /\ Spec
            /\ \A j \in Job : WF_vars(j \in jobs /\ (Send(j) \/ StoreMessage(j) \/ Flood(j)))
            /\ \A d \in Datagram : WF_vars(d \in net /\ Receive(d))

-----------------------------------------------------------------------------
\* A message is logged as new at most once per node and never by its sender,
\* though seen entries expire, daemons restart and datagrams repeat.
ShownOnce == \A n \in Nodes, id \in Ids :
                shown[n][id] <= IF n = OriginOf[id] THEN 0 ELSE 1

\* README.md:622: floods end, in rings too, even where seen entries expire or
\* are lost in a restart while the packet is still travelling: the TTL sees to it.
FloodsEnd == <>[](net = {})

B == INSTANCE Broadcast WITH has <- stored

Undisturbed == losses = 0 /\ crashes = 0 /\ dbFails = 0

\* The engine implements the abstract broadcast: whatever the network and the
\* daemons do, a message is in its sender's history before it is in any other,
\* and no history ever loses one.  A node that could not store it passes it on too.
ImplementsBroadcast == B!Safe

\* README.md:602-605: unless a datagram is lost, a daemon stops or a database
\* refuses the message, and given a TTL that covers the longest way through the
\* mesh, a message reaches every node, though datagrams repeat and overtake each
\* other and seen entries expire.
ReachesEveryNode == []Undisturbed => B!Spreads

=============================================================================
