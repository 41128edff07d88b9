---------------------------- MODULE GossipProofs ----------------------------
(* Proofs about Gossip for every mesh, set of messages and TTL, and however *)
(* often datagrams are lost or repeated and daemons restarted.              *)
EXTENDS Gossip, TLAPS

USE GossipAssumption

-----------------------------------------------------------------------------
(* Types.                                                                  *)

\* The datagrams sent for a message are datagrams.
LEMMA ToTyped ==
    ASSUME NEW ms \in SUBSET Nodes, NEW id \in Ids, NEW ttl \in 1..InitTTL
    PROVE  To(ms, id, ttl) \subseteq Datagram
BY DEF To, Datagram

\* The initial state has the right types.
LEMMA TypeInit == Init => TypeOK
BY DEF Init, TypeOK

\* Every step keeps the types; a forwarded datagram has a TTL left.
LEMMA TypeStep == TypeOK /\ [Next]_vars => TypeOK'
<1> SUFFICES ASSUME TypeOK, [Next]_vars PROVE TypeOK'
  OBVIOUS
<1> USE DEF TypeOK, faults
<1>1. ASSUME NEW id \in Ids, SubmitMessage(id) PROVE TypeOK'
  <2>1. [node |-> OriginOf[id], id |-> id, ttl |-> InitTTL, pc |-> "send"] \in Job
    BY DEF Job
  <2> QED
    BY <1>1, <2>1 DEF SubmitMessage, FirstStep
<1>2. ASSUME NEW j \in jobs, Send(j) PROVE TypeOK'
  <2>1. To((Lan[j.node] \cup Peers[j.node]) \ {j.node}, j.id, j.ttl) \subseteq Datagram
    BY ToTyped DEF Job
  <2> QED
    BY <1>2, <2>1 DEF Send, Job
<1>3. ASSUME NEW j \in jobs, StoreMessage(j) PROVE TypeOK'
  <2>1. j.node \in Nodes /\ j.id \in Ids /\ [j EXCEPT !.pc = "flood"] \in Job
    BY DEF Job
  <2>2. jobs' \subseteq Job
    BY <1>3, <2>1 DEF StoreMessage, Goes
  <2>3. shown[j.node][j.id] + InsertsAs(j.node, j.id) \in Nat
    BY <2>1 DEF InsertsAs
  <2>4. CASE /\ stored' = [stored EXCEPT ![j.node] = @ \cup {j.id}]
             /\ shown' = [shown EXCEPT ![j.node][j.id] = @ + InsertsAs(j.node, j.id)]
             /\ UNCHANGED dbFails
    <3>1. stored' \in [Nodes -> SUBSET Ids]
      BY <2>1, <2>4
    <3>2. shown' \in [Nodes -> [Ids -> Nat]]
      BY <2>1, <2>3, <2>4
    <3> QED
      BY <1>3, <2>2, <2>4, <3>1, <3>2 DEF StoreMessage
  <2>5. CASE /\ dbFails < MaxDbFails
             /\ dbFails' = dbFails + 1
             /\ UNCHANGED <<stored, shown>>
    <3>1. dbFails' \in 0..MaxDbFails
      BY <2>5
    <3> QED
      BY <1>3, <2>2, <2>5, <3>1 DEF StoreMessage
  <2> QED
    BY <1>3, <2>4, <2>5 DEF StoreMessage
<1>4. ASSUME NEW j \in jobs, Flood(j) PROVE TypeOK'
  <2>1. j.node \in Nodes /\ j.id \in Ids /\ j.ttl \in 1..InitTTL
    BY DEF Job
  <2>2. MayForward(j.ttl) => Forwarded(j.ttl) \in 1..InitTTL
    BY <2>1 DEF MayForward, Forwarded
  <2>3. net' \subseteq Datagram
    BY <1>4, <2>1, <2>2, ToTyped DEF Flood
  <2> QED
    BY <1>4, <2>3 DEF Flood
<1>5. ASSUME NEW d \in net, Receive(d) PROVE TypeOK'
  <2>1. [node |-> d.to, id |-> d.id, ttl |-> d.ttl, pc |-> "store"] \in Job /\ d.to \in Nodes /\ d.id \in Ids
    BY DEF Job, Datagram
  <2>2. jobs' \subseteq Job /\ net' \subseteq Datagram /\ dups' \in 0..MaxDups
    BY <1>5, <2>1 DEF Receive
  <2>3. seen' \in [Nodes -> SUBSET Ids]
    <3>1. seen[d.to] \cup {d.id} \in SUBSET Ids
      BY <2>1
    <3>2. seen' = seen \/ seen' = [seen EXCEPT ![d.to] = seen[d.to] \cup {d.id}]
      BY <1>5 DEF Receive
    <3> QED
      BY <3>1, <3>2
  <2> QED
    BY <1>5, <2>2, <2>3 DEF Receive
<1>6. ASSUME NEW d \in net, Lose(d) PROVE TypeOK'
  BY <1>6 DEF Lose
<1>7. ASSUME NEW n \in Nodes, Crash(n) PROVE TypeOK'
  BY <1>7 DEF Crash
<1>8. ASSUME NEW n \in Nodes, NEW id \in Ids, Expire(n, id) PROVE TypeOK'
  BY <1>8 DEF Expire
<1>9. CASE UNCHANGED vars
  BY <1>9 DEF vars
<1> QED
  BY <1>1, <1>2, <1>3, <1>4, <1>5, <1>6, <1>7, <1>8, <1>9 DEF Next, JobStep

-----------------------------------------------------------------------------
(* Where messages are.  A job or a datagram is about a message that its     *)
(* sender has stored; only the sender sends it, only others store and flood *)
(* it; and a node has shown exactly what it has stored and not sent.        *)

FromStored == /\ \A j \in jobs : j.id \in stored[OriginOf[j.id]]
              /\ \A d \in net : d.id \in stored[OriginOf[d.id]]

Roles == \A j \in jobs : j.pc # "send" => j.node # OriginOf[j.id]

ShownIsStored ==
    \A n \in Nodes, id \in Ids :
        shown[n][id] = IF id \in stored[n] /\ n # OriginOf[id] THEN 1 ELSE 0

IInv == TypeOK /\ FromStored /\ Roles /\ ShownIsStored

\* A step that stores nothing and shows nothing keeps ShownIsStored.
LEMMA NothingShown ==
    ASSUME ShownIsStored, UNCHANGED <<stored, shown>>
    PROVE  ShownIsStored'
BY DEF ShownIsStored

\* The datagrams of a message carry its identifier.
LEMMA ToCarries ==
    ASSUME NEW ms, NEW id, NEW ttl, NEW d \in To(ms, id, ttl)
    PROVE  d.id = id
BY DEF To

\* Every step keeps IInv.
LEMMA IInvStep == IInv /\ [Next]_vars => IInv'
<1> SUFFICES ASSUME IInv, [Next]_vars PROVE FromStored' /\ Roles' /\ ShownIsStored'
  BY TypeStep DEF IInv
<1> USE DEF IInv, FromStored, Roles
<1>1. ASSUME NEW id \in Ids, SubmitMessage(id)
      PROVE  FromStored' /\ Roles' /\ ShownIsStored'
  <2> DEFINE n == OriginOf[id]
  <2>1. /\ stored' = [stored EXCEPT ![n] = @ \cup {id}]
        /\ jobs' = jobs \cup {[node |-> n, id |-> id, ttl |-> InitTTL, pc |-> "send"]}
        /\ net' = net /\ shown' = shown
    BY <1>1 DEF SubmitMessage, FirstStep
  <2>2. \A m \in Nodes : stored[m] \subseteq stored'[m]
    BY <2>1 DEF TypeOK
  <2>3. id \in stored'[n] /\ n \in Nodes
    BY <2>1 DEF TypeOK
  <2>4. FromStored' /\ Roles'
    BY <2>1, <2>2, <2>3 DEF TypeOK, Job, Datagram
  <2>5. ShownIsStored'
    BY <2>1 DEF ShownIsStored, TypeOK
  <2> QED
    BY <2>4, <2>5
<1>2. ASSUME NEW j \in jobs, Send(j) PROVE FromStored' /\ Roles' /\ ShownIsStored'
  BY <1>2, NothingShown, ToCarries DEF Send
<1>3. ASSUME NEW j \in jobs, StoreMessage(j) PROVE FromStored' /\ Roles' /\ ShownIsStored'
  <2>1. j.node \in Nodes /\ j.id \in Ids /\ j.node # OriginOf[j.id]
    BY <1>3 DEF TypeOK, Job, StoreMessage
  <2>0. \/ stored' = [stored EXCEPT ![j.node] = @ \cup {j.id}]
        \/ UNCHANGED <<stored, shown>>
    BY <1>3 DEF StoreMessage
  <2>2. \A m \in Nodes : stored[m] \subseteq stored'[m]
    BY <2>0 DEF TypeOK
  <2>3. \A i \in jobs' : i \in jobs \/ (i.id = j.id /\ i.node = j.node)
    <3>1. [j EXCEPT !.pc = "flood"].id = j.id /\ [j EXCEPT !.pc = "flood"].node = j.node
      BY DEF TypeOK, Job
    <3>2. PICK k : k.id = j.id /\ k.node = j.node /\ jobs' = (jobs \ {j}) \cup {k}
      BY <1>3, <3>1 DEF StoreMessage, Goes
    <3> QED
      BY <3>2
  <2>4. FromStored' /\ Roles'
    <3>1. net' = net
      BY <1>3 DEF StoreMessage
    <3>2. \A i \in jobs : OriginOf[i.id] \in Nodes
      BY DEF TypeOK, Job
    <3>3. \A d \in net : OriginOf[d.id] \in Nodes
      BY DEF TypeOK, Datagram
    <3>4. \A d \in net' : d.id \in stored'[OriginOf[d.id]]
      BY <2>2, <3>1, <3>3
    <3>5. \A i \in jobs' : i.id \in stored'[OriginOf[i.id]]
      BY <2>2, <2>3, <3>2
    <3>6. Roles'
      BY <2>1, <2>3
    <3> QED
      BY <3>4, <3>5, <3>6
  <2>5. ShownIsStored'
    <3>1. CASE UNCHANGED <<stored, shown>>
      BY <3>1, NothingShown
    <3>2. CASE /\ stored' = [stored EXCEPT ![j.node] = @ \cup {j.id}]
               /\ shown' = [shown EXCEPT ![j.node][j.id] = @ + InsertsAs(j.node, j.id)]
      BY <2>1, <3>2 DEF ShownIsStored, InsertsAs, TypeOK
    <3> QED
      BY <1>3, <3>1, <3>2 DEF StoreMessage
  <2> QED
    BY <2>4, <2>5
<1>4. ASSUME NEW j \in jobs, Flood(j) PROVE FromStored' /\ Roles' /\ ShownIsStored'
  BY <1>4, NothingShown, ToCarries DEF Flood
<1>5. ASSUME NEW d \in net, Receive(d) PROVE FromStored' /\ Roles' /\ ShownIsStored'
  BY <1>5, NothingShown DEF Receive, Novel
<1>6. ASSUME NEW d \in net, Lose(d) PROVE FromStored' /\ Roles' /\ ShownIsStored'
  BY <1>6, NothingShown DEF Lose
<1>7. ASSUME NEW n \in Nodes, Crash(n) PROVE FromStored' /\ Roles' /\ ShownIsStored'
  BY <1>7, NothingShown DEF Crash
<1>8. ASSUME NEW n \in Nodes, NEW id \in Ids, Expire(n, id)
      PROVE  FromStored' /\ Roles' /\ ShownIsStored'
  BY <1>8, NothingShown DEF Expire
<1>9. CASE UNCHANGED vars
  BY <1>9, NothingShown DEF vars
<1> QED
  BY <1>1, <1>2, <1>3, <1>4, <1>5, <1>6, <1>7, <1>8, <1>9 DEF Next, JobStep

\* IInv holds in every reachable state.
THEOREM Invariance == Spec => []IInv
<1>1. Init => IInv
  BY TypeInit DEF Init, IInv, FromStored, Roles, ShownIsStored
<1>2. IInv /\ [Next]_vars => IInv'
  BY IInvStep
<1> QED
  BY <1>1, <1>2, PTL DEF Spec

\* The variables keep their types; no datagram travels with its TTL used up.
THEOREM TypeCorrect == Spec => []TypeOK
<1>1. IInv => TypeOK
  BY DEF IInv
<1> QED
  BY <1>1, Invariance, PTL

\* However seen entries expire, datagrams repeat and daemons restart, no node
\* logs a message as new twice, and its sender never does: the bucket tells a
\* duplicate apart where the seen map cannot.
THEOREM ShownAtMostOnce == Spec => []ShownOnce
<1>1. IInv => ShownOnce
  BY DEF IInv, ShownIsStored, ShownOnce
<1> QED
  BY <1>1, Invariance, PTL

-----------------------------------------------------------------------------
(* The refinement of Broadcast.                                            *)

\* A history to which one identifier is added has gained it, or had it.
LEMMA Gains ==
    ASSUME TypeOK, NEW n \in Nodes, NEW id \in Ids,
           stored' = [stored EXCEPT ![n] = @ \cup {id}]
    PROVE  B!Gain(n, id) \/ stored' = stored
<1>1. CASE id \in stored[n]
  BY <1>1 DEF TypeOK
<1>2. CASE id \notin stored[n]
  BY <1>2 DEF B!Gain
<1> QED
  BY <1>1, <1>2

\* Every step of the engine is a step of the broadcast or leaves the histories
\* alone: a submission publishes, a job that stores delivers.
LEMMA BroadcastStep == IInv /\ [Next]_vars => [B!Next]_stored
<1> SUFFICES ASSUME IInv, [Next]_vars PROVE B!Next \/ stored' = stored
  OBVIOUS
<1> USE DEF IInv
<1>1. ASSUME NEW id \in Ids, SubmitMessage(id) PROVE B!Next \/ stored' = stored
  <2>1. OriginOf[id] \in Nodes /\ stored' = [stored EXCEPT ![OriginOf[id]] = @ \cup {id}]
    BY <1>1 DEF SubmitMessage, FirstStep
  <2>2. B!Gain(OriginOf[id], id) \/ stored' = stored
    BY <2>1, Gains
  <2> QED
    BY <2>2 DEF B!Next, B!Publish
<1>2. ASSUME NEW j \in jobs, StoreMessage(j) PROVE B!Next \/ stored' = stored
  <2>1. /\ j.node \in Nodes /\ j.id \in Ids
        /\ \/ stored' = [stored EXCEPT ![j.node] = @ \cup {j.id}]
           \/ stored' = stored
    BY <1>2 DEF StoreMessage, TypeOK, Job
  <2>2. B!Gain(j.node, j.id) \/ stored' = stored
    BY <2>1, Gains
  <2>3. j.id \in stored[OriginOf[j.id]]
    BY DEF FromStored
  <2> QED
    BY <2>1, <2>2, <2>3 DEF B!Next, B!Deliver
<1>3. CASE UNCHANGED vars
  BY <1>3 DEF vars
<1>4. CASE Next /\ ~(\E id \in Ids : SubmitMessage(id)) /\ ~(\E j \in jobs : StoreMessage(j))
  BY <1>4 DEF Next, JobStep, Send, Flood, Receive, Lose, Crash, Expire
<1> QED
  BY <1>1, <1>2, <1>3, <1>4

\* The gossip engine implements the safe part of the broadcast: a message is in
\* its sender's history before it is in any other, and histories only grow.
THEOREM BroadcastImplemented == Spec => ImplementsBroadcast
<1>1. Init => B!Init
  BY DEF Init, B!Init
<1>2. IInv /\ [Next]_vars => [B!Next]_stored
  BY BroadcastStep
<1> QED
  BY <1>1, <1>2, Invariance, PTL DEF Spec, ImplementsBroadcast, B!Safe

-----------------------------------------------------------------------------
(* How far a message gets: the TTL counts the hops from its sender.          *)

\* Who hears the k-th hop of a message from node n.
Hears(k, n) == IF k = 1 THEN Lan[n] \cup Peers[n] ELSE Peers[n]

\* The routes of k hops that a message can take from its sender to node n.
Routes(id, n, k) ==
    {route \in [0..k -> Nodes] : /\ route[0] = OriginOf[id] /\ route[k] = n
                               /\ \A i \in 1..k : route[i] \in Hears(i, route[i - 1])}

Hops(ttl) == InitTTL - ttl + 1

\* A datagram has taken as many hops as its TTL has lost, its first included;
\* the job that handles it stands where it arrived.
HopsCounted ==
    /\ \A d \in net : Routes(d.id, d.to, Hops(d.ttl)) # {}
    /\ \A j \in jobs : IF j.pc = "send" THEN j.node = OriginOf[j.id] /\ j.ttl = InitTTL
                                        ELSE Routes(j.id, j.node, Hops(j.ttl)) # {}

\* Whoever has a message is at most InitTTL hops from its sender.
TtlBoundsReach ==
    \A n \in Nodes : \A id \in stored[n] : \E k \in 0..InitTTL : Routes(id, n, k) # {}

ReachInv == TypeOK /\ HopsCounted /\ TtlBoundsReach

\* No hop is needed to reach the sender.
LEMMA NoHop ==
    ASSUME NEW id \in Ids
    PROVE  Routes(id, OriginOf[id], 0) # {}
<1>1. PICK route : route = [i \in 0..0 |-> OriginOf[id]]
  OBVIOUS
<1>2. route \in [0..0 -> Nodes] /\ route[0] = OriginOf[id]
  BY <1>1
<1> QED
  BY <1>2 DEF Routes

\* One hop more.
LEMMA OneHopMore ==
    ASSUME NEW id \in Ids, NEW n \in Nodes, NEW m \in Nodes, NEW k \in Nat,
           Routes(id, n, k) # {}, m \in Hears(k + 1, n)
    PROVE  Routes(id, m, k + 1) # {}
<1>1. PICK route \in [0..k -> Nodes] :
         /\ route[0] = OriginOf[id] /\ route[k] = n
         /\ \A i \in 1..k : route[i] \in Hears(i, route[i - 1])
  BY DEF Routes
<1>2. PICK on : on = [i \in 0..(k + 1) |-> IF i = k + 1 THEN m ELSE route[i]]
  OBVIOUS
<1>3. \A i \in 0..(k + 1) : i # k + 1 => i \in 0..k
  OBVIOUS
<1>4. on \in [0..(k + 1) -> Nodes]
  BY <1>2, <1>3
<1>5. on[k + 1] = m /\ \A i \in 0..k : on[i] = route[i]
  <2>1. \A i \in 0..k : i \in 0..(k + 1) /\ i # k + 1
    OBVIOUS
  <2>2. k + 1 \in 0..(k + 1)
    OBVIOUS
  <2> QED
    BY <1>2, <2>1, <2>2
<1>6. on[0] = OriginOf[id]
  <2>1. 0 \in 0..k
    OBVIOUS
  <2> QED
    BY <1>1, <1>5, <2>1
<1>7. ASSUME NEW i \in 1..(k + 1) PROVE on[i] \in Hears(i, on[i - 1])
  <2>1. i - 1 \in 0..k
    OBVIOUS
  <2>2. CASE i = k + 1
    <3>1. i - 1 = k
      BY <2>2
    <3>2. on[i - 1] = n
      BY <1>1, <1>5, <2>1, <3>1
    <3> QED
      BY <1>5, <2>2, <3>2
  <2>3. CASE i # k + 1
    <3>1. i \in 1..k /\ i \in 0..k
      BY <2>3
    <3>2. on[i] = route[i] /\ on[i - 1] = route[i - 1]
      BY <1>5, <2>1, <3>1
    <3> QED
      BY <1>1, <3>1, <3>2
  <2> QED
    BY <2>2, <2>3
<1>8. on \in Routes(id, m, k + 1)
  BY <1>4, <1>5, <1>6, <1>7 DEF Routes
<1> QED
  BY <1>8

\* Who a datagram goes to.
LEMMA ToWhom ==
    ASSUME NEW ms, NEW id, NEW ttl, NEW d \in To(ms, id, ttl)
    PROVE  d.to \in ms /\ d.id = id /\ d.ttl = ttl
BY DEF To

\* A step that stores nothing keeps TtlBoundsReach.
LEMMA NothingStored ==
    ASSUME TtlBoundsReach, UNCHANGED stored
    PROVE  TtlBoundsReach'
BY DEF TtlBoundsReach

\* A step that adds no datagram and no job keeps HopsCounted.
LEMMA NothingAdded ==
    ASSUME HopsCounted, net' \subseteq net, jobs' \subseteq jobs
    PROVE  HopsCounted'
BY DEF HopsCounted

\* Storing a message where it can be keeps TtlBoundsReach.
LEMMA StoredInReach ==
    ASSUME TypeOK, TtlBoundsReach, NEW n \in Nodes, NEW id \in Ids, NEW k \in 0..InitTTL,
           Routes(id, n, k) # {}, stored' = [stored EXCEPT ![n] = @ \cup {id}]
    PROVE  TtlBoundsReach'
<1>1. \A m \in Nodes : stored'[m] = IF m = n THEN stored[m] \cup {id} ELSE stored[m]
  BY DEF TypeOK
<1> QED
  BY <1>1 DEF TtlBoundsReach

\* Every step keeps ReachInv: Send and Flood take a hop and count it.
LEMMA ReachStep == ReachInv /\ [Next]_vars => ReachInv'
<1> SUFFICES ASSUME ReachInv, [Next]_vars PROVE HopsCounted' /\ TtlBoundsReach'
  BY TypeStep DEF ReachInv
<1> USE DEF ReachInv
<1>1. ASSUME NEW id \in Ids, SubmitMessage(id) PROVE HopsCounted' /\ TtlBoundsReach'
  <2>1. /\ stored' = [stored EXCEPT ![OriginOf[id]] = @ \cup {id}]
        /\ jobs' = jobs \cup {[node |-> OriginOf[id], id |-> id, ttl |-> InitTTL, pc |-> "send"]}
        /\ net' = net
    BY <1>1 DEF SubmitMessage, FirstStep
  <2>2. HopsCounted'
    BY <2>1 DEF HopsCounted
  <2>3. TtlBoundsReach'
    <3>1. OriginOf[id] \in Nodes /\ 0 \in 0..InitTTL
      OBVIOUS
    <3> QED
      BY <2>1, <3>1, NoHop, StoredInReach
  <2> QED
    BY <2>2, <2>3
<1>2. ASSUME NEW j \in jobs, Send(j) PROVE HopsCounted' /\ TtlBoundsReach'
  <2>1. /\ j.node \in Nodes /\ j.id \in Ids /\ j.node = OriginOf[j.id] /\ j.ttl = InitTTL
        /\ jobs' \subseteq jobs /\ UNCHANGED stored
    BY <1>2 DEF Send, HopsCounted, TypeOK, Job
  <2>2. ASSUME NEW d \in net', d \notin net PROVE Routes(d.id, d.to, Hops(d.ttl)) # {}
    <3>1. d \in To((Lan[j.node] \cup Peers[j.node]) \ {j.node}, j.id, j.ttl)
      BY <1>2, <2>2 DEF Send
    <3>2. d.to \in Lan[j.node] \cup Peers[j.node] /\ d.id = j.id /\ d.ttl = InitTTL
      BY <2>1, <3>1, ToWhom
    <3>3. d.to \in Nodes /\ d.to \in Hears(0 + 1, j.node)
      BY <2>1, <3>2 DEF Hears
    <3>4. Routes(d.id, d.to, 0 + 1) # {}
      BY <2>1, <3>2, <3>3, NoHop, OneHopMore
    <3>5. Hops(d.ttl) = 0 + 1
      BY <3>2 DEF Hops
    <3> QED
      BY <3>4, <3>5
  <2>3. HopsCounted'
    BY <2>1, <2>2 DEF HopsCounted
  <2> QED
    BY <2>1, <2>3, NothingStored
<1>3. ASSUME NEW j \in jobs, StoreMessage(j) PROVE HopsCounted' /\ TtlBoundsReach'
  <2>1. /\ j.node \in Nodes /\ j.id \in Ids /\ j.ttl \in 1..InitTTL
        /\ Routes(j.id, j.node, Hops(j.ttl)) # {}
    BY <1>3 DEF StoreMessage, HopsCounted, TypeOK, Job
  <2>2. PICK k : /\ k = [j EXCEPT !.pc = "flood"]
                 /\ k.id = j.id /\ k.node = j.node /\ k.ttl = j.ttl /\ k.pc = "flood"
    <3>1. j \in Job
      BY DEF TypeOK
    <3>2. /\ [j EXCEPT !.pc = "flood"].id = j.id /\ [j EXCEPT !.pc = "flood"].node = j.node
          /\ [j EXCEPT !.pc = "flood"].ttl = j.ttl /\ [j EXCEPT !.pc = "flood"].pc = "flood"
      BY <3>1 DEF Job
    <3> QED
      BY <3>2
  <2>3. jobs' = (jobs \ {j}) \cup {k} /\ net' = net
    BY <1>3, <2>2 DEF StoreMessage, Goes
  <2>4. HopsCounted'
    BY <2>1, <2>2, <2>3 DEF HopsCounted
  <2>5. Hops(j.ttl) \in 0..InitTTL
    BY <2>1 DEF Hops
  <2>6. \/ stored' = [stored EXCEPT ![j.node] = @ \cup {j.id}]
        \/ stored' = stored
    BY <1>3 DEF StoreMessage
  <2>7. TtlBoundsReach'
    BY <2>1, <2>5, <2>6, StoredInReach, NothingStored
  <2> QED
    BY <2>4, <2>7
<1>4. ASSUME NEW j \in jobs, Flood(j) PROVE HopsCounted' /\ TtlBoundsReach'
  <2>1. /\ j.node \in Nodes /\ j.id \in Ids /\ j.ttl \in 1..InitTTL
        /\ Routes(j.id, j.node, Hops(j.ttl)) # {}
        /\ jobs' \subseteq jobs /\ UNCHANGED stored
    BY <1>4 DEF Flood, HopsCounted, TypeOK, Job
  <2>2. ASSUME NEW d \in net', d \notin net PROVE Routes(d.id, d.to, Hops(d.ttl)) # {}
    <3>1. MayForward(j.ttl) /\ d \in To(Peers[j.node] \ {OriginOf[j.id]}, j.id, Forwarded(j.ttl))
      BY <1>4, <2>2 DEF Flood
    <3>2. d.to \in Peers[j.node] /\ d.id = j.id /\ d.ttl = j.ttl - 1
      BY <3>1, ToWhom DEF Forwarded
    <3>3. Hops(j.ttl) \in Nat /\ Hops(j.ttl) # 0 /\ Hops(d.ttl) = Hops(j.ttl) + 1
      BY <2>1, <3>2 DEF Hops
    <3>4. d.to \in Nodes /\ d.to \in Hears(Hops(j.ttl) + 1, j.node)
      <4>1. d.to \in Nodes
        BY <2>1, <3>2
      <4>2. Hops(j.ttl) + 1 # 1
        BY <3>3
      <4> QED
        BY <3>2, <4>1, <4>2 DEF Hears
    <3>5. Routes(d.id, d.to, Hops(j.ttl) + 1) # {}
      BY <2>1, <3>2, <3>3, <3>4, OneHopMore
    <3> QED
      BY <3>3, <3>5
  <2>3. HopsCounted'
    BY <2>1, <2>2 DEF HopsCounted
  <2> QED
    BY <2>1, <2>3, NothingStored
<1>5. ASSUME NEW d \in net, Receive(d) PROVE HopsCounted' /\ TtlBoundsReach'
  <2>1. PICK job : job = [node |-> d.to, id |-> d.id, ttl |-> d.ttl, pc |-> "store"]
    OBVIOUS
  <2>2. net' \subseteq net /\ jobs' \subseteq jobs \cup {job} /\ UNCHANGED stored
    BY <1>5, <2>1 DEF Receive
  <2>3. job.pc # "send" /\ Routes(job.id, job.node, Hops(job.ttl)) # {}
    BY <2>1 DEF HopsCounted
  <2>4. HopsCounted'
    BY <2>2, <2>3 DEF HopsCounted
  <2> QED
    BY <2>2, <2>4, NothingStored
<1>6. ASSUME NEW d \in net, Lose(d) PROVE HopsCounted' /\ TtlBoundsReach'
  BY <1>6, NothingAdded, NothingStored DEF Lose
<1>7. ASSUME NEW n \in Nodes, Crash(n) PROVE HopsCounted' /\ TtlBoundsReach'
  BY <1>7, NothingAdded, NothingStored DEF Crash
<1>8. ASSUME NEW n \in Nodes, NEW id \in Ids, Expire(n, id) PROVE HopsCounted' /\ TtlBoundsReach'
  BY <1>8, NothingAdded, NothingStored DEF Expire
<1>9. CASE UNCHANGED vars
  BY <1>9, NothingAdded, NothingStored DEF vars
<1> QED
  BY <1>1, <1>2, <1>3, <1>4, <1>5, <1>6, <1>7, <1>8, <1>9 DEF Next, JobStep

\* udp.go:50-53, 277-280: no message gets further than InitTTL hops from its sender, the
\* first to whoever hears its broadcast or is its peer, the others from peer to
\* peer, though seen entries expire and datagrams are repeated without limit.
THEOREM ReachIsBounded == Spec => []TtlBoundsReach
<1>1. Init => ReachInv
  BY TypeInit DEF Init, ReachInv, HopsCounted, TtlBoundsReach
<1>2. ReachInv => TtlBoundsReach
  BY DEF ReachInv
<1> QED
  BY <1>1, <1>2, ReachStep, PTL DEF Spec

=============================================================================
