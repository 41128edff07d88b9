------------------------- MODULE HistorySyncProofs --------------------------
(* Proofs about HistorySync for every set of nodes, askers and messages,    *)
(* every author of a message and every table of peers.                      *)
EXTENDS HistorySync, TLAPS

USE SyncAssumption

-----------------------------------------------------------------------------
(* Types.                                                                   *)

\* What Packet makes is a datagram, and its fields are what was given.
LEMMA PacketTyped ==
    ASSUME NEW id \in Ids \cup Askers, NEW sender \in Nodes, NEW from \in Nodes, NEW to \in Nodes
    PROVE  /\ Packet(id, sender, from, to) \in Datagram
           /\ Packet(id, sender, from, to).id = id
           /\ Packet(id, sender, from, to).from = from
BY DEF Packet, Datagram

\* Every copy that is flooded has the packet's id and comes from who floods it.
LEMMA CopiesTyped ==
    ASSUME NEW id \in Ids \cup Askers, NEW sender \in Nodes, NEW from \in Nodes,
           NEW tos \in SUBSET Nodes
    PROVE  /\ Copies(id, sender, from, tos) \subseteq Datagram
           /\ \A d \in Copies(id, sender, from, tos) : d.id = id /\ d.from = from
BY PacketTyped DEF Copies

\* So has what a node sends first, if anything.
LEMMA OriginatedTyped ==
    ASSUME NEW id \in Ids \cup Askers, NEW n \in Nodes
    PROVE  /\ Originated(id, n) \subseteq Datagram
           /\ \A d \in Originated(id, n) : d.id = id /\ d.from = n
<1>1. Peers[n] \in SUBSET Nodes
  OBVIOUS
<1> QED
  BY <1>1, CopiesTyped DEF Originated

\* A replay consists of what the node has.
LEMMA ReplayTyped ==
    ASSUME BaseType, NEW n \in Nodes, NEW to \in Nodes
    PROVE  /\ Replay(n, to) \subseteq Datagram
           /\ \A d \in Replay(n, to) : d.id \in stored[n] /\ d.from = n
<1>1. stored[n] \subseteq Ids
  BY DEF BaseType
<1> QED
  BY <1>1, PacketTyped DEF Replay

\* A job that goes on is a job for the same packet at the same node.
LEMMA JobGoes ==
    ASSUME NEW j \in Job, NEW pc \in {"send", "handle", "flood"}
    PROVE  /\ [j EXCEPT !.pc = pc] \in Job
           /\ [j EXCEPT !.pc = pc].pc = pc
           /\ [j EXCEPT !.pc = pc].node = j.node
           /\ [j EXCEPT !.pc = pc].packet = j.packet
BY DEF Job

\* The fields of jobs.
LEMMA JobTyped ==
    ASSUME NEW j \in Job
    PROVE  /\ j.node \in Nodes /\ j.packet \in Datagram
           /\ j.packet.id \in Ids \cup Askers
           /\ {j.packet.sender, j.packet.from, j.packet.to} \subseteq Nodes
BY DEF Job, Datagram

\* The initial state has the right types.
LEMMA BaseTypeInit == Init => BaseType
BY DEF Init, BaseType

\* Every step keeps the types.
LEMMA BaseTypeStep == BaseType /\ [Next]_vars => BaseType'
<1> SUFFICES ASSUME BaseType, [Next]_vars PROVE BaseType'
  OBVIOUS
<1> USE DEF BaseType, throttles
<1>1. ASSUME NEW id \in Ids, SubmitMessage(id) PROVE BaseType'
  <2>1. author[id] \in Nodes
    OBVIOUS
  <2>2. stored' \in [Nodes -> SUBSET Ids]
    BY <1>1, <2>1 DEF SubmitMessage, FirstStep
  <2>3. [pc |-> "send", node |-> author[id],
         packet |-> Packet(id, author[id], author[id], author[id])] \in Job
    BY <2>1, PacketTyped DEF Job
  <2>4. jobs' \subseteq Job /\ sent' \subseteq Ids
    BY <1>1, <2>3 DEF SubmitMessage
  <2> QED
    BY <1>1, <2>2, <2>4 DEF SubmitMessage
<1>2. ASSUME NEW id \in Ids, NEW n \in Nodes, Expire(n, id) PROVE BaseType'
  BY <1>2 DEF Expire
<1>3. ASSUME NEW d \in net, Receive(d) PROVE BaseType'
  <2>1. d \in Datagram /\ d.to \in Nodes /\ d.id \in Ids \cup Askers
    BY DEF Datagram
  <2>2. [pc |-> "handle", node |-> d.to, packet |-> d] \in Job
    BY <2>1 DEF Job
  <2>3. jobs' \subseteq Job
    BY <1>3, <2>2 DEF Receive
  <2>4. seen' \in [Nodes -> SUBSET (Ids \cup Askers)]
    <3>1. seen[d.to] \cup {d.id} \in SUBSET (Ids \cup Askers)
      BY <2>1
    <3>2. seen' = seen \/ seen' = [seen EXCEPT ![d.to] = seen[d.to] \cup {d.id}]
      BY <1>3 DEF Receive
    <3> QED
      BY <3>1, <3>2
  <2>5. net' \subseteq Datagram
    BY <1>3 DEF Receive
  <2> QED
    BY <1>3, <2>3, <2>4, <2>5 DEF Receive
<1>4. ASSUME NEW d \in net, Lose(d) PROVE BaseType'
  BY <1>4 DEF Lose
<1>5. ASSUME NEW j \in jobs, JobStep(j) PROVE BaseType'
  <2>0. j \in Job
    OBVIOUS
  <2>1. /\ j \in Job
        /\ j.node \in Nodes /\ j.packet.id \in Ids \cup Askers
        /\ j.packet.sender \in Nodes /\ j.packet.from \in Nodes
    BY <2>0, JobTyped
  <2>2. CASE Send(j)
    <3>1. Originated(j.packet.id, j.node) \subseteq Datagram
      BY <2>1, OriginatedTyped
    <3>2. net' \subseteq Datagram
      BY <2>2, <3>1 DEF Send
    <3>3. seen' \in [Nodes -> SUBSET (Ids \cup Askers)]
      BY <2>1, <2>2 DEF Send
    <3>4. jobs' \subseteq Job
      BY <2>2 DEF Send, Ends
    <3> QED
      BY <2>2, <3>2, <3>3, <3>4 DEF Send
  <2>3. CASE StoreMessage(j)
    <3>0. j.node \in Nodes /\ j.packet.id \in Ids
      BY <2>1, <2>3 DEF StoreMessage
    <3>1. stored' \in [Nodes -> SUBSET Ids]
      <4>1. \/ stored' = [stored EXCEPT ![j.node] = @ \cup {j.packet.id}]
            \/ stored' = stored
        BY <2>3 DEF StoreMessage
      <4>2. stored \in [Nodes -> SUBSET Ids]
        OBVIOUS
      <4> HIDE DEF BaseType, throttles
      <4> QED
        BY <3>0, <4>1, <4>2
    <3>2. shown' \in [Nodes -> [Ids -> Nat]]
      <4>1. \/ shown' = [shown EXCEPT ![j.node][j.packet.id] =
                            @ + (IF j.packet.id \in stored[j.node] THEN 0 ELSE 1)]
            \/ shown' = shown
        BY <2>3 DEF StoreMessage
      <4>2. shown \in [Nodes -> [Ids -> Nat]]
        OBVIOUS
      <4> HIDE DEF BaseType, throttles
      <4>3. PICK more \in Nat : more = IF j.packet.id \in stored[j.node] THEN 0 ELSE 1
        OBVIOUS
      <4>4. \/ shown' = [shown EXCEPT ![j.node][j.packet.id] = @ + more]
            \/ shown' = shown
        BY <4>1, <4>3
      <4>5. shown[j.node][j.packet.id] + more \in Nat
        BY <3>0, <4>2, <4>3
      <4>6. CASE shown' = [shown EXCEPT ![j.node][j.packet.id] = @ + more]
        BY <3>0, <4>2, <4>5, <4>6
      <4>7. CASE shown' = shown
        BY <4>2, <4>7
      <4> QED
        BY <4>4, <4>6, <4>7
    <3>6. faults' \in 0..MaxFaults
      <4>1. faults' = faults \/ (faults < MaxFaults /\ faults' = faults + 1)
        BY <2>3 DEF StoreMessage
      <4> QED
        BY <4>1
    <3>3. [j EXCEPT !.pc = "flood"] \in Job
      BY <2>1, JobGoes
    <3>4. Goes(j, "flood")
      BY <2>3 DEF StoreMessage
    <3>5. jobs' \subseteq Job
      BY <3>3, <3>4 DEF Goes
    <3> QED
      BY <2>3, <3>1, <3>2, <3>5, <3>6 DEF StoreMessage
  <2>4. CASE Answer(j)
    <3>0. Replay(j.node, j.packet.from) \subseteq Datagram
      BY <2>1, ReplayTyped
    <3>1. /\ net' \subseteq Datagram /\ mayAnswer' \in [Nodes -> SUBSET Askers]
          /\ seen' \in [Nodes -> SUBSET (Ids \cup Askers)]
      <4>1. CASE j.packet.id \in mayAnswer[j.node]
        <5>1. net' = net \cup Replay(j.node, j.packet.from)
          BY <2>4, <4>1 DEF Answer
        <5>2. mayAnswer' = [mayAnswer EXCEPT ![j.node] = @ \ {j.packet.id}]
          BY <2>4, <4>1 DEF Answer
        <5>3. seen' = [seen EXCEPT ![j.node] = @ \cup stored[j.node]]
          BY <2>4, <4>1 DEF Answer
        <5> QED
          BY <2>1, <3>0, <5>1, <5>2, <5>3
      <4>2. CASE j.packet.id \notin mayAnswer[j.node]
        <5>1. UNCHANGED <<mayAnswer, seen, net>>
          BY <2>4, <4>2 DEF Answer
        <5> QED
          BY <5>1
      <4> QED
        BY <4>1, <4>2
    <3>2. Goes(j, "flood")
      BY <2>4 DEF Answer
    <3>3. [j EXCEPT !.pc = "flood"] \in Job
      BY <2>1, JobGoes
    <3>4. jobs' \subseteq Job
      BY <3>2, <3>3 DEF Goes
    <3> QED
      BY <2>4, <3>1, <3>4 DEF Answer
  <2>5. CASE Flood(j)
    <3>1. Peers[j.node] \ {j.packet.sender} \in SUBSET Nodes
      BY <2>1, JobTyped
    <3>2. net' \subseteq Datagram
      BY <2>1, <2>5, <3>1, CopiesTyped DEF Flood
    <3>3. jobs' \subseteq Job
      BY <2>5 DEF Flood, Ends
    <3> QED
      BY <2>5, <3>2, <3>3 DEF Flood
  <2> QED
    BY <1>5, <2>2, <2>3, <2>4, <2>5 DEF JobStep
<1>6. ASSUME NEW n \in Askers, Ask(n)
      PROVE  mayAsk' \subseteq Askers /\ net' \subseteq Datagram
             /\ seen' \in [Nodes -> SUBSET (Ids \cup Askers)]
  <2>1. n \in Nodes /\ n \in Ids \cup Askers
    OBVIOUS
  <2>2. Originated(n, n) \subseteq Datagram
    BY <2>1, OriginatedTyped
  <2>3. seen' \in [Nodes -> SUBSET (Ids \cup Askers)]
    <3>1. seen \in [Nodes -> SUBSET (Ids \cup Askers)]
      OBVIOUS
    <3>2. CASE seen' = seen
      BY <3>1, <3>2
    <3>3. CASE seen' = [m \in Nodes |-> IF m = n THEN seen[m] \cup {n} ELSE seen[m] \ {n}]
      <4>1. \A m \in Nodes : /\ seen[m] \cup {n} \in SUBSET (Ids \cup Askers)
                             /\ seen[m] \ {n} \in SUBSET (Ids \cup Askers)
        BY <2>1, <3>1
      <4>2. \A m \in Nodes : (IF m = n THEN seen[m] \cup {n} ELSE seen[m] \ {n})
                              \in SUBSET (Ids \cup Askers)
        BY <4>1
      <4> QED
        BY <3>3, <4>2
    <3> QED
      BY <1>6, <3>2, <3>3 DEF Ask
  <2> QED
    BY <1>6, <2>2, <2>3 DEF Ask
<1>7. ASSUME NEW n \in Askers, StartupAsk(n) \/ PresenceAsk(n) PROVE BaseType'
  <2>1. mayAsk' \subseteq Askers /\ net' \subseteq Datagram
        /\ seen' \in [Nodes -> SUBSET (Ids \cup Askers)]
    BY <1>6, <1>7 DEF StartupAsk, PresenceAsk
  <2> QED
    BY <1>7, <2>1 DEF StartupAsk, PresenceAsk
<1>8. CASE Throttles
  BY <1>8 DEF Throttles, AskAgain, AnswerAgain
<1>9. ASSUME NEW n \in Nodes, Crash(n) \/ Restart(n) \/ OpenSocket(n) PROVE BaseType'
  <2>1. CASE Crash(n)
    BY <2>1 DEF Crash
  <2>2. CASE Restart(n)
    BY <2>2 DEF Restart
  <2>3. CASE OpenSocket(n)
    BY <2>3 DEF OpenSocket
  <2> QED
    BY <1>9, <2>1, <2>2, <2>3
<1>10. CASE UNCHANGED vars
  BY <1>10 DEF vars
<1> QED
  BY <1>1, <1>2, <1>3, <1>4, <1>5, <1>7, <1>8, <1>9, <1>10 DEF Next

-----------------------------------------------------------------------------
(* A message that is anywhere is in its author's history.  This is why no    *)
(* node ever takes a message of its own for news: when a copy reaches the    *)
(* author, in a flood or in a replay of someone else, the author's store     *)
(* knows it, whatever its seen window has forgotten.                         *)

\* Node n has message id in its history.
Has(n, id) == id \in stored[n]

\* The author of a message that travels has it.
Carried == \A d \in net : d.id \in Ids => Has(author[d.id], d.id)

\* So has the author of a message that is sent, handled or flooded.
JobsHave == \A j \in jobs : j.packet.id \in Ids => Has(author[j.packet.id], j.packet.id)

\* The author of a message that is anywhere has it.
AuthorHas == \A n \in Nodes, id \in Ids : Has(n, id) => Has(author[id], id)

\* A node that has shown a message has it, and is not its author.
Counted ==
    \A n \in Nodes, id \in Ids :
        /\ shown[n][id] <= 1
        /\ shown[n][id] # 0 => Has(n, id) /\ n # author[id]

IInv == BaseType /\ Carried /\ JobsHave /\ AuthorHas /\ Counted

\* The author of a message is a node.
LEMMA AuthorIsNode ==
    ASSUME BaseType, NEW id \in Ids
    PROVE  author[id] \in Nodes
BY DEF BaseType

\* A history only grows, and authorship does not change.
LEMMA StoredGrows ==
    ASSUME BaseType, [Next]_vars
    PROVE  /\ \A n \in Nodes : stored[n] \subseteq stored'[n]
           /\ author' = author
<1> USE DEF BaseType
<1>1. ASSUME NEW id \in Ids, SubmitMessage(id)
      PROVE  (\A n \in Nodes : stored[n] \subseteq stored'[n]) /\ author' = author
  BY <1>1 DEF SubmitMessage, FirstStep
<1>2. ASSUME NEW j \in jobs, StoreMessage(j)
      PROVE  (\A n \in Nodes : stored[n] \subseteq stored'[n]) /\ author' = author
  <2>1. /\ \/ stored' = [stored EXCEPT ![j.node] = @ \cup {j.packet.id}]
           \/ stored' = stored
        /\ author' = author
    BY <1>2 DEF StoreMessage
  <2> QED
    BY <2>1
<1>3. ASSUME NEW j \in jobs, Send(j) \/ Answer(j) \/ Flood(j)
      PROVE  UNCHANGED <<stored, author>>
  BY <1>3 DEF Send, Answer, Flood
<1>4. ASSUME NEW id \in Ids, NEW n \in Nodes, Expire(n, id)
      PROVE  UNCHANGED <<stored, author>>
  BY <1>4 DEF Expire
<1>5. ASSUME NEW d \in net, Receive(d) \/ Lose(d)
      PROVE  UNCHANGED <<stored, author>>
  BY <1>5 DEF Receive, Lose
<1>6. ASSUME NEW n \in Askers, StartupAsk(n) \/ PresenceAsk(n)
      PROVE  UNCHANGED <<stored, author>>
  BY <1>6 DEF StartupAsk, PresenceAsk
<1>7. ASSUME NEW n \in Nodes, Crash(n) \/ Restart(n) \/ OpenSocket(n)
      PROVE  UNCHANGED <<stored, author>>
  BY <1>7 DEF Crash, Restart, OpenSocket
<1>8. CASE Throttles
  BY <1>8 DEF Throttles, AskAgain, AnswerAgain
<1>9. CASE UNCHANGED vars
  BY <1>9 DEF vars
<1> QED
  BY <1>1, <1>2, <1>3, <1>4, <1>5, <1>6, <1>7, <1>8, <1>9 DEF Next, JobStep

\* A message that is put on the wire is one that its author has.
LEMMA NewDatagrams ==
    ASSUME IInv, [Next]_vars
    PROVE  \A d \in net' \ net : d.id \in Ids => Has(author[d.id], d.id)
<1> DEFINE Fine(d) == d.id \in Ids => Has(author[d.id], d.id)
<1> SUFFICES \A d \in net' \ net : Fine(d)
  OBVIOUS
<1>0. \A j \in jobs : /\ j.node \in Nodes /\ j.packet.id \in Ids \cup Askers
                      /\ j.packet.sender \in Nodes /\ j.packet.from \in Nodes
  BY JobTyped DEF IInv, BaseType
<1>1. ASSUME NEW j \in jobs, Send(j) PROVE \A d \in net' \ net : Fine(d)
  <2>1. \A d \in Originated(j.packet.id, j.node) : d.id = j.packet.id
    BY <1>0, OriginatedTyped
  <2>2. j.packet.id \in Ids => Has(author[j.packet.id], j.packet.id)
    BY DEF IInv, JobsHave
  <2>3. net' = net \cup Originated(j.packet.id, j.node)
    BY <1>1 DEF Send
  <2> QED
    BY <2>1, <2>2, <2>3
<1>2. ASSUME NEW j \in jobs, Flood(j) PROVE \A d \in net' \ net : Fine(d)
  <2>1. Peers[j.node] \ {j.packet.sender} \in SUBSET Nodes
    BY <1>0
  <2>2. \A d \in Copies(j.packet.id, j.packet.sender, j.node, Peers[j.node] \ {j.packet.sender}) :
           d.id = j.packet.id
    BY <1>0, <2>1, CopiesTyped
  <2>3. j.packet.id \in Ids => Has(author[j.packet.id], j.packet.id)
    BY DEF IInv, JobsHave
  <2>4. net' = net \cup Copies(j.packet.id, j.packet.sender, j.node,
                               Peers[j.node] \ {j.packet.sender})
    BY <1>2 DEF Flood
  <2> QED
    BY <2>2, <2>3, <2>4
<1>3. ASSUME NEW j \in jobs, Answer(j) PROVE \A d \in net' \ net : Fine(d)
  <2>1. \A d \in Replay(j.node, j.packet.from) : Has(j.node, d.id)
    BY <1>0, ReplayTyped DEF IInv, Has
  <2>2. net' \subseteq net \cup Replay(j.node, j.packet.from)
    <3>1. CASE j.packet.id \in mayAnswer[j.node]
      BY <1>3, <3>1 DEF Answer
    <3>2. CASE j.packet.id \notin mayAnswer[j.node]
      BY <1>3, <3>2 DEF Answer
    <3> QED
      BY <3>1, <3>2
  <2> QED
    BY <1>0, <2>1, <2>2 DEF IInv, AuthorHas
<1>4. ASSUME NEW n \in Askers, StartupAsk(n) \/ PresenceAsk(n)
      PROVE  \A d \in net' \ net : Fine(d)
  <2>1. n \in Nodes /\ n \in Ids \cup Askers /\ n \notin Ids
    OBVIOUS
  <2>2. \A d \in Originated(n, n) : d.id = n
    BY <2>1, OriginatedTyped
  <2>3. Ask(n)
    BY <1>4 DEF StartupAsk, PresenceAsk
  <2>4. net' \subseteq net \cup Originated(n, n)
    BY <2>3 DEF Ask
  <2> QED
    BY <2>1, <2>2, <2>4
<1>5. ASSUME NEW j \in jobs, StoreMessage(j) PROVE net' \subseteq net
  BY <1>5 DEF StoreMessage
<1>6. ASSUME NEW id \in Ids, SubmitMessage(id) \/ \E n \in Nodes : Expire(n, id)
      PROVE  net' \subseteq net
  BY <1>6 DEF SubmitMessage, Expire
<1>7. ASSUME NEW d \in net, Receive(d) \/ Lose(d) PROVE net' \subseteq net
  BY <1>7 DEF Receive, Lose
<1>8. ASSUME NEW n \in Nodes, Crash(n) \/ Restart(n) \/ OpenSocket(n) PROVE net' \subseteq net
  BY <1>8 DEF Crash, Restart, OpenSocket
<1>9. CASE Throttles
  BY <1>9 DEF Throttles, AskAgain, AnswerAgain
<1>10. CASE UNCHANGED vars
  BY <1>10 DEF vars
<1> QED
  <2>1. CASE net' \subseteq net
    BY <2>1
  <2> QED
    BY <1>1, <1>2, <1>3, <1>4, <1>5, <1>6, <1>7, <1>8, <1>9, <1>10, <2>1 DEF Next, JobStep

\* A new job for a message finds it in its author's history.
LEMMA NewJobs ==
    ASSUME IInv, [Next]_vars
    PROVE  \A k \in jobs' \ jobs : k.packet.id \in Ids => Has(author[k.packet.id], k.packet.id)'
<1> DEFINE Fine(k) == k.packet.id \in Ids => Has(author[k.packet.id], k.packet.id)'
<1> SUFFICES \A k \in jobs' \ jobs : Fine(k)
  OBVIOUS
<1>0. \A j \in jobs : j \in Job /\ j.node \in Nodes /\ j.packet.id \in Ids \cup Askers
  BY JobTyped DEF IInv, BaseType
<1>a. (\A n \in Nodes : stored[n] \subseteq stored'[n]) /\ author' = author
  BY StoredGrows DEF IInv
<1>b. \A id \in Ids : author[id] \in Nodes
  BY AuthorIsNode DEF IInv
<1>1. ASSUME NEW id \in Ids, SubmitMessage(id) PROVE \A k \in jobs' \ jobs : Fine(k)
  <2>1. author[id] \in Nodes
    BY <1>b
  <2>2. PICK new : new = [pc |-> "send", node |-> author[id],
                          packet |-> Packet(id, author[id], author[id], author[id])]
    OBVIOUS
  <2>3. jobs' = jobs \cup {new}
    BY <1>1, <2>2 DEF SubmitMessage
  <2>4. new.packet.id = id
    BY <2>1, <2>2, PacketTyped
  <2>5. id \in stored'[author[id]]
    BY <1>1, <2>1 DEF SubmitMessage, FirstStep, IInv, BaseType
  <2>6. Fine(new)
    BY <1>a, <2>4, <2>5 DEF Has
  <2> QED
    BY <2>3, <2>6
<1>2. ASSUME NEW d \in net, Receive(d) PROVE \A k \in jobs' \ jobs : Fine(k)
  <2> DEFINE new == [pc |-> "handle", node |-> d.to, packet |-> d]
  <2>1. jobs' \subseteq jobs \cup {new}
    BY <1>2 DEF Receive
  <2>2. new.packet = d
    OBVIOUS
  <2>4. d.id \in Ids => Has(author[d.id], d.id)
    BY DEF IInv, Carried
  <2>5. d.id \in Ids => Has(author[d.id], d.id)'
    BY <1>a, <1>b, <2>4 DEF Has
  <2>6. Fine(new)
    BY <2>2, <2>5
  <2> QED
    BY <2>1, <2>6
<1>3. ASSUME NEW j \in jobs, StoreMessage(j) PROVE \A k \in jobs' \ jobs : Fine(k)
  <2>1. [j EXCEPT !.pc = "flood"].packet = j.packet
    BY <1>0, JobGoes
  <2>2. jobs' \subseteq jobs \cup {[j EXCEPT !.pc = "flood"]}
    BY <1>3 DEF StoreMessage, Goes
  <2>3. j.packet.id \in Ids => Has(author[j.packet.id], j.packet.id)
    BY DEF IInv, JobsHave
  <2>4. j.packet.id \in Ids => Has(author[j.packet.id], j.packet.id)'
    BY <1>a, <1>b, <2>3 DEF Has
  <2>5. Fine([j EXCEPT !.pc = "flood"])
    BY <2>1, <2>4
  <2> QED
    BY <2>2, <2>5
<1>4. ASSUME NEW j \in jobs, Answer(j) PROVE \A k \in jobs' \ jobs : Fine(k)
  <2>1. [j EXCEPT !.pc = "flood"].packet = j.packet
    BY <1>0, JobGoes
  <2>2. jobs' \subseteq jobs \cup {[j EXCEPT !.pc = "flood"]}
    BY <1>4 DEF Answer, Goes
  <2>3. j.packet.id \notin Ids
    BY <1>4 DEF Answer
  <2>4. Fine([j EXCEPT !.pc = "flood"])
    BY <2>1, <2>3
  <2> QED
    BY <2>2, <2>4
<1>5. ASSUME NEW j \in jobs, Send(j) \/ Flood(j) PROVE jobs' \subseteq jobs
  BY <1>5 DEF Send, Flood, Ends
<1>6. ASSUME NEW id \in Ids, NEW n \in Nodes, Expire(n, id) PROVE jobs' \subseteq jobs
  BY <1>6 DEF Expire
<1>7. ASSUME NEW d \in net, Lose(d) PROVE jobs' \subseteq jobs
  BY <1>7 DEF Lose
<1>8. ASSUME NEW n \in Askers, StartupAsk(n) \/ PresenceAsk(n) PROVE jobs' \subseteq jobs
  BY <1>8 DEF StartupAsk, PresenceAsk
<1>9. ASSUME NEW n \in Nodes, Crash(n) \/ Restart(n) \/ OpenSocket(n) PROVE jobs' \subseteq jobs
  BY <1>9 DEF Crash, Restart, OpenSocket
<1>10. CASE Throttles
  BY <1>10 DEF Throttles, AskAgain, AnswerAgain
<1>11. CASE UNCHANGED vars
  BY <1>11 DEF vars
<1> QED
  <2>1. CASE jobs' \subseteq jobs
    BY <2>1
  <2> QED
    BY <1>1, <1>2, <1>3, <1>4, <1>5, <1>6, <1>7, <1>8, <1>9, <1>10, <1>11, <2>1 DEF Next, JobStep

\* A message comes into a history at its author, or when the author has it.
LEMMA NewInHistory ==
    ASSUME IInv, [Next]_vars
    PROVE  \A n \in Nodes, id \in Ids : Has(n, id)' /\ ~Has(n, id) => Has(author[id], id)'
<1>0. \A j \in jobs : j.node \in Nodes
  BY JobTyped DEF IInv, BaseType
<1>a. (\A n \in Nodes : stored[n] \subseteq stored'[n]) /\ author' = author
  BY StoredGrows DEF IInv
<1>b. \A id \in Ids : author[id] \in Nodes
  BY AuthorIsNode DEF IInv
<1>1. ASSUME NEW m \in Ids, SubmitMessage(m)
      PROVE  \A n \in Nodes, id \in Ids : Has(n, id)' /\ ~Has(n, id) => Has(author[id], id)'
  <2>1. stored' = [stored EXCEPT ![author[m]] = @ \cup {m}] /\ author' = author
    BY <1>1 DEF SubmitMessage, FirstStep
  <2>2. stored'[author[m]] = stored[author[m]] \cup {m}
    BY <1>b, <2>1 DEF IInv, BaseType
  <2>3. \A n \in Nodes, id \in Ids : Has(n, id)' /\ ~Has(n, id) => id = m
    BY <1>b, <2>1 DEF Has, IInv, BaseType
  <2> QED
    BY <2>1, <2>2, <2>3 DEF Has
<1>2. ASSUME NEW j \in jobs, StoreMessage(j)
      PROVE  \A n \in Nodes, id \in Ids : Has(n, id)' /\ ~Has(n, id) => Has(author[id], id)'
  <2>1. /\ j.packet.id \in Ids
        /\ \/ stored' = [stored EXCEPT ![j.node] = @ \cup {j.packet.id}]
           \/ stored' = stored
    BY <1>2 DEF StoreMessage
  <2>2. Has(author[j.packet.id], j.packet.id)
    BY <2>1 DEF IInv, JobsHave
  <2>3. Has(author[j.packet.id], j.packet.id)'
    BY <1>a, <1>b, <2>1, <2>2 DEF Has
  <2>4. \A n \in Nodes, id \in Ids : Has(n, id)' /\ ~Has(n, id) => id = j.packet.id
    <3>1. CASE stored' = stored
      BY <3>1 DEF Has
    <3>2. CASE stored' = [stored EXCEPT ![j.node] = @ \cup {j.packet.id}]
      BY <1>0, <3>2 DEF Has, IInv, BaseType
    <3> QED
      BY <2>1, <3>1, <3>2
  <2> QED
    BY <2>3, <2>4
<1>3. ASSUME NEW j \in jobs, Send(j) \/ Answer(j) \/ Flood(j) PROVE stored' = stored
  BY <1>3 DEF Send, Answer, Flood
<1>4. ASSUME NEW id \in Ids, NEW n \in Nodes, Expire(n, id) PROVE stored' = stored
  BY <1>4 DEF Expire
<1>5. ASSUME NEW d \in net, Receive(d) \/ Lose(d) PROVE stored' = stored
  BY <1>5 DEF Receive, Lose
<1>6. ASSUME NEW n \in Askers, StartupAsk(n) \/ PresenceAsk(n) PROVE stored' = stored
  BY <1>6 DEF StartupAsk, PresenceAsk
<1>7. ASSUME NEW n \in Nodes, Crash(n) \/ Restart(n) \/ OpenSocket(n) PROVE stored' = stored
  BY <1>7 DEF Crash, Restart, OpenSocket
<1>8. CASE Throttles
  BY <1>8 DEF Throttles, AskAgain, AnswerAgain, Has
<1>9. CASE UNCHANGED vars
  BY <1>9 DEF vars, Has
<1> QED
  <2>1. CASE stored' = stored
    BY <2>1 DEF Has
  <2> QED
    BY <1>1, <1>2, <1>3, <1>4, <1>5, <1>6, <1>7, <1>8, <1>9, <2>1 DEF Next, JobStep

\* Only StoreMessage counts, and it counts what was not in the history.
LEMMA NewlyShown ==
    ASSUME IInv, [Next]_vars
    PROVE  \A n \in Nodes, id \in Ids :
               \/ shown'[n][id] = shown[n][id]
               \/ /\ ~Has(n, id) /\ Has(n, id)' /\ Has(author[id], id)
                  /\ shown'[n][id] = shown[n][id] + 1
<1>0. \A j \in jobs : j.node \in Nodes
  BY JobTyped DEF IInv, BaseType
<1>1. ASSUME NEW j \in jobs, StoreMessage(j), NEW n \in Nodes, NEW id \in Ids
      PROVE  \/ shown'[n][id] = shown[n][id]
             \/ /\ ~Has(n, id) /\ Has(n, id)' /\ Has(author[id], id)
                /\ shown'[n][id] = shown[n][id] + 1
  <2>1. j.packet.id \in Ids /\ Has(author[j.packet.id], j.packet.id)
    BY <1>1 DEF StoreMessage, IInv, JobsHave
  <2>0. CASE shown' = shown
    BY <2>0
  <2>a. CASE shown' # shown
    <3>1. stored' = [stored EXCEPT ![j.node] = @ \cup {j.packet.id}]
      BY <1>1, <2>a DEF StoreMessage
    <3>2. shown' = [shown EXCEPT ![j.node][j.packet.id] =
                      @ + (IF j.packet.id \in stored[j.node] THEN 0 ELSE 1)]
      BY <1>1, <2>a DEF StoreMessage
    <3>3. Has(j.node, j.packet.id)'
      BY <1>0, <3>1 DEF Has, IInv, BaseType
    <3>4. CASE n = j.node /\ id = j.packet.id
      <4>1. shown'[n][id] = shown[n][id] + (IF id \in stored[n] THEN 0 ELSE 1)
        BY <1>0, <2>1, <3>2, <3>4 DEF IInv, BaseType
      <4>2. shown[n][id] \in Nat
        BY DEF IInv, BaseType
      <4> QED
        BY <2>1, <3>3, <3>4, <4>1, <4>2 DEF Has
    <3>5. CASE ~(n = j.node /\ id = j.packet.id)
      <4>1. shown'[n][id] = shown[n][id]
        BY <1>0, <2>1, <3>2, <3>5 DEF IInv, BaseType
      <4> QED
        BY <4>1
    <3> QED
      BY <3>4, <3>5
  <2> QED
    BY <2>0, <2>a
<1>2. ASSUME NEW j \in jobs, Send(j) \/ Answer(j) \/ Flood(j) PROVE shown' = shown
  BY <1>2 DEF Send, Answer, Flood
<1>3. ASSUME NEW id \in Ids, SubmitMessage(id) \/ \E n \in Nodes : Expire(n, id)
      PROVE  shown' = shown
  BY <1>3 DEF SubmitMessage, Expire
<1>4. ASSUME NEW d \in net, Receive(d) \/ Lose(d) PROVE shown' = shown
  BY <1>4 DEF Receive, Lose
<1>5. ASSUME NEW n \in Askers, StartupAsk(n) \/ PresenceAsk(n) PROVE shown' = shown
  BY <1>5 DEF StartupAsk, PresenceAsk
<1>6. ASSUME NEW n \in Nodes, Crash(n) \/ Restart(n) \/ OpenSocket(n) PROVE shown' = shown
  BY <1>6 DEF Crash, Restart, OpenSocket
<1>7. CASE Throttles
  BY <1>7 DEF Throttles, AskAgain, AnswerAgain
<1>8. CASE UNCHANGED vars
  BY <1>8 DEF vars
<1> QED
  <2>1. CASE shown' = shown
    BY <2>1
  <2> QED
    BY <1>1, <1>2, <1>3, <1>4, <1>5, <1>6, <1>7, <1>8, <2>1 DEF Next, JobStep

-----------------------------------------------------------------------------
\* The invariant of the history synchronisation: types, who has what, counts.
THEOREM Invariance == Spec => []IInv
<1>1. Init => IInv
  <2>1. Init => Carried /\ JobsHave /\ AuthorHas
    BY DEF Init, Carried, JobsHave, AuthorHas, Has
  <2>2. Init => Counted
    BY DEF Init, Counted
  <2> QED
    BY <2>1, <2>2, BaseTypeInit DEF IInv
<1>2. IInv /\ [Next]_vars => IInv'
  <2> SUFFICES ASSUME IInv, [Next]_vars PROVE IInv'
    OBVIOUS
  <2>1. BaseType'
    BY BaseTypeStep DEF IInv
  <2>2. (\A n \in Nodes : stored[n] \subseteq stored'[n]) /\ author' = author
    BY StoredGrows DEF IInv
  <2>3. \A id \in Ids : author[id] \in Nodes
    BY AuthorIsNode DEF IInv
  <2>4. Carried'
    <3> SUFFICES ASSUME NEW d \in net', d.id \in Ids PROVE Has(author[d.id], d.id)'
      BY DEF Carried
    <3>1. Has(author[d.id], d.id)
      BY NewDatagrams DEF IInv, Carried
    <3> QED
      BY <2>2, <2>3, <3>1 DEF Has
  <2>5. JobsHave'
    <3> SUFFICES ASSUME NEW k \in jobs', k.packet.id \in Ids
                 PROVE  Has(author[k.packet.id], k.packet.id)'
      BY DEF JobsHave
    <3>1. CASE k \in jobs
      <4>1. Has(author[k.packet.id], k.packet.id)
        BY <3>1 DEF IInv, JobsHave
      <4> QED
        BY <2>2, <2>3, <4>1 DEF Has
    <3>2. CASE k \notin jobs
      BY <3>2, NewJobs
    <3> QED
      BY <3>1, <3>2
  <2>6. AuthorHas'
    <3> SUFFICES ASSUME NEW n \in Nodes, NEW id \in Ids, Has(n, id)'
                 PROVE  Has(author[id], id)'
      BY DEF AuthorHas
    <3>1. CASE Has(n, id)
      <4>1. Has(author[id], id)
        BY <3>1 DEF IInv, AuthorHas
      <4> QED
        BY <2>2, <2>3, <4>1 DEF Has
    <3>2. CASE ~Has(n, id)
      BY <3>2, NewInHistory
    <3> QED
      BY <3>1, <3>2
  <2>7. Counted'
    <3> SUFFICES ASSUME NEW n \in Nodes, NEW id \in Ids
                 PROVE  /\ shown'[n][id] <= 1
                        /\ shown'[n][id] # 0 => Has(n, id)' /\ n # author'[id]
      BY DEF Counted
    <3>1. /\ shown[n][id] \in Nat
          /\ shown[n][id] <= 1
          /\ shown[n][id] # 0 => Has(n, id) /\ n # author[id]
      BY DEF IInv, BaseType, Counted
    <3>2. CASE shown'[n][id] = shown[n][id]
      BY <2>2, <3>1, <3>2 DEF Has
    <3>3. CASE /\ ~Has(n, id) /\ Has(n, id)' /\ Has(author[id], id)
               /\ shown'[n][id] = shown[n][id] + 1
      <4>1. shown[n][id] = 0
        BY <3>1, <3>3
      <4>2. n # author[id]
        BY <3>3
      <4>3. shown'[n][id] = 1
        BY <3>3, <4>1
      <4> QED
        BY <2>2, <3>3, <4>2, <4>3
    <3> QED
      BY <3>2, <3>3, NewlyShown
  <2> QED
    BY <2>1, <2>4, <2>5, <2>6, <2>7 DEF IInv
<1> QED
  BY <1>1, <1>2, PTL DEF Spec

\* The variables keep their types, and whoever a message comes from has it.
THEOREM TypeCorrect == Spec => []TypeOK
<1>1. IInv => TypeOK
  BY DEF IInv, Carried, Has, TypeOK
<1> QED
  BY <1>1, Invariance, PTL

\* A node logs a message as new at most once, and its author never does, in
\* spite of replays, of seen windows that pass and of restarts that lose them.
THEOREM ShownAtMostOnce == Spec => []ShownOnce
<1>1. IInv => ShownOnce
  BY DEF IInv, BaseType, Counted, ShownOnce
<1> QED
  BY <1>1, Invariance, PTL

-----------------------------------------------------------------------------
(* The refinement of Broadcast, with whoever wrote the messages.            *)

\* The histories of all nodes as a broadcast of messages by their authors.
History(authors) == INSTANCE Broadcast WITH has <- stored, OriginOf <- authors

\* A history to which one message is added has gained it, or had it.
LEMMA Gains ==
    ASSUME BaseType, NEW authors \in Authors, NEW n \in Nodes, NEW id \in Ids,
           stored' = [stored EXCEPT ![n] = @ \cup {id}]
    PROVE  History(authors)!Gain(n, id) \/ stored' = stored
<1>1. CASE id \in stored[n]
  BY <1>1 DEF BaseType
<1>2. CASE id \notin stored[n]
  BY <1>2 DEF History!Gain
<1> QED
  BY <1>1, <1>2

\* Every step is a step of the broadcast or leaves the histories alone: what a
\* replay brings under another name is delivered all the same.
LEMMA HistoryStep ==
    ASSUME NEW authors \in Authors, IInv, author = authors, [Next]_vars
    PROVE  History(authors)!Next \/ stored' = stored
<1>1. ASSUME NEW id \in Ids, SubmitMessage(id)
      PROVE  History(authors)!Next \/ stored' = stored
  <2>1. authors[id] \in Nodes /\ stored' = [stored EXCEPT ![authors[id]] = @ \cup {id}]
    BY <1>1, AuthorIsNode DEF SubmitMessage, FirstStep, IInv
  <2>2. History(authors)!Gain(authors[id], id) \/ stored' = stored
    BY <2>1, Gains DEF IInv
  <2> QED
    BY <2>2 DEF History!Next, History!Publish
<1>2. ASSUME NEW j \in jobs, StoreMessage(j)
      PROVE  History(authors)!Next \/ stored' = stored
  <2>1. /\ j.node \in Nodes /\ j.packet.id \in Ids
        /\ \/ stored' = [stored EXCEPT ![j.node] = @ \cup {j.packet.id}]
           \/ stored' = stored
    BY <1>2, JobTyped DEF StoreMessage, IInv, BaseType
  <2>2. History(authors)!Gain(j.node, j.packet.id) \/ stored' = stored
    BY <2>1, Gains DEF IInv
  <2>3. j.packet.id \in stored[authors[j.packet.id]]
    BY <2>1 DEF IInv, JobsHave, Has
  <2> QED
    BY <2>1, <2>2, <2>3 DEF History!Next, History!Deliver
<1>3. ASSUME NEW j \in jobs, Send(j) \/ Answer(j) \/ Flood(j) PROVE stored' = stored
  BY <1>3 DEF Send, Answer, Flood
<1>4. ASSUME NEW id \in Ids, NEW n \in Nodes, Expire(n, id) PROVE stored' = stored
  BY <1>4 DEF Expire
<1>5. ASSUME NEW d \in net, Receive(d) \/ Lose(d) PROVE stored' = stored
  BY <1>5 DEF Receive, Lose
<1>6. ASSUME NEW n \in Askers, StartupAsk(n) \/ PresenceAsk(n) PROVE stored' = stored
  BY <1>6 DEF StartupAsk, PresenceAsk
<1>7. ASSUME NEW n \in Nodes, Crash(n) \/ Restart(n) \/ OpenSocket(n) PROVE stored' = stored
  BY <1>7 DEF Crash, Restart, OpenSocket
<1>8. CASE Throttles
  BY <1>8 DEF Throttles, AskAgain, AnswerAgain
<1>9. CASE UNCHANGED vars
  BY <1>9 DEF vars
<1> QED
  BY <1>1, <1>2, <1>3, <1>4, <1>5, <1>6, <1>7, <1>8, <1>9 DEF Next, JobStep

\* Replays keep what the gossip engine promises: a message is in its author's
\* history before it is in any other, and no history ever loses one, though
\* most copies come from nodes that did not write it.
THEOREM HistoryIsBroadcast ==
    ASSUME NEW CONSTANT authors \in Authors
    PROVE  Spec /\ author = authors => History(authors)!Safe
<1>1. Init => History(authors)!Init
  BY DEF Init, History!Init
<1>2. IInv /\ author = authors /\ [Next]_vars => (author = authors)'
  BY StoredGrows DEF IInv
<1>3. IInv /\ author = authors /\ [Next]_vars => [History(authors)!Next]_stored
  BY HistoryStep
<1> QED
  BY <1>1, <1>2, <1>3, Invariance, PTL DEF Spec, History!Safe

=============================================================================
