----------------------------- MODULE HistorySync -----------------------------
(***************************************************************************)
(* How a node that was away gets the messages it missed: the SYNC_REQ      *)
(* handlers of the daemon (internal/daemon) on top of the gossip engine.   *)
(* A request floods the mesh like every packet; each node it reaches       *)
(* replays its history, at most once in 20 seconds per requester, to the   *)
(* address the packet came from, which is the last node that forwarded it. *)
(*                                                                         *)
(* One message is as good as another here: histories stay below the replay *)
(* limit of 200, and TTLs cover the mesh (Gossip has the TTL).  A flood    *)
(* takes far less time than the throttles (20 s) and the seen window (300  *)
(* s): these run out only when no copy of the packet is about.  A request  *)
(* has a fresh PacketID; the requester's name stands for it, forgotten by  *)
(* all when the next request is made.  FILE_METAs are replayed like        *)
(* messages, but under fresh PacketIDs; they are left out.                 *)
(***************************************************************************)
EXTENDS Naturals, FiniteSets

CONSTANTS
    Nodes,      \* daemons
    Askers,     \* those whose requests are followed here
    Ids,        \* MessageIDs, which are also the PacketIDs of their MSGs
    Authors,    \* a subset of [Ids -> Nodes]: who may have written the messages
    Peers,      \* [Nodes -> SUBSET Nodes]: the peer registries
    MaxFaults   \* bound on lost datagrams, crashes and messages a database refuses

ASSUME SyncAssumption ==
    /\ Askers \subseteq Nodes
    /\ Ids \cap Nodes = {}
    /\ Authors \subseteq [Ids -> Nodes]
    /\ Peers \in [Nodes -> SUBSET Nodes]
    /\ \A n \in Nodes : n \notin Peers[n]
    /\ MaxFaults \in Nat

VARIABLES
    state,      \* of each daemon: "down", "starting" (no socket yet) or "up"
    hello,      \* daemons that have not made their startup request yet
    stored,     \* the messages bucket of each node (persistent)
    seen,       \* seenPkts of each node
    mayAsk,     \* daemons whose lastSyncReqAt is 20 s back
    mayAnswer,  \* for each daemon, the requesters it has not answered for 20 s
    net,        \* datagrams on their way
    jobs,       \* goroutines that handle or send one
    shown,      \* how often each node has logged a message as new
    sent,       \* messages entered by a user
    author,     \* who writes which message; never changes
    faults

throttles == <<mayAsk, mayAnswer>>
vars == <<state, hello, stored, seen, throttles, net, jobs, shown, sent, author, faults>>

\* A datagram: its PacketID, the SenderID in it and the address it came from.
Datagram == [id : Ids \cup Askers, sender : Nodes, from : Nodes, to : Nodes]
Job == [pc : {"send", "handle", "flood"}, node : Nodes, packet : Datagram]

BaseType ==
    /\ state \in [Nodes -> {"down", "starting", "up"}]
    /\ hello \subseteq Askers
    /\ stored \in [Nodes -> SUBSET Ids]
    /\ seen \in [Nodes -> SUBSET (Ids \cup Askers)]
    /\ mayAsk \subseteq Askers
    /\ mayAnswer \in [Nodes -> SUBSET Askers]
    /\ net \subseteq Datagram
    /\ jobs \subseteq Job
    /\ shown \in [Nodes -> [Ids -> Nat]]
    /\ sent \subseteq Ids
    /\ author \in Authors
    /\ faults \in 0..MaxFaults

\* The variables have their types, and a message that travels is in the history of
\* its author, whoever sends it on or replays it under a name of its own.
TypeOK == BaseType /\ \A d \in net : d.id \in Ids => d.id \in stored[author[d.id]]

Init ==
    /\ state = [n \in Nodes |-> "up"]
    /\ hello = {}
    /\ stored = [n \in Nodes |-> {}]
    /\ seen = [n \in Nodes |-> {}]
    /\ mayAsk = Askers
    /\ mayAnswer = [n \in Nodes |-> Askers]
    /\ net = {}
    /\ jobs = {}
    /\ shown = [n \in Nodes |-> [id \in Ids |-> 0]]
    /\ sent = {}
    /\ author \in Authors
    /\ faults = 0

Packet(id, sender, from, to) == [id |-> id, sender |-> sender, from |-> from, to |-> to]
Copies(id, sender, from, tos) == {Packet(id, sender, from, m) : m \in tos}
Goes(j, pc) == jobs' = (jobs \ {j}) \cup {[j EXCEPT !.pc = pc]}
Ends(j) == jobs' = jobs \ {j}

\* No copy of packet id is travelling or being handled.
Quiet(id) == /\ \A d \in net : d.id # id
             /\ \A j \in jobs : j.packet.id # id

-----------------------------------------------------------------------------
(* Messages: handleSendMessage, Send, handleDatagram, handleMessage.       *)

FirstStep_Send(id) == stored    \* mutant: nothing is persisted before sending
FirstStep(id) == [stored EXCEPT ![author[id]] = @ \cup {id}]

\* The IPC server takes commands whether or not the UDP socket is open.
SubmitMessage(id) ==
    LET n == author[id] IN
    /\ state[n] # "down"
    /\ id \notin sent
    /\ sent' = sent \cup {id}
    /\ stored' = FirstStep(id)
    /\ jobs' = jobs \cup {[pc |-> "send", node |-> n, packet |-> Packet(id, n, n, n)]}
    /\ UNCHANGED <<state, hello, seen, throttles, net, shown, author, faults>>

\* UDPEngine.Send swallows what sendRaw says when there is no socket.
Originated(id, n) == IF state[n] = "up" THEN Copies(id, n, n, Peers[n]) ELSE {}

Send(j) ==
    LET n == j.node  id == j.packet.id IN
    /\ j.pc = "send"
    /\ seen' = [seen EXCEPT ![n] = @ \cup {id}]
    /\ net' = net \cup Originated(id, n)
    /\ Ends(j)
    /\ UNCHANGED <<state, hello, stored, throttles, shown, sent, author, faults>>

\* Not sent by this very node, and not within the seen window.
Novel(d) == d.sender # d.to /\ d.id \notin seen[d.to]

\* A datagram to a daemon without a socket is gone.
Receive(d) ==
    /\ net' = net \ {d}
    /\ IF state[d.to] = "up" /\ Novel(d)
         THEN /\ seen' = [seen EXCEPT ![d.to] = @ \cup {d.id}]
              /\ jobs' = jobs \cup {[pc |-> "handle", node |-> d.to, packet |-> d]}
         ELSE UNCHANGED <<seen, jobs>>
    /\ UNCHANGED <<state, hello, stored, throttles, shown, sent, author, faults>>

\* A message that the database refuses is lost to this node for as long as its
\* seen entry lasts; the packet is flooded all the same.
StoreMessage(j) ==
    LET n == j.node  id == j.packet.id IN
    /\ j.pc = "handle"
    /\ id \in Ids
    /\ \/ /\ stored' = [stored EXCEPT ![n] = @ \cup {id}]
          /\ shown' = [shown EXCEPT ![n][id] = @ + (IF id \in stored[n] THEN 0 ELSE 1)]
          /\ UNCHANGED faults
       \/ /\ faults < MaxFaults
          /\ faults' = faults + 1
          /\ UNCHANGED <<stored, shown>>
    /\ Goes(j, "flood")
    /\ UNCHANGED <<state, hello, seen, throttles, net, sent, author>>

Flood(j) ==
    LET n == j.node  d == j.packet IN
    /\ j.pc = "flood"
    /\ net' = net \cup Copies(d.id, d.sender, n, Peers[n] \ {d.sender})
    /\ Ends(j)
    /\ UNCHANGED <<state, hello, stored, seen, throttles, shown, sent, author, faults>>

-----------------------------------------------------------------------------
(* Requests: maybeRequestHistorySync and handleSyncRequest.                *)

\* The throttle is set before anything is sent, and whether or not it is.
Ask(n) ==
    IF n \in mayAsk
      THEN /\ mayAsk' = mayAsk \ {n}
           /\ seen' = [m \in Nodes |-> IF m = n THEN seen[m] \cup {n} ELSE seen[m] \ {n}]
           /\ net' = net \cup Originated(n, n)
      ELSE UNCHANGED <<mayAsk, seen, net>>

\* Daemon.Run, at startup; it does not wait for the engine's socket.
StartupAsk(n) ==
    /\ n \in hello
    /\ state[n] # "down"
    /\ Quiet(n)
    /\ Ask(n)
    /\ hello' = hello \ {n}
    /\ UNCHANGED <<state, stored, mayAnswer, jobs, shown, sent, author, faults>>

PresenceAsks_No(n) == FALSE     \* mutant: only the startup asks
\* handlePresence ends with a request.
PresenceAsks(n) == state[n] = "up" /\ \E m \in Peers[n] : state[m] = "up"

PresenceAsk(n) ==
    /\ PresenceAsks(n)
    /\ n \in mayAsk
    /\ Quiet(n)
    /\ Ask(n)
    /\ UNCHANGED <<state, hello, stored, mayAnswer, jobs, shown, sent, author, faults>>

\* replayMessagesTo: ListMessages and one SendTo for each, in its own name.
Replay(n, to) == {Packet(id, n, n, to) : id \in stored[n]}

\* handleSyncRequest: the throttle, then the replay to where the packet came from.
Answer(j) ==
    LET n == j.node  d == j.packet IN
    /\ j.pc = "handle"
    /\ d.id \in Askers
    /\ IF d.id \in mayAnswer[n]
         THEN /\ mayAnswer' = [mayAnswer EXCEPT ![n] = @ \ {d.id}]
              /\ seen' = [seen EXCEPT ![n] = @ \cup stored[n]]
              /\ net' = net \cup Replay(n, d.from)
         ELSE UNCHANGED <<mayAnswer, seen, net>>
    /\ Goes(j, "flood")
    /\ UNCHANGED <<state, hello, stored, mayAsk, shown, sent, author, faults>>

\* Twenty seconds have passed.
AskAgain(n) ==
    /\ Quiet(n)
    /\ mayAsk' = mayAsk \cup {n}
    /\ UNCHANGED <<state, hello, stored, seen, mayAnswer, net, jobs, shown, sent, author, faults>>

AnswerAgain(n, r) ==
    /\ Quiet(r)
    /\ mayAnswer' = [mayAnswer EXCEPT ![n] = @ \cup {r}]
    /\ UNCHANGED <<state, hello, stored, seen, mayAsk, net, jobs, shown, sent, author, faults>>

-----------------------------------------------------------------------------
\* The seen window of a message passes.
Expire(n, id) ==
    /\ id \in seen[n]
    /\ Quiet(id)
    /\ seen' = [seen EXCEPT ![n] = @ \ {id}]
    /\ UNCHANGED <<state, hello, stored, throttles, net, jobs, shown, sent, author, faults>>

Lose(d) ==
    /\ faults < MaxFaults
    /\ faults' = faults + 1
    /\ net' = net \ {d}
    /\ UNCHANGED <<state, hello, stored, seen, throttles, jobs, shown, sent, author>>

Crash(n) ==
    /\ state[n] # "down"
    /\ faults < MaxFaults
    /\ faults' = faults + 1
    /\ state' = [state EXCEPT ![n] = "down"]
    /\ hello' = hello \ {n}
    /\ seen' = [seen EXCEPT ![n] = {}]
    /\ jobs' = {j \in jobs : j.node # n}
    /\ mayAsk' = mayAsk \cup ({n} \cap Askers)
    /\ mayAnswer' = [mayAnswer EXCEPT ![n] = Askers]
    /\ UNCHANGED <<stored, net, shown, sent, author>>

Restart(n) ==
    /\ state[n] = "down"
    /\ state' = [state EXCEPT ![n] = "starting"]
    /\ hello' = hello \cup ({n} \cap Askers)
    /\ UNCHANGED <<stored, seen, throttles, net, jobs, shown, sent, author, faults>>

OpenSocket(n) ==
    /\ state[n] = "starting"
    /\ state' = [state EXCEPT ![n] = "up"]
    /\ UNCHANGED <<hello, stored, seen, throttles, net, jobs, shown, sent, author, faults>>

-----------------------------------------------------------------------------
JobStep(j) == Send(j) \/ StoreMessage(j) \/ Answer(j) \/ Flood(j)

Throttles == \E r \in Askers : AskAgain(r) \/ \E n \in Nodes : AnswerAgain(n, r)

Next == \/ \E id \in Ids : SubmitMessage(id) \/ \E n \in Nodes : Expire(n, id)
        \/ \E d \in net : Receive(d) \/ Lose(d)
        \/ \E j \in jobs : JobStep(j)
        \/ \E n \in Askers : StartupAsk(n) \/ PresenceAsk(n)
        \/ Throttles
        \/ \E n \in Nodes : Crash(n) \/ Restart(n) \/ OpenSocket(n)

Spec == Init /\ [][Next]_vars

(* Goroutines run on, datagrams arrive, a daemon that stops is started     *)
(* again, time passes, and heartbeats keep coming.                         *)
FairSpec ==
    /\ Spec
    /\ \A n \in Nodes : /\ WF_vars(Restart(n)) /\ WF_vars(OpenSocket(n))
    /\ \A n \in Nodes, id \in Ids \cup Askers :
           /\ WF_vars(\E j \in jobs : j.node = n /\ j.packet.id = id /\ JobStep(j))
           /\ WF_vars(\E d \in net : d.to = n /\ d.id = id /\ Receive(d))
    /\ \A n \in Askers : /\ WF_vars(StartupAsk(n)) /\ SF_vars(PresenceAsk(n))
                         /\ WF_vars(AskAgain(n))
                         /\ \A m \in Nodes : SF_vars(AnswerAgain(m, n))

-----------------------------------------------------------------------------
\* A message is logged as new at most once per node and never by its author,
\* though replays carry the sender of the replay, not the author, and come to
\* nodes whose seen entries have expired or were lost in a restart.
ShownOnce == \A n \in Nodes, id \in Ids :
                shown[n][id] <= IF n = author[id] THEN 0 ELSE 1

\* udp.go:411-418: a seen entry runs out after its 300 s, since the duplicates that
\* come before do not refresh it.
EntriesRunOut == \A a \in Askers, id \in Ids : []<>(id \notin seen[a])

\* What any node has in its history, every asker has in the end, though it was
\* down when the message was flooded, its own database refused it, its first
\* request went nowhere, and the replays go to whoever forwarded the request.
CatchesUp ==
    EntriesRunOut => \A a \in Askers, n \in Nodes, id \in Ids :
                         id \in stored[n] ~> id \in stored[a]

\* daemon.go:308: handleSyncRequest replays local history "to the requester".
AnsweredToRequester ==
    [][\A j \in jobs : Answer(j) /\ mayAnswer' # mayAnswer
          => j.packet.from = j.packet.sender]_vars

\* daemon.go:169-170: a newly started daemon asks the online peers for history.
StartupAsksPeers ==
    [][\A n \in Askers : StartupAsk(n) /\ mayAsk' # mayAsk
          => Copies(n, n, n, Peers[n]) \subseteq net']_vars

=============================================================================
