-------------------------------- MODULE Probe -------------------------------
(***************************************************************************)
(* The heartbeats of one daemon as far as static peers are concerned:      *)
(* emitPresence starts probeStaticPeers in a goroutine of its own, a round, *)
(* which expands what StaticPeers holds at that moment and feeds a pool of *)
(* workers over a bounded channel, one address per tick of its ticker.     *)
(*                                                                         *)
(* Time passes in periods of a round's ticker.  A round's targets are taken *)
(* in order, so the channel holds the positions taken+1 .. pushed.         *)
(***************************************************************************)
EXTENDS Cidr, FiniteSets, SequencesExt

CONSTANTS
    Rounds,     \* rounds that can be under way at once
    Workers,    \* probeWorkers
    Capacity,   \* of workCh
    Interval,   \* periods between two heartbeats
    Configs,    \* sequences of entries in the configuration at the start
    Additions   \* entries that may be added

ASSUME ProbeAssumption ==
    /\ {Workers, Capacity, Interval} \subseteq Nat \ {0}
    /\ Configs \subseteq Seq(Target)
    /\ Additions \subseteq Target

VARIABLES
    static,     \* cfg.StaticPeers
    round,      \* state of each round
    wait,       \* periods until the next heartbeat
    stopping,   \* the context is cancelled
    beating     \* heartbeatLoop runs

vars == <<static, round, wait, stopping, beating>>

Entries == ToSet(static)

\* The variables have their types, the channel is within its capacity, and no
\* more workers are at work than there are.
TypeOK ==
    /\ Entries \subseteq Target
    /\ \A r \in Rounds :
          /\ round[r].pc \in {"idle", "feed", "push", "drain"}
          /\ round[r].busy \subseteq 1..round[r].taken
          /\ round[r].taken <= round[r].pushed
          /\ round[r].pushed <= Len(round[r].targets)
          /\ round[r].pushed - round[r].taken <= Capacity
          /\ Cardinality(round[r].busy) <= Workers
          /\ round[r].token \in BOOLEAN
    /\ wait \in 0..Interval
    /\ {stopping, beating} \subseteq BOOLEAN
    /\ ~beating => stopping

NoRound == [pc |-> "idle", entries |-> <<>>, targets |-> <<>>, pushed |-> 0, taken |-> 0,
            busy |-> {}, token |-> FALSE]

Init ==
    /\ static \in Configs
    /\ round = [r \in Rounds |-> NoRound]
    /\ wait = 0
    /\ stopping = FALSE
    /\ beating = TRUE

-----------------------------------------------------------------------------
\* handleAddPeer.
AddPeer(t) ==
    /\ ~stopping
    /\ t \notin Entries
    /\ static' = Append(static, t)
    /\ UNCHANGED <<round, wait, stopping, beating>>

Targets_One(entries) ==     \* mutant: only the first entry is expanded
    IF entries = <<>> THEN <<>> ELSE ParseTarget(Head(entries))
\* The targets of all entries, one after the other.
Targets(entries) == FlattenSeq([i \in DOMAIN entries |-> ParseTarget(entries[i])])

Opened(entries) == [NoRound EXCEPT !.pc = IF Targets(entries) = <<>> THEN "idle" ELSE "feed",
                                   !.entries = entries, !.targets = Targets(entries)]

\* heartbeatLoop and emitPresence; no goroutine without static peers.  The loop
\* may still serve its ticker when the context is cancelled.
Heartbeat ==
    /\ beating
    /\ wait = 0
    /\ \/ /\ static = <<>>
          /\ UNCHANGED round
       \/ /\ static # <<>>
          /\ \E r \in Rounds : /\ round[r].pc = "idle"
                               /\ round' = [round EXCEPT ![r] = Opened(static)]
    /\ wait' = Interval
    /\ UNCHANGED <<static, stopping, beating>>

LeaveLoop ==
    /\ beating
    /\ stopping
    /\ beating' = FALSE
    /\ UNCHANGED <<static, round, wait, stopping>>

\* A tick that nobody waits for yet is kept, a second one dropped.
Period ==
    /\ wait' = IF wait = 0 THEN 0 ELSE wait - 1
    /\ round' = [r \in Rounds |-> IF round[r].pc \in {"feed", "push"}
                                    THEN [round[r] EXCEPT !.token = TRUE] ELSE round[r]]
    /\ UNCHANGED <<static, stopping, beating>>

\* The loop over the targets: a tick, and then a place in the channel.
TakeTick(r) ==
    /\ round[r].pc = "feed"
    /\ round[r].pushed < Len(round[r].targets)
    /\ round[r].token
    /\ round' = [round EXCEPT ![r].pc = "push", ![r].token = FALSE]
    /\ UNCHANGED <<static, wait, stopping, beating>>

HasRoom_Always(r) == TRUE   \* mutant: the channel is not bounded
HasRoom(r) == round[r].pushed - round[r].taken < Capacity

Push(r) ==
    /\ round[r].pc = "push"
    /\ HasRoom(r)
    /\ round' = [round EXCEPT ![r].pc = "feed", ![r].pushed = @ + 1]
    /\ UNCHANGED <<static, wait, stopping, beating>>

\* close(workCh), after the last target or when the context is cancelled.
Close(r) ==
    /\ round[r].pc = "feed"
    /\ stopping \/ round[r].pushed = Len(round[r].targets)
    /\ round' = [round EXCEPT ![r].pc = "drain", ![r].token = FALSE]
    /\ UNCHANGED <<static, wait, stopping, beating>>

\* A worker takes an address, and sends the packet there, whether it arrives or
\* not.
Take(r) ==
    /\ round[r].taken < round[r].pushed
    /\ Cardinality(round[r].busy) < Workers
    /\ round' = [round EXCEPT ![r].taken = @ + 1, ![r].busy = @ \cup {round[r].taken + 1}]
    /\ UNCHANGED <<static, wait, stopping, beating>>

SendProbe(r) ==
    /\ \E i \in round[r].busy : round' = [round EXCEPT ![r].busy = @ \ {i}]
    /\ UNCHANGED <<static, wait, stopping, beating>>

Drained_Closed(r) == TRUE   \* mutant: the workers are not waited for
\* The channel is closed and empty, and every worker is done.
Drained(r) == round[r].taken = round[r].pushed /\ round[r].busy = {}

EndRound(r) ==
    /\ round[r].pc = "drain"
    /\ Drained(r)
    /\ round' = [round EXCEPT ![r] = NoRound]
    /\ UNCHANGED <<static, wait, stopping, beating>>

Shutdown ==
    /\ ~stopping
    /\ stopping' = TRUE
    /\ UNCHANGED <<static, round, wait, beating>>

Step(r) == TakeTick(r) \/ Push(r) \/ Close(r) \/ Take(r) \/ SendProbe(r) \/ EndRound(r)

Next == \/ \E t \in Additions : AddPeer(t)
        \/ Heartbeat \/ LeaveLoop \/ Period \/ Shutdown
        \/ \E r \in Rounds : Step(r)

Spec == Init /\ [][Next]_vars

(* Time passes, the ticker of the heartbeat is served, goroutines run on.  *)
FairSpec == /\ Spec
            /\ WF_vars(Heartbeat) /\ WF_vars(Period)
            /\ \A r \in Rounds : WF_vars(Step(r))

-----------------------------------------------------------------------------
\* The addresses the workers of round r have sent a packet to.
Sent(r) == {i \in 1..round[r].taken : i \notin round[r].busy}

\* cidr.go:15, README.md:384: a round that runs to its end sends one packet to
\* each usable address of each entry that was there when it began, and none
\* to any other, at every prefix length and at both ends of the address range.
RoundIsExact ==
    [][\A r \in Rounds : EndRound(r) /\ ~stopping =>
          \A a \in Addresses :
              Cardinality({i \in Sent(r) : round[r].targets[i] = a})
                = Cardinality({i \in DOMAIN round[r].entries : a \in Usable(round[r].entries[i])})]_vars

\* README.md:380: an added peer is probed from the next heartbeat on, unless the
\* daemon stops: rounds neither block one another nor get stuck on the channel.
AddedIsProbed ==
    \A t \in Additions :
        t \in Entries ~> \/ stopping
                         \/ \E r \in Rounds : /\ t \in ToSet(round[r].entries)
                                              /\ Usable(t) \subseteq {round[r].targets[i] : i \in Sent(r)}

\* udp.go:530-531: the packets never exceed the rate, which each round keeps for
\* itself: so no two of them are handing out addresses at once.
RateIsKept ==
    \A r, q \in Rounds : round[r].pc \in {"feed", "push"} /\ round[q].pc \in {"feed", "push"} => r = q

=============================================================================
