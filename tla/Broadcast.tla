----------------------------- MODULE Broadcast ------------------------------
(***************************************************************************)
(* What the gossip mesh promises: a message is first in its sender's       *)
(* history, spreads from there and from there only, is never taken back,   *)
(* and, where nothing goes wrong, reaches every node.                      *)
(***************************************************************************)
CONSTANTS Nodes,      \* daemons
          Ids,        \* message identifiers
          OriginOf    \* [Ids -> Nodes]: the sender of each

VARIABLE has          \* the messages in each node's history

Init == has = [n \in Nodes |-> {}]

Gain(n, id) == /\ id \notin has[n]
               /\ has' = [has EXCEPT ![n] = @ \cup {id}]

Publish(id) == Gain(OriginOf[id], id)

Deliver(n, id) == id \in has[OriginOf[id]] /\ Gain(n, id)

Next == \E id \in Ids : Publish(id) \/ \E n \in Nodes : Deliver(n, id)

Safe == Init /\ [][Next]_has

Spreads == \A n \in Nodes, id \in Ids : WF_has(Deliver(n, id))

Spec == Safe /\ Spreads
=============================================================================
