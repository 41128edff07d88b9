------------------------------- MODULE MCProbe ------------------------------
(* Probe on addresses of three bits: every block there is, and two entries. *)
EXTENDS Probe

Slash(a, n) == [addr |-> a, ones |-> n]

\* One block, by its network or another of its addresses, or an entry that does
\* not parse and one that does, or none.
Networks == {b \in Block : Network(b) = b.addr}
OneBlock == {<<b>> : b \in Networks \cup {Slash(5, 1)}} \cup {<<Invalid, Slash(5, 2)>>, <<>>}
Pair == {Slash(6, 2)}
WholeRange == {<<Slash(0, 0)>>}
=============================================================================
