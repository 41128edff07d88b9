------------------------------ MODULE MCGossip ------------------------------
(* Gossip on a mesh of four nodes.                                          *)
EXTENDS Gossip, TLC

CONSTANTS a, b, c, d, m1

\* From a to d it is two hops over b, and three over c and b; b, d and c form a
\* ring; a and c share a LAN segment.
Four == {a, b, c, d}
Ways == (a :> {b, c}) @@ (b :> {d}) @@ (c :> {b}) @@ (d :> {b, c})
Segment == (a :> {a, c}) @@ (b :> {b}) @@ (c :> {a, c}) @@ (d :> {d})

OneMessage == (m1 :> a)
=============================================================================
