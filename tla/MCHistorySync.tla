---------------------------- MODULE MCHistorySync ---------------------------
(* HistorySync on a line a - b - c: a asks, c is reached through b only.   *)
EXTENDS HistorySync, TLC

CONSTANTS a, b, c, m1

LineNodes == {a, b, c}
LinePeers == (a :> {b}) @@ (b :> {a, c}) @@ (c :> {b})
PairNodes == {a, b}
PairPeers == (a :> {b}) @@ (b :> {a})

\* The message is the asker's own, or comes from the far end.
FromAC == {(m1 :> a), (m1 :> c)}
FromB == {(m1 :> b)}
=============================================================================
