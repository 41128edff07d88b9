----------------------------- MODULE MCDownload -----------------------------
(* Download on two files v1, v2, of two and one units or the second empty.   *)
EXTENDS Download, TLC

CONSTANTS v1, v2, report, notes

TwoHashes == {v1, v2}
Sizes == (v1 :> 2) @@ (v2 :> 1)
OneEmpty == (v1 :> 2) @@ (v2 :> 0)
OwnNames == (v1 :> report) @@ (v2 :> notes)
SameName == (v1 :> report) @@ (v2 :> report)
=============================================================================
