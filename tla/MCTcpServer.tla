---------------------------- MODULE MCTcpServer -----------------------------
(* TcpServer with a file of two units, which may grow to three.            *)
EXTENDS TcpServer, TLC

Asked == [meta : {FALSE}, offset : {0, 1, 3}, chunk : {0, 1}] \cup {NoRequest}
Whole == {[meta |-> FALSE, offset |-> 0, chunk |-> 1]}

ConnSymmetry == Permutations(Conns)
=============================================================================
