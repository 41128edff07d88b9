----------------------------- MODULE MCFileSync -----------------------------
(* FileSync on small sets: two versions f1, f2 of one (sender, name).      *)
EXTENDS FileSync, TLC

MCSymmetry == Permutations(Callers) \cup Permutations(Workers)
=============================================================================
