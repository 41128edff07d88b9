---------------------------- MODULE MCPublication ---------------------------
(* Publication with two contents of the user, of different size, two paths *)
(* to publish from, and a peer that offers one of the contents.            *)
EXTENDS Publication, TLC

CONSTANTS draft, letter, torn, here, there, stored

AllHashes == {draft, letter, torn}
AllPaths == {here, there, stored}
TheSizes == (draft :> 1) @@ (letter :> 2) @@ (torn :> 1)
SomeDisks == {(here :> draft) @@ (there :> c) : c \in {draft, letter}}
InStore == [h \in Hashes |-> stored]
Truthful == [h \in Fetched |-> {SizeOf[h]}]
AnySize == [h \in Fetched |-> Sizes]
=============================================================================
