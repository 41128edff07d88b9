----------------------------- MODULE MCConfigFile ---------------------------
(* ConfigFile with a daemon, a second one, a command and two --add requests. *)
EXTENDS ConfigFile

As(found, entered, fail) == [file |-> found, commands |-> entered, faulty |-> fail]

\* The first start is made alone and writes what it wants to; after it commands
\* may be entered at any time and writing may fail.
Orderly == {As("absent", FALSE, FALSE), As("bare", FALSE, FALSE), As("identified", TRUE, TRUE)}
Settled == {As("identified", TRUE, FALSE)}
FirstStart == {As("absent", TRUE, FALSE)}
=============================================================================
