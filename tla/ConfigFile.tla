----------------------------- MODULE ConfigFile -----------------------------
(***************************************************************************)
(* config.yaml (internal/config) and the processes that read and write it: *)
(* daemons as they start, commands that only want the IPC port, and the    *)
(* goroutines of the running daemon that add a static peer.  Each writes   *)
(* <path>.tmp and renames it; an open file is an inode and stays open      *)
(* across renames, as on POSIX.                                            *)
(*                                                                         *)
(* Of the settings and flags, the NodeID and the static peers are kept: an *)
(* empty file reads as neither.  A process may crash between any two       *)
(* steps; the machine itself does not, so what was written is not lost.    *)
(***************************************************************************)
EXTENDS Naturals, FiniteSets

CONSTANTS
    Daemons,    \* "echosend daemon" processes
    Commands,   \* other commands, which call config.Load and write nothing else
    Adders,     \* goroutines of the IPC server that serve an --add
    Targets,    \* static peers that are added
    Mixed,      \* a string made of two targets by a data race
    Garbled,    \* a file that is not what one process has written
    Chosen,     \* NodeIDs that a user may give with --id
    Scenes,     \* circumstances, see Scene
    MaxInodes,  \* files that can exist at once
    MaxIds,     \* bound on the NodeIDs made
    MaxFails,   \* bound on failures to write
    MaxCrashes  \* bound on crashes of daemons

\* How the file is found at first, whether commands are entered, and whether
\* writing may fail.
Scene == [file : {"absent", "bare", "identified"}, commands : BOOLEAN, faulty : BOOLEAN]

ASSUME ConfigAssumption ==
    /\ Daemons \cap Commands = {} /\ Daemons \cap Adders = {} /\ Commands \cap Adders = {}
    /\ Mixed \notin Targets
    /\ Targets # {}
    /\ Scenes \subseteq Scene
    /\ {MaxInodes, MaxIds, MaxFails, MaxCrashes} \subseteq Nat
    /\ MaxIds > 0 /\ MaxInodes > 0
    /\ Chosen \subseteq Nat \ (0..MaxIds)

Procs == Daemons \cup Commands \cup Adders
Inodes == 1..MaxInodes
NoInode == 0

NoId == 0
Text(id, peers) == [id |-> id, peers |-> peers]
Blank == Text(NoId, {})     \* the defaults, and an empty file
NodeIds == (0..MaxIds) \cup Chosen
Texts == [id : NodeIds, peers : SUBSET (Targets \cup {Mixed})]
ASSUME TextAssumption == Garbled \notin Texts

VARIABLES
    entry,      \* directory entry config.yaml
    temp,       \* directory entry config.yaml.tmp
    file,       \* contents of the inodes
    pc,         \* control state of each process
    cfg,        \* Config of each daemon and command, and the slice an adder has read
    data,       \* what a write under way marshalled
    fd,         \* the file it has open
    why,        \* what the write is for
    target,     \* the peer it adds
    given,      \* the NodeID that --id gives it in this start, if any
    running,    \* daemons that hold the lock of the database: at most one
    ids,        \* NodeIDs made so far
    ran,        \* NodeIDs a daemon has run under
    acked,      \* peers whose addition was acknowledged
    refused,    \* peers whose addition was once reported to have failed
    unsaved,    \* NodeIDs whose saving was once reported to have failed
    scene, fails, crashes

disk == <<entry, temp, file>>
local == <<cfg, data, why, target, given>>
ghosts == <<ran, acked, refused, unsaved>>
bounds == <<scene, fails, crashes>>
vars == <<disk, pc, local, fd, running, ids, ghosts, bounds>>

Pcs == {"idle", "append", "marshal", "open", "fill", "rename", "loaded", "flags", "lock", "run"}

\* The variables have their types and there is one running daemon at most; a
\* running daemon knows every peer that config.yaml has.
TypeOK ==
    /\ {entry, temp} \subseteq Inodes \cup {NoInode}
    /\ file \in [Inodes -> Texts \cup {Garbled}]
    /\ pc \in [Procs -> Pcs]
    /\ {cfg[p] : p \in Procs} \cup {data[p] : p \in Procs} \subseteq Texts
    /\ fd \in [Procs -> Inodes \cup {NoInode}]
    /\ why \in [Procs -> {"defaults", "identify", "flag", "save", "add"}]
    /\ target \in [Procs -> Targets]
    /\ given \in [Procs -> Chosen \cup {NoId}]
    /\ running \subseteq {d \in Daemons : pc[d] = "run"} /\ Cardinality(running) <= 1
    /\ ids \in 0..MaxIds
    /\ ran \cup unsaved \subseteq NodeIds \ {NoId}
    /\ acked \cup refused \subseteq Targets
    /\ scene \in Scenes
    /\ fails \in 0..MaxFails /\ crashes \in 0..MaxCrashes
    /\ \A d \in running : entry # NoInode /\ file[entry] # Garbled
                             => file[entry].peers \subseteq cfg[d].peers

Init ==
    /\ scene \in Scenes
    /\ ids = IF scene.file = "identified" THEN 1 ELSE 0
    /\ entry = IF scene.file = "absent" THEN NoInode ELSE 1
    /\ temp = NoInode
    /\ file = [i \in Inodes |-> Text(ids, {})]
    /\ pc = [p \in Procs |-> "idle"]
    /\ cfg = [p \in Procs |-> Blank]
    /\ data = [p \in Procs |-> Blank]
    /\ fd = [p \in Procs |-> NoInode]
    /\ why = [p \in Procs |-> "save"]
    /\ target = [p \in Procs |-> CHOOSE t \in Targets : TRUE]
    /\ given = [p \in Procs |-> NoId]
    /\ running = {}
    /\ ran = {}
    /\ acked = {}
    /\ refused = {}
    /\ unsaved = {}
    /\ fails = 0
    /\ crashes = 0

Goes(p, to) == pc' = [pc EXCEPT ![p] = to]

\* p sets out to write its configuration text for the purpose w.
Writes(p, text, w) ==
    /\ Goes(p, "open")
    /\ cfg' = [cfg EXCEPT ![p] = text]
    /\ data' = [data EXCEPT ![p] = text]
    /\ why' = [why EXCEPT ![p] = w]

-----------------------------------------------------------------------------
(* Load.                                                                   *)

\* A NodeID is generated when there is none, and persisted.
Identify(p, peers) ==
    /\ ids < MaxIds
    /\ ids' = ids + 1
    /\ Writes(p, Text(ids + 1, peers), "identify")
    /\ UNCHANGED target

Readings_Unlisted(text) ==  \* mutant: the static peers are written but not read
    {Text(IF text = Garbled THEN NoId ELSE text.id, {})}
\* What Unmarshal makes of a file: a garbled one may still parse, as anything.
Readings(text) == IF text = Garbled THEN {t \in Texts : t.id \in Chosen \cup 0..ids} ELSE {text}

\* A file that cannot be parsed ends the process.
Load(p) ==
    /\ p \in Daemons \/ (p \in Commands /\ scene.commands)
    /\ pc[p] = "idle"
    /\ \/ /\ entry = NoInode
          /\ Writes(p, Blank, "defaults")
          /\ UNCHANGED <<target, ids>>
       \/ /\ entry # NoInode
          /\ \E text \in Readings(file[entry]) :
                IF text.id = NoId THEN Identify(p, text.peers)
                ELSE /\ Goes(p, "loaded")
                     /\ cfg' = [cfg EXCEPT ![p] = text]
                     /\ UNCHANGED <<data, why, target, ids>>
    /\ given' = [given EXCEPT ![p] = NoId]
    /\ UNCHANGED <<disk, fd, running, ghosts, bounds>>

-----------------------------------------------------------------------------
(* write: WriteFile to the temporary file, then Rename.                    *)

\* What happens once a write has returned.
Returns(p, ok) ==
    \/ /\ why[p] = "defaults"       \* an error is only a warning
       /\ Identify(p, cfg[p].peers)
       /\ UNCHANGED <<acked, refused, unsaved>>
    \/ /\ why[p] = "identify"
       /\ Goes(p, "loaded")
       /\ UNCHANGED <<cfg, data, why, target, ids, acked, refused, unsaved>>
    \/ /\ why[p] = "flag"           \* an error is a warning, too, and names the peer
       /\ Goes(p, "flags")
       /\ refused' = IF ok THEN refused ELSE refused \cup {target[p]}
       /\ UNCHANGED <<cfg, data, why, target, ids, acked, unsaved>>
    \/ /\ why[p] = "save"           \* and so it is here
       /\ Goes(p, "lock")
       /\ unsaved' = IF ok THEN unsaved ELSE unsaved \cup {cfg[p].id}
       /\ UNCHANGED <<cfg, data, why, target, ids, acked, refused>>
    \/ /\ why[p] = "add"            \* handleAddPeer answers
       /\ Goes(p, "idle")
       /\ acked' = IF ok THEN acked \cup {target[p]} ELSE acked
       /\ refused' = IF ok THEN refused ELSE refused \cup {target[p]}
       /\ UNCHANGED <<cfg, data, why, target, ids, unsaved>>

WriteTo_InPlace(p) == entry     \* mutant: config.yaml itself is truncated
\* The file that OpenFile(O_CREATE|O_TRUNC) finds by the name written to.
WriteTo(p) == temp

FreeInode == {i \in Inodes : i \notin {entry, temp} \cup {fd[p] : p \in Procs}}
NewInode == {i \in FreeInode : \A j \in FreeInode : i <= j}

OpenTemp(p) ==
    /\ pc[p] = "open"
    /\ \E i \in IF WriteTo(p) # NoInode THEN {WriteTo(p)} ELSE NewInode :
          /\ temp' = IF WriteTo(p) # NoInode THEN temp ELSE i
          /\ file' = [file EXCEPT ![i] = Blank]
          /\ fd' = [fd EXCEPT ![p] = i]
    /\ Goes(p, "fill")
    /\ UNCHANGED <<entry, local, running, ids, ghosts, bounds>>

\* A longer text written by another process shows behind a shorter one.
Overlaid(old, new) ==
    IF old # Garbled /\ old.peers \subseteq new.peers THEN {new} ELSE {new, Garbled}

FillTemp(p) ==
    /\ pc[p] = "fill"
    /\ \E text \in Overlaid(file[fd[p]], data[p]) : file' = [file EXCEPT ![fd[p]] = text]
    /\ fd' = [fd EXCEPT ![p] = NoInode]
    /\ Goes(p, "rename")
    /\ UNCHANGED <<entry, temp, local, running, ids, ghosts, bounds>>

\* Rename fails when another process has already renamed the temporary file.
RenameTemp(p) ==
    /\ pc[p] = "rename"
    /\ IF temp # NoInode
         THEN entry' = temp /\ temp' = NoInode /\ Returns(p, TRUE)
         ELSE UNCHANGED <<entry, temp>> /\ Returns(p, FALSE)
    /\ UNCHANGED <<file, given, fd, running, ran, bounds>>

AfterFailure_Renames(p) ==  \* mutant: the error of WriteFile is not looked at
    Goes(p, "rename") /\ UNCHANGED <<cfg, data, why, target, ids, acked, refused, unsaved>>
\* write returns the error of WriteFile before it renames.
AfterFailure(p) == Returns(p, FALSE)

\* The file cannot be opened, or the disk is full and a part is written.
WriteFails(p) ==
    /\ pc[p] \in {"open", "fill"}
    /\ scene.faulty
    /\ fails < MaxFails
    /\ fails' = fails + 1
    /\ file' \in IF pc[p] = "open" THEN {file}
                ELSE {[file EXCEPT ![fd[p]] = text] : text \in {Garbled, Blank}}
    /\ fd' = [fd EXCEPT ![p] = NoInode]
    /\ AfterFailure(p)
    /\ UNCHANGED <<entry, temp, given, running, ran, scene, crashes>>

-----------------------------------------------------------------------------
(* The daemon command and AddStaticPeer.                                   *)

\* A command has what it wants.
CommandDone(p) ==
    /\ p \in Commands
    /\ pc[p] = "loaded"
    /\ Goes(p, "idle")
    /\ UNCHANGED <<disk, local, fd, running, ids, ghosts, bounds>>

\* Flags win over the file: a NodeID given with --id takes the place of the loaded one.
Override(d) ==
    /\ d \in Daemons
    /\ pc[d] = "loaded"
    /\ Goes(d, "flags")
    /\ \/ UNCHANGED <<cfg, given>>
       \/ \E id \in Chosen : /\ cfg' = [cfg EXCEPT ![d].id = id]
                             /\ given' = [given EXCEPT ![d] = id]
    /\ UNCHANGED <<disk, data, why, target, fd, running, ids, ghosts, bounds>>

\* --peers: each of them is added, and written, by itself.
FlagPeer(d, t) ==
    /\ d \in Daemons
    /\ pc[d] = "flags"
    /\ t \notin cfg[d].peers
    /\ Writes(d, Text(cfg[d].id, cfg[d].peers \cup {t}), "flag")
    /\ target' = [target EXCEPT ![d] = t]
    /\ UNCHANGED <<disk, given, fd, running, ids, ghosts, bounds>>

\* What the flags have made of the configuration becomes the default.
Save(d) ==
    /\ d \in Daemons
    /\ pc[d] = "flags"
    /\ Writes(d, cfg[d], "save")
    /\ UNCHANGED <<disk, target, given, fd, running, ids, ghosts, bounds>>

\* The lock of the database: a second daemon gives up.
StartRunning(d) ==
    /\ pc[d] = "lock"
    /\ IF running = {}
         THEN /\ running' = {d}
              /\ Goes(d, "run")
              /\ ran' = ran \cup {cfg[d].id}
         ELSE /\ Goes(d, "idle")
              /\ UNCHANGED <<running, ran>>
    /\ UNCHANGED <<disk, local, fd, ids, acked, refused, unsaved, bounds>>

\* handleAddPeer: a peer that is there already is acknowledged at once.
AddPeer(a, d, t) ==
    /\ d \in running
    /\ pc[a] = "idle"
    /\ \/ /\ t \in cfg[d].peers
          /\ acked' = acked \cup {t}
          /\ UNCHANGED <<pc, cfg, target>>
       \/ /\ t \notin cfg[d].peers
          /\ Goes(a, "append")
          /\ cfg' = [cfg EXCEPT ![a] = cfg[d]]
          /\ target' = [target EXCEPT ![a] = t]
          /\ UNCHANGED acked
    /\ UNCHANGED <<disk, data, given, fd, why, running, ids, ran, refused, unsaved, bounds>>

\* append assigns to the slice that was read; two that append to the same slice
\* may even write the same element at once.
Appended(a, t) ==
    {cfg[a].peers \cup {t}}
    \cup (IF \E b \in Adders \ {a} : pc[b] = "append" /\ cfg[b] = cfg[a]
            THEN {cfg[a].peers \cup {Mixed}} ELSE {})

AppendPeer(a, d) ==
    /\ d \in running
    /\ pc[a] = "append"
    /\ \E peers \in Appended(a, target[a]) : cfg' = [cfg EXCEPT ![d].peers = peers]
    /\ Goes(a, "marshal")
    /\ UNCHANGED <<disk, data, given, fd, why, target, running, ids, ghosts, bounds>>

Persisted_Before(a, d) == cfg[a]    \* mutant: what was read before the append
Persisted(a, d) == cfg[d]

MarshalPeers(a, d) ==
    /\ d \in running
    /\ pc[a] = "marshal"
    /\ Writes(a, Persisted(a, d), "add")
    /\ UNCHANGED <<disk, target, given, fd, running, ids, ghosts, bounds>>

-----------------------------------------------------------------------------
\* A daemon ends, with the goroutines of the one that was running.
Crash(d) ==
    LET ended == {d} \cup IF d \in running THEN Adders ELSE {} IN
    /\ d \in Daemons
    /\ pc[d] # "idle"
    /\ crashes < MaxCrashes
    /\ crashes' = crashes + 1
    /\ pc' = [p \in Procs |-> IF p \in ended THEN "idle" ELSE pc[p]]
    /\ fd' = [p \in Procs |-> IF p \in ended THEN NoInode ELSE fd[p]]
    /\ running' = running \ {d}
    /\ UNCHANGED <<disk, local, ids, ghosts, scene, fails>>

Write(p) == OpenTemp(p) \/ FillTemp(p) \/ RenameTemp(p)

Next ==
    \/ \E p \in Procs : Load(p) \/ Write(p) \/ WriteFails(p) \/ CommandDone(p)
    \/ \E d \in Daemons : \/ Override(d) \/ Save(d) \/ StartRunning(d) \/ Crash(d)
                          \/ \E t \in Targets : FlagPeer(d, t)
    \/ \E a \in Adders, d \in Daemons :
           \/ AppendPeer(a, d) \/ MarshalPeers(a, d)
           \/ \E t \in Targets : AddPeer(a, d, t)

Spec == Init /\ [][Next]_vars

-----------------------------------------------------------------------------
Current == IF entry = NoInode THEN Blank ELSE file[entry]

\* The NodeIDs that daemons on this file were given in their last start.
Given == {given[d] : d \in Daemons} \ {NoId}

\* config.go:22-24, README.md:246: the NodeID survives restarts unless the user gives
\* another: of the generated NodeIDs only one is ever run under, wherever an earlier
\* start was interrupted, and the one that runs, given or not, is there for the next
\* start, or was reported not to have been saved.
IdentityKept ==
    /\ Cardinality(ran \ Chosen) <= 1
    /\ \A d \in running : \/ cfg[d].id \in unsaved
                           \/ (Current # Garbled /\ Current.id = cfg[d].id)

\* What config.yaml says stays there, whichever process writes next, fails to or
\* crashes: it is readable at all times, it loses no peer, and another NodeID takes
\* the place of the one it has only when a daemon was given that other with --id.
NothingLost ==
    [][Current # Garbled
         => /\ Current' # Garbled
            /\ (Current.id \in {NoId, Current'.id} \/ Current'.id \in Given)
            /\ Current.peers \subseteq Current'.peers]_vars

\* README.md:380: what --add has acknowledged is in config.yaml from then on,
\* unless an earlier attempt at the same peer, by --add or by --peers, was
\* reported to have failed.
AddedIsPersisted == \A t \in acked \ refused : Current # Garbled /\ t \in Current.peers

\* server.go:327: an acknowledged peer has been persisted to config.
AcknowledgedIsPersisted == \A t \in acked : Current # Garbled /\ t \in Current.peers

\* config.go:261: write replaces the file atomically: config.yaml changes by
\* being renamed onto, never in place.
WrittenAtomically == [][entry # NoInode /\ entry' = entry => file'[entry] = file[entry]]_vars

=============================================================================
