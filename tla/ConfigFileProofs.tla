-------------------------- MODULE ConfigFileProofs --------------------------
(* Proofs about ConfigFile for every set of commands and targets, every      *)
(* number of NodeIDs, crashes and failures, and one daemon that serves one   *)
(* --add at a time, which is where the file is meant to be safe.             *)
EXTENDS ConfigFile, FiniteSetTheorems, TLAPS

USE ConfigAssumption, TextAssumption

-----------------------------------------------------------------------------
(* Texts.                                                                   *)

\* What Text makes is a text with the given NodeID and peers.
LEMMA TextTyped ==
    ASSUME NEW id \in NodeIds, NEW peers \in SUBSET (Targets \cup {Mixed})
    PROVE  Text(id, peers) \in Texts /\ Text(id, peers).id = id /\ Text(id, peers).peers = peers
BY DEF Text, Texts

\* The fields of a text; no text is garbled.
LEMMA TextHas ==
    ASSUME NEW t \in Texts
    PROVE  t.id \in NodeIds /\ t.peers \in SUBSET (Targets \cup {Mixed}) /\ t # Garbled
BY DEF Texts

\* A text with other peers is a text with the same NodeID.
LEMMA PeersReplaced ==
    ASSUME NEW t \in Texts, NEW peers \in SUBSET (Targets \cup {Mixed})
    PROVE  /\ [t EXCEPT !.peers = peers] \in Texts
           /\ [t EXCEPT !.peers = peers].id = t.id
           /\ [t EXCEPT !.peers = peers].peers = peers
BY DEF Texts

\* A text with a NodeID that was given is a text with the same peers.
LEMMA IdReplaced ==
    ASSUME NEW t \in Texts, NEW id \in Chosen
    PROVE  /\ [t EXCEPT !.id = id] \in Texts
           /\ [t EXCEPT !.id = id].id = id
           /\ [t EXCEPT !.id = id].peers = t.peers
<1>1. id \in NodeIds
  BY DEF NodeIds
<1> QED
  BY <1>1 DEF Texts

\* The empty text has no NodeID and no peers.
LEMMA BlankIs == Blank \in Texts /\ Blank.id = NoId /\ Blank.peers = {} /\ Blank # Garbled
<1>1. 0 \in NodeIds /\ NoId = 0
  BY DEF NoId, NodeIds
<1> QED
  BY <1>1, TextTyped, TextHas DEF Blank

\* The NodeIDs made and those a user gives; none of the latter is NoId or made.
LEMMA NodeIdsAre ==
    /\ 0..MaxIds \subseteq NodeIds /\ Chosen \subseteq NodeIds
    /\ NoId \notin Chosen /\ NoId \in NodeIds
BY DEF NodeIds, NoId

\* The text new says all that old says, but for a NodeID that was given.
Keeps(old, new) ==
    /\ old.id \in {NoId, new.id} \/ new.id \in Given
    /\ old.peers \subseteq new.peers

\* Saying all of it is reflexive and transitive.
LEMMA KeepsOrder ==
    /\ \A t : Keeps(t, t)
    /\ \A t, u, v : Keeps(t, u) /\ Keeps(u, v) => Keeps(t, v)
BY DEF Keeps, Given

-----------------------------------------------------------------------------
(* Types.                                                                   *)

BaseType ==
    /\ entry \in Inodes \cup {NoInode} /\ temp \in Inodes \cup {NoInode}
    /\ file \in [Inodes -> Texts \cup {Garbled}]
    /\ pc \in [Procs -> Pcs]
    /\ cfg \in [Procs -> Texts] /\ data \in [Procs -> Texts]
    /\ fd \in [Procs -> Inodes \cup {NoInode}]
    /\ why \in [Procs -> {"defaults", "identify", "flag", "save", "add"}]
    /\ target \in [Procs -> Targets]
    /\ given \in [Procs -> Chosen \cup {NoId}]
    /\ running \subseteq Daemons
    /\ ids \in 0..MaxIds
    /\ ran \subseteq NodeIds /\ unsaved \subseteq NodeIds
    /\ acked \subseteq Targets /\ refused \subseteq Targets
    /\ scene \in Scenes
    /\ fails \in 0..MaxFails /\ crashes \in 0..MaxCrashes

\* The variables that a process has to itself.
LocalType ==
    /\ pc \in [Procs -> Pcs]
    /\ cfg \in [Procs -> Texts] /\ data \in [Procs -> Texts]
    /\ why \in [Procs -> {"defaults", "identify", "flag", "save", "add"}]
    /\ target \in [Procs -> Targets]

\* A process that goes elsewhere is at some step.
LEMMA GoesTyped ==
    ASSUME BaseType, NEW p \in Procs, NEW to \in Pcs, Goes(p, to)
    PROVE  pc' \in [Procs -> Pcs]
BY DEF BaseType, Goes

\* A process that sets out to write keeps the types.
LEMMA WritesTyped ==
    ASSUME BaseType, NEW p \in Procs, NEW text \in Texts,
           NEW w \in {"defaults", "identify", "flag", "save", "add"}, Writes(p, text, w),
           target' \in [Procs -> Targets]
    PROVE  LocalType'
<1>1. pc' \in [Procs -> Pcs]
  BY GoesTyped DEF Writes, Pcs
<1> QED
  BY <1>1 DEF Writes, BaseType, LocalType

\* So does one that makes a NodeID.
LEMMA IdentifyTyped ==
    ASSUME BaseType, NEW p \in Procs, NEW peers \in SUBSET (Targets \cup {Mixed}),
           Identify(p, peers)
    PROVE  LocalType' /\ ids' \in 0..MaxIds
<1>1. ids' = ids + 1 /\ ids + 1 \in 0..MaxIds
  BY DEF Identify, BaseType
<1>2. Text(ids + 1, peers) \in Texts
  BY <1>1, NodeIdsAre, TextTyped
<1> QED
  BY <1>1, <1>2, WritesTyped DEF Identify, BaseType

\* So does one whose write has returned.
LEMMA ReturnsTyped ==
    ASSUME BaseType, NEW p \in Procs, NEW ok \in BOOLEAN, Returns(p, ok)
    PROVE  /\ LocalType' /\ ids' \in 0..MaxIds
           /\ acked' \subseteq Targets /\ refused' \subseteq Targets /\ unsaved' \subseteq NodeIds
<1>1. ASSUME Identify(p, cfg[p].peers) PROVE LocalType' /\ ids' \in 0..MaxIds
  <2>1. cfg[p] \in Texts
    BY DEF BaseType
  <2>2. cfg[p].peers \in SUBSET (Targets \cup {Mixed})
    BY <2>1, TextHas
  <2> QED
    BY <1>1, <2>2, IdentifyTyped DEF BaseType
<1>2. ASSUME NEW to \in {"loaded", "flags", "lock", "idle"}, Goes(p, to),
             UNCHANGED <<cfg, data, why, target, ids>>
      PROVE  LocalType' /\ ids' \in 0..MaxIds
  <2>1. pc' \in [Procs -> Pcs]
    BY <1>2, GoesTyped DEF Pcs
  <2> QED
    BY <1>2, <2>1 DEF LocalType, BaseType
<1>3. acked' \subseteq Targets /\ refused' \subseteq Targets /\ unsaved' \subseteq NodeIds
  <2>1. target[p] \in Targets /\ cfg[p] \in Texts
    BY DEF BaseType
  <2>2. cfg[p].id \in NodeIds
    BY <2>1, TextHas
  <2>3. acked' \subseteq Targets /\ refused' \subseteq Targets
    BY <2>1 DEF Returns, BaseType
  <2>4. unsaved' = unsaved \/ unsaved' = unsaved \cup {cfg[p].id}
    BY DEF Returns
  <2> QED
    BY <2>2, <2>3, <2>4 DEF BaseType
<1> QED
  BY <1>1, <1>2, <1>3 DEF Returns

\* The initial state has the right types.
LEMMA BaseTypeInit == Init => BaseType
<1> SUFFICES ASSUME Init PROVE BaseType
  OBVIOUS
<1>1. ids \in 0..MaxIds /\ 1 \in Inodes /\ NoInode = 0
  BY DEF Init, Inodes, NoInode
<1>2. Text(ids, {}) \in Texts
  BY <1>1, NodeIdsAre, TextTyped
<1>3. (CHOOSE t \in Targets : TRUE) \in Targets
  OBVIOUS
<1>4. /\ file \in [Inodes -> Texts \cup {Garbled}]
      /\ target \in [Procs -> Targets]
      /\ cfg \in [Procs -> Texts] /\ data \in [Procs -> Texts]
  BY <1>2, <1>3, BlankIs DEF Init
<1> QED
  BY <1>1, <1>4 DEF Init, BaseType, Pcs

\* Every step keeps the types.
LEMMA BaseTypeStep == BaseType /\ [Next]_vars => BaseType'
<1> SUFFICES ASSUME BaseType, [Next]_vars PROVE BaseType'
  OBVIOUS
<1> USE DEF disk, local, ghosts, bounds
<1>a. \A p \in Procs : cfg[p] \in Texts /\ data[p] \in Texts /\ target[p] \in Targets
  BY DEF BaseType
<1>1. ASSUME NEW p \in Procs, Load(p) PROVE BaseType'
  <2>1. LocalType' /\ ids' \in 0..MaxIds
    <3>1. CASE Writes(p, Blank, "defaults") /\ UNCHANGED <<target, ids>>
      BY <3>1, BlankIs, WritesTyped DEF BaseType
    <3>2. ASSUME entry # NoInode, NEW text \in Readings(file[entry]),
                 IF text.id = NoId THEN Identify(p, text.peers)
                 ELSE /\ Goes(p, "loaded")
                      /\ cfg' = [cfg EXCEPT ![p] = text]
                      /\ UNCHANGED <<data, why, target, ids>>
          PROVE  LocalType' /\ ids' \in 0..MaxIds
      <4>1. file[entry] \in Texts \cup {Garbled}
        BY <3>2 DEF BaseType
      <4>2. text \in Texts
        BY <4>1 DEF Readings
      <4>3. CASE text.id = NoId
        BY <3>2, <4>2, <4>3, TextHas, IdentifyTyped
      <4>4. CASE text.id # NoId
        <5>1. pc' \in [Procs -> Pcs]
          BY <3>2, <4>4, GoesTyped DEF Pcs
        <5> QED
          BY <3>2, <4>2, <4>4, <5>1 DEF LocalType, BaseType
      <4> QED
        BY <4>3, <4>4
    <3> QED
      BY <1>1, <3>1, <3>2 DEF Load
  <2> QED
    BY <1>1, <2>1 DEF Load, LocalType, BaseType
<1>2. ASSUME NEW p \in Procs, OpenTemp(p) PROVE BaseType'
  <2>1. PICK i \in Inodes : /\ temp' = IF temp # NoInode THEN temp ELSE i
                            /\ file' = [file EXCEPT ![i] = Blank]
                            /\ fd' = [fd EXCEPT ![p] = i]
    BY <1>2 DEF OpenTemp, WriteTo, NewInode, FreeInode, BaseType
  <2>2. pc' \in [Procs -> Pcs]
    BY <1>2, GoesTyped DEF OpenTemp, Pcs
  <2>3. file' \in [Inodes -> Texts \cup {Garbled}]
    BY <2>1, BlankIs DEF BaseType
  <2> QED
    BY <1>2, <2>1, <2>2, <2>3 DEF OpenTemp, BaseType
<1>3. ASSUME NEW p \in Procs, FillTemp(p) PROVE BaseType'
  <2>1. file' \in [Inodes -> Texts \cup {Garbled}]
    <3>1. PICK text \in Overlaid(file[fd[p]], data[p]) : file' = [file EXCEPT ![fd[p]] = text]
      BY <1>3 DEF FillTemp
    <3>2. text \in Texts \cup {Garbled}
      BY <1>a, <3>1 DEF Overlaid
    <3> QED
      BY <3>1, <3>2 DEF BaseType
  <2>2. pc' \in [Procs -> Pcs]
    BY <1>3, GoesTyped DEF FillTemp, Pcs
  <2> QED
    BY <1>3, <2>1, <2>2 DEF FillTemp, BaseType
<1>4. ASSUME NEW p \in Procs, RenameTemp(p) PROVE BaseType'
  <2>1. PICK ok \in BOOLEAN : Returns(p, ok)
    BY <1>4 DEF RenameTemp
  <2>2. /\ LocalType' /\ ids' \in 0..MaxIds
        /\ acked' \subseteq Targets /\ refused' \subseteq Targets /\ unsaved' \subseteq NodeIds
    BY <2>1, ReturnsTyped
  <2> QED
    BY <1>4, <2>2 DEF RenameTemp, LocalType, BaseType
<1>5. ASSUME NEW p \in Procs, WriteFails(p) PROVE BaseType'
  <2>1. /\ LocalType' /\ ids' \in 0..MaxIds
        /\ acked' \subseteq Targets /\ refused' \subseteq Targets /\ unsaved' \subseteq NodeIds
    BY <1>5, ReturnsTyped DEF WriteFails, AfterFailure
  <2>2. file' \in [Inodes -> Texts \cup {Garbled}]
    BY <1>5, BlankIs DEF WriteFails, BaseType
  <2>3. fails' \in 0..MaxFails
    BY <1>5 DEF WriteFails, BaseType
  <2> QED
    BY <1>5, <2>1, <2>2, <2>3 DEF WriteFails, LocalType, BaseType
<1>6. ASSUME NEW p \in Procs, CommandDone(p) PROVE BaseType'
  BY <1>6, GoesTyped DEF CommandDone, Pcs, BaseType
<1>7. ASSUME NEW d \in Daemons, Save(d) \/ \E t \in Targets : FlagPeer(d, t) PROVE BaseType'
  <2>1. d \in Procs
    BY DEF Procs
  <2>2. PICK text \in Texts, w \in {"flag", "save"} : Writes(d, text, w)
    <3>1. ASSUME NEW t \in Targets
          PROVE  Text(cfg[d].id, cfg[d].peers \cup {t}) \in Texts
      BY <1>a, <2>1, TextHas, TextTyped
    <3> QED
      BY <1>7, <1>a, <2>1, <3>1 DEF Save, FlagPeer
  <2>3. target' \in [Procs -> Targets]
    <3>1. target \in [Procs -> Targets]
      BY DEF BaseType
    <3>2. CASE Save(d)
      BY <3>1, <3>2 DEF Save
    <3>3. ASSUME NEW t \in Targets, FlagPeer(d, t) PROVE target' \in [Procs -> Targets]
      BY <2>1, <3>1, <3>3 DEF FlagPeer
    <3> QED
      BY <1>7, <3>2, <3>3
  <2>4. LocalType'
    BY <2>1, <2>2, <2>3, WritesTyped
  <2> QED
    BY <1>7, <2>4 DEF Save, FlagPeer, LocalType, BaseType
<1>8. ASSUME NEW d \in Daemons, StartRunning(d) PROVE BaseType'
  <2>1. d \in Procs
    BY DEF Procs
  <2>2. pc' \in [Procs -> Pcs]
    BY <1>8, <2>1, GoesTyped DEF StartRunning, Pcs
  <2>3. cfg[d].id \in NodeIds
    BY <1>a, <2>1, TextHas
  <2> QED
    BY <1>8, <2>1, <2>2, <2>3 DEF StartRunning, BaseType
<1>9. ASSUME NEW d \in Daemons, Crash(d) PROVE BaseType'
  BY <1>9 DEF Crash, Pcs, BaseType
<1>10. ASSUME NEW a \in Adders, NEW d \in Daemons, NEW t \in Targets, AddPeer(a, d, t)
       PROVE  BaseType'
  <2>1. a \in Procs /\ d \in Procs
    BY DEF Procs
  <2>2. LocalType'
    <3>1. CASE UNCHANGED <<pc, cfg, target>>
      BY <1>10, <3>1 DEF AddPeer, LocalType, BaseType
    <3>2. CASE /\ Goes(a, "append") /\ cfg' = [cfg EXCEPT ![a] = cfg[d]]
               /\ target' = [target EXCEPT ![a] = t]
      <4>1. pc' \in [Procs -> Pcs]
        BY <2>1, <3>2, GoesTyped DEF Pcs
      <4>2. cfg' \in [Procs -> Texts] /\ target' \in [Procs -> Targets]
        BY <1>a, <2>1, <3>2 DEF BaseType
      <4> QED
        BY <1>10, <4>1, <4>2 DEF AddPeer, LocalType, BaseType
    <3> QED
      BY <1>10, <3>1, <3>2 DEF AddPeer
  <2> QED
    BY <1>10, <2>2 DEF AddPeer, LocalType, BaseType
<1>11. ASSUME NEW a \in Adders, NEW d \in Daemons, AppendPeer(a, d) PROVE BaseType'
  <2>1. a \in Procs /\ d \in Procs
    BY DEF Procs
  <2>2. PICK peers \in Appended(a, target[a]) : cfg' = [cfg EXCEPT ![d].peers = peers]
    BY <1>11 DEF AppendPeer
  <2>3. peers \in SUBSET (Targets \cup {Mixed})
    BY <1>a, <2>1, TextHas DEF Appended
  <2>4. [cfg[d] EXCEPT !.peers = peers] \in Texts
    BY <1>a, <2>1, <2>3, PeersReplaced
  <2>5. cfg' \in [Procs -> Texts]
    BY <2>2, <2>4 DEF BaseType
  <2>6. pc' \in [Procs -> Pcs]
    BY <1>11, <2>1, GoesTyped DEF AppendPeer, Pcs
  <2> QED
    BY <1>11, <2>5, <2>6 DEF AppendPeer, BaseType
<1>12. ASSUME NEW a \in Adders, NEW d \in Daemons, MarshalPeers(a, d) PROVE BaseType'
  <2>1. a \in Procs /\ d \in Procs
    BY DEF Procs
  <2>2. LocalType'
    BY <1>12, <1>a, <2>1, WritesTyped DEF MarshalPeers, Persisted, BaseType
  <2> QED
    BY <1>12, <2>2 DEF MarshalPeers, LocalType, BaseType
<1>13. ASSUME NEW d \in Daemons, Override(d) PROVE BaseType'
  <2>1. d \in Procs
    BY DEF Procs
  <2>2. pc' \in [Procs -> Pcs]
    BY <1>13, <2>1, GoesTyped DEF Override, Pcs
  <2>3. cfg' \in [Procs -> Texts] /\ given' \in [Procs -> Chosen \cup {NoId}]
    <3>1. CASE UNCHANGED <<cfg, given>>
      BY <3>1 DEF BaseType
    <3>2. ASSUME NEW id \in Chosen, cfg' = [cfg EXCEPT ![d].id = id],
                 given' = [given EXCEPT ![d] = id]
          PROVE  cfg' \in [Procs -> Texts] /\ given' \in [Procs -> Chosen \cup {NoId}]
      <4>1. [cfg[d] EXCEPT !.id = id] \in Texts
        BY <1>a, <2>1, IdReplaced
      <4> QED
        BY <3>2, <4>1 DEF BaseType
    <3> QED
      BY <1>13, <3>1, <3>2 DEF Override
  <2> QED
    BY <1>13, <2>2, <2>3 DEF Override, BaseType
<1>14. CASE UNCHANGED vars
  BY <1>14 DEF vars, BaseType
<1> QED
  BY <1>1, <1>2, <1>3, <1>4, <1>5, <1>6, <1>7, <1>8, <1>9, <1>10, <1>11, <1>12, <1>13, <1>14
     DEF Next, Write

-----------------------------------------------------------------------------
(* One daemon, one --add at a time, and neither commands nor failures before *)
(* the file has a NodeID.  Then there is one writer at a time: the daemon as *)
(* it starts, and the goroutine that serves the --add once it runs.  What    *)
(* that writer has in hand says all that the file says, so that each rename  *)
(* adds to it, and what is in memory is never behind what is on disk.        *)

OneAtATime ==
    /\ \A d, e \in Daemons : d = e
    /\ \A a, b \in Adders : a = b
    /\ \A s \in Scenes : s.file # "identified" => ~s.commands /\ ~s.faulty

Writing == {"open", "fill", "rename"}

\* The temporary file is not config.yaml, and config.yaml is whole.
Disk == (temp # NoInode => temp # entry) /\ Current # Garbled

\* A descriptor is open only to fill the temporary file.
Descriptors ==
    \A p \in Procs :
        /\ fd[p] # NoInode => pc[p] = "fill"
        /\ pc[p] = "fill" => fd[p] = temp /\ temp # NoInode /\ file[temp] = Blank
        /\ pc[p] = "rename" => temp # NoInode /\ file[temp] = data[p]

\* Commands do not write, and adders only do while a daemon runs.
Control ==
    /\ \A c \in Commands : pc[c] \in {"idle", "loaded"}
    /\ \A d \in Daemons : /\ pc[d] = "run" <=> d \in running
                          /\ pc[d] \notin {"append", "marshal"}
    /\ \A a \in Adders : /\ pc[a] \in {"idle", "append", "marshal"} \cup Writing
                         /\ pc[a] # "idle" => running # {}

\* What is written is the configuration of the daemon.
Purposes ==
    /\ \A d \in Daemons : pc[d] \in Writing => why[d] # "add" /\ data[d] = cfg[d]
    /\ \A a \in Adders, d \in running :
           /\ pc[a] = "append" => cfg[a] = cfg[d]
           /\ pc[a] \in Writing => why[a] = "add" /\ data[a] = cfg[d]

\* The daemon knows all that the file says, and has a NodeID but for a moment.
Knows ==
    \A d \in Daemons : pc[d] # "idle" =>
        /\ Keeps(Current, cfg[d])
        /\ cfg[d].id = NoId <=> pc[d] \in Writing /\ why[d] = "defaults"

\* The NodeID a daemon runs under is that of the file, or was reported not to have
\* been saved; the one made NodeID that any ran under is that of the file until
\* a given one takes its place there.
Identified ==
    /\ scene.file = "identified" => Current.id # NoId
    /\ \A d \in Daemons : pc[d] \in {"lock", "run"}
          => Current.id # NoId /\ (Current.id = cfg[d].id \/ cfg[d].id \in unsaved)
    /\ Current.id \notin Chosen => ran \ Chosen \subseteq {Current.id}
    /\ \A i, j \in ran \ Chosen : i = j
    /\ NoId \notin ran /\ NoId \notin unsaved

Safe == Disk /\ Descriptors /\ Control /\ Purposes /\ Knows /\ Identified

SInv == BaseType /\ Safe

\* What config.yaml says is a text, blank when there is no file.
LEMMA CurrentIs ==
    ASSUME BaseType, Disk
    PROVE  /\ Current \in Texts /\ (entry = NoInode => Current = Blank)
           /\ entry # NoInode => entry \in Inodes /\ Current = file[entry]
BY BlankIs DEF BaseType, Disk, Current

\* While the daemon is not running nobody else writes.
LEMMA DaemonAlone ==
    ASSUME OneAtATime, SInv, NEW d \in Daemons, pc[d] # "run"
    PROVE  /\ running = {}
           /\ \A a \in Adders : pc[a] = "idle"
           /\ \A q \in Procs \ {d} : pc[q] \notin Writing /\ fd[q] = NoInode
<1>1. running = {}
  BY DEF OneAtATime, SInv, BaseType, Safe, Control
<1>2. \A a \in Adders : pc[a] = "idle"
  BY <1>1 DEF SInv, Safe, Control
<1>3. ASSUME NEW q \in Procs \ {d} PROVE pc[q] \notin Writing
  <2>1. q \in Commands \/ q \in Adders
    BY DEF OneAtATime, Procs
  <2> QED
    BY <1>2, <2>1 DEF SInv, Safe, Control, Writing
<1>4. \A q \in Procs \ {d} : fd[q] = NoInode
  BY <1>3 DEF SInv, Safe, Descriptors, Writing
<1> QED
  BY <1>1, <1>2, <1>3, <1>4

\* While an --add is served nobody else writes, and it is the daemon's.
LEMMA AdderAlone ==
    ASSUME OneAtATime, SInv, NEW a \in Adders, pc[a] # "idle"
    PROVE  /\ \E d \in Daemons : running = {d} /\ pc[d] = "run"
           /\ \A q \in Procs \ {a} : pc[q] \notin Writing /\ fd[q] = NoInode
<1>1. PICK d \in Daemons : d \in running
  BY DEF SInv, BaseType, Safe, Control
<1>2. running = {d} /\ pc[d] = "run"
  BY <1>1 DEF OneAtATime, SInv, BaseType, Safe, Control
<1>3. ASSUME NEW q \in Procs \ {a} PROVE pc[q] \notin Writing
  <2>1. q \in Commands \/ q = d
    BY DEF OneAtATime, Procs
  <2> QED
    BY <1>2, <2>1 DEF SInv, Safe, Control, Writing
<1>4. \A q \in Procs \ {a} : fd[q] = NoInode
  BY <1>3 DEF SInv, Safe, Descriptors, Writing
<1> QED
  BY <1>2, <1>3, <1>4

\* There is one writer at a time, and it is no command.
LEMMA OneWriter ==
    ASSUME OneAtATime, SInv, NEW p \in Procs, pc[p] \in Writing
    PROVE  /\ p \in Daemons \cup Adders
           /\ \A q \in Procs \ {p} : pc[q] \notin Writing /\ fd[q] = NoInode
<1>1. p \notin Commands
  BY DEF SInv, Safe, Control, Writing
<1>2. CASE p \in Daemons
  BY <1>2, DaemonAlone DEF Writing
<1>3. CASE p \in Adders
  BY <1>3, AdderAlone DEF Writing
<1> QED
  BY <1>1, <1>2, <1>3 DEF Procs

\* NodeIDs that are given are among those a user may give.
LEMMA GivenChosen == BaseType => Given \subseteq Chosen
BY DEF BaseType, Given, Procs

\* A file that says more than before keeps the NodeIDs daemons have run under.
LEMMA RanKept ==
    ASSUME BaseType, Identified, Keeps(Current, Current'), UNCHANGED <<ran, scene>>
    PROVE  /\ Current'.id \notin Chosen => ran' \ Chosen \subseteq {Current'.id}
           /\ \A i, j \in ran' \ Chosen : i = j
           /\ NoId \notin ran'
           /\ scene'.file = "identified" => Current'.id # NoId
           /\ Current.id # NoId => Current'.id # NoId
<1>1. Given \subseteq Chosen /\ NoId \notin Chosen
  BY GivenChosen, NodeIdsAre
<1>2. Current.id \in {NoId, Current'.id} \/ Current'.id \in Chosen
  BY <1>1 DEF Keeps
<1>3. Current.id # NoId => Current'.id # NoId
  BY <1>1, <1>2
<1>4. Current'.id \notin Chosen => ran \ Chosen \subseteq {Current'.id}
  BY <1>1, <1>2 DEF Identified
<1> QED
  BY <1>3, <1>4 DEF Identified

\* The daemon sets out to write: whatever it is for, its text says all.
LEMMA DaemonWrites ==
    ASSUME OneAtATime, SInv, NEW p \in Daemons, pc[p] \notin {"run", "fill"},
           NEW text \in Texts, NEW w \in {"defaults", "identify", "flag", "save"},
           Writes(p, text, w), UNCHANGED <<fd, running, scene, ran, unsaved>>,
           Disk', Keeps(Current, Current'), Keeps(Current, text)',
           text.id = NoId <=> w = "defaults"
    PROVE  Safe'
<1> USE DEF SInv, Safe, BaseType
<1>0. p \in Procs /\ (\A d \in Daemons : d = p) /\ p \notin Commands /\ p \notin Adders
  BY DEF OneAtATime, Procs
<1>1. /\ running = {} /\ \A a \in Adders : pc[a] = "idle"
      /\ \A q \in Procs \ {p} : pc[q] \notin Writing /\ fd[q] = NoInode
  BY DaemonAlone
<1>2. /\ pc'[p] = "open" /\ cfg'[p] = text /\ data'[p] = text /\ why'[p] = w
      /\ \A q \in Procs \ {p} : pc'[q] = pc[q]
  BY <1>0 DEF Writes, Goes
<1>3. Descriptors'
  BY <1>0, <1>1, <1>2 DEF Descriptors, Writing
<1>4. Control'
  BY <1>0, <1>1, <1>2 DEF Control, Procs
<1>5. Purposes'
  BY <1>0, <1>1, <1>2 DEF Purposes
<1>6. Knows'
  <2>1. Keeps(Current, cfg[p])'
    BY <1>2 DEF Keeps
  <2> QED
    BY <1>0, <1>2, <2>1 DEF Knows, Writing
<1>7. Identified'
  BY <1>0, <1>2, RanKept DEF Identified
<1> QED
  BY <1>3, <1>4, <1>5, <1>6, <1>7

\* The daemon gets on after a write: it knows all that the file says.
LEMMA DaemonGetsOn ==
    ASSUME OneAtATime, SInv, NEW p \in Daemons, pc[p] # "run",
           NEW to \in {"loaded", "flags", "lock"}, Goes(p, to),
           fd'[p] = NoInode, \A q \in Procs \ {p} : fd'[q] = fd[q],
           UNCHANGED <<running, scene, ran>>, NoId \notin unsaved',
           Disk', Keeps(Current, Current'), Keeps(Current, cfg[p])', cfg'[p].id # NoId,
           to = "lock" => Current'.id # NoId /\ (Current'.id = cfg'[p].id \/ cfg'[p].id \in unsaved')
    PROVE  Safe'
<1> USE DEF SInv, Safe, BaseType
<1>0. p \in Procs /\ (\A d \in Daemons : d = p) /\ p \notin Commands /\ p \notin Adders
  BY DEF OneAtATime, Procs
<1>1. /\ running = {} /\ \A a \in Adders : pc[a] = "idle"
      /\ \A q \in Procs \ {p} : pc[q] \notin Writing /\ fd[q] = NoInode
  BY DaemonAlone
<1>2. pc'[p] = to /\ \A q \in Procs \ {p} : pc'[q] = pc[q]
  BY <1>0 DEF Goes
<1>3. Descriptors'
  BY <1>0, <1>1, <1>2 DEF Descriptors, Writing
<1>4. Control'
  BY <1>0, <1>1, <1>2 DEF Control, Procs
<1>5. Purposes'
  BY <1>0, <1>1, <1>2 DEF Purposes, Writing
<1>6. Knows'
  BY <1>0, <1>2 DEF Knows, Writing
<1>7. Identified'
  BY <1>0, <1>2, RanKept DEF Identified
<1> QED
  BY <1>3, <1>4, <1>5, <1>6, <1>7

\* The initial state is safe.
LEMMA SafeInit == Init => Safe
<1> SUFFICES ASSUME Init PROVE Safe
  OBVIOUS
<1>1. ids \in 0..MaxIds /\ 1 \in Inodes
  BY DEF Init, Inodes
<1>2. Text(ids, {}) \in Texts /\ Text(ids, {}).id = ids
  BY <1>1, NodeIdsAre, TextTyped
<1>3. Current # Garbled /\ (scene.file = "identified" => Current.id # NoId)
  BY <1>1, <1>2, BlankIs, TextHas DEF Init, Current, NoId, NoInode
<1>4. \A p \in Procs : pc[p] = "idle" /\ fd[p] = NoInode
  BY DEF Init
<1>5. temp = NoInode /\ running = {} /\ ran = {} /\ unsaved = {}
  BY DEF Init
<1>6. Disk /\ Descriptors
  BY <1>3, <1>4, <1>5 DEF Disk, Descriptors
<1>7. Control
  BY <1>4, <1>5 DEF Control, Procs
<1>8. Purposes /\ Knows /\ Identified
  BY <1>3, <1>4, <1>5 DEF Purposes, Knows, Identified, Writing, Procs
<1> QED
  BY <1>6, <1>7, <1>8 DEF Safe

\* Load: what is read is what the file says; commands find a NodeID there.
LEMMA LoadStep ==
    ASSUME OneAtATime, SInv, NEW p \in Procs, Load(p)
    PROVE  Safe'
<1> USE DEF SInv, Safe, disk, ghosts, bounds
<1>1. /\ pc[p] = "idle" /\ UNCHANGED <<entry, temp, file, fd, running, scene, ran, unsaved>>
      /\ given' = [given EXCEPT ![p] = NoId]
  BY DEF Load
<1>2. Current' = Current /\ Disk'
  BY <1>1 DEF Current, Disk
<1>3. /\ Current \in Texts /\ (entry = NoInode => Current = Blank)
      /\ entry # NoInode => Current = file[entry] /\ Readings(file[entry]) = {Current}
  BY CurrentIs, TextHas DEF Readings
<1>4. CASE p \in Commands
  <2>1. Current.id # NoId
    <3>1. scene.file = "identified"
      BY <1>4 DEF Load, OneAtATime, BaseType
    <3> QED
      BY <3>1 DEF Identified
  <2>2. entry # NoInode
    BY <1>3, <2>1, BlankIs
  <2>3. Goes(p, "loaded") /\ cfg' = [cfg EXCEPT ![p] = Current] /\ UNCHANGED <<data, why, target>>
    BY <1>3, <2>1, <2>2 DEF Load
  <2>4. p \notin Daemons /\ p \notin Adders /\ \A q \in Procs \ {p} : pc'[q] = pc[q] /\ cfg'[q] = cfg[q]
    BY <1>4, <2>3 DEF Goes, BaseType
  <2>5. pc'[p] = "loaded"
    BY <2>3 DEF Goes, BaseType
  <2>6. (\A d \in Daemons : d \in Procs \ {p}) /\ (\A a \in Adders : a \in Procs \ {p})
    BY <2>4 DEF Procs
  <2>7. Descriptors'
    BY <1>1, <2>3, <2>4, <2>5 DEF Descriptors
  <2>8. Control'
    BY <1>1, <2>4, <2>5, <2>6 DEF Control, Procs
  <2>9. Purposes'
    BY <1>1, <2>3, <2>4, <2>6 DEF Purposes, BaseType
  <2>10. Knows'
    <3>1. Given' = Given
      BY <1>1, <2>6 DEF Given, BaseType
    <3> QED
      BY <1>2, <2>3, <2>4, <2>6, <3>1 DEF Knows, Keeps
  <2>11. Identified'
    BY <1>1, <1>2, <2>4, <2>6 DEF Identified
  <2> QED
    BY <1>2, <2>7, <2>8, <2>9, <2>10, <2>11
<1>5. CASE p \in Daemons
  <2>1. CASE entry = NoInode
    <3>1. Writes(p, Blank, "defaults")
      BY <1>5, <2>1 DEF Load
    <3>2. Keeps(Current, Blank)'
      BY <1>2, <1>3, <2>1 DEF Keeps, Blank
    <3> QED
      BY <1>1, <1>2, <1>3, <1>5, <3>1, <3>2, BlankIs, KeepsOrder, DaemonWrites
  <2>2. CASE entry # NoInode /\ Current.id = NoId
    <3>1. Identify(p, Current.peers)
      BY <1>3, <1>5, <2>2 DEF Load
    <3>2. ids + 1 \in 0..MaxIds /\ ids + 1 # NoId
      BY <3>1 DEF Identify, BaseType, NoId
    <3>3. PICK text \in Texts : /\ text = Text(ids + 1, Current.peers)
                                /\ text.id = ids + 1 /\ text.peers = Current.peers
      BY <1>3, <3>2, NodeIdsAre, TextHas, TextTyped
    <3>4. Writes(p, text, "identify")
      BY <3>1, <3>3 DEF Identify
    <3>5. Keeps(Current, text)' /\ Keeps(Current, Current')
      BY <1>2, <2>2, <3>3 DEF Keeps
    <3> QED
      BY <1>1, <1>2, <1>5, <3>2, <3>3, <3>4, <3>5, DaemonWrites
  <2>3. CASE entry # NoInode /\ Current.id # NoId
    <3>1. Goes(p, "loaded") /\ cfg' = [cfg EXCEPT ![p] = Current]
      BY <1>3, <1>5, <2>3 DEF Load
    <3>2. cfg'[p] = Current
      BY <3>1 DEF BaseType
    <3>3. fd'[p] = NoInode /\ \A q \in Procs \ {p} : fd'[q] = fd[q]
      BY <1>1 DEF Descriptors
    <3>4. Keeps(Current, cfg[p])' /\ Keeps(Current, Current')
      BY <1>2, <3>2 DEF Keeps
    <3>5. NoId \notin unsaved'
      BY <1>1 DEF Identified
    <3> QED
      BY <1>1, <1>2, <1>5, <2>3, <3>1, <3>2, <3>3, <3>4, <3>5, DaemonGetsOn
  <2> QED
    BY <2>1, <2>2, <2>3
<1> QED
  BY <1>4, <1>5 DEF Load

\* --id: the NodeID that is given takes the place of the one that was loaded.
LEMMA OverrideStep ==
    ASSUME OneAtATime, SInv, NEW p \in Daemons, Override(p)
    PROVE  Safe'
<1> USE DEF SInv, Safe, disk, ghosts, bounds
<1>0. p \in Procs /\ \A d \in Daemons : d = p
  BY DEF Procs, OneAtATime
<1>1. /\ pc[p] = "loaded" /\ Goes(p, "flags")
      /\ UNCHANGED <<entry, temp, file, fd, running, scene, ran, unsaved>>
  BY DEF Override
<1>2. Current' = Current /\ Disk' /\ Keeps(Current, Current')
  BY <1>1, KeepsOrder DEF Current, Disk
<1>3. Keeps(Current, cfg[p]) /\ cfg[p].id # NoId /\ cfg[p] \in Texts
  BY <1>0, <1>1 DEF Knows, Writing, BaseType
<1>4. Keeps(Current, cfg[p])' /\ cfg'[p].id # NoId
  <2>1. CASE UNCHANGED <<cfg, given>>
    <3>1. Given' = Given
      BY <2>1 DEF Given
    <3> QED
      BY <1>2, <1>3, <2>1, <3>1 DEF Keeps
  <2>2. ASSUME NEW id \in Chosen, cfg' = [cfg EXCEPT ![p].id = id],
               given' = [given EXCEPT ![p] = id]
        PROVE  Keeps(Current, cfg[p])' /\ cfg'[p].id # NoId
    <3>1. cfg'[p] = [cfg[p] EXCEPT !.id = id] /\ given'[p] = id
      BY <1>0, <2>2 DEF BaseType
    <3>2. cfg'[p].id = id /\ cfg'[p].peers = cfg[p].peers
      BY <1>3, <3>1, IdReplaced
    <3>3. id # NoId /\ id \in Given'
      BY <3>1, NodeIdsAre DEF Given
    <3> QED
      BY <1>2, <1>3, <3>2, <3>3 DEF Keeps
  <2> QED
    BY <2>1, <2>2 DEF Override
<1>5. fd'[p] = NoInode /\ (\A q \in Procs \ {p} : fd'[q] = fd[q]) /\ NoId \notin unsaved'
  BY <1>0, <1>1 DEF Descriptors, Identified
<1> QED
  BY <1>1, <1>2, <1>4, <1>5, DaemonGetsOn

\* Save and --peers: the daemon writes what it knows, or more.
LEMMA SaveStep ==
    ASSUME OneAtATime, SInv, NEW p \in Daemons, Save(p) \/ \E t \in Targets : FlagPeer(p, t)
    PROVE  Safe'
<1> USE DEF SInv, Safe, disk, ghosts, bounds
<1>0. p \in Procs
  BY DEF Procs
<1>1. pc[p] = "flags" /\ UNCHANGED <<entry, temp, file, fd, running, scene, ran, unsaved, given>>
  BY DEF Save, FlagPeer
<1>2. Current' = Current /\ Disk'
  BY <1>1 DEF Current, Disk
<1>3. Keeps(Current, cfg[p]) /\ cfg[p].id # NoId /\ cfg[p] \in Texts
  BY <1>0, <1>1 DEF Knows, Writing, BaseType
<1>4. PICK text \in Texts, w \in {"flag", "save"} :
         Writes(p, text, w) /\ Keeps(cfg[p], text) /\ text.id # NoId
  <2>1. CASE Save(p)
    BY <1>3, <2>1, KeepsOrder DEF Save
  <2>2. ASSUME NEW t \in Targets, FlagPeer(p, t)
        PROVE  \E text \in Texts : Writes(p, text, "flag") /\ Keeps(cfg[p], text) /\ text.id # NoId
    <3>1. cfg[p].id \in NodeIds /\ cfg[p].peers \cup {t} \in SUBSET (Targets \cup {Mixed})
      BY <1>3, TextHas
    <3>2. PICK text \in Texts : /\ text = Text(cfg[p].id, cfg[p].peers \cup {t})
                                /\ text.id = cfg[p].id /\ text.peers = cfg[p].peers \cup {t}
      BY <3>1, TextTyped
    <3> QED
      BY <1>3, <2>2, <3>2 DEF FlagPeer, Keeps
  <2> QED
    BY <2>1, <2>2
<1>5. Keeps(Current, Current') /\ Keeps(Current, text)'
  <2>1. Keeps(Current, text) /\ Given' = Given
    BY <1>1, <1>3, <1>4, KeepsOrder DEF Given
  <2> QED
    BY <1>2, <2>1, KeepsOrder DEF Keeps
<1> QED
  BY <1>1, <1>2, <1>4, <1>5, DaemonWrites

\* Opening, and so emptying, the temporary file leaves config.yaml alone.
LEMMA OpenStep ==
    ASSUME OneAtATime, SInv, NEW p \in Procs, OpenTemp(p)
    PROVE  Safe' /\ Current' = Current
<1> USE DEF SInv, Safe, ghosts, bounds, local
<1>1. /\ pc[p] = "open" /\ pc'[p] = "fill" /\ \A q \in Procs \ {p} : pc'[q] = pc[q]
      /\ UNCHANGED <<entry, cfg, data, why, given, running, ran, unsaved, scene>>
  BY DEF OpenTemp, Goes, BaseType
<1>2. PICK i \in Inodes : /\ temp' = i /\ i # entry
                          /\ file' = [file EXCEPT ![i] = Blank]
                          /\ fd' = [fd EXCEPT ![p] = i]
  <2>1. CASE temp # NoInode
    BY <2>1 DEF OpenTemp, WriteTo, Disk, BaseType
  <2>2. CASE temp = NoInode
    BY <2>2 DEF OpenTemp, WriteTo, NewInode, FreeInode
  <2> QED
    BY <2>1, <2>2
<1>3. file'[i] = Blank /\ \A k \in Inodes \ {i} : file'[k] = file[k]
  BY <1>2 DEF BaseType
<1>4. Current' = Current
  BY <1>1, <1>2, <1>3 DEF Current, BaseType
<1>5. p \notin Commands /\ \A q \in Procs \ {p} : pc[q] \notin Writing /\ fd[q] = NoInode
  BY <1>1, OneWriter DEF Writing, Control
<1>6. Disk'
  BY <1>1, <1>2, <1>4 DEF Disk
<1>7. Descriptors'
  <2>1. i # NoInode
    BY DEF Inodes, NoInode
  <2>2. fd'[p] = i /\ \A q \in Procs \ {p} : fd'[q] = fd[q]
    BY <1>2 DEF BaseType
  <2> QED
    BY <1>1, <1>2, <1>3, <1>5, <2>1, <2>2 DEF Descriptors, Writing
<1>8. Control'
  BY <1>1, <1>5 DEF Control, Writing, Procs
<1>9. \A q \in Procs : (pc'[q] \in Writing <=> pc[q] \in Writing) /\ (pc'[q] = pc[q] \/ q = p)
  BY <1>1 DEF Writing
<1>10. Purposes'
  BY <1>1, <1>9 DEF Purposes, Procs
<1>11. Knows'
  BY <1>1, <1>4, <1>9 DEF Knows, Keeps, Given, Procs
<1>12. Identified'
  BY <1>1, <1>4, <1>9 DEF Identified, Procs
<1> QED
  BY <1>4, <1>6, <1>7, <1>8, <1>10, <1>11, <1>12

\* What is written behind an emptied file is the whole text.
LEMMA FillStep ==
    ASSUME OneAtATime, SInv, NEW p \in Procs, FillTemp(p)
    PROVE  Safe' /\ Current' = Current
<1> USE DEF SInv, Safe, ghosts, bounds, local
<1>1. /\ pc[p] = "fill" /\ pc'[p] = "rename" /\ \A q \in Procs \ {p} : pc'[q] = pc[q]
      /\ UNCHANGED <<entry, temp, cfg, data, why, given, running, ran, unsaved, scene>>
  BY DEF FillTemp, Goes, BaseType
<1>2. fd[p] = temp /\ temp \in Inodes /\ temp # entry /\ file[temp] = Blank
  BY <1>1 DEF Descriptors, Disk, BaseType
<1>3. Overlaid(Blank, data[p]) = {data[p]}
  BY BlankIs DEF Overlaid
<1>4. file' = [file EXCEPT ![temp] = data[p]]
  BY <1>2, <1>3 DEF FillTemp
<1>5. file'[temp] = data[p] /\ \A k \in Inodes \ {temp} : file'[k] = file[k]
  BY <1>2, <1>4 DEF BaseType
<1>6. Current' = Current
  BY <1>1, <1>2, <1>5 DEF Current, BaseType
<1>7. p \notin Commands /\ \A q \in Procs \ {p} : pc[q] \notin Writing /\ fd[q] = NoInode
  BY <1>1, OneWriter DEF Writing, Control
<1>8. Disk'
  BY <1>1, <1>6 DEF Disk
<1>9. Descriptors'
  <2>1. fd'[p] = NoInode /\ \A q \in Procs \ {p} : fd'[q] = fd[q]
    BY DEF FillTemp, BaseType
  <2>2. temp' # NoInode
    BY <1>1, <1>2 DEF Inodes, NoInode
  <2> QED
    BY <1>1, <1>5, <1>7, <2>1, <2>2 DEF Descriptors, Writing
<1>10. Control'
  BY <1>1, <1>7 DEF Control, Writing, Procs
<1>11. \A q \in Procs : (pc'[q] \in Writing <=> pc[q] \in Writing) /\ (pc'[q] = pc[q] \/ q = p)
  BY <1>1 DEF Writing
<1>12. Purposes'
  BY <1>1, <1>11 DEF Purposes, Procs
<1>13. Knows'
  BY <1>1, <1>6, <1>11 DEF Knows, Keeps, Given, Procs
<1>14. Identified'
  BY <1>1, <1>6, <1>11 DEF Identified, Procs
<1> QED
  BY <1>6, <1>8, <1>9, <1>10, <1>12, <1>13, <1>14

\* An --add is answered: the daemon still knows all that the file says.
LEMMA AdderGetsOn ==
    ASSUME OneAtATime, SInv, NEW a \in Adders, pc[a] \in Writing, Goes(a, "idle"),
           fd'[a] = NoInode, \A q \in Procs \ {a} : fd'[q] = fd[q],
           UNCHANGED <<cfg, data, why, given, running, scene, ran, unsaved>>,
           Disk', Current' = Current \/ \A d \in running : Current' = cfg[d]
    PROVE  Safe'
<1> USE DEF SInv, Safe, BaseType
<1>0. a \in Procs /\ a \notin Commands /\ a \notin Daemons /\ \A b \in Adders : b = a
  BY DEF OneAtATime, Procs
<1>1. PICK d \in Daemons : running = {d} /\ pc[d] = "run"
  BY AdderAlone DEF Writing
<1>2. \A q \in Procs \ {a} : pc[q] \notin Writing /\ fd[q] = NoInode
  BY AdderAlone DEF Writing
<1>3. pc'[a] = "idle" /\ \A q \in Procs \ {a} : pc'[q] = pc[q]
  BY <1>0 DEF Goes
<1>4. \A e \in Daemons : e = d /\ pc'[e] = "run"
  BY <1>0, <1>1, <1>3 DEF OneAtATime, Procs
<1>5. Descriptors'
  BY <1>0, <1>2, <1>3 DEF Descriptors, Writing
<1>6. Control'
  BY <1>0, <1>1, <1>3, <1>4 DEF Control, Procs
<1>7. Purposes'
  BY <1>0, <1>3, <1>4 DEF Purposes, Writing
<1>a. Keeps(Current, cfg[d]) /\ cfg[d].id # NoId
  BY <1>1 DEF Knows, Writing
<1>b. Keeps(Current, Current') /\ Keeps(Current', cfg[d])
  BY <1>1, <1>a, KeepsOrder
<1>8. Knows'
  <2>1. Keeps(Current, cfg[d])'
    BY <1>b DEF Keeps, Given
  <2> QED
    BY <1>1, <1>4, <1>a, <2>1 DEF Knows, Writing
<1>9. Identified'
  <2>1. Current.id # NoId /\ (Current.id = cfg[d].id \/ cfg[d].id \in unsaved)
    BY <1>1 DEF Identified
  <2>2. Current'.id # NoId /\ (Current'.id = cfg[d].id \/ cfg[d].id \in unsaved)
    BY <1>1, <1>a, <2>1
  <2> QED
    BY <1>4, <1>b, <2>2, RanKept DEF Identified
<1> QED
  BY <1>5, <1>6, <1>7, <1>8, <1>9

\* What a writer is about to put in place says all that the file says.
LEMMA WriterKnows ==
    ASSUME OneAtATime, SInv, NEW p \in Procs, pc[p] \in Writing
    PROVE  /\ p \in Daemons => data[p] = cfg[p] /\ Keeps(Current, cfg[p])
                               /\ (cfg[p].id = NoId <=> why[p] = "defaults") /\ why[p] # "add"
           /\ p \in Adders => /\ why[p] = "add"
                              /\ \A d \in running : data[p] = cfg[d] /\ Keeps(Current, cfg[d])
           /\ Keeps(Current, data[p])
<1> USE DEF SInv, Safe
<1>1. CASE p \in Daemons
  <2>1. p \notin Adders
    BY <1>1
  <2> QED
    BY <1>1, <2>1 DEF Purposes, Knows, Writing
<1>2. CASE p \in Adders
  <2>1. PICK d \in Daemons : running = {d} /\ pc[d] = "run"
    BY <1>2, AdderAlone DEF Writing
  <2>2. why[p] = "add" /\ data[p] = cfg[d]
    BY <1>2, <2>1 DEF Purposes
  <2>3. Keeps(Current, cfg[d])
    BY <2>1 DEF Knows
  <2> QED
    BY <1>2, <2>1, <2>2, <2>3
<1> QED
  BY <1>1, <1>2, OneWriter

\* The rename puts what was written in the place of config.yaml.
LEMMA RenamePuts ==
    ASSUME OneAtATime, SInv, NEW p \in Procs, RenameTemp(p)
    PROVE  /\ Current' = data[p] /\ Keeps(Current, data[p]) /\ Disk'
           /\ Returns(p, TRUE)
<1> USE DEF SInv, Safe
<1>1. pc[p] = "rename" /\ temp # NoInode /\ file[temp] = data[p]
  BY DEF RenameTemp, Descriptors
<1>2. entry' = temp /\ temp' = NoInode /\ file' = file /\ Returns(p, TRUE)
  BY <1>1 DEF RenameTemp
<1>3. Current' = data[p]
  BY <1>1, <1>2 DEF Current
<1>4. data[p] \in Texts
  BY DEF BaseType
<1>5. Disk'
  BY <1>2, <1>3, <1>4, TextHas DEF Disk
<1> QED
  BY <1>1, <1>2, <1>3, <1>5, WriterKnows DEF Writing

\* A rename replaces the file by one that says more.
LEMMA RenameStep ==
    ASSUME OneAtATime, SInv, NEW p \in Procs, RenameTemp(p)
    PROVE  Safe'
<1> USE DEF SInv, Safe, bounds
<1>1. pc[p] = "rename" /\ UNCHANGED <<file, fd, given, running, ran, scene>>
  BY DEF RenameTemp
<1>a. Given' = Given
  BY <1>1 DEF Given
<1>2. /\ Current' = data[p] /\ Keeps(Current, Current') /\ Disk' /\ Returns(p, TRUE)
  BY RenamePuts
<1>3. fd'[p] = NoInode /\ \A q \in Procs \ {p} : fd'[q] = fd[q]
  BY <1>1 DEF Descriptors
<1>4. CASE p \in Daemons
  <2>1. /\ Current' = cfg[p] /\ (cfg[p].id = NoId <=> why[p] = "defaults") /\ why[p] # "add"
    BY <1>1, <1>2, <1>4, WriterKnows DEF Writing
  <2>2. CASE why[p] = "defaults"
    <3>1. Identify(p, cfg[p].peers)
      BY <1>2, <2>2 DEF Returns
    <3>2. ids + 1 \in 0..MaxIds /\ ids + 1 # NoId
      BY <3>1 DEF Identify, BaseType, NoId
    <3>3. cfg[p].peers \in SUBSET (Targets \cup {Mixed})
      BY TextHas DEF BaseType
    <3>4. PICK text \in Texts : /\ text = Text(ids + 1, cfg[p].peers)
                                /\ text.id = ids + 1 /\ text.peers = cfg[p].peers
      BY <3>2, <3>3, NodeIdsAre, TextTyped
    <3>5. Writes(p, text, "identify")
      BY <3>1, <3>4 DEF Identify
    <3>6. Keeps(Current, text)' /\ unsaved' = unsaved
      BY <1>2, <2>1, <2>2, <3>4 DEF Keeps, Returns
    <3> QED
      BY <1>1, <1>2, <1>4, <3>2, <3>4, <3>5, <3>6, DaemonWrites
  <2>3. CASE why[p] # "defaults"
    <3>1. PICK to \in {"loaded", "flags", "lock"} : Goes(p, to) /\ cfg' = cfg /\ unsaved' = unsaved
      BY <1>2, <2>1, <2>3 DEF Returns
    <3>2. /\ Keeps(Current, cfg[p])' /\ cfg'[p].id # NoId /\ Current'.id = cfg'[p].id
          /\ NoId \notin unsaved'
      BY <2>1, <2>3, <3>1 DEF Keeps, Identified
    <3> QED
      BY <1>1, <1>2, <1>3, <1>4, <3>1, <3>2, DaemonGetsOn
  <2> QED
    BY <2>2, <2>3
<1>5. CASE p \in Adders
  <2>1. why[p] = "add" /\ \A d \in running : data[p] = cfg[d]
    BY <1>1, <1>5, WriterKnows DEF Writing
  <2>2. Goes(p, "idle") /\ UNCHANGED <<cfg, data, why, unsaved>>
    BY <1>2, <2>1 DEF Returns
  <2>3. \A d \in running : Current' = cfg[d]
    BY <1>2, <2>1
  <2> QED
    BY <1>1, <1>2, <1>3, <1>5, <2>2, <2>3, AdderGetsOn DEF Writing
<1> QED
  BY <1>1, <1>4, <1>5, OneWriter DEF Writing

\* A failure leaves config.yaml alone, and the process gets on with what it has.
LEMMA FailStep ==
    ASSUME OneAtATime, SInv, NEW p \in Procs, WriteFails(p)
    PROVE  Safe' /\ Current' = Current
<1> USE DEF SInv, Safe
<1>1. /\ pc[p] \in {"open", "fill"} /\ Returns(p, FALSE)
      /\ UNCHANGED <<entry, temp, given, running, ran, scene>>
  BY DEF WriteFails, AfterFailure
<1>a. Given' = Given
  BY <1>1 DEF Given
<1>2. Current' = Current
  <2>1. CASE pc[p] = "open"
    BY <1>1, <2>1 DEF WriteFails, Current
  <2>2. CASE pc[p] = "fill"
    <3>1. fd[p] # entry
      BY <2>2 DEF Descriptors, Disk
    <3>2. PICK text : file' = [file EXCEPT ![fd[p]] = text]
      BY <2>2 DEF WriteFails
    <3> QED
      BY <1>1, <3>1, <3>2 DEF Current, BaseType
  <2> QED
    BY <1>1, <2>1, <2>2
<1>3. Disk' /\ Keeps(Current, Current')
  BY <1>1, <1>2, KeepsOrder DEF Disk
<1>4. fd'[p] = NoInode /\ \A q \in Procs \ {p} : fd'[q] = fd[q]
  BY DEF WriteFails, BaseType
<1>5. Current.id # NoId
  BY DEF WriteFails, OneAtATime, Identified, BaseType
<1>6. CASE p \in Daemons
  <2>1. /\ Keeps(Current, cfg[p]) /\ (cfg[p].id = NoId <=> why[p] = "defaults") /\ why[p] # "add"
    BY <1>1, <1>6, WriterKnows DEF Writing
  <2>2. cfg[p].id # NoId /\ why[p] # "defaults"
    <3>1. NoId \notin Given
      BY GivenChosen, NodeIdsAre
    <3> QED
      BY <1>5, <2>1, <3>1 DEF Keeps
  <2>3. PICK to \in {"loaded", "flags", "lock"} :
            /\ Goes(p, to) /\ cfg' = cfg
            /\ unsaved' \in {unsaved, unsaved \cup {cfg[p].id}}
            /\ to = "lock" => cfg[p].id \in unsaved'
    BY <1>1, <2>1, <2>2 DEF Returns
  <2>4. Keeps(Current, cfg[p])' /\ cfg'[p].id # NoId /\ Current'.id # NoId /\ NoId \notin unsaved'
    BY <1>2, <1>5, <1>a, <2>1, <2>2, <2>3 DEF Keeps, Identified
  <2> QED
    BY <1>1, <1>2, <1>3, <1>4, <1>6, <2>3, <2>4, DaemonGetsOn
<1>7. CASE p \in Adders
  <2>1. why[p] = "add"
    BY <1>1, <1>7, WriterKnows DEF Writing
  <2>2. Goes(p, "idle") /\ UNCHANGED <<cfg, data, why, unsaved>>
    BY <1>1, <2>1 DEF Returns
  <2> QED
    BY <1>1, <1>2, <1>3, <1>4, <1>7, <2>1, <2>2, AdderGetsOn DEF Writing
<1> QED
  BY <1>1, <1>6, <1>7, OneWriter DEF Writing

\* The steps that only change where processes are: the lock, a command that ends.
LEMMA ControlStep ==
    ASSUME OneAtATime, SInv,
           (\E d \in Daemons : StartRunning(d)) \/ (\E p \in Procs : CommandDone(p))
    PROVE  Safe'
<1> USE DEF SInv, Safe, disk, local, ghosts, bounds
<1>1. Current' = Current /\ Disk' /\ Keeps(Current, Current')
  BY KeepsOrder DEF StartRunning, CommandDone, Current, Disk
<1>2. ASSUME NEW d \in Daemons, StartRunning(d) PROVE Safe'
  <2>0. d \in Procs /\ (\A e \in Daemons : e = d) /\ d \notin Commands /\ d \notin Adders
    BY DEF OneAtATime, Procs
  <2>1. pc[d] = "lock" /\ UNCHANGED <<entry, temp, file, fd, cfg, data, why, scene>>
    BY <1>2 DEF StartRunning
  <2>2. /\ running = {} /\ \A a \in Adders : pc[a] = "idle"
        /\ \A q \in Procs \ {d} : pc[q] \notin Writing /\ fd[q] = NoInode
    BY <2>1, DaemonAlone
  <2>3. running' = {d} /\ Goes(d, "run") /\ ran' = ran \cup {cfg[d].id}
    BY <1>2, <2>2 DEF StartRunning
  <2>4. pc'[d] = "run" /\ \A q \in Procs \ {d} : pc'[q] = pc[q]
    BY <2>0, <2>3 DEF Goes, BaseType
  <2>5. /\ Keeps(Current, cfg[d]) /\ cfg[d].id # NoId
        /\ Current.id # NoId /\ (Current.id = cfg[d].id \/ cfg[d].id \in unsaved)
    BY <2>1 DEF Knows, Identified, Writing
  <2>a. Given' = Given /\ unsaved' = unsaved
    BY <1>2 DEF StartRunning, Given
  <2>6. Descriptors'
    BY <2>0, <2>1, <2>2, <2>4 DEF Descriptors, Writing
  <2>7. Control'
    BY <2>0, <2>2, <2>3, <2>4 DEF Control, Procs
  <2>8. Purposes'
    BY <2>0, <2>1, <2>2, <2>3, <2>4 DEF Purposes, Procs, Writing
  <2>9. Knows'
    BY <1>1, <2>0, <2>1, <2>4, <2>5, <2>a DEF Knows, Keeps, Writing
  <2>10. Identified'
    <3>1. cfg[d].id \notin Chosen => Current.id = cfg[d].id
      BY <2>5, GivenChosen DEF Keeps
    <3>2. cfg[d].id \in Chosen \/ ran \ Chosen \subseteq {cfg[d].id}
      BY <3>1 DEF Identified
    <3>3. ran' \ Chosen = ran \ Chosen \/ ran' \ Chosen = {cfg[d].id}
      BY <2>3, <3>2
    <3>4. Current.id \notin Chosen => ran' \ Chosen \subseteq {Current.id}
      BY <2>3, <3>1 DEF Identified
    <3>5. \A i, j \in ran' \ Chosen : i = j
      BY <3>3 DEF Identified
    <3>6. NoId \notin ran'
      BY <2>3, <2>5 DEF Identified
    <3> QED
      BY <1>1, <2>0, <2>1, <2>5, <2>a, <3>4, <3>5, <3>6 DEF Identified
  <2> QED
    BY <1>1, <2>6, <2>7, <2>8, <2>9, <2>10
<1>3. ASSUME NEW p \in Procs, CommandDone(p) PROVE Safe'
  <2>0. p \in Commands /\ p \notin Daemons /\ p \notin Adders
    BY <1>3 DEF CommandDone
  <2>1. /\ pc'[p] = "idle" /\ pc[p] = "loaded" /\ \A q \in Procs \ {p} : pc'[q] = pc[q]
        /\ UNCHANGED <<temp, file, fd, cfg, data, why, given, running, ran, unsaved, scene>>
    BY <1>3 DEF CommandDone, Goes, BaseType
  <2>2. \A q \in Daemons \cup Adders : q \in Procs /\ pc'[q] = pc[q]
    BY <2>0, <2>1 DEF Procs
  <2>3. Descriptors'
    BY <2>1 DEF Descriptors
  <2>4. Control'
    BY <2>1, <2>2 DEF Control, Procs
  <2>5. Purposes' /\ Knows' /\ Identified'
    BY <1>1, <2>1, <2>2 DEF Purposes, Knows, Keeps, Given, Identified
  <2> QED
    BY <1>1, <2>3, <2>4, <2>5
<1> QED
  BY <1>2, <1>3

\* An --add reads the daemon's peers.
LEMMA AddStep ==
    ASSUME OneAtATime, SInv, NEW a \in Adders, NEW d \in Daemons, NEW t \in Targets,
           AddPeer(a, d, t)
    PROVE  Safe'
<1> USE DEF SInv, Safe, disk, local, ghosts, bounds
<1>0. a \in Procs /\ a \notin Commands /\ a \notin Daemons
  BY DEF Procs
<1>1. /\ d \in running /\ pc[a] = "idle"
      /\ UNCHANGED <<entry, temp, file, fd, data, why, given, running, ran, unsaved, scene>>
  BY DEF AddPeer
<1>2. Current' = Current /\ Disk'
  BY <1>1 DEF Current, Disk
<1>3. CASE UNCHANGED <<pc, cfg>>
  BY <1>1, <1>2, <1>3 DEF Descriptors, Control, Purposes, Knows, Keeps, Given, Identified
<1>4. CASE Goes(a, "append") /\ cfg' = [cfg EXCEPT ![a] = cfg[d]]
  <2>1. /\ pc'[a] = "append" /\ cfg'[a] = cfg[d]
        /\ \A q \in Procs \ {a} : pc'[q] = pc[q] /\ cfg'[q] = cfg[q]
    BY <1>0, <1>4 DEF Goes, BaseType
  <2>2. \A q \in Daemons \cup Commands : q \in Procs \ {a}
    BY <1>0 DEF Procs
  <2>3. Descriptors'
    BY <1>1, <2>1 DEF Descriptors
  <2>4. Control'
    BY <1>0, <1>1, <2>1, <2>2 DEF Control, Procs
  <2>5. Purposes'
    BY <1>0, <1>1, <2>1, <2>2 DEF Purposes, Procs, OneAtATime, BaseType, Writing
  <2>6. Knows' /\ Identified'
    BY <1>1, <1>2, <2>1, <2>2 DEF Knows, Keeps, Given, Identified
  <2> QED
    BY <1>2, <2>3, <2>4, <2>5, <2>6
<1> QED
  BY <1>3, <1>4 DEF AddPeer

\* Nobody else appends: the daemon's peers are those that were read, and one more.
LEMMA AppendsOne ==
    ASSUME OneAtATime, SInv, NEW a \in Adders, NEW d \in Daemons, AppendPeer(a, d)
    PROVE  /\ d \in running /\ pc[a] = "append" /\ Goes(a, "marshal")
           /\ UNCHANGED <<entry, temp, file, fd, data, why, target, given, running, ghosts, scene>>
           /\ cfg' \in [Procs -> Texts] /\ \A q \in Procs \ {d} : cfg'[q] = cfg[q]
           /\ cfg'[d].id = cfg[d].id /\ cfg'[d].peers = cfg[d].peers \cup {target[a]}
<1> USE DEF SInv, Safe, disk, ghosts, bounds
<1>0. a \in Procs /\ d \in Procs
  BY DEF Procs
<1>1. /\ d \in running /\ pc[a] = "append" /\ Goes(a, "marshal")
      /\ UNCHANGED <<entry, temp, file, fd, data, why, target, given, running, ghosts, scene>>
  BY DEF AppendPeer
<1>2. Appended(a, target[a]) = {cfg[a].peers \cup {target[a]}}
  BY DEF OneAtATime, Appended
<1>3. cfg' = [cfg EXCEPT ![d].peers = cfg[a].peers \cup {target[a]}]
  BY <1>2 DEF AppendPeer
<1>4. cfg[a] = cfg[d] /\ cfg[d] \in Texts /\ target[a] \in Targets
  BY <1>0, <1>1 DEF Purposes, BaseType
<1>5. cfg[a].peers \cup {target[a]} \in SUBSET (Targets \cup {Mixed})
  BY <1>4, TextHas
<1>6. cfg'[d] = [cfg[d] EXCEPT !.peers = cfg[a].peers \cup {target[a]}]
  BY <1>0, <1>3 DEF BaseType
<1>7. /\ cfg'[d] \in Texts /\ cfg'[d].id = cfg[d].id
      /\ cfg'[d].peers = cfg[a].peers \cup {target[a]}
  BY <1>4, <1>5, <1>6, PeersReplaced
<1>8. cfg' \in [Procs -> Texts] /\ \A q \in Procs \ {d} : cfg'[q] = cfg[q]
  BY <1>3, <1>6, <1>7 DEF BaseType
<1> QED
  BY <1>1, <1>4, <1>7, <1>8

\* So the daemon goes on knowing all that the file says.
LEMMA AppendStep ==
    ASSUME OneAtATime, SInv, NEW a \in Adders, NEW d \in Daemons, AppendPeer(a, d)
    PROVE  Safe'
<1> USE DEF SInv, Safe
<1>0. /\ a \in Procs /\ a \notin Commands /\ a \notin Daemons
      /\ (\A b \in Adders : b = a) /\ (\A e \in Daemons : e = d) /\ d \in Procs
  BY DEF Procs, OneAtATime
<1>1. /\ d \in running /\ pc[a] = "append" /\ Goes(a, "marshal")
      /\ UNCHANGED <<entry, temp, file, fd, data, why, given, running, ran, unsaved, scene>>
      /\ cfg'[d].id = cfg[d].id /\ cfg[d].peers \subseteq cfg'[d].peers
  BY AppendsOne DEF ghosts
<1>2. Current' = Current /\ Disk'
  BY <1>1 DEF Current, Disk
<1>3. pc'[a] = "marshal" /\ \A q \in Procs \ {a} : pc'[q] = pc[q]
  BY <1>0, <1>1 DEF Goes, BaseType
<1>4. pc[d] = "run" /\ pc'[d] = "run"
  BY <1>0, <1>1, <1>3 DEF Control
<1>5. Descriptors'
  BY <1>1, <1>3 DEF Descriptors
<1>6. Control'
  BY <1>0, <1>1, <1>3, <1>4 DEF Control, Procs
<1>7. Purposes'
  BY <1>0, <1>3, <1>4 DEF Purposes, Writing
<1>8. Knows'
  <2>1. Keeps(Current, cfg[d]) /\ cfg[d].id # NoId
    BY <1>4 DEF Knows, Writing
  <2>2. Keeps(Current, cfg[d])' /\ cfg'[d].id # NoId
    BY <1>1, <1>2, <2>1 DEF Keeps, Given
  <2> QED
    BY <1>0, <1>2, <1>4, <2>2 DEF Knows, Writing
<1>9. Identified'
  BY <1>0, <1>1, <1>2, <1>4 DEF Identified
<1> QED
  BY <1>2, <1>5, <1>6, <1>7, <1>8, <1>9

\* An --add sets out to write what the daemon knows.
LEMMA MarshalStep ==
    ASSUME OneAtATime, SInv, NEW a \in Adders, NEW d \in Daemons, MarshalPeers(a, d)
    PROVE  Safe'
<1> USE DEF SInv, Safe, disk, ghosts, bounds
<1>0. /\ a \in Procs /\ a \notin Commands /\ a \notin Daemons
      /\ (\A b \in Adders : b = a) /\ (\A e \in Daemons : e = d) /\ d \in Procs
  BY DEF Procs, OneAtATime
<1>1. /\ d \in running /\ pc[a] = "marshal" /\ Writes(a, cfg[d], "add")
      /\ UNCHANGED <<entry, temp, file, fd, given, running, ran, unsaved, scene>>
  BY DEF MarshalPeers, Persisted
<1>2. Current' = Current /\ Disk'
  BY <1>1 DEF Current, Disk
<1>3. /\ pc'[a] = "open" /\ data'[a] = cfg[d] /\ why'[a] = "add"
      /\ \A q \in Procs \ {a} : /\ pc'[q] = pc[q] /\ cfg'[q] = cfg[q]
                                /\ data'[q] = data[q] /\ why'[q] = why[q]
  BY <1>0, <1>1 DEF Writes, Goes, BaseType
<1>4. pc[d] = "run" /\ pc'[d] = "run"
  BY <1>0, <1>1, <1>3 DEF Control
<1>5. Descriptors'
  BY <1>1, <1>3 DEF Descriptors
<1>6. Control'
  BY <1>0, <1>1, <1>3, <1>4 DEF Control, Procs, Writing
<1>7. Purposes'
  <2>1. cfg'[d] = cfg[d] /\ running' \subseteq {d}
    BY <1>0, <1>1, <1>3 DEF BaseType
  <2>2. \A e \in Daemons : pc'[e] \notin Writing
    BY <1>0, <1>4 DEF Writing
  <2> QED
    BY <1>0, <1>3, <2>1, <2>2 DEF Purposes
<1>8. Knows' /\ Identified'
  BY <1>0, <1>1, <1>2, <1>3, <1>4 DEF Knows, Keeps, Given, Identified, Writing
<1> QED
  BY <1>2, <1>5, <1>6, <1>7, <1>8

\* A crash takes the adders with the daemon they serve and leaves the disk.
LEMMA CrashStep ==
    ASSUME OneAtATime, SInv, NEW d \in Daemons, Crash(d)
    PROVE  Safe'
<1> USE DEF SInv, Safe, disk, ghosts, local
<1>0. /\ d \in Procs /\ (\A e \in Daemons : e = d) /\ running \subseteq {d}
  BY DEF Procs, OneAtATime, BaseType
<1>1. UNCHANGED <<entry, temp, file, cfg, data, why, ran, unsaved, scene>> /\ running' = {}
  BY <1>0 DEF Crash
<1>2. Current' = Current /\ Disk'
  BY <1>1 DEF Current, Disk
<1>3. ASSUME NEW a \in Adders PROVE pc'[a] = "idle"
  <2>1. a \in Procs
    BY DEF Procs
  <2>2. d \notin running => pc[a] = "idle"
    BY <1>0 DEF Control
  <2> QED
    BY <2>1, <2>2 DEF Crash
<1>4. pc'[d] = "idle" /\ \A c \in Commands : pc'[c] = pc[c]
  BY <1>0 DEF Crash, Procs
<1>5. \A q \in Procs : fd'[q] = NoInode
  <2>1. ASSUME NEW c \in Commands PROVE fd[c] = NoInode
    BY DEF Control, Descriptors, Procs
  <2>2. ASSUME NEW a \in Adders, d \notin running PROVE fd[a] = NoInode
    BY <1>0, <2>2 DEF Control, Descriptors, Procs
  <2> QED
    BY <1>0, <2>1, <2>2 DEF Crash, Procs
<1>6. \A q \in Procs : pc'[q] \in {"idle", "loaded"}
  BY <1>0, <1>3, <1>4 DEF Control, Procs
<1>7. Descriptors'
  BY <1>5, <1>6 DEF Descriptors
<1>8. Control'
  BY <1>0, <1>1, <1>3, <1>4 DEF Control
<1>9. Purposes' /\ Knows' /\ Identified'
  BY <1>0, <1>1, <1>2, <1>3, <1>4 DEF Purposes, Knows, Identified, Writing
<1> QED
  BY <1>2, <1>7, <1>8, <1>9

\* Nothing happens.
LEMMA StutterStep ==
    ASSUME SInv, UNCHANGED vars
    PROVE  Safe'
<1>1. Current' = Current
  BY DEF vars, disk, Current
<1>2. Disk' /\ Descriptors' /\ Control'
  BY <1>1 DEF SInv, Safe, Disk, Descriptors, Control, vars, disk, local
<1>3. Purposes' /\ Knows' /\ Identified'
  BY <1>1 DEF SInv, Safe, Purposes, Knows, Keeps, Given, Identified, vars, local, ghosts, bounds
<1> QED
  BY <1>2, <1>3 DEF Safe

\* Every step keeps the invariant.
LEMMA SafeStep == OneAtATime /\ SInv /\ [Next]_vars => SInv'
<1> SUFFICES ASSUME OneAtATime, SInv, [Next]_vars PROVE SInv'
  OBVIOUS
<1>1. BaseType'
  BY BaseTypeStep DEF SInv
<1>2. ASSUME NEW p \in Procs, Load(p) \/ Write(p) \/ WriteFails(p) \/ CommandDone(p) PROVE Safe'
  BY <1>2, LoadStep, OpenStep, FillStep, RenameStep, FailStep, ControlStep DEF Write
<1>3. ASSUME NEW d \in Daemons,
             \/ Override(d) \/ Save(d) \/ StartRunning(d) \/ Crash(d)
             \/ \E t \in Targets : FlagPeer(d, t)
      PROVE  Safe'
  BY <1>3, OverrideStep, SaveStep, ControlStep, CrashStep
<1>4. ASSUME NEW a \in Adders, NEW d \in Daemons,
             AppendPeer(a, d) \/ MarshalPeers(a, d) \/ \E t \in Targets : AddPeer(a, d, t)
      PROVE  Safe'
  BY <1>4, AppendStep, MarshalStep, AddStep
<1>5. Safe'
  BY <1>2, <1>3, <1>4, StutterStep DEF Next
<1> QED
  BY <1>1, <1>5 DEF SInv

\* One daemon and one --add at a time never endanger the file.
THEOREM Invariance == ASSUME OneAtATime PROVE Spec => []SInv
<1>1. Init => SInv
  BY BaseTypeInit, SafeInit DEF SInv
<1>2. SInv /\ [Next]_vars => SInv'
  BY OneAtATime, SafeStep
<1> QED
  BY <1>1, <1>2, PTL DEF Spec

\* All daemons on the file run under one NodeID, wherever a start was interrupted,
\* but for those a user has given; the one that runs is there for the next start,
\* or was reported not to have been saved.
THEOREM Identity == ASSUME OneAtATime PROVE Spec => []IdentityKept
<1>1. SInv => IdentityKept
  <2> SUFFICES ASSUME SInv PROVE IdentityKept
    OBVIOUS
  <2>1. ran \ Chosen = {} \/ \E i : ran \ Chosen = {i}
    BY DEF SInv, Safe, Identified
  <2>2. Cardinality(ran \ Chosen) = 0 \/ Cardinality(ran \ Chosen) = 1
    BY <2>1, FS_EmptySet, FS_Singleton
  <2>3. \A d \in running : d \in Daemons /\ pc[d] = "run"
    BY DEF SInv, BaseType, Safe, Control
  <2> QED
    BY <2>2, <2>3 DEF IdentityKept, SInv, Safe, Disk, Identified
<1> QED
  BY <1>1, Invariance, PTL

\* The variables keep their types; at most one daemon runs, and it knows every
\* peer that the file has.
THEOREM TypeCorrect == ASSUME OneAtATime PROVE Spec => []TypeOK
<1>1. SInv => TypeOK
  <2> SUFFICES ASSUME SInv PROVE TypeOK
    OBVIOUS
  <2>1. running \subseteq {d \in Daemons : pc[d] = "run"}
    BY DEF SInv, BaseType, Safe, Control
  <2>2. running = {} \/ \E d \in running : running = {d}
    BY DEF OneAtATime, SInv, BaseType
  <2>3. Cardinality(running) <= 1
    <3>1. Cardinality(running) = 0 \/ Cardinality(running) = 1
      BY <2>2, FS_EmptySet, FS_Singleton
    <3> QED
      BY <3>1
  <2>4. ran \cup unsaved \subseteq NodeIds \ {NoId}
    BY DEF SInv, BaseType, Safe, Identified
  <2>5. \A d \in running : entry # NoInode /\ file[entry] # Garbled
                              => file[entry].peers \subseteq cfg[d].peers
    <3> SUFFICES ASSUME NEW d \in running, entry # NoInode
                 PROVE  file[entry].peers \subseteq cfg[d].peers
      OBVIOUS
    <3>1. d \in Daemons /\ pc[d] # "idle"
      BY <2>1
    <3>2. Keeps(Current, cfg[d])
      BY <3>1 DEF SInv, Safe, Knows
    <3> QED
      BY <3>2 DEF Keeps, Current
  <2>6. {cfg[p] : p \in Procs} \cup {data[p] : p \in Procs} \subseteq Texts
    BY DEF SInv, BaseType
  <2> QED
    BY <2>1, <2>3, <2>4, <2>5, <2>6 DEF SInv, BaseType, TypeOK
<1> QED
  BY <1>1, Invariance, PTL

-----------------------------------------------------------------------------
(* What is in the file stays there.                                         *)

\* A step leaves the file as it is, or puts what says more in its place.
LEMMA FileGrows ==
    ASSUME OneAtATime, SInv, [Next]_vars
    PROVE  Keeps(Current, Current')
<1>1. ASSUME NEW p \in Procs, Write(p) \/ WriteFails(p) PROVE Keeps(Current, Current')
  BY <1>1, OpenStep, FillStep, FailStep, RenamePuts, KeepsOrder DEF Write
<1>2. CASE UNCHANGED <<entry, file>>
  BY <1>2, KeepsOrder DEF Current
<1>3. ASSUME NEW p \in Procs, Load(p) \/ CommandDone(p) PROVE UNCHANGED <<entry, file>>
  BY <1>3 DEF Load, CommandDone, disk
<1>4. ASSUME NEW d \in Daemons,
             \/ Override(d) \/ Save(d) \/ StartRunning(d) \/ Crash(d)
             \/ \E t \in Targets : FlagPeer(d, t)
      PROVE  UNCHANGED <<entry, file>>
  BY <1>4 DEF Override, Save, StartRunning, Crash, FlagPeer, disk
<1>5. ASSUME NEW a \in Adders, NEW d \in Daemons,
             AppendPeer(a, d) \/ MarshalPeers(a, d) \/ \E t \in Targets : AddPeer(a, d, t)
      PROVE  UNCHANGED <<entry, file>>
  BY <1>5 DEF AppendPeer, MarshalPeers, AddPeer, disk
<1>6. CASE UNCHANGED vars
  BY <1>2, <1>6 DEF vars, disk
<1> QED
  BY <1>1, <1>2, <1>3, <1>4, <1>5, <1>6 DEF Next

\* Whoever writes next, fails to or crashes, the file stays readable, loses no peer,
\* and has another NodeID only if a daemon was given that other.
THEOREM Kept == ASSUME OneAtATime PROVE Spec => NothingLost
<1>1. SInv /\ SInv' /\ [Next]_vars =>
        (Current # Garbled => /\ Current' # Garbled
                              /\ (Current.id \in {NoId, Current'.id} \/ Current'.id \in Given)
                              /\ Current.peers \subseteq Current'.peers)
  BY OneAtATime, FileGrows DEF SInv, Safe, Disk, Keeps
<1> QED
  BY <1>1, Invariance, PTL DEF Spec, NothingLost

-----------------------------------------------------------------------------
(* An acknowledged peer is in the file, since all that the daemon has in    *)
(* memory is: but for what was reported to have failed, and for what is in   *)
(* hand, an --add that is not answered yet or a --peers that is not written. *)

\* The --add of t has changed the daemon's memory and is not answered yet.
InHand(t) == \E a \in Adders : pc[a] \in {"marshal"} \cup Writing /\ target[a] = t

\* The daemon knows the peers whose --add is in hand.
Handed ==
    \A a \in Adders, d \in running :
        pc[a] \in {"marshal"} \cup Writing => target[a] \in cfg[d].peers

\* What the running daemon knows is in the file, refused or in hand.
Accounted ==
    \A d \in running : \A t \in cfg[d].peers : t \in Current.peers \cup refused \/ InHand(t)

\* The peer of --peers that the daemon is about to write.
Flagged(d) == IF pc[d] \in Writing /\ why[d] = "flag" THEN {target[d]} ELSE {}

\* What a starting daemon knows is in the file, reported, or about to be written.
Started ==
    \A d \in Daemons : pc[d] \notin {"idle", "run"}
        => cfg[d].peers \subseteq Current.peers \cup refused \cup Flagged(d)

Persist == Handed /\ Accounted /\ Started /\ AddedIsPersisted

PInv == SInv /\ Persist

\* What was acknowledged and is in the file stays in it.
LEMMA AckedStays ==
    ASSUME PInv, Keeps(Current, Current'), SInv', acked' = acked, refused \subseteq refused'
    PROVE  AddedIsPersisted'
BY DEF PInv, Persist, AddedIsPersisted, Keeps, SInv, Safe, Disk

\* While the daemon is not running, only what it started with matters.
LEMMA NotRunning ==
    ASSUME PInv, SInv', Keeps(Current, Current'), running' = {},
           acked' = acked, refused \subseteq refused', Started'
    PROVE  Persist'
BY AckedStays DEF Persist, Handed, Accounted

\* Load: what is loaded is in the file.
LEMMA LoadPersists ==
    ASSUME OneAtATime, PInv, SInv', Keeps(Current, Current'), NEW p \in Procs, Load(p)
    PROVE  Persist'
<1> USE DEF PInv, SInv, disk, ghosts, bounds
<1>1. pc[p] = "idle" /\ UNCHANGED <<entry, file, running, acked, refused, fails>>
  BY DEF Load
<1>2. Current' = Current
  BY <1>1 DEF Current
<1>3. \A q \in Procs \ {p} : /\ pc'[q] = pc[q] /\ cfg'[q] = cfg[q] /\ why'[q] = why[q]
                             /\ target'[q] = target[q]
  BY DEF Load, Identify, Writes, Goes, BaseType
<1>4. CASE p \in Commands
  <2>1. \A q \in Daemons \cup Adders : q \in Procs \ {p}
    BY <1>4 DEF Procs
  <2>2. Handed' /\ Accounted' /\ Started'
    BY <1>1, <1>2, <1>3, <2>1 DEF Persist, Handed, Accounted, Started, Flagged, InHand, BaseType
  <2> QED
    BY <1>1, <2>2, AckedStays DEF Persist
<1>5. CASE p \in Daemons
  <2>1. running' = {}
    BY <1>1, <1>5, DaemonAlone
  <2>2. /\ Current \in Texts /\ (entry = NoInode => Current = Blank)
        /\ entry # NoInode => Readings(file[entry]) = {Current}
    BY CurrentIs, TextHas DEF Readings, Safe
  <2>3. cfg'[p].peers \subseteq Current.peers
    <3>1. CASE Writes(p, Blank, "defaults")
      BY <3>1, BlankIs DEF Writes, BaseType
    <3>2. CASE Identify(p, Current.peers)
      <4>1. ids + 1 \in NodeIds
        BY <3>2, NodeIdsAre DEF Identify, BaseType
      <4>2. Text(ids + 1, Current.peers).peers = Current.peers
        BY <2>2, <4>1, TextHas, TextTyped
      <4> QED
        BY <3>2, <4>2 DEF Identify, Writes, BaseType
    <3>3. CASE cfg' = [cfg EXCEPT ![p] = Current]
      BY <3>3 DEF BaseType
    <3> QED
      BY <2>2, <3>1, <3>2, <3>3 DEF Load
  <2>4. Started'
    BY <1>2, <1>5, <2>3 DEF Started, OneAtATime
  <2> QED
    BY <1>1, <2>1, <2>4, NotRunning
<1> QED
  BY <1>4, <1>5 DEF Load

\* The other steps of a starting daemon.
LEMMA StartPersists ==
    ASSUME OneAtATime, PInv, SInv', Keeps(Current, Current'), NEW d \in Daemons,
           \/ Override(d) \/ Save(d) \/ StartRunning(d) \/ Crash(d)
           \/ \E t \in Targets : FlagPeer(d, t)
    PROVE  Persist'
<1> USE DEF PInv, SInv, disk, ghosts, bounds, local
<1>0. d \in Procs /\ \A e \in Daemons : e = d
  BY DEF Procs, OneAtATime
<1>1. UNCHANGED <<entry, file, acked, refused, fails>>
  BY DEF Override, Save, StartRunning, Crash, FlagPeer
<1>2. Current' = Current
  BY <1>1 DEF Current
<1>3. CASE Save(d)
  <2>1. /\ pc[d] = "flags" /\ pc'[d] = "open" /\ why'[d] = "save" /\ cfg'[d] = cfg[d]
        /\ running' = running
    BY <1>0, <1>3 DEF Save, Writes, Goes, BaseType
  <2>2. running' = {}
    BY <2>1, DaemonAlone
  <2>3. Started'
    BY <1>0, <1>1, <1>2, <2>1 DEF Persist, Started, Flagged, Writing
  <2> QED
    BY <1>1, <2>2, <2>3, NotRunning
<1>a. CASE Override(d)
  <2>1. pc[d] = "loaded" /\ pc'[d] = "flags" /\ running' = running /\ cfg[d] \in Texts
    BY <1>0, <1>a DEF Override, Goes, BaseType
  <2>2. cfg'[d].peers = cfg[d].peers
    <3>1. ASSUME NEW id \in Chosen, cfg' = [cfg EXCEPT ![d].id = id]
          PROVE  cfg'[d].peers = cfg[d].peers
      <4>1. cfg'[d] = [cfg[d] EXCEPT !.id = id]
        BY <1>0, <3>1 DEF BaseType
      <4> QED
        BY <2>1, <4>1, IdReplaced
    <3> QED
      BY <1>a, <3>1 DEF Override
  <2>3. running' = {}
    BY <2>1, DaemonAlone
  <2>4. cfg[d].peers \subseteq Current.peers \cup refused
    BY <2>1 DEF Persist, Started, Flagged, Writing
  <2>5. Started'
    BY <1>0, <1>1, <1>2, <2>1, <2>2, <2>4 DEF Started
  <2> QED
    BY <1>1, <2>3, <2>5, NotRunning
<1>4. ASSUME NEW t \in Targets, FlagPeer(d, t) PROVE Persist'
  <2>1. /\ pc[d] = "flags" /\ pc'[d] = "open" /\ why'[d] = "flag" /\ running' = running
        /\ target'[d] = t
    BY <1>0, <1>4 DEF FlagPeer, Writes, Goes, BaseType
  <2>2. running' = {}
    BY <2>1, DaemonAlone
  <2>3. cfg'[d].peers = cfg[d].peers \cup {t}
    <3>1. cfg[d] \in Texts
      BY <1>0 DEF BaseType
    <3>2. Text(cfg[d].id, cfg[d].peers \cup {t}).peers = cfg[d].peers \cup {t}
      BY <3>1, TextHas, TextTyped
    <3> QED
      BY <1>0, <1>4, <3>2 DEF FlagPeer, Writes, BaseType
  <2>4. cfg[d].peers \subseteq Current.peers \cup refused
    BY <2>1 DEF Persist, Started, Flagged, Writing
  <2>5. Started'
    BY <1>0, <1>1, <1>2, <2>1, <2>3, <2>4 DEF Started, Flagged, Writing
  <2> QED
    BY <1>1, <2>2, <2>5, NotRunning
<1>5. CASE StartRunning(d)
  <2>1. pc[d] = "lock" /\ UNCHANGED <<cfg, target>>
    BY <1>5 DEF StartRunning
  <2>2. running = {} /\ \A a \in Adders : pc[a] = "idle"
    BY <2>1, DaemonAlone
  <2>3. running' = {d} /\ pc'[d] = "run" /\ \A q \in Procs \ {d} : pc'[q] = pc[q]
    BY <1>0, <1>5, <2>2 DEF StartRunning, Goes, BaseType
  <2>4. cfg[d].peers \subseteq Current.peers \cup refused
    BY <2>1 DEF Persist, Started, Flagged, Writing
  <2>5. Accounted'
    BY <1>1, <1>2, <2>1, <2>3, <2>4 DEF Accounted
  <2>6. Handed'
    <3>1. ASSUME NEW a \in Adders PROVE pc'[a] = "idle"
      BY <1>0, <2>2, <2>3 DEF Procs
    <3> QED
      BY <3>1 DEF Handed, Writing
  <2>7. Started'
    BY <1>0, <2>3 DEF Started, Writing
  <2> QED
    BY <1>1, <2>5, <2>6, <2>7, AckedStays DEF Persist
<1>6. CASE Crash(d)
  <2>1. running' = {} /\ pc'[d] = "idle"
    BY <1>0, <1>6 DEF Crash, BaseType
  <2>2. Started'
    BY <1>0, <2>1 DEF Started, Writing
  <2> QED
    BY <1>1, <2>1, <2>2, NotRunning
<1> QED
  BY <1>3, <1>4, <1>5, <1>6, <1>a

\* The steps of an --add, until it is to be written.
LEMMA AddPersists ==
    ASSUME OneAtATime, PInv, SInv', Keeps(Current, Current'), NEW a \in Adders, NEW d \in Daemons,
           AppendPeer(a, d) \/ MarshalPeers(a, d) \/ \E t \in Targets : AddPeer(a, d, t)
    PROVE  Persist'
<1> USE DEF PInv, SInv, disk, ghosts, bounds, local
<1>0. /\ a \in Procs /\ a \notin Daemons /\ (\A b \in Adders : b = a) /\ (\A e \in Daemons : e = d)
      /\ d \in Procs /\ running \subseteq {d}
  BY DEF Procs, OneAtATime, BaseType
<1>1. UNCHANGED <<entry, file, running, refused, fails>> /\ d \in running
  BY DEF AppendPeer, MarshalPeers, AddPeer
<1>2. Current' = Current /\ pc[d] = "run"
  BY <1>1 DEF Current, Safe, Control
<1>3. pc'[d] = "run"
  BY <1>1 DEF Safe, Control
<1>4. Started'
  BY <1>0, <1>3 DEF Started, Writing
<1>5. CASE AppendPeer(a, d)
  <2>1. /\ pc[a] = "append" /\ Goes(a, "marshal") /\ UNCHANGED <<target, acked>>
        /\ cfg'[d].peers = cfg[d].peers \cup {target[a]}
    BY <1>5, AppendsOne
  <2>2. pc'[a] = "marshal"
    BY <1>0, <2>1 DEF Goes, BaseType
  <2>3. \A t \in cfg[d].peers : t \in Current.peers \cup refused
    BY <1>0, <1>1, <2>1 DEF Persist, Accounted, InHand, Writing
  <2>4. Accounted' /\ Handed'
    BY <1>0, <1>1, <1>2, <2>1, <2>2, <2>3 DEF Accounted, Handed, InHand
  <2> QED
    BY <1>1, <1>4, <2>1, <2>4, AckedStays DEF Persist
<1>6. CASE MarshalPeers(a, d)
  <2>1. /\ pc[a] = "marshal" /\ Writes(a, cfg[d], "add") /\ UNCHANGED <<target, acked>>
    BY <1>6 DEF MarshalPeers, Persisted, Writes
  <2>2. pc'[a] = "open" /\ cfg'[d] = cfg[d]
    BY <1>0, <2>1 DEF Writes, Goes, BaseType
  <2>3. Accounted' /\ Handed'
    BY <1>0, <1>1, <1>2, <2>1, <2>2 DEF Persist, Accounted, Handed, InHand, Writing
  <2> QED
    BY <1>1, <1>4, <2>1, <2>3, AckedStays DEF Persist
<1>7. ASSUME NEW t \in Targets, AddPeer(a, d, t) PROVE Persist'
  <2>1. pc[a] = "idle" /\ pc'[a] \in {"idle", "append"} /\ cfg'[d] = cfg[d]
    BY <1>0, <1>7 DEF AddPeer, Goes, BaseType
  <2>2. \A u \in cfg[d].peers : u \in Current.peers \cup refused
    BY <1>0, <1>1, <2>1 DEF Persist, Accounted, InHand, Writing
  <2>3. Accounted' /\ Handed'
    BY <1>0, <1>1, <1>2, <2>1, <2>2 DEF Accounted, Handed, Writing
  <2>4. acked' \ acked \subseteq cfg[d].peers
    BY <1>7 DEF AddPeer
  <2>5. AddedIsPersisted'
    <3>1. \A u \in acked' \ refused : u \in Current.peers
      BY <2>2, <2>4 DEF Persist, AddedIsPersisted
    <3>2. Current # Garbled
      BY DEF Safe, Disk
    <3> QED
      BY <1>1, <1>2, <3>1, <3>2 DEF AddedIsPersisted
  <2> QED
    BY <1>4, <2>3, <2>5 DEF Persist
<1> QED
  BY <1>5, <1>6, <1>7

\* The steps of a write, until it returns.
LEMMA WritePersists ==
    ASSUME OneAtATime, PInv, SInv', NEW p \in Procs, OpenTemp(p) \/ FillTemp(p)
    PROVE  Persist'
<1> USE DEF PInv
<1>1. /\ pc[p] \in Writing /\ pc'[p] \in Writing /\ \A q \in Procs \ {p} : pc'[q] = pc[q]
      /\ UNCHANGED <<cfg, why, target, running, acked, refused, fails>>
  BY DEF OpenTemp, FillTemp, Goes, SInv, BaseType, Writing, local, ghosts, bounds
<1>2. Current' = Current
  BY OpenStep, FillStep
<1>3. \A q \in Procs : /\ pc'[q] \in Writing <=> pc[q] \in Writing
                       /\ pc'[q] = pc[q] \/ (pc[q] \in Writing /\ pc'[q] \in Writing)
  BY <1>1
<1>4. \A t : InHand(t) => InHand(t)'
  BY <1>1, <1>3 DEF InHand, Procs, Writing
<1>5. Handed' /\ Accounted'
  BY <1>1, <1>2, <1>3, <1>4 DEF Persist, Handed, Accounted, Procs, Writing
<1>6. Started'
  <2> SUFFICES ASSUME NEW d \in Daemons, pc'[d] \notin {"idle", "run"}
               PROVE  cfg[d].peers \subseteq Current.peers \cup refused \cup Flagged(d)'
    BY <1>1, <1>2 DEF Started
  <2>1. d \in Procs
    BY DEF Procs
  <2>2. pc[d] \notin {"idle", "run"} /\ Flagged(d)' = Flagged(d)
    BY <1>1, <1>3, <2>1 DEF Flagged, Writing
  <2> QED
    BY <2>2 DEF Persist, Started
<1> QED
  BY <1>1, <1>2, <1>5, <1>6, AckedStays, KeepsOrder DEF Persist

\* A write of the starting daemon returns: what it goes on with is in the file,
\* or was reported.
LEMMA DaemonReturns ==
    ASSUME OneAtATime, PInv, SInv', Keeps(Current, Current'), NEW p \in Daemons,
           pc[p] \in Writing, why[p] # "add", NEW ok \in BOOLEAN, Returns(p, ok), running' = running,
           ok => cfg[p].peers \subseteq Current'.peers
    PROVE  Persist'
<1> USE DEF PInv, SInv
<1>0. p \in Procs /\ \A d \in Daemons : d = p
  BY DEF Procs, OneAtATime
<1>1. running' = {} /\ acked' = acked /\ refused \subseteq refused'
  BY DaemonAlone DEF Returns, Writing
<1>2. cfg[p].peers \subseteq Current'.peers \cup refused'
  <2>1. cfg[p].peers \subseteq Current'.peers \cup refused \cup Flagged(p)
    BY DEF Persist, Started, Keeps, Writing
  <2>2. ~ok => Flagged(p) \subseteq refused'
    BY DEF Flagged, Returns
  <2> QED
    BY <1>1, <2>1, <2>2
<1>3. cfg'[p].peers = cfg[p].peers
  <2>1. CASE why[p] = "defaults"
    <3>1. Identify(p, cfg[p].peers)
      BY <2>1 DEF Returns
    <3>2. ids + 1 \in NodeIds
      BY <3>1, NodeIdsAre DEF Identify, BaseType
    <3>3. cfg[p].peers \in SUBSET (Targets \cup {Mixed})
      BY <1>0, TextHas DEF BaseType
    <3>4. Text(ids + 1, cfg[p].peers).peers = cfg[p].peers
      BY <3>2, <3>3, TextTyped
    <3> QED
      BY <1>0, <3>1, <3>4 DEF Identify, Writes, BaseType
  <2>2. CASE why[p] # "defaults"
    BY <2>2 DEF Returns
  <2> QED
    BY <2>1, <2>2
<1>4. Started'
  BY <1>0, <1>2, <1>3 DEF Started
<1> QED
  BY <1>1, <1>4, NotRunning

\* The write of an --add returns: its peer is in the file, or it was refused.
LEMMA AdderReturns ==
    ASSUME OneAtATime, PInv, SInv', Keeps(Current, Current'), NEW a \in Adders,
           pc[a] \in Writing, why[a] = "add", NEW ok \in BOOLEAN, Returns(a, ok), running' = running,
           ok => \A d \in running : cfg[d].peers \subseteq Current'.peers
    PROVE  Persist'
<1> USE DEF PInv, SInv
<1>0. a \in Procs /\ a \notin Daemons /\ \A b \in Adders : b = a
  BY DEF Procs, OneAtATime
<1>1. /\ Goes(a, "idle") /\ UNCHANGED <<cfg, why, target>>
      /\ acked' = IF ok THEN acked \cup {target[a]} ELSE acked
      /\ refused' = IF ok THEN refused ELSE refused \cup {target[a]}
  BY DEF Returns
<1>2. pc'[a] = "idle" /\ \A q \in Procs \ {a} : pc'[q] = pc[q]
  BY <1>0, <1>1 DEF Goes, BaseType
<1>3. PICK d \in Daemons : running = {d} /\ pc[d] = "run"
  BY AdderAlone DEF Writing
<1>4. target[a] \in cfg[d].peers
  BY <1>3 DEF Persist, Handed
<1>5. Handed'
  BY <1>0, <1>2 DEF Handed, Writing
<1>6. Started'
  <2>1. \A e \in Daemons : pc'[e] = "run"
    BY <1>0, <1>2, <1>3 DEF OneAtATime, Procs
  <2> QED
    BY <2>1 DEF Started, Writing
<1>7. Accounted'
  <2>1. \A t : InHand(t) => t = target[a]
    BY <1>0 DEF InHand
  <2>2. \A t \in cfg[d].peers : t \in Current.peers \cup refused \cup {target[a]}
    BY <1>3, <2>1 DEF Persist, Accounted
  <2>3. \A t \in cfg[d].peers : t \in Current'.peers \cup refused'
    BY <1>1, <1>3, <2>2 DEF Keeps
  <2> QED
    BY <1>1, <1>3, <2>3 DEF Accounted
<1>8. AddedIsPersisted'
  <2>1. \A t \in acked \ refused : t \in Current'.peers
    BY DEF Persist, AddedIsPersisted, Keeps
  <2>2. \A t \in acked' \ refused' : t \in Current'.peers
    BY <1>1, <1>3, <1>4, <2>1
  <2>3. Current' # Garbled
    BY DEF Safe, Disk
  <2> QED
    BY <2>2, <2>3 DEF AddedIsPersisted
<1> QED
  BY <1>5, <1>6, <1>7, <1>8 DEF Persist

\* A rename puts in the file what the daemon knows.
LEMMA RenamePersists ==
    ASSUME OneAtATime, PInv, SInv', NEW p \in Procs, RenameTemp(p)
    PROVE  Persist'
<1> USE DEF PInv
<1>1. /\ Current' = data[p] /\ Keeps(Current, Current') /\ Returns(p, TRUE)
  BY RenamePuts
<1>2. pc[p] \in Writing /\ running' = running
  BY DEF RenameTemp, Writing
<1>3. CASE p \in Daemons
  <2>1. Current' = cfg[p] /\ why[p] # "add"
    BY <1>1, <1>2, <1>3, WriterKnows
  <2> QED
    BY <1>1, <1>2, <1>3, <2>1, DaemonReturns
<1>4. CASE p \in Adders
  <2>1. why[p] = "add" /\ \A d \in running : data[p] = cfg[d]
    BY <1>2, <1>4, WriterKnows
  <2> QED
    BY <1>1, <1>2, <1>4, <2>1, AdderReturns
<1> QED
  BY <1>2, <1>3, <1>4, OneWriter

\* A write that fails is reported when it leaves out what the daemon knows.
LEMMA FailPersists ==
    ASSUME OneAtATime, PInv, SInv', NEW p \in Procs, WriteFails(p)
    PROVE  Persist'
<1> USE DEF PInv
<1>1. pc[p] \in Writing /\ running' = running /\ Returns(p, FALSE)
  BY DEF WriteFails, AfterFailure, Writing
<1>2. Keeps(Current, Current')
  BY FailStep, KeepsOrder
<1>3. CASE p \in Daemons
  <2>1. why[p] # "add"
    BY <1>1, <1>3, WriterKnows
  <2> QED
    BY <1>1, <1>2, <1>3, <2>1, DaemonReturns
<1>4. CASE p \in Adders
  <2>1. why[p] = "add"
    BY <1>1, <1>4, WriterKnows
  <2> QED
    BY <1>1, <1>2, <1>4, <2>1, AdderReturns
<1> QED
  BY <1>1, <1>3, <1>4, OneWriter

\* A command that ends, and a step of something else.
LEMMA OthersPersist ==
    ASSUME PInv, SInv', (\E p \in Procs : CommandDone(p)) \/ UNCHANGED vars
    PROVE  Persist'
<1> USE DEF PInv, SInv
<1>1. UNCHANGED <<entry, file, cfg, why, target, running, acked, refused, fails>>
  BY DEF CommandDone, vars, disk, local, ghosts, bounds
<1>2. \A q \in Daemons \cup Adders : pc'[q] = pc[q]
  BY DEF CommandDone, Goes, BaseType, Procs, vars
<1>3. Current' = Current
  BY <1>1 DEF Current
<1>4. Handed' /\ Accounted' /\ Started'
  BY <1>1, <1>2, <1>3 DEF Persist, Handed, Accounted, Started, Flagged, InHand, BaseType
<1> QED
  BY <1>1, <1>3, <1>4, AckedStays, KeepsOrder DEF Persist

\* Every step keeps what is acknowledged in the file.
LEMMA PersistStep ==
    ASSUME OneAtATime, PInv, SInv', [Next]_vars
    PROVE  Persist'
<1>1. Keeps(Current, Current')
  BY FileGrows DEF PInv
<1>2. ASSUME NEW p \in Procs, Load(p) \/ Write(p) \/ WriteFails(p) \/ CommandDone(p)
      PROVE  Persist'
  BY <1>1, <1>2, LoadPersists, WritePersists, RenamePersists, FailPersists, OthersPersist DEF Write
<1>3. ASSUME NEW d \in Daemons,
             \/ Override(d) \/ Save(d) \/ StartRunning(d) \/ Crash(d)
             \/ \E t \in Targets : FlagPeer(d, t)
      PROVE  Persist'
  BY <1>1, <1>3, StartPersists
<1>4. ASSUME NEW a \in Adders, NEW d \in Daemons,
             AppendPeer(a, d) \/ MarshalPeers(a, d) \/ \E t \in Targets : AddPeer(a, d, t)
      PROVE  Persist'
  BY <1>1, <1>4, AddPersists
<1> QED
  BY <1>2, <1>3, <1>4, OthersPersist DEF Next

\* At the start nobody knows or was told anything.
LEMMA PersistInit == Init => Persist
<1> SUFFICES ASSUME Init PROVE Persist
  OBVIOUS
<1>1. running = {} /\ acked = {} /\ \A p \in Procs : pc[p] = "idle"
  BY DEF Init
<1>2. \A d \in Daemons : pc[d] = "idle"
  BY <1>1 DEF Procs
<1> QED
  BY <1>1, <1>2 DEF Persist, Handed, Accounted, Started, AddedIsPersisted, Writing

\* With one daemon and one --add at a time, the daemon's memory, the file and
\* what was answered stay in step, however often writing fails.
THEOREM PersistInvariance == ASSUME OneAtATime PROVE Spec => []PInv
<1>1. Init => PInv
  BY BaseTypeInit, SafeInit, PersistInit DEF PInv, SInv
<1>2. PInv /\ [Next]_vars => PInv'
  BY OneAtATime, SafeStep, PersistStep DEF PInv
<1> QED
  BY <1>1, <1>2, PTL DEF Spec

\* What --add has acknowledged is in config.yaml from then on, whichever step
\* crashes, unless an earlier attempt at it was reported to have failed.
THEOREM AddedStays == ASSUME OneAtATime PROVE Spec => []AddedIsPersisted
<1>1. PInv => AddedIsPersisted
  BY DEF PInv, Persist
<1> QED
  BY <1>1, PersistInvariance, PTL

=============================================================================
