--------------------------- MODULE DownloadProofs ---------------------------
(* Proofs about Download for every set of files, every file size and every  *)
(* partial file found at the start.  Types hold whatever the names are; the *)
(* rest where no two files share a name, which is where it is meant to.     *)
EXTENDS Download, TLAPS

USE DownloadAssumption

-----------------------------------------------------------------------------
(* Contents of files.                                                       *)

\* A unit is the i-th of a content, or one that belongs to no content.
LEMMA UnitsAre ==
    /\ \A h \in Hashes : \A i \in 1..SizeOf[h] : <<h, i>> \in Units
    /\ \A h \in Hashes : \A i \in Nat \ {0} : <<h, i>> \in Units => i <= SizeOf[h]
    /\ Changed \in Units /\ Hole \in Units
<1>1. \A h \in Hashes : \A i \in 1..SizeOf[h] : <<h, i>> \in Units
  BY DEF Units
<1>2. ASSUME NEW h \in Hashes, NEW i \in Nat \ {0}, <<h, i>> \in Units PROVE i <= SizeOf[h]
  <2>1. CASE <<h, i>> \in {Changed, Hole}
    BY <2>1 DEF Changed, Hole
  <2>2. CASE <<h, i>> \notin {Changed, Hole}
    <3>1. \E g \in Hashes : \E k \in 1..SizeOf[g] : <<h, i>> = <<g, k>>
      BY <1>2, <2>2 DEF Units
    <3> QED
      BY <3>1
  <2> QED
    BY <2>1, <2>2
<1> QED
  BY <1>1, <1>2 DEF Units

\* The content of a file is as long as the file.
LEMMA ContentTyped ==
    ASSUME NEW h \in Hashes
    PROVE  Content(h) \in Seq(Units) /\ Len(Content(h)) = SizeOf[h]
<1>1. SizeOf[h] \in Nat
  OBVIOUS
<1>2. \A i \in 1..SizeOf[h] : <<h, i>> \in Units
  BY UnitsAre
<1> QED
  BY <1>1, <1>2 DEF Content

\* A file of h's length that has nothing but units of h in their places is h's.
LEMMA ContentIs ==
    ASSUME NEW h \in Hashes, NEW s \in Seq(Units), Len(s) = SizeOf[h],
           \A i \in DOMAIN s : s[i] = <<h, i>>
    PROVE  s = Content(h)
<1>1. DOMAIN s = 1..SizeOf[h] /\ s = [i \in DOMAIN s |-> s[i]]
  OBVIOUS
<1> QED
  BY <1>1 DEF Content

\* Writing a unit at the end makes a file longer by one.
LEMMA WriteTyped ==
    ASSUME NEW s \in Seq(Units), NEW off \in Nat, NEW u \in Units
    PROVE  /\ WriteAt(s, off, u) \in Seq(Units)
           /\ Len(WriteAt(s, off, u)) = IF off < Len(s) THEN Len(s) ELSE off + 1
<1> DEFINE Written(i) == IF i = off + 1 THEN u ELSE IF i <= Len(s) THEN s[i] ELSE Hole
<1>1. PICK n \in Nat : n = IF off < Len(s) THEN Len(s) ELSE off + 1
  OBVIOUS
<1>2. \A i \in 1..n : Written(i) \in Units
  BY <1>1, UnitsAre
<1>3. WriteAt(s, off, u) = [i \in 1..n |-> Written(i)]
  BY <1>1, Zenon DEF WriteAt
<1> HIDE DEF Written
<1>4. WriteAt(s, off, u) \in [1..n -> Units]
  BY <1>2, <1>3
<1>5. WriteAt(s, off, u) \in Seq(Units) /\ Len(WriteAt(s, off, u)) = n
  BY <1>4
<1> QED
  BY <1>1, <1>5

-----------------------------------------------------------------------------
(* Types.                                                                   *)

BaseType ==
    /\ tmp \in [Names -> Inodes \cup {NoInode}]
    /\ final \in [Names -> Inodes \cup {NoInode}]
    /\ data \in [Inodes -> Seq(Units)]
    /\ pc \in [Hashes -> {"idle", "waiting", "open", "size", "fetch", "discard", "rename",
                           "undo", "promote"}]
    /\ fd \in [Hashes -> Inodes \cup {NoInode}]
    /\ offset \in [Hashes -> Nat]
    /\ tries \in [Hashes -> 0..MaxRetries]
    /\ mishaps \in [Hashes -> 0..Enough]
    /\ status \in [Hashes -> {"KNOWN", "DOWNLOADING", "FAILED", "SEEDING"}]
    /\ saved \in SUBSET Hashes
    /\ edited \in SUBSET Hashes

\* A descriptor is open exactly from OpenFile to Close.
Opened == \A h \in Hashes : fd[h] # NoInode <=> pc[h] \in {"size", "fetch"}

\* The units an attempt believes it has are at most those of the file, and it
\* believes in none before it has looked.
Counted == \A h \in Hashes : offset[h] <= SizeOf[h] /\ (pc[h] # "fetch" => offset[h] = 0)

\* Attempts are counted as long as the session lasts.
Tried == \A h \in Hashes : tries[h] = 0 <=> pc[h] = "idle"

TInv == BaseType /\ Opened /\ Counted /\ Tried

\* A session that has tried may have one more try, or none.
LEMMA Numbers ==
    /\ MaxRetries \in Nat \ {0} /\ Enough \in Nat /\ 0 \in 0..Enough /\ 1 \in 1..MaxRetries
    /\ \A n \in 0..MaxRetries : n < MaxRetries => n + 1 \in 1..MaxRetries
    /\ \A n \in 0..Enough : n < Enough => n + 1 \in 0..Enough
BY DEF Enough

\* An inode that gets a new file is free.
LEMMA FreeIsFree ==
    /\ FreeInode \subseteq Inodes
    /\ \A i \in FreeInode : /\ \A n \in Names : i # tmp[n] /\ i # final[n]
                            /\ \A h \in Hashes : i # fd[h]
BY DEF FreeInode, InUse

\* The initial state has the right types, whatever partial file is found.
LEMMA TypeInit == Init => TInv
<1> SUFFICES ASSUME Init PROVE TInv
  OBVIOUS
<1>1. tmp \in [Names -> Inodes \cup {NoInode}] /\ data \in [Inodes -> Seq(Units)]
  <2>1. 1 \in Inodes /\ <<>> \in Seq(Units)
    BY DEF Inodes
  <2>2. CASE tmp = [n \in Names |-> NoInode] /\ data = [i \in Inodes |-> <<>>]
    BY <2>1, <2>2
  <2>3. ASSUME NEW n \in Names, NEW left \in 1..MaxLeft,
               tmp = [m \in Names |-> IF m = n THEN 1 ELSE NoInode],
               data = [i \in Inodes |-> IF i = 1 THEN [k \in 1..left |-> Changed] ELSE <<>>]
        PROVE  tmp \in [Names -> Inodes \cup {NoInode}] /\ data \in [Inodes -> Seq(Units)]
    <3>1. [k \in 1..left |-> Changed] \in Seq(Units)
      BY UnitsAre
    <3> QED
      BY <2>1, <2>3, <3>1
  <2> QED
    BY <2>2, <2>3 DEF Init
<1>2. BaseType
  BY <1>1, Numbers DEF Init, BaseType
<1>3. Opened /\ Counted /\ Tried
  BY DEF Init, Opened, Counted, Tried
<1> QED
  BY <1>2, <1>3 DEF TInv

\* Meeting a mishap, or none, keeps the count within bounds.
LEMMA MetTyped ==
    ASSUME TInv, NEW h \in Hashes, Met(h)
    PROVE  /\ mishaps' \in [Hashes -> 0..Enough]
           /\ \A g \in Hashes \ {h} : mishaps'[g] = mishaps[g]
           /\ mishaps'[h] = IF mishaps[h] < Enough THEN mishaps[h] + 1 ELSE mishaps[h]
<1>1. mishaps \in [Hashes -> 0..Enough]
  BY DEF TInv, BaseType
<1>2. PICK k \in 0..Enough : k = IF mishaps[h] < Enough THEN mishaps[h] + 1 ELSE mishaps[h]
  BY <1>1, Numbers
<1>3. mishaps' = [mishaps EXCEPT ![h] = k]
  BY <1>2 DEF Met
<1> QED
  BY <1>1, <1>2, <1>3

\* After a failed attempt the session is waiting for its next one or over.
LEMMA FailureIs ==
    ASSUME TInv, NEW h \in Hashes, AttemptFails(h)
    PROVE  /\ status' = [status EXCEPT ![h] = "FAILED"]
           /\ \E to \in {"idle", "waiting"}, n \in 0..MaxRetries :
                 /\ pc' = [pc EXCEPT ![h] = to] /\ tries' = [tries EXCEPT ![h] = n]
                 /\ n = 0 <=> to = "idle"
                 /\ to = "waiting" => n = tries[h] + 1
                 /\ to = "idle" => tries[h] = MaxRetries
<1>1. PICK n \in 0..MaxRetries : n = tries[h]
  BY DEF TInv, BaseType
<1>2. CASE n < MaxRetries /\ tries' = [tries EXCEPT ![h] = n + 1] /\ Goes(h, "waiting")
  <2>1. n + 1 \in 0..MaxRetries /\ n + 1 # 0
    BY <1>2, Numbers
  <2> QED
    BY <1>1, <1>2, <2>1 DEF AttemptFails, Goes
<1>3. CASE n >= MaxRetries /\ tries' = [tries EXCEPT ![h] = 0] /\ Goes(h, "idle")
  <2>1. n = MaxRetries /\ 0 \in 0..MaxRetries
    BY <1>3
  <2> QED
    BY <1>1, <1>3, <2>1 DEF AttemptFails, Goes
<1>4. tries' = [tries EXCEPT ![h] = n + 1] \/ tries' = [tries EXCEPT ![h] = 0]
  BY <1>1 DEF AttemptFails
<1> QED
  BY <1>1, <1>2, <1>3 DEF AttemptFails

\* The session itself goes back to waiting with its count raised, or is over.
LEMMA FailureHere ==
    ASSUME TInv, NEW h \in Hashes, AttemptFails(h)
    PROVE  /\ pc'[h] \in {"idle", "waiting"}
           /\ pc'[h] = "waiting" => tries'[h] = tries[h] + 1
<1>1. PICK to \in {"idle", "waiting"}, n \in 0..MaxRetries :
         /\ pc' = [pc EXCEPT ![h] = to] /\ tries' = [tries EXCEPT ![h] = n]
         /\ to = "waiting" => n = tries[h] + 1
  BY FailureIs
<1>2. pc'[h] = to /\ tries'[h] = n
  BY <1>1 DEF TInv, BaseType
<1> QED
  BY <1>1, <1>2

\* A failed attempt keeps the types, whatever it leaves of the files.
LEMMA FailureTyped ==
    ASSUME TInv, NEW h \in Hashes, AttemptFails(h),
           Closes(h) \/ (pc[h] \in {"discard", "undo"} /\ UNCHANGED <<fd, offset>>),
           tmp' \in [Names -> Inodes \cup {NoInode}], UNCHANGED <<final, data, saved, edited>>,
           mishaps' \in [Hashes -> 0..Enough]
    PROVE  TInv'
<1> USE DEF TInv, BaseType
<1>1. PICK to \in {"idle", "waiting"}, n \in 0..MaxRetries :
         /\ pc' = [pc EXCEPT ![h] = to] /\ tries' = [tries EXCEPT ![h] = n]
         /\ n = 0 <=> to = "idle"
  BY FailureIs
<1>2. status' \in [Hashes -> {"KNOWN", "DOWNLOADING", "FAILED", "SEEDING"}]
  <2>1. status' = [status EXCEPT ![h] = "FAILED"]
    BY FailureIs
  <2> QED
    BY <2>1
<1>3. /\ fd' \in [Hashes -> Inodes \cup {NoInode}] /\ offset' \in [Hashes -> Nat]
      /\ \A g \in Hashes \ {h} : fd'[g] = fd[g] /\ offset'[g] = offset[g]
      /\ fd'[h] = NoInode /\ offset'[h] = 0
  <2>1. CASE Closes(h)
    BY <2>1 DEF Closes
  <2>2. CASE pc[h] \in {"discard", "undo"} /\ UNCHANGED <<fd, offset>>
    BY <2>2 DEF Opened, Counted
  <2> QED
    BY <2>1, <2>2
<1>4. BaseType'
  BY <1>1, <1>2, <1>3
<1>5. Opened' /\ Tried'
  BY <1>1, <1>3 DEF Opened, Tried
<1>6. Counted'
  <2>1. \A g \in Hashes : 0 <= SizeOf[g]
    BY DownloadAssumption
  <2>2. pc'[h] # "fetch" /\ \A g \in Hashes \ {h} : pc'[g] = pc[g]
    BY <1>1
  <2> QED
    BY <1>3, <2>1, <2>2 DEF Counted
<1> QED
  BY <1>4, <1>5, <1>6

\* Every step keeps the types.
LEMMA TypeStep == TInv /\ [Next]_vars => TInv'
<1> SUFFICES ASSUME TInv, [Next]_vars PROVE TInv'
  OBVIOUS
<1> USE DEF TInv, BaseType, disk, record, source
<1>0. \A h \in Hashes : NameOf[h] \in Names /\ SizeOf[h] \in Nat
  OBVIOUS
<1>1. ASSUME NEW h \in Hashes, Begin(h) \/ Acquire(h) \/ Edit(h) \/ Restore(h) PROVE TInv'
  <2>1. CASE Begin(h)
    <3>1. tries' \in [Hashes -> 0..MaxRetries] /\ mishaps' \in [Hashes -> 0..Enough]
      BY <2>1, Numbers DEF Begin
    <3>2. pc[h] = "idle" /\ pc' = [pc EXCEPT ![h] = "waiting"] /\ tries' = [tries EXCEPT ![h] = 1]
      BY <2>1 DEF Begin, Goes
    <3>3. Tried' /\ Opened' /\ Counted'
      BY <2>1, <3>2 DEF Begin, Tried, Opened, Counted
    <3> QED
      BY <2>1, <3>1, <3>2, <3>3 DEF Begin
  <2>2. CASE Acquire(h)
    BY <2>2 DEF Acquire, Goes, Opened, Counted, Tried
  <2>3. CASE Edit(h) \/ Restore(h)
    <3>1. edited' \subseteq Hashes
      BY <2>3 DEF Edit, Restore
    <3>2. UNCHANGED <<disk, pc, fd, offset, tries, mishaps, record>>
      BY <2>3 DEF Edit, Restore
    <3> QED
      BY <3>1, <3>2 DEF Opened, Counted, Tried
  <2> QED
    BY <1>1, <2>1, <2>2, <2>3
<1>2. ASSUME NEW h \in Hashes, OpenTmp(h) PROVE TInv'
  <2>1. PICK i \in Inodes :
           /\ fd' = [fd EXCEPT ![h] = i]
           /\ tmp' = [tmp EXCEPT ![NameOf[h]] = i]
           /\ data' = data \/ data' = [data EXCEPT ![i] = <<>>]
    <3>1. CASE tmp[NameOf[h]] # NoInode
      <4>1. tmp[NameOf[h]] \in Inodes /\ tmp = [tmp EXCEPT ![NameOf[h]] = tmp[NameOf[h]]]
        BY <1>0, <3>1
      <4> QED
        BY <1>2, <3>1, <4>1 DEF OpenTmp
    <3>2. CASE tmp[NameOf[h]] = NoInode
      BY <1>2, <3>2, FreeIsFree DEF OpenTmp
    <3> QED
      BY <3>1, <3>2
  <2>2. /\ pc[h] = "open" /\ pc' = [pc EXCEPT ![h] = "size"]
        /\ UNCHANGED <<final, offset, tries, mishaps, status, saved, edited>>
    BY <1>2 DEF OpenTmp, Goes
  <2>3. BaseType'
    <3>1. data' \in [Inodes -> Seq(Units)]
      <4>1. <<>> \in Seq(Units)
        OBVIOUS
      <4> QED
        BY <2>1, <4>1
    <3>2. tmp' \in [Names -> Inodes \cup {NoInode}] /\ fd' \in [Hashes -> Inodes \cup {NoInode}]
      BY <1>0, <2>1
    <3> QED
      BY <2>2, <3>1, <3>2
  <2>4. Opened' /\ Counted' /\ Tried'
    BY <2>1, <2>2 DEF Opened, Counted, Tried, Inodes, NoInode
  <2> QED
    BY <2>3, <2>4
<1>3. ASSUME NEW h \in Hashes, SizeUp(h) PROVE TInv'
  <2>1. /\ pc[h] = "size" /\ pc' = [pc EXCEPT ![h] = "fetch"]
        /\ UNCHANGED <<tmp, final, fd, tries, mishaps, status, saved, edited>>
    BY <1>3 DEF SizeUp, Goes
  <2>2. fd[h] \in Inodes /\ data[fd[h]] \in Seq(Units)
    BY <2>1 DEF Opened
  <2>3. CASE /\ data' = [data EXCEPT ![fd[h]] = <<>>] /\ offset' = offset
    <3>1. data' \in [Inodes -> Seq(Units)]
      BY <2>2, <2>3
    <3> QED
      BY <2>1, <2>3, <3>1 DEF Opened, Counted, Tried
  <2>4. CASE /\ Len(data[fd[h]]) <= SizeOf[h] /\ data' = data
             /\ offset' = [offset EXCEPT ![h] = Len(data[fd[h]])]
    <3>1. Len(data[fd[h]]) \in Nat
      BY <2>2
    <3> QED
      BY <2>1, <2>4, <3>1 DEF Opened, Counted, Tried
  <2>5. Len(data[fd[h]]) \in Nat
    BY <2>2
  <2>6. \/ data' = [data EXCEPT ![fd[h]] = <<>>] /\ offset' = offset
        \/ /\ ~TooLong(h, Len(data[fd[h]])) /\ data' = data
           /\ offset' = [offset EXCEPT ![h] = Len(data[fd[h]])]
    BY <1>3 DEF SizeUp
  <2>7. ~TooLong(h, Len(data[fd[h]])) => Len(data[fd[h]]) <= SizeOf[h]
    BY <1>0, <2>5 DEF TooLong
  <2> QED
    BY <2>3, <2>4, <2>6, <2>7
<1>4. ASSUME NEW h \in Hashes, FetchUnit(h) PROVE TInv'
  <2>1. /\ pc[h] = "fetch" /\ offset[h] < SizeOf[h]
        /\ offset' = [offset EXCEPT ![h] = @ + 1]
        /\ UNCHANGED <<tmp, final, pc, fd, tries, status, saved, edited>>
    BY <1>4 DEF FetchUnit
  <2>2. PICK u \in Units : /\ data' = [data EXCEPT ![fd[h]] = WriteAt(@, offset[h], u)]
                           /\ Met(h) \/ UNCHANGED mishaps
    <3>1. <<h, offset[h] + 1>> \in Units /\ Changed \in Units
      <4>1. offset[h] + 1 \in 1..SizeOf[h]
        BY <1>0, <2>1
      <4> QED
        BY <4>1, UnitsAre
    <3> QED
      BY <1>4, <3>1 DEF FetchUnit, Served
  <2>3. fd[h] \in Inodes /\ data[fd[h]] \in Seq(Units)
    BY <2>1 DEF Opened
  <2>4. WriteAt(data[fd[h]], offset[h], u) \in Seq(Units)
    BY <2>3, WriteTyped
  <2>5. data' \in [Inodes -> Seq(Units)]
    BY <2>2, <2>3, <2>4
  <2>6. Opened' /\ Counted' /\ Tried'
    <3>1. Opened' /\ Tried'
      BY <2>1 DEF Opened, Tried
    <3>2. offset[h] + 1 <= SizeOf[h] /\ offset'[h] = offset[h] + 1
      BY <1>0, <2>1
    <3>3. \A g \in Hashes \ {h} : offset'[g] = offset[g]
      BY <2>1
    <3>4. Counted'
      BY <2>1, <3>2, <3>3 DEF Counted
    <3> QED
      BY <3>1, <3>4
  <2>7. mishaps' \in [Hashes -> 0..Enough]
    BY <2>2, MetTyped
  <2>8. BaseType'
    <3>1. offset' \in [Hashes -> Nat]
      BY <2>1
    <3> QED
      BY <2>1, <2>5, <2>7, <3>1
  <2> QED
    BY <2>6, <2>8
<1>5. ASSUME NEW h \in Hashes, TransientFailure(h) PROVE TInv'
  <2>1. mishaps' \in [Hashes -> 0..Enough]
    BY <1>5, MetTyped DEF TransientFailure
  <2> QED
    BY <1>5, <2>1, FailureTyped DEF TransientFailure
<1>6. ASSUME NEW h \in Hashes, Verify(h) PROVE TInv'
  <2>1. CASE AttemptFails(h)
    BY <1>6, <2>1, FailureTyped DEF Verify
  <2>2. CASE ~AttemptFails(h)
    <3>1. PICK to \in {"rename", "discard"} : Goes(h, to)
      BY <1>6, <2>2 DEF Verify
    <3>2. /\ pc[h] = "fetch" /\ fd' = [fd EXCEPT ![h] = NoInode]
          /\ offset' = [offset EXCEPT ![h] = 0]
          /\ UNCHANGED <<disk, tries, status, mishaps, saved, edited>>
      BY <1>6, <2>2 DEF Verify, Closes
    <3>3. pc' = [pc EXCEPT ![h] = to]
      BY <3>1 DEF Goes
    <3>4. BaseType'
      BY <3>2, <3>3
    <3>5. Opened'
      BY <3>2, <3>3 DEF Opened
    <3>6. Counted'
      <4>1. \A g \in Hashes : offset'[g] <= SizeOf[g]
        <5>1. \A g \in Hashes : 0 <= SizeOf[g]
          BY <1>0
        <5> QED
          BY <3>2, <5>1 DEF Counted
      <4>2. \A g \in Hashes : pc'[g] # "fetch" => g = h \/ pc[g] # "fetch"
        BY <3>3
      <4>3. \A g \in Hashes : offset'[g] = IF g = h THEN 0 ELSE offset[g]
        BY <3>2
      <4>4. \A g \in Hashes : pc'[g] # "fetch" => offset'[g] = 0
        BY <4>2, <4>3 DEF Counted
      <4> QED
        BY <4>1, <4>4 DEF Counted
    <3>7. Tried'
      BY <3>2, <3>3 DEF Tried
    <3> QED
      BY <3>4, <3>5, <3>6, <3>7
  <2> QED
    BY <2>1, <2>2
<1>7. ASSUME NEW h \in Hashes, Discard(h) PROVE TInv'
  <2>1. tmp' \in [Names -> Inodes \cup {NoInode}]
    BY <1>0, <1>7 DEF Discard, TmpRemoved
  <2> QED
    BY <1>7, <2>1, FailureTyped DEF Discard
<1>8. ASSUME NEW h \in Hashes, Rename(h) PROVE TInv'
  <2>1. PICK to \in {"promote", "undo"} : pc' = [pc EXCEPT ![h] = to]
    BY <1>8 DEF Rename, Goes
  <2>2. /\ pc[h] = "rename" /\ UNCHANGED <<data, fd, offset, tries, mishaps, record, source>>
        /\ tmp' \in [Names -> Inodes \cup {NoInode}] /\ final' \in [Names -> Inodes \cup {NoInode}]
    BY <1>0, <1>8 DEF Rename
  <2>3. Opened' /\ Counted' /\ Tried'
    BY <2>1, <2>2 DEF Opened, Counted, Tried
  <2> QED
    BY <2>1, <2>2, <2>3
<1>9. ASSUME NEW h \in Hashes, RenameFails(h) PROVE TInv'
  <2>1. mishaps' \in [Hashes -> 0..Enough]
    BY <1>9, MetTyped DEF RenameFails
  <2> QED
    BY <1>9, <2>1 DEF RenameFails, Goes, Opened, Counted, Tried
<1>10. ASSUME NEW h \in Hashes, Promote(h) PROVE TInv'
  <2>1. tries' \in [Hashes -> 0..MaxRetries] /\ mishaps' \in [Hashes -> 0..Enough]
    BY <1>10, Numbers DEF Promote
  <2>2. Tried' /\ Opened' /\ Counted'
    BY <1>10 DEF Promote, Goes, Tried, Opened, Counted
  <2> QED
    BY <1>10, <2>1, <2>2 DEF Promote, Goes
<1>11. CASE Crash
  <2>1. mishaps' \in [Hashes -> 0..Enough] /\ tries' \in [Hashes -> 0..MaxRetries]
    BY <1>11, Numbers DEF Crash, Enough
  <2>2. Opened' /\ Counted' /\ Tried'
    BY <1>0, <1>11 DEF Crash, Opened, Counted, Tried
  <2> QED
    BY <1>11, <2>1, <2>2 DEF Crash
<1>12. CASE UNCHANGED vars
  BY <1>12 DEF vars, Opened, Counted, Tried
<1> QED
  BY <1>1, <1>2, <1>3, <1>4, <1>5, <1>6, <1>7, <1>8, <1>9, <1>10, <1>11, <1>12
     DEF Next, Work, Step

\* Types, descriptors and counts hold at all times, whatever the names are.
THEOREM TypeInvariance == Spec => []TInv
BY TypeInit, TypeStep, PTL DEF Spec

\* The variables keep their types, a descriptor is open exactly while a file is
\* fetched and no attempt asks for more than the file has.
THEOREM TypeCorrect == Spec => []TypeOK
<1>1. TInv => TypeOK
  <2>1. BaseType => DOMAIN data = Inodes /\ \A i \in Inodes : \A k \in DOMAIN data[i] : data[i][k] \in Units
    <3> SUFFICES ASSUME BaseType, NEW i \in Inodes, NEW k \in DOMAIN data[i]
                 PROVE  data[i][k] \in Units
      BY DEF BaseType
    <3>1. data[i] \in Seq(Units)
      BY DEF BaseType
    <3> QED
      BY <3>1
  <2> QED
    BY <2>1 DEF TInv, BaseType, Opened, Counted, Tried, TypeOK
<1> QED
  BY <1>1, TypeInvariance, PTL

-----------------------------------------------------------------------------
(* Files with names of their own.  The invariant follows one hash through    *)
(* its attempt: the descriptor is that of the partial file, whose length is  *)
(* known; what was verified is still there when it is renamed, and what was  *)
(* renamed is still there when the record is promoted and ever after.  It    *)
(* holds because no other attempt has any of these files open.               *)

\* No two files on offer have the same name.
NamesApart == \A g, h \in Hashes : NameOf[g] = NameOf[h] => g = h

\* A partial file has one name, and it is no final file.
EntriesApart ==
    \A n \in Names : tmp[n] # NoInode =>
        \A m \in Names : (tmp[m] = tmp[n] => m = n) /\ final[m] # tmp[n]

PartHolds(h) ==
    LET part == tmp[NameOf[h]] IN
    /\ pc[h] \in {"size", "fetch"} => fd[h] = part
    /\ pc[h] = "fetch" => Len(data[part]) = offset[h]
    /\ pc[h] = "rename" => part # NoInode /\ data[part] = Content(h)
    /\ pc[h] = "discard" => /\ part # NoInode
                            /\ Len(data[part]) = SizeOf[h] /\ data[part] # Content(h)

FinalHolds(h) ==
    LET whole == final[NameOf[h]] IN
    pc[h] = "promote" \/ h \in saved => whole # NoInode /\ data[whole] = Content(h)

Holds(h) == PartHolds(h) /\ FinalHolds(h)

\* The partial file has a unit in it that is not of h.
Foul(h) ==
    LET part == tmp[NameOf[h]] IN
    part # NoInode /\ \E i \in DOMAIN data[part] : data[part][i] # <<h, i>>

\* What is about to cost the attempt: a foul partial file, or a failed rename.
Charge(h) == IF pc[h] = "undo" \/ Foul(h) THEN 1 ELSE 0

\* The session has met a mishap for each of its attempts so far, but for one that
\* a partial file found at the beginning may cost.
Paid(h) ==
    pc[h] # "idle" /\ mishaps[h] # Enough => tries[h] + Charge(h) <= mishaps[h] + 2

AInv == TInv /\ EntriesApart /\ \A h \in Hashes : Holds(h) /\ Paid(h)

\* The step leaves everything alone that belongs to g.
Undisturbed(g) ==
    LET n == NameOf[g] IN
    /\ pc'[g] = pc[g] /\ fd'[g] = fd[g] /\ offset'[g] = offset[g]
    /\ tries'[g] = tries[g] /\ mishaps'[g] = mishaps[g]
    /\ g \in saved' <=> g \in saved
    /\ tmp'[n] = tmp[n] /\ final'[n] = final[n]
    /\ tmp[n] # NoInode => data'[tmp[n]] = data[tmp[n]]
    /\ final[n] # NoInode => data'[final[n]] = data[final[n]]

\* What holds of a hash that is left alone goes on to hold.
LEMMA UndisturbedHolds ==
    ASSUME TInv, NEW g \in Hashes, Holds(g), Paid(g), Undisturbed(g)
    PROVE  Holds(g)' /\ Paid(g)'
<1>1. pc[g] \in {"size", "fetch"} => tmp[NameOf[g]] # NoInode
  BY DEF TInv, Opened, Holds, PartHolds
<1>2. PartHolds(g)'
  BY <1>1 DEF Undisturbed, Holds, PartHolds
<1>3. FinalHolds(g)'
  BY DEF Undisturbed, Holds, FinalHolds
<1>4. Paid(g)'
  <2>1. Foul(g)' <=> Foul(g)
    BY DEF Undisturbed, Foul
  <2>2. Charge(g)' = Charge(g)
    BY <2>1 DEF Undisturbed, Charge
  <2> QED
    BY <2>2 DEF Undisturbed, Paid
<1> QED
  BY <1>2, <1>3, <1>4 DEF Holds

\* A step of one session leaves the other hashes alone.
LEMMA OthersUndisturbed ==
    ASSUME AInv, NamesApart, NEW h \in Hashes, Begin(h) \/ Work(h)
    PROVE  \A g \in Hashes \ {h} : Undisturbed(g)
<1> SUFFICES ASSUME NEW g \in Hashes, g # h PROVE Undisturbed(g)
  OBVIOUS
<1> USE DEF AInv, TInv, BaseType, disk, record, source
<1>0. NameOf[g] \in Names /\ NameOf[h] \in Names /\ NameOf[g] # NameOf[h]
  BY DEF NamesApart
<1>1. CASE Begin(h) \/ Acquire(h) \/ Promote(h)
  BY <1>1 DEF Begin, Acquire, Promote, Goes, Undisturbed
<1>2. CASE TransientFailure(h) \/ RenameFails(h)
  <2>1. mishaps'[g] = mishaps[g]
    BY <1>2, MetTyped DEF TransientFailure, RenameFails
  <2>2. pc'[g] = pc[g] /\ tries'[g] = tries[g] /\ UNCHANGED <<disk, saved>>
    BY <1>2 DEF TransientFailure, RenameFails, AttemptFails, Goes
  <2>3. fd'[g] = fd[g] /\ offset'[g] = offset[g]
    BY <1>2 DEF TransientFailure, RenameFails, Closes
  <2> QED
    BY <2>1, <2>2, <2>3 DEF Undisturbed
<1>3. CASE Verify(h)
  <2>1. pc'[g] = pc[g] /\ tries'[g] = tries[g]
    BY <1>3 DEF Verify, AttemptFails, Goes
  <2>2. /\ fd'[g] = fd[g] /\ offset'[g] = offset[g]
        /\ UNCHANGED <<disk, mishaps, saved>>
    BY <1>3 DEF Verify, Closes
  <2> QED
    BY <2>1, <2>2 DEF Undisturbed
<1>4. CASE OpenTmp(h)
  <2>1. /\ pc'[g] = pc[g] /\ fd'[g] = fd[g] /\ UNCHANGED <<final, offset, tries, mishaps, saved>>
        /\ tmp'[NameOf[g]] = tmp[NameOf[g]]
    BY <1>0, <1>4 DEF OpenTmp, Goes
  <2>2. CASE data' = data
    BY <2>1, <2>2 DEF Undisturbed
  <2>3. ASSUME NEW i \in FreeInode, data' = [data EXCEPT ![i] = <<>>]
        PROVE  Undisturbed(g)
    <3>1. i # tmp[NameOf[g]] /\ i # final[NameOf[g]]
      BY <1>0, FreeIsFree
    <3> QED
      BY <1>0, <2>1, <2>3, <3>1 DEF Undisturbed
  <2> QED
    BY <1>4, <2>2, <2>3 DEF OpenTmp
<1>5. CASE SizeUp(h) \/ FetchUnit(h)
  <2>1. /\ pc'[g] = pc[g] /\ offset'[g] = offset[g]
        /\ UNCHANGED <<tmp, final, fd, tries, saved>>
    BY <1>5 DEF SizeUp, FetchUnit, Goes
  <2>2. pc[h] \in {"size", "fetch"} /\ mishaps'[g] = mishaps[g]
    BY <1>5, MetTyped DEF SizeUp, FetchUnit
  <2>3. fd[h] = tmp[NameOf[h]] /\ fd[h] # NoInode
    BY <2>2 DEF Opened, Holds, PartHolds
  <2>4. fd[h] # tmp[NameOf[g]] /\ fd[h] # final[NameOf[g]]
    BY <1>0, <2>3 DEF EntriesApart
  <2>5. \A i \in Inodes \ {fd[h]} : data'[i] = data[i]
    BY <1>5 DEF SizeUp, FetchUnit
  <2>6. /\ tmp[NameOf[g]] # NoInode => tmp[NameOf[g]] \in Inodes
        /\ final[NameOf[g]] # NoInode => final[NameOf[g]] \in Inodes
    BY <1>0
  <2> QED
    BY <2>1, <2>2, <2>4, <2>5, <2>6 DEF Undisturbed
<1>6. CASE Discard(h)
  BY <1>0, <1>6 DEF Discard, TmpRemoved, AttemptFails, Goes, Undisturbed
<1>7. CASE Rename(h)
  BY <1>0, <1>7 DEF Rename, Goes, Undisturbed
<1> QED
  BY <1>1, <1>2, <1>3, <1>4, <1>5, <1>6, <1>7 DEF Work, Step

\* No step gives an inode of a partial file a second name.
LEMMA EntriesStayApart ==
    ASSUME AInv, NEW h \in Hashes, Begin(h) \/ Work(h)
    PROVE  EntriesApart'
<1> USE DEF AInv, TInv, BaseType, disk, record, source
<1>0. NameOf[h] \in Names
  OBVIOUS
<1>1. CASE UNCHANGED <<tmp, final>>
  BY <1>1 DEF EntriesApart
<1>2. CASE OpenTmp(h)
  <2>1. CASE UNCHANGED <<tmp, final>>
    BY <2>1 DEF EntriesApart
  <2>2. ASSUME NEW i \in FreeInode, tmp' = [tmp EXCEPT ![NameOf[h]] = i], final' = final
        PROVE  EntriesApart'
    BY <1>0, <2>2, FreeIsFree DEF EntriesApart
  <2> QED
    BY <1>2, <2>1, <2>2 DEF OpenTmp
<1>3. CASE Discard(h)
  BY <1>0, <1>3 DEF Discard, TmpRemoved, EntriesApart
<1>4. CASE Rename(h)
  <2>1. CASE UNCHANGED <<tmp, final>>
    BY <1>1, <2>1
  <2>2. CASE /\ final' = [final EXCEPT ![NameOf[h]] = tmp[NameOf[h]]]
             /\ tmp' = [tmp EXCEPT ![NameOf[h]] = NoInode]
             /\ tmp[NameOf[h]] # NoInode
    BY <1>0, <2>2 DEF EntriesApart
  <2> QED
    BY <1>4, <2>1, <2>2 DEF Rename
<1>5. CASE \/ Begin(h) \/ Acquire(h) \/ TransientFailure(h) \/ RenameFails(h)
           \/ SizeUp(h) \/ FetchUnit(h) \/ Verify(h) \/ Promote(h)
  BY <1>1, <1>5
     DEF Begin, Acquire, TransientFailure, RenameFails, SizeUp, FetchUnit, Verify, Promote
<1> QED
  BY <1>2, <1>3, <1>4, <1>5 DEF Work, Step

\* A unit is fetched behind what the partial file has.
LEMMA FetchAppends ==
    ASSUME AInv, NEW h \in Hashes, FetchUnit(h)
    PROVE  LET part == tmp[NameOf[h]] IN
           /\ pc[h] = "fetch" /\ pc'[h] = "fetch" /\ fd[h] = part /\ fd' = fd /\ tmp' = tmp
           /\ part \in Inodes /\ Len(data[part]) = offset[h] /\ offset[h] \in Nat
           /\ offset[h] + 1 <= SizeOf[h] /\ offset'[h] = offset[h] + 1
           /\ Len(data'[part]) = offset[h] + 1
           /\ \E u \in Served(h, offset[h] + 1) :
                 /\ u = Changed \/ u = <<h, offset[h] + 1>>
                 /\ data'[part][offset[h] + 1] = u
                 /\ \A i \in 1..offset[h] : data'[part][i] = data[part][i]
                 /\ IF u = Changed THEN Met(h) ELSE UNCHANGED mishaps
<1> USE DEF AInv, TInv, BaseType
<1>0. NameOf[h] \in Names /\ SizeOf[h] \in Nat
  OBVIOUS
<1>1. /\ pc[h] = "fetch" /\ pc' = pc /\ fd' = fd /\ tmp' = tmp
      /\ offset[h] < SizeOf[h] /\ offset'[h] = offset[h] + 1
  BY <1>0 DEF FetchUnit
<1>2. fd[h] = tmp[NameOf[h]] /\ fd[h] \in Inodes /\ Len(data[fd[h]]) = offset[h]
  BY <1>1 DEF Opened, Holds, PartHolds
<1>3. PICK off \in Nat : off = offset[h]
  OBVIOUS
<1>4. PICK u \in Served(h, off + 1) :
         /\ data' = [data EXCEPT ![fd[h]] = WriteAt(@, off, u)]
         /\ IF u = Changed THEN Met(h) ELSE UNCHANGED mishaps
  BY <1>3 DEF FetchUnit
<1>5. (u = Changed \/ u = <<h, off + 1>>) /\ u \in Units
  <2>1. off + 1 \in 1..SizeOf[h]
    BY <1>0, <1>1, <1>3
  <2> QED
    BY <1>4, <2>1, UnitsAre DEF Served
<1>6. PICK s \in Seq(Units) : s = data[fd[h]] /\ Len(s) = off
  BY <1>2, <1>3
<1>7. data'[fd[h]] = WriteAt(s, off, u)
  BY <1>2, <1>4, <1>6
<1>8. Len(WriteAt(s, off, u)) = off + 1
  <2>1. Len(WriteAt(s, off, u)) = IF off < Len(s) THEN Len(s) ELSE off + 1
    BY <1>5, WriteTyped
  <2> QED
    BY <1>6, <2>1
<1>9. /\ WriteAt(s, off, u)[off + 1] = u
      /\ \A i \in 1..off : WriteAt(s, off, u)[i] = s[i]
  <2>1. WriteAt(s, off, u) = [i \in 1..(off + 1) |->
                                IF i = off + 1 THEN u ELSE IF i <= Len(s) THEN s[i] ELSE Hole]
    BY <1>6 DEF WriteAt
  <2> QED
    BY <1>6, <2>1
<1> QED
  BY <1>0, <1>1, <1>2, <1>3, <1>4, <1>5, <1>6, <1>7, <1>8, <1>9

\* What holds of the partial file of the hash whose session makes the step goes on
\* to hold.
LEMMA OwnPart ==
    ASSUME AInv, NEW h \in Hashes, Begin(h) \/ Work(h)
    PROVE  PartHolds(h)'
<1> USE DEF AInv, TInv, BaseType, disk, record, source
<1>0. NameOf[h] \in Names /\ SizeOf[h] \in Nat
  OBVIOUS
<1>1. CASE Begin(h) \/ Acquire(h) \/ RenameFails(h) \/ Promote(h)
  <2>1. pc'[h] \in {"waiting", "open", "undo", "idle"}
    BY <1>1 DEF Begin, Acquire, RenameFails, Promote, Goes
  <2> QED
    BY <2>1 DEF PartHolds
<1>2. CASE AttemptFails(h)
  <2>1. pc'[h] \in {"waiting", "idle"}
    BY <1>2, FailureIs
  <2> QED
    BY <2>1 DEF PartHolds
<1>3. CASE OpenTmp(h)
  <2>1. pc'[h] = "size" /\ fd'[h] = tmp'[NameOf[h]]
    BY <1>0, <1>3 DEF OpenTmp, Goes
  <2> QED
    BY <2>1 DEF PartHolds
<1>4. CASE SizeUp(h)
  <2>1. pc[h] = "size" /\ pc'[h] = "fetch" /\ UNCHANGED <<tmp, fd>>
    BY <1>4 DEF SizeUp, Goes
  <2>2. fd[h] = tmp[NameOf[h]] /\ fd[h] \in Inodes
    BY <2>1 DEF Opened, Holds, PartHolds
  <2>3. Len(data'[fd[h]]) = offset'[h]
    <3>1. offset[h] = 0
      BY <2>1 DEF Counted
    <3>2. CASE data' = [data EXCEPT ![fd[h]] = <<>>] /\ offset' = offset
      <4>1. data'[fd[h]] = <<>>
        BY <2>2, <3>2
      <4> QED
        BY <3>1, <3>2, <4>1
    <3>3. CASE data' = data /\ offset' = [offset EXCEPT ![h] = Len(data[fd[h]])]
      BY <3>3
    <3> QED
      BY <1>4, <3>2, <3>3 DEF SizeUp
  <2> QED
    BY <2>1, <2>2, <2>3 DEF PartHolds
<1>5. CASE FetchUnit(h)
  BY <1>5, FetchAppends DEF PartHolds
<1>6. CASE Verify(h) /\ ~AttemptFails(h)
  <2>1. pc[h] = "fetch" /\ offset[h] >= SizeOf[h] /\ UNCHANGED <<tmp, final, data>>
    BY <1>6 DEF Verify
  <2>2. tmp[NameOf[h]] \in Inodes /\ Len(data[tmp[NameOf[h]]]) = offset[h]
    BY <2>1 DEF Opened, Holds, PartHolds
  <2>3. offset[h] = SizeOf[h]
    BY <1>0, <2>1 DEF Counted
  <2>4. tmp[NameOf[h]] # NoInode
    BY <2>2 DEF Inodes, NoInode
  <2>5. pc'[h] = IF HashMatches(h) THEN "rename" ELSE "discard"
    BY <1>6 DEF Verify, Goes
  <2> QED
    BY <2>1, <2>2, <2>3, <2>4, <2>5 DEF HashMatches, PartHolds
<1>7. CASE Rename(h)
  <2>1. pc'[h] \in {"promote", "undo"}
    BY <1>7 DEF Rename, Goes
  <2> QED
    BY <2>1 DEF PartHolds
<1> QED
  BY <1>1, <1>2, <1>3, <1>4, <1>5, <1>6, <1>7 DEF Work, Step, TransientFailure, Discard

\* No step writes into a final file.
LEMMA FinalsKept ==
    ASSUME AInv, NEW h \in Hashes, Begin(h) \/ Work(h), NEW n \in Names, final[n] # NoInode
    PROVE  data'[final[n]] = data[final[n]]
<1> USE DEF AInv, TInv, BaseType, disk, record, source
<1>1. CASE UNCHANGED data
  BY <1>1
<1>2. CASE OpenTmp(h)
  <2>1. ASSUME NEW i \in FreeInode, data' = [data EXCEPT ![i] = <<>>]
        PROVE  data'[final[n]] = data[final[n]]
    BY <2>1, FreeIsFree
  <2> QED
    BY <1>1, <1>2, <2>1 DEF OpenTmp
<1>3. CASE SizeUp(h) \/ FetchUnit(h)
  <2>1. pc[h] \in {"size", "fetch"}
    BY <1>3 DEF SizeUp, FetchUnit
  <2>2. fd[h] = tmp[NameOf[h]] /\ fd[h] # NoInode /\ NameOf[h] \in Names
    BY <2>1 DEF Opened, Holds, PartHolds
  <2>3. fd[h] # final[n]
    BY <2>2 DEF EntriesApart
  <2>4. \A i \in Inodes \ {fd[h]} : data'[i] = data[i]
    BY <1>3 DEF SizeUp, FetchUnit
  <2> QED
    BY <2>3, <2>4
<1>4. CASE \/ Begin(h) \/ Acquire(h) \/ TransientFailure(h) \/ RenameFails(h)
           \/ Verify(h) \/ Discard(h) \/ Rename(h) \/ Promote(h)
  BY <1>1, <1>4
     DEF Begin, Acquire, TransientFailure, RenameFails, Verify, Discard, Rename, Promote
<1> QED
  BY <1>2, <1>3, <1>4 DEF Work, Step

\* What was saved or renamed is still there, or replaced by the same content.
LEMMA OwnFinal ==
    ASSUME AInv, NEW h \in Hashes, Begin(h) \/ Work(h)
    PROVE  FinalHolds(h)'
<1> USE DEF AInv, TInv, BaseType, disk, record, source
<1>0. NameOf[h] \in Names
  OBVIOUS
<1>1. final[NameOf[h]] # NoInode => data'[final[NameOf[h]]] = data[final[NameOf[h]]]
  BY <1>0, FinalsKept
<1>2. CASE Rename(h)
  <2>1. pc[h] = "rename" /\ UNCHANGED <<data, saved>>
    BY <1>2 DEF Rename
  <2>2. tmp[NameOf[h]] # NoInode /\ data[tmp[NameOf[h]]] = Content(h)
    BY <2>1 DEF Holds, PartHolds
  <2>3. final'[NameOf[h]] = tmp[NameOf[h]]
    BY <1>0, <1>2, <2>2 DEF Rename
  <2> QED
    BY <2>1, <2>2, <2>3 DEF FinalHolds
<1>3. CASE Promote(h)
  <2>1. pc[h] = "promote" /\ UNCHANGED <<final, data>>
    BY <1>3 DEF Promote
  <2> QED
    BY <2>1 DEF Holds, FinalHolds
<1>4. CASE pc'[h] # "promote" /\ UNCHANGED <<final, saved>>
  BY <1>1, <1>4 DEF Holds, FinalHolds
<1>5. CASE AttemptFails(h) /\ UNCHANGED <<final, saved>>
  <2>1. pc'[h] # "promote"
    BY <1>5, FailureHere
  <2> QED
    BY <1>4, <1>5, <2>1
<1>6. ASSUME NEW to \in {"waiting", "open", "size", "fetch", "undo"}, Goes(h, to),
             UNCHANGED <<final, saved>>
      PROVE  FinalHolds(h)'
  <2>1. pc'[h] = to
    BY <1>6 DEF Goes
  <2> QED
    BY <1>4, <1>6, <2>1
<1>9. CASE Begin(h) \/ Acquire(h)
  BY <1>6, <1>9 DEF Begin, Acquire
<1>10. CASE OpenTmp(h) \/ SizeUp(h) \/ RenameFails(h)
  BY <1>6, <1>10 DEF OpenTmp, SizeUp, RenameFails
<1>7. CASE FetchUnit(h)
  BY <1>4, <1>7 DEF FetchUnit
<1>8. CASE Verify(h)
  BY <1>4, <1>5, <1>8 DEF Verify, Goes
<1> QED
  BY <1>2, <1>3, <1>5, <1>7, <1>8, <1>9, <1>10 DEF Work, Step, TransientFailure, Discard

\* What a session has met pays for its attempts.
LEMMA OwnPaid ==
    ASSUME AInv, NEW h \in Hashes, Begin(h) \/ Work(h)
    PROVE  Paid(h)'
<1> USE DEF AInv, disk, record, source
<1>0. /\ NameOf[h] \in Names /\ SizeOf[h] \in Nat
      /\ tries[h] \in Nat /\ mishaps[h] \in Nat /\ Enough \in Nat
  BY Numbers DEF TInv, BaseType
<1>1. PICK t \in Nat, m \in Nat, c \in {0, 1} :
         t = tries[h] /\ m = mishaps[h] /\ c = Charge(h)
  BY <1>0 DEF Charge
<1>2. m = Enough \/ pc[h] = "idle" \/ t + c <= m + 2
  BY <1>1 DEF Paid
<1>3. Charge(h)' \in {0, 1}
  BY DEF Charge
<1>4. CASE Begin(h)
  <2>1. tries'[h] = 1 /\ mishaps'[h] = 0
    BY <1>4 DEF Begin, TInv, BaseType
  <2> QED
    BY <1>3, <2>1 DEF Paid
<1>5. CASE Promote(h)
  <2>1. pc'[h] = "idle"
    BY <1>5 DEF Promote, Goes, TInv, BaseType
  <2> QED
    BY <2>1 DEF Paid
<1>6. ASSUME tries'[h] = t, mishaps'[h] = m, pc[h] # "idle", Charge(h)' <= c PROVE Paid(h)'
  BY <1>1, <1>2, <1>3, <1>6 DEF Paid
<1>7. ASSUME Met(h), tries'[h] = t \/ (tries'[h] = t + 1 /\ Charge(h)' <= c), pc[h] # "idle"
      PROVE  Paid(h)'
  <2>1. mishaps'[h] = IF m < Enough THEN m + 1 ELSE m
    BY <1>1, <1>7, MetTyped
  <2>2. mishaps'[h] = Enough \/ (mishaps'[h] = m + 1 /\ t + c <= m + 2)
    <3>1. m <= Enough
      BY <1>0, <1>1 DEF TInv, BaseType
    <3> QED
      BY <1>0, <1>1, <1>2, <1>7, <2>1, <3>1
  <2> QED
    BY <1>1, <1>3, <1>7, <2>2 DEF Paid
<1>8. ASSUME pc'[h] # "undo", pc[h] # "undo", UNCHANGED <<tmp, data>> PROVE Charge(h)' <= c
  <2>1. Foul(h)' <=> Foul(h)
    BY <1>8 DEF Foul
  <2> QED
    BY <1>1, <1>8, <2>1 DEF Charge
<1>9. CASE Acquire(h)
  <2>1. /\ pc[h] = "waiting" /\ pc'[h] = "open" /\ tries'[h] = t /\ mishaps'[h] = m
        /\ UNCHANGED <<tmp, data>>
    BY <1>1, <1>9 DEF Acquire, Goes, TInv, BaseType
  <2> QED
    BY <1>6, <1>8, <2>1
<1>10. CASE OpenTmp(h)
  <2>1. pc[h] = "open" /\ pc'[h] = "size" /\ tries'[h] = t /\ mishaps'[h] = m
    BY <1>1, <1>10 DEF OpenTmp, Goes, TInv, BaseType
  <2>2. Charge(h)' <= c
    <3>1. CASE UNCHANGED <<tmp, data>>
      BY <1>8, <2>1, <3>1
    <3>2. ASSUME NEW i \in FreeInode, tmp' = [tmp EXCEPT ![NameOf[h]] = i],
                 data' = [data EXCEPT ![i] = <<>>]
          PROVE  Charge(h)' <= c
      <4>1. tmp'[NameOf[h]] = i /\ data'[i] = <<>>
        BY <1>0, <3>2, FreeIsFree DEF TInv, BaseType
      <4>2. ~Foul(h)'
        BY <4>1 DEF Foul
      <4> QED
        BY <1>1, <2>1, <4>2 DEF Charge
    <3> QED
      BY <1>10, <3>1, <3>2 DEF OpenTmp
  <2> QED
    BY <1>6, <2>1, <2>2
<1>11. CASE SizeUp(h)
  <2>1. /\ pc[h] = "size" /\ pc'[h] = "fetch" /\ tries'[h] = t /\ mishaps'[h] = m
        /\ tmp' = tmp
    BY <1>1, <1>11 DEF SizeUp, Goes, TInv, BaseType
  <2>2. Charge(h)' <= c
    <3>1. CASE data' = data
      BY <1>8, <2>1, <3>1
    <3>2. CASE data' = [data EXCEPT ![fd[h]] = <<>>]
      <4>1. fd[h] = tmp[NameOf[h]] /\ fd[h] \in Inodes
        BY <2>1 DEF TInv, BaseType, Opened, Holds, PartHolds
      <4>2. data'[tmp'[NameOf[h]]] = <<>>
        BY <2>1, <3>2, <4>1 DEF TInv, BaseType
      <4>3. ~Foul(h)'
        BY <4>2 DEF Foul
      <4> QED
        BY <1>1, <2>1, <4>3 DEF Charge
    <3> QED
      BY <1>11, <3>1, <3>2 DEF SizeUp
  <2> QED
    BY <1>6, <2>1, <2>2
<1>12. CASE FetchUnit(h)
  <2> DEFINE part == tmp[NameOf[h]]
  <2>1. /\ pc[h] = "fetch" /\ pc'[h] = "fetch" /\ tmp' = tmp /\ part \in Inodes
        /\ tries'[h] = t
    BY <1>1, <1>12, FetchAppends DEF FetchUnit
  <2>2. PICK off \in Nat : /\ off = offset[h] /\ Len(data[part]) = off
                           /\ Len(data'[part]) = off + 1
    BY <1>12, FetchAppends
  <2>3. PICK u \in Served(h, off + 1) :
           /\ u = Changed \/ u = <<h, off + 1>>
           /\ data'[part][off + 1] = u
           /\ \A i \in 1..off : data'[part][i] = data[part][i]
           /\ IF u = Changed THEN Met(h) ELSE UNCHANGED mishaps
    BY <1>12, <2>2, FetchAppends
  <2>4. CASE u = Changed
    BY <1>7, <2>1, <2>3, <2>4
  <2>5. CASE u # Changed
    <3>1. mishaps'[h] = m /\ data'[part][off + 1] = <<h, off + 1>>
      BY <1>1, <2>3, <2>5
    <3>2. DOMAIN data[part] = 1..off /\ DOMAIN data'[part] = 1..(off + 1)
      <4>1. data[part] \in Seq(Units)
        BY <2>1 DEF TInv, BaseType
      <4>2. data'[part] \in Seq(Units)
        <5>1. TInv'
          BY <1>12, TypeStep DEF Next, Work, Step
        <5> QED
          BY <2>1, <5>1 DEF TInv, BaseType
      <4> QED
        BY <2>2, <4>1, <4>2
    <3>3. Foul(h)' => Foul(h)
      <4> SUFFICES ASSUME NEW i \in 1..(off + 1), data'[part][i] # <<h, i>> PROVE Foul(h)
        BY <2>1, <3>2 DEF Foul
      <4>1. i \in 1..off
        BY <3>1
      <4>2. data[part][i] # <<h, i>>
        BY <2>3, <4>1
      <4>3. part # NoInode
        BY <2>1 DEF Inodes, NoInode
      <4>4. i \in DOMAIN data[part]
        BY <3>2, <4>1
      <4> QED
        BY <4>2, <4>3, <4>4 DEF Foul
    <3>4. Charge(h)' <= c
      BY <1>1, <2>1, <3>3 DEF Charge
    <3> QED
      BY <1>6, <2>1, <3>1, <3>4
  <2> QED
    BY <2>4, <2>5
<1>13. CASE TransientFailure(h)
  <2>1. pc[h] \in {"open", "size", "fetch"} /\ Met(h) /\ UNCHANGED <<tmp, data>>
    BY <1>13 DEF TransientFailure
  <2>2. /\ pc'[h] \in {"idle", "waiting"} /\ (pc'[h] = "waiting" => tries'[h] = t + 1)
    BY <1>1, <1>13, FailureHere DEF TransientFailure
  <2>3. Charge(h)' <= c
    BY <1>8, <2>1, <2>2
  <2>4. CASE pc'[h] = "idle"
    BY <2>4 DEF Paid
  <2>5. CASE pc'[h] = "waiting"
    BY <1>7, <2>1, <2>2, <2>3, <2>5
  <2> QED
    BY <2>2, <2>4, <2>5
<1>14. CASE Verify(h)
  <2>1. pc[h] = "fetch" /\ UNCHANGED <<tmp, data>> /\ mishaps'[h] = m
    BY <1>1, <1>14 DEF Verify
  <2>2. tmp[NameOf[h]] # NoInode
    BY <2>1 DEF TInv, Opened, Holds, PartHolds
  <2>3. pc'[h] \in {"rename", "discard"} /\ tries'[h] = t
    BY <1>1, <1>14, <2>2 DEF Verify, Goes, TInv, BaseType
  <2> QED
    BY <1>6, <1>8, <2>1, <2>3
<1>15. CASE Discard(h)
  <2>1. pc[h] \in {"discard", "undo"} /\ mishaps'[h] = m /\ tmp'[NameOf[h]] = NoInode
    BY <1>0, <1>1, <1>15 DEF Discard, TmpRemoved, TInv, BaseType
  <2>2. /\ pc'[h] \in {"idle", "waiting"} /\ (pc'[h] = "waiting" => tries'[h] = t + 1)
    BY <1>1, <1>15, FailureHere DEF Discard
  <2>3. c = 1
    <3>1. CASE pc[h] = "undo"
      BY <1>1, <3>1 DEF Charge
    <3>2. CASE pc[h] = "discard"
      <4>1. /\ tmp[NameOf[h]] # NoInode
            /\ Len(data[tmp[NameOf[h]]]) = SizeOf[h] /\ data[tmp[NameOf[h]]] # Content(h)
        BY <3>2 DEF Holds, PartHolds
      <4>2. data[tmp[NameOf[h]]] \in Seq(Units)
        BY <1>0, <4>1 DEF TInv, BaseType
      <4>3. Foul(h)
        BY <4>1, <4>2, ContentIs DEF Foul
      <4> QED
        BY <1>1, <4>3 DEF Charge
    <3> QED
      BY <2>1, <3>1, <3>2
  <2>4. Charge(h)' = 0
    BY <2>1, <2>2 DEF Charge, Foul
  <2> QED
    BY <1>1, <1>2, <2>1, <2>2, <2>3, <2>4 DEF Paid
<1>16. CASE Rename(h)
  <2>1. pc[h] = "rename" /\ tries'[h] = t /\ mishaps'[h] = m
    BY <1>1, <1>16 DEF Rename
  <2>2. tmp[NameOf[h]] # NoInode
    BY <2>1 DEF Holds, PartHolds
  <2>3. tmp'[NameOf[h]] = NoInode /\ pc'[h] = "promote"
    BY <1>0, <1>16, <2>2 DEF Rename, Goes, TInv, BaseType
  <2>4. Charge(h)' = 0
    BY <2>3 DEF Charge, Foul
  <2> QED
    BY <1>1, <1>6, <2>1, <2>4
<1>17. CASE RenameFails(h)
  BY <1>1, <1>7, <1>17 DEF RenameFails
<1> QED
  BY <1>4, <1>5, <1>9, <1>10, <1>11, <1>12, <1>13, <1>14, <1>15, <1>16, <1>17 DEF Work, Step

\* The invariant of downloads whose files have names of their own.
THEOREM ApartInvariance == ASSUME NamesApart PROVE Spec => []AInv
<1>1. Init => AInv
  <2>1. Init => EntriesApart
    BY DEF Init, EntriesApart, Inodes, NoInode
  <2>2. Init => \A h \in Hashes : Holds(h) /\ Paid(h)
    BY DEF Init, Holds, PartHolds, FinalHolds, Paid
  <2> QED
    BY <2>1, <2>2, TypeInit DEF AInv
<1>2. AInv /\ [Next]_vars => AInv'
  <2> SUFFICES ASSUME AInv, [Next]_vars PROVE AInv'
    OBVIOUS
  <2>1. TInv'
    BY TypeStep DEF AInv
  <2>2. ASSUME NEW h \in Hashes, Begin(h) \/ Work(h)
        PROVE  EntriesApart' /\ \A g \in Hashes : Holds(g)' /\ Paid(g)'
    <3>1. \A g \in Hashes \ {h} : Holds(g)' /\ Paid(g)'
      BY <2>2, NamesApart, OthersUndisturbed, UndisturbedHolds DEF AInv
    <3>2. Holds(h)' /\ Paid(h)'
      BY <2>2, OwnPart, OwnFinal, OwnPaid DEF Holds
    <3> QED
      BY <2>2, <3>1, <3>2, EntriesStayApart
  <2>3. ASSUME Crash PROVE EntriesApart' /\ \A h \in Hashes : Holds(h)' /\ Paid(h)'
    <3>1. EntriesApart'
      BY <2>3 DEF AInv, Crash, EntriesApart, disk
    <3>2. \A h \in Hashes : Holds(h)'
      BY <2>3 DEF AInv, Crash, Holds, PartHolds, FinalHolds, disk, record
    <3>3. \A h \in Hashes : Paid(h)'
      BY <2>3 DEF Crash, Paid
    <3> QED
      BY <3>1, <3>2, <3>3
  <2>4. ASSUME \/ \E h \in Hashes : Edit(h) \/ Restore(h)
               \/ UNCHANGED vars
        PROVE  EntriesApart' /\ \A h \in Hashes : Holds(h)' /\ Paid(h)'
    <3>1. UNCHANGED <<disk, pc, fd, offset, tries, mishaps, record>>
      BY <2>4 DEF Edit, Restore, vars
    <3>2. EntriesApart'
      BY <3>1 DEF AInv, EntriesApart, disk
    <3>3. \A h \in Hashes : Undisturbed(h)
      BY <3>1 DEF Undisturbed, disk, record
    <3> QED
      BY <3>2, <3>3, UndisturbedHolds DEF AInv
  <2>5. EntriesApart' /\ \A g \in Hashes : Holds(g)' /\ Paid(g)'
    BY <2>2, <2>3, <2>4 DEF Next
  <2> QED
    BY <2>1, <2>5 DEF AInv
<1> QED
  BY <1>1, <1>2, PTL DEF Spec

\* A file once saved stays there whole, while it is downloaded again too, whatever
\* is resumed, retried, changed at its source or interrupted by a crash.
THEOREM SavedStays == ASSUME NamesApart PROVE Spec => []SavedIntact
<1>1. AInv => SavedIntact
  BY DEF AInv, TInv, BaseType, Holds, FinalHolds, SavedIntact
<1> QED
  BY <1>1, ApartInvariance, PTL

\* A session gives up only after mishaps in all of its attempts but one, which a
\* partial file that it has found may cost it: what it resumes wrongly it resumes
\* once.
THEOREM GivesUpForAReason == ASSUME NamesApart PROVE Spec => GivesUpAfterMishaps
<1>1. AInv /\ [Next]_vars =>
        \A h \in Hashes :
            pc[h] # "idle" /\ pc'[h] = "idle" /\ status'[h] = "FAILED" => mishaps'[h] >= Enough
  <2> SUFFICES ASSUME AInv, [Next]_vars, NEW h \in Hashes,
                      pc[h] # "idle", pc'[h] = "idle", status'[h] = "FAILED"
               PROVE  mishaps'[h] >= Enough
    OBVIOUS
  <2>0. PICK t \in Nat, m \in 0..Enough, c \in {0, 1} :
           t = tries[h] /\ m = mishaps[h] /\ c = Charge(h) /\ (m = Enough \/ t + c <= m + 2)
    BY DEF AInv, TInv, BaseType, Paid, Charge
  <2>1. ASSUME AttemptFails(h) PROVE t = Enough + 1
    <3>1. tries[h] = MaxRetries
      BY <2>1, FailureIs DEF AInv, TInv, BaseType
    <3> QED
      BY <2>0, <3>1, Numbers DEF Enough
  <2>2. CASE TransientFailure(h)
    <3>1. mishaps'[h] = IF m < Enough THEN m + 1 ELSE m
      BY <2>0, <2>2, MetTyped DEF TransientFailure, AInv
    <3> QED
      BY <2>0, <2>1, <2>2, <3>1, Numbers DEF TransientFailure
  <2>3. CASE Verify(h)
    <3>1. pc[h] = "fetch"
      BY <2>3 DEF Verify
    <3>2. tmp[NameOf[h]] # NoInode
      BY <3>1 DEF AInv, TInv, Opened, Holds, PartHolds
    <3> QED
      BY <2>3, <3>2 DEF Verify, Goes, AInv, TInv, BaseType
  <2>4. CASE Discard(h)
    <3>1. pc[h] \in {"discard", "undo"} /\ mishaps'[h] = m
      BY <2>0, <2>4 DEF Discard
    <3>2. c = 1
      <4>1. CASE pc[h] = "undo"
        BY <2>0, <4>1 DEF Charge
      <4>2. CASE pc[h] = "discard"
        <5>1. /\ tmp[NameOf[h]] # NoInode
              /\ Len(data[tmp[NameOf[h]]]) = SizeOf[h] /\ data[tmp[NameOf[h]]] # Content(h)
          BY <4>2 DEF AInv, Holds, PartHolds
        <5>2. data[tmp[NameOf[h]]] \in Seq(Units)
          BY <5>1, DownloadAssumption DEF AInv, TInv, BaseType
        <5>3. Foul(h)
          BY <5>1, <5>2, ContentIs DEF Foul
        <5> QED
          BY <2>0, <5>3 DEF Charge
      <4> QED
        BY <3>1, <4>1, <4>2
    <3> QED
      BY <2>0, <2>1, <2>4, <3>1, <3>2, Numbers DEF Discard
  <2>5. CASE Promote(h)
    BY <2>5 DEF Promote, AInv, TInv, BaseType
  <2>6. CASE Crash
    <3>1. mishaps'[h] = Enough
      BY <2>6 DEF Crash
    <3> QED
      BY <3>1, Numbers
  <2>7. CASE pc' = pc
    BY <2>7
  <2>8. ASSUME NEW to \in {"waiting", "open", "size", "fetch", "promote", "undo"}, Goes(h, to)
        PROVE  mishaps'[h] >= Enough
    BY <2>8 DEF Goes, AInv, TInv, BaseType
  <2>9. ASSUME NEW g \in Hashes \ {h}, Begin(g) \/ Work(g) PROVE mishaps'[h] >= Enough
    <3>1. Undisturbed(h)
      BY <2>9, NamesApart, OthersUndisturbed
    <3> QED
      BY <3>1 DEF Undisturbed
  <2>10. CASE Begin(h) \/ Acquire(h) \/ OpenTmp(h) \/ SizeUp(h) \/ Rename(h) \/ RenameFails(h)
    BY <2>8, <2>10 DEF Begin, Acquire, OpenTmp, SizeUp, Rename, RenameFails
  <2>11. CASE \/ FetchUnit(h) \/ \E g \in Hashes : Edit(g) \/ Restore(g)
              \/ UNCHANGED vars
    BY <2>7, <2>11 DEF FetchUnit, Edit, Restore, vars
  <2> QED
    BY <2>2, <2>3, <2>4, <2>5, <2>6, <2>9, <2>10, <2>11 DEF Next, Work, Step
<1>2. AInv /\ [Next]_vars =>
        [\A h \in Hashes :
            pc[h] # "idle" /\ pc'[h] = "idle" /\ status'[h] = "FAILED"
              => mishaps'[h] >= Enough]_vars
  BY <1>1
<1> QED
  BY <1>2, ApartInvariance, PTL DEF Spec, GivesUpAfterMishaps

\* The path that DownloadFile returns names a file that hashes to what was asked
\* for: nothing comes between the verification and the rename.
THEOREM Verified == ASSUME NamesApart PROVE Spec => ReturnedIsVerified
<1>1. AInv' => \A h \in Hashes : pc[h] = "rename" /\ pc'[h] = "promote"
                    => data'[final'[NameOf[h]]] = Content(h)
  BY DEF AInv, Holds, FinalHolds
<1> QED
  BY <1>1, ApartInvariance, PTL DEF ReturnedIsVerified

\* A partial file that is not longer than the file is not truncated.
LEMMA GoodIsNotTooLong ==
    ASSUME NEW h \in Hashes, NEW s \in Seq(Units), \A i \in DOMAIN s : s[i] = <<h, i>>
    PROVE  ~TooLong(h, Len(s))
<1> SUFFICES ASSUME Len(s) > SizeOf[h] PROVE FALSE
  BY DEF TooLong
<1>1. Len(s) \in Nat \ {0} /\ Len(s) \in DOMAIN s
  OBVIOUS
<1>2. s[Len(s)] \in Units /\ s[Len(s)] = <<h, Len(s)>>
  BY <1>1
<1> QED
  BY <1>1, <1>2, UnitsAre

\* A partial file that is still good is kept, so that the next attempt resumes
\* behind it: it grows, becomes the final file or falls to a failed rename.
THEOREM GoodPartStays == ASSUME NamesApart PROVE Spec => GoodPartIsKept
<1> DEFINE Good(h) == /\ tmp[NameOf[h]] # NoInode
                      /\ \A i \in DOMAIN data[tmp[NameOf[h]]] :
                            data[tmp[NameOf[h]]][i] = <<h, i>>
           Kept(h) == \/ /\ tmp'[NameOf[h]] = tmp[NameOf[h]]
                         /\ Len(data'[tmp[NameOf[h]]]) >= Len(data[tmp[NameOf[h]]])
                      \/ final'[NameOf[h]] = tmp[NameOf[h]]
                      \/ pc[h] = "undo"
<1>1. AInv /\ [Next]_vars => \A h \in Hashes : Good(h) => Kept(h)
  <2> SUFFICES ASSUME AInv, [Next]_vars, NEW h \in Hashes, Good(h) PROVE Kept(h)
    OBVIOUS
  <2> USE DEF AInv, TInv, BaseType, disk, record, source
  <2>0. /\ NameOf[h] \in Names /\ SizeOf[h] \in Nat
        /\ tmp[NameOf[h]] \in Inodes /\ data[tmp[NameOf[h]]] \in Seq(Units)
        /\ Len(data[tmp[NameOf[h]]]) \in Nat
    OBVIOUS
  <2>1. CASE UNCHANGED <<tmp, data>>
    BY <2>0, <2>1
  <2>2. ASSUME NEW g \in Hashes \ {h}, Begin(g) \/ Work(g)
        PROVE  Kept(h)
    <3>1. Undisturbed(h)
      BY <2>2, NamesApart, OthersUndisturbed
    <3> QED
      BY <2>0, <3>1 DEF Undisturbed
  <2>3. CASE OpenTmp(h)
    BY <2>1, <2>3 DEF OpenTmp
  <2>4. CASE SizeUp(h)
    <3>1. fd[h] = tmp[NameOf[h]]
      BY <2>4 DEF SizeUp, Holds, PartHolds
    <3>2. ~TooLong(h, Len(data[fd[h]]))
      BY <2>0, <3>1, GoodIsNotTooLong
    <3> QED
      BY <2>1, <2>4, <3>2 DEF SizeUp
  <2>5. CASE FetchUnit(h)
    <3>1. /\ tmp' = tmp /\ offset[h] \in Nat /\ Len(data[tmp[NameOf[h]]]) = offset[h]
          /\ Len(data'[tmp[NameOf[h]]]) = offset[h] + 1
      BY <2>5, FetchAppends
    <3> QED
      BY <3>1
  <2>6. CASE Discard(h)
    <3>1. pc[h] # "discard"
      <4> SUFFICES ASSUME pc[h] = "discard" PROVE FALSE
        OBVIOUS
      <4>1. /\ Len(data[tmp[NameOf[h]]]) = SizeOf[h]
            /\ data[tmp[NameOf[h]]] # Content(h)
        BY DEF Holds, PartHolds
      <4> QED
        BY <2>0, <4>1, ContentIs
    <3> QED
      BY <2>6, <3>1 DEF Discard
  <2>7. CASE Rename(h)
    BY <2>0, <2>7 DEF Rename
  <2>8. CASE \/ Begin(h) \/ Acquire(h) \/ Verify(h) \/ Promote(h)
             \/ TransientFailure(h) \/ RenameFails(h)
    BY <2>1, <2>8 DEF Begin, Acquire, Verify, Promote, TransientFailure, RenameFails
  <2>9. CASE Crash \/ \E g \in Hashes : Edit(g) \/ Restore(g)
    BY <2>1, <2>9 DEF Crash, Edit, Restore
  <2>10. CASE UNCHANGED vars
    BY <2>1, <2>10 DEF vars
  <2> QED
    BY <2>2, <2>3, <2>4, <2>5, <2>6, <2>7, <2>8, <2>9, <2>10
       DEF Next, Work, Step
<1>2. AInv /\ [Next]_vars =>
        [\A h \in Hashes : LET n == NameOf[h] IN
          /\ tmp[n] # NoInode
          /\ \A i \in DOMAIN data[tmp[n]] : data[tmp[n]][i] = <<h, i>>
          => \/ tmp'[n] = tmp[n] /\ Len(data'[tmp[n]]) >= Len(data[tmp[n]])
             \/ final'[n] = tmp[n]
             \/ pc[h] = "undo"]_vars
  BY <1>1
<1> QED
  BY <1>2, ApartInvariance, PTL DEF Spec, GoodPartIsKept

-----------------------------------------------------------------------------
(* Attempts come to an end.                                                 *)

\* What an attempt has before it besides the units of the file.
StagesLeft == [open |-> 5, size |-> 4, fetch |-> 3, rename |-> 2,
               discard |-> 1, undo |-> 1, promote |-> 1, waiting |-> 0, idle |-> 0]

\* The steps that the attempt on h can still take at most.
StepsLeft(h) ==
    StagesLeft[pc[h]]
        + (IF pc[h] \in {"open", "size", "fetch"} THEN SizeOf[h] - offset[h] ELSE 0)

\* Every step of an attempt brings it nearer to its end, whatever other downloads
\* do to its files; only a slot given to the session begins another attempt, and it
\* is the session's next one or the first.
AttemptsShorten ==
    \A h \in Hashes :
        /\ StepsLeft(h)' <= StepsLeft(h) \/ Acquire(h)
        /\ Step(h) \/ TransientFailure(h) \/ RenameFails(h) => StepsLeft(h)' < StepsLeft(h)
        /\ pc'[h] = "waiting" => pc[h] = "waiting" \/ tries'[h] = tries[h] + 1

\* An attempt has at most five steps besides those that fetch a unit each.
AttemptsAreShort == \A h \in Hashes : StepsLeft(h) \in 0..(SizeOf[h] + 5)

\* The steps left are a number.
LEMMA StepsTyped == TInv => AttemptsAreShort
<1> SUFFICES ASSUME TInv, NEW h \in Hashes PROVE StepsLeft(h) \in 0..(SizeOf[h] + 5)
  BY DEF AttemptsAreShort
<1>1. PICK size \in Nat, off \in Nat : size = SizeOf[h] /\ off = offset[h] /\ off <= size
  BY UnitsAre, DownloadAssumption DEF TInv, BaseType, Counted
<1>2. pc[h] \in DOMAIN StagesLeft /\ StagesLeft[pc[h]] \in 0..5
  BY DEF TInv, BaseType, StagesLeft
<1> QED
  BY <1>1, <1>2 DEF StepsLeft

\* What an attempt goes on to, and what it has left then.
LEMMA OwnSteps ==
    ASSUME TInv, NEW h \in Hashes, Step(h) \/ TransientFailure(h) \/ RenameFails(h)
    PROVE  StepsLeft(h)' < StepsLeft(h)
<1>1. PICK size \in Nat, off \in Nat : size = SizeOf[h] /\ off = offset[h] /\ off <= size
  BY DownloadAssumption DEF TInv, BaseType, Counted
<1>2. CASE OpenTmp(h)
  <2>1. pc[h] = "open" /\ pc'[h] = "size" /\ offset'[h] = off
    BY <1>1, <1>2 DEF OpenTmp, Goes, TInv, BaseType
  <2> QED
    BY <1>1, <2>1 DEF StepsLeft, StagesLeft
<1>3. CASE SizeUp(h)
  <2>1. pc[h] = "size" /\ pc'[h] = "fetch" /\ off = 0
    BY <1>1, <1>3 DEF SizeUp, Goes, Counted, TInv, BaseType
  <2>2. PICK have \in Nat : offset'[h] = have /\ have <= size
    <3>1. fd[h] \in Inodes
      BY <2>1 DEF TInv, BaseType, Opened
    <3>2. PICK l \in Nat : l = Len(data[fd[h]])
      BY <3>1 DEF TInv, BaseType
    <3>3. offset'[h] = off \/ (l <= size /\ offset'[h] = l)
      <4>1. CASE offset' = offset
        BY <1>1, <4>1
      <4>2. CASE ~(l > size) /\ offset' = [offset EXCEPT ![h] = l]
        <5>1. l <= size
          BY <1>1, <3>2, <4>2
        <5>2. offset'[h] = l
          BY <4>2 DEF TInv, BaseType
        <5> QED
          BY <5>1, <5>2
      <4>3. TooLong(h, l) <=> l > size
        BY <1>1 DEF TooLong
      <4> QED
        BY <1>3, <3>2, <4>1, <4>2, <4>3 DEF SizeUp
    <3> QED
      BY <1>1, <3>2, <3>3
  <2>3. StepsLeft(h) = 4 + size /\ StepsLeft(h)' = 3 + (size - have)
    BY <1>1, <2>1, <2>2 DEF StepsLeft, StagesLeft
  <2> QED
    BY <2>2, <2>3
<1>4. CASE FetchUnit(h)
  <2>1. pc[h] = "fetch" /\ pc'[h] = "fetch" /\ offset'[h] = off + 1
    BY <1>1, <1>4 DEF FetchUnit, TInv, BaseType
  <2>2. StepsLeft(h) = 3 + (size - off)
    BY <1>1, <2>1 DEF StepsLeft, StagesLeft
  <2>3. StepsLeft(h)' = 3 + (size - (off + 1))
    BY <1>1, <2>1 DEF StepsLeft, StagesLeft
  <2> QED
    BY <2>2, <2>3
<1>5. CASE Verify(h)
  <2>1. pc[h] = "fetch" /\ pc'[h] \in {"idle", "waiting", "rename", "discard"}
    BY <1>5 DEF Verify, AttemptFails, Goes, TInv, BaseType
  <2> QED
    BY <1>1, <2>1 DEF StepsLeft, StagesLeft
<1>6. CASE Discard(h)
  <2>1. pc[h] \in {"discard", "undo"} /\ pc'[h] \in {"idle", "waiting"}
    BY <1>6 DEF Discard, AttemptFails, Goes, TInv, BaseType
  <2> QED
    BY <2>1 DEF StepsLeft, StagesLeft
<1>7. CASE Rename(h)
  <2>1. pc[h] = "rename" /\ pc'[h] \in {"promote", "undo"}
    BY <1>7 DEF Rename, Goes, TInv, BaseType
  <2> QED
    BY <2>1 DEF StepsLeft, StagesLeft
<1>8. CASE Promote(h)
  <2>1. pc[h] = "promote" /\ pc'[h] = "idle"
    BY <1>8 DEF Promote, Goes, TInv, BaseType
  <2> QED
    BY <2>1 DEF StepsLeft, StagesLeft
<1>9. CASE TransientFailure(h)
  <2>1. pc[h] \in {"open", "size", "fetch"} /\ pc'[h] \in {"idle", "waiting"}
    BY <1>9 DEF TransientFailure, AttemptFails, Goes, TInv, BaseType
  <2> QED
    BY <1>1, <2>1 DEF StepsLeft, StagesLeft
<1>10. CASE RenameFails(h)
  <2>1. pc[h] = "rename" /\ pc'[h] = "undo"
    BY <1>10 DEF RenameFails, Goes, TInv, BaseType
  <2> QED
    BY <2>1 DEF StepsLeft, StagesLeft
<1> QED
  BY <1>2, <1>3, <1>4, <1>5, <1>6, <1>7, <1>8, <1>9, <1>10 DEF Step

\* One session's step is nothing to another's control state.
LEMMA OthersSteps ==
    ASSUME TInv, NEW h \in Hashes, NEW g \in Hashes \ {h}, Begin(g) \/ Work(g)
    PROVE  pc'[h] = pc[h] /\ offset'[h] = offset[h]
<1> USE DEF TInv, BaseType, disk, record, source
<1>1. CASE Begin(g) \/ Acquire(g) \/ TransientFailure(g) \/ RenameFails(g)
  BY <1>1 DEF Begin, Acquire, TransientFailure, RenameFails, AttemptFails, Closes, Goes
<1>2. CASE OpenTmp(g) \/ SizeUp(g) \/ FetchUnit(g)
  BY <1>2 DEF OpenTmp, SizeUp, FetchUnit, Goes
<1>3. CASE Verify(g)
  BY <1>3 DEF Verify, AttemptFails, Closes, Goes
<1>4. CASE Discard(g) \/ Rename(g) \/ Promote(g)
  BY <1>4 DEF Discard, Rename, Promote, AttemptFails, Goes
<1> QED
  BY <1>1, <1>2, <1>3, <1>4 DEF Work, Step

\* A session comes to wait for a slot only when it begins or has failed once more.
LEMMA WaitsAnew ==
    ASSUME TInv, NEW h \in Hashes, Begin(h) \/ Work(h), pc'[h] = "waiting"
    PROVE  tries'[h] = tries[h] + 1
<1> USE DEF TInv, BaseType
<1>1. CASE Begin(h)
  <2>1. tries[h] = 0 /\ tries'[h] = 1
    BY <1>1 DEF Begin, Tried
  <2> QED
    BY <2>1
<1>2. CASE AttemptFails(h)
  BY <1>2, FailureHere
<1>3. CASE \/ Acquire(h) \/ OpenTmp(h) \/ SizeUp(h) \/ Rename(h) \/ RenameFails(h) \/ Promote(h)
  BY <1>3 DEF Acquire, OpenTmp, SizeUp, Rename, RenameFails, Promote, Goes
<1>4. CASE FetchUnit(h)
  BY <1>4 DEF FetchUnit
<1>5. CASE Verify(h)
  BY <1>2, <1>5 DEF Verify, Goes
<1> QED
  BY <1>1, <1>2, <1>3, <1>4, <1>5 DEF Work, Step, TransientFailure, Discard

\* An attempt ends after at most SizeOf[h] + 5 steps of its own, whatever else
\* goes on, names shared by several files included, and a session makes another one
\* only with its count raised, which MaxRetries bounds: DownloadFile has no way to go
\* back, and a resume does not fetch what is already there.
THEOREM AttemptsEnd == Spec => []AttemptsAreShort /\ [][AttemptsShorten]_vars
<1>1. Spec => []AttemptsAreShort
  BY TypeInvariance, StepsTyped, PTL
<1>2. TInv /\ AttemptsAreShort /\ AttemptsAreShort' /\ [Next]_vars => AttemptsShorten
  <2> SUFFICES ASSUME TInv, AttemptsAreShort, AttemptsAreShort', [Next]_vars, NEW h \in Hashes
               PROVE  /\ StepsLeft(h)' <= StepsLeft(h) \/ Acquire(h)
                      /\ Step(h) \/ TransientFailure(h) \/ RenameFails(h)
                           => StepsLeft(h)' < StepsLeft(h)
                      /\ pc'[h] = "waiting" => pc[h] = "waiting" \/ tries'[h] = tries[h] + 1
    BY DEF AttemptsShorten
  <2>1. StepsLeft(h) \in Nat /\ SizeOf[h] \in Nat
    BY DownloadAssumption DEF AttemptsAreShort
  <2>2. StepsLeft(h)' \in Nat
    BY <2>1 DEF AttemptsAreShort
  <2>3. Step(h) \/ TransientFailure(h) \/ RenameFails(h) => StepsLeft(h)' < StepsLeft(h)
    BY OwnSteps
  <2>4. StepsLeft(h)' <= StepsLeft(h) \/ Acquire(h)
    <3>1. CASE pc'[h] = pc[h] /\ offset'[h] = offset[h]
      <4>1. StepsLeft(h)' = StepsLeft(h)
        BY <3>1 DEF StepsLeft
      <4> QED
        BY <2>1, <4>1
    <3>2. ASSUME NEW g \in Hashes \ {h}, Begin(g) \/ Work(g)
          PROVE  StepsLeft(h)' <= StepsLeft(h) \/ Acquire(h)
      BY <3>1, <3>2, OthersSteps
    <3>3. CASE Step(h) \/ TransientFailure(h) \/ RenameFails(h)
      BY <2>1, <2>2, <2>3, <3>3
    <3>4. CASE Crash \/ Begin(h)
      <4>1. pc'[h] \in {"idle", "waiting"}
        BY <3>4 DEF Crash, Begin, Goes, TInv, BaseType
      <4>2. StepsLeft(h)' = 0
        BY <4>1 DEF StepsLeft, StagesLeft
      <4> QED
        BY <2>1, <4>2
    <3>5. CASE \/ UNCHANGED vars
              \/ \E g \in Hashes : Edit(g) \/ Restore(g)
      BY <3>1, <3>5 DEF vars, Edit, Restore
    <3> QED
      BY <3>2, <3>3, <3>4, <3>5 DEF Next, Work
  <2>5. pc'[h] = "waiting" => pc[h] = "waiting" \/ tries'[h] = tries[h] + 1
    <3>1. CASE pc'[h] = pc[h]
      BY <3>1
    <3>2. ASSUME NEW g \in Hashes \ {h}, Begin(g) \/ Work(g) PROVE pc'[h] = pc[h]
      BY <3>2, OthersSteps
    <3>3. CASE Begin(h) \/ Work(h)
      BY <3>3, WaitsAnew
    <3>4. CASE Crash
      BY <3>4 DEF Crash
    <3>5. CASE \/ UNCHANGED vars
              \/ \E g \in Hashes : Edit(g) \/ Restore(g)
      BY <3>1, <3>5 DEF vars, Edit, Restore
    <3> QED
      BY <3>1, <3>2, <3>3, <3>4, <3>5 DEF Next
  <2> QED
    BY <2>3, <2>4, <2>5
<1> QED
  BY <1>1, <1>2, TypeInvariance, PTL DEF Spec, AttemptsShorten

=============================================================================
