------------------------------ MODULE Download ------------------------------
(***************************************************************************)
(* The download sessions of one node and their attempts, each a call of    *)
(* network.DownloadFile, over the storage directory they share.  There is  *)
(* one session per hash at most (theorem OneWorker of FileSyncProofs); it  *)
(* waits for a slot before each of its attempts.  Both the partial file    *)
(* <name>.tmp and the final file are found by file name, not by hash; an   *)
(* open file is an inode and stays open across renames and removals, as on *)
(* POSIX.                                                                  *)
(*                                                                         *)
(* A file is a sequence of units, a unit being what one write of a chunk's *)
(* stream puts on disk; unit <<h, i>> is the i-th unit of the content that *)
(* hashes to h.  The server answers units of its current local file, which *)
(* its user may edit after it was published, and may restore.  A crash     *)
(* kills the process and keeps the disk.                                   *)
(***************************************************************************)
EXTENDS Naturals, Sequences, FiniteSets

CONSTANTS
    Hashes,         \* files on offer, by hash
    Names,          \* file names
    NameOf,         \* [Hashes -> Names]: filepath.Base of the server's LocalPath
    SizeOf,         \* [Hashes -> Nat]: FileSize of the server's record, in units
    MaxInodes,      \* files that can exist on disk at once
    SyncCap,        \* concurrent attempts
    MaxRetries,     \* attempts of one session
    MaxLeft,        \* bound on the length of a partial file found at the start
    MaxChanges,     \* bound on edits of published files
    MaxFails,       \* bound on transient failures
    MaxCrashes      \* bound on crashes

ASSUME DownloadAssumption ==
    /\ NameOf \in [Hashes -> Names]
    /\ SizeOf \in [Hashes -> Nat]
    /\ {MaxInodes, SyncCap, MaxRetries, MaxLeft, MaxChanges, MaxFails, MaxCrashes} \subseteq Nat
    /\ MaxInodes > 0 /\ MaxRetries > 0

VARIABLES
    tmp,      \* directory entry <name>.tmp of each name
    final,    \* directory entry <name> of each name
    data,     \* contents of the inodes
    pc,       \* control state of the session of each hash and its attempt
    fd,       \* tmpFile: the inode each attempt has open
    offset,   \* downloaded: units this attempt believes it has
    tries,    \* attempt: the number of this attempt in its session
    mishaps,  \* failures and changed units that the session has met
    status,   \* Status of each hash's record
    saved,    \* hashes whose record has the LocalPath of a download
    edited,   \* hashes whose source file is not what was published
    changes, fails, crashes

disk == <<tmp, final, data>>
record == <<status, saved>>
source == <<edited, changes>>
vars == <<disk, pc, fd, offset, tries, mishaps, record, source, fails, crashes>>

Inodes == 1..MaxInodes
NoInode == 0    \* an absent directory entry or a closed descriptor

\* So many mishaps are a reason to give up: all attempts but one.
Enough == MaxRetries - 1

Changed == <<"changed", 0>>     \* a unit of a file changed after publication
Hole == <<"hole", 0>>           \* a unit never written, in a sparse file
Units == (UNION {{<<h, i>> : i \in 1..SizeOf[h]} : h \in Hashes}) \cup {Changed, Hole}

\* The content whose SHA-256 is h.
Content(h) == [i \in 1..SizeOf[h] |-> <<h, i>>]

\* seek to off, then write unit u.
WriteAt(s, off, u) ==
    [i \in 1..(IF off < Len(s) THEN Len(s) ELSE off + 1) |->
        IF i = off + 1 THEN u ELSE IF i <= Len(s) THEN s[i] ELSE Hole]

\* The attempts that hold a slot.
Running == {h \in Hashes : pc[h] \notin {"idle", "waiting"}}
InUse == {tmp[n] : n \in Names} \cup {final[n] : n \in Names} \cup {fd[h] : h \in Hashes}
\* Which free inode a new file gets makes no difference.
FreeInode == {i \in Inodes \ InUse : \A j \in Inodes \ InUse : i <= j}

TypeOK ==
    /\ tmp \in [Names -> Inodes \cup {NoInode}]
    /\ final \in [Names -> Inodes \cup {NoInode}]
    /\ DOMAIN data = Inodes /\ \A i \in Inodes : \A k \in DOMAIN data[i] : data[i][k] \in Units
    /\ pc \in [Hashes -> {"idle", "waiting", "open", "size", "fetch", "discard", "rename",
                           "undo", "promote"}]
    /\ fd \in [Hashes -> Inodes \cup {NoInode}]
    /\ offset \in [Hashes -> Nat]
    /\ tries \in [Hashes -> 0..MaxRetries] /\ mishaps \in [Hashes -> 0..Enough]
    /\ status \in [Hashes -> {"KNOWN", "DOWNLOADING", "FAILED", "SEEDING"}]
    /\ saved \subseteq Hashes /\ edited \subseteq Hashes
    /\ \A h \in Hashes : tries[h] = 0 <=> pc[h] = "idle"
    \* A descriptor is open exactly from OpenFile to Close.
    /\ \A h \in Hashes : fd[h] # NoInode <=> pc[h] \in {"size", "fetch"}
    \* An attempt never asks for more than the file has.
    /\ \A h \in Hashes : offset[h] <= SizeOf[h]

\* A download of another version of some name may have left its partial file.
Init ==
    /\ \/ /\ tmp = [n \in Names |-> NoInode]
          /\ data = [i \in Inodes |-> <<>>]
       \/ \E n \in Names, left \in 1..MaxLeft :
             /\ tmp = [m \in Names |-> IF m = n THEN 1 ELSE NoInode]
             /\ data = [i \in Inodes |-> IF i = 1 THEN [k \in 1..left |-> Changed] ELSE <<>>]
    /\ final = [n \in Names |-> NoInode]
    /\ pc = [h \in Hashes |-> "idle"]
    /\ fd = [h \in Hashes |-> NoInode]
    /\ offset = [h \in Hashes |-> 0]
    /\ tries = [h \in Hashes |-> 0]
    /\ mishaps = [h \in Hashes |-> 0]
    /\ status = [h \in Hashes |-> "KNOWN"]
    /\ saved = {}
    /\ edited = {}
    /\ changes = 0
    /\ fails = 0
    /\ crashes = 0

Goes(h, to) == pc' = [pc EXCEPT ![h] = to]
Closes_Leak(h) ==   \* mutant: the descriptor stays open
    offset' = [offset EXCEPT ![h] = 0] /\ UNCHANGED fd
\* The deferred Close has run.
Closes(h) ==
    /\ fd' = [fd EXCEPT ![h] = NoInode]
    /\ offset' = [offset EXCEPT ![h] = 0]

Met(h) == mishaps' = [mishaps EXCEPT ![h] = IF @ < Enough THEN @ + 1 ELSE @]

\* An attempt has failed: the session tries again later, or it gives up.
AttemptFails(h) ==
    /\ status' = [status EXCEPT ![h] = "FAILED"]
    /\ \/ /\ tries[h] < MaxRetries
          /\ tries' = [tries EXCEPT ![h] = @ + 1]
          /\ Goes(h, "waiting")
       \/ /\ tries[h] >= MaxRetries
          /\ tries' = [tries EXCEPT ![h] = 0]
          /\ Goes(h, "idle")

-----------------------------------------------------------------------------
\* startTrackedDownload, when no session of h is in flight: a FILE_META, a manual
\* pull or a resume.  A pull does not ask whether the node has the file.
Begin(h) ==
    /\ pc[h] = "idle"
    /\ Goes(h, "waiting")
    /\ tries' = [tries EXCEPT ![h] = 1]
    /\ mishaps' = [mishaps EXCEPT ![h] = 0]
    /\ UNCHANGED <<disk, fd, offset, record, source, fails, crashes>>

\* A slot, and executeDownload has begun.
Acquire(h) ==
    /\ pc[h] = "waiting"
    /\ Cardinality(Running) < SyncCap
    /\ Goes(h, "open")
    /\ status' = [status EXCEPT ![h] = "DOWNLOADING"]
    /\ UNCHANGED <<disk, fd, offset, tries, mishaps, saved, source, fails, crashes>>

\* OpenFile(tmpPath, O_CREATE|O_RDWR).
OpenTmp(h) ==
    LET n == NameOf[h] IN
    /\ pc[h] = "open"
    /\ \/ /\ tmp[n] # NoInode
          /\ fd' = [fd EXCEPT ![h] = tmp[n]]
          /\ UNCHANGED <<tmp, data>>
       \/ /\ tmp[n] = NoInode
          /\ \E i \in FreeInode :
                /\ tmp' = [tmp EXCEPT ![n] = i]
                /\ data' = [data EXCEPT ![i] = <<>>]
                /\ fd' = [fd EXCEPT ![h] = i]
    /\ Goes(h, "size")
    /\ UNCHANGED <<final, offset, tries, mishaps, record, source, fails, crashes>>

TooLong_OrWhole(h, have) == have >= SizeOf[h]   \* mutant: off by one
TooLong(h, have) == have > SizeOf[h]

\* Resume behind what is there; start over when there is more than the file has.
SizeUp(h) ==
    LET have == Len(data[fd[h]]) IN
    /\ pc[h] = "size"
    /\ \/ /\ TooLong(h, have)
          /\ data' = [data EXCEPT ![fd[h]] = <<>>]
          /\ UNCHANGED offset
       \/ /\ ~TooLong(h, have)
          /\ offset' = [offset EXCEPT ![h] = have]
          /\ UNCHANGED data
    /\ Goes(h, "fetch")
    /\ UNCHANGED <<tmp, final, fd, tries, mishaps, record, source, fails, crashes>>

\* What the server may send at position i, for as long as the file is edited.
Served(h, i) == {<<h, i>>} \cup (IF h \in edited THEN {Changed} ELSE {})

FetchUnit(h) ==
    /\ pc[h] = "fetch"
    /\ offset[h] < SizeOf[h]
    /\ \E u \in Served(h, offset[h] + 1) :
          /\ data' = [data EXCEPT ![fd[h]] = WriteAt(@, offset[h], u)]
          /\ IF u = Changed THEN Met(h) ELSE UNCHANGED mishaps
    /\ offset' = [offset EXCEPT ![h] = @ + 1]
    /\ UNCHANGED <<tmp, final, pc, fd, tries, record, source, fails, crashes>>

\* Any error before the file is complete: the partial file stays.
TransientFailure(h) ==
    /\ pc[h] \in {"open", "size", "fetch"}
    /\ fails < MaxFails
    /\ fails' = fails + 1
    /\ Closes(h)
    /\ Met(h)
    /\ AttemptFails(h)
    /\ UNCHANGED <<disk, saved, source, crashes>>

HashMatches_Length(h) ==    \* mutant: only the length is compared
    Len(data[tmp[NameOf[h]]]) = SizeOf[h]
HashMatches(h) == data[tmp[NameOf[h]]] = Content(h)

\* Close, then computeFileHash of what tmpPath names now.
Verify(h) ==
    LET n == NameOf[h] IN
    /\ pc[h] = "fetch"
    /\ offset[h] >= SizeOf[h]
    /\ Closes(h)
    /\ \/ tmp[n] = NoInode /\ AttemptFails(h)
       \/ /\ tmp[n] # NoInode
          /\ Goes(h, IF HashMatches(h) THEN "rename" ELSE "discard")
          /\ UNCHANGED <<tries, status>>
    /\ UNCHANGED <<disk, mishaps, saved, source, fails, crashes>>

TmpRemoved_Kept(n) == tmp     \* mutant: the mismatching file stays
TmpRemoved(n) == [tmp EXCEPT ![n] = NoInode]

Discard_Both(h) ==  \* mutant: the final file is removed with the partial one
    /\ pc[h] \in {"discard", "undo"}
    /\ tmp' = TmpRemoved(NameOf[h])
    /\ final' = [final EXCEPT ![NameOf[h]] = NoInode]
    /\ AttemptFails(h)
    /\ UNCHANGED <<data, fd, offset, mishaps, saved, source, fails, crashes>>
\* Hash mismatch or failed rename: Remove(tmpPath).
Discard(h) ==
    /\ pc[h] \in {"discard", "undo"}
    /\ tmp' = TmpRemoved(NameOf[h])
    /\ AttemptFails(h)
    /\ UNCHANGED <<final, data, fd, offset, mishaps, saved, source, fails, crashes>>

\* Rename(tmpPath, finalPath), which fails when tmpPath is gone.
Rename(h) ==
    LET n == NameOf[h] IN
    /\ pc[h] = "rename"
    /\ \/ /\ tmp[n] # NoInode
          /\ final' = [final EXCEPT ![n] = tmp[n]]
          /\ tmp' = [tmp EXCEPT ![n] = NoInode]
          /\ Goes(h, "promote")
       \/ /\ tmp[n] = NoInode
          /\ UNCHANGED <<tmp, final>>
          /\ Goes(h, "undo")
    /\ UNCHANGED <<data, fd, offset, tries, mishaps, record, source, fails, crashes>>

\* The file system refuses the rename.
RenameFails(h) ==
    /\ pc[h] = "rename"
    /\ fails < MaxFails
    /\ fails' = fails + 1
    /\ Met(h)
    /\ Goes(h, "undo")
    /\ UNCHANGED <<disk, fd, offset, tries, record, source, crashes>>

\* executeDownload's UpdateFileStatus(SEEDING, LocalPath).
Promote(h) ==
    /\ pc[h] = "promote"
    /\ status' = [status EXCEPT ![h] = "SEEDING"]
    /\ saved' = saved \cup {h}
    /\ tries' = [tries EXCEPT ![h] = 0]
    /\ mishaps' = [mishaps EXCEPT ![h] = 0]
    /\ Goes(h, "idle")
    /\ UNCHANGED <<disk, fd, offset, source, fails, crashes>>

\* The process ends, and its sessions are not expected to succeed.
Crash ==
    /\ crashes < MaxCrashes
    /\ crashes' = crashes + 1
    /\ pc' = [h \in Hashes |-> "idle"]
    /\ fd' = [h \in Hashes |-> NoInode]
    /\ offset' = [h \in Hashes |-> 0]
    /\ tries' = [h \in Hashes |-> 0]
    /\ mishaps' = [h \in Hashes |-> IF pc[h] = "idle" THEN mishaps[h] ELSE Enough]
    /\ UNCHANGED <<disk, record, source, fails>>

\* The user of the source changes the published file, which goes on being served.
Edit(h) ==
    /\ h \notin edited
    /\ changes < MaxChanges
    /\ changes' = changes + 1
    /\ edited' = edited \cup {h}
    /\ UNCHANGED <<disk, pc, fd, offset, tries, mishaps, record, fails, crashes>>

\* The user puts back what was published.
Restore(h) ==
    /\ h \in edited
    /\ edited' = edited \ {h}
    /\ UNCHANGED <<disk, pc, fd, offset, tries, mishaps, record, changes, fails, crashes>>

Step(h) == \/ OpenTmp(h) \/ SizeUp(h) \/ FetchUnit(h) \/ Verify(h)
           \/ Discard(h) \/ Rename(h) \/ Promote(h)

\* What the sessions do by themselves, and what happens to them.
Work(h) == Acquire(h) \/ Step(h) \/ TransientFailure(h) \/ RenameFails(h)

Next == \/ \E h \in Hashes : Begin(h) \/ Work(h) \/ Edit(h) \/ Restore(h)
        \/ Crash

Spec == Init /\ [][Next]_vars

(* An attempt runs on by itself, and those that wait for a slot get it in   *)
(* the order of the channel.  Nobody has to begin a session.                *)
FairSpec == Spec /\ \A h \in Hashes : WF_vars(Step(h)) /\ SF_vars(Acquire(h))

-----------------------------------------------------------------------------
\* DownloadFile's contract (tcp.go:373-380): when it returns a path, that path
\* names a file whose content hashes to what was asked for.
ReturnedIsVerified ==
    [][\A h \in Hashes : pc[h] = "rename" /\ pc'[h] = "promote"
          => data'[final'[NameOf[h]]] = Content(h)]_vars

\* What was once saved stays there whole: while the file is downloaded again, at a
\* user's wish, whatever that download meets, and across crashes.
SavedIntact ==
    \A h \in saved : /\ final[NameOf[h]] # NoInode
                     /\ data[final[NameOf[h]]] = Content(h)

\* A partial download is never thrown away while it is still good, unless its
\* rename failed: a step that shortens or removes a partial file finds something
\* in it that is not of h.
GoodPartIsKept ==
    [][\A h \in Hashes : LET n == NameOf[h] IN
          /\ tmp[n] # NoInode
          /\ \A i \in DOMAIN data[tmp[n]] : data[tmp[n]][i] = <<h, i>>
          => \/ tmp'[n] = tmp[n] /\ Len(data'[tmp[n]]) >= Len(data[tmp[n]])
             \/ final'[n] = tmp[n]
             \/ pc[h] = "undo"]_vars

\* README.md:819: the partial file is removed automatically only when its hash
\* does not match.
TmpRemovedOnlyOnMismatch ==
    [][\A h \in Hashes : LET n == NameOf[h] IN
          tmp[n] # NoInode /\ tmp'[n] = NoInode
          => final'[n] = tmp[n] \/ data[tmp[n]] # Content(h)]_vars

\* filesync.go:374: DownloadFile has deleted the partial file when it returns an
\* error, that is, when an attempt ends and no promotion follows.
ErrorLeavesNoPart ==
    [][\A h \in Hashes : h \in Running /\ pc[h] # "promote" /\ pc'[h] \in {"idle", "waiting"}
          => tmp'[NameOf[h]] = NoInode]_vars

\* A session gives up only if it has met a mishap in all of its attempts but one:
\* that one may fall to a partial file it found, whose content does not match.
GivesUpAfterMishaps ==
    [][\A h \in Hashes :
          pc[h] # "idle" /\ pc'[h] = "idle" /\ status'[h] = "FAILED"
          => mishaps'[h] >= Enough]_vars

\* A session ends, and but for mishaps it ends with the file saved: neither a
\* partial file that a crash or another version of the same name has left, nor the
\* part that an edited source has spoilt, is resumed for ever.
SessionsSucceed ==
    \A h \in Hashes :
        pc[h] # "idle" ~> pc[h] = "idle" /\ (status[h] = "SEEDING" \/ mishaps[h] >= Enough)

=============================================================================
