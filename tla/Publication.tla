----------------------------- MODULE Publication ----------------------------
(***************************************************************************)
(* Files from their publication to the answer to a peer: PublishFile, the  *)
(* FILE_META, manual pull and download session writes that share the files *)
(* bucket with it, the resume at startup and the part of the TCP server    *)
(* that looks a file up and opens it, over a disk whose user edits and     *)
(* moves files meanwhile.                                                  *)
(*                                                                         *)
(* A content is known by its hash.  A file read while it is edited hashes  *)
(* to Torn, or to the content before or after.  Downloads write into the   *)
(* storage directory, where one path is set aside for each hash and which  *)
(* the user leaves alone.  Peers may offer what the user publishes too.    *)
(* Slots, the number of attempts and the failures that turn an offer       *)
(* manual-only are left to FileSync; here any of them may happen.          *)
(***************************************************************************)
EXTENDS FileBucket, FiniteSets

CONSTANTS
    Torn,           \* the hash of a mixture of two contents
    SizeOf,         \* [Hashes -> Sizes]
    StoredAt,       \* [Hashes -> Paths]: where a download of each hash ends
    UserPaths,      \* the paths the user publishes from
    Fetched,        \* hashes that peers offer
    UserContents,   \* contents the user's files may have
    Disks,          \* what the user's paths may hold at the start
    OfferedSizes,   \* [Fetched -> SUBSET Sizes]: sizes in the FILE_METAs of peers
    OldHashes,      \* hashes that an older version may have recorded
    OldSpellings,   \* ... under at most this many keys each
    MaxOffers,      \* bound on FILE_METAs
    MaxPublish,     \* bound on commands to publish
    MaxEdits,       \* bound on edits, moves and removals of a file
    MaxCrashes      \* bound on crashes

ASSUME PublicationAssumption ==
    /\ Torn \in Hashes \ Fetched
    /\ SizeOf \in [Hashes -> Sizes]
    /\ StoredAt \in [Hashes -> Paths \ UserPaths]
    /\ UserPaths \subseteq Paths
    /\ Fetched \subseteq Hashes
    /\ UserContents \subseteq Hashes \ {Torn}
    /\ Disks \subseteq [UserPaths -> UserContents]
    /\ OldHashes \subseteq Fetched \cup UserContents
    /\ OfferedSizes \in [Fetched -> SUBSET Sizes]
    /\ Absent \notin Record \cup Hashes
    /\ {OldSpellings, MaxOffers, MaxPublish, MaxEdits, MaxCrashes} \subseteq Nat

VARIABLES
    node,       \* "resuming" or "up"
    bucket,     \* the files bucket (persistent)
    disk,       \* the content at each path, or Absent
    todo,       \* keys that ResumePendingDownloads has listed and not reset
    publishers, \* the PublishFile calls under way, each a goroutine
    session,    \* the stage of the download session of each fetched hash
    conn,       \* the connection of a peer
    published,  \* hashes for which a PublishFile has returned nil
    touched,    \* paths changed by the user
    refetched,  \* hashes whose record a session has written and not completed, or
                \* completed over a publication's
    budget      \* offers, publications, edits and crashes left

ghosts == <<published, touched, refetched>>
vars == <<node, bucket, disk, todo, publishers, session, conn, ghosts, budget>>

Idle == [pc |-> "idle"]

Publisher == [pc : {"open", "read", "insert", "announce"}, path : UserPaths, size : Sizes,
              before : Hashes, hash : Hashes, calm : BOOLEAN]
Connection == [pc : {"wait", "send"}, hash : Hashes, record : Record]

\* Before its first attempt, in one, with the file in place, between two, over.
Stages == {"queued", "transfer", "saved", "failed", "none"}
NoSessions == [h \in Fetched |-> "none"]

\* The variables have their types, a hash has one record, and none is left
\* DOWNLOADING without a session in an attempt, whatever its key is.
TypeOK ==
    /\ node \in {"resuming", "up"}
    /\ DOMAIN bucket \subseteq Key
    /\ \A k \in DOMAIN bucket : bucket[k] \in Record
    /\ \A h \in Hashes : Cardinality(Spelled(bucket, h)) <= 1
    /\ disk \in [Paths -> Hashes \cup {Absent}]
    /\ todo \subseteq Key
    /\ publishers \subseteq Publisher
    /\ session \in [Fetched -> Stages]
    /\ node = "up" => \A k \in ListFilesByStatus(bucket, "DOWNLOADING") :
                         k[1] \in Fetched /\ session[k[1]] \in {"transfer", "saved"}
    /\ conn = Idle \/ conn \in Connection
    /\ published \subseteq Hashes
    /\ touched \subseteq UserPaths
    /\ refetched \subseteq Hashes

Rec(status, path, size, stamp, from) ==
    [status |-> status, path |-> path, size |-> size, stamp |-> stamp, from |-> from]

\* What an earlier run may have left of hash h, on a disk d: an offer, a broken
\* download, or a file that is still there.
Left(h, d) ==
    {Rec(st, NoPath, SizeOf[h], 1, "peer") :
        st \in IF h \in Fetched THEN {"KNOWN", "DOWNLOADING"} ELSE {}}
    \cup {Rec("SEEDING", p, SizeOf[h], 1, "self") : p \in {q \in UserPaths : d[q] = h}}

\* Nothing, or up to OldSpellings keys per hash.
OldKeys == {ks \in SUBSET (OldHashes \X (0..Normal)) :
               \A h \in Hashes : Cardinality({k \in ks : k[1] = h}) <= OldSpellings}

Init ==
    /\ node = "resuming"
    /\ \E d \in Disks : disk = [p \in Paths |-> IF p \in UserPaths THEN d[p] ELSE Absent]
    /\ \E ks \in OldKeys :
          bucket \in {b \in [ks -> UNION {Left(h, disk) : h \in Hashes}] :
                         \A k \in ks : b[k] \in Left(k[1], disk)}
    /\ todo = ListFilesByStatus(bucket, "DOWNLOADING")
    /\ publishers = {}
    /\ session = NoSessions
    /\ conn = Idle
    /\ published = {}
    /\ touched = {}
    /\ refetched = {}
    /\ budget = [offers |-> MaxOffers, publish |-> MaxPublish, edits |-> MaxEdits,
                 crashes |-> MaxCrashes]

Spend(what) == budget[what] > 0 /\ budget' = [budget EXCEPT ![what] = @ - 1]

-----------------------------------------------------------------------------
(* ResumePendingDownloads.                                                 *)

ResumeOne ==
    /\ node = "resuming"
    /\ \E k \in todo :
          /\ bucket' = UpdateFileStatus(bucket, k[1], "KNOWN", NoPath)
          /\ todo' = todo \ {k}
    /\ UNCHANGED <<node, disk, publishers, session, conn, ghosts, budget>>

ResumeDone ==
    /\ node = "resuming"
    /\ todo = {}
    /\ node' = "up"
    /\ UNCHANGED <<bucket, disk, todo, publishers, session, conn, ghosts, budget>>

-----------------------------------------------------------------------------
(* PublishFile.                                                            *)

\* The call u goes on as v.
Goes(u, v) == publishers' = (publishers \ {u}) \cup {v}

\* os.Stat.
PublishStat(p) ==
    /\ node = "up"
    /\ disk[p] # Absent
    /\ Spend("publish")
    /\ publishers' = publishers \cup {[pc |-> "open", path |-> p, size |-> SizeOf[disk[p]],
                                       before |-> disk[p], hash |-> disk[p], calm |-> TRUE]}
    /\ UNCHANGED <<node, bucket, disk, todo, session, conn, ghosts>>

\* os.Open, which fails when the file is gone.
PublishOpen(u) ==
    /\ u.pc = "open"
    /\ IF disk[u.path] = Absent THEN publishers' = publishers \ {u}
       ELSE Goes(u, [u EXCEPT !.pc = "read", !.before = disk[u.path]])
    /\ UNCHANGED <<node, bucket, disk, todo, session, conn, ghosts, budget>>

\* io.CopyBuffer into the hash: the open file is read although it was moved.
PublishHash(u) ==
    /\ u.pc = "read"
    /\ \E h \in {u.before} \cup (IF disk[u.path] \in {u.before, Absent} THEN {}
                                 ELSE {disk[u.path], Torn}) :
          Goes(u, [u EXCEPT !.pc = "insert", !.hash = h])
    /\ UNCHANGED <<node, bucket, disk, todo, session, conn, ghosts, budget>>

PublishInsert(u) ==
    /\ u.pc = "insert"
    /\ bucket' = InsertFileRecord(bucket, u.hash, Rec("SEEDING", u.path, u.size, Now, "self"))
    /\ refetched' = IF Owned(bucket, u.hash) THEN refetched ELSE refetched \ {u.hash}
    /\ Goes(u, [u EXCEPT !.pc = "announce"])
    /\ UNCHANGED <<node, disk, todo, session, conn, published, touched, budget>>

\* The FILE_META is sent; PublishFile returns nil, also for a duplicate.
PublishAnnounce(u) ==
    /\ u.pc = "announce"
    /\ published' = published \cup {u.hash}
    /\ publishers' = publishers \ {u}
    /\ UNCHANGED <<node, bucket, disk, todo, session, conn, touched, refetched, budget>>

-----------------------------------------------------------------------------
(* Peers' offers, manual pulls and the sessions that fetch a file.         *)

Stage(h, to) == session' = [session EXCEPT ![h] = to]

\* HandleFileMeta: a failed hash is left alone; an offer that is manual-only is
\* recorded as FAILED; another may start a session, unless the file is owned.
Offer(h) ==
    /\ node = "up"
    /\ Spend("offers")
    /\ Spelled(bucket, h) # {} => GetFile(bucket, h).status # "FAILED"
    /\ \E size \in OfferedSizes[h], status \in {"KNOWN", "FAILED"} :
          /\ bucket' = InsertFileRecord(bucket, h, Rec(status, NoPath, size, Now, "peer"))
          /\ \/ UNCHANGED session
             \/ /\ status = "KNOWN" /\ ~Owned(bucket, h) /\ session[h] = "none"
                /\ Stage(h, "queued")
    /\ UNCHANGED <<node, disk, todo, publishers, conn, ghosts>>

Sourced(h) == Spelled(bucket, h) # {} /\ GetFile(bucket, h).from = "peer"

\* PullFileByHash wants a record that names a peer, whatever its status is.
Pull(h) ==
    /\ node = "up"
    /\ Sourced(h)
    /\ session[h] = "none"
    /\ Stage(h, "queued")
    /\ UNCHANGED <<node, bucket, disk, todo, publishers, conn, ghosts, budget>>

\* A session in the given stages sets the status of the record and goes on.
SessionWrites(h, stages, status, to) ==
    /\ session[h] \in stages
    /\ bucket' = UpdateFileStatus(bucket, h, status, NoPath)
    /\ Stage(h, to)
    /\ refetched' = refetched \cup {h}
    /\ UNCHANGED <<node, todo, publishers, conn, published, touched, budget>>

\* An attempt begins, fails, or was the last one.
Mark(h) == SessionWrites(h, {"queued", "failed"}, "DOWNLOADING", "transfer") /\ UNCHANGED disk
Fail_Unverified(h) ==   \* mutant: the transfer writes the final file itself
    /\ SessionWrites(h, {"transfer"}, "FAILED", "failed")
    /\ disk' = [disk EXCEPT ![StoredAt[h]] = Torn]
Fail(h) == SessionWrites(h, {"transfer"}, "FAILED", "failed") /\ UNCHANGED disk
GiveUp(h) == SessionWrites(h, {"failed"}, "FAILED", "none") /\ UNCHANGED disk

\* DownloadFile renames what it has verified.
Save(h) ==
    /\ session[h] = "transfer"
    /\ disk' = [disk EXCEPT ![StoredAt[h]] = h]
    /\ Stage(h, "saved")
    /\ UNCHANGED <<node, bucket, todo, publishers, conn, ghosts, budget>>

\* UpdateFileStatus(SEEDING, LocalPath); the record keeps its size.
Promote(h) ==
    /\ session[h] = "saved"
    /\ bucket' = UpdateFileStatus(bucket, h, "SEEDING", StoredAt[h])
    /\ Stage(h, "none")
    /\ refetched' = IF Sourced(h) THEN refetched \ {h} ELSE refetched \cup {h}
    /\ UNCHANGED <<node, disk, todo, publishers, conn, published, touched, budget>>

Session(h) == Mark(h) \/ Fail(h) \/ GiveUp(h) \/ Save(h) \/ Promote(h)

-----------------------------------------------------------------------------
(* handleConn: the record is read before the wait for an upload slot, and   *)
(* used after it.                                                           *)

ServeLookup(h) ==
    /\ node = "up"
    /\ conn = Idle
    /\ Owned(bucket, h)
    /\ GetFile(bucket, h).path # NoPath
    /\ conn' = [pc |-> "wait", hash |-> h, record |-> GetFile(bucket, h)]
    /\ UNCHANGED <<node, bucket, disk, todo, publishers, session, ghosts, budget>>

\* A slot: the file is opened, and must have the size of the record at least.
\* None within 30 s, no file or too short a file: an error is the answer.
ServeAnswer ==
    LET path == conn.record.path IN
    /\ conn.pc = "wait"
    /\ \/ /\ disk[path] # Absent
          /\ SizeOf[disk[path]] >= conn.record.size
          /\ conn' = [conn EXCEPT !.pc = "send"]
       \/ conn' = Idle
    /\ UNCHANGED <<node, bucket, disk, todo, publishers, session, ghosts, budget>>

\* The file is streamed, up to the size of the record.
ServeDone ==
    /\ conn.pc = "send"
    /\ conn' = Idle
    /\ UNCHANGED <<node, bucket, disk, todo, publishers, session, ghosts, budget>>

-----------------------------------------------------------------------------
(* The user and crashes.                                                   *)

Touch(ps) ==
    /\ touched' = touched \cup ps
    /\ publishers' = {[u EXCEPT !.calm = @ /\ u.path \notin ps] : u \in publishers}

Edit(p, c) ==
    /\ Spend("edits")
    /\ disk[p] \notin {c, Absent}
    /\ disk' = [disk EXCEPT ![p] = c]
    /\ Touch({p})
    /\ UNCHANGED <<node, bucket, todo, session, conn, published, refetched>>

\* A file is moved over another, or its content copied there and removed.
Move(p, q) ==
    /\ Spend("edits")
    /\ p # q
    /\ disk[p] # Absent
    /\ disk' = [disk EXCEPT ![q] = disk[p], ![p] = Absent]
    /\ Touch({p, q})
    /\ UNCHANGED <<node, bucket, todo, session, conn, published, refetched>>

Crash ==
    /\ Spend("crashes")
    /\ node' = "resuming"
    /\ todo' = ListFilesByStatus(bucket, "DOWNLOADING")
    /\ publishers' = {}
    /\ session' = NoSessions
    /\ conn' = Idle
    /\ UNCHANGED <<bucket, disk, ghosts>>

Publish == \/ \E p \in UserPaths : PublishStat(p)
           \/ \E u \in publishers :
                 PublishOpen(u) \/ PublishHash(u) \/ PublishInsert(u) \/ PublishAnnounce(u)

User == \/ \E p \in UserPaths, c \in UserContents : Edit(p, c)
        \/ \E p \in UserPaths, q \in UserPaths : Move(p, q)

Next == \/ ResumeOne \/ ResumeDone
        \/ Publish
        \/ \E h \in Fetched : Offer(h) \/ Pull(h) \/ Session(h)
        \/ \E h \in Hashes : ServeLookup(h)
        \/ ServeAnswer \/ ServeDone
        \/ User
        \/ Crash

Spec == Init /\ [][Next]_vars

-----------------------------------------------------------------------------
\* The record of h leads to its whole content.
Servable(h) ==
    /\ Owned(bucket, h)
    /\ disk[GetFile(bucket, h).path] = h
    /\ GetFile(bucket, h).size = SizeOf[h]

\* filesync.go:476: what PublishFile has published, peers can pull, whatever they
\* offer meanwhile, whatever older versions and crashes have left, and whatever
\* happens to other copies: only a change of the very file that the record names,
\* before or after, takes it away.  What the code does not guard it against is a
\* download session of the same hash, one under way when the file is published or
\* one that a manual pull starts later (MCFileSync_publish, MCFileSync_redownload).
PublishedIsServable ==
    \A h \in published \ refetched :
        /\ Owned(bucket, h)
        /\ Servable(h) \/ GetFile(bucket, h).path \in touched

\* tcp.go:230-272: the record that a connection has read before it waits for a slot
\* may have changed when it is used, since the file is downloaded again or comes
\* from elsewhere by then.  All the same it leads to the content that was asked for,
\* until all of it is sent, unless the user has changed that file.
StaleRecordServes ==
    LET r == conn.record IN
    conn # Idle /\ r.path \notin touched =>
        /\ disk[r.path] = conn.hash
        \* A session that completes a publication's record keeps a size that may be
        \* that of an earlier content.
        /\ r.from = "peer" \/ r.path \in UserPaths => r.size = SizeOf[conn.hash]

Map == INSTANCE FileMap WITH
           Records <- Record,
           record <- [h \in Hashes |-> GetFile(bucket, h)]

\* storage.go:234-237: legacy keys or not, the bucket is a map from hashes to
\* records in which no insertion replaces an owned record and the first timestamp of
\* a hash is kept through offers, sessions, publications and restarts; sessions
\* change the status of a record, owned or not, and nothing else of it but the path
\* when the file has arrived.
ImplementsMap == Map!Spec

\* filesync.go:476 once more, without the exception: a publication during which
\* nothing happens to the file makes it available.
PublishingMakesAvailable ==
    [][\A u \in publishers : PublishAnnounce(u) /\ u.calm => Servable(u.hash)]_vars

\* storage.go:230-231: a hash already present as SEEDING is not overwritten,
\* whichever of several legacy keys the record is found under.
OwnedUnderAnyKey ==
    [][\A h \in Hashes :
          (\E k \in Spelled(bucket, h) : bucket[k].status = "SEEDING")
             => GetFile(bucket', h) = GetFile(bucket, h)]_vars

\* README.md:366: a record that says [seed] stands for a file that is being served.
SeedingIsServed ==
    \A h \in Fetched : Owned(bucket, h) => Servable(h)

=============================================================================
