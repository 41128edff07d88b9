-------------------------- MODULE PublicationProofs --------------------------
(* Proofs about Publication, and so about the operations of FileBucket, for *)
(* every set of hashes, paths, sizes, spellings, disks and old keys.        *)
EXTENDS Publication, FiniteSetTheorems, WellFoundedInduction, TLAPS

USE BucketAssumption, PublicationAssumption

-----------------------------------------------------------------------------
(* The bucket.                                                             *)

BucketTyped(b) == DOMAIN b \subseteq Key /\ \A k \in DOMAIN b : b[k] \in Record

\* A non-empty set of keys of one hash has one whose spelling comes first.
LEMMA FirstSpelling ==
    ASSUME NEW S \in SUBSET Key, S # {}
    PROVE  \E k \in S : \A l \in S : k[2] <= l[2]
<1> DEFINE N == {k[2] : k \in S}
<1>1. N \subseteq Nat /\ N # {}
  BY DEF Key
<1>2. \E x \in N : \A y \in N : <<y, x>> \notin OpToRel(<, Nat)
  <2> HIDE DEF N
  <2> QED
    BY <1>1, WFMin, NatLessThanWellFounded
<1>3. PICK x \in N : \A y \in N : ~(y < x)
  BY <1>1, <1>2 DEF OpToRel
<1>4. PICK k \in S : k[2] = x
  BY <1>3
<1>5. ASSUME NEW l \in S PROVE k[2] <= l[2]
  <2>1. l[2] \in N /\ l[2] \in Nat /\ x \in Nat
    BY <1>1
  <2> HIDE DEF N
  <2>2. ~(l[2] < x)
    BY <1>3, <2>1
  <2>3. x <= l[2]
    BY <2>1, <2>2
  <2> QED
    BY <1>4, <2>3
<1> QED
  BY <1>5

\* The key that a lookup by h finds.
KeyFound(b, h) == CHOOSE k \in Found(b, h) : TRUE

\* A lookup of a hash with any spelling in the bucket finds one of its keys.
LEMMA LookupFinds ==
    ASSUME NEW b, BucketTyped(b), NEW h \in Hashes, Spelled(b, h) # {}
    PROVE  /\ KeyFound(b, h) \in Spelled(b, h)
           /\ KeyFound(b, h) \in Found(b, h)
           /\ Found(b, h) \subseteq Spelled(b, h)
           /\ GetFile(b, h) = b[KeyFound(b, h)]
           /\ GetFile(b, h) \in Record
<1>1. Spelled(b, h) \in SUBSET Key
  BY DEF Spelled, BucketTyped
<1>2. Cursor(b, h) # {}
  BY <1>1, FirstSpelling DEF Cursor
<1>3. Found(b, h) # {} /\ Found(b, h) \subseteq Spelled(b, h)
  BY <1>2 DEF Found, Cursor, Spelled
<1>4. KeyFound(b, h) \in Found(b, h)
  BY <1>3 DEF KeyFound
<1> QED
  BY <1>3, <1>4 DEF GetFile, KeyFound, Spelled, BucketTyped

\* A lookup finds a record exactly where the hash has a spelling.
LEMMA LookupTyped ==
    ASSUME NEW b, BucketTyped(b), NEW h \in Hashes
    PROVE  /\ GetFile(b, h) \in Record \cup {Absent}
           /\ GetFile(b, h) = Absent <=> Spelled(b, h) = {}
BY LookupFinds DEF GetFile

\* In bucket c the hash h has the record rec, and all else is as in b.
Wrote(b, c, h, rec) ==
    /\ BucketTyped(c)
    /\ Spelled(c, h) # {} /\ GetFile(c, h) = rec
    /\ \A g \in Hashes \ {h} : Spelled(c, g) = Spelled(b, g) /\ GetFile(c, g) = GetFile(b, g)
    /\ \A k \in DOMAIN c : (k = <<h, Normal>> /\ c[k] = rec) \/ (k \in DOMAIN b /\ c[k] = b[k])

\* Put writes one record, whichever of the old keys of its hash it removes.
LEMMA PutWrites ==
    ASSUME NEW b, BucketTyped(b), NEW h \in Hashes, NEW rec \in Record,
           NEW gone \in SUBSET Spelled(b, h)
    PROVE  Wrote(b, Put(b, h, rec, gone), h, rec)
<1> DEFINE c == Put(b, h, rec, gone)
           n == <<h, Normal>>
<1>1. /\ n \in Key
      /\ DOMAIN c = (DOMAIN b \ gone) \cup {n}
      /\ c[n] = rec
      /\ \A k \in DOMAIN c : k # n => k \in DOMAIN b /\ c[k] = b[k]
  BY DEF Put, Key
<1>2. BucketTyped(c)
  BY <1>1 DEF BucketTyped
<1>3. n \in Spelled(c, h)
  BY <1>1 DEF Spelled
<1>4. GetFile(c, h) = rec
  <2>1. Found(c, h) = {n}
    BY <1>1 DEF Found
  <2> QED
    BY <1>1, <1>3, <2>1 DEF GetFile
<1>5. ASSUME NEW g \in Hashes \ {h}
      PROVE  Spelled(c, g) = Spelled(b, g) /\ GetFile(c, g) = GetFile(b, g)
  <2>1. Spelled(c, g) = Spelled(b, g)
    BY <1>1 DEF Spelled
  <2>2. Found(c, g) = Found(b, g)
    <3>1. <<g, Normal>> \in DOMAIN c <=> <<g, Normal>> \in DOMAIN b
      BY <1>1 DEF Spelled
    <3>2. Cursor(c, g) = Cursor(b, g)
      BY <2>1 DEF Cursor
    <3> QED
      BY <3>1, <3>2 DEF Found
  <2>3. CASE Spelled(b, g) = {}
    BY <2>1, <2>3 DEF GetFile
  <2>4. CASE Spelled(b, g) # {}
    <3>1. KeyFound(c, g) = KeyFound(b, g)
      BY <2>2 DEF KeyFound
    <3>2. KeyFound(b, g) \in Spelled(b, g)
      BY <2>4, LookupFinds
    <3>3. c[KeyFound(b, g)] = b[KeyFound(b, g)]
      BY <1>1, <2>1, <3>2 DEF Spelled
    <3> QED
      BY <1>2, <2>1, <2>4, <3>1, <3>3, LookupFinds
  <2> QED
    BY <2>1, <2>3, <2>4
<1> QED
  BY <1>1, <1>2, <1>3, <1>4, <1>5 DEF Wrote

\* An insertion changes nothing where the record is owned, and otherwise writes
\* the new record with the first timestamp.
LEMMA InsertWrites ==
    ASSUME NEW b, BucketTyped(b), NEW h \in Hashes, NEW rec \in Record
    PROVE  /\ Owned(b, h) => InsertFileRecord(b, h, rec) = b
           /\ ~Owned(b, h) => Wrote(b, InsertFileRecord(b, h, rec), h, Stamped(b, h, rec))
           /\ Stamped(b, h, rec) \in Record
           /\ Stamped(b, h, rec).status = rec.status
           /\ Stamped(b, h, rec).path = rec.path
           /\ Stamped(b, h, rec).size = rec.size
           /\ Stamped(b, h, rec).from = rec.from
           /\ Spelled(b, h) # {} /\ GetFile(b, h).stamp > 0
                => Stamped(b, h, rec).stamp = GetFile(b, h).stamp
<1>1. Spelled(b, h) # {} => GetFile(b, h) \in Record
  BY LookupFinds
<1>2. /\ Stamped(b, h, rec) \in Record
      /\ Stamped(b, h, rec).status = rec.status
      /\ Stamped(b, h, rec).path = rec.path
      /\ Stamped(b, h, rec).size = rec.size
      /\ Stamped(b, h, rec).from = rec.from
      /\ Spelled(b, h) # {} /\ GetFile(b, h).stamp > 0
            => Stamped(b, h, rec).stamp = GetFile(b, h).stamp
  BY <1>1 DEF Stamped, Record
<1>3. Found(b, h) \subseteq Spelled(b, h)
  BY DEF Found, Cursor, Spelled
<1>4. Wrote(b, Put(b, h, Stamped(b, h, rec), Found(b, h)), h, Stamped(b, h, rec))
  BY <1>2, <1>3, PutWrites
<1> QED
  BY <1>2, <1>4 DEF InsertFileRecord

\* What UpdateFileStatus makes of a record.
Updated(r, status, path) ==
    [r EXCEPT !.status = status, !.path = IF path = NoPath THEN @ ELSE path]

\* An update changes nothing where there is no record, and otherwise the status,
\* and the path if one is given.
LEMMA UpdateWrites ==
    ASSUME NEW b, BucketTyped(b), NEW h \in Hashes,
           NEW status \in Statuses, NEW path \in Paths \cup {NoPath}
    PROVE  /\ Spelled(b, h) = {} => UpdateFileStatus(b, h, status, path) = b
           /\ Spelled(b, h) # {} =>
                 LET rec == Updated(GetFile(b, h), status, path) IN
                 /\ Wrote(b, UpdateFileStatus(b, h, status, path), h, rec)
                 /\ rec \in Record
                 /\ rec.status = status
                 /\ rec.path = IF path = NoPath THEN GetFile(b, h).path ELSE path
                 /\ rec.size = GetFile(b, h).size
                 /\ rec.stamp = GetFile(b, h).stamp
                 /\ rec.from = GetFile(b, h).from
<1>1. CASE Spelled(b, h) = {}
  BY <1>1 DEF UpdateFileStatus
<1>2. CASE Spelled(b, h) # {}
  <2> DEFINE rec == Updated(GetFile(b, h), status, path)
  <2>1. GetFile(b, h) \in Record
    BY <1>2, LookupFinds
  <2>2. /\ rec \in Record
        /\ rec.status = status
        /\ rec.path = IF path = NoPath THEN GetFile(b, h).path ELSE path
        /\ rec.size = GetFile(b, h).size
        /\ rec.stamp = GetFile(b, h).stamp
        /\ rec.from = GetFile(b, h).from
    BY <2>1 DEF Updated, Record
  <2>3. Found(b, h) \subseteq Spelled(b, h)
    BY DEF Found, Cursor, Spelled
  <2>4. Wrote(b, Put(b, h, rec, Found(b, h)), h, rec)
    BY <2>2, <2>3, PutWrites
  <2>5. UpdateFileStatus(b, h, status, path) = Put(b, h, rec, Found(b, h))
    BY <1>2 DEF UpdateFileStatus, Moved, Updated
  <2> QED
    BY <1>2, <2>2, <2>4, <2>5
<1> QED
  BY <1>1, <1>2

-----------------------------------------------------------------------------
(* Types.  The number of keys of a hash is left to a later section.         *)

BaseType ==
    /\ node \in {"resuming", "up"}
    /\ BucketTyped(bucket)
    /\ disk \in [Paths -> Hashes \cup {Absent}]
    /\ \A p \in UserPaths : disk[p] \in UserContents \cup {Absent}
    /\ todo \subseteq Key
    /\ publishers \subseteq Publisher
    /\ session \in [Fetched -> Stages]
    /\ conn = Idle \/ conn \in Connection
    /\ published \subseteq Hashes
    /\ touched \subseteq UserPaths
    /\ refetched \subseteq Hashes

\* What Rec makes is a record with what it was given.
LEMMA RecTyped ==
    ASSUME NEW status \in Statuses, NEW path \in Paths \cup {NoPath}, NEW size \in Sizes,
           NEW stamp \in Stamps, NEW from \in Sources
    PROVE  LET r == Rec(status, path, size, stamp, from) IN
           /\ r \in Record
           /\ r.status = status /\ r.path = path /\ r.size = size
           /\ r.stamp = stamp /\ r.from = from
BY DEF Rec, Record

\* The record that an insertion of a publication is of.
PublisherRec(u) == Rec("SEEDING", u.path, u.size, Now, "self")

\* What is known of the record of a publication.
LEMMA PublisherRecTyped ==
    ASSUME NEW u \in Publisher
    PROVE  /\ PublisherRec(u) \in Record
           /\ PublisherRec(u).status = "SEEDING"
           /\ PublisherRec(u).path = u.path
           /\ PublisherRec(u).size = u.size
           /\ PublisherRec(u).from = "self"
<1>1. u.path \in Paths /\ u.size \in Sizes /\ "SEEDING" \in Statuses /\ Now \in Stamps
  BY DEF Publisher, Statuses, Now, Stamps
<1>2. "self" \in Sources /\ u.path \in Paths \cup {NoPath}
  BY <1>1 DEF Sources
<1> QED
  BY <1>1, <1>2, RecTyped DEF PublisherRec

\* An offer inserts the record of a peer, which nobody owns yet.
LEMMA OfferInserts ==
    ASSUME NEW h \in Fetched, Offer(h)
    PROVE  \E rec \in Record : /\ bucket' = InsertFileRecord(bucket, h, rec)
                               /\ rec.status \in {"KNOWN", "FAILED"}
                               /\ rec.path = NoPath /\ rec.from = "peer"
                               /\ rec.size \in OfferedSizes[h]
<1>1. PICK size \in OfferedSizes[h], status \in {"KNOWN", "FAILED"} :
         bucket' = InsertFileRecord(bucket, h, Rec(status, NoPath, size, Now, "peer"))
  BY DEF Offer
<1>2. size \in Sizes /\ status \in Statuses /\ Now \in Stamps /\ "peer" \in Sources
  BY DEF Statuses, Now, Stamps, Sources
<1>3. NoPath \in Paths \cup {NoPath}
  OBVIOUS
<1>4. LET r == Rec(status, NoPath, size, Now, "peer") IN
      r \in Record /\ r.status = status /\ r.path = NoPath /\ r.size = size /\ r.from = "peer"
  BY <1>2, <1>3, RecTyped
<1> QED
  BY <1>1, <1>4

\* Every step leaves the bucket alone, inserts a record, or updates one, whose path
\* changes only when its file has arrived.
BucketKind ==
    \/ bucket' = bucket
    \/ \E h \in Hashes, rec \in Record : bucket' = InsertFileRecord(bucket, h, rec)
    \/ \E h \in Hashes, status \in Statuses : bucket' = UpdateFileStatus(bucket, h, status, NoPath)
    \/ \E h \in Hashes : bucket' = UpdateFileStatus(bucket, h, "SEEDING", StoredAt[h])

\* Every step's change of the bucket is of one of these kinds.
LEMMA EveryBucketStep == BaseType /\ [Next]_vars => BucketKind
<1> SUFFICES ASSUME BaseType, [Next]_vars PROVE BucketKind
  OBVIOUS
<1>1. CASE ResumeOne
  <2>1. PICK k \in todo : bucket' = UpdateFileStatus(bucket, k[1], "KNOWN", NoPath)
    BY <1>1 DEF ResumeOne
  <2>2. k[1] \in Hashes
    BY DEF BaseType, Key
  <2> QED
    BY <2>1, <2>2 DEF BucketKind, Statuses
<1>2. ASSUME NEW u \in publishers, PublishInsert(u) PROVE BucketKind
  <2>1. u \in Publisher /\ u.hash \in Hashes
    BY DEF BaseType, Publisher
  <2>2. PublisherRec(u) \in Record
    BY <2>1, PublisherRecTyped
  <2> QED
    BY <1>2, <2>1, <2>2 DEF PublishInsert, BucketKind, PublisherRec
<1>3. ASSUME NEW h \in Fetched, Offer(h) PROVE BucketKind
  BY <1>3, OfferInserts DEF BucketKind
<1>4. ASSUME NEW h \in Fetched, Session(h) PROVE BucketKind
  BY <1>4 DEF Session, Mark, Fail, GiveUp, SessionWrites, Save, Promote, BucketKind, Statuses
<1>5. CASE ResumeDone \/ ServeAnswer \/ ServeDone \/ Crash
  BY <1>5 DEF ResumeDone, ServeAnswer, ServeDone, Crash, BucketKind
<1>6. ASSUME NEW p \in UserPaths, PublishStat(p) PROVE BucketKind
  BY <1>6 DEF PublishStat, BucketKind
<1>7. ASSUME NEW u \in publishers, PublishOpen(u) \/ PublishHash(u) \/ PublishAnnounce(u)
      PROVE  BucketKind
  BY <1>7 DEF PublishOpen, PublishHash, PublishAnnounce, BucketKind
<1>8. ASSUME NEW h \in Hashes, ServeLookup(h) \/ Pull(h) PROVE BucketKind
  BY <1>8 DEF ServeLookup, Pull, BucketKind
<1>9. CASE User
  BY <1>9 DEF User, Edit, Move, BucketKind
<1>10. CASE UNCHANGED vars
  BY <1>10 DEF vars, BucketKind
<1> QED
  BY <1>1, <1>2, <1>3, <1>4, <1>5, <1>6, <1>7, <1>8, <1>9, <1>10 DEF Next, Publish

\* Every step keeps the bucket's type.
LEMMA BucketTypedStep == BaseType /\ [Next]_vars => BucketTyped(bucket')
<1> SUFFICES ASSUME BaseType, [Next]_vars PROVE BucketTyped(bucket')
  OBVIOUS
<1>0. BucketTyped(bucket)
  BY DEF BaseType
<1>1. ASSUME NEW h \in Hashes, NEW rec \in Record, bucket' = InsertFileRecord(bucket, h, rec)
      PROVE  BucketTyped(bucket')
  BY <1>0, <1>1, InsertWrites DEF Wrote
<1>2. ASSUME NEW h \in Hashes, NEW status \in Statuses, NEW path \in Paths \cup {NoPath},
             bucket' = UpdateFileStatus(bucket, h, status, path)
      PROVE  BucketTyped(bucket')
  BY <1>0, <1>2, UpdateWrites DEF Wrote
<1>3. "SEEDING" \in Statuses /\ \A h \in Hashes : StoredAt[h] \in Paths \cup {NoPath}
  BY DEF Statuses
<1> QED
  BY <1>0, <1>1, <1>2, <1>3, EveryBucketStep DEF BucketKind

\* Of what an earlier run has left, each record is one: a peer's of a fetched file
\* without a path, or an owned one that names the file that is there, with its size.
LEMMA LeftTyped ==
    ASSUME NEW h \in Hashes, NEW d, NEW rec \in Left(h, d)
    PROVE  /\ rec \in Record
           /\ rec.size = SizeOf[h]
           /\ rec.status = "SEEDING" =>
                 rec.path \in UserPaths /\ d[rec.path] = h /\ rec.from = "self"
<1>1. SizeOf[h] \in Sizes /\ 1 \in Stamps /\ "peer" \in Sources /\ "self" \in Sources
  BY DEF Stamps, Sources
<1>2. ASSUME NEW st \in {"KNOWN", "DOWNLOADING"}, rec = Rec(st, NoPath, SizeOf[h], 1, "peer")
      PROVE  rec \in Record /\ rec.size = SizeOf[h] /\ rec.status # "SEEDING"
  <2>1. st \in Statuses /\ NoPath \in Paths \cup {NoPath}
    BY DEF Statuses
  <2>2. rec \in Record /\ rec.size = SizeOf[h] /\ rec.status = st
    BY <1>1, <1>2, <2>1, RecTyped
  <2> QED
    BY <2>2
<1>3. ASSUME NEW p \in UserPaths, d[p] = h, rec = Rec("SEEDING", p, SizeOf[h], 1, "self")
      PROVE  /\ rec \in Record
             /\ rec.size = SizeOf[h]
             /\ rec.path \in UserPaths /\ d[rec.path] = h /\ rec.from = "self"
  <2>1. "SEEDING" \in Statuses /\ p \in Paths \cup {NoPath}
    BY DEF Statuses
  <2>2. rec \in Record /\ rec.size = SizeOf[h] /\ rec.path = p /\ rec.from = "self"
    BY <1>1, <1>3, <2>1, RecTyped
  <2> QED
    BY <1>3, <2>2
<1>4. \/ \E st \in {"KNOWN", "DOWNLOADING"} : rec = Rec(st, NoPath, SizeOf[h], 1, "peer")
      \/ \E p \in UserPaths : d[p] = h /\ rec = Rec("SEEDING", p, SizeOf[h], 1, "self")
  BY DEF Left
<1> QED
  BY <1>2, <1>3, <1>4

\* What the bucket and the disk are at first.
LEMMA FirstBucket ==
    ASSUME Init
    PROVE  /\ DOMAIN bucket \subseteq Key
           /\ \A k \in DOMAIN bucket : k[1] \in Hashes /\ bucket[k] \in Left(k[1], disk)
           /\ disk \in [Paths -> Hashes \cup {Absent}]
           /\ \A p \in UserPaths : disk[p] \in UserContents
<1>1. PICK d \in Disks : disk = [p \in Paths |-> IF p \in UserPaths THEN d[p] ELSE Absent]
  BY DEF Init
<1>2. \A p \in UserPaths : d[p] \in UserContents
  BY <1>1
<1>3. disk \in [Paths -> Hashes \cup {Absent}] /\ \A p \in UserPaths : disk[p] \in UserContents
  BY <1>1, <1>2
<1>4. PICK ks \in OldKeys :
         bucket \in {b \in [ks -> UNION {Left(h, disk) : h \in Hashes}] :
                        \A k \in ks : b[k] \in Left(k[1], disk)}
  BY DEF Init
<1>5. DOMAIN bucket = ks /\ \A k \in ks : bucket[k] \in Left(k[1], disk)
  BY <1>4
<1>6. ks \subseteq Key /\ \A k \in ks : k[1] \in Hashes
  BY <1>4 DEF OldKeys, Key
<1> QED
  BY <1>3, <1>5, <1>6

\* The initial state has the right types.
LEMMA BaseTypeInit == Init => BaseType
<1> SUFFICES ASSUME Init PROVE BaseType
  OBVIOUS
<1>1. BucketTyped(bucket)
  BY FirstBucket, LeftTyped DEF BucketTyped
<1>2. todo \subseteq Key
  BY FirstBucket DEF Init, ListFilesByStatus
<1>3. session \in [Fetched -> Stages]
  BY DEF Init, NoSessions, Stages
<1> QED
  BY <1>1, <1>2, <1>3, FirstBucket DEF Init, BaseType

\* Where a session goes on, sessions stay typed.
LEMMA StageTyped ==
    ASSUME session \in [Fetched -> Stages], NEW h, NEW to \in Stages, Stage(h, to)
    PROVE  session' \in [Fetched -> Stages]
BY DEF Stage

\* Every step keeps the types.
LEMMA BaseTypeStep == BaseType /\ [Next]_vars => BaseType'
<1> SUFFICES ASSUME BaseType, [Next]_vars PROVE BaseType'
  OBVIOUS
<1>0. BucketTyped(bucket')
  BY BucketTypedStep
<1>a. session \in [Fetched -> Stages]
  BY DEF BaseType
<1> USE DEF BaseType, ghosts, Goes
<1>1. CASE ResumeOne
  BY <1>0, <1>1 DEF ResumeOne
<1>2. CASE ResumeDone
  BY <1>0, <1>2 DEF ResumeDone
<1>3. ASSUME NEW p \in UserPaths, PublishStat(p) PROVE BaseType'
  <2>1. disk[p] \in UserContents /\ disk[p] \in Hashes /\ SizeOf[disk[p]] \in Sizes
    BY <1>3 DEF PublishStat
  <2>2. [pc |-> "open", path |-> p, size |-> SizeOf[disk[p]], before |-> disk[p],
         hash |-> disk[p], calm |-> TRUE] \in Publisher
    BY <2>1 DEF Publisher
  <2> QED
    BY <1>0, <1>3, <2>2 DEF PublishStat
<1>4. ASSUME NEW u \in publishers, PublishOpen(u) PROVE BaseType'
  <2>1. u \in Publisher /\ u.path \in UserPaths
    BY DEF Publisher
  <2>2. disk[u.path] # Absent =>
            [u EXCEPT !.pc = "read", !.before = disk[u.path]] \in Publisher
    BY <2>1 DEF Publisher
  <2> QED
    BY <1>0, <1>4, <2>2 DEF PublishOpen
<1>5. ASSUME NEW u \in publishers, PublishHash(u) PROVE BaseType'
  <2>1. u \in Publisher /\ u.path \in UserPaths /\ u.before \in Hashes
    BY DEF Publisher
  <2>2. PICK h \in {u.before} \cup (IF disk[u.path] \in {u.before, Absent} THEN {}
                                   ELSE {disk[u.path], Torn}) :
           publishers' = (publishers \ {u}) \cup {[u EXCEPT !.pc = "insert", !.hash = h]}
    BY <1>5 DEF PublishHash
  <2>3. h \in Hashes
    BY <2>1, <2>2
  <2>4. [u EXCEPT !.pc = "insert", !.hash = h] \in Publisher
    BY <2>1, <2>3 DEF Publisher
  <2> QED
    BY <1>0, <1>5, <2>2, <2>4 DEF PublishHash
<1>6. ASSUME NEW u \in publishers, PublishInsert(u) PROVE BaseType'
  <2>1. [u EXCEPT !.pc = "announce"] \in Publisher
    BY DEF Publisher
  <2> QED
    BY <1>0, <1>6, <2>1 DEF PublishInsert
<1>7. ASSUME NEW u \in publishers, PublishAnnounce(u) PROVE BaseType'
  <2>1. u.hash \in Hashes
    BY DEF Publisher
  <2> QED
    BY <1>0, <1>7, <2>1 DEF PublishAnnounce
<1>8. ASSUME NEW h \in Fetched, Offer(h) PROVE BaseType'
  <2>1. "queued" \in Stages
    BY DEF Stages
  <2>2. session' = session \/ Stage(h, "queued")
    BY <1>8 DEF Offer
  <2>3. session' \in [Fetched -> Stages]
    BY <1>a, <2>1, <2>2, StageTyped
  <2> QED
    BY <1>0, <1>8, <2>3 DEF Offer
<1>9. ASSUME NEW h \in Fetched, Pull(h) PROVE BaseType'
  <2>1. session' \in [Fetched -> Stages]
    BY <1>a, <1>9, StageTyped DEF Pull, Stages
  <2> QED
    BY <1>0, <1>9, <2>1 DEF Pull
<1>10. ASSUME NEW h \in Fetched, Session(h) PROVE BaseType'
  <2>1. session' \in [Fetched -> Stages]
    BY <1>a, <1>10, StageTyped
       DEF Session, Mark, Fail, GiveUp, Save, Promote, SessionWrites, Stages
  <2>2. StoredAt[h] \in Paths \ UserPaths /\ h \in Hashes
    OBVIOUS
  <2>3. /\ disk' \in [Paths -> Hashes \cup {Absent}]
        /\ \A p \in UserPaths : disk'[p] \in UserContents \cup {Absent}
    BY <1>10, <2>2 DEF Session, Mark, Fail, GiveUp, Save, Promote, SessionWrites
  <2>4. refetched' \subseteq Hashes
    BY <1>10, <2>2 DEF Session, Mark, Fail, GiveUp, Save, Promote, SessionWrites
  <2>5. UNCHANGED <<node, todo, publishers, conn, published, touched>>
    BY <1>10 DEF Session, Mark, Fail, GiveUp, Save, Promote, SessionWrites
  <2> QED
    BY <1>0, <2>1, <2>3, <2>4, <2>5
<1>11. ASSUME NEW h \in Hashes, ServeLookup(h) PROVE BaseType'
  <2>1. GetFile(bucket, h) \in Record
    BY <1>11, LookupFinds DEF ServeLookup, Owned
  <2>2. [pc |-> "wait", hash |-> h, record |-> GetFile(bucket, h)] \in Connection
    BY <2>1 DEF Connection
  <2> QED
    BY <1>0, <1>11, <2>2 DEF ServeLookup
<1>12. CASE ServeAnswer
  <2>1. conn \in Connection => [conn EXCEPT !.pc = "send"] \in Connection
    BY DEF Connection
  <2>2. conn \in Connection
    BY <1>12 DEF ServeAnswer, Idle
  <2> QED
    BY <1>0, <1>12, <2>1, <2>2 DEF ServeAnswer
<1>13. ASSUME NEW ps \in SUBSET UserPaths, Touch(ps)
       PROVE  touched' \subseteq UserPaths /\ publishers' \subseteq Publisher
  <2>1. ASSUME NEW u \in publishers
        PROVE  [u EXCEPT !.calm = @ /\ u.path \notin ps] \in Publisher
    <3> DEFINE b == u.calm /\ u.path \notin ps
    <3>1. b \in BOOLEAN
      OBVIOUS
    <3>2. [u EXCEPT !.calm = b] \in Publisher
      <4> HIDE DEF b
      <4> QED
        BY <3>1 DEF Publisher
    <3> QED
      BY <3>2
  <2> QED
    BY <1>13, <2>1 DEF Touch
<1>14. ASSUME NEW p \in UserPaths, NEW c \in UserContents, Edit(p, c) PROVE BaseType'
  <2>1. touched' \subseteq UserPaths /\ publishers' \subseteq Publisher
    BY <1>13, <1>14 DEF Edit
  <2>2. /\ disk' \in [Paths -> Hashes \cup {Absent}]
        /\ \A q \in UserPaths : disk'[q] \in UserContents \cup {Absent}
    BY <1>14 DEF Edit
  <2> QED
    BY <1>0, <1>14, <2>1, <2>2 DEF Edit
<1>15. ASSUME NEW p \in UserPaths, NEW q \in UserPaths, Move(p, q) PROVE BaseType'
  <2>1. touched' \subseteq UserPaths /\ publishers' \subseteq Publisher
    BY <1>13, <1>15 DEF Move
  <2>2. /\ disk' \in [Paths -> Hashes \cup {Absent}]
        /\ \A r \in UserPaths : disk'[r] \in UserContents \cup {Absent}
    BY <1>15 DEF Move
  <2> QED
    BY <1>0, <1>15, <2>1, <2>2 DEF Move
<1>16. CASE Crash
  <2>1. session' \in [Fetched -> Stages]
    BY <1>16 DEF Crash, NoSessions, Stages
  <2> QED
    BY <1>0, <1>16, <2>1 DEF Crash, ListFilesByStatus, BucketTyped
<1>17. CASE ServeDone \/ UNCHANGED vars
  BY <1>0, <1>17 DEF ServeDone, vars
<1> QED
  BY <1>1, <1>2, <1>3, <1>4, <1>5, <1>6, <1>7, <1>8, <1>9, <1>10, <1>11, <1>12, <1>14,
     <1>15, <1>16, <1>17 DEF Next, Publish, User

-----------------------------------------------------------------------------
(* The refinement of FileMap: what lookups find is a map from hashes.       *)

FoundRecords == [h \in Hashes |-> GetFile(bucket, h)]

\* Where one record is written, lookups find that one, and else what they found.
LEMMA WriteSeen ==
    ASSUME NEW h \in Hashes, NEW rec \in Record, Wrote(bucket, bucket', h, rec)
    PROVE  FoundRecords' = [FoundRecords EXCEPT ![h] = rec] /\ FoundRecords'[h] = rec
BY DEF FoundRecords, Wrote

\* Every step inserts or updates one record of the map, or leaves it alone.
LEMMA MapStep ==
    BaseType /\ [Next]_vars => [Map!Next]_([h \in Hashes |-> GetFile(bucket, h)])
<1> SUFFICES ASSUME BaseType, [Next]_vars PROVE Map!Next \/ FoundRecords' = FoundRecords
  BY DEF FoundRecords
<1>0. BucketTyped(bucket)
  BY DEF BaseType
<1>1. CASE bucket' = bucket
  BY <1>1 DEF FoundRecords
<1>2. ASSUME NEW h \in Hashes, NEW rec \in Record, bucket' = InsertFileRecord(bucket, h, rec)
      PROVE  Map!Next \/ FoundRecords' = FoundRecords
  <2>1. CASE Owned(bucket, h)
    <3>1. bucket' = bucket
      BY <1>0, <1>2, <2>1, InsertWrites
    <3> QED
      BY <3>1 DEF FoundRecords
  <2>2. CASE ~Owned(bucket, h)
    <3> DEFINE new == Stamped(bucket, h, rec)
    <3>1. /\ Wrote(bucket, bucket', h, new) /\ new \in Record
          /\ Spelled(bucket, h) # {} /\ GetFile(bucket, h).stamp > 0
                => new.stamp = GetFile(bucket, h).stamp
      BY <1>0, <1>2, <2>2, InsertWrites
    <3>2. FoundRecords' = [FoundRecords EXCEPT ![h] = new] /\ FoundRecords'[h] = new
      BY <3>1, WriteSeen
    <3>3. Map!Has(h) => Spelled(bucket, h) # {} /\ GetFile(bucket, h).status # "SEEDING"
      BY <1>0, <2>2, LookupTyped DEF Map!Has, Owned
    <3>4. Map!Insert(h)
      BY <3>1, <3>2, <3>3 DEF Map!Insert, Map!Writes, FoundRecords
    <3> QED
      BY <3>4 DEF Map!Next
  <2> QED
    BY <2>1, <2>2
<1>3. ASSUME NEW h \in Hashes, NEW status \in Statuses, NEW path \in Paths \cup {NoPath},
             bucket' = UpdateFileStatus(bucket, h, status, path),
             path = NoPath \/ (status = "SEEDING" /\ path = StoredAt[h])
      PROVE  Map!Next \/ FoundRecords' = FoundRecords
  <2>1. CASE Spelled(bucket, h) = {}
    <3>1. bucket' = bucket
      BY <1>0, <1>3, <2>1, UpdateWrites
    <3> QED
      BY <3>1 DEF FoundRecords
  <2>2. CASE Spelled(bucket, h) # {}
    <3> DEFINE new == Updated(GetFile(bucket, h), status, path)
    <3>1. /\ Wrote(bucket, bucket', h, new) /\ new \in Record /\ new.status = status
          /\ GetFile(bucket, h) \in Record
      BY <1>0, <1>3, <2>2, UpdateWrites, LookupFinds
    <3>2. FoundRecords' = [FoundRecords EXCEPT ![h] = new] /\ FoundRecords'[h] = new
      BY <3>1, WriteSeen
    <3>3. Map!Has(h) /\ FoundRecords[h] = GetFile(bucket, h)
      BY <1>0, <2>2, LookupTyped DEF Map!Has, FoundRecords
    <3>4. CASE path = NoPath
      <4>1. new = [GetFile(bucket, h) EXCEPT !.status = status]
        BY <3>1, <3>4 DEF Updated, Record
      <4>2. Map!Update(h)
        <5> HIDE DEF new
        <5> QED
          BY <3>1, <3>2, <3>3, <4>1 DEF Map!Update, Map!Writes, FoundRecords
      <4> QED
        BY <4>2 DEF Map!Next
    <3>5. CASE status = "SEEDING" /\ path = StoredAt[h]
      <4>1. new = [GetFile(bucket, h) EXCEPT !.status = "SEEDING", !.path = StoredAt[h]]
        <5>1. path # NoPath
          BY <3>5
        <5>2. new = [GetFile(bucket, h) EXCEPT !.status = status, !.path = path]
          BY <5>1 DEF Updated
        <5> QED
          BY <3>5, <5>2
      <4>2. Map!Complete(h)
        <5> HIDE DEF new
        <5> QED
          BY <3>2, <3>3, <4>1 DEF Map!Complete, Map!Writes, FoundRecords
      <4> QED
        BY <4>2 DEF Map!Next
    <3> QED
      BY <1>3, <3>4, <3>5
  <2> QED
    BY <2>1, <2>2
<1>4. /\ "SEEDING" \in Statuses /\ NoPath \in Paths \cup {NoPath}
      /\ \A h \in Hashes : StoredAt[h] \in Paths \cup {NoPath}
  BY DEF Statuses
<1> QED
  BY <1>1, <1>2, <1>3, <1>4, EveryBucketStep DEF BucketKind

\* Legacy keys or not, and however many of them a hash has, the bucket is a map
\* from hashes to records in which no insertion replaces an owned record and the
\* first timestamp of a hash is kept; a session changes the status of a record,
\* owned or not, and nothing else of it but the path when the file has arrived.
THEOREM MapImplemented == Spec => ImplementsMap
<1>1. Init => Map!Init
  <2> SUFFICES ASSUME Init PROVE Map!Init
    OBVIOUS
  <2>1. BucketTyped(bucket)
    BY BaseTypeInit DEF BaseType
  <2> QED
    BY <2>1, LookupTyped DEF Map!Init
<1>2. Init => BaseType
  BY BaseTypeInit
<1>3. BaseType /\ [Next]_vars => BaseType'
  BY BaseTypeStep
<1>4. BaseType /\ [Next]_vars => [Map!Next]_([h \in Hashes |-> GetFile(bucket, h)])
  BY MapStep
<1> QED
  BY <1>1, <1>2, <1>3, <1>4, PTL DEF Spec, ImplementsMap, Map!Spec

-----------------------------------------------------------------------------
(* Where older versions have left at most one key of each hash, there is    *)
(* never more than one, and so no record is left DOWNLOADING by anyone.     *)

OneKey(b) == \A k \in DOMAIN b, l \in DOMAIN b : k[1] = l[1] => k = l

\* All records that c has of the hash h are rec, and of the others as b has.
WroteAll(b, c, h, rec) ==
    /\ \A k \in DOMAIN c : (k[1] = h /\ c[k] = rec) \/ (k[1] # h /\ k \in DOMAIN b /\ c[k] = b[k])
    /\ \A k \in DOMAIN b : k[1] # h => k \in DOMAIN c

\* The key that Put writes is then the only one of its hash.
LEMMA PutOne ==
    ASSUME NEW b, BucketTyped(b), OneKey(b), NEW h \in Hashes, NEW rec
    PROVE  LET c == Put(b, h, rec, Found(b, h)) IN OneKey(c) /\ WroteAll(b, c, h, rec)
<1> DEFINE c == Put(b, h, rec, Found(b, h))
<1>1. \A k \in DOMAIN b : k[1] = h => k \in Found(b, h) \/ k = <<h, Normal>>
  <2> SUFFICES ASSUME NEW k \in DOMAIN b, k[1] = h PROVE k \in Found(b, h)
    OBVIOUS
  <2>1. k \in Spelled(b, h) /\ k \in Key
    BY DEF Spelled, BucketTyped
  <2>2. PICK l \in Found(b, h) : l \in Spelled(b, h)
    BY <2>1, LookupFinds
  <2> QED
    BY <2>1, <2>2 DEF OneKey, Spelled
<1>2. DOMAIN c = (DOMAIN b \ Found(b, h)) \cup {<<h, Normal>>}
  BY DEF Put
<1>3. \A k \in DOMAIN c : c[k] = IF k = <<h, Normal>> THEN rec ELSE b[k]
  BY DEF Put
<1>4. <<h, Normal>>[1] = h
  OBVIOUS
<1> HIDE DEF c
<1>5. \A k \in DOMAIN c : k = <<h, Normal>> \/ (k \in DOMAIN b /\ k[1] # h)
  BY <1>1, <1>2
<1>6. OneKey(c)
  BY <1>4, <1>5 DEF OneKey
<1>7. \A k \in DOMAIN b : k[1] # h => k \in DOMAIN c
  <2>1. \A k \in Found(b, h) : k[1] = h
    BY DEF Found, Cursor, Spelled
  <2> QED
    BY <1>2, <2>1
<1>8. WroteAll(b, c, h, rec)
  BY <1>3, <1>4, <1>5, <1>7 DEF WroteAll
<1> QED
  BY <1>6, <1>8 DEF c

\* An insertion writes all that is found of its hash, or nothing.
LEMMA InsertOne ==
    ASSUME NEW b, BucketTyped(b), OneKey(b), NEW h \in Hashes, NEW rec \in Record
    PROVE  LET c == InsertFileRecord(b, h, rec) IN
           /\ OneKey(c)
           /\ c = b \/ \E r \in Record : r.status = rec.status /\ WroteAll(b, c, h, r)
<1>1. CASE Owned(b, h)
  BY <1>1 DEF InsertFileRecord
<1>2. CASE ~Owned(b, h)
  BY <1>2, PutOne, InsertWrites DEF InsertFileRecord
<1> QED
  BY <1>1, <1>2

\* So does an update.
LEMMA UpdateOne ==
    ASSUME NEW b, BucketTyped(b), OneKey(b), NEW h \in Hashes,
           NEW status \in Statuses, NEW path \in Paths \cup {NoPath}
    PROVE  LET c == UpdateFileStatus(b, h, status, path) IN
           /\ OneKey(c)
           /\ \E r : r.status = status /\ WroteAll(b, c, h, r)
<1>1. CASE Spelled(b, h) = {}
  <2>1. \A k \in DOMAIN b : k[1] # h
    BY <1>1 DEF Spelled
  <2>2. UpdateFileStatus(b, h, status, path) = b
    BY <1>1 DEF UpdateFileStatus
  <2>3. [status |-> status].status = status
    OBVIOUS
  <2> QED
    BY <2>1, <2>2, <2>3 DEF WroteAll
<1>2. CASE Spelled(b, h) # {}
  <2> DEFINE rec == Updated(GetFile(b, h), status, path)
  <2>1. rec.status = status
    BY <1>2, UpdateWrites
  <2>2. UpdateFileStatus(b, h, status, path) = Put(b, h, rec, Found(b, h))
    BY <1>2 DEF UpdateFileStatus, Moved, Updated
  <2> HIDE DEF rec
  <2> QED
    BY <2>1, <2>2, PutOne
<1> QED
  BY <1>1, <1>2

\* A key that is DOWNLOADING is on the list to reset, or has a session in an
\* attempt, and no other key is on the list.
BusyKnown ==
    /\ \A k \in DOMAIN bucket : bucket[k].status = "DOWNLOADING" =>
          IF node = "resuming" THEN k \in todo
          ELSE k[1] \in Fetched /\ session[k[1]] \in {"transfer", "saved"}
    /\ \A k \in todo : /\ node = "resuming"
                       /\ k \in DOMAIN bucket /\ bucket[k].status = "DOWNLOADING"

\* Nothing else runs while stale records are reset.
OnlyResuming == node = "resuming" => publishers = {} /\ session = NoSessions /\ conn = Idle

TInv == BaseType /\ OneKey(bucket) /\ OnlyResuming /\ BusyKnown

\* Initially a hash has one key if at most one spelling is left of each.
LEMMA FirstKeys == Init /\ OldSpellings <= 1 => OneKey(bucket)
<1> SUFFICES ASSUME Init, OldSpellings <= 1, NEW k \in DOMAIN bucket, NEW l \in DOMAIN bucket,
                    k[1] = l[1], k # l
             PROVE  FALSE
  BY DEF OneKey
<1>1. DOMAIN bucket \in OldKeys
  BY DEF Init
<1> DEFINE S == {m \in DOMAIN bucket : m[1] = k[1]}
<1>2. k[1] \in Hashes
  BY FirstBucket
<1>3. DOMAIN bucket \in SUBSET (OldHashes \X (0..Normal)) /\ Cardinality(S) <= OldSpellings
  BY <1>1, <1>2 DEF OldKeys
<1>4. IsFiniteSet(S)
  <2>1. IsFiniteSet({k[1]})
    BY FS_Singleton
  <2>2. IsFiniteSet(0..Normal)
    <3>1. 0 \in Int /\ Normal \in Int
      OBVIOUS
    <3> QED
      BY <3>1, FS_Interval
  <2>3. IsFiniteSet({k[1]} \X (0..Normal))
    BY <2>1, <2>2, FS_Product
  <2>4. S \subseteq {k[1]} \X (0..Normal)
    BY <1>3
  <2> QED
    BY <2>3, <2>4, FS_Subset
<1>5. {k, l} \subseteq S
  OBVIOUS
<1>6. Cardinality({k, l}) = 2
  <2>1. IsFiniteSet({k}) /\ Cardinality({k}) = 1
    BY FS_Singleton
  <2>2. {k, l} = {k} \cup {l} /\ l \notin {k}
    OBVIOUS
  <2>3. Cardinality({k} \cup {l}) = Cardinality({k}) + 1
    BY <2>1, <2>2, FS_AddElement
  <2>4. Cardinality({k}) + 1 = 2
    BY <2>1
  <2> QED
    BY <2>2, <2>3, <2>4
<1>7. Cardinality({k, l}) <= Cardinality(S)
  BY <1>4, <1>5, FS_Subset
<1>8. Cardinality(S) \in Nat
  BY <1>4, FS_CardinalityType
<1> HIDE DEF S
<1>9. OldSpellings \in Nat
  OBVIOUS
<1> QED
  BY <1>3, <1>6, <1>7, <1>8, <1>9

\* Nothing is started before the list is done.
LEMMA OnlyResumingStep == BaseType /\ OnlyResuming /\ [Next]_vars => OnlyResuming'
<1> SUFFICES ASSUME BaseType, OnlyResuming, [Next]_vars PROVE OnlyResuming'
  OBVIOUS
<1>1. CASE Crash
  BY <1>1 DEF Crash, OnlyResuming
<1>2. CASE ResumeOne \/ ResumeDone \/ UNCHANGED vars
  BY <1>2 DEF ResumeOne, ResumeDone, vars, OnlyResuming
<1>3. CASE Publish
  <2>1. node # "resuming"
    BY <1>3 DEF OnlyResuming, Publish, PublishStat
  <2>2. node' = node
    BY <1>3 DEF Publish, PublishStat, PublishOpen, PublishHash, PublishInsert, PublishAnnounce
  <2> QED
    BY <2>1, <2>2 DEF OnlyResuming
<1>4. ASSUME NEW h \in Fetched, Offer(h) \/ Pull(h) PROVE OnlyResuming'
  BY <1>4 DEF Offer, Pull, OnlyResuming
<1>5. ASSUME NEW h \in Fetched, Session(h) PROVE OnlyResuming'
  <2>1. session[h] # "none" /\ node' = node
    BY <1>5 DEF Session, Mark, Fail, GiveUp, Save, Promote, SessionWrites
  <2>2. node # "resuming"
    BY <2>1 DEF OnlyResuming, NoSessions
  <2> QED
    BY <2>1, <2>2 DEF OnlyResuming
<1>6. ASSUME NEW h \in Hashes, ServeLookup(h) PROVE OnlyResuming'
  BY <1>6 DEF ServeLookup, OnlyResuming
<1>7. CASE ServeAnswer \/ ServeDone
  <2>1. conn # Idle
    BY <1>7 DEF ServeAnswer, ServeDone, Idle
  <2> QED
    BY <1>7, <2>1 DEF ServeAnswer, ServeDone, OnlyResuming
<1>8. CASE User
  <2>1. UNCHANGED <<node, session, conn>> /\ (publishers = {} => publishers' = {})
    BY <1>8 DEF User, Edit, Move, Touch
  <2> QED
    BY <2>1 DEF OnlyResuming
<1> QED
  BY <1>1, <1>2, <1>3, <1>4, <1>5, <1>6, <1>7, <1>8 DEF Next

\* A session of h that goes on leaves the others where they are.
LEMMA StageSets ==
    ASSUME BaseType, NEW h \in Fetched, NEW to, Stage(h, to)
    PROVE  session'[h] = to /\ \A g \in Fetched \ {h} : session'[g] = session[g]
BY DEF BaseType, Stage

\* Every step keeps one key of each hash, and knows of those that are DOWNLOADING.
LEMMA KeysStep == TInv /\ [Next]_vars => OneKey(bucket') /\ BusyKnown'
<1> SUFFICES ASSUME TInv, [Next]_vars PROVE OneKey(bucket') /\ BusyKnown'
  OBVIOUS
<1>0. /\ BaseType /\ BucketTyped(bucket) /\ node \in {"resuming", "up"}
      /\ OneKey(bucket) /\ BusyKnown /\ OnlyResuming
  BY DEF TInv, BaseType
<1>1. CASE bucket' = bucket /\ UNCHANGED <<node, todo, session>>
  BY <1>0, <1>1 DEF BusyKnown
<1>2. ASSUME NEW g \in Hashes, NEW rec \in Record, rec.status # "DOWNLOADING", node = "up",
             bucket' = InsertFileRecord(bucket, g, rec), UNCHANGED <<node, todo>>,
             \A h \in Fetched : session[h] \in {"transfer", "saved"} => session'[h] = session[h]
      PROVE  OneKey(bucket') /\ BusyKnown'
  <2>1. /\ OneKey(bucket')
        /\ bucket' = bucket \/ \E r \in Record : r.status # "DOWNLOADING"
                                               /\ WroteAll(bucket, bucket', g, r)
    BY <1>0, <1>2, InsertOne
  <2>2. todo = {}
    BY <1>0, <1>2 DEF BusyKnown
  <2>3. CASE bucket' = bucket
    BY <1>0, <1>2, <2>1, <2>2, <2>3 DEF BusyKnown
  <2>4. ASSUME NEW r \in Record, r.status # "DOWNLOADING", WroteAll(bucket, bucket', g, r)
        PROVE  OneKey(bucket') /\ BusyKnown'
    BY <1>0, <1>2, <2>1, <2>2, <2>4 DEF WroteAll, BusyKnown
  <2> QED
    BY <2>1, <2>3, <2>4
<1>3. CASE ResumeOne
  <2>1. PICK k \in todo : /\ bucket' = UpdateFileStatus(bucket, k[1], "KNOWN", NoPath)
                          /\ todo' = todo \ {k} /\ node' = node /\ node = "resuming"
    BY <1>3 DEF ResumeOne
  <2>2. k[1] \in Hashes /\ "KNOWN" \in Statuses /\ k \in DOMAIN bucket
    BY <1>0 DEF BaseType, Key, Statuses, BusyKnown
  <2>3. OneKey(bucket') /\ \E r : r.status = "KNOWN" /\ WroteAll(bucket, bucket', k[1], r)
    BY <1>0, <2>1, <2>2, UpdateOne
  <2>4. \A l \in todo' : l \in DOMAIN bucket /\ l[1] # k[1] /\ bucket[l].status = "DOWNLOADING"
    BY <1>0, <2>1, <2>2 DEF BusyKnown, OneKey
  <2> QED
    BY <1>0, <2>1, <2>3, <2>4 DEF WroteAll, BusyKnown
<1>4. CASE ResumeDone
  <2>1. ~\E k \in DOMAIN bucket : bucket[k].status = "DOWNLOADING"
    BY <1>0, <1>4 DEF ResumeDone, BusyKnown
  <2> QED
    BY <1>0, <1>4, <2>1 DEF ResumeDone, BusyKnown
<1>5. ASSUME NEW u \in publishers, PublishInsert(u) PROVE OneKey(bucket') /\ BusyKnown'
  <2>1. u \in Publisher /\ u.hash \in Hashes /\ node = "up"
    BY <1>0 DEF BaseType, Publisher, OnlyResuming
  <2>2. PublisherRec(u) \in Record /\ PublisherRec(u).status # "DOWNLOADING"
    BY <2>1, PublisherRecTyped
  <2>3. /\ bucket' = InsertFileRecord(bucket, u.hash, PublisherRec(u))
        /\ UNCHANGED <<node, todo, session>>
    BY <1>5 DEF PublishInsert, PublisherRec
  <2> QED
    BY <1>2, <2>1, <2>2, <2>3
<1>6. ASSUME NEW g \in Fetched, Offer(g) PROVE OneKey(bucket') /\ BusyKnown'
  <2>1. PICK rec \in Record : /\ bucket' = InsertFileRecord(bucket, g, rec)
                              /\ rec.status \in {"KNOWN", "FAILED"}
    BY <1>6, OfferInserts
  <2>2. \A h \in Fetched : session[h] \in {"transfer", "saved"} => session'[h] = session[h]
    BY <1>0, <1>6, StageSets DEF Offer
  <2>3. node = "up" /\ UNCHANGED <<node, todo>> /\ g \in Hashes
    BY <1>6 DEF Offer
  <2> QED
    BY <1>2, <2>1, <2>2, <2>3
<1>7. ASSUME NEW g \in Fetched, Pull(g) PROVE OneKey(bucket') /\ BusyKnown'
  <2>1. \A h \in Fetched : session[h] \in {"transfer", "saved"} => session'[h] = session[h]
    BY <1>0, <1>7, StageSets DEF Pull
  <2>2. UNCHANGED <<node, todo, bucket>>
    BY <1>7 DEF Pull
  <2> QED
    BY <1>0, <2>1, <2>2 DEF BusyKnown
<1>8. ASSUME NEW g \in Fetched, NEW status \in Statuses, NEW path \in Paths \cup {NoPath},
             NEW to \in Stages, session[g] # "none",
             bucket' = UpdateFileStatus(bucket, g, status, path), Stage(g, to),
             UNCHANGED <<node, todo>>,
             status = "DOWNLOADING" => to \in {"transfer", "saved"}
      PROVE  OneKey(bucket') /\ BusyKnown'
  <2>1. g \in Hashes
    OBVIOUS
  <2>2. OneKey(bucket') /\ \E r : r.status = status /\ WroteAll(bucket, bucket', g, r)
    BY <1>0, <1>8, <2>1, UpdateOne
  <2>3. PICK r : r.status = status /\ WroteAll(bucket, bucket', g, r)
    BY <2>2
  <2>4. node = "up"
    BY <1>0, <1>8 DEF OnlyResuming, NoSessions
  <2>5. todo = {}
    BY <1>0, <2>4 DEF BusyKnown
  <2>6. session'[g] = to /\ \A h \in Fetched \ {g} : session'[h] = session[h]
    BY <1>0, <1>8, StageSets
  <2>7. ASSUME NEW k \in DOMAIN bucket', bucket'[k].status = "DOWNLOADING"
        PROVE  k[1] \in Fetched /\ session'[k[1]] \in {"transfer", "saved"}
    <3>1. CASE k[1] = g
      <4>1. bucket'[k] = r
        BY <2>3, <3>1 DEF WroteAll
      <4> QED
        BY <1>8, <2>3, <2>6, <2>7, <3>1, <4>1
    <3>2. CASE k[1] # g
      <4>1. k \in DOMAIN bucket /\ bucket'[k] = bucket[k]
        BY <2>3, <3>2 DEF WroteAll
      <4>2. k[1] \in Fetched /\ session[k[1]] \in {"transfer", "saved"}
        BY <1>0, <2>4, <2>7, <4>1 DEF BusyKnown
      <4> QED
        BY <2>6, <3>2, <4>2
    <3> QED
      BY <3>1, <3>2
  <2> QED
    BY <1>8, <2>2, <2>4, <2>5, <2>7 DEF BusyKnown
<1>9. ASSUME NEW g \in Fetched, Mark(g) \/ Fail(g) \/ GiveUp(g) PROVE OneKey(bucket') /\ BusyKnown'
  <2>1. NoPath \in Paths \cup {NoPath}
    OBVIOUS
  <2> QED
    BY <1>8, <1>9, <2>1 DEF Mark, Fail, GiveUp, SessionWrites, Statuses, Stages
<1>10. ASSUME NEW g \in Fetched, Promote(g) PROVE OneKey(bucket') /\ BusyKnown'
  <2>1. StoredAt[g] \in Paths \cup {NoPath}
    OBVIOUS
  <2> QED
    BY <1>8, <1>10, <2>1 DEF Promote, Statuses, Stages
<1>11. ASSUME NEW g \in Fetched, Save(g) PROVE OneKey(bucket') /\ BusyKnown'
  <2>1. session'[g] = "saved" /\ \A h \in Fetched \ {g} : session'[h] = session[h]
    BY <1>0, <1>11, StageSets DEF Save
  <2>2. UNCHANGED <<node, todo, bucket>>
    BY <1>11 DEF Save
  <2> QED
    BY <1>0, <2>1, <2>2 DEF BusyKnown
<1>12. CASE Crash
  BY <1>0, <1>12 DEF Crash, BusyKnown, ListFilesByStatus
<1>13. CASE UNCHANGED vars \/ ServeAnswer \/ ServeDone \/ User \/ \E h \in Hashes : ServeLookup(h)
  BY <1>1, <1>13 DEF vars, ServeAnswer, ServeDone, User, Edit, Move, ServeLookup
<1>14. CASE \/ \E p \in UserPaths : PublishStat(p)
            \/ \E u \in publishers : PublishOpen(u) \/ PublishHash(u) \/ PublishAnnounce(u)
  BY <1>1, <1>14 DEF PublishStat, PublishOpen, PublishHash, PublishAnnounce
<1> QED
  BY <1>3, <1>4, <1>5, <1>6, <1>7, <1>9, <1>10, <1>11, <1>12, <1>13, <1>14
     DEF Next, Publish, Session

\* What holds of the types and the keys.
LEMMA TInvInductive ==
    ASSUME OldSpellings <= 1
    PROVE  (Init => TInv) /\ (TInv /\ [Next]_vars => TInv')
<1>1. Init => TInv
  <2>1. Init => BusyKnown /\ OnlyResuming
    BY DEF Init, BusyKnown, OnlyResuming, ListFilesByStatus
  <2> QED
    BY <2>1, BaseTypeInit, FirstKeys DEF TInv
<1>2. TInv /\ [Next]_vars => TInv'
  BY BaseTypeStep, KeysStep, OnlyResumingStep DEF TInv
<1> QED
  BY <1>1, <1>2

\* The variables have their types, a hash has one key, and no record is left
\* DOWNLOADING without a session in an attempt, where one key of each hash was left
\* at most.
THEOREM TypeCorrect ==
    ASSUME OldSpellings <= 1
    PROVE  Spec => []TypeOK
<1>1. (Init => TInv) /\ (TInv /\ [Next]_vars => TInv')
  BY TInvInductive
<1>2. TInv => TypeOK
  <2> SUFFICES ASSUME TInv PROVE TypeOK
    OBVIOUS
  <2>0. BaseType /\ OneKey(bucket) /\ BusyKnown
    BY DEF TInv
  <2>1. ASSUME NEW h \in Hashes PROVE Cardinality(Spelled(bucket, h)) <= 1
    <3>1. CASE Spelled(bucket, h) = {}
      BY <3>1, FS_EmptySet
    <3>2. ASSUME NEW k \in Spelled(bucket, h) PROVE Cardinality(Spelled(bucket, h)) <= 1
      <4>1. Spelled(bucket, h) = {k}
        BY <2>0, <3>2 DEF OneKey, Spelled
      <4>2. Cardinality({k}) = 1
        BY FS_Singleton
      <4> QED
        BY <4>1, <4>2
    <3> QED
      BY <3>1, <3>2
  <2>2. node = "up" => \A k \in ListFilesByStatus(bucket, "DOWNLOADING") :
                          k[1] \in Fetched /\ session[k[1]] \in {"transfer", "saved"}
    BY <2>0 DEF BusyKnown, ListFilesByStatus
  <2> QED
    BY <2>0, <2>1, <2>2 DEF BaseType, BucketTyped, TypeOK
<1> QED
  BY <1>1, <1>2, PTL DEF Spec

-----------------------------------------------------------------------------
(* What is published stays servable, and so does what a connection has      *)
(* looked up.  The argument needs more than that: a publication under way   *)
(* knows its file, and an owned record leads to a file of its content.      *)

\* Peers offer a file under its size, and no two files share a place in the store.
OffersTrue == \A h \in Fetched : OfferedSizes[h] \subseteq {SizeOf[h]}
PlacesApart == \A g \in Fetched, h \in Fetched : StoredAt[g] = StoredAt[h] => g = h

\* A record r of h that is owned leads to the file of a download or to the user's own,
\* on a disk d of which the paths t were touched.
FileTrue(h, r, d, t) ==
    \/ h \in Fetched /\ r.path = StoredAt[h] /\ d[r.path] = h
       /\ (r.from = "peer" => r.size = SizeOf[h])
    \/ r.path \in UserPaths
       /\ (r.path \in t \/ (d[r.path] = h /\ r.size = SizeOf[h]))

\* What a record of h tells, and that a publication's leads to a download's file
\* only if its hash was fetched again.
RecordTrue(h) == LET r == GetFile(bucket, h) IN
    /\ r.from = "peer" => r.size = SizeOf[h]
    /\ Owned(bucket, h) => /\ FileTrue(h, r, disk, touched)
                           /\ r.path \in UserPaths \/ r.from = "peer" \/ h \in refetched
RecordsTrue == \A h \in Hashes : Spelled(bucket, h) # {} => RecordTrue(h)

\* What a connection has looked up is true of the file, whatever the record is now.
ConnectionTrue == conn # Idle => FileTrue(conn.hash, conn.record, disk, touched)

\* The file that a session has verified is in its place.
SavedThere == \A h \in Fetched : session[h] = "saved" => disk[StoredAt[h]] = h

\* A publication knows the file's size and hash, unless the file was touched.
PublisherTrue(u) ==
    \/ u.path \in touched
    \/ /\ disk[u.path] # Absent
       /\ u.size = SizeOf[disk[u.path]]
       /\ u.pc = "read" => u.before = disk[u.path]
       /\ u.pc = "insert" => u.hash = disk[u.path]
PublishersTrue == \A u \in publishers : PublisherTrue(u)

\* Hashes that are published, or are inserted and about to be.
Committed == published \cup {u.hash : u \in {v \in publishers : v.pc = "announce"}}
CommittedOwned == \A h \in Committed \ refetched : Owned(bucket, h)

IInv == /\ TInv /\ RecordsTrue /\ ConnectionTrue /\ SavedThere /\ PublishersTrue
        /\ CommittedOwned

\* From bucket b to bucket c the record of h stays.
StaysAt(b, c, h) == Spelled(c, h) = Spelled(b, h) /\ GetFile(c, h) = GetFile(b, h)

\* An insertion leaves the record of a hash as it is, or is one of that hash,
\* which is not owned.
LEMMA InsertAt ==
    ASSUME NEW b, BucketTyped(b), NEW g \in Hashes, NEW rec \in Record, NEW h \in Hashes
    PROVE  LET c == InsertFileRecord(b, g, rec) IN
           \/ StaysAt(b, c, h) /\ (g = h => Owned(b, h))
           \/ /\ g = h /\ ~Owned(b, h) /\ Spelled(c, h) # {}
              /\ GetFile(c, h).status = rec.status /\ GetFile(c, h).path = rec.path
              /\ GetFile(c, h).size = rec.size /\ GetFile(c, h).from = rec.from
<1>1. CASE Owned(b, g)
  BY <1>1, InsertWrites DEF StaysAt
<1>2. CASE ~Owned(b, g)
  BY <1>2, InsertWrites DEF Wrote, StaysAt
<1> QED
  BY <1>1, <1>2

\* An update leaves the record of a hash as it is, or is one of that hash.
LEMMA UpdateAt ==
    ASSUME NEW b, BucketTyped(b), NEW g \in Hashes,
           NEW status \in Statuses, NEW path \in Paths \cup {NoPath}, NEW h \in Hashes
    PROVE  LET c == UpdateFileStatus(b, g, status, path) IN
           \/ StaysAt(b, c, h) /\ (g = h => Spelled(b, h) = {})
           \/ /\ g = h /\ Spelled(b, h) # {} /\ Spelled(c, h) # {}
              /\ GetFile(c, h).status = status
              /\ GetFile(c, h).path = IF path = NoPath THEN GetFile(b, h).path ELSE path
              /\ GetFile(c, h).size = GetFile(b, h).size
              /\ GetFile(c, h).from = GetFile(b, h).from
<1>1. CASE Spelled(b, g) = {}
  BY <1>1, UpdateWrites DEF StaysAt
<1>2. CASE Spelled(b, g) # {}
  BY <1>2, UpdateWrites DEF Wrote, StaysAt
<1> QED
  BY <1>1, <1>2

\* What a step may do to the record of h: nothing, unless h is fetched again; a
\* publication, an offer or the resume at startup writes it, a session marks it, or
\* the file of h arrives.
Stays(h) == StaysAt(bucket, bucket', h) /\ (h \in refetched => h \in refetched')
ByPublication(h) ==
    \E u \in publishers :
        /\ u.pc = "insert" /\ u.hash = h
        /\ GetFile(bucket', h).status = "SEEDING"
        /\ GetFile(bucket', h).path = u.path /\ GetFile(bucket', h).size = u.size
        /\ GetFile(bucket', h).from = "self"
        /\ UNCHANGED <<disk, touched>>
ByOffer(h) ==
    /\ h \in Fetched /\ ~Owned(bucket, h) /\ refetched' = refetched
    /\ GetFile(bucket', h).status # "SEEDING"
    /\ GetFile(bucket', h).size \in OfferedSizes[h]
Marks(h) ==
    /\ Spelled(bucket, h) # {}
    /\ GetFile(bucket', h).size = GetFile(bucket, h).size
    /\ GetFile(bucket', h).from = GetFile(bucket, h).from
ByResume(h) == /\ Marks(h) /\ GetFile(bucket', h).status # "SEEDING"
               /\ ~Owned(bucket, h) /\ refetched' = refetched
BySession(h) == Marks(h) /\ GetFile(bucket', h).status # "SEEDING" /\ h \in refetched'
ByArrival(h) == /\ Marks(h) /\ GetFile(bucket', h).status = "SEEDING"
                /\ GetFile(bucket', h).path = StoredAt[h]
                /\ h \in Fetched /\ session[h] = "saved" /\ UNCHANGED <<disk, touched>>
                /\ GetFile(bucket, h).from = "peer" \/ h \in refetched'

HashStep(h) == \/ Stays(h)
               \/ /\ Spelled(bucket', h) # {}
                  /\ \/ ByPublication(h) \/ ByOffer(h) \/ ByResume(h) \/ BySession(h)
                     \/ ByArrival(h)

\* Every step does one of these to the record of every hash.
LEMMA EveryHashStep == IInv /\ [Next]_vars => \A h \in Hashes : HashStep(h)
<1> SUFFICES ASSUME IInv, [Next]_vars, NEW h \in Hashes PROVE HashStep(h)
  OBVIOUS
<1>0. BaseType /\ BucketTyped(bucket) /\ OneKey(bucket) /\ BusyKnown
  BY DEF IInv, TInv, BaseType
<1>1. CASE bucket' = bucket /\ refetched' = refetched
  BY <1>1 DEF HashStep, Stays, StaysAt
<1>2. CASE ResumeOne
  <2>1. PICK k \in todo : bucket' = UpdateFileStatus(bucket, k[1], "KNOWN", NoPath)
    BY <1>2 DEF ResumeOne
  <2>2. k[1] \in Hashes /\ "KNOWN" \in Statuses /\ refetched' = refetched
    BY <1>0, <1>2 DEF BaseType, Key, Statuses, ResumeOne, ghosts
  <2>3. ~Owned(bucket, k[1])
    <3>1. k \in DOMAIN bucket /\ bucket[k].status = "DOWNLOADING"
      BY <1>0 DEF BusyKnown
    <3>2. k \in Spelled(bucket, k[1])
      BY <3>1 DEF Spelled
    <3>3. /\ KeyFound(bucket, k[1]) \in Spelled(bucket, k[1])
          /\ GetFile(bucket, k[1]) = bucket[KeyFound(bucket, k[1])]
      BY <1>0, <2>2, <3>2, LookupFinds
    <3>4. KeyFound(bucket, k[1]) = k
      BY <1>0, <3>1, <3>3 DEF OneKey, Spelled
    <3> QED
      BY <3>1, <3>3, <3>4 DEF Owned
  <2>4. NoPath \in Paths \cup {NoPath}
    OBVIOUS
  <2> QED
    BY <1>0, <2>1, <2>2, <2>3, <2>4, UpdateAt DEF HashStep, Stays, ByResume, Marks
<1>3. ASSUME NEW u \in publishers, PublishInsert(u) PROVE HashStep(h)
  <2>1. u \in Publisher /\ u.hash \in Hashes
    BY <1>0 DEF BaseType, Publisher
  <2>2. /\ bucket' = InsertFileRecord(bucket, u.hash, PublisherRec(u))
        /\ u.pc = "insert" /\ UNCHANGED <<disk, touched>>
        /\ refetched' = IF Owned(bucket, u.hash) THEN refetched ELSE refetched \ {u.hash}
    BY <1>3 DEF PublishInsert, PublisherRec
  <2>3. PublisherRec(u) \in Record
    BY <2>1, PublisherRecTyped
  <2>4. CASE StaysAt(bucket, bucket', h) /\ (u.hash = h => Owned(bucket, h))
    BY <2>2, <2>4 DEF HashStep, Stays
  <2>5. CASE /\ u.hash = h /\ ~Owned(bucket, h) /\ Spelled(bucket', h) # {}
             /\ GetFile(bucket', h).status = PublisherRec(u).status
             /\ GetFile(bucket', h).path = PublisherRec(u).path
             /\ GetFile(bucket', h).size = PublisherRec(u).size
             /\ GetFile(bucket', h).from = PublisherRec(u).from
    BY <2>1, <2>2, <2>5, PublisherRecTyped DEF HashStep, ByPublication
  <2> QED
    BY <1>0, <2>1, <2>2, <2>3, <2>4, <2>5, InsertAt
<1>4. ASSUME NEW g \in Fetched, Offer(g) PROVE HashStep(h)
  <2>1. PICK rec \in Record : /\ bucket' = InsertFileRecord(bucket, g, rec)
                              /\ rec.status \in {"KNOWN", "FAILED"}
                              /\ rec.size \in OfferedSizes[g]
    BY <1>4, OfferInserts
  <2>2. g \in Hashes /\ refetched' = refetched
    BY <1>4 DEF Offer, ghosts
  <2> QED
    BY <1>0, <2>1, <2>2, InsertAt DEF HashStep, Stays, ByOffer
<1>5. ASSUME NEW g \in Fetched, Mark(g) \/ Fail(g) \/ GiveUp(g) PROVE HashStep(h)
  <2>1. PICK status \in {"DOWNLOADING", "FAILED"} :
            bucket' = UpdateFileStatus(bucket, g, status, NoPath)
    BY <1>5 DEF Mark, Fail, GiveUp, SessionWrites
  <2>2. refetched' = refetched \cup {g}
    BY <1>5 DEF Mark, Fail, GiveUp, SessionWrites
  <2>3. g \in Hashes /\ status \in Statuses /\ NoPath \in Paths \cup {NoPath}
    BY DEF Statuses
  <2> QED
    BY <1>0, <2>1, <2>2, <2>3, UpdateAt DEF HashStep, Stays, BySession, Marks
<1>6. ASSUME NEW g \in Fetched, Promote(g) PROVE HashStep(h)
  <2>1. /\ bucket' = UpdateFileStatus(bucket, g, "SEEDING", StoredAt[g])
        /\ session[g] = "saved" /\ UNCHANGED <<disk, touched>>
        /\ refetched' = IF Sourced(g) THEN refetched \ {g} ELSE refetched \cup {g}
    BY <1>6 DEF Promote
  <2>2. g \in Hashes /\ "SEEDING" \in Statuses
    BY DEF Statuses
  <2>3. StoredAt[g] \in Paths \cup {NoPath} /\ StoredAt[g] # NoPath
    OBVIOUS
  <2>4. CASE StaysAt(bucket, bucket', h) /\ (g = h => Spelled(bucket, h) = {})
    BY <2>1, <2>4 DEF HashStep, Stays, Sourced
  <2>5. CASE /\ g = h /\ Spelled(bucket, h) # {} /\ Spelled(bucket', h) # {}
             /\ GetFile(bucket', h).status = "SEEDING"
             /\ GetFile(bucket', h).path = StoredAt[g]
             /\ GetFile(bucket', h).size = GetFile(bucket, h).size
             /\ GetFile(bucket', h).from = GetFile(bucket, h).from
    BY <2>1, <2>5 DEF HashStep, ByArrival, Marks, Sourced
  <2> QED
    BY <1>0, <2>1, <2>2, <2>3, <2>4, <2>5, UpdateAt
<1>7. CASE ResumeDone \/ ServeAnswer \/ ServeDone \/ Crash \/ UNCHANGED vars
  BY <1>1, <1>7 DEF ResumeDone, ServeAnswer, ServeDone, Crash, vars, ghosts
<1>8. CASE \/ \E p \in UserPaths : PublishStat(p)
           \/ \E u \in publishers : PublishOpen(u) \/ PublishHash(u) \/ PublishAnnounce(u)
  BY <1>1, <1>8 DEF PublishStat, PublishOpen, PublishHash, PublishAnnounce, ghosts
<1>9. ASSUME NEW g \in Hashes, ServeLookup(g) \/ Pull(g) \/ Save(g) PROVE HashStep(h)
  BY <1>1, <1>9 DEF ServeLookup, Pull, Save, ghosts
<1>10. CASE User
  BY <1>1, <1>10 DEF User, Edit, Move
<1> QED
  BY <1>2, <1>3, <1>4, <1>5, <1>6, <1>7, <1>8, <1>9, <1>10 DEF Next, Publish, Session

\* A step changes a file of the user's only if it is touched from then on, and
\* leaves a download that has arrived where it is.
FilesStay == /\ touched \subseteq touched'
             /\ \A p \in UserPaths : p \in touched' \/ disk'[p] = disk[p]
             /\ \A h \in Fetched : disk[StoredAt[h]] = h => disk'[StoredAt[h]] = h

\* Every step is one of which that is true: downloads end elsewhere than the user's
\* files are, and each in a place of its own.
LEMMA FilesStep == ASSUME PlacesApart PROVE BaseType /\ [Next]_vars => FilesStay
<1> SUFFICES ASSUME BaseType, [Next]_vars PROVE FilesStay
  OBVIOUS
<1>1. CASE UNCHANGED <<disk, touched>>
  BY <1>1 DEF FilesStay
<1>2. ASSUME NEW g \in Fetched, Save(g) PROVE FilesStay
  <2>1. StoredAt[g] \in Paths \ UserPaths
    OBVIOUS
  <2> QED
    BY <1>2, <2>1 DEF Save, FilesStay, BaseType, ghosts, PlacesApart
<1>3. CASE User
  <2>1. \A h \in Fetched : StoredAt[h] \in Paths \ UserPaths
    OBVIOUS
  <2> QED
    BY <1>3, <2>1 DEF User, Edit, Move, Touch, FilesStay, BaseType
<1> QED
  BY <1>1, <1>2, <1>3 DEF Next, Publish, vars, ghosts, ResumeOne, ResumeDone, PublishStat,
     PublishOpen, PublishHash, PublishInsert, PublishAnnounce, Offer, Pull, Session, Mark,
     Fail, GiveUp, Promote, SessionWrites, ServeLookup, ServeAnswer, ServeDone, Crash

\* What a record tells of its file stays true in every step.
LEMMA FileTrueStays ==
    ASSUME FilesStay, NEW h \in Hashes, NEW r, FileTrue(h, r, disk, touched)
    PROVE  FileTrue(h, r, disk', touched')
BY DEF FilesStay, FileTrue

\* Every step keeps what the records tell.
LEMMA RecordsStep ==
    ASSUME PlacesApart, OffersTrue
    PROVE  IInv /\ [Next]_vars => RecordsTrue'
<1> SUFFICES ASSUME IInv, [Next]_vars, NEW h \in Hashes, Spelled(bucket', h) # {}
             PROVE  RecordTrue(h)'
  BY DEF RecordsTrue
<1>1. HashStep(h) /\ FilesStay
  BY EveryHashStep, FilesStep DEF IInv, TInv
<1>2. Spelled(bucket, h) # {} => RecordTrue(h)
  BY DEF IInv, RecordsTrue
<1>3. CASE Stays(h)
  <2>1. /\ Spelled(bucket, h) # {} /\ GetFile(bucket', h) = GetFile(bucket, h)
        /\ (Owned(bucket', h) => Owned(bucket, h)) /\ (h \in refetched => h \in refetched')
    BY <1>3 DEF Stays, StaysAt, Owned
  <2>2. Owned(bucket, h) => FileTrue(h, GetFile(bucket, h), disk, touched)
    BY <1>2, <2>1 DEF RecordTrue
  <2>3. Owned(bucket, h) => FileTrue(h, GetFile(bucket, h), disk', touched')
    BY <1>1, <2>2, FileTrueStays
  <2> QED
    BY <1>2, <2>1, <2>3 DEF RecordTrue
<1>4. CASE ByPublication(h)
  <2>1. PICK u \in publishers :
            /\ u.pc = "insert" /\ u.hash = h
            /\ GetFile(bucket', h).path = u.path /\ GetFile(bucket', h).size = u.size
            /\ GetFile(bucket', h).from = "self"
            /\ UNCHANGED <<disk, touched>>
    BY <1>4 DEF ByPublication
  <2>2. u.path \in UserPaths /\ PublisherTrue(u)
    BY DEF IInv, TInv, BaseType, Publisher, PublishersTrue
  <2>3. FileTrue(h, GetFile(bucket', h), disk', touched')
    BY <2>1, <2>2 DEF FileTrue, PublisherTrue
  <2> QED
    BY <2>1, <2>2, <2>3 DEF RecordTrue
<1>5. CASE ByOffer(h)
  BY <1>5 DEF ByOffer, RecordTrue, Owned, OffersTrue
<1>6. CASE ByResume(h) \/ BySession(h)
  BY <1>2, <1>6 DEF ByResume, BySession, Marks, RecordTrue, Owned
<1>7. CASE ByArrival(h)
  <2>1. disk'[StoredAt[h]] = h
    BY <1>7 DEF ByArrival, IInv, SavedThere
  <2>2. GetFile(bucket', h).from = "peer" => GetFile(bucket', h).size = SizeOf[h]
    BY <1>2, <1>7 DEF ByArrival, Marks, RecordTrue
  <2>3. FileTrue(h, GetFile(bucket', h), disk', touched')
    BY <1>7, <2>1, <2>2 DEF ByArrival, FileTrue
  <2>4. GetFile(bucket', h).from = "peer" \/ h \in refetched'
    BY <1>7 DEF ByArrival, Marks
  <2> QED
    BY <2>2, <2>3, <2>4 DEF RecordTrue
<1> QED
  BY <1>1, <1>3, <1>4, <1>5, <1>6, <1>7 DEF HashStep

\* What a connection has looked up stays true, whatever happens to the record.
LEMMA ConnectionStep ==
    ASSUME PlacesApart PROVE IInv /\ [Next]_vars => ConnectionTrue'
<1> SUFFICES ASSUME IInv, [Next]_vars, conn' # Idle
             PROVE  FileTrue(conn'.hash, conn'.record, disk', touched')
  BY DEF ConnectionTrue
<1>0. BaseType /\ FilesStay
  BY FilesStep DEF IInv, TInv
<1>1. ASSUME conn # Idle, conn'.hash = conn.hash, conn'.record = conn.record
      PROVE  FileTrue(conn'.hash, conn'.record, disk', touched')
  <2>1. conn.hash \in Hashes /\ FileTrue(conn.hash, conn.record, disk, touched)
    BY <1>0, <1>1 DEF IInv, BaseType, Connection, ConnectionTrue
  <2>2. PICK h \in Hashes : h = conn.hash
    BY <2>1
  <2>3. PICK r : r = conn.record
    OBVIOUS
  <2>4. FileTrue(h, r, disk', touched')
    BY <1>0, <2>1, <2>2, <2>3, FileTrueStays
  <2> QED
    BY <1>1, <2>2, <2>3, <2>4
<1>2. ASSUME NEW h \in Hashes, ServeLookup(h)
      PROVE  FileTrue(conn'.hash, conn'.record, disk', touched')
  <2>1. /\ conn'.hash = h /\ conn'.record = GetFile(bucket, h) /\ Owned(bucket, h)
        /\ UNCHANGED <<disk, touched>>
    BY <1>2 DEF ServeLookup, ghosts
  <2>2. FileTrue(h, GetFile(bucket, h), disk, touched)
    BY <2>1 DEF IInv, RecordsTrue, RecordTrue, Owned
  <2> QED
    BY <2>1, <2>2
<1>3. CASE conn' = conn
  BY <1>1, <1>3
<1>4. CASE ServeAnswer
  <2>1. conn # Idle /\ conn' = [conn EXCEPT !.pc = "send"]
    BY <1>4 DEF ServeAnswer, Idle
  <2>2. conn'.hash = conn.hash /\ conn'.record = conn.record
    BY <1>0, <2>1 DEF BaseType, Connection
  <2> QED
    BY <1>1, <2>1, <2>2
<1> QED
  BY <1>2, <1>3, <1>4 DEF Next, vars, ResumeOne, ResumeDone, Publish, PublishStat,
     PublishOpen, PublishHash, PublishInsert, PublishAnnounce, Offer, Pull, Session, Mark,
     Fail, GiveUp, Save, Promote, SessionWrites, ServeDone, User, Edit, Move, Crash

\* A file that a session has verified is still in its place when the record is set.
LEMMA SavedStep == ASSUME PlacesApart PROVE IInv /\ [Next]_vars => SavedThere'
<1> SUFFICES ASSUME IInv, [Next]_vars, NEW h \in Fetched, session'[h] = "saved"
             PROVE  disk'[StoredAt[h]] = h
  BY DEF SavedThere
<1>0. BaseType /\ FilesStay
  BY FilesStep DEF IInv, TInv
<1>1. CASE session[h] = "saved"
  BY <1>0, <1>1 DEF IInv, SavedThere, FilesStay
<1>2. CASE Save(h)
  <2>1. StoredAt[h] \in Paths
    OBVIOUS
  <2> QED
    BY <1>0, <1>2, <2>1 DEF Save, BaseType
<1>3. ASSUME NEW g \in Fetched, NEW to, Stage(g, to), to # "saved" PROVE session[h] = "saved"
  BY <1>0, <1>3, StageSets
<1>4. ASSUME NEW g \in Fetched, Save(g) PROVE session[h] = "saved" \/ Save(h)
  BY <1>0, <1>4, StageSets DEF Save
<1>5. ASSUME NEW g \in Fetched, Offer(g) \/ Pull(g) \/ Mark(g) \/ Fail(g) \/ GiveUp(g) \/ Promote(g)
      PROVE  session[h] = "saved"
  BY <1>3, <1>5 DEF Offer, Pull, Mark, Fail, GiveUp, Promote, SessionWrites
<1>6. CASE session' = session
  BY <1>1, <1>6
<1>7. CASE Crash
  BY <1>7 DEF Crash, NoSessions
<1> QED
  BY <1>1, <1>2, <1>4, <1>5, <1>6, <1>7 DEF Next, Publish, Session, User, vars, ResumeOne,
     ResumeDone, PublishStat, PublishOpen, PublishHash, PublishInsert, PublishAnnounce,
     ServeLookup, ServeAnswer, ServeDone, Edit, Move

\* What is true of a call stays true of it, and of its like, in every step.
LEMMA CallStays ==
    ASSUME IInv, FilesStay, NEW u \in publishers, NEW v,
           v.pc = u.pc, v.path = u.path, v.size = u.size, v.before = u.before, v.hash = u.hash
    PROVE  PublisherTrue(v)'
<1>1. u.path \in UserPaths /\ PublisherTrue(u)
  BY DEF IInv, TInv, BaseType, Publisher, PublishersTrue
<1>2. touched \subseteq touched' /\ (u.path \in touched' \/ disk'[u.path] = disk[u.path])
  BY <1>1 DEF FilesStay
<1> QED
  BY <1>1, <1>2 DEF PublisherTrue

\* Every step keeps what the publications under way know of their files.
LEMMA PublishersStep == ASSUME PlacesApart PROVE IInv /\ [Next]_vars => PublishersTrue'
<1> SUFFICES ASSUME IInv, [Next]_vars PROVE \A v \in publishers' : PublisherTrue(v)'
  BY DEF PublishersTrue
<1>0. BaseType /\ FilesStay
  BY FilesStep DEF IInv, TInv
<1>1. CASE publishers' \subseteq publishers
  BY <1>0, <1>1, CallStays
<1>2. ASSUME NEW u \in publishers, NEW w, PublisherTrue(w)', Goes(u, w)
      PROVE  \A v \in publishers' : PublisherTrue(v)'
  BY <1>0, <1>2, CallStays DEF Goes
<1>3. ASSUME NEW p \in UserPaths, PublishStat(p)
      PROVE  \A v \in publishers' : PublisherTrue(v)'
  <2>1. disk[p] # Absent
    BY <1>3 DEF PublishStat
  <2>2. PICK w : /\ w.pc = "open" /\ w.path = p /\ w.size = SizeOf[disk[p]]
                 /\ w.before = disk[p] /\ w.hash = disk[p]
                 /\ publishers' = publishers \cup {w} /\ disk' = disk
    BY <1>3 DEF PublishStat
  <2>3. PublisherTrue(w)'
    BY <2>1, <2>2 DEF PublisherTrue
  <2> QED
    BY <1>0, <2>2, <2>3, CallStays
<1>4. ASSUME NEW u \in publishers, PublishOpen(u)
      PROVE  \A v \in publishers' : PublisherTrue(v)'
  <2>1. CASE disk[u.path] = Absent
    BY <1>1, <1>4, <2>1 DEF PublishOpen
  <2>2. CASE disk[u.path] # Absent
    <3>1. PICK w : /\ w = [u EXCEPT !.pc = "read", !.before = disk[u.path]]
                   /\ Goes(u, w) /\ disk' = disk /\ touched' = touched
      BY <1>4, <2>2 DEF PublishOpen, ghosts
    <3>2. u \in Publisher /\ PublisherTrue(u)
      BY <1>0 DEF BaseType, IInv, PublishersTrue
    <3>3. /\ w.pc = "read" /\ w.path = u.path /\ w.size = u.size
          /\ w.before = disk[u.path] /\ w.hash = u.hash
      BY <3>1, <3>2 DEF Publisher
    <3>4. PublisherTrue(w)'
      BY <2>2, <3>1, <3>2, <3>3 DEF PublisherTrue
    <3> QED
      BY <1>2, <3>1, <3>4
  <2> QED
    BY <2>1, <2>2
<1>5. ASSUME NEW u \in publishers, PublishHash(u)
      PROVE  \A v \in publishers' : PublisherTrue(v)'
  <2>1. PICK h \in {u.before} \cup (IF disk[u.path] \in {u.before, Absent} THEN {}
                                   ELSE {disk[u.path], Torn}) :
            Goes(u, [u EXCEPT !.pc = "insert", !.hash = h])
    BY <1>5 DEF PublishHash
  <2> DEFINE w == [u EXCEPT !.pc = "insert", !.hash = h]
  <2>2. u \in Publisher /\ PublisherTrue(u) /\ u.pc = "read"
    BY <1>0, <1>5 DEF BaseType, IInv, PublishersTrue, PublishHash
  <2>3. u.path \in touched \/ (disk[u.path] # Absent /\ h = disk[u.path] /\ u.size = SizeOf[h])
    BY <2>1, <2>2 DEF PublisherTrue
  <2>4. /\ w.pc = "insert" /\ w.path = u.path /\ w.size = u.size
        /\ w.before = u.before /\ w.hash = h
    BY <2>2 DEF Publisher
  <2>5. disk' = disk /\ touched' = touched
    BY <1>5 DEF PublishHash, ghosts
  <2> HIDE DEF w
  <2>6. PublisherTrue(w)'
    BY <2>3, <2>4, <2>5 DEF PublisherTrue
  <2> QED
    BY <1>2, <2>1, <2>6 DEF w
<1>6. ASSUME NEW u \in publishers, PublishInsert(u)
      PROVE  \A v \in publishers' : PublisherTrue(v)'
  <2> DEFINE w == [u EXCEPT !.pc = "announce"]
  <2>1. u \in Publisher /\ PublisherTrue(u) /\ u.pc = "insert"
    BY <1>0, <1>6 DEF BaseType, IInv, PublishersTrue, PublishInsert
  <2>2. /\ w.pc = "announce" /\ w.path = u.path /\ w.size = u.size
        /\ w.before = u.before /\ w.hash = u.hash
    BY <2>1 DEF Publisher
  <2>3. disk' = disk /\ touched' = touched /\ Goes(u, w)
    BY <1>6 DEF PublishInsert
  <2> HIDE DEF w
  <2>4. PublisherTrue(w)'
    BY <2>1, <2>2, <2>3 DEF PublisherTrue
  <2> QED
    BY <1>2, <2>3, <2>4
<1>7. ASSUME NEW ps, Touch(ps) PROVE \A v \in publishers' : PublisherTrue(v)'
  <2>1. ASSUME NEW v \in publishers' PROVE PublisherTrue(v)'
    <3>1. PICK u \in publishers : v = [u EXCEPT !.calm = @ /\ u.path \notin ps]
      BY <1>7 DEF Touch
    <3>2. u \in Publisher
      BY <1>0 DEF BaseType
    <3>3. /\ v.pc = u.pc /\ v.path = u.path /\ v.size = u.size
          /\ v.before = u.before /\ v.hash = u.hash
      BY <3>1, <3>2 DEF Publisher
    <3> QED
      BY <1>0, <3>3, CallStays
  <2> QED
    BY <2>1
<1>8. CASE User
  BY <1>7, <1>8 DEF User, Edit, Move
<1>9. ASSUME NEW h \in Fetched, Session(h) PROVE publishers' = publishers
  BY <1>9 DEF Session, Mark, Fail, GiveUp, Save, Promote, SessionWrites
<1> QED
  BY <1>1, <1>3, <1>4, <1>5, <1>6, <1>8, <1>9 DEF Next, Publish, vars, ResumeOne, ResumeDone,
     PublishAnnounce, Offer, Pull, ServeLookup, ServeAnswer, ServeDone, Crash

\* The insertion of a publication leaves its hash owned.
LEMMA InsertionOwns ==
    ASSUME BaseType, NEW u \in publishers, PublishInsert(u)
    PROVE  Owned(bucket', u.hash)
<1>1. BucketTyped(bucket) /\ u \in Publisher /\ u.hash \in Hashes
  BY DEF BaseType, Publisher
<1>2. /\ PublisherRec(u) \in Record /\ PublisherRec(u).status = "SEEDING"
      /\ bucket' = InsertFileRecord(bucket, u.hash, PublisherRec(u))
  BY <1>1, PublisherRecTyped DEF PublishInsert, PublisherRec
<1> QED
  BY <1>1, <1>2, InsertAt DEF StaysAt, Owned

\* A hash that is committed was so before, or a publication inserts it.
LEMMA CommittedGrows ==
    ASSUME BaseType, [Next]_vars, NEW h \in Committed'
    PROVE  h \in Committed \/ \E u \in publishers : PublishInsert(u) /\ u.hash = h
<1>1. ASSUME published' = published,
             \A v \in publishers' : v.pc = "announce" =>
                 \E u \in publishers : u.pc = "announce" /\ u.hash = v.hash
      PROVE  h \in Committed
  BY <1>1 DEF Committed
<1>2. ASSUME NEW u \in publishers, PublishInsert(u)
      PROVE  h \in Committed \/ u.hash = h
  <2>1. u \in Publisher
    BY DEF BaseType
  <2>2. [u EXCEPT !.pc = "announce"].hash = u.hash
    BY <2>1 DEF Publisher
  <2> QED
    BY <1>2, <2>2 DEF PublishInsert, Goes, Committed
<1>3. ASSUME NEW u \in publishers, PublishAnnounce(u) PROVE h \in Committed
  BY <1>3 DEF PublishAnnounce, Committed
<1>4. ASSUME NEW u \in publishers, PublishOpen(u) \/ PublishHash(u) PROVE h \in Committed
  <2>1. u \in Publisher
    BY DEF BaseType
  <2>2. \A c : /\ [u EXCEPT !.pc = "read", !.before = c].pc = "read"
              /\ [u EXCEPT !.pc = "insert", !.hash = c].pc = "insert"
    BY <2>1 DEF Publisher
  <2>3. \A v \in publishers' : v.pc = "announce" => v \in publishers
    <3>1. publishers' \subseteq publishers \/ \E w : w.pc # "announce" /\ Goes(u, w)
      <4>1. CASE PublishOpen(u)
        BY <2>2, <4>1 DEF PublishOpen
      <4>2. CASE PublishHash(u)
        <5>1. PICK c : Goes(u, [u EXCEPT !.pc = "insert", !.hash = c])
          BY <4>2 DEF PublishHash
        <5> QED
          BY <2>2, <5>1
      <4> QED
        BY <1>4, <4>1, <4>2
    <3> QED
      BY <3>1 DEF Goes
  <2>4. published' = published
    BY <1>4 DEF PublishOpen, PublishHash, ghosts
  <2> QED
    BY <1>1, <2>3, <2>4
<1>5. ASSUME NEW p \in UserPaths, PublishStat(p) PROVE h \in Committed
  BY <1>1, <1>5 DEF PublishStat, ghosts
<1>6. CASE User
  <2>1. PICK ps : Touch(ps) /\ published' = published
    BY <1>6 DEF User, Edit, Move
  <2>2. ASSUME NEW v \in publishers'
        PROVE  \E u \in publishers : u.pc = v.pc /\ u.hash = v.hash
    <3>1. PICK u \in publishers : v = [u EXCEPT !.calm = @ /\ u.path \notin ps]
      BY <2>1 DEF Touch
    <3>2. u \in Publisher
      BY DEF BaseType
    <3>3. v.pc = u.pc /\ v.hash = u.hash
      BY <3>1, <3>2 DEF Publisher
    <3> QED
      BY <3>3
  <2> QED
    BY <1>1, <2>1, <2>2
<1>7. ASSUME NEW g \in Fetched, Session(g) PROVE h \in Committed
  BY <1>1, <1>7 DEF Session, Mark, Fail, GiveUp, Save, Promote, SessionWrites, ghosts
<1>8. CASE Crash
  BY <1>1, <1>8 DEF Crash, ghosts
<1>9. CASE \/ ResumeOne \/ ResumeDone \/ ServeAnswer \/ ServeDone \/ UNCHANGED vars
           \/ \E g \in Fetched : Offer(g) \/ Pull(g)
           \/ \E g \in Hashes : ServeLookup(g)
  BY <1>1, <1>9 DEF ResumeOne, ResumeDone, ServeAnswer, ServeDone, vars, ghosts, Offer, Pull,
     ServeLookup
<1> QED
  BY <1>2, <1>3, <1>4, <1>5, <1>6, <1>7, <1>8, <1>9 DEF Next, Publish

\* What is committed is owned, unless it is fetched again.
LEMMA CommittedStep == IInv /\ [Next]_vars => CommittedOwned'
<1> SUFFICES ASSUME IInv, [Next]_vars, NEW h \in Committed', h \notin refetched'
             PROVE  Owned(bucket', h)
  BY DEF CommittedOwned
<1>0. BaseType
  BY DEF IInv, TInv
<1>1. ASSUME NEW u \in publishers, PublishInsert(u), u.hash = h PROVE Owned(bucket', h)
  BY <1>0, <1>1, InsertionOwns
<1>2. CASE h \in Committed
  <2>1. h \in Hashes
    BY <1>0, <1>2 DEF Committed, BaseType, Publisher
  <2>2. HashStep(h) /\ (h \notin refetched => Owned(bucket, h))
    BY <1>2, <2>1, EveryHashStep DEF IInv, CommittedOwned
  <2> QED
    BY <2>2 DEF HashStep, Stays, StaysAt, ByPublication, ByOffer, ByResume, BySession,
       ByArrival, Owned
<1> QED
  BY <1>0, <1>1, <1>2, CommittedGrows

\* The initial state satisfies the invariant.
LEMMA IInvInit == ASSUME OldSpellings <= 1 PROVE Init => IInv
<1> SUFFICES ASSUME Init PROVE IInv
  OBVIOUS
<1>1. TInv
  BY TInvInductive
<1>2. ASSUME NEW h \in Hashes, Spelled(bucket, h) # {} PROVE RecordTrue(h)
  <2>1. GetFile(bucket, h) \in Left(h, disk)
    <3>1. /\ KeyFound(bucket, h) \in Spelled(bucket, h)
          /\ GetFile(bucket, h) = bucket[KeyFound(bucket, h)]
      BY <1>1, <1>2, LookupFinds DEF TInv, BaseType
    <3> QED
      BY <3>1, FirstBucket DEF Spelled
  <2> QED
    BY <2>1, LeftTyped DEF RecordTrue, Owned, FileTrue
<1>3. SavedThere
  BY DEF Init, SavedThere, NoSessions
<1> QED
  BY <1>1, <1>2, <1>3 DEF Init, IInv, RecordsTrue, ConnectionTrue, PublishersTrue, CommittedOwned,
     Committed

\* The inductive invariant holds, where at most one key of each hash was left, where
\* peers tell the sizes of files, and where downloads do not share a place.
THEOREM Invariance ==
    ASSUME OldSpellings <= 1, OffersTrue, PlacesApart
    PROVE  Spec => []IInv
<1>1. TInv /\ [Next]_vars => TInv'
  BY TInvInductive
<1>2. IInv /\ [Next]_vars => IInv'
  BY <1>1, RecordsStep, ConnectionStep, SavedStep, PublishersStep, CommittedStep DEF IInv
<1>3. Init => IInv
  BY IInvInit
<1> QED
  BY <1>2, <1>3, PTL DEF Spec

\* What PublishFile has published can be pulled, whatever peers offer and whatever
\* sessions run, unless a session of that very hash has not completed a peer's record
\* of it since, or the file that the record names was touched.
THEOREM Published ==
    ASSUME OldSpellings <= 1, OffersTrue, PlacesApart
    PROVE  Spec => []PublishedIsServable
<1>1. IInv => PublishedIsServable
  <2> SUFFICES ASSUME IInv, NEW h \in published \ refetched
               PROVE  /\ Owned(bucket, h)
                      /\ Servable(h) \/ GetFile(bucket, h).path \in touched
    BY DEF PublishedIsServable
  <2>1. h \in Hashes /\ Owned(bucket, h)
    BY DEF IInv, TInv, BaseType, CommittedOwned, Committed
  <2>2. RecordTrue(h)
    BY <2>1 DEF IInv, RecordsTrue, Owned
  <2>3. StoredAt[h] \notin UserPaths
    BY <2>1
  <2> QED
    BY <2>1, <2>2, <2>3 DEF RecordTrue, FileTrue, Servable
<1> QED
  BY <1>1, Invariance, PTL

\* The record that a connection has read leads to the content that was asked for
\* until all of it is sent, although the record may change meanwhile, unless the
\* user has changed that file.
THEOREM StaleServes ==
    ASSUME OldSpellings <= 1, OffersTrue, PlacesApart
    PROVE  Spec => []StaleRecordServes
<1>1. IInv => StaleRecordServes
  <2> SUFFICES ASSUME IInv, conn # Idle, conn.record.path \notin touched
               PROVE  /\ disk[conn.record.path] = conn.hash
                      /\ conn.record.from = "peer" \/ conn.record.path \in UserPaths
                            => conn.record.size = SizeOf[conn.hash]
    BY DEF StaleRecordServes
  <2>1. conn.hash \in Hashes /\ FileTrue(conn.hash, conn.record, disk, touched)
    BY DEF IInv, TInv, BaseType, Connection, ConnectionTrue
  <2>2. StoredAt[conn.hash] \notin UserPaths
    BY <2>1
  <2> QED
    BY <2>1, <2>2 DEF FileTrue
<1> QED
  BY <1>1, Invariance, PTL

=============================================================================
