----------------------------- MODULE FileBucket -----------------------------
(***************************************************************************)
(* The operations of the files bucket (internal/storage), each one bbolt   *)
(* transaction, as operators from a bucket to a bucket or a result.        *)
(*                                                                         *)
(* Keys are hashes as they were spelled: older versions stored them as     *)
(* they came, upper or mixed case; Normal is the lower-case spelling of    *)
(* normalizeFileHash.  A cursor visits keys in byte order, in which capital *)
(* letters come before small ones, so Normal is the last spelling.         *)
(* Records are decoded without error.                                      *)
(***************************************************************************)
EXTENDS Naturals

CONSTANTS
    Hashes,     \* SHA-256 values
    Normal,     \* the number of the normal spelling; 0..Normal are all of them
    Paths,      \* places in the file system
    Sizes,      \* file sizes
    NoPath,     \* LocalPath ""
    Absent      \* what Get returns when nothing is found

ASSUME BucketAssumption ==
    /\ Normal \in Nat
    /\ NoPath \notin Paths

Statuses == {"KNOWN", "DOWNLOADING", "FAILED", "SEEDING"}
\* Timestamps are told apart as far as InsertFileRecord does: none, one from an
\* earlier insertion, one made now.
Stamps == 0..2
Now == 2
\* A record tells where the file can be fetched from: SenderIP and SenderTCP are a
\* peer's, or SenderIP is empty and SenderID the node's own.
Sources == {"peer", "self"}

Key == Hashes \X (0..Normal)
Record == [status : Statuses, path : Paths \cup {NoPath}, size : Sizes, stamp : Stamps,
           from : Sources]

\* The keys of bucket b that EqualFold finds equal to h.
Spelled(b, h) == {k \in DOMAIN b : k[1] = h}

\* The record that a lookup by h finds: under the normal key, or else the first
\* one the cursor comes to.
Cursor(b, h) == {k \in Spelled(b, h) : \A l \in Spelled(b, h) : k[2] <= l[2]}
Found(b, h) == IF <<h, Normal>> \in DOMAIN b THEN {<<h, Normal>>} ELSE Cursor(b, h)

GetFile(b, h) == IF Spelled(b, h) = {} THEN Absent
                 ELSE b[CHOOSE k \in Found(b, h) : TRUE]

\* InsertFileRecord answers ErrDuplicateFile.
Owned(b, h) == Spelled(b, h) # {} /\ GetFile(b, h).status = "SEEDING"

\* b with record rec at the normal key of h and without the keys in gone.
Put(b, h, rec, gone) ==
    [k \in (DOMAIN b \ gone) \cup {<<h, Normal>>} |-> IF k = <<h, Normal>> THEN rec ELSE b[k]]

Stamped_Anew(b, h, rec) == rec      \* mutant: the old timestamp is not kept
Stamped(b, h, rec) ==
    IF Spelled(b, h) # {} /\ GetFile(b, h).stamp > 0
      THEN [rec EXCEPT !.stamp = GetFile(b, h).stamp] ELSE rec

InsertFileRecord_Always(b, h, rec) ==   \* mutant: nothing is a duplicate
    Put(b, h, Stamped(b, h, rec), Found(b, h))
InsertFileRecord(b, h, rec) ==
    IF Owned(b, h) THEN b ELSE Put(b, h, Stamped(b, h, rec), Found(b, h))

Moved_Copied(b, h, rec) == Put(b, h, rec, {})   \* mutant: the old key stays behind
Moved(b, h, rec) == Put(b, h, rec, Found(b, h))

\* UpdateFileStatus: a no-op without a record; moves it to the normal key.
UpdateFileStatus(b, h, status, path) ==
    IF Spelled(b, h) = {} THEN b
    ELSE Moved(b, h, [GetFile(b, h) EXCEPT
                          !.status = status,
                          !.path = IF path = NoPath THEN @ ELSE path])

\* ListFilesByStatus: each key's own record, whatever a lookup would find.
ListFilesByStatus(b, status) == {k \in DOMAIN b : b[k].status = status}

=============================================================================
