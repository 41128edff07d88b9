------------------------------ MODULE FileMap -------------------------------
(***************************************************************************)
(* What the files bucket promises: one record per hash, of which an owned  *)
(* one is not replaced, and whose first timestamp is kept.  A download     *)
(* changes its status, and its path when the file has arrived.             *)
(***************************************************************************)
EXTENDS Naturals

CONSTANTS
    Hashes, Records, Absent,
    StoredAt    \* [Hashes -> paths]: where a download of each hash ends

VARIABLE record     \* the record of each hash, or Absent

Init == record \in [Hashes -> Records \cup {Absent}]

Has(h) == record[h] # Absent

\* Only the record of h changes, if any, and becomes rec.
Writes(h, rec) == record' = [record EXCEPT ![h] = rec]

\* A new record, in place of none or of one that is not owned.
Insert(h) ==
    /\ record'[h] \in Records
    /\ Writes(h, record'[h])
    /\ Has(h) => /\ record[h].status # "SEEDING"
                 /\ record[h].stamp > 0 => record'[h].stamp = record[h].stamp

\* The record of h gets another status and is otherwise what it was.
Update(h) ==
    /\ Has(h)
    /\ record'[h] \in Records
    /\ Writes(h, [record[h] EXCEPT !.status = record'[h].status])

\* The file of h has arrived: its record is owned and leads there.
Complete(h) ==
    /\ Has(h)
    /\ Writes(h, [record[h] EXCEPT !.status = "SEEDING", !.path = StoredAt[h]])

Next == \E h \in Hashes : Insert(h) \/ Update(h) \/ Complete(h)

Spec == Init /\ [][Next]_record
=============================================================================
