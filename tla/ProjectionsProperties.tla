------------------------ MODULE ProjectionsProperties ------------------------
(***************************************************************************)
(* What the two readers of the events stream must guarantee.               *)
(***************************************************************************)
EXTENDS Projections

\* The book after entries 1 .. k of the whole history, trimmed or not.
History(k) ==
  Loop([n \in Nat |-> [b \in BookValue |->
          IF Decodes(n) THEN ApplyBatch(b, n) ELSE b]], NewBook)[k]

\* The entries db_writer is working on.
InHand == Range(staged) \cup Range(poison)

(* A served book is the one the events up to last_id determine, levels and *)
(* last_seq together, whatever was trimmed and however often the API was   *)
(* restarted (bootstrap and tail of api/book.rs).                          *)
BookFollowsStream == t_pc # "down" => book = History(last_id)

(* Neither reader ever needs an entry that was trimmed: the book can be    *)
(* rebuilt from its snapshot, the tail continues where it is, and db_writer*)
(* has been handed everything that is gone (the trim at the end of its     *)
(* loop cuts at the earlier of the two).                                   *)
TrimSparesReaders ==
  /\ trimmed <= cursor
  /\ IF disk = None THEN trimmed = 0 ELSE trimmed < disk.last_id
  /\ t_pc # "down" => trimmed <= last_id

(* Committed rows are those of whole batches in stream order, none twice,  *)
(* and an acknowledged batch is a committed one: db_writer commits before  *)
(* it acks.                                                                *)
AckedIsCommitted ==
  /\ \A i, j \in 1 .. Len(rows) : i < j => rows[i] < rows[j]
  /\ \A id \in 1 .. cursor : id \notin pel => ~Decodes(id) \/ id \in Range(rows)

(* Every event reaches the served book, unless the tail task has ended on  *)
(* an error, which leaves the process up with a book that stands still.    *)
BookCatchesUp ==
  \A id \in 1 .. MaxEntries :
    (id <= Len(stream) /\ Decodes(id)) ~> (t_pc = "terminated" \/ last_id >= id)

(* Every batch is committed in the end, or was read by a db_writer that    *)
(* stopped before it committed it and is still in the group's pending list.*)
RowsCatchUp ==
  \A id \in 1 .. MaxEntries :
    (id <= Len(stream) /\ Decodes(id)) ~> (id \in Range(rows) \/ id \in pel \ InHand)
=============================================================================
