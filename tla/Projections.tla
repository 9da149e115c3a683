---------------------------- MODULE Projections ----------------------------
(***************************************************************************)
(* The two readers of the `events` stream: db_writer, which commits each   *)
(* batch's rows to Postgres through a consumer group (bin/db_writer.rs),   *)
(* and the API's book projection, which tails the stream into memory and   *)
(* snapshots it (bin/api/book.rs).  They share the stream and the Redis key*)
(* BOOK_SNAPSHOT_KEY; db_writer trims the stream for both.                 *)
(*                                                                         *)
(* Entries are numbered from 1 in XADD order.  A batch is what it does to  *)
(* the book: levels set to a quantity.  The tables are the sequence of the *)
(* batches whose rows were committed (module Views has the rows).          *)
(* The retention sweep is left out.                                        *)
(***************************************************************************)
EXTENDS Integers, Sequences, FiniteSets, SequencesExt, Loops

CONSTANTS Level, Qty,       \* book levels and reported quantities (0 is an absent level)
          Garbage,          \* an entry without data or with undecodable data
          None,
          ReadCount,        \* .count(10) of db_writer
          TrimEvery,        \* TRIM_EVERY_BATCHES
          SnapshotEvery,    \* SnapshotConfig.every of the book projection
          MaxEntries,       \* bound: entries emitted
          MaxStops          \* bound: times a reader stops

ASSUME QtyAssumption     == Qty \subseteq Nat
ASSUME ReadersAssumption == ReadCount \in Nat \ {0} /\ TrimEvery \in Nat \ {0}
                            /\ SnapshotEvery \in Nat \ {0}
ASSUME ReadersBounds     == MaxEntries \in Nat /\ MaxStops \in Nat

Delta == [level : Level, qty : Qty]

\* A Book: the quantity at each level and the last batch number.
BookValue == [level : [Level -> Nat], last_seq : Nat]

ASSUME GarbageNoDelta == Garbage \notin Delta
ASSUME NoneNoValue    == None \notin Nat /\ None \notin [last_id : Nat, book : BookValue]

VARIABLES stream,      \* every entry ever added to `events`
          trimmed,     \* entries 1 .. trimmed have been dropped
          book_key,    \* BOOK_SNAPSHOT_KEY, None when unset
          stops,       \* history: times a reader stopped
          \* db_writer
          w_pc, cursor, pel, staged, poison, since_trim,
          rows,        \* Postgres: the entries whose rows are committed, in order
          \* book projection
          t_pc, book, last_id, inbox, since_snapshot,
          disk         \* its snapshot file: None or [last_id, book]

writer == <<w_pc, cursor, pel, staged, poison, since_trim, rows>>
tailer == <<t_pc, book, last_id, inbox, since_snapshot, disk>>
shared == <<stream, trimmed, book_key>>
vars   == <<shared, stops, writer, tailer>>

NewBook == [level |-> [l \in Level |-> 0], last_seq |-> 0]

Init ==
  /\ stream = << >> /\ trimmed = 0 /\ book_key = None /\ stops = 0
  /\ w_pc = "down" /\ cursor = 0 /\ pel = {} /\ staged = << >> /\ poison = << >>
  /\ since_trim = 0 /\ rows = << >>
  /\ t_pc = "down" /\ book = NewBook /\ last_id = 0 /\ inbox = << >>
  /\ since_snapshot = 0 /\ disk = None

Decodes(id) == stream[id] \in Delta

\* EventBatch.seq: the engine numbers its batches from 0.
BatchSeq(id) == Cardinality({i \in 1 .. id - 1 : Decodes(i)})

\* The engine's XADD events.
Emit(entry) ==
  /\ Len(stream) < MaxEntries
  /\ stream' = Append(stream, entry)
  /\ UNCHANGED <<trimmed, book_key, stops, writer, tailer>>

-----------------------------------------------------------------------------
(* db_writer                                                               *)

\* XGROUP CREATE .. 0 (BUSYGROUP: it exists), counters start over.
WriterStart ==
  /\ w_pc = "down"
  /\ w_pc' = "reading" /\ since_trim' = 0
  /\ UNCHANGED <<shared, stops, cursor, pel, staged, poison, rows, tailer>>

\* A crash or an Err through `?`: an open transaction is rolled back.
WriterStop ==
  /\ w_pc # "down" /\ stops < MaxStops
  /\ stops' = stops + 1
  /\ w_pc' = "down" /\ staged' = << >> /\ poison' = << >> /\ since_trim' = 0
  /\ UNCHANGED <<shared, cursor, pel, rows, tailer>>

Staging == [staged : Seq(Nat), poison : Seq(Nat)]

\* Over the entries of the reply: stage the rows of a batch, note one that is poison.
Stage(from, to) ==
  Loop([n \in Nat |-> [s \in Staging |->
          IF Decodes(from + n) THEN [s EXCEPT !.staged = Append(@, from + n)]
          ELSE [s EXCEPT !.poison = Append(@, from + n)]]],
       [staged |-> << >>, poison |-> << >>])[to - from]

\* XREADGROUP > COUNT, then stage the rows of each batch in one transaction.
WriterRead ==
  LET to == Min({Len(stream), cursor + ReadCount})
  IN  /\ w_pc = "reading" /\ to > cursor
      /\ cursor' = to
      /\ pel' = pel \cup (cursor + 1 .. to)
      /\ staged' = Stage(cursor, to).staged
      /\ poison' = Stage(cursor, to).poison
      /\ w_pc' = "staged"
      /\ UNCHANGED <<shared, stops, since_trim, rows, tailer>>

\* Sensitivity variants of WriterCommit: a failed commit goes unnoticed, and a
\* round with nothing staged never ends.
WriterCommitOrNot ==
  /\ w_pc = "staged"
  /\ rows' \in {rows, rows \o staged}
  /\ w_pc' = "committed"
  /\ UNCHANGED <<shared, stops, cursor, pel, staged, poison, since_trim, tailer>>

WriterCommitSomething ==
  /\ w_pc = "staged" /\ staged # << >>
  /\ rows' = rows \o staged
  /\ w_pc' = "committed"
  /\ UNCHANGED <<shared, stops, cursor, pel, staged, poison, since_trim, tailer>>

\* Commit before acking; nothing staged, nothing to commit.
WriterCommit ==
  /\ w_pc = "staged"
  /\ rows' = rows \o staged
  /\ w_pc' = "committed"
  /\ UNCHANGED <<shared, stops, cursor, pel, staged, poison, since_trim, tailer>>

\* Staged entries first, then poison.
ToAck == staged \o poison

\* XACK one entry at a time, the first that is not yet acknowledged.
WriterAck ==
  /\ w_pc = "committed"
  /\ \E i \in 1 .. Len(ToAck) :
       /\ ToAck[i] \in pel /\ \A j \in 1 .. i - 1 : ToAck[j] \notin pel
       /\ pel' = pel \ {ToAck[i]}
  /\ UNCHANGED <<shared, stops, w_pc, cursor, staged, poison, since_trim, rows, tailer>>

\* Sensitivity variant of Earlier: the book's snapshot is not considered.
EarlierIgnoringBook(a, b) == a

\* earlier() of two stream ids.
Earlier(a, b) == IF b < a THEN b ELSE a

\* All acked.  Every TrimEvery rounds that committed something: GET the book's
\* key, and XTRIM MINID ~ up to whichever reader is behind, if there is a key.
WriterTrim ==
  LET due == staged # << >> /\ since_trim + 1 >= TrimEvery
  IN  /\ w_pc = "committed" /\ \A i \in 1 .. Len(ToAck) : ToAck[i] \notin pel
      /\ IF due /\ book_key # None
         THEN \E cut \in trimmed .. Max({trimmed, Earlier(Last(staged), book_key) - 1}) :
                trimmed' = cut
         ELSE UNCHANGED trimmed
      /\ since_trim' = IF due THEN 0
                       ELSE IF staged # << >> THEN since_trim + 1 ELSE since_trim
      /\ w_pc' = "reading" /\ staged' = << >> /\ poison' = << >>
      /\ UNCHANGED <<stream, book_key, stops, cursor, pel, rows, tailer>>

Writer ==
  WriterStart \/ WriterRead \/ WriterCommit \/ WriterAck \/ WriterTrim

-----------------------------------------------------------------------------
(* The book projection                                                     *)

\* apply_batch: set the level, advance last_seq, under one write lock.
ApplyBatch(b, id) ==
  [level |-> [b.level EXCEPT ![stream[id].level] = stream[id].qty],
   last_seq |-> BatchSeq(id)]

\* Entries from + 1 .. to that decode and are still in the stream, in order.
Fold(b, from, to) ==
  Loop([n \in Nat |-> [k \in BookValue |->
          IF from + n > trimmed /\ Decodes(from + n) THEN ApplyBatch(k, from + n) ELSE k]],
       b)[to - from]

\* bootstrap(): the snapshot plus the events after it, or the whole stream.
Bootstrap ==
  /\ t_pc = "down"
  /\ LET snap == IF disk = None THEN [last_id |-> 0, book |-> NewBook] ELSE disk
         read == {id \in snap.last_id + 1 .. Len(stream) : id > trimmed /\ Decodes(id)}
     IN  /\ book' = Fold(snap.book, snap.last_id, Len(stream))
         /\ last_id' = IF read = {} THEN snap.last_id ELSE Max(read)
  /\ since_snapshot' = 0 /\ inbox' = << >>
  /\ t_pc' = "tailing"
  /\ UNCHANGED <<shared, stops, writer, disk>>

\* The API process stops; its memory is gone.
TailStop ==
  /\ t_pc # "down" /\ stops < MaxStops
  /\ stops' = stops + 1
  /\ t_pc' = "down" /\ book' = NewBook /\ last_id' = 0 /\ inbox' = << >> /\ since_snapshot' = 0
  /\ UNCHANGED <<shared, writer, disk>>

\* tail() returns Err: the task ends, the process goes on serving its book.
TailTerminated ==
  /\ t_pc = "tailing" /\ inbox = << >> /\ stops < MaxStops
  /\ stops' = stops + 1
  /\ t_pc' = "terminated"
  /\ UNCHANGED <<shared, writer, book, last_id, inbox, since_snapshot, disk>>

\* XREAD from last_id: everything after it that is still there.
TailRead ==
  LET from == Max({last_id, trimmed})
  IN  /\ t_pc = "tailing" /\ inbox = << >> /\ from < Len(stream)
      /\ inbox' = [i \in 1 .. Len(stream) - from |-> from + i]
      /\ t_pc' = "applying"
      /\ UNCHANGED <<shared, stops, writer, book, last_id, since_snapshot, disk>>

\* Sensitivity variant of TailApply: an undecodable entry is never got past.
TailApplyDecoded ==
  /\ t_pc = "applying" /\ inbox # << >> /\ Decodes(Head(inbox))
  /\ last_id' = Head(inbox)
  /\ book' = ApplyBatch(book, Head(inbox))
  /\ since_snapshot' = since_snapshot + 1
  /\ inbox' = Tail(inbox)
  /\ UNCHANGED <<shared, stops, writer, t_pc, disk>>

\* One entry: apply it under the lock and fan it out, or skip it.
TailApply ==
  /\ t_pc = "applying" /\ inbox # << >>
  /\ LET id == Head(inbox)
     IN  /\ last_id' = id
         /\ book' = IF Decodes(id) THEN ApplyBatch(book, id) ELSE book
         /\ since_snapshot' = IF Decodes(id) THEN since_snapshot + 1 ELSE since_snapshot
  /\ inbox' = Tail(inbox)
  /\ UNCHANGED <<shared, stops, writer, t_pc, disk>>

\* Sensitivity variant of TailSave: the id is published though the write failed.
TailSaveUnchecked(ok) ==
  LET due == since_snapshot >= SnapshotEvery
  IN  /\ t_pc = "applying" /\ inbox = << >>
      /\ since_snapshot' = IF due THEN 0 ELSE since_snapshot
      /\ disk' = IF due /\ ok THEN [last_id |-> last_id, book |-> book] ELSE disk
      /\ t_pc' = IF due THEN "saved" ELSE "tailing"
      /\ UNCHANGED <<shared, stops, writer, book, last_id, inbox>>

\* After the reply: save the snapshot if it is due.
TailSave(ok) ==
  LET due == since_snapshot >= SnapshotEvery
  IN  /\ t_pc = "applying" /\ inbox = << >>
      /\ since_snapshot' = IF due THEN 0 ELSE since_snapshot
      /\ disk' = IF due /\ ok THEN [last_id |-> last_id, book |-> book] ELSE disk
      /\ t_pc' = IF due /\ ok THEN "saved" ELSE "tailing"
      /\ UNCHANGED <<shared, stops, writer, book, last_id, inbox>>

\* SET BOOK_SNAPSHOT_KEY only after the write landed; an error is ignored.
TailPublish(ok) ==
  /\ t_pc = "saved"
  /\ book_key' = IF ok THEN last_id ELSE book_key
  /\ t_pc' = "tailing"
  /\ UNCHANGED <<stream, trimmed, stops, writer, book, last_id, inbox, since_snapshot, disk>>

Tailer ==
  \/ Bootstrap \/ TailRead \/ TailApply
  \/ \E ok \in BOOLEAN : TailSave(ok) \/ TailPublish(ok)

Next ==
  \/ \E entry \in Delta \cup {Garbage} : Emit(entry)
  \/ WriterStop \/ TailStop \/ TailTerminated
  \/ Writer \/ Tailer

Spec == Init /\ [][Next]_vars

\* Both containers are restarted whenever they stop (restart: unless-stopped),
\* and neither loop waits on anything but Redis and Postgres.
FairSpec == Spec /\ WF_vars(Writer) /\ WF_vars(Tailer)
=============================================================================
