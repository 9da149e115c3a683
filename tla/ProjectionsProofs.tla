------------------------- MODULE ProjectionsProofs -------------------------
(***************************************************************************)
(* The two readers of the events stream, for any levels, any number of     *)
(* entries and stops, any read size and intervals: the book that is served *)
(* follows the stream, trimming spares both readers, and what db_writer    *)
(* acknowledges is committed.                                              *)
(***************************************************************************)
EXTENDS ProjectionsProperties, LoopsProofs, SequenceTheorems, FiniteSetTheorems

Entry == Delta \cup {Garbage}

-----------------------------------------------------------------------------
(* The book a stream makes, with the stream as a value                     *)

Seqs(st, id) == Cardinality({i \in 1 .. id - 1 : st[i] \in Delta})

Put(st, b, id) ==
  [level |-> [b.level EXCEPT ![st[id].level] = st[id].qty], last_seq |-> Seqs(st, id)]

Hist(st, k) ==
  Loop([n \in Nat |-> [b \in BookValue |->
          IF st[n] \in Delta THEN Put(st, b, n) ELSE b]], NewBook)[k]

(* They are ApplyBatch and History of the stream. *)
LEMMA HistIs ==
  /\ \A b, id : ApplyBatch(b, id) = Put(stream, b, id)
  /\ \A k : History(k) = Hist(stream, k)
<1>1. \A b, id : ApplyBatch(b, id) = Put(stream, b, id)
  BY DEF ApplyBatch, Put, BatchSeq, Seqs, Decodes
<1>2. \A k : History(k) = Hist(stream, k)
  BY <1>1 DEF History, Hist, Decodes
<1> QED BY <1>1, <1>2

(* A batch applied to a book gives a book. *)
LEMMA PutType ==
  ASSUME NEW st, NEW b \in BookValue, NEW id \in Nat, st[id] \in Delta
  PROVE  Put(st, b, id) \in BookValue
<1>1. Seqs(st, id) \in Nat
  <2>1. IsFiniteSet(1 .. id - 1)
    BY FS_Interval
  <2>2. IsFiniteSet({i \in 1 .. id - 1 : st[i] \in Delta})
    BY <2>1, FS_Subset
  <2> QED BY <2>2, FS_CardinalityType DEF Seqs
<1>2. st[id].level \in Level /\ st[id].qty \in Nat /\ b.level \in [Level -> Nat]
  BY QtyAssumption DEF Delta, BookValue
<1> QED BY <1>1, <1>2 DEF Put, BookValue

(* The book after entry k + 1 is the one after entry k with it applied. *)
LEMMA HistSteps ==
  ASSUME NEW st
  PROVE  /\ Hist(st, 0) = NewBook
         /\ \A k \in Nat : Hist(st, k) \in BookValue
         /\ \A k \in Nat : Hist(st, k + 1) = IF st[k + 1] \in Delta
                                             THEN Put(st, Hist(st, k), k + 1)
                                             ELSE Hist(st, k)
<1> DEFINE body == [n \in Nat |-> [b \in BookValue |->
                      IF st[n] \in Delta THEN Put(st, b, n) ELSE b]]
           run == Loop(body, NewBook)
<1>1. body \in [Nat -> [BookValue -> BookValue]] /\ NewBook \in BookValue
  BY PutType DEF NewBook, BookValue
<1>2. run \in [Nat -> BookValue] /\ run[0] = NewBook
  <2> HIDE DEF body
  <2> QED BY <1>1, LoopDef
<1>3. \A n \in Nat : run[n+1] = body[n+1][run[n]]
  <2> HIDE DEF body
  <2> QED BY <1>1, LoopDef
<1>4. \A k : Hist(st, k) = run[k]
  BY Zenon DEF Hist
<1> HIDE DEF run
<1>5. ASSUME NEW k \in Nat
      PROVE  run[k + 1] = IF st[k + 1] \in Delta THEN Put(st, run[k], k + 1) ELSE run[k]
  <2> DEFINE e == run[k]
  <2>1. e \in BookValue /\ k + 1 \in Nat
    <3> HIDE DEF body
    <3> QED BY <1>2
  <2>2. run[k + 1] = body[k + 1][e]
    <3> HIDE DEF body
    <3> QED BY <1>3, Zenon
  <2> HIDE DEF e
  <2>3. body[k + 1][e] = IF st[k + 1] \in Delta THEN Put(st, e, k + 1) ELSE e
    BY <2>1
  <2> QED BY <2>2, <2>3 DEF e
<1> HIDE DEF body
<1> QED BY <1>2, <1>4, <1>5

(* Entries that do not decode change nothing. *)
LEMMA HistSkips ==
  ASSUME NEW st, NEW j \in Nat, NEW k \in Nat, j <= k,
         \A id \in j + 1 .. k : st[id] \notin Delta
  PROVE  Hist(st, k) = Hist(st, j)
<1> DEFINE U == {n \in Nat : j + n <= k => Hist(st, j + n) = Hist(st, j)}
<1>1. 0 \in U
  <2>1. j + 0 = j
    OBVIOUS
  <2> QED BY <2>1
<1>2. ASSUME NEW n \in U PROVE n + 1 \in U
  <2> SUFFICES ASSUME j + (n + 1) <= k PROVE Hist(st, j + (n + 1)) = Hist(st, j)
    OBVIOUS
  <2>1. j + n \in Nat /\ j + (n + 1) = (j + n) + 1 /\ (j + n) + 1 \in j + 1 .. k
    OBVIOUS
  <2>2. Hist(st, (j + n) + 1) = Hist(st, j + n)
    BY <2>1, HistSteps
  <2> QED BY <2>1, <2>2
<1>3. U = Nat
  BY <1>1, <1>2, SetInduction
<1>4. k - j \in Nat /\ j + (k - j) = k /\ j + (k - j) <= k
  OBVIOUS
<1>5. k - j \in U
  BY <1>3, <1>4
<1>6. Hist(st, j + (k - j)) = Hist(st, j)
  BY <1>4, <1>5
<1> QED BY <1>4, <1>6

(* The book of a prefix does not change when the stream grows. *)
LEMMA HistGrows ==
  ASSUME NEW st \in Seq(Entry), NEW mo \in Seq(Entry), Len(st) <= Len(mo),
         \A id \in 1 .. Len(st) : mo[id] = st[id]
  PROVE  \A k \in 0 .. Len(st) : Hist(mo, k) = Hist(st, k)
<1> DEFINE U == {n \in Nat : n <= Len(st) => Hist(mo, n) = Hist(st, n)}
<1>1. 0 \in U
  BY HistSteps
<1>2. ASSUME NEW n \in U PROVE n + 1 \in U
  <2> SUFFICES ASSUME n + 1 <= Len(st) PROVE Hist(mo, n + 1) = Hist(st, n + 1)
    OBVIOUS
  <2>1. Hist(mo, n) = Hist(st, n) /\ mo[n + 1] = st[n + 1]
    OBVIOUS
  <2>2. Seqs(mo, n + 1) = Seqs(st, n + 1)
    <3>1. \A i \in 1 .. (n + 1) - 1 : mo[i] = st[i]
      OBVIOUS
    <3>2. {i \in 1 .. (n + 1) - 1 : mo[i] \in Delta} = {i \in 1 .. (n + 1) - 1 : st[i] \in Delta}
      BY <3>1
    <3> QED BY <3>2 DEF Seqs
  <2>3. \A b : Put(mo, b, n + 1) = Put(st, b, n + 1)
    BY <2>1, <2>2 DEF Put
  <2>4. Hist(mo, n + 1) = IF mo[n + 1] \in Delta THEN Put(mo, Hist(mo, n), n + 1) ELSE Hist(mo, n)
    BY HistSteps
  <2>5. Hist(st, n + 1) = IF st[n + 1] \in Delta THEN Put(st, Hist(st, n), n + 1) ELSE Hist(st, n)
    BY HistSteps
  <2> QED BY <2>1, <2>3, <2>4, <2>5
<1>3. U = Nat
  BY <1>1, <1>2, SetInduction
<1> QED BY <1>3

(* Folding the entries after `from` into the book of a prefix gives the    *)
(* book up to `to`, if none of them was trimmed.                           *)
LEMMA FoldIsHistory ==
  ASSUME trimmed \in Nat, NEW from \in Nat, NEW to \in Nat, from <= to, trimmed <= from
  PROVE  Fold(Hist(stream, from), from, to) = Hist(stream, to)
<1> DEFINE start == Hist(stream, from)
           body == [n \in Nat |-> [k \in BookValue |->
                      IF from + n > trimmed /\ Decodes(from + n)
                      THEN ApplyBatch(k, from + n) ELSE k]]
           run == Loop(body, start)
           U == {n \in Nat : run[n] = Hist(stream, from + n)}
<1>1. body \in [Nat -> [BookValue -> BookValue]] /\ start \in BookValue
  <2>1. ASSUME NEW n \in Nat, NEW b \in BookValue, Decodes(from + n)
        PROVE  ApplyBatch(b, from + n) \in BookValue
    <3>1. from + n \in Nat /\ stream[from + n] \in Delta
      BY <2>1 DEF Decodes
    <3> QED BY <3>1, PutType, HistIs
  <2> QED BY <2>1, HistSteps
<1>2. run \in [Nat -> BookValue] /\ run[0] = start
  <2> HIDE DEF body, start
  <2> QED BY <1>1, LoopDef
<1>3. \A n \in Nat : run[n+1] = body[n+1][run[n]]
  <2> HIDE DEF body, start
  <2> QED BY <1>1, LoopDef
<1>4. Fold(start, from, to) = run[to - from]
  BY Zenon DEF Fold
<1> HIDE DEF run
<1>5. 0 \in U
  <2>1. from + 0 = from
    OBVIOUS
  <2> QED BY <1>2, <2>1
<1>6. ASSUME NEW n \in U PROVE n + 1 \in U
  <2> DEFINE e == Hist(stream, from + n)
             m == from + (n + 1)
  <2>1. run[n + 1] = body[n + 1][run[n]]
    <3> HIDE DEF body
    <3> QED BY <1>3, Zenon
  <2>2. from + n \in Nat /\ n + 1 \in Nat /\ m = (from + n) + 1 /\ m > trimmed /\ run[n] = e
    <3> HIDE DEF body
    <3> QED OBVIOUS
  <2>3. e \in BookValue
    BY <2>2, HistSteps
  <2>4. Hist(stream, m) = IF stream[m] \in Delta THEN Put(stream, e, m) ELSE e
    BY <2>2, HistSteps
  <2> HIDE DEF e
  <2>5. body[n + 1][e] = IF m > trimmed /\ Decodes(m) THEN ApplyBatch(e, m) ELSE e
    BY <2>2, <2>3
  <2>6. body[n + 1][e] = IF stream[m] \in Delta THEN Put(stream, e, m) ELSE e
    <3> HIDE DEF body, m
    <3> QED BY <2>2, <2>5, HistIs DEF Decodes
  <2> HIDE DEF body
  <2>7. run[n + 1] = Hist(stream, m)
    BY <2>1, <2>2, <2>4, <2>6
  <2> QED BY <2>7
<1>7. U = Nat
  <2> HIDE DEF body
  <2> QED BY <1>5, <1>6, SetInduction
<1>8. to - from \in Nat /\ from + (to - from) = to
  OBVIOUS
<1>9. run[to - from] = Hist(stream, from + (to - from))
  <2> HIDE DEF body
  <2> QED BY <1>7, <1>8
<1> QED BY <1>4, <1>8, <1>9

\* Entries in stream order, all after `from` and none after `to`.
Increasing(q) == \A i, j \in 1 .. Len(q) : i < j => q[i] < q[j]
Within(q, from, to) == \A i \in 1 .. Len(q) : q[i] \in from + 1 .. to

Sorted(s, from, to) ==
  /\ s \in Staging
  /\ Increasing(s.staged) /\ Within(s.staged, from, to) /\ Within(s.poison, from, to)
  /\ \A i \in 1 .. Len(s.staged) : Decodes(s.staged[i])
  /\ \A i \in 1 .. Len(s.poison) : ~Decodes(s.poison[i])

(* A larger entry at the end of entries in stream order. *)
LEMMA AppendLater ==
  ASSUME NEW q \in Seq(Nat), NEW from \in Nat, NEW to \in Nat, from <= to, Within(q, from, to)
  PROVE  /\ Append(q, to + 1) \in Seq(Nat)
         /\ Within(Append(q, to + 1), from, to + 1) /\ Within(q, from, to + 1)
         /\ Increasing(q) => Increasing(Append(q, to + 1))
<1> DEFINE r == Append(q, to + 1)
           n == Len(q)
<1>1. /\ n \in Nat /\ r \in Seq(Nat) /\ Len(r) = n + 1 /\ r[n + 1] = to + 1
      /\ \A i \in 1 .. n : r[i] = q[i]
  OBVIOUS
<1> HIDE DEF r
<1>2. \A i \in 1 .. n + 1 : i \in 1 .. n \/ i = n + 1
  BY <1>1
<1>3. \A i \in 1 .. n : q[i] \in from + 1 .. to + 1 /\ q[i] < to + 1
  BY DEF Within
<1>4. to + 1 \in from + 1 .. to + 1
  OBVIOUS
<1>5. Within(r, from, to + 1) /\ Within(q, from, to + 1)
  BY <1>1, <1>2, <1>3, <1>4 DEF Within
<1>6. ASSUME Increasing(q), NEW i \in 1 .. n + 1, NEW j \in 1 .. n + 1, i < j
      PROVE  r[i] < r[j]
  <2>1. i \in 1 .. n
    BY <1>1, <1>6
  <2> QED BY <1>1, <1>2, <1>3, <1>6, <2>1 DEF Increasing
<1>7. Increasing(q) => Increasing(r)
  BY <1>1, <1>6 DEF Increasing
<1> QED BY <1>1, <1>5, <1>7 DEF r

(* What a push adds. *)
LEMMA Pushed ==
  ASSUME NEW q \in Seq(Nat), NEW m \in Nat, NEW r, r = Append(q, m)
  PROVE  /\ Len(r) = Len(q) + 1 /\ r[Len(q) + 1] = m
         /\ \A i \in 1 .. Len(q) : r[i] = q[i]
         /\ \A i \in 1 .. Len(r) : r[i] = m \/ (i \in 1 .. Len(q) /\ r[i] = q[i])
<1> DEFINE k == Len(q)
<1>1. /\ k \in Nat /\ Len(r) = k + 1 /\ r[k + 1] = m
      /\ \A i \in 1 .. k : r[i] = q[i]
  OBVIOUS
<1>2. \A i \in 1 .. k + 1 : i \in 1 .. k \/ i = k + 1
  BY <1>1
<1> QED BY <1>1, <1>2

(* What staging makes of the entries of a reply. *)
LEMMA StageSorts ==
  ASSUME NEW from \in Nat, NEW to \in Nat, from <= to
  PROVE  Sorted(Stage(from, to), from, to)
<1> DEFINE empty == [staged |-> << >>, poison |-> << >>]
           body == [n \in Nat |-> [s \in Staging |->
                      IF Decodes(from + n) THEN [s EXCEPT !.staged = Append(@, from + n)]
                      ELSE [s EXCEPT !.poison = Append(@, from + n)]]]
           run == Loop(body, empty)
           U == {n \in Nat : Sorted(run[n], from, from + n)}
<1>1. body \in [Nat -> [Staging -> Staging]] /\ empty \in Staging
  <2>1. ASSUME NEW n \in Nat, NEW s \in Staging
        PROVE  /\ [s EXCEPT !.staged = Append(@, from + n)] \in Staging
               /\ [s EXCEPT !.poison = Append(@, from + n)] \in Staging
    <3>1. s.staged \in Seq(Nat) /\ s.poison \in Seq(Nat) /\ from + n \in Nat
      BY DEF Staging
    <3>2. Append(s.staged, from + n) \in Seq(Nat) /\ Append(s.poison, from + n) \in Seq(Nat)
      BY <3>1
    <3> QED BY <3>2 DEF Staging
  <2>2. empty \in Staging
    BY DEF Staging
  <2> QED BY <2>1, <2>2
<1>2. run[0] = empty
  <2> HIDE DEF body, empty
  <2> QED BY <1>1, LoopDef
<1>3. \A n \in Nat : run[n+1] = body[n+1][run[n]]
  <2> HIDE DEF body, empty
  <2> QED BY <1>1, LoopDef
<1>4. Stage(from, to) = run[to - from]
  BY Zenon DEF Stage
<1> HIDE DEF run
<1>5. 0 \in U
  <2>1. Sorted(empty, from, from + 0)
    <3>1. Len(empty.staged) = 0 /\ Len(empty.poison) = 0
      OBVIOUS
    <3> HIDE DEF empty
    <3> QED BY <1>1, <3>1 DEF Sorted, Increasing, Within
  <2> QED BY <1>2, <2>1
<1>6. ASSUME NEW n \in U PROVE n + 1 \in U
  <2> DEFINE s == run[n]
             m == from + (n + 1)
  <2>1. run[n + 1] = body[n + 1][s]
    <3> HIDE DEF body
    <3> QED BY <1>3, Zenon
  <2>2. Sorted(s, from, from + n) /\ n + 1 \in Nat /\ from + n \in Nat /\ from <= from + n
        /\ m = (from + n) + 1
    <3> HIDE DEF body
    <3> QED OBVIOUS
  <2>3. s \in Staging
    BY <2>2 DEF Sorted
  <2>6. s.staged \in Seq(Nat) /\ s.poison \in Seq(Nat)
    BY <2>3 DEF Staging
  <2> HIDE DEF s
  <2>4. body[n + 1][s] = IF Decodes(m) THEN [s EXCEPT !.staged = Append(s.staged, m)]
                         ELSE [s EXCEPT !.poison = Append(s.poison, m)]
    BY <2>2, <2>3
  <2>5. body[n + 1][s] \in Staging
    BY <1>1, <2>2, <2>3
  <2> DEFINE t == body[n + 1][s]
  <2>20. t = body[n + 1][s]
    OBVIOUS
  <2> HIDE DEF body, t
  <2>7. ASSUME Decodes(m) PROVE Sorted(t, from, m)
    <3>1. t.staged = Append(s.staged, m) /\ t.poison = s.poison
      BY <2>3, <2>4, <2>7, <2>20 DEF Staging
    <3>2. /\ Within(t.staged, from, m) /\ Within(t.poison, from, m) /\ Increasing(t.staged)
      BY <2>2, <2>6, <3>1, AppendLater DEF Sorted
    <3>3. \A i \in 1 .. Len(t.staged) : Decodes(t.staged[i])
      <4>1. \A i \in 1 .. Len(t.staged) : t.staged[i] = m \/
              (i \in 1 .. Len(s.staged) /\ t.staged[i] = s.staged[i])
        <5>1. m \in Nat
          BY <2>2
        <5> HIDE DEF m
        <5> QED BY <2>6, <3>1, <5>1, Pushed
      <4> QED BY <2>2, <2>7, <4>1 DEF Sorted
    <3> HIDE DEF m
    <3> QED BY <2>2, <2>5, <2>20, <3>1, <3>2, <3>3 DEF Sorted
  <2>8. ASSUME ~Decodes(m) PROVE Sorted(t, from, m)
    <3>1. t.poison = Append(s.poison, m) /\ t.staged = s.staged
      BY <2>3, <2>4, <2>8, <2>20 DEF Staging
    <3>2. /\ Within(t.staged, from, m) /\ Within(t.poison, from, m)
      BY <2>2, <2>6, <3>1, AppendLater DEF Sorted
    <3>3. \A i \in 1 .. Len(t.poison) : ~Decodes(t.poison[i])
      <4>1. \A i \in 1 .. Len(t.poison) : t.poison[i] = m \/
              (i \in 1 .. Len(s.poison) /\ t.poison[i] = s.poison[i])
        <5>1. m \in Nat
          BY <2>2
        <5> HIDE DEF m
        <5> QED BY <2>6, <3>1, <5>1, Pushed
      <4> QED BY <2>2, <2>8, <4>1 DEF Sorted
    <3> HIDE DEF m
    <3> QED BY <2>2, <2>5, <2>20, <3>1, <3>2, <3>3 DEF Sorted
  <2>9. Sorted(run[n + 1], from, m)
    BY <2>1, <2>7, <2>8, <2>20
  <2> QED BY <2>9
<1>7. U = Nat
  <2> HIDE DEF body
  <2> QED BY <1>5, <1>6, SetInduction
<1>8. to - from \in Nat /\ from + (to - from) = to
  OBVIOUS
<1>9. Sorted(run[to - from], from, from + (to - from))
  <2> HIDE DEF body
  <2> QED BY <1>7, <1>8
<1> QED BY <1>4, <1>8, <1>9

-----------------------------------------------------------------------------
(* The inductive invariant                                                 *)

Shape ==
  /\ stream \in Seq(Entry) /\ trimmed \in Nat /\ book_key \in Nat \cup {None}
  /\ cursor \in Nat /\ cursor <= Len(stream)
  /\ staged \in Seq(Nat) /\ poison \in Seq(Nat) /\ rows \in Seq(Nat)
  /\ last_id \in Nat /\ last_id <= Len(stream) /\ inbox \in Seq(Nat)
  /\ since_snapshot \in Nat /\ book \in BookValue
  /\ disk \in [last_id : Nat, book : BookValue] \cup {None}

\* A snapshot is the book of a prefix of the stream.
SnapshotTrue ==
  disk # None => /\ disk.last_id >= 1 /\ disk.last_id <= Len(stream)
                 /\ disk.book = Hist(stream, disk.last_id)

\* So is the served book, no earlier than the snapshot; what was read follows it.
TailTrue ==
  t_pc # "down" =>
    /\ book = Hist(stream, last_id)
    /\ disk # None => disk.last_id <= last_id
    /\ since_snapshot > 0 => last_id >= 1

Delivered ==
  /\ t_pc # "applying" => inbox = << >>
  /\ last_id + Len(inbox) <= Len(stream)
  /\ \A i \in 1 .. Len(inbox) : inbox[i] = last_id + i

\* What may be trimmed is bounded by what each reader has left behind.
TrimTrue ==
  /\ trimmed <= cursor
  /\ IF disk = None THEN trimmed = 0 ELSE trimmed < disk.last_id
  /\ book_key # None => disk # None /\ book_key <= disk.last_id
  /\ t_pc = "saved" => disk # None /\ disk.last_id = last_id

\* db_writer's transaction: nothing in it was committed before, all of it is after.
Transaction ==
  /\ w_pc \in {"down", "reading"} => staged = << >> /\ poison = << >>
  /\ Within(staged, 0, cursor) /\ Increasing(staged)
  /\ \A j \in 1 .. Len(staged) : Decodes(staged[j])
  /\ \A j \in 1 .. Len(poison) : ~Decodes(poison[j])
  /\ Within(poison, 0, cursor)
  /\ w_pc = "staged" => \A i \in 1 .. Len(rows), j \in 1 .. Len(staged) : rows[i] < staged[j]
  /\ w_pc = "committed" => \A j \in 1 .. Len(staged) : \E i \in 1 .. Len(rows) : rows[i] = staged[j]

Committed ==
  /\ Within(rows, 0, cursor) /\ Increasing(rows)
  /\ \A id \in 1 .. cursor :
       id \notin pel => ~Decodes(id) \/ \E i \in 1 .. Len(rows) : rows[i] = id

Pcs == w_pc \in {"down", "reading", "staged", "committed"}

ReaderInv ==
  /\ Shape /\ Pcs /\ SnapshotTrue /\ TailTrue /\ Delivered /\ TrimTrue
  /\ Transaction /\ Committed

\* What the invariant says of each process; neither part mentions the other's state.
WriterPart == Pcs /\ Transaction /\ Committed
TailPart   == SnapshotTrue /\ TailTrue /\ Delivered

(* The greater and the lesser of two numbers. *)
LEMMA OfTwo ==
  ASSUME NEW a \in Int, NEW b \in Int
  PROVE  /\ Max({a, b}) = IF a <= b THEN b ELSE a
         /\ Min({a, b}) = IF a <= b THEN a ELSE b
<1>1. \E x \in {a, b} : \A y \in {a, b} : x >= y
  <2>1. CASE a <= b
    BY <2>1
  <2>2. CASE b <= a
    BY <2>2
  <2> QED BY <2>1, <2>2
<1>2. Max({a, b}) \in {a, b} /\ \A y \in {a, b} : Max({a, b}) >= y
  BY <1>1 DEF Max
<1>3. \E x \in {a, b} : \A y \in {a, b} : x <= y
  <2>1. CASE a <= b
    BY <2>1
  <2>2. CASE b <= a
    BY <2>2
  <2> QED BY <2>1, <2>2
<1>4. Min({a, b}) \in {a, b} /\ \A y \in {a, b} : Min({a, b}) <= y
  BY <1>3 DEF Min
<1> QED BY <1>2, <1>4

(* A process that does nothing keeps its part. *)
LEMMA WriterIdle ==
  ASSUME WriterPart, UNCHANGED <<stream, writer>>
  PROVE  WriterPart'
BY DEF WriterPart, Pcs, Transaction, Committed, Within, Increasing, Decodes, writer

LEMMA TailIdle ==
  ASSUME TailPart, UNCHANGED <<stream, tailer>>
  PROVE  TailPart'
BY DEF TailPart, SnapshotTrue, TailTrue, Delivered, tailer

(* It holds of empty streams, tables and files. *)
LEMMA InitReaders == Init => ReaderInv
<1> SUFFICES ASSUME Init PROVE ReaderInv
  OBVIOUS
<1>1. NewBook \in BookValue
  BY HistSteps
<1>2. Shape
  BY <1>1 DEF Init, Shape
<1>3. Len(<< >>) = 0
  OBVIOUS
<1>4. Pcs /\ SnapshotTrue /\ TailTrue /\ Delivered
  BY <1>3 DEF Init, Pcs, SnapshotTrue, TailTrue, Delivered
<1>5. TrimTrue /\ Transaction /\ Committed
  BY <1>3 DEF Init, TrimTrue, Transaction, Committed, Within, Increasing
<1> QED BY <1>2, <1>4, <1>5 DEF ReaderInv

(* A new entry changes neither an earlier one nor the book of a prefix. *)
LEMMA EmitKeeps ==
  ASSUME ReaderInv, NEW entry \in Entry, Emit(entry)
  PROVE  ReaderInv'
<1> DEFINE n == Len(stream)
<1>1. /\ stream \in Seq(Entry) /\ n \in Nat /\ stream' \in Seq(Entry) /\ Len(stream') = n + 1
      /\ \A i \in 1 .. n : stream'[i] = stream[i]
  BY DEF ReaderInv, Shape, Emit
<1>2. \A k \in 0 .. n : Hist(stream', k) = Hist(stream, k)
  BY <1>1, HistGrows
<1>3. \A id \in 1 .. n : Decodes(id)' <=> Decodes(id)
  BY <1>1 DEF Decodes
<1>4. UNCHANGED <<trimmed, book_key, stops, w_pc, cursor, pel, staged, poison, since_trim, rows,
                  t_pc, book, last_id, inbox, since_snapshot, disk>>
  BY DEF Emit, writer, tailer
<1> HIDE DEF n
<1>5. Shape'
  BY <1>1, <1>4 DEF ReaderInv, Shape, n
<1>6. SnapshotTrue' /\ TailTrue' /\ Delivered'
  BY <1>1, <1>2, <1>4 DEF ReaderInv, Shape, SnapshotTrue, TailTrue, Delivered, n
<1>7. TrimTrue' /\ Pcs'
  BY <1>4 DEF ReaderInv, TrimTrue, Pcs
<1>8. Transaction' /\ Committed'
  <2>1. cursor \in Nat /\ cursor <= n
    BY DEF ReaderInv, Shape, n
  <2>2. /\ \A j \in 1 .. Len(staged) : Decodes(staged[j])'
        /\ \A j \in 1 .. Len(poison) : ~Decodes(poison[j])'
    <3>1. /\ \A j \in 1 .. Len(staged) : staged[j] \in 1 .. n
          /\ \A j \in 1 .. Len(poison) : poison[j] \in 1 .. n
      BY <1>1, <2>1 DEF ReaderInv, Transaction, Within
    <3> QED BY <1>3, <1>4, <3>1 DEF ReaderInv, Transaction
  <2>3. Transaction'
    BY <1>4, <2>2 DEF ReaderInv, Transaction, Within, Increasing
  <2>4. \A id \in 1 .. cursor : Decodes(id)' <=> Decodes(id)
    BY <1>1, <1>3, <2>1
  <2> QED BY <1>4, <2>3, <2>4 DEF ReaderInv, Committed, Within, Increasing
<1> QED BY <1>5, <1>6, <1>7, <1>8 DEF ReaderInv

(* Starting db_writer, or stopping it with its transaction rolled back. *)
LEMMA WriterRestartKeeps ==
  ASSUME ReaderInv, WriterStart \/ WriterStop
  PROVE  ReaderInv'
<1>1. /\ UNCHANGED <<stream, trimmed, book_key, cursor, pel, rows, tailer>>
      /\ w_pc' \in {"down", "reading"} /\ staged' = << >> /\ poison' = << >>
  BY DEF ReaderInv, Transaction, WriterStart, WriterStop, shared
<1>2. Shape'
  BY <1>1 DEF ReaderInv, Shape, tailer
<1>3. TailPart'
  BY <1>1, TailIdle DEF ReaderInv, TailPart
<1>4. TrimTrue' /\ Pcs'
  BY <1>1 DEF ReaderInv, TrimTrue, Pcs, tailer
<1>5. Len(<< >>) = 0
  OBVIOUS
<1>6. Transaction'
  BY <1>1, <1>5 DEF Transaction, Within, Increasing
<1>7. Committed'
  BY <1>1 DEF ReaderInv, Committed, Within, Increasing, Decodes
<1> QED BY <1>2, <1>3, <1>4, <1>6, <1>7 DEF ReaderInv, TailPart

(* A reply: its entries come after every committed one. *)
LEMMA WriterReadKeeps ==
  ASSUME ReaderInv, WriterRead
  PROVE  ReaderInv'
<1> DEFINE to == Min({Len(stream), cursor + ReadCount})
<1>1. /\ cursor \in Nat /\ Len(stream) \in Nat /\ ReadCount \in Nat
  BY ReadersAssumption DEF ReaderInv, Shape
<1>2. to \in Nat /\ to <= Len(stream)
  <2> DEFINE a == Len(stream)
             b == cursor + ReadCount
  <2>1. a \in Nat /\ b \in Nat
    BY <1>1
  <2> HIDE DEF a, b
  <2>2. Min({a, b}) = IF a <= b THEN a ELSE b
    BY <2>1, OfTwo
  <2>3. Min({a, b}) \in Nat /\ Min({a, b}) <= a
    BY <2>1, <2>2
  <2> QED BY <2>3 DEF a, b
<1>3. /\ to > cursor /\ cursor' = to /\ pel' = pel \cup (cursor + 1 .. to)
      /\ staged' = Stage(cursor, to).staged /\ poison' = Stage(cursor, to).poison
      /\ w_pc = "reading" /\ w_pc' = "staged"
      /\ UNCHANGED <<stream, trimmed, book_key, rows, tailer>>
  BY DEF WriterRead, shared
<1> HIDE DEF to
<1>4. Sorted(Stage(cursor, to), cursor, to)
  BY <1>1, <1>2, <1>3, StageSorts
<1>5. /\ staged' \in Seq(Nat) /\ poison' \in Seq(Nat)
      /\ Increasing(staged') /\ Within(staged', cursor, to) /\ Within(poison', cursor, to)
      /\ \A j \in 1 .. Len(staged') : Decodes(staged'[j])
      /\ \A j \in 1 .. Len(poison') : ~Decodes(poison'[j])
  BY <1>3, <1>4 DEF Sorted, Staging
<1>6. Shape'
  BY <1>2, <1>3, <1>5 DEF ReaderInv, Shape, tailer
<1>7. TailPart'
  BY <1>3, TailIdle DEF ReaderInv, TailPart
<1>8. TrimTrue' /\ Pcs'
  BY <1>1, <1>2, <1>3 DEF ReaderInv, Shape, TrimTrue, Pcs, tailer
<1>9. Within(rows, 0, cursor)
  BY DEF ReaderInv, Committed
<1>10. Transaction'
  <2>1. Within(staged', 0, to) /\ Within(poison', 0, to)
    BY <1>1, <1>2, <1>5 DEF Within
  <2>2. \A i \in 1 .. Len(rows), j \in 1 .. Len(staged') : rows[i] < staged'[j]
    BY <1>1, <1>2, <1>5, <1>9 DEF Within
  <2>3. Increasing(staged)'
    BY <1>5 DEF Increasing
  <2>4. Within(staged, 0, cursor)' /\ Within(poison, 0, cursor)'
    BY <1>3, <2>1 DEF Within
  <2>5. /\ (\A j \in 1 .. Len(staged) : Decodes(staged[j]))'
        /\ (\A j \in 1 .. Len(poison) : ~Decodes(poison[j]))'
    BY <1>3, <1>5 DEF Decodes
  <2> QED BY <1>3, <2>2, <2>3, <2>4, <2>5 DEF Transaction
<1>11. Committed'
  <2>1. Within(rows, 0, cursor)'
    BY <1>1, <1>2, <1>3, <1>9 DEF Within
  <2>2. Increasing(rows)'
    BY <1>3 DEF ReaderInv, Committed, Increasing
  <2>3. \A id \in 1 .. to : id \notin pel' => id \in 1 .. cursor /\ id \notin pel
    BY <1>1, <1>2, <1>3
  <2>4. \A id \in 1 .. to :
          id \notin pel' => ~Decodes(id) \/ \E i \in 1 .. Len(rows) : rows[i] = id
    BY <2>3 DEF ReaderInv, Committed
  <2>5. (\A id \in 1 .. cursor :
           id \notin pel => ~Decodes(id) \/ \E i \in 1 .. Len(rows) : rows[i] = id)'
    BY <1>3, <2>4 DEF Decodes
  <2> QED BY <2>1, <2>2, <2>5 DEF Committed
<1> QED BY <1>6, <1>7, <1>8, <1>10, <1>11 DEF ReaderInv, TailPart

(* The elements of two sequences one after the other. *)
Concat(u, q, r) ==
  /\ u \in Seq(Nat) /\ Len(u) = Len(q) + Len(r)
  /\ \A i \in 1 .. Len(q) : u[i] = q[i]
  /\ \A j \in 1 .. Len(r) : u[Len(q) + j] = r[j]
  /\ \A i \in 1 .. Len(q) + Len(r) : \/ i \in 1 .. Len(q) /\ u[i] = q[i]
                                     \/ i - Len(q) \in 1 .. Len(r) /\ u[i] = r[i - Len(q)]

LEMMA Joined ==
  ASSUME NEW q \in Seq(Nat), NEW r \in Seq(Nat)
  PROVE  Concat(q \o r, q, r)
<1> DEFINE n == Len(q)
           m == Len(r)
           u == q \o r
<1>1. /\ u \in Seq(Nat) /\ Len(u) = n + m /\ n \in Nat /\ m \in Nat
      /\ \A i \in 1 .. n : u[i] = q[i]
  OBVIOUS
<1>2. \A j \in 1 .. m : u[n + j] = r[j]
  OBVIOUS
<1> HIDE DEF n, m, u
<1>3. \A i \in 1 .. n + m : i \in 1 .. n \/ (i - n \in 1 .. m /\ n + (i - n) = i)
  BY <1>1
<1>4. \A i \in 1 .. n + m : \/ i \in 1 .. n /\ u[i] = q[i]
                            \/ i - n \in 1 .. m /\ u[i] = r[i - n]
  <2> TAKE i \in 1 .. n + m
  <2>1. CASE i \in 1 .. n
    BY <1>1, <2>1, Zenon
  <2>2. CASE i - n \in 1 .. m /\ n + (i - n) = i
    <3>1. u[n + (i - n)] = r[i - n]
      BY <1>2, <2>2, Zenon
    <3>2. u[i] = r[i - n]
      BY <2>2, <3>1, Zenon
    <3> QED BY <2>2, <3>2, Zenon
  <2> QED BY <1>3, <2>1, <2>2
<1>5. Concat(u, q, r)
  BY <1>1, <1>2, <1>4 DEF Concat, n, m
<1> QED BY <1>5 DEF u

(* The commit: the staged rows follow the ones in the tables. *)
LEMMA WriterCommitKeeps ==
  ASSUME ReaderInv, WriterCommit
  PROVE  ReaderInv'
<1> DEFINE n == Len(rows)
           m == Len(staged)
           u == rows \o staged
<1>1. /\ rows' = u /\ w_pc = "staged" /\ w_pc' = "committed"
      /\ UNCHANGED <<stream, trimmed, book_key, cursor, pel, staged, poison, tailer>>
  BY DEF WriterCommit, shared
<1>2. rows \in Seq(Nat) /\ staged \in Seq(Nat) /\ n \in Nat /\ m \in Nat /\ cursor \in Nat
  BY DEF ReaderInv, Shape
<1>3. /\ u \in Seq(Nat) /\ Len(u) = n + m
      /\ \A i \in 1 .. n : u[i] = rows[i]
      /\ \A j \in 1 .. m : u[n + j] = staged[j]
      /\ \A i \in 1 .. n + m : \/ i \in 1 .. n /\ u[i] = rows[i]
                               \/ i - n \in 1 .. m /\ u[i] = staged[i - n]
  <2>1. Concat(u, rows, staged)
    BY <1>2, Joined
  <2> HIDE DEF u
  <2> QED BY <2>1 DEF Concat
<1> HIDE DEF n, m, u
<1>4. /\ \A i \in 1 .. n : rows[i] \in 1 .. cursor
      /\ \A j \in 1 .. m : staged[j] \in 1 .. cursor
      /\ \A i, j \in 1 .. n : i < j => rows[i] < rows[j]
      /\ \A i, j \in 1 .. m : i < j => staged[i] < staged[j]
      /\ \A i \in 1 .. n, j \in 1 .. m : rows[i] < staged[j]
  <2>1. 0 + 1 = 1
    OBVIOUS
  <2>2. /\ \A i \in 1 .. n : rows[i] \in 0 + 1 .. cursor
        /\ \A j \in 1 .. m : staged[j] \in 0 + 1 .. cursor
    BY DEF ReaderInv, Transaction, Committed, Within, n, m
  <2>3. /\ \A i, j \in 1 .. n : i < j => rows[i] < rows[j]
        /\ \A i, j \in 1 .. m : i < j => staged[i] < staged[j]
    BY DEF ReaderInv, Transaction, Committed, Increasing, n, m
  <2>4. \A i \in 1 .. n, j \in 1 .. m : rows[i] < staged[j]
    BY <1>1 DEF ReaderInv, Transaction, n, m
  <2> QED BY <2>1, <2>2, <2>3, <2>4
<1>5. Within(u, 0, cursor)
  <2>1. \A i \in 1 .. n + m : u[i] \in 1 .. cursor
    BY <1>3, <1>4, Zenon
  <2> QED BY <1>3, <2>1 DEF Within
<1>6. Increasing(u)
  <2> SUFFICES ASSUME NEW i \in 1 .. n + m, NEW j \in 1 .. n + m, i < j PROVE u[i] < u[j]
    BY <1>3 DEF Increasing
  <2>1. CASE i \in 1 .. n /\ u[i] = rows[i] /\ j \in 1 .. n /\ u[j] = rows[j]
    BY <1>4, <2>1
  <2>2. CASE i \in 1 .. n /\ u[i] = rows[i] /\ j - n \in 1 .. m /\ u[j] = staged[j - n]
    BY <1>4, <2>2
  <2>3. CASE i - n \in 1 .. m /\ u[i] = staged[i - n] /\ j - n \in 1 .. m /\ u[j] = staged[j - n]
    <3>1. i - n < j - n
      BY <1>2
    <3> QED BY <1>4, <2>3, <3>1
  <2>4. CASE i - n \in 1 .. m /\ j \in 1 .. n
    BY <1>2, <2>4
  <2> QED BY <1>3, <2>1, <2>2, <2>3, <2>4
<1>7. Shape'
  BY <1>1, <1>3 DEF ReaderInv, Shape, tailer
<1>8. TailPart'
  BY <1>1, TailIdle DEF ReaderInv, TailPart
<1>9. TrimTrue' /\ Pcs'
  BY <1>1 DEF ReaderInv, TrimTrue, Pcs, tailer
<1>10. Transaction'
  <2>1. \A j \in 1 .. m : n + j \in 1 .. Len(u) /\ u[n + j] = staged[j]
    BY <1>2, <1>3
  <2>2. \A j \in 1 .. m : \E i \in 1 .. Len(u) : u[i] = staged[j]
    BY <2>1
  <2> QED BY <1>1, <2>2 DEF ReaderInv, Transaction, Within, Increasing, Decodes, m
<1>11. Committed'
  <2>1. \A i \in 1 .. n : i \in 1 .. Len(u) /\ u[i] = rows[i]
    BY <1>2, <1>3
  <2>2. \A id \in 1 .. cursor : id \notin pel => ~Decodes(id) \/ \E i \in 1 .. n : rows[i] = id
    BY DEF ReaderInv, Committed, n
  <2>3. \A id \in 1 .. cursor : id \notin pel => ~Decodes(id) \/ \E i \in 1 .. Len(u) : u[i] = id
    BY <2>1, <2>2
  <2> QED BY <1>1, <1>5, <1>6, <2>3 DEF Committed, Within, Increasing, Decodes
<1> QED BY <1>7, <1>8, <1>9, <1>10, <1>11 DEF ReaderInv, TailPart

(* An acknowledgement: of a batch whose rows are committed, or of poison. *)
LEMMA WriterAckKeeps ==
  ASSUME ReaderInv, WriterAck
  PROVE  ReaderInv'
<1>1. PICK k \in 1 .. Len(ToAck) : pel' = pel \ {ToAck[k]}
  BY DEF WriterAck
<1>2. /\ w_pc = "committed"
      /\ UNCHANGED <<stream, trimmed, book_key, w_pc, cursor, staged, poison, rows, tailer>>
  BY DEF WriterAck, shared
<1>3. \/ \E j \in 1 .. Len(staged) : ToAck[k] = staged[j]
      \/ \E j \in 1 .. Len(poison) : ToAck[k] = poison[j]
  <2>1. staged \in Seq(Nat) /\ poison \in Seq(Nat)
    BY DEF ReaderInv, Shape
  <2>2. Concat(ToAck, staged, poison)
    BY <2>1, Joined DEF ToAck
  <2>3. \/ k \in 1 .. Len(staged) /\ ToAck[k] = staged[k]
        \/ k - Len(staged) \in 1 .. Len(poison) /\ ToAck[k] = poison[k - Len(staged)]
    BY <2>2 DEF Concat
  <2> QED BY <2>3, Zenon
<1>4. ~Decodes(ToAck[k]) \/ \E i \in 1 .. Len(rows) : rows[i] = ToAck[k]
  BY <1>2, <1>3 DEF ReaderInv, Transaction
<1>5. Shape'
  BY <1>2 DEF ReaderInv, Shape, tailer
<1>6. TailPart'
  BY <1>2, TailIdle DEF ReaderInv, TailPart
<1>7. TrimTrue' /\ Pcs'
  BY <1>2 DEF ReaderInv, TrimTrue, Pcs, tailer
<1>8. Transaction'
  BY <1>2 DEF ReaderInv, Transaction, Within, Increasing, Decodes
<1>9. Committed'
  <2>1. \A id \in 1 .. cursor :
          id \notin pel' => ~Decodes(id) \/ \E i \in 1 .. Len(rows) : rows[i] = id
    BY <1>1, <1>4 DEF ReaderInv, Committed
  <2> QED BY <1>2, <2>1 DEF ReaderInv, Committed, Within, Increasing, Decodes
<1> QED BY <1>5, <1>6, <1>7, <1>8, <1>9 DEF ReaderInv, TailPart

(* The end of a round, with or without a trim. *)
LEMMA WriterTrimKeeps ==
  ASSUME ReaderInv, WriterTrim
  PROVE  ReaderInv'
<1>1. /\ w_pc' = "reading" /\ staged' = << >> /\ poison' = << >>
      /\ UNCHANGED <<stream, book_key, cursor, pel, rows, tailer>>
  BY DEF WriterTrim
<1>2. \/ trimmed' = trimmed
      \/ /\ book_key # None /\ staged # << >>
         /\ trimmed' \in trimmed .. Max({trimmed, Earlier(Last(staged), book_key) - 1})
  BY DEF WriterTrim
<1>3. trimmed \in Nat /\ staged \in Seq(Nat) /\ cursor \in Nat /\ book_key \in Nat \cup {None}
  BY DEF ReaderInv, Shape
<1>4. ASSUME book_key # None, staged # << >>,
             trimmed' \in trimmed .. Max({trimmed, Earlier(Last(staged), book_key) - 1})
      PROVE  /\ trimmed' \in Nat /\ trimmed' <= cursor /\ disk # None /\ trimmed' < disk.last_id
  <2> DEFINE l == Last(staged)
             e == Earlier(l, book_key)
  <2>1. l \in 1 .. cursor
    <3>1. Len(staged) \in 1 .. Len(staged)
      BY <1>3, <1>4
    <3>2. staged[Len(staged)] \in 0 + 1 .. cursor
      BY <3>1 DEF ReaderInv, Transaction, Within
    <3> QED BY <3>2 DEF Last
  <2>2. book_key \in Nat /\ disk # None /\ book_key <= disk.last_id /\ disk.last_id \in Nat
    BY <1>3, <1>4 DEF ReaderInv, TrimTrue, Shape
  <2>3. e \in Nat /\ e <= cursor /\ e <= disk.last_id
    BY <1>3, <2>1, <2>2 DEF Earlier
  <2>4. trimmed <= cursor /\ trimmed < disk.last_id
    BY <2>2 DEF ReaderInv, TrimTrue
  <2>5. trimmed' \in trimmed .. Max({trimmed, e - 1})
    BY <1>4
  <2> HIDE DEF e
  <2> DEFINE d == e - 1
  <2>6. d \in Int /\ d < cursor /\ d < disk.last_id
    BY <1>3, <2>2, <2>3
  <2>7. trimmed' \in trimmed .. Max({trimmed, d})
    BY <2>5
  <2> HIDE DEF d
  <2>8. Max({trimmed, d}) = IF trimmed <= d THEN d ELSE trimmed
    BY <1>3, <2>6, OfTwo
  <2> QED BY <1>3, <2>2, <2>4, <2>6, <2>7, <2>8
<1>5. Shape'
  BY <1>1, <1>2, <1>3, <1>4 DEF ReaderInv, Shape, tailer
<1>6. TailPart'
  BY <1>1, TailIdle DEF ReaderInv, TailPart
<1>7. TrimTrue' /\ Pcs'
  <2>1. trimmed' <= cursor /\ IF disk = None THEN trimmed' = 0 ELSE trimmed' < disk.last_id
    BY <1>2, <1>4 DEF ReaderInv, TrimTrue
  <2> QED BY <1>1, <2>1 DEF ReaderInv, TrimTrue, Pcs, tailer
<1>8. Len(<< >>) = 0
  OBVIOUS
<1>9. Transaction'
  BY <1>1, <1>8 DEF Transaction, Within, Increasing
<1>10. Committed'
  BY <1>1 DEF ReaderInv, Committed, Within, Increasing, Decodes
<1> QED BY <1>5, <1>6, <1>7, <1>9, <1>10 DEF ReaderInv, TailPart

-----------------------------------------------------------------------------
(* The steps of the book projection                                        *)

(* Where a running projection stands, nothing it needs was trimmed. *)
LEMMA NothingMissing ==
  ASSUME ReaderInv, t_pc # "down"
  PROVE  trimmed <= last_id
BY DEF ReaderInv, Shape, TrimTrue, TailTrue

(* The bootstrap: from the snapshot, or from the start, to the end of the stream. *)
LEMMA BootstrapKeeps ==
  ASSUME ReaderInv, Bootstrap
  PROVE  ReaderInv'
<1> DEFINE snap == IF disk = None THEN [last_id |-> 0, book |-> NewBook] ELSE disk
           from == snap.last_id
           n == Len(stream)
           read == {id \in from + 1 .. n : id > trimmed /\ Decodes(id)}
           at == IF read = {} THEN from ELSE Max(read)
<1>1. /\ t_pc' = "tailing" /\ inbox' = << >> /\ since_snapshot' = 0
      /\ book' = Fold(snap.book, from, n) /\ last_id' = at
      /\ UNCHANGED <<stream, trimmed, book_key, writer, disk>>
  BY DEF Bootstrap, shared
<1>2. /\ stream \in Seq(Entry) /\ n \in Nat /\ trimmed \in Nat
      /\ disk \in [last_id : Nat, book : BookValue] \cup {None}
  BY DEF ReaderInv, Shape
<1>3. /\ from \in Nat /\ from <= n /\ trimmed <= from /\ snap.book = Hist(stream, from)
      /\ disk # None => disk.last_id = from
  <2>1. CASE disk = None
    <3>1. snap = [last_id |-> 0, book |-> NewBook]
      BY <2>1
    <3>2. from = 0 /\ snap.book = NewBook
      BY <3>1
    <3>3. trimmed = 0
      BY <2>1 DEF ReaderInv, TrimTrue
    <3> HIDE DEF snap
    <3> QED BY <1>2, <2>1, <3>2, <3>3, HistSteps
  <2>2. CASE disk # None
    <3>1. snap = disk
      BY <2>2
    <3>2. disk.last_id \in Nat /\ trimmed < disk.last_id
      BY <1>2, <2>2 DEF ReaderInv, TrimTrue
    <3> HIDE DEF snap
    <3> QED BY <1>2, <2>2, <3>1, <3>2 DEF ReaderInv, SnapshotTrue
  <2> QED BY <2>1, <2>2
<1> HIDE DEF snap
<1>4. Fold(snap.book, from, n) = Hist(stream, n)
  <2> HIDE DEF from, n
  <2> QED BY <1>2, <1>3, FoldIsHistory
<1> HIDE DEF from, n
<1>5. /\ at \in Nat /\ from <= at /\ at <= n
      /\ \A id \in at + 1 .. n : stream[id] \notin Delta
  <2>1. \A id \in from + 1 .. n : stream[id] \in Delta => id \in read
    BY <1>2, <1>3 DEF Decodes
  <2>2. CASE read = {}
    <3>1. at = from
      BY <2>2
    <3> HIDE DEF at, read
    <3> QED BY <1>2, <1>3, <2>1, <2>2, <3>1
  <2>3. CASE read # {}
    <3>1. read \in SUBSET Nat /\ \A id \in read : id <= n /\ id >= from
      BY <1>2, <1>3
    <3>2. at = Max(read)
      BY <2>3
    <3> HIDE DEF read, at
    <3>3. \E x \in read : \A y \in read : y <= x
      BY <1>2, <2>3, <3>1, GreatestNat
    <3>4. \E x \in read : \A y \in read : x >= y
      BY <3>1, <3>3
    <3>5. at \in read /\ \A y \in read : at >= y
      BY <3>2, <3>4 DEF Max
    <3>6. at \in Nat /\ from <= at /\ at <= n
      BY <3>1, <3>5
    <3>7. ASSUME NEW id \in at + 1 .. n PROVE stream[id] \notin Delta
      <4>1. id \in from + 1 .. n /\ ~(at >= id)
        BY <1>2, <1>3, <3>6
      <4> QED BY <2>1, <3>5, <4>1
    <3> QED BY <3>6, <3>7
  <2> QED BY <2>2, <2>3
<1> HIDE DEF at
<1>6. Hist(stream, n) = Hist(stream, at)
  BY <1>2, <1>5, HistSkips
<1>7. book' = Hist(stream, at) /\ book' \in BookValue
  BY <1>1, <1>4, <1>5, <1>6, HistSteps
<1>8. WriterPart'
  BY <1>1, WriterIdle DEF ReaderInv, WriterPart
<1>9. Shape'
  BY <1>1, <1>2, <1>5, <1>7 DEF ReaderInv, Shape, writer, n
<1>10. SnapshotTrue'
  BY <1>1 DEF ReaderInv, SnapshotTrue
<1>11. TailTrue'
  BY <1>1, <1>3, <1>5, <1>7 DEF TailTrue
<1>12. Delivered'
  <2>1. Len(<< >>) = 0
    OBVIOUS
  <2> QED BY <1>1, <1>2, <1>5, <2>1 DEF Delivered, n
<1>13. TrimTrue'
  BY <1>1 DEF ReaderInv, TrimTrue, writer
<1> QED BY <1>8, <1>9, <1>10, <1>11, <1>12, <1>13 DEF ReaderInv, WriterPart

(* The process stops, or its tail task ends. *)
LEMMA TailEndKeeps ==
  ASSUME ReaderInv, TailStop \/ TailTerminated
  PROVE  ReaderInv'
<1>1. Len(<< >>) = 0 /\ NewBook \in BookValue
  BY HistSteps
<1>2. CASE TailStop
  <2>1. /\ t_pc' = "down" /\ book' = NewBook /\ last_id' = 0 /\ inbox' = << >>
        /\ since_snapshot' = 0 /\ UNCHANGED <<stream, trimmed, book_key, writer, disk>>
    BY <1>2 DEF TailStop, shared
  <2>2. WriterPart'
    BY <2>1, WriterIdle DEF ReaderInv, WriterPart
  <2>3. Shape'
    BY <1>1, <2>1 DEF ReaderInv, Shape, writer
  <2>4. TailPart'
    BY <1>1, <2>1 DEF ReaderInv, Shape, TailPart, SnapshotTrue, TailTrue, Delivered
  <2>5. TrimTrue'
    BY <2>1 DEF ReaderInv, TrimTrue, writer
  <2> QED BY <2>2, <2>3, <2>4, <2>5 DEF ReaderInv, WriterPart, TailPart
<1>3. CASE TailTerminated
  <2>1. /\ t_pc = "tailing" /\ inbox = << >> /\ t_pc' = "terminated"
        /\ UNCHANGED <<stream, trimmed, book_key, writer, book, last_id, inbox,
                       since_snapshot, disk>>
    BY <1>3 DEF TailTerminated, shared
  <2>2. WriterPart'
    BY <2>1, WriterIdle DEF ReaderInv, WriterPart
  <2>3. Shape'
    BY <2>1 DEF ReaderInv, Shape, writer
  <2>4. TailPart'
    BY <2>1 DEF ReaderInv, TailPart, SnapshotTrue, TailTrue, Delivered
  <2>5. TrimTrue'
    BY <2>1 DEF ReaderInv, TrimTrue, writer
  <2> QED BY <2>2, <2>3, <2>4, <2>5 DEF ReaderInv, WriterPart, TailPart
<1> QED BY <1>2, <1>3

(* A reply to the tail: exactly the entries after the last one applied. *)
LEMMA TailReadKeeps ==
  ASSUME ReaderInv, TailRead
  PROVE  ReaderInv'
<1> DEFINE n == Len(stream)
           from == Max({last_id, trimmed})
           box == [i \in 1 .. n - last_id |-> last_id + i]
<1>1. n \in Nat /\ last_id \in Nat /\ last_id <= n /\ trimmed \in Nat
  BY DEF ReaderInv, Shape
<1>2. /\ t_pc = "tailing" /\ t_pc' = "applying"
      /\ inbox' = [i \in 1 .. n - from |-> from + i]
      /\ UNCHANGED <<stream, trimmed, book_key, writer, book, last_id, since_snapshot, disk>>
  BY DEF TailRead, shared
<1>3. from = last_id
  <2>1. trimmed <= last_id
    BY <1>2, NothingMissing
  <2> QED BY <1>1, <2>1, OfTwo
<1> HIDE DEF from
<1>4. inbox' = box
  BY <1>2, <1>3
<1>5. /\ n - last_id \in Nat /\ box \in Seq(Nat) /\ Len(box) = n - last_id
      /\ \A i \in 1 .. n - last_id : box[i] = last_id + i
  <2>1. n - last_id \in Nat
    BY <1>1
  <2>2. \A i \in 1 .. n - last_id : last_id + i \in Nat
    BY <1>1, <2>1
  <2> QED BY <2>1, <2>2
<1> HIDE DEF box, n
<1>6. WriterPart'
  BY <1>2, WriterIdle DEF ReaderInv, WriterPart
<1>7. Shape'
  BY <1>2, <1>4, <1>5 DEF ReaderInv, Shape, writer
<1>8. SnapshotTrue' /\ TailTrue'
  BY <1>2 DEF ReaderInv, SnapshotTrue, TailTrue
<1>9. Delivered'
  <2>1. last_id + (n - last_id) <= n
    BY <1>1
  <2> QED BY <1>2, <1>4, <1>5, <2>1 DEF Delivered, n
<1>10. TrimTrue'
  BY <1>2 DEF ReaderInv, TrimTrue, writer
<1> QED BY <1>6, <1>7, <1>8, <1>9, <1>10 DEF ReaderInv, WriterPart

(* One entry is the next one, applied if it decodes and skipped if not. *)
LEMMA TailApplyKeeps ==
  ASSUME ReaderInv, TailApply
  PROVE  ReaderInv'
<1> DEFINE id == Head(inbox)
           n == Len(stream)
<1>1. /\ t_pc = "applying" /\ inbox # << >> /\ last_id' = id /\ inbox' = Tail(inbox)
      /\ book' = IF Decodes(id) THEN ApplyBatch(book, id) ELSE book
      /\ since_snapshot' = IF Decodes(id) THEN since_snapshot + 1 ELSE since_snapshot
      /\ UNCHANGED <<stream, trimmed, book_key, writer, t_pc, disk>>
  BY DEF TailApply, shared
<1>2. /\ n \in Nat /\ last_id \in Nat /\ inbox \in Seq(Nat) /\ since_snapshot \in Nat
      /\ book \in BookValue
  BY DEF ReaderInv, Shape
<1>3. /\ last_id + Len(inbox) <= n
      /\ \A i \in 1 .. Len(inbox) : inbox[i] = last_id + i
  BY DEF ReaderInv, Delivered
<1>4. /\ Len(inbox) \in Nat /\ Len(inbox) >= 1 /\ id = inbox[1]
      /\ inbox' \in Seq(Nat) /\ Len(inbox') = Len(inbox) - 1
      /\ \A i \in 1 .. Len(inbox) - 1 : inbox'[i] = inbox[i + 1]
  BY <1>1, <1>2
<1>5. id = last_id + 1 /\ id <= n
  <2>1. 1 \in 1 .. Len(inbox)
    BY <1>4
  <2>2. id = last_id + 1
    BY <1>3, <1>4, <2>1
  <2> QED BY <1>2, <1>3, <1>4, <2>2
<1> HIDE DEF id
<1>6. book' = Hist(stream, id) /\ book' \in BookValue
  <2>1. book = Hist(stream, last_id)
    BY <1>1 DEF ReaderInv, TailTrue
  <2>2. Hist(stream, last_id + 1) = IF stream[last_id + 1] \in Delta
                                    THEN Put(stream, Hist(stream, last_id), last_id + 1)
                                    ELSE Hist(stream, last_id)
    BY <1>2, HistSteps
  <2>3. book' = IF stream[id] \in Delta THEN Put(stream, book, id) ELSE book
    BY <1>1, HistIs DEF Decodes
  <2>4. book' = Hist(stream, id)
    BY <1>5, <2>1, <2>2, <2>3
  <2>5. id \in Nat
    BY <1>2, <1>5
  <2> QED BY <2>4, <2>5, HistSteps
<1>7. WriterPart'
  BY <1>1, WriterIdle DEF ReaderInv, WriterPart
<1>8. Shape'
  BY <1>1, <1>2, <1>4, <1>5, <1>6 DEF ReaderInv, Shape, writer
<1>9. SnapshotTrue'
  BY <1>1 DEF ReaderInv, SnapshotTrue
<1>10. TailTrue'
  <2>1. disk # None => disk.last_id \in Nat /\ disk.last_id <= last_id
    BY <1>1 DEF ReaderInv, Shape, TailTrue
  <2> QED BY <1>1, <1>2, <1>5, <1>6, <2>1 DEF TailTrue
<1>11. Delivered'
  <2>1. id + (Len(inbox) - 1) <= n
    BY <1>2, <1>3, <1>4, <1>5
  <2>2. ASSUME NEW i \in 1 .. Len(inbox) - 1 PROVE inbox'[i] = id + i
    <3>1. i + 1 \in 1 .. Len(inbox)
      BY <1>4
    <3>2. inbox[i + 1] = last_id + (i + 1)
      BY <1>3, <3>1
    <3> QED BY <1>2, <1>4, <1>5, <3>2
  <2> QED BY <1>1, <1>4, <2>1, <2>2 DEF Delivered, n
<1>12. TrimTrue'
  BY <1>1 DEF ReaderInv, TrimTrue, writer
<1> QED BY <1>7, <1>8, <1>9, <1>10, <1>11, <1>12 DEF ReaderInv, WriterPart

(* A snapshot that is saved is the served book, later than the last one. *)
LEMMA TailSaveKeeps ==
  ASSUME ReaderInv, NEW ok \in BOOLEAN, TailSave(ok)
  PROVE  ReaderInv'
<1> DEFINE due == since_snapshot >= SnapshotEvery
           snap == [last_id |-> last_id, book |-> book]
<1>1. /\ t_pc = "applying" /\ inbox = << >>
      /\ since_snapshot' = IF due THEN 0 ELSE since_snapshot
      /\ \/ ~(due /\ ok) /\ disk' = disk /\ t_pc' = "tailing"
         \/ due /\ ok /\ disk' = snap /\ t_pc' = "saved"
      /\ UNCHANGED <<stream, trimmed, book_key, writer, book, last_id, inbox>>
  BY DEF TailSave, shared
<1>2. /\ last_id \in Nat /\ last_id <= Len(stream) /\ since_snapshot \in Nat /\ trimmed \in Nat
      /\ book \in BookValue /\ disk \in [last_id : Nat, book : BookValue] \cup {None}
  BY DEF ReaderInv, Shape
<1>3. snap \in [last_id : Nat, book : BookValue] /\ snap.last_id = last_id /\ snap.book = book
  BY <1>2
<1>4. snap # None
  BY <1>3, NoneNoValue
<1>5. SnapshotEvery \in Nat \ {0}
  BY ReadersAssumption
<1>6. due => last_id >= 1
  BY <1>1, <1>2, <1>5 DEF ReaderInv, TailTrue
<1>7. /\ book = Hist(stream, last_id)
      /\ disk # None => disk.last_id <= last_id
      /\ since_snapshot > 0 => last_id >= 1
  BY <1>1 DEF ReaderInv, TailTrue
<1>8. WriterPart'
  BY <1>1, WriterIdle DEF ReaderInv, WriterPart
<1> HIDE DEF due, snap
<1>9. Shape'
  BY <1>1, <1>2, <1>3 DEF ReaderInv, Shape, writer
<1>10. SnapshotTrue'
  BY <1>1, <1>2, <1>3, <1>6, <1>7 DEF ReaderInv, SnapshotTrue
<1>11. TailTrue'
  BY <1>1, <1>2, <1>3, <1>7 DEF TailTrue
<1>12. Delivered'
  BY <1>1 DEF ReaderInv, Delivered
<1>13. TrimTrue'
  <2>1. CASE disk' = disk /\ t_pc' = "tailing"
    BY <1>1, <2>1 DEF ReaderInv, TrimTrue, writer
  <2>2. CASE due /\ disk' = snap /\ t_pc' = "saved"
    <3>1. trimmed < last_id
      <4>1. CASE disk = None
        BY <1>2, <1>6, <2>2, <4>1 DEF ReaderInv, TrimTrue
      <4>2. CASE disk # None
        BY <1>2, <1>7, <4>2 DEF ReaderInv, TrimTrue
      <4> QED BY <4>1, <4>2
    <3>2. book_key # None => book_key \in Nat /\ book_key <= last_id
      BY <1>2, <1>7 DEF ReaderInv, Shape, TrimTrue
    <3> QED BY <1>1, <1>3, <1>4, <2>2, <3>1, <3>2 DEF ReaderInv, TrimTrue, writer
  <2> QED BY <1>1, <2>1, <2>2
<1> QED BY <1>8, <1>9, <1>10, <1>11, <1>12, <1>13 DEF ReaderInv, WriterPart

(* The key that allows the trim names a snapshot that is on disk. *)
LEMMA TailPublishKeeps ==
  ASSUME ReaderInv, NEW ok \in BOOLEAN, TailPublish(ok)
  PROVE  ReaderInv'
<1>1. /\ t_pc = "saved" /\ t_pc' = "tailing" /\ book_key' \in {book_key, last_id}
      /\ UNCHANGED <<stream, trimmed, writer, book, last_id, inbox, since_snapshot, disk>>
  BY DEF TailPublish
<1>2. WriterPart'
  BY <1>1, WriterIdle DEF ReaderInv, WriterPart
<1>3. Shape'
  BY <1>1 DEF ReaderInv, Shape, writer
<1>4. TailPart'
  BY <1>1 DEF ReaderInv, TailPart, SnapshotTrue, TailTrue, Delivered
<1>5. TrimTrue'
  <2>1. disk # None /\ disk.last_id = last_id /\ last_id \in Nat
    BY <1>1 DEF ReaderInv, TrimTrue, Shape
  <2> QED BY <1>1, <2>1 DEF ReaderInv, TrimTrue, writer
<1> QED BY <1>2, <1>3, <1>4, <1>5 DEF ReaderInv, WriterPart, TailPart

-----------------------------------------------------------------------------
(* The theorems                                                            *)

(* The invariant holds in every state the two readers reach. *)
THEOREM ReadersInvariant == Spec => []ReaderInv
<1>1. ReaderInv /\ [Next]_vars => ReaderInv'
  <2> SUFFICES ASSUME ReaderInv, [Next]_vars PROVE ReaderInv'
    OBVIOUS
  <2>1. CASE \E entry \in Delta \cup {Garbage} : Emit(entry)
    BY <2>1, EmitKeeps DEF Entry
  <2>2. CASE WriterStop \/ WriterStart
    BY <2>2, WriterRestartKeeps
  <2>3. CASE TailStop \/ TailTerminated
    BY <2>3, TailEndKeeps
  <2>4. CASE WriterRead \/ WriterCommit \/ WriterAck \/ WriterTrim
    BY <2>4, WriterReadKeeps, WriterCommitKeeps, WriterAckKeeps, WriterTrimKeeps
  <2>5. CASE Bootstrap \/ TailRead \/ TailApply
    BY <2>5, BootstrapKeeps, TailReadKeeps, TailApplyKeeps
  <2>6. CASE \E ok \in BOOLEAN : TailSave(ok) \/ TailPublish(ok)
    BY <2>6, TailSaveKeeps, TailPublishKeeps
  <2>7. CASE UNCHANGED vars
    <3>1. UNCHANGED <<stream, writer>> /\ UNCHANGED <<stream, tailer>> /\ UNCHANGED <<trimmed, book_key>>
      BY <2>7 DEF vars, shared
    <3>2. WriterPart' /\ TailPart'
      BY <3>1, WriterIdle, TailIdle DEF ReaderInv, WriterPart, TailPart
    <3>3. Shape' /\ TrimTrue'
      BY <3>1 DEF ReaderInv, Shape, TrimTrue, writer, tailer
    <3> QED BY <3>2, <3>3 DEF ReaderInv, WriterPart, TailPart
  <2> QED BY <2>1, <2>2, <2>3, <2>4, <2>5, <2>6, <2>7 DEF Next, Writer, Tailer
<1> QED BY InitReaders, <1>1, PTL DEF Spec

(* A book the API serves is the one the events up to last_id determine,    *)
(* whatever was trimmed and however often the API stopped (bootstrap and   *)
(* tail of api/book.rs).                                                   *)
THEOREM BookIsFunctionOfStream == Spec => []BookFollowsStream
<1>1. ReaderInv => BookFollowsStream
  BY HistIs DEF ReaderInv, TailTrue, BookFollowsStream
<1> QED BY ReadersInvariant, <1>1, PTL

(* db_writer's trim never takes an entry that it, the book's snapshot or   *)
(* the running tail still needs.                                           *)
THEOREM TrimIsSafe == Spec => []TrimSparesReaders
<1>1. ReaderInv => TrimSparesReaders
  <2> SUFFICES ASSUME ReaderInv PROVE TrimSparesReaders
    OBVIOUS
  <2>1. t_pc # "down" => trimmed <= last_id
    BY NothingMissing
  <2> QED BY <2>1 DEF ReaderInv, TrimTrue, TrimSparesReaders
<1> QED BY ReadersInvariant, <1>1, PTL

(* Rows are committed once each and in stream order, and no batch is       *)
(* acknowledged that is not committed.                                     *)
THEOREM CommitsBeforeAcking == Spec => []AckedIsCommitted
<1>1. ReaderInv => AckedIsCommitted
  <2> SUFFICES ASSUME ReaderInv PROVE AckedIsCommitted
    OBVIOUS
  <2>1. rows \in Seq(Nat) /\ DOMAIN rows = 1 .. Len(rows)
    BY DEF ReaderInv, Shape
  <2>2. \A id : (\E i \in 1 .. Len(rows) : rows[i] = id) => id \in Range(rows)
    BY <2>1 DEF Range
  <2> QED BY <2>2 DEF ReaderInv, Committed, Increasing, AckedIsCommitted
<1> QED BY ReadersInvariant, <1>1, PTL
=============================================================================
