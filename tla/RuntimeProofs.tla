--------------------------- MODULE RuntimeProofs ---------------------------
(***************************************************************************)
(* The engine process across crashes, for any deterministic engine, any    *)
(* number of commands and crashes, any read size and snapshot interval:    *)
(* the properties of RuntimeProperties follow from one inductive invariant.*)
(* They need the snapshot file to be there when it is looked for, and      *)
(* XGROUP SETID to succeed; without either they are false.                 *)
(***************************************************************************)
EXTENDS RuntimeProperties, LoopsProofs, SequenceTheorems

Entry == Payload \cup {Garbage}

-----------------------------------------------------------------------------
(* What a log determines                                                   *)

\* Determined(k) for a log given as a value.
Det(lg, k) ==
  Loop([n \in Nat |-> [s \in EngineState |->
          IF lg[n] \in Payload THEN Apply(s, lg[n]).engine ELSE s]], Engine0)[k]

(* The engine after entry k + 1 is the one after entry k with it applied. *)
LEMMA DetSteps ==
  ASSUME NEW lg \in Seq(Entry)
  PROVE  /\ Det(lg, 0) = Engine0
         /\ \A k \in Nat : Det(lg, k) \in EngineState
         /\ \A k \in Nat : Det(lg, k + 1) = IF lg[k + 1] \in Payload
                                            THEN Apply(Det(lg, k), lg[k + 1]).engine
                                            ELSE Det(lg, k)
<1> DEFINE body == [n \in Nat |-> [s \in EngineState |->
                      IF lg[n] \in Payload THEN Apply(s, lg[n]).engine ELSE s]]
           run == Loop(body, Engine0)
<1>1. body \in [Nat -> [EngineState -> EngineState]] /\ Engine0 \in EngineState
  BY ApplyAssumption
<1>2. run \in [Nat -> EngineState] /\ run[0] = Engine0
  <2> HIDE DEF body
  <2> QED BY <1>1, LoopDef
<1>3. \A n \in Nat : run[n+1] = body[n+1][run[n]]
  <2> HIDE DEF body
  <2> QED BY <1>1, LoopDef
<1>4. \A k : Det(lg, k) = run[k]
  BY Zenon DEF Det
<1> HIDE DEF run
<1>5. ASSUME NEW k \in Nat
      PROVE  run[k + 1] = IF lg[k + 1] \in Payload
                          THEN Apply(run[k], lg[k + 1]).engine ELSE run[k]
  <2> DEFINE e == run[k]
  <2>1. e \in EngineState /\ k + 1 \in Nat /\ run[k + 1] = body[k + 1][e]
    <3> HIDE DEF body
    <3>1. run[k + 1] = body[k + 1][run[k]]
      BY <1>3, Zenon
    <3>2. run[k] \in EngineState /\ k + 1 \in Nat
      BY <1>2
    <3> QED BY <3>1, <3>2
  <2> HIDE DEF e
  <2>2. body[k + 1][e] = IF lg[k + 1] \in Payload THEN Apply(e, lg[k + 1]).engine ELSE e
    BY <2>1
  <2> QED BY <2>1, <2>2 DEF e
<1> QED BY <1>2, <1>4, <1>5

(* Entries that do not decode change nothing. *)
LEMMA DetSkips ==
  ASSUME NEW lg \in Seq(Entry), NEW j \in Nat, NEW k \in Nat, j <= k,
         \A id \in j + 1 .. k : lg[id] \notin Payload
  PROVE  Det(lg, k) = Det(lg, j)
<1> DEFINE U == {n \in Nat : j + n <= k => Det(lg, j + n) = Det(lg, j)}
<1>1. 0 \in U
  <2>1. j + 0 = j
    OBVIOUS
  <2> QED BY <2>1
<1>2. ASSUME NEW n \in U PROVE n + 1 \in U
  <2> SUFFICES ASSUME j + (n + 1) <= k PROVE Det(lg, j + (n + 1)) = Det(lg, j)
    OBVIOUS
  <2>1. j + n \in Nat /\ j + (n + 1) = (j + n) + 1 /\ (j + n) + 1 \in j + 1 .. k
    OBVIOUS
  <2>2. Det(lg, (j + n) + 1) = Det(lg, j + n)
    BY <2>1, DetSteps
  <2> QED BY <2>1, <2>2
<1>3. U = Nat
  BY <1>1, <1>2, SetInduction
<1>4. k - j \in Nat /\ j + (k - j) = k /\ j + (k - j) <= k
  OBVIOUS
<1>5. k - j \in U
  BY <1>3, <1>4
<1>6. Det(lg, j + (k - j)) = Det(lg, j)
  BY <1>4, <1>5
<1> QED BY <1>4, <1>6

(* What a log determines up to k does not change when the log grows. *)
LEMMA DetGrows ==
  ASSUME NEW lg \in Seq(Entry), NEW mo \in Seq(Entry), Len(lg) <= Len(mo),
         \A id \in 1 .. Len(lg) : mo[id] = lg[id]
  PROVE  \A k \in 0 .. Len(lg) : Det(mo, k) = Det(lg, k)
<1> DEFINE U == {n \in Nat : n <= Len(lg) => Det(mo, n) = Det(lg, n)}
<1>1. 0 \in U
  BY DetSteps
<1>2. ASSUME NEW n \in U PROVE n + 1 \in U
  <2> SUFFICES ASSUME n + 1 <= Len(lg) PROVE Det(mo, n + 1) = Det(lg, n + 1)
    OBVIOUS
  <2>1. Det(mo, n) = Det(lg, n) /\ mo[n + 1] = lg[n + 1]
    OBVIOUS
  <2> QED BY <2>1, DetSteps
<1>3. U = Nat
  BY <1>1, <1>2, SetInduction
<1> QED BY <1>3

(* Replaying the entries after `from` into what the log determines up to it *)
(* gives what the log determines up to `to`, if none of them was trimmed.   *)
LEMMA ReplayDetermined ==
  ASSUME log \in Seq(Entry), trimmed \in Nat,
         NEW from \in Nat, NEW to \in Nat, from <= to, trimmed <= from
  PROVE  Replay(Det(log, from), from, to) = Det(log, to)
<1> DEFINE start == Det(log, from)
           body == [n \in Nat |-> [s \in EngineState |->
                      IF from + n > trimmed /\ Decodes(from + n)
                      THEN Apply(s, log[from + n]).engine ELSE s]]
           run == Loop(body, start)
           U == {n \in Nat : run[n] = Det(log, from + n)}
<1>1. body \in [Nat -> [EngineState -> EngineState]] /\ start \in EngineState
  BY ApplyAssumption, DetSteps DEF Decodes
<1>2. run \in [Nat -> EngineState] /\ run[0] = start
  <2> HIDE DEF body, start
  <2> QED BY <1>1, LoopDef
<1>3. \A n \in Nat : run[n+1] = body[n+1][run[n]]
  <2> HIDE DEF body, start
  <2> QED BY <1>1, LoopDef
<1>4. Replay(start, from, to) = run[to - from]
  BY Zenon DEF Replay
<1> HIDE DEF run
<1>5. 0 \in U
  <2>1. from + 0 = from
    OBVIOUS
  <2> QED BY <1>2, <2>1
<1>6. ASSUME NEW n \in U PROVE n + 1 \in U
  <2> DEFINE e == Det(log, from + n)
  <2>1. run[n + 1] = body[n + 1][run[n]]
    <3> HIDE DEF body
    <3> QED BY <1>3, Zenon
  <2>2. e \in EngineState /\ n + 1 \in Nat /\ from + (n + 1) = (from + n) + 1
        /\ from + (n + 1) > trimmed /\ run[n] = e
    <3>1. from + n \in Nat
      OBVIOUS
    <3>2. e \in EngineState
      BY <3>1, DetSteps
    <3> HIDE DEF body
    <3> QED BY <3>2
  <2>3. Det(log, from + (n + 1)) = IF log[from + (n + 1)] \in Payload
                                   THEN Apply(e, log[from + (n + 1)]).engine ELSE e
    <3>1. from + n \in Nat
      OBVIOUS
    <3> QED BY <2>2, <3>1, DetSteps
  <2> HIDE DEF e
  <2>4. body[n + 1][e] = IF log[from + (n + 1)] \in Payload
                         THEN Apply(e, log[from + (n + 1)]).engine ELSE e
    BY <2>2 DEF Decodes
  <2> HIDE DEF body
  <2> QED BY <2>1, <2>2, <2>3, <2>4
<1>7. U = Nat
  <2> HIDE DEF body
  <2> QED BY <1>5, <1>6, SetInduction
<1>8. to - from \in Nat /\ from + (to - from) = to
  OBVIOUS
<1>9. run[to - from] = Det(log, from + (to - from))
  <2> HIDE DEF body
  <2> QED BY <1>7, <1>8
<1> QED BY <1>4, <1>8, <1>9

-----------------------------------------------------------------------------
(* The inductive invariant                                                 *)

BatchValue == {Apply(e, c).batch : e \in EngineState, c \in Payload}

\* The batch the log determines for entry id.
BatchOf(id) == Apply(Det(log, id - 1), log[id]).batch

Busy == pc \in {"applied", "emitted", "published", "acked", "saved"}

Types ==
  /\ log \in Seq(Entry) /\ trimmed \in Nat
  /\ cursor \in {None} \cup 0 .. Len(log)
  /\ events \in Seq([id : Nat \ {0}, batch : BatchValue])
  /\ disk \in {None} \cup [last_id : Nat, state : EngineState]
  /\ pc \in {"down", "created", "replayed", "idle", "applied", "emitted", "published",
             "acked", "saved"}
  /\ inbox \in Seq(Nat) /\ at \in 0 .. Len(log)

\* The snapshot is a prefix of the log that was delivered, and covers the trim.
SnapshotInv ==
  IF disk = None THEN trimmed = 0
  ELSE /\ cursor # None /\ trimmed < disk.last_id /\ disk.last_id <= cursor
       /\ disk.state = Det(log, disk.last_id)

\* The entries in hand are the last ones delivered.
InboxInv ==
  /\ pc # "down" => cursor # None
  /\ pc \in {"down", "created", "replayed"} => inbox = << >>
  /\ inbox # << >> => Len(inbox) <= cursor
  /\ \A i \in 1 .. Len(inbox) : inbox[i] = cursor - Len(inbox) + i

\* Where the engine stands in the log, at each place in the loop.
PositionInv ==
  /\ Up => engine = Det(log, at)
  /\ pc = "replayed" =>
       /\ cursor <= at
       /\ IF last_id = None THEN \A id \in 1 .. at : Decodes(id) => id <= cursor
          ELSE /\ last_id \in 1 .. at
               /\ \A id \in 1 .. at : Decodes(id) => id <= last_id
               /\ disk # None => disk.last_id <= last_id
  /\ pc = "idle" =>
       \A id \in 1 .. Len(log) : Decodes(id) => (id <= at <=> id <= cursor - Len(inbox))
  /\ Busy => inbox # << >> /\ at = Head(inbox) /\ Decodes(at)
  /\ pc = "saved" => disk # None /\ disk.last_id = at
  /\ disk # None => /\ pc = "idle" => disk.last_id <= cursor - Len(inbox)
                    /\ Busy => disk.last_id <= at

\* What has been emitted, and what is about to be.
EmittedInv ==
  /\ \A i, j \in 1 .. Len(events) : i < j => events[i].id < events[j].id
  /\ \A i \in 1 .. Len(events) :
       /\ events[i].id \in 1 .. Len(log) /\ Decodes(events[i].id)
       /\ events[i].batch = BatchOf(events[i].id)
       /\ Up => events[i].id <= at
       /\ pc = "applied" => events[i].id < at
  /\ pc = "applied" => batch = BatchOf(at)
  /\ Busy /\ pc # "applied" /\ BatchOf(at) # None =>
       \E i \in 1 .. Len(events) : events[i].id = at

\* None of the parts is inductive alone: that a command is applied once, and to
\* the right state, needs the cursor and the entries in hand to continue where
\* the engine stands (PositionInv, InboxInv); that this is so after a recovery
\* needs the snapshot to lie behind the cursor and the trim behind the snapshot.
RuntimeInv == Types /\ SnapshotInv /\ InboxInv /\ PositionInv /\ EmittedInv

(* Nothing has been delivered, applied or emitted initially. *)
LEMMA InvInit == Init => RuntimeInv
<1> SUFFICES ASSUME Init PROVE RuntimeInv
  OBVIOUS
<1>1. Types
  BY DEF Init, Types
<1>2. SnapshotInv /\ InboxInv /\ PositionInv /\ EmittedInv
  BY DEF Init, SnapshotInv, InboxInv, PositionInv, EmittedInv, Up, Busy
<1> QED BY <1>1, <1>2 DEF RuntimeInv

(* The first entry in hand follows the ones delivered and finished before. *)
LEMMA CurrentIs ==
  ASSUME RuntimeInv, inbox # << >>
  PROVE  /\ cursor \in 1 .. Len(log) /\ Len(log) \in Nat
         /\ Len(inbox) \in 1 .. cursor
         /\ Current = cursor - Len(inbox) + 1 /\ Current \in 1 .. Len(log)
<1>1. inbox \in Seq(Nat) /\ log \in Seq(Entry)
  BY DEF RuntimeInv, Types
<1>2. Len(inbox) \in Nat /\ Len(inbox) > 0 /\ Head(inbox) = inbox[1] /\ Len(log) \in Nat
  BY <1>1
<1>3. cursor \in 0 .. Len(log)
  BY DEF RuntimeInv, InboxInv, Types
<1>4. inbox[1] = cursor - Len(inbox) + 1 /\ Len(inbox) <= cursor
  BY <1>2 DEF RuntimeInv, InboxInv
<1> QED BY <1>2, <1>3, <1>4 DEF Current

(* The log grows: what it determined so far stays as it was. *)
LEMMA SubmitKeeps ==
  ASSUME RuntimeInv, NEW entry \in Entry, Submit(entry)
  PROVE  RuntimeInv'
<1>1. /\ log' = Append(log, entry)
      /\ UNCHANGED <<trimmed, cursor, pel, events, disk, pc, engine, inbox, last_id, batch, at>>
  BY DEF Submit, outputs, process
<1>2. log \in Seq(Entry) /\ Len(log) \in Nat /\ at \in 0 .. Len(log)
  BY DEF RuntimeInv, Types
<1>3. /\ log' \in Seq(Entry) /\ Len(log') = Len(log) + 1
      /\ \A id \in 1 .. Len(log) : log'[id] = log[id]
  BY <1>1, <1>2, AppendProperties
<1>4. \A k \in 0 .. Len(log) : Det(log', k) = Det(log, k)
  BY <1>2, <1>3, DetGrows
<1>5. \A id \in 1 .. Len(log) : (Decodes(id)' <=> Decodes(id)) /\ BatchOf(id)' = BatchOf(id)
  <2> TAKE id \in 1 .. Len(log)
  <2>1. id - 1 \in 0 .. Len(log)
    BY <1>2
  <2> QED BY <1>3, <1>4, <2>1 DEF Decodes, BatchOf
<1>6. Types'
  BY <1>1, <1>2, <1>3 DEF RuntimeInv, Types
<1>7. SnapshotInv' /\ InboxInv'
  BY <1>1, <1>2, <1>4, NoneAssumption DEF RuntimeInv, Types, SnapshotInv, InboxInv
<1>8. PositionInv'
  <2>1. (Up => engine = Det(log, at))'
    BY <1>1, <1>2, <1>4 DEF RuntimeInv, PositionInv, Up
  <2>2. \A id \in 1 .. at : Decodes(id)' <=> Decodes(id)
    BY <1>2, <1>5
  <2>3. (Busy => Decodes(at))'
    <3>1. Busy => at \in 1 .. Len(log) /\ Decodes(at)
      BY CurrentIs DEF RuntimeInv, PositionInv, Current
    <3> QED BY <1>1, <1>3, <3>1 DEF Busy, Decodes
  <2>4. ASSUME pc = "idle", NEW id \in 1 .. Len(log'), Decodes(id)'
        PROVE  id <= at <=> id <= cursor - Len(inbox)
    <3>1. cursor \in 0 .. Len(log) /\ Len(inbox) \in Nat
      BY <2>4 DEF RuntimeInv, Types, InboxInv
    <3>2. CASE id \in 1 .. Len(log)
      BY <1>5, <2>4, <3>2 DEF RuntimeInv, PositionInv
    <3>3. CASE id = Len(log) + 1
      BY <1>2, <3>1, <3>3
    <3> QED BY <1>2, <1>3, <3>2, <3>3
  <2> QED BY <1>1, <2>1, <2>2, <2>3, <2>4 DEF RuntimeInv, PositionInv, Up, Busy
<1>9. EmittedInv'
  <2>1. Busy => at \in 1 .. Len(log)
    BY CurrentIs DEF RuntimeInv, PositionInv, Current
  <2> QED BY <1>1, <1>2, <1>3, <1>5, <2>1 DEF RuntimeInv, EmittedInv, Up, Busy
<1> QED BY <1>6, <1>7, <1>8, <1>9 DEF RuntimeInv

(* A crash leaves the stream, the events and the snapshot as they are. *)
LEMMA CrashKeeps ==
  ASSUME RuntimeInv, Crash
  PROVE  RuntimeInv'
<1>1. /\ pc' = "down" /\ inbox' = << >> /\ at' = 0
      /\ UNCHANGED <<log, trimmed, cursor, events, disk>>
  BY DEF Crash, stream, outputs
<1>2. Len(log) \in Nat
  BY DEF RuntimeInv, Types
<1>3. Types'
  BY <1>1, <1>2 DEF RuntimeInv, Types
<1>4. SnapshotInv' /\ InboxInv' /\ PositionInv'
  BY <1>1 DEF RuntimeInv, SnapshotInv, InboxInv, PositionInv, Up, Busy
<1>5. EmittedInv'
  BY <1>1 DEF RuntimeInv, EmittedInv, Up, Busy, BatchOf, Decodes
<1> QED BY <1>3, <1>4, <1>5 DEF RuntimeInv

(* A group is created at the end of the log, or is there already. *)
LEMMA CreateGroupKeeps ==
  ASSUME RuntimeInv, CreateGroup
  PROVE  RuntimeInv'
<1>1. /\ pc = "down" /\ pc' = "created" /\ inbox' = inbox /\ at' = at
      /\ cursor' = IF cursor = None THEN Len(log) ELSE cursor
      /\ UNCHANGED <<log, trimmed, events, disk>>
  BY DEF CreateGroup, outputs
<1>2. Len(log) \in Nat /\ cursor' \in 0 .. Len(log) /\ cursor' # None /\ inbox = << >>
  BY <1>1, NoneAssumption DEF RuntimeInv, Types, InboxInv
<1>3. Types'
  BY <1>1, <1>2 DEF RuntimeInv, Types
<1>4. SnapshotInv'
  BY <1>1, <1>2 DEF RuntimeInv, SnapshotInv
<1>5. InboxInv' /\ PositionInv'
  BY <1>1, <1>2 DEF RuntimeInv, InboxInv, PositionInv, Up, Busy
<1>6. EmittedInv'
  BY <1>1 DEF RuntimeInv, EmittedInv, Up, Busy, BatchOf, Decodes
<1> QED BY <1>3, <1>4, <1>5, <1>6 DEF RuntimeInv

(* Recovery: the snapshot is the log up to its last_id, nothing after it is *)
(* gone, and so the replay ends where the log does.                         *)
LEMMA RecoverKeeps ==
  ASSUME RuntimeInv, ~SnapshotLoss, Recover
  PROVE  RuntimeInv'
<1> DEFINE snap == IF disk # None THEN disk ELSE [last_id |-> 0, state |-> Engine0]
           from == snap.last_id
           replayed == {id \in from + 1 .. Len(log) : id > trimmed /\ Decodes(id)}
<1>1. /\ pc = "created" /\ pc' = "replayed" /\ at' = Len(log) /\ inbox' = inbox
      /\ UNCHANGED <<log, trimmed, cursor, events, disk>>
  BY DEF Recover, stream, outputs
<1>2. /\ engine' = Replay(snap.state, from, Len(log))
      /\ last_id' = IF replayed = {} THEN None ELSE Max(replayed)
  BY DEF Recover
<1>3. log \in Seq(Entry) /\ Len(log) \in Nat /\ trimmed \in Nat /\ cursor \in 0 .. Len(log)
      /\ inbox = << >>
  BY <1>1 DEF RuntimeInv, Types, InboxInv
<1>4. /\ from \in 0 .. Len(log) /\ trimmed <= from /\ (from <= cursor \/ disk = None)
      /\ from \in Nat /\ from <= Len(log) /\ trimmed <= from
      /\ snap.state = Det(log, from)
      /\ disk # None => from = disk.last_id
      /\ disk = None => from = 0
  <2>1. CASE disk = None
    BY <1>3, <2>1, DetSteps DEF RuntimeInv, SnapshotInv
  <2>2. CASE disk # None
    <3>1. disk.last_id \in Nat
      BY <2>2 DEF RuntimeInv, Types
    <3> QED BY <1>3, <2>2, <3>1 DEF RuntimeInv, SnapshotInv
  <2> QED BY <2>1, <2>2
<1> HIDE DEF snap, from
<1>5. engine' = Det(log, Len(log))
  BY <1>2, <1>3, <1>4, ReplayDetermined
<1>6. IF last_id' = None THEN \A id \in 1 .. Len(log) : Decodes(id) => id <= from
      ELSE /\ last_id' \in from + 1 .. Len(log)
           /\ \A id \in 1 .. Len(log) : Decodes(id) => id <= last_id'
  <2>1. replayed \in SUBSET Nat /\ \A id \in replayed : id <= Len(log)
    BY <1>3, <1>4
  <2>2. \A id \in 1 .. Len(log) : Decodes(id) => id <= from \/ id \in replayed
    BY <1>3, <1>4
  <2>3. CASE replayed = {}
    BY <1>2, <2>2, <2>3
  <2>4. CASE replayed # {}
    <3>1. PICK m \in replayed : \A id \in replayed : id <= m
      <4> HIDE DEF replayed
      <4> QED BY <1>3, <2>1, <2>4, GreatestNat
    <3>2. Max(replayed) \in replayed /\ \A id \in replayed : id <= Max(replayed)
      <4> HIDE DEF replayed
      <4>1. \A id \in replayed : m >= id
        BY <2>1, <3>1
      <4>2. Max(replayed) \in replayed /\ \A id \in replayed : Max(replayed) >= id
        BY <3>1, <4>1, Zenon DEF Max
      <4> QED BY <2>1, <4>2
    <3> DEFINE mx == Max(replayed)
    <3>3. last_id' = mx /\ mx \in replayed /\ \A id \in replayed : id <= mx
      BY <1>2, <2>4, <3>2
    <3> HIDE DEF mx
    <3>4. mx \in from + 1 .. Len(log) /\ mx \in Nat
      BY <1>4, <3>3
    <3>5. \A id \in 1 .. Len(log) : Decodes(id) => id <= mx
      BY <1>3, <1>4, <2>2, <3>3, <3>4
    <3>6. mx # None
      BY <3>4, NoneAssumption
    <3> QED BY <3>3, <3>4, <3>5, <3>6
  <2> QED BY <2>3, <2>4
<1>7. Types'
  BY <1>1, <1>3 DEF RuntimeInv, Types
<1>8. SnapshotInv' /\ InboxInv'
  BY <1>1 DEF RuntimeInv, SnapshotInv, InboxInv
<1>9. PositionInv'
  <2>1. ASSUME last_id' = None, NEW id \in 1 .. Len(log), Decodes(id) PROVE id <= cursor
    BY <1>3, <1>4, <1>6, <2>1
  <2>2. ASSUME last_id' # None
        PROVE  last_id' \in 1 .. Len(log) /\ (disk # None => disk.last_id <= last_id')
    BY <1>3, <1>4, <1>6, <2>2
  <2>3. \A id : Decodes(id)' <=> Decodes(id)
    BY <1>1 DEF Decodes
  <2> QED BY <1>1, <1>3, <1>5, <1>6, <2>1, <2>2, <2>3 DEF PositionInv, Up, Busy
<1>10. EmittedInv'
  BY <1>1, <1>3 DEF RuntimeInv, EmittedInv, Up, Busy, BatchOf, Decodes
<1> QED BY <1>7, <1>8, <1>9, <1>10 DEF RuntimeInv

(* The cursor is aligned with what was replayed. *)
LEMMA AlignCursorKeeps ==
  ASSUME RuntimeInv, ~SetIdFails, AlignCursor
  PROVE  RuntimeInv'
<1>1. /\ pc = "replayed" /\ pc' = "idle"
      /\ cursor' = IF last_id # None THEN last_id ELSE cursor
      /\ UNCHANGED <<log, trimmed, events, disk, engine, inbox, at>>
  BY DEF AlignCursor, outputs
<1>2. /\ Len(log) \in Nat /\ cursor \in 0 .. Len(log) /\ inbox = << >> /\ Len(inbox) = 0
      /\ at \in 0 .. Len(log)
  BY <1>1 DEF RuntimeInv, Types, InboxInv
<1>3. cursor' \in 0 .. Len(log) /\ cursor' <= at
      /\ \A id \in 1 .. at : Decodes(id) => id <= cursor'
  BY <1>1, <1>2 DEF RuntimeInv, PositionInv
<1>4. cursor' # None
  BY <1>2, <1>3, NoneAssumption
<1>5. Types'
  BY <1>1, <1>3 DEF RuntimeInv, Types
<1>6. SnapshotInv'
  BY <1>1, <1>2, <1>4 DEF RuntimeInv, SnapshotInv, PositionInv
<1>7. InboxInv'
  BY <1>1, <1>2, <1>4 DEF InboxInv
<1>8. PositionInv'
  <2>1. ASSUME NEW id \in 1 .. Len(log), Decodes(id)
        PROVE  id <= at <=> id <= cursor' - Len(inbox)
    <3>1. cursor' \in Nat /\ at \in Nat /\ id \in Nat
      BY <1>2, <1>3
    <3>5. cursor' - Len(inbox) = cursor'
      <4>1. Len(inbox) = 0
        BY <1>2
      <4>2. \A k \in Nat : k - 0 = k
        OBVIOUS
      <4> QED BY <3>1, <4>1, <4>2, Zenon
    <3>2. id <= at => id \in 1 .. at
      BY <3>1
    <3>3. id <= at => id <= cursor'
      BY <1>3, <2>1, <3>2
    <3>4. id <= cursor' => id <= at
      BY <1>3, <3>1
    <3> QED BY <3>3, <3>4, <3>5
  <2>2. \A id : Decodes(id)' <=> Decodes(id)
    BY <1>1 DEF Decodes
  <2>3. disk # None => disk.last_id <= cursor' - Len(inbox)
    <3>1. \A k \in Nat : k - 0 = k
      OBVIOUS
    <3>2. cursor' - Len(inbox) = cursor'
      <4>1. cursor' \in Nat
        BY <1>2, <1>3
      <4> QED BY <1>2, <3>1, <4>1, Zenon
    <3> QED BY <1>6, <3>2, <1>1 DEF SnapshotInv
  <2> QED BY <1>1, <2>1, <2>2, <2>3 DEF RuntimeInv, PositionInv, Up, Busy
<1>9. EmittedInv'
  BY <1>1 DEF RuntimeInv, EmittedInv, Up, Busy, BatchOf, Decodes
<1> QED BY <1>5, <1>6, <1>7, <1>8, <1>9 DEF RuntimeInv

(* The smaller and the larger of two naturals. *)
LEMMA TwoNats ==
  ASSUME NEW a \in Nat, NEW b \in Nat
  PROVE  /\ Min({a, b}) = IF a <= b THEN a ELSE b
         /\ Max({a, b}) = IF a >= b THEN a ELSE b
  BY DEF Min, Max

(* A read takes the entries after the cursor, and the cursor with it. *)
LEMMA ReadKeeps ==
  ASSUME RuntimeInv, Read
  PROVE  RuntimeInv'
<1> DEFINE to == Min({Len(log), cursor + ReadCount})
           n  == to - cursor
<1>1. /\ pc = "idle" /\ inbox = << >> /\ to > cursor
      /\ inbox' = [i \in 1 .. n |-> cursor + i] /\ cursor' = to
      /\ UNCHANGED <<log, trimmed, events, disk, pc, engine, last_id, batch, at>>
  BY DEF Read, outputs
<1>2. Len(log) \in Nat /\ cursor \in 0 .. Len(log) /\ cursor # None /\ Len(inbox) = 0
  BY <1>1 DEF RuntimeInv, Types, InboxInv
<1>3. to \in 0 .. Len(log)
  BY <1>1, <1>2, TwoNats, ReadCountAssumption
<1> HIDE DEF to
<1>4. n \in Nat /\ n <= to /\ cursor + n = to
  BY <1>1, <1>2, <1>3
<1> HIDE DEF n
<1>5. /\ inbox' \in Seq(Nat) /\ Len(inbox') = n
      /\ \A i \in 1 .. n : inbox'[i] = cursor + i
  BY <1>1, <1>2, <1>4
<1>6. to # None
  BY <1>3, NoneAssumption
<1>7. Types'
  BY <1>1, <1>3, <1>5 DEF RuntimeInv, Types
<1>8. SnapshotInv'
  BY <1>1, <1>2, <1>3, <1>6 DEF RuntimeInv, SnapshotInv, Types
<1>9. InboxInv'
  BY <1>1, <1>2, <1>3, <1>4, <1>5, <1>6 DEF InboxInv
<1>10. PositionInv'
  <2>1. cursor' - Len(inbox') = cursor - Len(inbox)
    BY <1>1, <1>2, <1>3, <1>4, <1>5
  <2>2. \A id : Decodes(id)' <=> Decodes(id)
    BY <1>1 DEF Decodes
  <2> QED BY <1>1, <2>1, <2>2 DEF RuntimeInv, PositionInv, Up, Busy
<1>11. EmittedInv'
  BY <1>1 DEF RuntimeInv, EmittedInv, Up, Busy, BatchOf, Decodes
<1> QED BY <1>7, <1>8, <1>9, <1>10, <1>11 DEF RuntimeInv

(* The entries left after the first. *)
LEMMA InboxTail ==
  ASSUME RuntimeInv, inbox # << >>, cursor' = cursor, inbox' = Tail(inbox)
  PROVE  /\ inbox' \in Seq(Nat) /\ Len(inbox') = Len(inbox) - 1 /\ Len(inbox) \in Nat
         /\ \A i \in 1 .. Len(inbox') : inbox'[i] = cursor' - Len(inbox') + i
         /\ inbox' # << >> => Len(inbox') <= cursor'
         /\ cursor - Len(inbox') = Current
<1>1. inbox \in Seq(Nat)
  BY DEF RuntimeInv, Types
<1>2. /\ Tail(inbox) \in Seq(Nat) /\ Len(Tail(inbox)) = Len(inbox) - 1
      /\ \A i \in 1 .. Len(inbox) - 1 : Tail(inbox)[i] = inbox[i + 1]
  BY <1>1
<1>3. Len(inbox) \in 1 .. cursor /\ cursor \in Nat /\ Current = cursor - Len(inbox) + 1
  BY CurrentIs
<1>4. ASSUME NEW i \in 1 .. Len(inbox) - 1
      PROVE  Tail(inbox)[i] = cursor - (Len(inbox) - 1) + i
  <2>1. i + 1 \in 1 .. Len(inbox)
    BY <1>3
  <2>2. inbox[i + 1] = cursor - Len(inbox) + (i + 1)
    BY <2>1 DEF RuntimeInv, InboxInv
  <2> QED BY <1>2, <1>3, <2>2
<1> QED BY <1>2, <1>3, <1>4

(* The entries handled are the decodable ones before the first in hand. *)
LEMMA HandNext ==
  ASSUME RuntimeInv, pc = "idle", inbox # << >>
  PROVE  \A id \in 1 .. Len(log) : Decodes(id) => (id <= at <=> id < Current)
<1>1. cursor - Len(inbox) \in Int /\ Current = (cursor - Len(inbox)) + 1
  BY CurrentIs
<1>2. \A id \in 1 .. Len(log) : Decodes(id) => (id <= at <=> id <= cursor - Len(inbox))
  BY DEF RuntimeInv, PositionInv
<1>3. \A id \in 1 .. Len(log) : id <= cursor - Len(inbox) <=> id < Current
  BY <1>1
<1> QED BY <1>2, <1>3

(* A skipped entry determines nothing. *)
LEMMA SkipGarbageKeeps ==
  ASSUME RuntimeInv, SkipGarbage
  PROVE  RuntimeInv'
<1> DEFINE id0 == Current
<1>1. /\ pc = "idle" /\ inbox # << >> /\ ~Decodes(id0)
      /\ inbox' = Tail(inbox) /\ at' = Max({at, id0})
      /\ UNCHANGED <<log, trimmed, cursor, events, disk, pc, engine, last_id, batch>>
  BY DEF SkipGarbage, outputs
<1>2. /\ cursor \in 1 .. Len(log) /\ Len(log) \in Nat /\ Len(inbox) \in 1 .. cursor
      /\ id0 = cursor - Len(inbox) + 1 /\ id0 \in 1 .. Len(log) /\ cursor # None
  BY <1>1, CurrentIs DEF RuntimeInv, InboxInv
<1>3. /\ inbox' \in Seq(Nat) /\ Len(inbox') = Len(inbox) - 1
      /\ \A i \in 1 .. Len(inbox') : inbox'[i] = cursor' - Len(inbox') + i
      /\ inbox' # << >> => Len(inbox') <= cursor'
      /\ cursor - Len(inbox') = id0
  BY <1>1, InboxTail
<1> HIDE DEF id0
<1>4. at \in 0 .. Len(log) /\ at' = (IF at >= id0 THEN at ELSE id0) /\ at' \in 0 .. Len(log)
  <2>1. at \in 0 .. Len(log)
    BY DEF RuntimeInv, Types
  <2>2. at \in Nat /\ id0 \in Nat
    BY <1>2, <2>1
  <2>3. Max({at, id0}) = IF at >= id0 THEN at ELSE id0
    BY <2>2, TwoNats
  <2> QED BY <1>1, <1>2, <2>1, <2>3
<1>5. \A id \in 1 .. Len(log) : Decodes(id) => (id <= at <=> id < id0)
  BY <1>1, <1>2, HandNext DEF id0
<1>6. Det(log, at') = Det(log, at)
  <2>1. CASE at >= id0
    BY <1>4, <2>1
  <2>2. CASE ~(at >= id0)
    <3>1. \A id \in at + 1 .. id0 : log[id] \notin Payload
      BY <1>1, <1>2, <1>4, <1>5 DEF Decodes
    <3>2. log \in Seq(Entry) /\ at \in Nat /\ id0 \in Nat /\ at <= id0
      BY <1>2, <1>4, <2>2 DEF RuntimeInv, Types
    <3> QED BY <1>4, <2>2, <3>1, <3>2, DetSkips
  <2> QED BY <2>1, <2>2
<1>7. Types'
  BY <1>1, <1>3, <1>4 DEF RuntimeInv, Types
<1>8. SnapshotInv' /\ InboxInv'
  BY <1>1, <1>2, <1>3 DEF RuntimeInv, SnapshotInv, InboxInv
<1>9. PositionInv'
  <2>1. ASSUME NEW id \in 1 .. Len(log), Decodes(id)
        PROVE  id <= at' <=> id <= id0
    BY <1>1, <1>2, <1>4, <1>5, <2>1
  <2>2. \A id : Decodes(id)' <=> Decodes(id)
    BY <1>1 DEF Decodes
  <2>3. engine' = Det(log', at')
    BY <1>1, <1>6 DEF RuntimeInv, PositionInv, Up
  <2>4. disk # None => disk.last_id <= id0
    <3>1. disk # None => disk.last_id \in Nat /\ disk.last_id <= cursor - Len(inbox)
      BY <1>1 DEF RuntimeInv, PositionInv, Types
    <3> QED BY <1>2, <3>1
  <2> QED BY <1>1, <1>3, <2>1, <2>2, <2>3, <2>4 DEF PositionInv, Up, Busy
<1>10. EmittedInv'
  <2>1. \A i \in 1 .. Len(events) : events[i].id <= at'
    BY <1>1, <1>4 DEF RuntimeInv, EmittedInv, Up
  <2> QED BY <1>1, <2>1 DEF RuntimeInv, EmittedInv, Up, Busy, BatchOf, Decodes
<1> QED BY <1>7, <1>8, <1>9, <1>10 DEF RuntimeInv

(* A command is applied to what the log determines before it, once. *)
LEMMA ApplyCommandKeeps ==
  ASSUME RuntimeInv, ApplyCommand
  PROVE  RuntimeInv'
<1> DEFINE id0 == Current
<1>1. /\ pc = "idle" /\ inbox # << >> /\ Decodes(id0) /\ pc' = "applied"
      /\ engine' = Apply(engine, log[id0]).engine /\ batch' = Apply(engine, log[id0]).batch
      /\ at' = Max({at, id0})
      /\ UNCHANGED <<log, trimmed, cursor, events, disk, inbox>>
  BY DEF ApplyCommand, stream, outputs
<1>2. Len(log) \in Nat /\ id0 \in 1 .. Len(log) /\ id0 = Head(inbox) /\ log \in Seq(Entry)
  BY <1>1, CurrentIs DEF Current, RuntimeInv, Types
<1>11. disk # None => disk.last_id <= id0
  <2>1. disk # None => disk.last_id \in Nat /\ disk.last_id <= cursor - Len(inbox)
    BY <1>1 DEF RuntimeInv, PositionInv, Types
  <2>2. cursor - Len(inbox) \in Int /\ id0 = (cursor - Len(inbox)) + 1
    BY <1>1, CurrentIs
  <2> HIDE DEF id0
  <2> QED BY <2>1, <2>2
<1>3. \A id \in 1 .. Len(log) : Decodes(id) => (id <= at <=> id < id0)
  BY <1>1, HandNext
<1> HIDE DEF id0
<1>4. at \in Nat /\ at < id0 /\ at' = id0
  <2>1. at \in 0 .. Len(log)
    BY DEF RuntimeInv, Types
  <2>2. at \in Nat /\ id0 \in Nat
    BY <1>2, <2>1
  <2>3. Max({at, id0}) = IF at >= id0 THEN at ELSE id0
    BY <2>2, TwoNats
  <2> QED BY <1>1, <1>2, <1>3, <2>2, <2>3
<1>5. engine = Det(log, id0 - 1)
  <2>1. id0 - 1 \in Nat /\ at <= id0 - 1
    BY <1>2, <1>4
  <2>2. \A id \in at + 1 .. id0 - 1 : log[id] \notin Payload
    BY <1>2, <1>3, <1>4 DEF Decodes
  <2>3. Det(log, id0 - 1) = Det(log, at)
    BY <1>2, <1>4, <2>1, <2>2, DetSkips
  <2> QED BY <1>1, <2>3 DEF RuntimeInv, PositionInv, Up
<1>6. engine' = Det(log, id0)
  <2>1. id0 - 1 \in Nat /\ (id0 - 1) + 1 = id0
    BY <1>2
  <2>2. Det(log, (id0 - 1) + 1) = IF log[(id0 - 1) + 1] \in Payload
                                  THEN Apply(Det(log, id0 - 1), log[(id0 - 1) + 1]).engine
                                  ELSE Det(log, id0 - 1)
    BY <1>2, <2>1, DetSteps
  <2> QED BY <1>1, <1>5, <2>1, <2>2 DEF Decodes
<1>7. Types'
  <2>1. id0 \in 0 .. Len(log)
    BY <1>2
  <2>2. at' \in 0 .. Len(log')
    BY <1>1, <1>4, <2>1, Zenon
  <2> QED BY <1>1, <2>2 DEF RuntimeInv, Types
<1>8. SnapshotInv' /\ InboxInv'
  BY <1>1 DEF RuntimeInv, SnapshotInv, InboxInv
<1>9. PositionInv'
  BY <1>1, <1>2, <1>4, <1>6, <1>11 DEF PositionInv, Up, Busy, Decodes
<1>10. EmittedInv'
  <2>1. \A i \in 1 .. Len(events) : events[i].id < id0 /\ events[i].id <= id0
    <3> TAKE i \in 1 .. Len(events)
    <3>1. events[i].id \in 1 .. Len(log) /\ events[i].id <= at
      BY <1>1 DEF RuntimeInv, EmittedInv, Up
    <3> QED BY <1>2, <1>4, <3>1
  <2>2. batch' = BatchOf(id0)
    BY <1>1, <1>5 DEF BatchOf
  <2> QED BY <1>1, <1>4, <2>1, <2>2 DEF RuntimeInv, EmittedInv, Up, Busy, BatchOf, Decodes
<1> QED BY <1>7, <1>8, <1>9, <1>10 DEF RuntimeInv

(* The batch goes out after every one of an earlier command. *)
LEMMA EmitKeeps ==
  ASSUME RuntimeInv, Emit
  PROVE  RuntimeInv' /\ (BatchOf(Current) # None => \E i \in 1 .. Len(events') : events'[i].id = Current)
<1>1. /\ pc = "applied" /\ pc' = "emitted"
      /\ events' = IF batch = None THEN events
                   ELSE Append(events, [id |-> Current, batch |-> batch])
      /\ UNCHANGED <<log, trimmed, cursor, disk, engine, inbox, at>>
  BY DEF Emit, stream
<1>2. inbox # << >> /\ at = Current /\ Decodes(at) /\ batch = BatchOf(at)
  BY <1>1 DEF RuntimeInv, PositionInv, EmittedInv, Busy, Current
<1>3. at \in 1 .. Len(log) /\ Len(log) \in Nat /\ log \in Seq(Entry)
  BY <1>2, CurrentIs DEF RuntimeInv, Types
<1>4. batch \in BatchValue
  <2>1. at - 1 \in Nat
    BY <1>3
  <2>2. Det(log, at - 1) \in EngineState
    BY <1>3, <2>1, DetSteps
  <2> QED BY <1>2, <2>2 DEF BatchOf, BatchValue, Decodes
<1>5. events \in Seq([id : Nat \ {0}, batch : BatchValue]) /\ Len(events) \in Nat
  BY DEF RuntimeInv, Types
<1>6. /\ \A i, j \in 1 .. Len(events) : i < j => events[i].id < events[j].id
      /\ \A i \in 1 .. Len(events) :
           /\ events[i].id \in 1 .. Len(log) /\ Decodes(events[i].id)
           /\ events[i].batch = BatchOf(events[i].id)
           /\ events[i].id < at /\ events[i].id <= at
  BY <1>1 DEF RuntimeInv, EmittedInv, Up
<1>7. SnapshotInv' /\ InboxInv' /\ PositionInv'
  BY <1>1, <1>2 DEF RuntimeInv, SnapshotInv, InboxInv, PositionInv, Up, Busy, Current, Decodes
<1>8. /\ events' \in Seq([id : Nat \ {0}, batch : BatchValue])
      /\ \A i, j \in 1 .. Len(events') : i < j => events'[i].id < events'[j].id
      /\ \A i \in 1 .. Len(events') :
           /\ events'[i].id \in 1 .. Len(log) /\ Decodes(events'[i].id)
           /\ events'[i].batch = BatchOf(events'[i].id)
           /\ events'[i].id <= at
      /\ BatchOf(at) # None => \E i \in 1 .. Len(events') : events'[i].id = at
  <2>1. CASE batch = None
    BY <1>1, <1>2, <1>5, <1>6, <2>1
  <2>2. CASE batch # None
    <3> DEFINE new == [id |-> at, batch |-> batch]
    <3>1. new \in [id : Nat \ {0}, batch : BatchValue] /\ new.id = at /\ new.batch = BatchOf(at)
      BY <1>2, <1>3, <1>4
    <3>2. events' = Append(events, new)
      BY <1>1, <1>2, <2>2
    <3> HIDE DEF new
    <3>3. /\ events' \in Seq([id : Nat \ {0}, batch : BatchValue])
          /\ Len(events') = Len(events) + 1 /\ events'[Len(events) + 1] = new
          /\ \A i \in 1 .. Len(events) : events'[i] = events[i]
      BY <1>5, <3>1, <3>2, AppendProperties
    <3>4. \A i \in 1 .. Len(events') : i \in 1 .. Len(events) \/ i = Len(events) + 1
      BY <1>5, <3>3
    <3>5. ASSUME NEW i \in 1 .. Len(events'), NEW j \in 1 .. Len(events'), i < j
          PROVE  events'[i].id < events'[j].id
      <4>1. i \in 1 .. Len(events)
        BY <1>5, <3>3, <3>5
      <4> QED BY <1>6, <3>1, <3>3, <3>4, <3>5, <4>1
    <3>6. ASSUME NEW i \in 1 .. Len(events')
          PROVE  /\ events'[i].id \in 1 .. Len(log) /\ Decodes(events'[i].id)
                 /\ events'[i].batch = BatchOf(events'[i].id)
                 /\ events'[i].id <= at
      BY <1>2, <1>3, <1>6, <3>1, <3>3, <3>4
    <3>7. Len(events) + 1 \in 1 .. Len(events') /\ events'[Len(events) + 1].id = at
      BY <1>5, <3>1, <3>3
    <3> QED BY <3>3, <3>5, <3>6, <3>7
  <2> QED BY <2>1, <2>2
<1>9. Types'
  BY <1>1, <1>8 DEF RuntimeInv, Types
<1>10. EmittedInv'
  <2>1. /\ \A id : Decodes(id)' <=> Decodes(id)
        /\ \A id : BatchOf(id)' = BatchOf(id)
    BY <1>1 DEF Decodes, BatchOf
  <2> QED BY <1>1, <1>8, <2>1 DEF EmittedInv, Up, Busy
<1> QED BY <1>2, <1>7, <1>8, <1>9, <1>10 DEF RuntimeInv

(* Answering changes nothing that recovery depends on. *)
LEMMA PublishKeeps ==
  ASSUME RuntimeInv, NEW sent \in BOOLEAN, Publish(sent)
  PROVE  RuntimeInv'
<1>1. /\ pc = "emitted" /\ pc' = "published"
      /\ UNCHANGED <<log, trimmed, cursor, events, disk, engine, inbox, at>>
  BY DEF Publish, stream
<1>2. Types' /\ SnapshotInv' /\ InboxInv'
  BY <1>1 DEF RuntimeInv, Types, SnapshotInv, InboxInv
<1>3. PositionInv' /\ EmittedInv'
  BY <1>1 DEF RuntimeInv, PositionInv, EmittedInv, Up, Busy, Decodes, BatchOf
<1> QED BY <1>2, <1>3 DEF RuntimeInv

(* An entry is finished: the next one to be handled follows it. *)
LEMMA FinishKeeps ==
  ASSUME RuntimeInv, Busy, pc # "applied", pc' = "idle", inbox' = Tail(inbox),
         UNCHANGED <<log, cursor, events, disk, engine, at>>,
         trimmed' \in Nat, SnapshotInv'
  PROVE  RuntimeInv'
<1>1. inbox # << >> /\ at = Current /\ cursor # None /\ pc # "idle"
  BY DEF RuntimeInv, PositionInv, InboxInv, Busy, Current
<1>2. /\ inbox' \in Seq(Nat) /\ cursor - Len(inbox') = at
      /\ \A i \in 1 .. Len(inbox') : inbox'[i] = cursor' - Len(inbox') + i
      /\ inbox' # << >> => Len(inbox') <= cursor'
  BY <1>1, InboxTail
<1>3. Types'
  BY <1>2 DEF RuntimeInv, Types
<1>4. InboxInv'
  BY <1>1, <1>2 DEF InboxInv
<1>5. PositionInv'
  BY <1>2 DEF RuntimeInv, PositionInv, Up, Busy, Decodes
<1>6. EmittedInv'
  BY DEF RuntimeInv, EmittedInv, Up, Busy, Decodes, BatchOf
<1> QED BY <1>3, <1>4, <1>5, <1>6 DEF RuntimeInv

(* After the acknowledgement the entry is finished, or a snapshot is due. *)
LEMMA AckKeeps ==
  ASSUME RuntimeInv, Ack
  PROVE  RuntimeInv'
<1>1. /\ pc = "published" /\ UNCHANGED <<log, trimmed, cursor, events, disk, engine, at>>
      /\ \/ pc' = "acked" /\ inbox' = inbox
         \/ pc' = "idle" /\ inbox' = Tail(inbox)
  BY DEF Ack, outputs
<1>2. CASE pc' = "acked" /\ inbox' = inbox
  <2>1. Types' /\ SnapshotInv' /\ InboxInv'
    BY <1>1, <1>2 DEF RuntimeInv, Types, SnapshotInv, InboxInv
  <2>2. PositionInv' /\ EmittedInv'
    BY <1>1, <1>2 DEF RuntimeInv, PositionInv, EmittedInv, Up, Busy, Decodes, BatchOf
  <2> QED BY <2>1, <2>2 DEF RuntimeInv
<1>3. CASE pc' = "idle" /\ inbox' = Tail(inbox)
  <2>1. SnapshotInv' /\ trimmed' \in Nat
    BY <1>1 DEF RuntimeInv, SnapshotInv, Types
  <2> QED BY <1>1, <1>3, <2>1, FinishKeeps DEF Busy
<1> QED BY <1>1, <1>2, <1>3

(* A snapshot is the engine as of the entry it names, and lies after the   *)
(* one it replaces.                                                        *)
LEMMA SaveSnapshotKeeps ==
  ASSUME RuntimeInv, SaveSnapshot
  PROVE  RuntimeInv'
<1>1. /\ pc = "acked" /\ pc' = "saved" /\ disk' = [last_id |-> Current, state |-> engine]
      /\ UNCHANGED <<log, trimmed, cursor, events, engine, inbox, at>>
  BY DEF SaveSnapshot, stream, outputs
<1>2. inbox # << >> /\ at = Current /\ cursor # None /\ engine = Det(log, at)
  BY <1>1 DEF RuntimeInv, PositionInv, InboxInv, Busy, Current, Up
<1>3. /\ at \in 1 .. Len(log) /\ Len(log) \in Nat /\ cursor \in 1 .. Len(log) /\ at <= cursor
      /\ log \in Seq(Entry)
  BY <1>2, CurrentIs DEF RuntimeInv, Types
<1>4. disk' \in [last_id : Nat, state : EngineState] /\ disk' # None
      /\ disk'.last_id = at /\ disk'.state = Det(log, at)
  <2>1. at \in Nat
    BY <1>3
  <2>2. engine \in EngineState
    BY <1>2, <1>3, <2>1, DetSteps
  <2>3. disk' \in [last_id : Nat, state : EngineState]
    BY <1>1, <1>2, <2>1, <2>2
  <2> QED BY <1>1, <1>2, <2>3, NoneAssumption
<1>5. trimmed < at
  <2>1. trimmed \in Nat
    BY DEF RuntimeInv, Types
  <2>2. CASE disk = None
    BY <1>3, <2>2 DEF RuntimeInv, SnapshotInv
  <2>3. CASE disk # None
    <3>1. trimmed < disk.last_id /\ disk.last_id \in Nat
      BY <2>3 DEF RuntimeInv, SnapshotInv, Types
    <3>2. disk.last_id <= at
      BY <1>1, <2>3 DEF RuntimeInv, PositionInv, Busy
    <3> QED BY <1>3, <2>1, <3>1, <3>2
  <2> QED BY <2>2, <2>3
<1>6. Types'
  BY <1>1, <1>4 DEF RuntimeInv, Types
<1>7. SnapshotInv' /\ InboxInv'
  BY <1>1, <1>2, <1>3, <1>4, <1>5 DEF RuntimeInv, SnapshotInv, InboxInv
<1>8. PositionInv' /\ EmittedInv'
  BY <1>1, <1>4 DEF RuntimeInv, PositionInv, EmittedInv, Up, Busy, Decodes, BatchOf
<1> QED BY <1>6, <1>7, <1>8 DEF RuntimeInv

(* Nothing is trimmed that the snapshot does not cover. *)
LEMMA TrimKeeps ==
  ASSUME RuntimeInv, Trim
  PROVE  RuntimeInv'
<1>1. PICK cut \in trimmed .. Current - 1 : trimmed' = cut
  BY DEF Trim
<1>2. /\ pc = "saved" /\ pc' = "idle" /\ inbox' = Tail(inbox)
      /\ UNCHANGED <<log, cursor, events, disk, engine, at>>
  BY DEF Trim, outputs
<1>3. /\ inbox # << >> /\ at = Current /\ disk # None /\ disk.last_id = at
      /\ trimmed \in Nat
  BY <1>2 DEF RuntimeInv, PositionInv, Types, Busy, Current
<1>4. Current \in Nat
  BY <1>3, CurrentIs
<1>5. trimmed' \in Nat /\ trimmed' < Current
  BY <1>1, <1>3, <1>4
<1>6. SnapshotInv'
  BY <1>2, <1>3, <1>5 DEF RuntimeInv, SnapshotInv
<1> QED BY <1>2, <1>5, <1>6, FinishKeeps DEF Busy

(* A failed save leaves the old snapshot, and nothing is trimmed. *)
LEMMA SaveFailedKeeps ==
  ASSUME RuntimeInv, SaveFailed
  PROVE  RuntimeInv'
<1>1. /\ pc = "acked" /\ pc' = "idle" /\ inbox' = Tail(inbox)
      /\ UNCHANGED <<log, trimmed, cursor, events, disk, engine, at>>
  BY DEF SaveFailed, stream, outputs
<1>2. trimmed' \in Nat /\ SnapshotInv'
  BY <1>1 DEF RuntimeInv, SnapshotInv, Types
<1> QED BY <1>1, <1>2, FinishKeeps DEF Busy

(* Every step of the process and of its environment keeps the invariant. *)
LEMMA InvStep ==
  ASSUME RuntimeInv, ~SnapshotLoss, ~SetIdFails, [Next]_vars
  PROVE  RuntimeInv'
<1>1. ASSUME NEW entry \in Payload \cup {Garbage}, Submit(entry) PROVE RuntimeInv'
  BY <1>1, SubmitKeeps DEF Entry
<1>2. CASE Crash
  BY <1>2, CrashKeeps
<1>3. CASE CreateGroup
  BY <1>3, CreateGroupKeeps
<1>4. CASE Recover
  BY <1>4, RecoverKeeps
<1>5. CASE AlignCursor
  BY <1>5, AlignCursorKeeps
<1>6. CASE Read
  BY <1>6, ReadKeeps
<1>7. CASE SkipGarbage
  BY <1>7, SkipGarbageKeeps
<1>8. CASE ApplyCommand
  BY <1>8, ApplyCommandKeeps
<1>9. CASE Emit
  BY <1>9, EmitKeeps
<1>10. ASSUME NEW sent \in BOOLEAN, Publish(sent) PROVE RuntimeInv'
  BY <1>10, PublishKeeps
<1>11. CASE Ack
  BY <1>11, AckKeeps
<1>12. CASE SaveSnapshot
  BY <1>12, SaveSnapshotKeeps
<1>13. CASE SaveFailed
  BY <1>13, SaveFailedKeeps
<1>14. CASE Trim
  BY <1>14, TrimKeeps
<1>15. CASE UNCHANGED vars
  BY <1>15 DEF vars, stream, outputs, process, RuntimeInv, Types, SnapshotInv, InboxInv,
               PositionInv, EmittedInv, Up, Busy, Decodes, BatchOf
<1> QED BY <1>1, <1>2, <1>3, <1>4, <1>5, <1>6, <1>7, <1>8, <1>9, <1>10, <1>11, <1>12,
           <1>13, <1>14, <1>15 DEF Next, EngineStep

-----------------------------------------------------------------------------
(* The theorems                                                            *)

(* What the properties call Determined is Det of the log. *)
LEMMA DeterminedIsDet == \A k : Determined(k) = Det(log, k)
  BY Zenon DEF Determined, Det, Decodes

(* Reliable: the snapshot file is found and XGROUP SETID succeeds. *)
Reliable == ~SnapshotLoss /\ ~SetIdFails

(* The inductive invariant holds in every reachable state. *)
THEOREM RuntimeInvariant == Reliable => (Spec => []RuntimeInv)
<1> SUFFICES ASSUME Reliable PROVE Spec => []RuntimeInv
  OBVIOUS
<1>1. Init => RuntimeInv
  BY InvInit
<1>2. RuntimeInv /\ [Next]_vars => RuntimeInv'
  BY InvStep DEF Reliable
<1> QED BY <1>1, <1>2, PTL DEF Spec

(* Whatever crashes, is redelivered, replayed or trimmed, the engine is the *)
(* state the log determines up to the last entry handled (run_engine and    *)
(* recover in runtime.rs).                                                  *)
THEOREM EngineIsFunctionOfLog == Reliable => (Spec => []EngineFollowsLog)
<1> SUFFICES ASSUME Reliable PROVE Spec => []EngineFollowsLog
  OBVIOUS
<1>1. RuntimeInv => EngineFollowsLog
  BY DeterminedIsDet DEF RuntimeInv, PositionInv, EngineFollowsLog
<1>2. Spec => []RuntimeInv
  BY RuntimeInvariant
<1> QED BY <1>1, <1>2, PTL

(* No decodable entry is passed over between the last one handled and the  *)
(* next one to be handled.                                                 *)
THEOREM NoCommandPassedOver == Reliable => (Spec => []NothingPassedOver)
<1> SUFFICES ASSUME Reliable PROVE Spec => []NothingPassedOver
  OBVIOUS
<1>1. RuntimeInv => NothingPassedOver
  <2> SUFFICES ASSUME RuntimeInv, pc = "idle"
               PROVE  LET next == IF inbox = << >> THEN cursor + 1 ELSE Current
                      IN  \A id \in 1 .. Len(log) : Decodes(id) => (id <= at <=> id < next)
    BY DEF NothingPassedOver
  <2>1. CASE inbox # << >>
    BY <2>1, HandNext
  <2>2. CASE inbox = << >>
    <3>1. cursor \in 0 .. Len(log) /\ Len(log) \in Nat /\ Len(inbox) = 0
      BY <2>2 DEF RuntimeInv, Types, InboxInv
    <3>2. \A id \in 1 .. Len(log) : Decodes(id) => (id <= at <=> id <= cursor - Len(inbox))
      BY DEF RuntimeInv, PositionInv
    <3>3. cursor - Len(inbox) = cursor
      <4>1. cursor \in Nat
        BY <3>1
      <4>2. \A k \in Nat : k - 0 = k
        OBVIOUS
      <4> QED BY <3>1, <4>1, <4>2, Zenon
    <3>4. \A id \in 1 .. Len(log) : id <= cursor <=> id < cursor + 1
      BY <3>1
    <3> QED BY <2>2, <3>2, <3>3, <3>4
  <2> QED BY <2>1, <2>2
<1>2. Spec => []RuntimeInv
  BY RuntimeInvariant
<1> QED BY <1>1, <1>2, PTL

(* The snapshot on disk is the state of the log up to its last_id, and     *)
(* covers everything XTRIM has dropped (snapshot.rs save, runtime.rs).     *)
THEOREM SnapshotSuffices == Reliable => (Spec => []SnapshotCoversTrim)
<1> SUFFICES ASSUME Reliable PROVE Spec => []SnapshotCoversTrim
  OBVIOUS
<1>1. RuntimeInv => SnapshotCoversTrim
  BY DeterminedIsDet DEF RuntimeInv, SnapshotInv, SnapshotCoversTrim
<1>2. Spec => []RuntimeInv
  BY RuntimeInvariant
<1> QED BY <1>1, <1>2, PTL

(* The events stream is in log order, without repetition, and every batch  *)
(* is the one the log determines for its command.                          *)
THEOREM EventsAreFunctionOfLog == Reliable => (Spec => []EventsFollowLog)
<1> SUFFICES ASSUME Reliable PROVE Spec => []EventsFollowLog
  OBVIOUS
<1>1. RuntimeInv => EventsFollowLog
  BY DeterminedIsDet DEF RuntimeInv, EmittedInv, EventsFollowLog, BatchOf
<1>2. Spec => []RuntimeInv
  BY RuntimeInvariant
<1> QED BY <1>1, <1>2, PTL

(* No entry is acknowledged or answered before its events are out. *)
THEOREM EmitsBeforeAcking == Reliable => (Spec => EmitBeforeAck)
<1> SUFFICES ASSUME Reliable PROVE Spec => EmitBeforeAck
  OBVIOUS
<1> DEFINE Left == (pel \ pel') \cup (replied' \ replied)
<1>1. ASSUME RuntimeInv, [Next]_vars
      PROVE  [\A id \in Left : Emits(id)' => Emitted(id)']_vars
  <2> SUFFICES ASSUME Next, NEW id \in Left, Emits(id)' PROVE Emitted(id)'
    BY <1>1
  <2>1. ASSUME pel' = pel, replied' = replied PROVE FALSE
    BY <2>1
  <2>2. CASE SkipGarbage
    BY <2>2 DEF SkipGarbage, outputs, Emits, Decodes
  <2>3. ASSUME pc \in {"emitted", "published"}, log' = log, events' = events, id = Current
        PROVE  Emitted(id)'
    <3>1. at = Current /\ (BatchOf(at) # None => \E i \in 1 .. Len(events) : events[i].id = at)
      BY <1>1, <2>3 DEF RuntimeInv, PositionInv, EmittedInv, Busy, Current
    <3>2. BatchOf(id) # None
      BY <2>3, DeterminedIsDet DEF Emits, BatchOf, Determined, Decodes
    <3> QED BY <2>3, <3>1, <3>2 DEF Emitted
  <2>4. ASSUME NEW sent \in BOOLEAN, Publish(sent) PROVE Emitted(id)'
    BY <2>3, <2>4 DEF Publish, stream
  <2>5. CASE Ack
    BY <2>3, <2>5 DEF Ack, outputs
  <2>6. CASE \/ \E entry \in Payload \cup {Garbage} : Submit(entry)
             \/ Crash \/ CreateGroup \/ Recover \/ AlignCursor \/ ApplyCommand \/ Emit
             \/ SaveSnapshot \/ SaveFailed \/ Trim
    BY <2>1, <2>6 DEF Submit, Crash, CreateGroup, Recover, AlignCursor, ApplyCommand, Emit,
                      SaveSnapshot, SaveFailed, Trim, stream, outputs
  <2>7. CASE Read
    BY <2>7 DEF Read, outputs
  <2> QED BY <2>2, <2>4, <2>5, <2>6, <2>7 DEF Next, EngineStep
<1>2. Spec => []RuntimeInv
  BY RuntimeInvariant
<1> QED BY <1>1, <1>2, PTL DEF Spec, EmitBeforeAck
=============================================================================
