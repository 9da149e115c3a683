------------------------------ MODULE Runtime ------------------------------
(***************************************************************************)
(* The engine process (runtime.rs, snapshot.rs, bin/engine.rs): it reads   *)
(* commands from a Redis stream through a consumer group, applies each to  *)
(* the engine, emits its event batch, answers, acknowledges, and now and   *)
(* then snapshots the engine and trims the stream.  It may stop between any*)
(* two of these (a crash, or a Redis call returning Err through `?`), and  *)
(* is restarted.                                                           *)
(*                                                                         *)
(* The engine is any deterministic state machine: Apply(e, c) is apply()   *)
(* of engine.rs, with the new state and the batch (None for no batch).     *)
(* Stream entries are numbered from 1 in XADD order.                       *)
(***************************************************************************)
EXTENDS Integers, Sequences, SequencesExt, Loops

CONSTANTS Payload,        \* commands that decode
          Garbage,        \* an entry without data or with undecodable data
          EngineState, Engine0, Apply(_, _),
          None,
          ReadCount,      \* .count(10)
          SnapshotEvery,  \* SnapshotConfig.every, 0 when snapshotting is off
          SnapshotLoss,   \* may load() find the snapshot missing or unreadable?
          SetIdFails,     \* may XGROUP SETID fail?  recover() ignores its error
          MaxCommands,    \* bound: commands submitted
          MaxCrashes      \* bound: times the process stops

ASSUME GarbageAssumption  == Garbage \notin Payload
ASSUME ApplyAssumption    ==
  /\ Engine0 \in EngineState
  /\ \A e \in EngineState, c \in Payload : Apply(e, c).engine \in EngineState
ASSUME ReadCountAssumption == ReadCount \in Nat \ {0} /\ SnapshotEvery \in Nat
ASSUME LossAssumption      == SnapshotLoss \in BOOLEAN /\ SetIdFails \in BOOLEAN
ASSUME NoneAssumption      == None \notin Nat /\ None \notin [last_id : Nat, state : EngineState]
ASSUME RuntimeBounds       == MaxCommands \in Nat /\ MaxCrashes \in Nat

VARIABLES log,        \* every entry ever added to `commands`
          trimmed,    \* entries 1 .. trimmed have been dropped from it
          cursor,     \* last-delivered id of engine-group, None before XGROUP CREATE
          pel,        \* its pending entries
          events,     \* the `events` stream: [id, batch] per emitting command
          replied,    \* entries whose response was published
          disk,       \* the snapshot file: None or [last_id, state]
          pc,         \* where the process is
          engine,     \* the process's Engine
          inbox,      \* entries of the last reply not yet finished
          last_id,    \* recover(): the last command replayed, or None
          batch,      \* what apply() returned for the current entry
          since_snapshot,
          at,         \* history: the last entry folded into engine
          crashes     \* history: times the process stopped

stream  == <<log, trimmed, cursor, pel>>
outputs == <<events, replied>>
process == <<pc, engine, inbox, last_id, batch, since_snapshot, at>>
vars    == <<stream, outputs, disk, process, crashes>>

Init ==
  /\ log = << >> /\ trimmed = 0 /\ cursor = None /\ pel = {}
  /\ events = << >> /\ replied = {}
  /\ disk = None
  /\ pc = "down" /\ engine = Engine0 /\ inbox = << >> /\ last_id = None /\ batch = None
  /\ since_snapshot = 0 /\ at = 0
  /\ crashes = 0

Decodes(id) == log[id] \in Payload

-----------------------------------------------------------------------------
(* The environment.                                                        *)

\* submit_command in the API: XADD commands.
Submit(entry) ==
  /\ Len(log) < MaxCommands
  /\ log' = Append(log, entry)
  /\ UNCHANGED <<trimmed, cursor, pel, outputs, disk, process, crashes>>

\* The process stops, and everything in its memory is gone.
Crash ==
  /\ pc # "down" /\ crashes < MaxCrashes
  /\ crashes' = crashes + 1
  /\ pc' = "down" /\ engine' = Engine0 /\ inbox' = << >> /\ last_id' = None /\ batch' = None
  /\ since_snapshot' = 0 /\ at' = 0
  /\ UNCHANGED <<stream, outputs, disk>>

-----------------------------------------------------------------------------
(* Boot and recovery.                                                      *)

\* XGROUP CREATE .. $ MKSTREAM; BUSYGROUP means it exists already.
CreateGroup ==
  /\ pc = "down"
  /\ pc' = "created"
  /\ cursor' = IF cursor = None THEN Len(log) ELSE cursor
  /\ UNCHANGED <<log, trimmed, pel, outputs, disk, engine, inbox, last_id, batch, since_snapshot,
                 at, crashes>>

\* Sensitivity variant of Replay: XRANGE from the snapshot's entry, inclusive.
ReplayInclusive(e, from, to) ==
  Loop([n \in Nat |-> [s \in EngineState |->
          LET id == from + n - 1
          IN  IF id > trimmed /\ Decodes(id) THEN Apply(s, log[id]).engine ELSE s]],
       e)[to - from + 1]

\* Fold the entries after `from` up to `to` that decode and were not trimmed into e.
Replay(e, from, to) ==
  Loop([n \in Nat |-> [s \in EngineState |->
          IF from + n > trimmed /\ Decodes(from + n)
          THEN Apply(s, log[from + n]).engine ELSE s]],
       e)[to - from]

\* recover(): load the snapshot, XRANGE from just after it, apply silently.
Recover ==
  /\ pc = "created"
  /\ \E readable \in IF SnapshotLoss THEN BOOLEAN ELSE {TRUE} :
       LET snap == IF disk # None /\ readable THEN disk
                   ELSE [last_id |-> 0, state |-> Engine0]
           replayed == {id \in snap.last_id + 1 .. Len(log) : id > trimmed /\ Decodes(id)}
       IN  /\ engine' = Replay(snap.state, snap.last_id, Len(log))
           /\ last_id' = IF replayed = {} THEN None ELSE Max(replayed)
  /\ at' = Len(log)
  /\ pc' = "replayed"
  /\ UNCHANGED <<stream, outputs, disk, inbox, batch, since_snapshot, crashes>>

\* Sensitivity variant of AlignCursor: no SETID at all.
AlignNothing ==
  /\ pc = "replayed"
  /\ last_id' = None /\ pc' = "idle"
  /\ UNCHANGED <<stream, outputs, disk, engine, inbox, batch, since_snapshot, at, crashes>>

\* XGROUP SETID to the last command replayed; none replayed, no SETID.
AlignCursor ==
  /\ pc = "replayed"
  /\ \E set \in IF SetIdFails THEN BOOLEAN ELSE {TRUE} :
       cursor' = IF last_id # None /\ set THEN last_id ELSE cursor
  /\ last_id' = None
  /\ pc' = "idle"
  /\ UNCHANGED <<log, trimmed, pel, outputs, disk, engine, inbox, batch, since_snapshot,
                 at, crashes>>

-----------------------------------------------------------------------------
(* The run loop, one action per call that can be the last.                 *)

\* XREADGROUP > COUNT: deliver the entries after the cursor.
Read ==
  LET to == Min({Len(log), cursor + ReadCount})
  IN  /\ pc = "idle" /\ inbox = << >> /\ to > cursor
      /\ inbox' = [i \in 1 .. to - cursor |-> cursor + i]
      /\ cursor' = to
      /\ pel' = pel \cup (cursor + 1 .. to)
      /\ UNCHANGED <<log, trimmed, outputs, disk, pc, engine, last_id, batch, since_snapshot,
                     at, crashes>>

Current == Head(inbox)

\* Sensitivity variant of SkipGarbage: the entry is acknowledged but not left.
SkipGarbageStuck ==
  /\ pc = "idle" /\ inbox # << >> /\ ~Decodes(Current)
  /\ pel' = pel \ {Current}
  /\ UNCHANGED <<log, trimmed, cursor, outputs, disk, process, crashes>>

\* No data or undecodable: ack and go on.
SkipGarbage ==
  /\ pc = "idle" /\ inbox # << >> /\ ~Decodes(Current)
  /\ pel' = pel \ {Current} /\ inbox' = Tail(inbox) /\ at' = Max({at, Current})
  /\ UNCHANGED <<log, trimmed, cursor, outputs, disk, pc, engine, last_id, batch, since_snapshot,
                 crashes>>

\* apply(): from here the engine is ahead of what it has emitted.
ApplyCommand ==
  /\ pc = "idle" /\ inbox # << >> /\ Decodes(Current)
  /\ engine' = Apply(engine, log[Current]).engine
  /\ batch' = Apply(engine, log[Current]).batch
  /\ at' = Max({at, Current})
  /\ pc' = "applied"
  /\ UNCHANGED <<stream, outputs, disk, inbox, last_id, since_snapshot, crashes>>

\* Sensitivity variant of Emit: a failed XADD is ignored instead of returned.
EmitOrDrop ==
  /\ pc = "applied"
  /\ \E sent \in BOOLEAN :
       events' = IF batch = None \/ ~sent THEN events
                 ELSE Append(events, [id |-> Current, batch |-> batch])
  /\ batch' = None
  /\ pc' = "emitted"
  /\ UNCHANGED <<stream, replied, disk, engine, inbox, last_id, since_snapshot, at, crashes>>

\* XADD events, when there is a batch.
Emit ==
  /\ pc = "applied"
  /\ events' = IF batch = None THEN events
               ELSE Append(events, [id |-> Current, batch |-> batch])
  /\ batch' = None
  /\ pc' = "emitted"
  /\ UNCHANGED <<stream, replied, disk, engine, inbox, last_id, since_snapshot, at, crashes>>

\* PUBLISH results; an error is logged and ignored.
Publish(sent) ==
  /\ pc = "emitted"
  /\ replied' = IF sent THEN replied \cup {Current} ELSE replied
  /\ pc' = "published"
  /\ UNCHANGED <<stream, events, disk, engine, inbox, last_id, batch, since_snapshot, at, crashes>>

\* XACK, and whether a snapshot is due.
Ack ==
  LET due == SnapshotEvery > 0 /\ since_snapshot + 1 >= SnapshotEvery
  IN  /\ pc = "published"
      /\ pel' = pel \ {Current}
      /\ since_snapshot' = IF due THEN 0 ELSE since_snapshot + 1
      /\ pc' = IF due THEN "acked" ELSE "idle"
      /\ inbox' = IF due THEN inbox ELSE Tail(inbox)
      /\ UNCHANGED <<log, trimmed, cursor, outputs, disk, engine, last_id, batch, at, crashes>>

\* save(): temp file, fsync, rename, so the file is the old one or the new one.
SaveSnapshot ==
  /\ pc = "acked"
  /\ disk' = [last_id |-> Current, state |-> engine]
  /\ pc' = "saved"
  /\ UNCHANGED <<stream, outputs, engine, inbox, last_id, batch, since_snapshot, at, crashes>>

\* Sensitivity variant of SaveFailed: trims although nothing was saved.
SaveFailedUnnoticed ==
  /\ pc = "acked"
  /\ pc' = "saved"
  /\ UNCHANGED <<stream, outputs, disk, engine, inbox, last_id, batch, since_snapshot, at, crashes>>

SaveFailed ==
  /\ pc = "acked"
  /\ pc' = "idle" /\ inbox' = Tail(inbox)
  /\ UNCHANGED <<stream, outputs, disk, engine, last_id, batch, since_snapshot, at, crashes>>

\* XTRIM MINID ~: some of the entries before the snapshot's go, never more.
Trim ==
  /\ pc = "saved"
  /\ \E cut \in trimmed .. Current - 1 : trimmed' = cut
  /\ pc' = "idle" /\ inbox' = Tail(inbox)
  /\ UNCHANGED <<log, cursor, pel, outputs, disk, engine, last_id, batch, since_snapshot,
                 at, crashes>>

EngineStep ==
  \/ CreateGroup \/ Recover \/ AlignCursor
  \/ Read \/ SkipGarbage \/ ApplyCommand \/ Emit
  \/ \E sent \in BOOLEAN : Publish(sent)
  \/ Ack \/ SaveSnapshot \/ SaveFailed \/ Trim

Next ==
  \/ \E entry \in Payload \cup {Garbage} : Submit(entry)
  \/ Crash
  \/ EngineStep

Spec == Init /\ [][Next]_vars

\* The container is restarted whenever it stops (restart: unless-stopped in
\* deploy/docker-compose.yml) and the loop never waits on anything but Redis.
FairSpec == Spec /\ WF_vars(EngineStep)
=============================================================================
