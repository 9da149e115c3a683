-------------------------- MODULE RuntimeProperties --------------------------
(***************************************************************************)
(* What the engine process must guarantee across crashes and restarts.     *)
(***************************************************************************)
EXTENDS Runtime

Up == pc \notin {"down", "created"}

\* The engine the log determines: entries 1 .. k applied in order, none twice.
Determined(k) ==
  Loop([n \in Nat |-> [s \in EngineState |->
          IF Decodes(n) THEN Apply(s, log[n]).engine ELSE s]], Engine0)[k]

(* The engine is the state that the log up to the last handled entry       *)
(* determines: whatever crashed, was redelivered, replayed or trimmed, no  *)
(* command is missed, repeated or reordered (ARCHITECTURE.md: the state is *)
(* a function of the log).                                                 *)
EngineFollowsLog == Up => engine = Determined(at)

(* Nothing between the last handled entry and the next one to be handled   *)
(* is ever passed over: the entries in hand and the group cursor continue  *)
(* where the engine stands, up to undecodable entries.                     *)
NothingPassedOver ==
  pc = "idle" =>
    LET next == IF inbox = << >> THEN cursor + 1 ELSE Current
    IN  \A id \in 1 .. Len(log) : Decodes(id) => (id <= at <=> id < next)

(* Recovery never needs an entry that is gone: the snapshot on disk is the *)
(* state of the log up to its last_id, and only entries before it were     *)
(* trimmed (runtime.rs: trim only once the snapshot is on disk).           *)
SnapshotCoversTrim ==
  IF disk = None THEN trimmed = 0
  ELSE trimmed < disk.last_id /\ disk.state = Determined(disk.last_id)

(* The events stream is in log order, has no batch twice, and each batch is*)
(* the one the log determines for its command, whichever incarnation of the*)
(* process emitted it (engine.rs: replay reproduces the same numbering).   *)
EventsFollowLog ==
  /\ \A i, j \in 1 .. Len(events) : i < j => events[i].id < events[j].id
  /\ \A i \in 1 .. Len(events) :
       events[i].batch = Apply(Determined(events[i].id - 1), log[events[i].id]).batch

Emits(id) == Decodes(id) /\ Apply(Determined(id - 1), log[id]).batch # None
Emitted(id) == \E i \in 1 .. Len(events) : events[i].id = id

(* Emit before answering and before acknowledging: an entry leaves the     *)
(* pending list, and its caller hears of it, only when its events are out. *)
EmitBeforeAck ==
  [][\A id \in (pel \ pel') \cup (replied' \ replied) : Emits(id)' => Emitted(id)']_vars

(* Every command in the stream is eventually applied by a live process,    *)
(* however often it crashed before.                                        *)
EveryCommandApplied ==
  \A id \in 1 .. MaxCommands : (id <= Len(log)) ~> (Up /\ at >= id)

(* A command that was read but not acknowledged is redelivered, so that its*)
(* events come out even if the process crashed in between (ARCHITECTURE.md:*)
(* the pending list gives at-least-once delivery).                         *)
PendingIsRedelivered ==
  \A id \in 1 .. MaxCommands : (id \in pel /\ Emits(id)) ~> Emitted(id)
=============================================================================
