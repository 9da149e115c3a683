------------------------------ MODULE Requests ------------------------------
(***************************************************************************)
(* The write path of the API (bin/api/main.rs): handlers log a command and *)
(* wait in the map `pending` for the reply that one subscriber task takes  *)
(* from the Redis channel `results`.  Requests time out, clients disconnect*)
(* and retry, replies and the subscriber are lost, the engine restarts.    *)
(*                                                                         *)
(* A request is known by its correlation_id, its index in `requests`.  The *)
(* engine is its idempotency window and the list of commands it executed;  *)
(* what it decides of a command it executes is the request's `verdict`.    *)
(* Requests that axum itself turns away (an unreadable body) are left out. *)
(***************************************************************************)
EXTENDS Integers, Sequences, FiniteSets, Loops

CONSTANTS Accounts, AdminAccount,   \* AdminAccount: ADMIN_ACCOUNT_ID
          ClientIds, DedupWindow,
          Calls,         \* the requests clients send, again and again
          None,
          MaxRequests,   \* bound: requests received
          MaxFaults      \* bound: Redis errors, restarts of the engine, subscriber ends

Command == {"Place", "Cancel", "Deposit", "Withdraw", "ListPair", "DelistPair"}

Verdict == {"Ok", "Err"}   \* of the engine; true and false for a cancel or a delisting

Call == [account_id : Accounts \cup {None}, client_order_id : ClientIds \cup {None},
         kind : Command, valid_pair : BOOLEAN, verdict : Verdict]

\* Status codes, ApiError's included.
Status == {200, 204, 400, 401, 403, 404, 409, 500, 504}

ASSUME CallsAssumption    == Calls \subseteq Call
ASSUME NoneAssumption     == /\ None \notin Accounts /\ None \notin ClientIds
                             /\ None \notin Verdict \cup {"Duplicate"}
                             /\ None \notin Status
ASSUME RequestsAssumption == DedupWindow \in Nat /\ MaxRequests \in Nat /\ MaxFaults \in Nat

Window == INSTANCE Dedup WITH Pairs <- {}, Prices <- {}, Sizes <- {}, Amounts <- {},
                              U64Max <- 0, MaxOrders <- 0

VARIABLES requests,     \* every request received, with where its handler is
          pending,      \* the map of waiting handlers: its correlation ids
          subscriber,   \* "up", or "ended" for good
          log,          \* the stream `commands`: correlation ids in XADD order
          delivered,    \* entries of it the engine process has handled
          engine,       \* [dedup, executed]
          results,      \* replies on their way to the subscriber
          aligned,      \* history: no restart has left the group's cursor behind
          faults        \* history: faults so far

vars == <<requests, pending, subscriber, log, delivered, engine, results, aligned, faults>>

\* What a CommandResponse says.
Outcome == Verdict \cup {"Duplicate"}
Reply   == [correlation_id : Nat \ {0}, response : Outcome]
Request == [call : Calls,
            pc : {"logging", "added", "waiting", "elapsed", "done", "gone"},
            mail : Outcome \cup {None},    \* what the oneshot channel holds
            status : Status \cup {None}]
EngineValue == [dedup : Window!DedupValue, executed : Seq(Nat)]

Key(r) == <<requests[r].call.account_id, requests[r].call.client_order_id>>

NewEngine == [dedup |-> Window!NewDedup, executed |-> << >>]

Init ==
  /\ requests = << >> /\ pending = {} /\ subscriber = "up"
  /\ log = << >> /\ delivered = 0 /\ engine = NewEngine /\ results = << >>
  /\ aligned = TRUE /\ faults = 0

Fault == faults < MaxFaults /\ faults' = faults + 1

-----------------------------------------------------------------------------
(* Handlers                                                                *)

AdminOnly(kind) == kind \in {"ListPair", "DelistPair"}

\* The extractors AuthUser and ClientOrderId, in the order the handlers have them.
Extract(call) ==
  IF call.account_id = None THEN 401
  ELSE IF call.client_order_id = None THEN 400
  ELSE None

\* Then require_admin, then the pair of a path.  None lets the request through.
Gate(call) ==
  IF Extract(call) # None THEN Extract(call)
  ELSE IF AdminOnly(call.kind) /\ call.account_id # AdminAccount THEN 403
  ELSE IF call.kind = "DelistPair" /\ ~call.valid_pair THEN 400
  ELSE None

\* response_for
ResponseFor(kind, outcome) ==
  CASE outcome = "Duplicate" -> 409
    [] outcome = "Ok"        -> IF kind \in {"Place", "Deposit"} THEN 200 ELSE 204
    [] outcome = "Err"       -> IF kind \in {"Cancel", "DelistPair"} THEN 404 ELSE 400

\* A request that does not reach submit_command.
Refuse(call) ==
  /\ Len(requests) < MaxRequests /\ Gate(call) # None
  /\ requests' = Append(requests, [call |-> call, pc |-> "done", mail |-> None,
                                   status |-> Gate(call)])
  /\ UNCHANGED <<pending, subscriber, log, delivered, engine, results, aligned, faults>>

\* submit_command registers the waiter before the XADD.
Submit(call) ==
  /\ Len(requests) < MaxRequests /\ Gate(call) = None
  /\ requests' = Append(requests, [call |-> call, pc |-> "logging", mail |-> None,
                                   status |-> None])
  /\ pending' = pending \cup {Len(requests) + 1}
  /\ UNCHANGED <<subscriber, log, delivered, engine, results, aligned, faults>>

\* The XADD reaches Redis.  From here the engine can execute the command and the
\* subscriber take the waiter, though the handler still awaits the XADD.
Added(r) ==
  /\ requests[r].pc = "logging"
  /\ log' = Append(log, r)
  /\ requests' = [requests EXCEPT ![r].pc = "added"]
  /\ UNCHANGED <<pending, subscriber, delivered, engine, results, aligned, faults>>

\* The XADD returns: from here REQUEST_TIMEOUT runs.
Logged(r) ==
  /\ requests[r].pc = "added"
  /\ requests' = [requests EXCEPT ![r].pc = "waiting"]
  /\ UNCHANGED <<pending, subscriber, log, delivered, engine, results, aligned, faults>>

\* Whether or not the XADD of a handler that no longer awaits it adds the entry.
AddedOrNot(r) == log' \in IF requests[r].pc = "logging" THEN {log, Append(log, r)} ELSE {log}

\* XADD returns an error, though the entry may have been added, and even executed
\* and answered.
LogFailed(r) ==
  /\ Fault /\ requests[r].pc \in {"logging", "added"}
  /\ AddedOrNot(r)
  /\ pending' = pending \ {r}
  /\ requests' = [requests EXCEPT ![r].pc = "done", ![r].mail = None, ![r].status = 500]
  /\ UNCHANGED <<subscriber, delivered, engine, results, aligned>>

\* The oneshot channel has the reply.
Answer(r) ==
  /\ requests[r].pc = "waiting" /\ requests[r].mail # None
  /\ requests' = [requests EXCEPT ![r].pc = "done", ![r].mail = None,
                    ![r].status = ResponseFor(requests[r].call.kind, requests[r].mail)]
  /\ UNCHANGED <<pending, subscriber, log, delivered, engine, results, aligned, faults>>

\* Sensitivity variant of Elapse: no timeout, only a subscriber that is gone ends the wait.
ElapseUnsubscribed(r) ==
  /\ subscriber = "ended"
  /\ requests[r].pc = "waiting" /\ requests[r].mail = None
  /\ requests' = [requests EXCEPT ![r].pc = "elapsed"]
  /\ UNCHANGED <<pending, subscriber, log, delivered, engine, results, aligned, faults>>

\* REQUEST_TIMEOUT passes with the channel still empty ..
Elapse(r) ==
  /\ requests[r].pc = "waiting" /\ requests[r].mail = None
  /\ requests' = [requests EXCEPT ![r].pc = "elapsed"]
  /\ UNCHANGED <<pending, subscriber, log, delivered, engine, results, aligned, faults>>

\* Sensitivity variant of GiveUp: the waiter stays in the map.
GiveUpQuietly(r) ==
  /\ requests[r].pc = "elapsed"
  /\ requests' = [requests EXCEPT ![r].pc = "done", ![r].mail = None, ![r].status = 504]
  /\ UNCHANGED <<pending, subscriber, log, delivered, engine, results, aligned, faults>>

\* .. and the handler takes its waiter back; a reply that came in between is lost.
GiveUp(r) ==
  /\ requests[r].pc = "elapsed"
  /\ pending' = pending \ {r}
  /\ requests' = [requests EXCEPT ![r].pc = "done", ![r].mail = None, ![r].status = 504]
  /\ UNCHANGED <<subscriber, log, delivered, engine, results, aligned, faults>>

\* The client disconnects: the handler is dropped where it waits, its waiter is not.
Disconnect(r) ==
  /\ requests[r].pc \in {"logging", "added", "waiting"}
  /\ AddedOrNot(r)
  /\ requests' = [requests EXCEPT ![r].pc = "gone", ![r].mail = None]
  /\ UNCHANGED <<pending, subscriber, delivered, engine, results, aligned, faults>>

-----------------------------------------------------------------------------
(* The result subscriber                                                   *)

\* Sensitivity variant of Deliver: the reply goes to whoever waits first.
DeliverToAny ==
  LET reply == Head(results)
  IN  /\ subscriber = "up" /\ results # << >>
      /\ results' = Tail(results)
      /\ \E r \in pending \cup {reply.correlation_id} :
           /\ pending' = pending \ {r}
           /\ requests' = IF r \in pending /\ requests[r].pc # "gone"
                          THEN [requests EXCEPT ![r].mail = reply.response] ELSE requests
      /\ UNCHANGED <<subscriber, log, delivered, engine, aligned, faults>>

\* Take the waiter out and send; no waiter or no receiver, and the reply is dropped.
Deliver ==
  LET reply == Head(results)
      r     == reply.correlation_id
  IN  /\ subscriber = "up" /\ results # << >>
      /\ results' = Tail(results)
      /\ pending' = pending \ {r}
      /\ requests' = IF r \in pending /\ requests[r].pc # "gone"
                     THEN [requests EXCEPT ![r].mail = reply.response] ELSE requests
      /\ UNCHANGED <<subscriber, log, delivered, engine, aligned, faults>>

\* run_result_subscriber returns: nothing starts it again.
SubscriberEnds ==
  /\ Fault /\ subscriber = "up"
  /\ subscriber' = "ended" /\ results' = << >>
  /\ UNCHANGED <<requests, pending, log, delivered, engine, aligned>>

-----------------------------------------------------------------------------
(* The engine process, as module Runtime has it in detail                  *)

IsFresh(e, r) == Window!Fresh(e.dedup, Key(r)[1], Key(r)[2])

\* Sensitivity variant of ApplyCommand: only accepted commands use up their key.
ApplyCommandIfAccepted(e, r) ==
  IF ~IsFresh(e, r) THEN e
  ELSE [dedup    |-> IF requests[r].call.verdict = "Ok"
                     THEN Window!DedupInsert(e.dedup, Key(r)[1], Key(r)[2])
                     ELSE e.dedup,
        executed |-> Append(e.executed, r)]

\* apply(): a key in the window is answered Duplicate, any other is executed.
ApplyCommand(e, r) ==
  IF ~IsFresh(e, r) THEN e
  ELSE [dedup    |-> Window!DedupInsert(e.dedup, Key(r)[1], Key(r)[2]),
        executed |-> Append(e.executed, r)]

\* One entry of the stream: apply, then PUBLISH the reply, whose loss goes unnoticed.
Execute(sent) ==
  LET r == log[delivered + 1]
  IN  /\ delivered < Len(log)
      /\ engine' = ApplyCommand(engine, r)
      /\ results' = IF sent /\ subscriber = "up"
                    THEN Append(results,
                           [correlation_id |-> r,
                            response |-> IF IsFresh(engine, r) THEN requests[r].call.verdict
                                         ELSE "Duplicate"])
                    ELSE results
      /\ delivered' = delivered + 1
      /\ UNCHANGED <<requests, pending, subscriber, log, aligned, faults>>

\* The engine that entries 1 .. k of the log make.
Replayed(k) ==
  Loop([n \in Nat |-> [e \in EngineValue |->
          IF n \in DOMAIN log THEN ApplyCommand(e, log[n]) ELSE e]], NewEngine)[k]

\* recover() replays the whole log without a word and moves the group's cursor
\* to its end; if that fails, some entries are delivered again.
Restart ==
  /\ Fault
  /\ engine' = Replayed(Len(log))
  /\ delivered' \in delivered .. Len(log)
  /\ aligned' = (aligned /\ delivered' = Len(log))
  /\ UNCHANGED <<requests, pending, subscriber, log, results>>

-----------------------------------------------------------------------------
Handler(r) ==
  /\ r \in 1 .. Len(requests)
  /\ Added(r) \/ Logged(r) \/ LogFailed(r) \/ Answer(r) \/ Elapse(r) \/ GiveUp(r)

Next ==
  \/ \E call \in Calls : Refuse(call) \/ Submit(call)
  \/ \E r \in 1 .. MaxRequests : Handler(r)
  \/ \E r \in 1 .. Len(requests) : Disconnect(r)
  \/ Deliver \/ SubscriberEnds
  \/ \E sent \in BOOLEAN : Execute(sent)
  \/ Restart

Spec == Init /\ [][Next]_vars

\* Redis adds an entry and answers its XADD in the end, and the timer of a waiting handler runs out.
FairSpec == Spec /\ \A r \in 1 .. MaxRequests : WF_vars(Handler(r))
=============================================================================
