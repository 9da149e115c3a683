------------------------- MODULE RequestsProperties -------------------------
(***************************************************************************)
(* What a client of the API may rely on (docs/API.md, Idempotency).        *)
(***************************************************************************)
EXTENDS Requests

Executed == {engine.executed[i] : i \in 1 .. Len(engine.executed)}
FromEngine(r) == r \in {log[i] : i \in 1 .. Len(log)} /\ requests[r].status \in {200, 204, 400, 404, 409}

(* An answer is the request's own and is true: 409 only when a command with *)
(* the same account and client_order_id was executed, any other answer of  *)
(* the engine only when this very command was, and then its outcome; however*)
(* replies are delayed or lost, the engine restarts, or other requests run  *)
(* at the same time (submit_command, run_result_subscriber).  The exception:*)
(* once a failed SETID has had commands applied again, the engine is not the*)
(* one the next replay makes, and what it answered may be undone by that.   *)
AnswersTrue ==
  aligned => \A r \in 1 .. Len(requests) :
    FromEngine(r) =>
      IF requests[r].status = 409 THEN \E x \in Executed : Key(x) = Key(r)
      ELSE /\ r \in Executed
           /\ requests[r].status = ResponseFor(requests[r].call.kind, requests[r].call.verdict)

(* A retry is safe: a client_order_id is executed a second time only after  *)
(* DedupWindow other commands of the account, even if its first reply was   *)
(* lost or the engine was restarted in between.                             *)
RetrySafe ==
  \A i, j \in 1 .. Len(engine.executed) :
    i < j /\ Key(engine.executed[i]) = Key(engine.executed[j]) =>
      Cardinality({k \in i + 1 .. j - 1 :
                     Key(engine.executed[k])[1] = Key(engine.executed[i])[1]}) >= DedupWindow

(* The map of waiters and the handlers agree: a running handler that has no *)
(* reply yet is in the map, from before its XADD on, so that no reply misses*)
(* it however early it comes; and whoever is in the map is still running or *)
(* was dropped by its client's disconnect - no other path leaks a waiter.   *)
WaitersExact ==
  /\ pending \subseteq 1 .. Len(requests)
  /\ \A r \in 1 .. Len(requests) :
       /\ r \in pending => requests[r].pc \in {"logging", "added", "waiting", "elapsed", "gone"}
       /\ requests[r].pc \in {"logging", "added", "waiting"} /\ requests[r].mail = None
            => r \in pending

(* Every request is answered or its client is gone, even when the engine is *)
(* down or the subscriber has ended (REQUEST_TIMEOUT): once no new requests *)
(* come, none is left waiting.                                              *)
EveryRequestAnswered ==
  []<>(\A r \in 1 .. Len(requests) : requests[r].pc \in {"done", "gone"})
=============================================================================
