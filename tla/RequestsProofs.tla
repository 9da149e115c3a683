--------------------------- MODULE RequestsProofs ---------------------------
(***************************************************************************)
(* What clients of the write path may rely on, for any accounts, window,   *)
(* number of requests and faults: the map of waiters is exact, retries are *)
(* safe and answers are true.                                              *)
(***************************************************************************)
EXTENDS RequestsProperties, LoopsProofs, SequenceTheorems, FiniteSetTheorems

-----------------------------------------------------------------------------
(* The map of waiters.                                                     *)

Types ==
  /\ requests \in Seq(Request)
  /\ log \in Seq(1 .. Len(requests))
  /\ delivered \in 0 .. Len(log)
  /\ results \in Seq(Reply)

RepliesLogged ==
  \A i \in 1 .. Len(results) : \E k \in 1 .. Len(log) : log[k] = results[i].correlation_id

AnsweredLeft ==
  \A r \in 1 .. Len(requests) : requests[r].mail # None => r \notin pending

\* WaitersExact is not inductive alone: that a reply is for a request there is
\* needs to know that replies are for logged requests (RepliesLogged); that an
\* answered handler leaves nothing behind, that its waiter went with the answer.
WaitersInv == Types /\ RepliesLogged /\ AnsweredLeft /\ WaitersExact

(* Nothing has been received initially. *)
LEMMA InvInit == Init => WaitersInv
  BY DEF Init, WaitersInv, Types, RepliesLogged, AnsweredLeft, WaitersExact

(* A sequence changed in one place: its length, its elements, its type. *)
LEMMA ChangedSeq ==
  ASSUME NEW S, NEW s \in Seq(S), NEW i \in 1 .. Len(s), NEW e \in S,
         NEW t, t = [s EXCEPT ![i] = e]
  PROVE  /\ t \in Seq(S) /\ Len(t) = Len(s)
         /\ t[i] = e
         /\ \A j \in 1 .. Len(s) : j # i => t[j] = s[j]
  OBVIOUS

(* A sequence grown by one element. *)
LEMMA GrownSeq ==
  ASSUME NEW S, NEW s \in Seq(S), NEW e \in S
  PROVE  /\ Append(s, e) \in Seq(S) /\ Len(Append(s, e)) = Len(s) + 1
         /\ Append(s, e)[Len(s) + 1] = e
         /\ \A j \in 1 .. Len(s) : Append(s, e)[j] = s[j]
  OBVIOUS

(* The elements of the log are requests, which have an index and a type. *)
LEMMA LogElements ==
  ASSUME Types
  PROVE  /\ Len(requests) \in Nat /\ Len(log) \in Nat /\ Len(results) \in Nat
         /\ \A i \in 1 .. Len(log) : log[i] \in 1 .. Len(requests)
         /\ \A r \in 1 .. Len(requests) : requests[r] \in Request
         /\ \A i \in 1 .. Len(results) : results[i] \in Reply
  BY DEF Types

(* A request that arrives: refused at once, or registered before its XADD. *)
LEMMA ReceiveKeeps ==
  ASSUME WaitersInv, NEW call \in Calls, Refuse(call) \/ Submit(call)
  PROVE  WaitersInv'
<1> DEFINE n == Len(requests) + 1
<1>1. PICK req \in Request : requests' = Append(requests, req)
                             /\ (Refuse(call) => req.pc = "done")
                             /\ (Submit(call) => req.pc = "logging")
                             /\ req.mail = None
  <2>1. CASE Refuse(call)
    <3>1. Gate(call) \in Status
      BY <2>1 DEF Refuse, Gate, Extract, Status
    <3> QED BY <2>1, <3>1 DEF Refuse, Submit, Request
  <2>2. CASE Submit(call)
    BY <2>2 DEF Refuse, Submit, Request
  <2> QED BY <2>1, <2>2
<1>2. /\ requests' \in Seq(Request) /\ Len(requests') = n
      /\ requests'[n] = req
      /\ \A r \in 1 .. Len(requests) : requests'[r] = requests[r]
  BY <1>1, GrownSeq DEF WaitersInv, Types
<1>3. /\ Len(requests) \in Nat
      /\ \A i \in 1 .. Len(log) : log[i] \in 1 .. Len(requests)
  BY LogElements DEF WaitersInv
<1>4. UNCHANGED <<log, delivered, results>>
  BY DEF Refuse, Submit
<1>5. Types'
  BY <1>2, <1>3, <1>4 DEF WaitersInv, Types
<1>7. RepliesLogged'
  BY <1>4 DEF WaitersInv, RepliesLogged
<1>8. WaitersExact'
  <2>1. pending \subseteq 1 .. n /\ n \in 1 .. n /\ n \notin 1 .. Len(requests)
    BY <1>3 DEF WaitersInv, WaitersExact
  <2>2. pending' \subseteq 1 .. Len(requests')
    <3>1. pending' = pending \/ pending' = pending \cup {n}
      BY DEF Refuse, Submit
    <3> QED BY <1>2, <2>1, <3>1
  <2>3. \A r \in 1 .. Len(requests') : r = n \/ r \in 1 .. Len(requests)
    BY <1>2, <1>3
  <2>4. CASE Refuse(call)
    <3>1. pending' = pending /\ req.pc = "done" /\ n \notin pending
      BY <1>1, <2>1, <2>4 DEF Refuse, WaitersInv, WaitersExact
    <3> QED BY <1>2, <2>2, <2>3, <3>1 DEF WaitersInv, WaitersExact
  <2>5. CASE Submit(call)
    <3>1. pending' = pending \cup {n} /\ req.pc = "logging"
      BY <1>1, <2>5 DEF Submit
    <3> QED BY <1>2, <2>1, <2>2, <2>3, <3>1 DEF WaitersInv, WaitersExact
  <2> QED BY <2>4, <2>5
<1>9. AnsweredLeft'
  <2>1. pending' = pending \/ pending' = pending \cup {n}
    BY DEF Refuse, Submit
  <2>2. \A r \in 1 .. Len(requests') : r = n \/ (r # n /\ r \in 1 .. Len(requests))
    BY <1>2, <1>3
  <2> QED BY <1>1, <1>2, <2>1, <2>2 DEF WaitersInv, AnsweredLeft
<1> QED
  BY <1>5, <1>7, <1>8, <1>9 DEF WaitersInv

(* What every step of a handler, a disconnect and a delivery have in common:*)
(* one request changes, the log grows by that request at most, and replies *)
(* at most leave.                                                          *)
LEMMA OneRequestKeeps ==
  ASSUME WaitersInv, NEW r \in 1 .. Len(requests), NEW req \in Request,
         requests' = [requests EXCEPT ![r] = req],
         log' = log \/ log' = Append(log, r),
         UNCHANGED delivered,
         results' = results \/ (results # << >> /\ results' = Tail(results)),
         pending' = pending \/ pending' = pending \ {r},
         r \in pending' => req.mail = None /\ req.pc \in {"logging", "added", "waiting", "elapsed", "gone"},
         req.pc \in {"logging", "added", "waiting"} /\ req.mail = None => r \in pending'
  PROVE  WaitersInv'
<1>1. /\ requests' \in Seq(Request) /\ Len(requests') = Len(requests)
      /\ requests'[r] = req
      /\ \A x \in 1 .. Len(requests) : x # r => requests'[x] = requests[x]
  BY ChangedSeq DEF WaitersInv, Types
<1>2. /\ log' \in Seq(1 .. Len(requests')) /\ delivered' \in 0 .. Len(log')
      /\ \A i \in 1 .. Len(log) : i \in 1 .. Len(log') /\ log'[i] = log[i]
  <2>1. CASE log' = log
    BY <2>1, <1>1 DEF WaitersInv, Types
  <2>2. CASE log' = Append(log, r)
    BY <2>2, <1>1, GrownSeq DEF WaitersInv, Types
  <2> QED BY <2>1, <2>2
<1>4. /\ results' \in Seq(Reply)
      /\ \A i \in 1 .. Len(results') : \E j \in 1 .. Len(results) : results'[i] = results[j]
  <2>1. CASE results' = results
    BY <2>1 DEF WaitersInv, Types
  <2>2. CASE results # << >> /\ results' = Tail(results)
    <3>1. /\ Tail(results) \in Seq(Reply) /\ Len(Tail(results)) = Len(results) - 1
          /\ \A i \in 1 .. Len(Tail(results)) : Tail(results)[i] = results[i + 1]
      BY <2>2, HeadTailProperties DEF WaitersInv, Types
    <3>2. \A i \in 1 .. Len(Tail(results)) : i + 1 \in 1 .. Len(results)
      BY <3>1, LogElements DEF WaitersInv
    <3> QED BY <2>2, <3>1, <3>2
  <2> QED BY <2>1, <2>2
<1>5. RepliesLogged'
  <2> SUFFICES ASSUME NEW i \in 1 .. Len(results')
               PROVE  \E k \in 1 .. Len(log') : log'[k] = results'[i].correlation_id
    BY DEF RepliesLogged
  <2>1. PICK j \in 1 .. Len(results) : results'[i] = results[j]
    BY <1>4
  <2>2. PICK k \in 1 .. Len(log) : log[k] = results[j].correlation_id
    BY DEF WaitersInv, RepliesLogged
  <2>3. k \in 1 .. Len(log') /\ log'[k] = results'[i].correlation_id
    BY <1>2, <2>1, <2>2
  <2> QED BY <2>3
<1>6. WaitersExact'
  <2>1. /\ pending' \subseteq 1 .. Len(requests')
        /\ \A x \in 1 .. Len(requests) : x # r => (x \in pending' <=> x \in pending)
    BY <1>1 DEF WaitersInv, WaitersExact
  <2>2. ASSUME NEW x \in 1 .. Len(requests')
        PROVE  /\ x \in pending' => requests'[x].pc \in {"logging", "added", "waiting", "elapsed", "gone"}
               /\ requests'[x].pc \in {"logging", "added", "waiting"} /\ requests'[x].mail = None
                    => x \in pending'
    <3>1. CASE x = r
      BY <3>1, <1>1
    <3>2. CASE x # r
      BY <3>2, <1>1, <2>1 DEF WaitersInv, WaitersExact
    <3> QED BY <3>1, <3>2
  <2> QED BY <2>1, <2>2 DEF WaitersExact
<1>7. Types'
  BY <1>1, <1>2, <1>4 DEF Types
<1>8. AnsweredLeft'
  BY <1>1 DEF WaitersInv, AnsweredLeft
<1> QED
  BY <1>5, <1>6, <1>7, <1>8 DEF WaitersInv

(* The steps of a handler, from its XADD to its answer or its timeout. *)
LEMMA HandlerKeeps ==
  ASSUME WaitersInv, NEW r \in 1 .. Len(requests),
         Added(r) \/ Logged(r) \/ LogFailed(r) \/ Answer(r) \/ Elapse(r) \/ GiveUp(r)
  PROVE  WaitersInv'
<1> DEFINE old == requests[r]
<1>1. old \in Request
  BY LogElements DEF WaitersInv
<1>2. /\ r \in pending => old.mail = None /\ old.pc \in {"logging", "added", "waiting", "elapsed", "gone"}
      /\ old.pc \in {"logging", "added", "waiting"} /\ old.mail = None => r \in pending
  BY DEF WaitersInv, WaitersExact, AnsweredLeft
<1>3. requests \in Seq(Request)
  BY DEF WaitersInv, Types
<1>4. CASE Logged(r)
  <2> DEFINE req == [old EXCEPT !.pc = "waiting"]
  <2>1. /\ req \in Request /\ req.pc = "waiting" /\ req.mail = old.mail
        /\ requests' = [requests EXCEPT ![r] = req]
    BY <1>1, <1>3, <1>4 DEF Logged, Request
  <2>2. old.pc = "added" /\ UNCHANGED <<log, pending, delivered, results>>
    BY <1>4 DEF Logged
  <2> HIDE DEF req
  <2> QED BY <1>2, <2>1, <2>2, OneRequestKeeps
<1>9. CASE Added(r)
  <2> DEFINE req == [old EXCEPT !.pc = "added"]
  <2>1. /\ req \in Request /\ req.pc = "added" /\ req.mail = old.mail
        /\ requests' = [requests EXCEPT ![r] = req]
    BY <1>1, <1>3, <1>9 DEF Added, Request
  <2>2. log' = Append(log, r) /\ old.pc = "logging" /\ UNCHANGED <<pending, delivered, results>>
    BY <1>9 DEF Added
  <2> HIDE DEF req
  <2> QED BY <1>2, <2>1, <2>2, OneRequestKeeps
<1>5. CASE LogFailed(r)
  <2> DEFINE status == 500
             req == [[[old EXCEPT !.pc = "done"] EXCEPT !.mail = None] EXCEPT !.status = status]
  <2>1. status \in Status
    BY DEF Status
  <2>2. requests' = [requests EXCEPT ![r].pc = "done", ![r].mail = None, ![r].status = status]
    BY <1>5 DEF LogFailed
  <2> HIDE DEF status
  <2>3. req \in Request /\ req.pc = "done" /\ requests' = [requests EXCEPT ![r] = req]
    BY <1>1, <1>3, <2>1, <2>2 DEF Request
  <2>4. /\ log' = log \/ log' = Append(log, r)
        /\ pending' = pending \ {r} /\ UNCHANGED <<delivered, results>>
    BY <1>5 DEF LogFailed, AddedOrNot
  <2> HIDE DEF req
  <2> QED BY <2>3, <2>4, OneRequestKeeps
<1>6. CASE Answer(r)
  <2> DEFINE status == ResponseFor(old.call.kind, old.mail)
             req == [[[old EXCEPT !.pc = "done"] EXCEPT !.mail = None] EXCEPT !.status = status]
  <2>1. status \in Status
    <3>1. old.mail \in Outcome
      BY <1>1, <1>6 DEF Answer, Request
    <3> QED BY <3>1 DEF ResponseFor, Outcome, Verdict, Status
  <2> HIDE DEF status
  <2>2. req \in Request /\ req.pc = "done"
    BY <1>1, <2>1 DEF Request
  <2>3. requests' = [requests EXCEPT ![r] = req]
    BY <1>1, <1>3, <1>6 DEF Answer, Request, status
  <2>4. old.pc = "waiting" /\ old.mail # None /\ UNCHANGED <<pending, log, delivered, results>>
    BY <1>6 DEF Answer
  <2> HIDE DEF req
  <2> QED BY <1>2, <2>2, <2>3, <2>4, OneRequestKeeps
<1>7. CASE Elapse(r)
  <2> DEFINE req == [old EXCEPT !.pc = "elapsed"]
  <2>1. /\ req \in Request /\ req.pc = "elapsed" /\ req.mail = old.mail
        /\ requests' = [requests EXCEPT ![r] = req]
    BY <1>1, <1>3, <1>7 DEF Elapse, Request
  <2>2. UNCHANGED <<pending, log, delivered, results>>
    BY <1>7 DEF Elapse
  <2> HIDE DEF req
  <2> QED BY <1>2, <2>1, <2>2, OneRequestKeeps
<1>8. CASE GiveUp(r)
  <2> DEFINE status == 504
             req == [[[old EXCEPT !.pc = "done"] EXCEPT !.mail = None] EXCEPT !.status = status]
  <2>1. status \in Status
    BY DEF Status
  <2>2. requests' = [requests EXCEPT ![r].pc = "done", ![r].mail = None, ![r].status = status]
    BY <1>8 DEF GiveUp
  <2> HIDE DEF status
  <2>3. req \in Request /\ req.pc = "done" /\ requests' = [requests EXCEPT ![r] = req]
    BY <1>1, <1>3, <2>1, <2>2 DEF Request
  <2>4. pending' = pending \ {r} /\ UNCHANGED <<log, delivered, results>>
    BY <1>8 DEF GiveUp
  <2> HIDE DEF req
  <2> QED BY <2>3, <2>4, OneRequestKeeps
<1> QED BY <1>4, <1>5, <1>6, <1>7, <1>8, <1>9

(* A client that disconnects takes its handler, not its waiter. *)
LEMMA DisconnectKeeps ==
  ASSUME WaitersInv, NEW r \in 1 .. Len(requests), Disconnect(r)
  PROVE  WaitersInv'
<1> DEFINE req == [[requests[r] EXCEPT !.pc = "gone"] EXCEPT !.mail = None]
<1>1. requests \in Seq(Request) /\ requests[r] \in Request
  BY LogElements DEF WaitersInv, Types
<1>2. /\ req \in Request /\ req.pc = "gone" /\ req.mail = None
      /\ requests' = [requests EXCEPT ![r] = req]
  BY <1>1 DEF Disconnect, Request
<1>3. /\ log' = log \/ log' = Append(log, r)
      /\ UNCHANGED <<pending, delivered, results>>
  BY DEF Disconnect, AddedOrNot
<1> HIDE DEF req
<1> QED BY <1>2, <1>3, OneRequestKeeps

(* A reply takes the waiter it is for, whether or not its handler's XADD has*)
(* returned, and fills its channel; or it finds none.                       *)
LEMMA DeliverKeeps ==
  ASSUME WaitersInv, Deliver
  PROVE  WaitersInv'
<1> DEFINE reply == Head(results)
           r     == reply.correlation_id
           old   == requests[r]
<1>1. results # << >> /\ results' = Tail(results) /\ pending' = pending \ {r}
      /\ UNCHANGED <<log, delivered>>
  BY DEF Deliver
<1>2. reply = results[1] /\ 1 \in 1 .. Len(results) /\ reply \in Reply
  BY <1>1 DEF WaitersInv, Types
<1>3. r \in 1 .. Len(requests)
  <2>1. PICK k \in 1 .. Len(log) : log[k] = r
    BY <1>2 DEF WaitersInv, RepliesLogged
  <2> QED BY <2>1, LogElements DEF WaitersInv
<1>4. requests \in Seq(Request) /\ old \in Request /\ reply.response \in Outcome
  BY <1>2, <1>3, LogElements DEF WaitersInv, Types, Reply
<1>5. None \notin Outcome
  BY NoneAssumption DEF Outcome
<1>6. CASE r \in pending /\ old.pc # "gone"
  <2> DEFINE req == [old EXCEPT !.mail = reply.response]
  <2>1. /\ req \in Request /\ req.pc = old.pc /\ req.mail # None
        /\ requests' = [requests EXCEPT ![r] = req]
    BY <1>3, <1>4, <1>5, <1>6 DEF Deliver, Request
  <2> HIDE DEF req, reply
  <2> QED BY <1>1, <1>3, <2>1, OneRequestKeeps
<1>7. CASE ~(r \in pending /\ old.pc # "gone")
  <2>1. requests' = requests /\ requests = [requests EXCEPT ![r] = old]
    BY <1>3, <1>4, <1>7 DEF Deliver
  <2>2. old.pc \in {"logging", "added", "waiting"} /\ old.mail = None => r \in pending
    BY <1>3 DEF WaitersInv, WaitersExact
  <2> HIDE DEF reply, old
  <2>3. old.pc \in {"logging", "added", "waiting"} /\ old.mail = None => FALSE
    BY <1>7, <2>2
  <2> QED BY <1>1, <1>3, <1>4, <2>1, <2>3, OneRequestKeeps
<1> QED BY <1>6, <1>7

(* The engine answers the next entry of the log, and changes no request. *)
LEMMA ExecuteKeeps ==
  ASSUME WaitersInv, NEW sent \in BOOLEAN, Execute(sent)
  PROVE  WaitersInv'
<1> DEFINE k == delivered + 1
           r == log[k]
<1>1. UNCHANGED <<requests, pending, log>> /\ delivered < Len(log) /\ delivered' = k
  BY DEF Execute
<1>2. k \in 1 .. Len(log) /\ r \in 1 .. Len(requests) /\ r \in Nat \ {0}
  BY <1>1, LogElements DEF WaitersInv, Types
<1>3. requests[r].call.verdict \in Verdict
  BY <1>2, LogElements, CallsAssumption DEF WaitersInv, Request, Call
<1>4. results' = results
      \/ \E reply \in Reply : reply.correlation_id = r /\ results' = Append(results, reply)
  <2> DEFINE said == IF IsFresh(engine, r) THEN requests[r].call.verdict ELSE "Duplicate"
             reply == [correlation_id |-> r, response |-> said]
  <2>1. said \in Outcome
    BY <1>3 DEF Outcome
  <2>2. results' = results \/ results' = Append(results, reply)
    BY DEF Execute
  <2> HIDE DEF said, r
  <2>3. reply \in Reply /\ reply.correlation_id = r
    BY <1>2, <2>1 DEF Reply
  <2> QED BY <2>2, <2>3
<1>5. Types' /\ RepliesLogged'
  <2>1. CASE results' = results
    BY <1>1, <1>2, <2>1 DEF WaitersInv, Types, RepliesLogged
  <2>2. ASSUME NEW reply \in Reply, reply.correlation_id = r, results' = Append(results, reply)
        PROVE  Types' /\ RepliesLogged'
    <3>1. /\ results' \in Seq(Reply) /\ Len(results') = Len(results) + 1
          /\ results'[Len(results) + 1] = reply
          /\ \A i \in 1 .. Len(results) : results'[i] = results[i]
      BY <2>2, GrownSeq DEF WaitersInv, Types
    <3>2. \A i \in 1 .. Len(results') : i \in 1 .. Len(results) \/ i = Len(results) + 1
      BY <3>1, LogElements DEF WaitersInv
    <3>3. RepliesLogged'
      BY <1>1, <1>2, <2>2, <3>1, <3>2 DEF WaitersInv, RepliesLogged
    <3>4. Types'
      BY <1>1, <1>2, <3>1 DEF WaitersInv, Types
    <3> QED BY <3>3, <3>4
  <2> QED BY <1>4, <2>1, <2>2
<1>6. AnsweredLeft' /\ WaitersExact'
  BY <1>1 DEF WaitersInv, AnsweredLeft, WaitersExact
<1> QED BY <1>5, <1>6 DEF WaitersInv

(* The end of the subscriber and a restart of the engine touch no waiter. *)
LEMMA FaultKeeps ==
  ASSUME WaitersInv, SubscriberEnds \/ Restart
  PROVE  WaitersInv'
<1>1. UNCHANGED <<requests, pending, log>> /\ (results' = results \/ results' = << >>)
  BY DEF SubscriberEnds, Restart
<1>2. delivered' \in 0 .. Len(log)
  <2>1. delivered' = delivered \/ delivered' \in delivered .. Len(log)
    BY DEF SubscriberEnds, Restart
  <2>2. delivered \in 0 .. Len(log) /\ Len(log) \in Nat
    BY LogElements DEF WaitersInv, Types
  <2> QED BY <2>1, <2>2
<1>3. Types' /\ RepliesLogged'
  <2>1. CASE results' = results
    BY <1>1, <1>2, <2>1 DEF WaitersInv, Types, RepliesLogged
  <2>2. CASE results' = << >>
    <3>1. Len(<< >>) = 0 /\ << >> \in Seq(Reply)
      OBVIOUS
    <3> QED BY <1>1, <1>2, <2>2, <3>1 DEF WaitersInv, Types, RepliesLogged
  <2> QED BY <1>1, <2>1, <2>2
<1>4. AnsweredLeft' /\ WaitersExact'
  BY <1>1 DEF WaitersInv, AnsweredLeft, WaitersExact
<1> QED BY <1>3, <1>4 DEF WaitersInv

(* Every step keeps the invariant. *)
LEMMA InvStep == WaitersInv /\ [Next]_vars => WaitersInv'
<1> SUFFICES ASSUME WaitersInv, [Next]_vars PROVE WaitersInv'
  OBVIOUS
<1>1. CASE UNCHANGED vars
  BY <1>1 DEF vars, WaitersInv, Types, RepliesLogged, AnsweredLeft, WaitersExact
<1>2. CASE \E call \in Calls : Refuse(call) \/ Submit(call)
  BY <1>2, ReceiveKeeps
<1>3. CASE \E r \in 1 .. MaxRequests : Handler(r)
  BY <1>3, HandlerKeeps DEF Handler
<1>4. CASE \E r \in 1 .. Len(requests) : Disconnect(r)
  BY <1>4, DisconnectKeeps
<1>5. CASE Deliver
  BY <1>5, DeliverKeeps
<1>6. CASE \E sent \in BOOLEAN : Execute(sent)
  BY <1>6, ExecuteKeeps
<1>7. CASE SubscriberEnds \/ Restart
  BY <1>7, FaultKeeps
<1> QED BY <1>1, <1>2, <1>3, <1>4, <1>5, <1>6, <1>7 DEF Next

(* For any accounts, calls, window and number of requests and faults: a     *)
(* handler that can still be answered is in the map `pending`, and only a   *)
(* running handler or one dropped by its client's disconnect is.            *)
THEOREM WaitersAlwaysExact == Spec => []WaitersExact
<1>1. WaitersInv => WaitersExact
  BY DEF WaitersInv
<1> QED BY <1>1, InvInit, InvStep, PTL DEF Spec

-----------------------------------------------------------------------------
(* Retries and answers.                                                    *)

KeyValue == Accounts \X ClientIds

-----------------------------------------------------------------------------
(* The idempotency window and the keys executed so far                     *)

\* The commands of the same account executed after the i-th, up to the n-th.
Own(ks, i, n) == {k \in i + 1 .. n : ks[k][1] = ks[i][1]}

\* The account's queue holds its last DedupWindow ids, in order and distinct, ..
QueueEndsWith(d, ks) ==
  \A i \in 1 .. Len(ks) :
    LET q == d.order[ks[i][1]]
        c == Cardinality(Own(ks, i, Len(ks)))
    IN  c < DedupWindow => c < Len(q) /\ q[Len(q) - c] = ks[i][2]

QueueDistinct(d) ==
  \A a \in Accounts : \A p, q \in 1 .. Len(d.order[a]) :
    p # q => d.order[a][p] # d.order[a][q]

QueueSeen(d) ==
  \A a \in Accounts : /\ Len(d.order[a]) <= DedupWindow
                      /\ \A p \in 1 .. Len(d.order[a]) : <<a, d.order[a][p]>> \in d.seen

\* .. every key seen was executed, and none again within the window.
SeenExecuted(d, ks) == \A key \in d.seen : \E i \in 1 .. Len(ks) : ks[i] = key

RepeatsApart(ks) ==
  \A i, j \in 1 .. Len(ks) :
    i < j /\ ks[i] = ks[j] => Cardinality(Own(ks, i, j - 1)) >= DedupWindow

WindowGood(d, ks) ==
  /\ d \in Window!DedupValue /\ ks \in Seq(KeyValue)
  /\ QueueEndsWith(d, ks) /\ QueueDistinct(d) /\ QueueSeen(d)
  /\ SeenExecuted(d, ks) /\ RepeatsApart(ks)

(* A new window has seen nothing. *)
LEMMA WindowNew == WindowGood(Window!NewDedup, << >>)
<1>1. Window!NewDedup \in Window!DedupValue
  BY DEF Window!NewDedup, Window!DedupValue
<1>2. /\ Window!NewDedup.seen = {}
      /\ \A a \in Accounts : Window!NewDedup.order[a] = << >>
  BY DEF Window!NewDedup
<1>3. QueueDistinct(Window!NewDedup) /\ QueueSeen(Window!NewDedup)
  BY <1>2, RequestsAssumption DEF QueueDistinct, QueueSeen
<1>4. /\ SeenExecuted(Window!NewDedup, << >>) /\ RepeatsApart(<< >>)
      /\ QueueEndsWith(Window!NewDedup, << >>)
  BY <1>2 DEF SeenExecuted, RepeatsApart, QueueEndsWith
<1> QED BY <1>1, <1>3, <1>4 DEF WindowGood

(* Later commands of an account: a finite set, that grows by at most one.  *)
LEMMA OwnGrows ==
  ASSUME NEW ks \in Seq(KeyValue), NEW key \in KeyValue, NEW i \in 1 .. Len(ks)
  PROVE  LET more == Append(ks, key)
             n    == Len(ks)
         IN  /\ \A m \in 0 .. n : Own(more, i, m) = Own(ks, i, m)
             /\ Cardinality(Own(ks, i, n)) \in Nat
             /\ Cardinality(Own(more, i, n + 1)) =
                  IF key[1] = ks[i][1] THEN Cardinality(Own(ks, i, n)) + 1
                  ELSE Cardinality(Own(ks, i, n))
<1> DEFINE more == Append(ks, key)
           n    == Len(ks)
           S    == Own(ks, i, n)
<1>1. /\ n \in Nat /\ more[n + 1] = key
      /\ \A j \in 1 .. n : more[j] = ks[j]
  OBVIOUS
<1> HIDE DEF more
<1>2. \A m \in 0 .. n : Own(more, i, m) = Own(ks, i, m)
  BY <1>1 DEF Own
<1>3. IsFiniteSet(S) /\ n + 1 \notin S
  <2>1. IsFiniteSet(i + 1 .. n)
    BY <1>1, FS_Interval
  <2>2. S \subseteq i + 1 .. n
    BY DEF Own
  <2>3. n + 1 \notin i + 1 .. n
    BY <1>1
  <2> QED BY <2>1, <2>2, <2>3, FS_Subset
<1>4. Cardinality(S) \in Nat
  BY <1>3, FS_CardinalityType
<1>5. Own(more, i, n + 1) = IF key[1] = ks[i][1] THEN S \cup {n + 1} ELSE S
  <2>1. more[i] = ks[i]
    BY <1>1
  <2>2. \A k \in i + 1 .. n + 1 : k = n + 1 \/ (k \in i + 1 .. n /\ more[k] = ks[k])
    BY <1>1
  <2>3. i + 1 .. n \subseteq i + 1 .. n + 1 /\ n + 1 \in i + 1 .. n + 1
    BY <1>1
  <2>4. \A k : k \in Own(more, i, n + 1) <=> k \in S \/ (k = n + 1 /\ key[1] = ks[i][1])
    BY <1>1, <2>1, <2>2, <2>3 DEF Own
  <2> QED BY <2>4
<1>6. Cardinality(S \cup {n + 1}) = Cardinality(S) + 1
  BY <1>3, FS_AddElement
<1> QED BY <1>2, <1>4, <1>5, <1>6 DEF more

\* The queue with one more id: the oldest leaves when it is full.
Pushed(q, x) == IF Len(Append(q, x)) > DedupWindow THEN Tail(Append(q, x)) ELSE Append(q, x)

(* A push keeps the ids distinct and moves the ones before it up by one. *)
LEMMA QueuePush ==
  ASSUME NEW q \in Seq(ClientIds), NEW x \in ClientIds, Len(q) <= DedupWindow,
         \A i, j \in 1 .. Len(q) : i # j => q[i] # q[j],
         \A i \in 1 .. Len(q) : q[i] # x,
         NEW t, t = Pushed(q, x)
  PROVE  /\ t \in Seq(ClientIds) /\ Len(t) \in Nat /\ Len(t) <= DedupWindow
         /\ \A i, j \in 1 .. Len(t) : i # j => t[i] # t[j]
         /\ \A i \in 1 .. Len(t) : t[i] = x \/ \E j \in 1 .. Len(q) : t[i] = q[j]
         /\ Len(Append(q, x)) > DedupWindow => \A i \in 1 .. Len(t) : t[i] # Head(Append(q, x))
         /\ DedupWindow > 0 => Len(t) > 0 /\ t[Len(t)] = x
         /\ \A c \in Nat : c < Len(q) /\ c + 1 < DedupWindow =>
              c + 1 < Len(t) /\ t[Len(t) - (c + 1)] = q[Len(q) - c]
<1> DEFINE n == Len(q)
           r == Append(q, x)
<1>5. t = (IF Len(r) > DedupWindow THEN Tail(r) ELSE r) /\ DedupWindow \in Nat
  BY RequestsAssumption DEF Pushed
<1>1. /\ n \in Nat /\ r \in Seq(ClientIds) /\ Len(r) = n + 1 /\ r[n + 1] = x
      /\ \A i \in 1 .. n : r[i] = q[i]
  BY GrownSeq
<1> HIDE DEF r
<1>2. \A i, j \in 1 .. n + 1 : i # j => r[i] # r[j]
  <2>1. \A i \in 1 .. n + 1 : i = n + 1 \/ i \in 1 .. n
    BY <1>1
  <2> QED BY <1>1, <2>1
<1>3. CASE n + 1 > DedupWindow
  <2>1. /\ t = Tail(r) /\ n = DedupWindow /\ Head(r) = r[1]
    BY <1>1, <1>3, <1>5
  <2>2. /\ t \in Seq(ClientIds) /\ Len(t) = n
        /\ \A i \in 1 .. n : t[i] = r[i + 1]
    BY <1>1, <2>1
  <2>3. \A i \in 1 .. n : i + 1 \in 1 .. n + 1 /\ i + 1 # 1
    BY <1>1
  <2>4. \A i, j \in 1 .. n : i # j => t[i] # t[j]
    <3> TAKE i, j \in 1 .. n
    <3> HAVE i # j
    <3>1. i + 1 # j + 1 /\ i + 1 \in 1 .. n + 1 /\ j + 1 \in 1 .. n + 1
      BY <1>1
    <3>2. r[i + 1] # r[j + 1]
      BY <1>2, <3>1
    <3> QED BY <2>2, <3>2
  <2>5. \A i \in 1 .. n : t[i] # Head(r)
    <3> TAKE i \in 1 .. n
    <3>1. 1 \in 1 .. n + 1 /\ i + 1 \in 1 .. n + 1 /\ i + 1 # 1
      BY <1>1
    <3>2. r[i + 1] # r[1]
      BY <1>2, <3>1
    <3> QED BY <2>1, <2>2, <3>2
  <2>6. \A i \in 1 .. n : t[i] = x \/ \E j \in 1 .. n : t[i] = q[j]
    <3> TAKE i \in 1 .. n
    <3>1. CASE i = n
      BY <1>1, <2>2, <3>1
    <3>2. CASE i # n
      <4>1. i + 1 \in 1 .. n
        BY <1>1, <3>2
      <4> QED BY <1>1, <2>2, <4>1
    <3> QED BY <3>1, <3>2
  <2>7. DedupWindow > 0 => n > 0 /\ t[n] = x
    <3>1. n > 0 => n \in 1 .. n
      BY <1>1
    <3> QED BY <1>1, <2>1, <2>2, <3>1
  <2>8. ASSUME NEW c \in Nat, c < n, c + 1 < DedupWindow
        PROVE  c + 1 < n /\ t[n - (c + 1)] = q[n - c]
    <3>1. n - (c + 1) \in 1 .. n /\ (n - (c + 1)) + 1 = n - c /\ n - c \in 1 .. n
      BY <1>1, <2>1, <2>8
    <3>2. t[n - (c + 1)] = r[n - c] /\ r[n - c] = q[n - c]
      BY <1>1, <2>2, <3>1
    <3> QED BY <2>1, <2>8, <3>2
  <2> QED BY <1>1, <2>1, <2>2, <2>4, <2>5, <2>6, <2>7, <2>8 DEF r
<1>4. CASE ~(n + 1 > DedupWindow)
  <2>1. t = r
    BY <1>1, <1>4, <1>5
  <2>2. \A i \in 1 .. n + 1 : r[i] = x \/ \E j \in 1 .. n : r[i] = q[j]
    <3>1. \A i \in 1 .. n + 1 : i = n + 1 \/ i \in 1 .. n
      BY <1>1
    <3> QED BY <1>1, <3>1
  <2>3. ASSUME NEW c \in Nat, c < n, c + 1 < DedupWindow
        PROVE  c + 1 < n + 1 /\ r[n + 1 - (c + 1)] = q[n - c]
    <3>1. n + 1 - (c + 1) = n - c /\ n - c \in 1 .. n
      BY <1>1, <2>3
    <3> QED BY <1>1, <2>3, <3>1
  <2>4. n + 1 \in Nat /\ n + 1 <= DedupWindow /\ n + 1 > 0
    BY <1>1, <1>4, <1>5
  <2> QED BY <1>1, <1>2, <1>4, <2>1, <2>2, <2>3, <2>4 DEF r
<1> QED BY <1>3, <1>4

\* One queue changes, one key comes and at most one goes.
Inserted(e, d, a, x) ==
  /\ e \in Window!DedupValue
  /\ e.order[a] = Pushed(d.order[a], x)
  /\ \A b \in Accounts : b # a => e.order[b] = d.order[b]
  /\ e.seen = IF Len(Append(d.order[a], x)) > DedupWindow
              THEN (d.seen \cup {<<a, x>>}) \ {<<a, Head(Append(d.order[a], x))>>}
              ELSE d.seen \cup {<<a, x>>}

(* What insert() makes of the window. *)
LEMMA InsertIs ==
  ASSUME NEW d \in Window!DedupValue, NEW a \in Accounts, NEW x \in ClientIds
  PROVE  Inserted(Window!DedupInsert(d, a, x), d, a, x)
<1> DEFINE e == Window!DedupInsert(d, a, x)
           r == Append(d.order[a], x)
           t == Pushed(d.order[a], x)
           s == IF Len(r) > DedupWindow THEN (d.seen \cup {<<a, x>>}) \ {<<a, Head(r)>>}
                ELSE d.seen \cup {<<a, x>>}
<1>1. d.seen \in SUBSET KeyValue /\ d.order \in [Accounts -> Seq(ClientIds)]
  BY DEF Window!DedupValue, KeyValue
<1>2. r \in Seq(ClientIds) /\ r # << >>
  BY <1>1
<1>3. Tail(r) \in Seq(ClientIds)
  BY <1>2
<1>4. t \in Seq(ClientIds) /\ s \in SUBSET KeyValue
  BY <1>1, <1>2, <1>3 DEF KeyValue, Pushed
<1>5. e = [seen |-> s, order |-> [d.order EXCEPT ![a] = t]]
  BY DEF Window!DedupInsert, Pushed
<1>7. s = IF Len(Append(d.order[a], x)) > DedupWindow
          THEN (d.seen \cup {<<a, x>>}) \ {<<a, Head(Append(d.order[a], x))>>}
          ELSE d.seen \cup {<<a, x>>}
  OBVIOUS
<1> HIDE DEF e, r, s, t
<1>6. /\ e.seen = s /\ e.order[a] = t /\ e \in Window!DedupValue
      /\ \A b \in Accounts : b # a => e.order[b] = d.order[b]
  BY <1>1, <1>4, <1>5 DEF Window!DedupValue, KeyValue
<1> QED BY <1>6, <1>7 DEF Inserted, e, t

(* A fresh key is executed: the window is good for the keys and this one. *)
LEMMA WindowStep ==
  ASSUME NEW d, NEW ks, WindowGood(d, ks), NEW a \in Accounts, NEW x \in ClientIds,
         <<a, x>> \notin d.seen,
         NEW e, e = Window!DedupInsert(d, a, x),
         NEW more, more = Append(ks, <<a, x>>)
  PROVE  WindowGood(e, more)
<1> DEFINE n == Len(ks)
           q == d.order[a]
           r == Append(q, x)
           t == e.order[a]
<1>1. d \in Window!DedupValue /\ ks \in Seq(KeyValue) /\ <<a, x>> \in KeyValue
      /\ DedupWindow \in Nat
  BY RequestsAssumption DEF WindowGood, KeyValue
<1>2. /\ n \in Nat /\ more \in Seq(KeyValue) /\ Len(more) = n + 1 /\ more[n + 1] = <<a, x>>
      /\ \A i \in 1 .. n : more[i] = ks[i]
  BY <1>1, GrownSeq
<1>3. /\ e \in Window!DedupValue
      /\ t = Pushed(q, x)
      /\ \A b \in Accounts : b # a => e.order[b] = d.order[b]
      /\ e.seen = IF Len(r) > DedupWindow
                  THEN (d.seen \cup {<<a, x>>}) \ {<<a, Head(r)>>}
                  ELSE d.seen \cup {<<a, x>>}
  <2> HIDE DEF n
  <2>1. Inserted(e, d, a, x)
    BY <1>1, InsertIs
  <2> QED BY <2>1 DEF Inserted
<1>4. /\ q \in Seq(ClientIds) /\ Len(q) <= DedupWindow
      /\ \A i, j \in 1 .. Len(q) : i # j => q[i] # q[j]
      /\ \A i \in 1 .. Len(q) : q[i] # x /\ <<a, q[i]>> \in d.seen
  BY <1>1 DEF WindowGood, QueueDistinct, QueueSeen, Window!DedupValue
<1> HIDE DEF q, t
<1>5. /\ Len(t) \in Nat /\ Len(t) <= DedupWindow
      /\ \A i, j \in 1 .. Len(t) : i # j => t[i] # t[j]
      /\ \A i \in 1 .. Len(t) : t[i] = x \/ \E j \in 1 .. Len(q) : t[i] = q[j]
      /\ Len(r) > DedupWindow => \A i \in 1 .. Len(t) : t[i] # Head(r)
      /\ DedupWindow > 0 => Len(t) > 0 /\ t[Len(t)] = x
      /\ \A c \in Nat : c < Len(q) /\ c + 1 < DedupWindow =>
           c + 1 < Len(t) /\ t[Len(t) - (c + 1)] = q[Len(q) - c]
  BY <1>3, <1>4, QueuePush
<1> HIDE DEF r
<1>7. QueueDistinct(e)
  <2> SUFFICES ASSUME NEW b \in Accounts
               PROVE  \A i, j \in 1 .. Len(e.order[b]) : i # j => e.order[b][i] # e.order[b][j]
    BY DEF QueueDistinct
  <2>1. CASE b = a
    <3>1. e.order[b] = t
      BY <2>1 DEF t
    <3> QED BY <1>5, <3>1
  <2>2. CASE b # a
    <3>1. e.order[b] = d.order[b]
      BY <1>3, <2>2
    <3>2. QueueDistinct(d)
      BY DEF WindowGood
    <3> QED BY <3>1, <3>2 DEF QueueDistinct
  <2> QED BY <2>1, <2>2
<1>8. QueueSeen(e)
  <2> SUFFICES ASSUME NEW b \in Accounts
               PROVE  /\ Len(e.order[b]) <= DedupWindow
                      /\ \A i \in 1 .. Len(e.order[b]) : <<b, e.order[b][i]>> \in e.seen
    BY DEF QueueSeen
  <2>1. CASE b = a
    <3>1. \A i \in 1 .. Len(t) : <<a, t[i]>> \in e.seen
      <4> TAKE i \in 1 .. Len(t)
      <4>1. <<a, t[i]>> \in d.seen \cup {<<a, x>>}
        BY <1>4, <1>5
      <4>2. Len(r) > DedupWindow => <<a, t[i]>> # <<a, Head(r)>>
        BY <1>5
      <4> QED BY <1>3, <4>1, <4>2
    <3> QED BY <1>5, <2>1, <3>1 DEF t
  <2>2. CASE b # a
    <3>1. /\ e.order[b] = d.order[b] /\ Len(d.order[b]) <= DedupWindow
          /\ \A i \in 1 .. Len(d.order[b]) : <<b, d.order[b][i]>> \in d.seen
      BY <1>3, <2>2 DEF WindowGood, QueueSeen
    <3>2. \A y : <<b, y>> \in d.seen => <<b, y>> \in e.seen
      BY <1>3, <2>2
    <3> QED BY <3>1, <3>2
  <2> QED BY <2>1, <2>2
<1>9. SeenExecuted(e, more)
  <2> SUFFICES ASSUME NEW key \in e.seen PROVE \E i \in 1 .. n + 1 : more[i] = key
    BY <1>2 DEF SeenExecuted
  <2>1. CASE key = <<a, x>>
    <3>1. n + 1 \in 1 .. n + 1
      BY <1>2
    <3> QED BY <1>2, <2>1, <3>1
  <2>2. CASE key \in d.seen
    <3>1. PICK i \in 1 .. n : ks[i] = key
      BY <2>2 DEF WindowGood, SeenExecuted
    <3>2. i \in 1 .. n + 1 /\ more[i] = key
      BY <1>2, <3>1
    <3> QED BY <3>2
  <2> QED BY <1>3, <2>1, <2>2
<1>10. ASSUME NEW i \in 1 .. n
       PROVE  /\ \A m \in 0 .. n : Own(more, i, m) = Own(ks, i, m)
              /\ Cardinality(Own(ks, i, n)) \in Nat
              /\ Cardinality(Own(more, i, n + 1)) =
                   IF a = ks[i][1] THEN Cardinality(Own(ks, i, n)) + 1
                   ELSE Cardinality(Own(ks, i, n))
  BY <1>1, OwnGrows
<1>11. QueueEndsWith(e, more)
  <2> SUFFICES ASSUME NEW i \in 1 .. Len(more),
                      Cardinality(Own(more, i, Len(more))) < DedupWindow
               PROVE  LET b == more[i][1]
                          c == Cardinality(Own(more, i, Len(more)))
                      IN  c < Len(e.order[b]) /\ e.order[b][Len(e.order[b]) - c] = more[i][2]
    BY DEF QueueEndsWith
  <2> DEFINE b == more[i][1]
             c == Cardinality(Own(more, i, Len(more)))
  <2>3. i \in 1 .. n + 1 /\ c = Cardinality(Own(more, i, n + 1)) /\ c < DedupWindow
    BY <1>2
  <2> SUFFICES c < Len(e.order[b]) /\ e.order[b][Len(e.order[b]) - c] = more[i][2]
    OBVIOUS
  <2>4. b = more[i][1]
    OBVIOUS
  <2> HIDE DEF b, c
  <2>1. CASE i = n + 1
    <3>1. Own(more, i, n + 1) = {}
      BY <1>2, <2>1 DEF Own
    <3>2. b = a /\ more[i][2] = x
      BY <1>2, <2>1, <2>4
    <3>4. c = 0
      BY <2>3, <3>1, FS_EmptySet
    <3>5. DedupWindow > 0
      BY <1>1, <2>3, <3>4
    <3>3. Len(t) - 0 = Len(t)
      BY <1>5
    <3> QED BY <1>5, <3>2, <3>3, <3>4, <3>5 DEF t
  <2>2. CASE i \in 1 .. n
    <3> DEFINE o == Cardinality(Own(ks, i, n))
    <3>1. more[i] = ks[i] /\ ks[i] \in KeyValue /\ b = ks[i][1] /\ b \in Accounts
      BY <1>1, <1>2, <2>2, <2>4 DEF KeyValue
    <3>2. o \in Nat /\ c = IF a = b THEN o + 1 ELSE o
      BY <1>10, <2>2, <2>3, <3>1
    <3>3. o < DedupWindow =>
            o < Len(d.order[b]) /\ d.order[b][Len(d.order[b]) - o] = ks[i][2]
      BY <2>2, <3>1 DEF WindowGood, QueueEndsWith
    <3> HIDE DEF o
    <3>4. CASE b = a
      <4>1. o + 1 < DedupWindow /\ o < DedupWindow /\ c = o + 1
        BY <1>1, <2>3, <3>2, <3>4
      <4>2. o < Len(q) /\ q[Len(q) - o] = ks[i][2]
        BY <3>3, <3>4, <4>1 DEF q
      <4>3. o + 1 < Len(t) /\ t[Len(t) - (o + 1)] = q[Len(q) - o]
        BY <1>5, <3>2, <4>1, <4>2
      <4> QED BY <3>1, <3>4, <4>1, <4>2, <4>3 DEF t
    <3>5. CASE b # a
      BY <1>3, <2>3, <3>1, <3>2, <3>3, <3>5
    <3> QED BY <3>4, <3>5
  <2> QED BY <1>2, <2>1, <2>2, <2>3
<1>12. RepeatsApart(more)
  <2> SUFFICES ASSUME NEW i \in 1 .. n + 1, NEW j \in 1 .. n + 1, i < j, more[i] = more[j]
               PROVE  Cardinality(Own(more, i, j - 1)) >= DedupWindow
    BY <1>2 DEF RepeatsApart
  <2>1. i \in 1 .. n /\ j - 1 \in 0 .. n /\ more[i] = ks[i]
    BY <1>2
  <2>2. Own(more, i, j - 1) = Own(ks, i, j - 1)
    BY <1>10, <2>1
  <2>3. CASE j \in 1 .. n
    BY <1>2, <2>1, <2>2, <2>3 DEF WindowGood, RepeatsApart
  <2>4. CASE j = n + 1
    <3>1. ks[i] = <<a, x>> /\ j - 1 = n
      BY <1>2, <2>1, <2>4
    <3> DEFINE o == Cardinality(Own(ks, i, n))
    <3>2. o \in Nat
      BY <1>10, <2>1
    <3>3. o < DedupWindow => o < Len(q) /\ q[Len(q) - o] = x
      BY <2>1, <3>1 DEF WindowGood, QueueEndsWith, q
    <3> HIDE DEF o
    <3>4. o < Len(q) => Len(q) - o \in 1 .. Len(q)
      BY <1>4, <3>2
    <3>5. ~(o < DedupWindow)
      BY <1>4, <3>3, <3>4
    <3>6. o >= DedupWindow
      BY <1>1, <3>2, <3>5
    <3> QED BY <2>2, <3>1, <3>6 DEF o
  <2> QED BY <1>2, <2>3, <2>4
<1> QED BY <1>2, <1>3, <1>7, <1>8, <1>9, <1>11, <1>12 DEF WindowGood

-----------------------------------------------------------------------------
(* The engine that a log makes, with the requests and the log as values    *)

KeyOf(rq, r) == <<rq[r].call.account_id, rq[r].call.client_order_id>>

\* Requests that passed the extractors.
Known(rq) == {r \in 1 .. Len(rq) : KeyOf(rq, r) \in KeyValue}

KeysOf(rq, e) == [i \in 1 .. Len(e.executed) |-> KeyOf(rq, e.executed[i])]

GoodEngine(rq, e) ==
  /\ e \in EngineValue
  /\ \A i \in 1 .. Len(e.executed) : e.executed[i] \in Known(rq)
  /\ WindowGood(e.dedup, KeysOf(rq, e))

\* ApplyCommand and Replayed.
Applied(rq, e, r) ==
  IF KeyOf(rq, r) \in e.dedup.seen THEN e
  ELSE [dedup    |-> Window!DedupInsert(e.dedup, KeyOf(rq, r)[1], KeyOf(rq, r)[2]),
        executed |-> Append(e.executed, r)]

Rep(rq, lg, k) ==
  Loop([n \in Nat |-> [e \in EngineValue |->
          IF n \in DOMAIN lg THEN Applied(rq, e, lg[n]) ELSE e]], NewEngine)[k]

(* They are what the module has. *)
LEMMA AppliedIs ==
  /\ \A e, r : ApplyCommand(e, r) = Applied(requests, e, r)
  /\ \A k : Replayed(k) = Rep(requests, log, k)
  /\ \A e, r : IsFresh(e, r) <=> KeyOf(requests, r) \notin e.dedup.seen
<1>1. \A e, r : IsFresh(e, r) <=> KeyOf(requests, r) \notin e.dedup.seen
  BY DEF IsFresh, Window!Fresh, Key, KeyOf
<1>2. \A e, r : ApplyCommand(e, r) = Applied(requests, e, r)
  BY <1>1 DEF ApplyCommand, Applied, Key, KeyOf
<1>3. \A k : Replayed(k) = Rep(requests, log, k)
  BY <1>2 DEF Replayed, Rep
<1> QED BY <1>1, <1>2, <1>3

(* A command that is applied leaves an engine of the right type. *)
LEMMA AppliedType ==
  ASSUME NEW rq, NEW e \in EngineValue, NEW r \in Known(rq), Len(rq) \in Nat
  PROVE  Applied(rq, e, r) \in EngineValue
<1>1. e.dedup \in Window!DedupValue /\ e.executed \in Seq(Nat)
  BY DEF EngineValue
<1>2. KeyOf(rq, r)[1] \in Accounts /\ KeyOf(rq, r)[2] \in ClientIds /\ r \in Nat
  BY DEF Known, KeyValue
<1>3. Window!DedupInsert(e.dedup, KeyOf(rq, r)[1], KeyOf(rq, r)[2]) \in Window!DedupValue
  BY <1>1, <1>2, InsertIs DEF Inserted
<1>4. Append(e.executed, r) \in Seq(Nat)
  BY <1>1, <1>2
<1> QED BY <1>3, <1>4 DEF Applied, EngineValue

(* .. and a good one, in which nothing executed is forgotten. *)
LEMMA AppliedGood ==
  ASSUME NEW rq, NEW e, GoodEngine(rq, e), NEW r \in Known(rq), Len(rq) \in Nat
  PROVE  /\ GoodEngine(rq, Applied(rq, e, r))
         /\ \A i \in 1 .. Len(e.executed) :
              /\ i \in 1 .. Len(Applied(rq, e, r).executed)
              /\ Applied(rq, e, r).executed[i] = e.executed[i]
         /\ KeyOf(rq, r) \notin e.dedup.seen =>
              \E i \in 1 .. Len(Applied(rq, e, r).executed) : Applied(rq, e, r).executed[i] = r
<1> DEFINE key == KeyOf(rq, r)
           f   == Applied(rq, e, r)
           m   == Len(e.executed)
<1>1. CASE key \in e.dedup.seen
  BY <1>1 DEF Applied
<1>2. CASE key \notin e.dedup.seen
  <2>1. /\ f.dedup = Window!DedupInsert(e.dedup, key[1], key[2])
        /\ f.executed = Append(e.executed, r)
    BY <1>2 DEF Applied
  <2>2. e \in EngineValue /\ e.executed \in Seq(Nat) /\ r \in Nat
    BY DEF GoodEngine, EngineValue, Known
  <2>3. f \in EngineValue
    BY <2>2, AppliedType
  <2> HIDE DEF f
  <2>4. /\ m \in Nat /\ Len(f.executed) = m + 1 /\ f.executed[m + 1] = r
        /\ \A i \in 1 .. m : f.executed[i] = e.executed[i]
    BY <2>1, <2>2, GrownSeq
  <2>5. \A i \in 1 .. m + 1 : i \in 1 .. m \/ i = m + 1
    BY <2>4
  <2>6. \A i \in 1 .. Len(f.executed) : f.executed[i] \in Known(rq)
    BY <2>4, <2>5 DEF GoodEngine
  <2>7. key[1] \in Accounts /\ key[2] \in ClientIds /\ key = <<key[1], key[2]>>
    BY DEF Known, KeyValue, KeyOf
  <2>10. m + 1 \in 1 .. Len(f.executed) /\ 1 .. m \subseteq 1 .. Len(f.executed)
    BY <2>4
  <2>8. KeysOf(rq, f) = Append(KeysOf(rq, e), key)
    <3>1. KeysOf(rq, e) \in Seq(KeyValue) /\ Len(KeysOf(rq, e)) = m
      BY <2>4, SMTT(30) DEF KeysOf, GoodEngine, Known
    <3> DEFINE ks == KeysOf(rq, e)
               fs == KeysOf(rq, f)
    <3>2. key \in KeyValue
      BY DEF Known
    <3> HIDE DEF ks, key
    <3>3. /\ Append(ks, key) \in Seq(KeyValue) /\ Len(Append(ks, key)) = m + 1
          /\ Append(ks, key)[m + 1] = key /\ \A i \in 1 .. m : Append(ks, key)[i] = ks[i]
      BY <3>1, <3>2, GrownSeq DEF ks
    <3>4. fs \in Seq(KeyValue) /\ Len(fs) = m + 1
      BY <2>4, <2>6 DEF KeysOf, Known
    <3>5. \A i \in 1 .. m : fs[i] = ks[i]
      BY <2>4, <2>10 DEF KeysOf, ks
    <3>6. fs[m + 1] = key
      BY <2>4, <2>10 DEF KeysOf, key
    <3> HIDE DEF fs
    <3>7. \A i \in 1 .. m + 1 : fs[i] = Append(ks, key)[i]
      BY <2>5, <3>3, <3>5, <3>6
    <3>8. fs = Append(ks, key)
      BY <3>3, <3>4, <3>7, SeqEqual
    <3> QED BY <3>8 DEF fs, ks
  <2>9. WindowGood(f.dedup, KeysOf(rq, f))
    <3>1. WindowGood(e.dedup, KeysOf(rq, e)) /\ <<key[1], key[2]>> \notin e.dedup.seen
      BY <1>2, <2>7 DEF GoodEngine
    <3>2. KeysOf(rq, f) = Append(KeysOf(rq, e), <<key[1], key[2]>>)
      BY <2>7, <2>8
    <3> HIDE DEF key
    <3> QED BY <2>1, <2>7, <3>1, <3>2, WindowStep
  <2> QED BY <2>3, <2>4, <2>6, <2>9, <2>10 DEF GoodEngine, f
<1> QED BY <1>1, <1>2

(* The engine of an empty log. *)
LEMMA NewGood == \A rq : GoodEngine(rq, NewEngine)
<1> TAKE rq
<1>1. NewEngine.executed = << >> /\ NewEngine.dedup = Window!NewDedup
  BY DEF NewEngine
<1>2. KeysOf(rq, NewEngine) = << >>
  BY <1>1 DEF KeysOf
<1>3. NewEngine \in EngineValue
  BY WindowNew DEF NewEngine, EngineValue, WindowGood
<1> QED BY <1>1, <1>2, <1>3, WindowNew DEF GoodEngine

(* The engine after entry k + 1 is the one after entry k with it applied. *)
LEMMA RepSteps ==
  ASSUME NEW rq, Len(rq) \in Nat, NEW lg \in Seq(Known(rq))
  PROVE  /\ Rep(rq, lg, 0) = NewEngine
         /\ \A k \in Nat : GoodEngine(rq, Rep(rq, lg, k))
         /\ \A k \in Nat : Rep(rq, lg, k + 1) =
              IF k + 1 \in 1 .. Len(lg) THEN Applied(rq, Rep(rq, lg, k), lg[k + 1])
              ELSE Rep(rq, lg, k)
<1> DEFINE body == [n \in Nat |-> [e \in EngineValue |->
                      IF n \in DOMAIN lg THEN Applied(rq, e, lg[n]) ELSE e]]
           run == Loop(body, NewEngine)
           G == {e \in EngineValue : GoodEngine(rq, e)}
<1>1. NewEngine \in G
  BY NewGood DEF GoodEngine
<1>2. \A n \in DOMAIN lg : lg[n] \in Known(rq)
  OBVIOUS
<1>3. body \in [Nat -> [EngineValue -> EngineValue]]
  BY <1>2, AppliedType
<1>4. ASSUME NEW n \in Nat, NEW e \in G PROVE body[n + 1][e] \in G
  <2>1. body[n + 1][e] = IF n + 1 \in DOMAIN lg THEN Applied(rq, e, lg[n + 1]) ELSE e
    OBVIOUS
  <2>2. n + 1 \in DOMAIN lg => GoodEngine(rq, Applied(rq, e, lg[n + 1]))
    BY <1>2, AppliedGood
  <2> HIDE DEF body
  <2> QED BY <2>1, <2>2 DEF GoodEngine
<1>5. run[0] = NewEngine
  <2> HIDE DEF body
  <2> QED BY <1>1, <1>3, LoopDef
<1>6. \A n \in Nat : run[n + 1] = body[n + 1][run[n]]
  <2> HIDE DEF body
  <2> QED BY <1>1, <1>3, LoopDef
<1>7. \A n \in Nat : run[n] \in G
  <2> HIDE DEF body, G
  <2>1. G \in SUBSET EngineValue
    BY DEF G
  <2> QED BY <1>1, <1>3, <1>4, <2>1, LoopInvariant
<1>8. \A k : Rep(rq, lg, k) = run[k]
  BY Zenon DEF Rep
<1> HIDE DEF run
<1>9. ASSUME NEW k \in Nat
      PROVE  run[k + 1] = IF k + 1 \in 1 .. Len(lg) THEN Applied(rq, run[k], lg[k + 1])
                          ELSE run[k]
  <2> DEFINE e == run[k]
  <2>1. e \in EngineValue
    <3> HIDE DEF body
    <3> QED BY <1>7
  <2>2. run[k + 1] = body[k + 1][e]
    <3> HIDE DEF body
    <3> QED BY <1>6, Zenon
  <2> HIDE DEF e
  <2>3. body[k + 1][e] = IF k + 1 \in DOMAIN lg THEN Applied(rq, e, lg[k + 1]) ELSE e
    BY <2>1
  <2>4. DOMAIN lg = 1 .. Len(lg)
    OBVIOUS
  <2> HIDE DEF body
  <2> QED BY <2>2, <2>3, <2>4 DEF e
<1> HIDE DEF body
<1> QED BY <1>5, <1>7, <1>8, <1>9

(* The engine of a prefix stays what it is when the log grows and requests *)
(* change in anything but their calls.                                     *)
LEMMA RepSame ==
  ASSUME NEW rq, Len(rq) \in Nat, NEW lg \in Seq(Known(rq)),
         NEW rr, Len(rr) \in Nat, NEW mo \in Seq(Known(rr)),
         Len(lg) <= Len(mo),
         \A i \in 1 .. Len(lg) : mo[i] = lg[i] /\ KeyOf(rr, lg[i]) = KeyOf(rq, lg[i])
  PROVE  \A k \in 0 .. Len(lg) : Rep(rr, mo, k) = Rep(rq, lg, k)
<1> DEFINE U == {n \in Nat : n <= Len(lg) => Rep(rr, mo, n) = Rep(rq, lg, n)}
<1>1. 0 \in U
  BY RepSteps
<1>2. ASSUME NEW n \in U PROVE n + 1 \in U
  <2> SUFFICES ASSUME n + 1 <= Len(lg) PROVE Rep(rr, mo, n + 1) = Rep(rq, lg, n + 1)
    OBVIOUS
  <2>1. /\ n \in Nat /\ n + 1 \in 1 .. Len(lg) /\ n + 1 \in 1 .. Len(mo)
        /\ Rep(rr, mo, n) = Rep(rq, lg, n)
    OBVIOUS
  <2>2. Rep(rr, mo, n + 1) = Applied(rr, Rep(rr, mo, n), mo[n + 1])
    BY <2>1, RepSteps
  <2>3. Rep(rq, lg, n + 1) = Applied(rq, Rep(rq, lg, n), lg[n + 1])
    BY <2>1, RepSteps
  <2>4. \A e : Applied(rr, e, lg[n + 1]) = Applied(rq, e, lg[n + 1])
    BY <2>1 DEF Applied
  <2> QED BY <2>1, <2>2, <2>3, <2>4
<1>3. U = Nat
  BY <1>1, <1>2, SetInduction
<1> QED BY <1>3

Ran(e) == {e.executed[i] : i \in 1 .. Len(e.executed)}

(* What was executed in a prefix was executed. *)
LEMMA RepGrows ==
  ASSUME NEW rq, Len(rq) \in Nat, NEW lg \in Seq(Known(rq)),
         NEW j \in Nat, NEW k \in Nat, j <= k
  PROVE  Ran(Rep(rq, lg, j)) \subseteq Ran(Rep(rq, lg, k))
<1> DEFINE U == {n \in Nat : Ran(Rep(rq, lg, j)) \subseteq Ran(Rep(rq, lg, j + n))}
<1>1. 0 \in U
  <2>1. j + 0 = j
    OBVIOUS
  <2> QED BY <2>1
<1>2. ASSUME NEW n \in U PROVE n + 1 \in U
  <2> DEFINE e == Rep(rq, lg, j + n)
  <2>1. j + n \in Nat /\ j + (n + 1) = (j + n) + 1
    OBVIOUS
  <2>2. GoodEngine(rq, e)
    BY <2>1, RepSteps
  <2>3. Rep(rq, lg, (j + n) + 1) =
          IF (j + n) + 1 \in 1 .. Len(lg) THEN Applied(rq, e, lg[(j + n) + 1]) ELSE e
    BY <2>1, RepSteps
  <2>4. Ran(Rep(rq, lg, j)) \subseteq Ran(e)
    OBVIOUS
  <2> HIDE DEF e
  <2>5. ASSUME NEW r \in Known(rq) PROVE Ran(e) \subseteq Ran(Applied(rq, e, r))
    <3> DEFINE f == Applied(rq, e, r)
    <3>1. \A i \in 1 .. Len(e.executed) :
            i \in 1 .. Len(f.executed) /\ f.executed[i] = e.executed[i]
      BY <2>2, AppliedGood
    <3> HIDE DEF f
    <3>2. Ran(e) \subseteq Ran(f)
      BY <3>1 DEF Ran
    <3> QED BY <3>2 DEF f
  <2>6. Ran(e) \subseteq Ran(Rep(rq, lg, (j + n) + 1))
    <3>1. (j + n) + 1 \in 1 .. Len(lg) => lg[(j + n) + 1] \in Known(rq)
      OBVIOUS
    <3> QED BY <2>3, <2>5, <3>1
  <2>7. Ran(Rep(rq, lg, j)) \subseteq Ran(Rep(rq, lg, j + (n + 1)))
    BY <2>1, <2>4, <2>6
  <2> QED BY <2>7
<1>3. U = Nat
  BY <1>1, <1>2, SetInduction
<1>4. k - j \in Nat /\ j + (k - j) = k
  OBVIOUS
<1>5. Ran(Rep(rq, lg, j)) \subseteq Ran(Rep(rq, lg, j + (k - j)))
  BY <1>3, <1>4
<1> QED BY <1>4, <1>5

-----------------------------------------------------------------------------
(* The inductive invariant                                                 *)

\* What reaches the stream has passed the extractors, ..
KeysKnown ==
  /\ \A r \in 1 .. Len(requests) : requests[r].pc = "logging" => r \in Known(requests)
  /\ \A i \in 1 .. Len(log) : log[i] \in Known(requests)

\* .. the engine's window is good, and it is the engine of the entries delivered, ..
EngineGood    == GoodEngine(requests, engine)
EngineReplays == aligned => engine = Rep(requests, log, delivered)

\* .. a handler that is not finished has no status, ..
OpenStatus ==
  \A r \in 1 .. Len(requests) :
    requests[r].pc \in {"logging", "added", "waiting", "elapsed"} => requests[r].status = None

\* .. and what is on its way to a handler is true.
TrueOutcome(rq, e, r, outcome) ==
  IF outcome = "Duplicate" THEN \E x \in Ran(e) : KeyOf(rq, x) = KeyOf(rq, r)
  ELSE r \in Ran(e) /\ outcome = rq[r].call.verdict

TrueStatus(rq, e, r, status) ==
  IF status = 409 THEN \E x \in Ran(e) : KeyOf(rq, x) = KeyOf(rq, r)
  ELSE r \in Ran(e) /\ status = ResponseFor(rq[r].call.kind, rq[r].call.verdict)

MailTrue ==
  aligned => \A r \in 1 .. Len(requests) :
    requests[r].mail # None => TrueOutcome(requests, engine, r, requests[r].mail)

ResultsTrue ==
  aligned => \A i \in 1 .. Len(results) :
    TrueOutcome(requests, engine, results[i].correlation_id, results[i].response)

StatusesTrue ==
  aligned => \A r \in 1 .. Len(requests) :
    FromEngine(r) => TrueStatus(requests, engine, r, requests[r].status)

\* Neither AnswersTrue nor RetrySafe is inductive alone: an answer comes from a
\* reply and a reply from the engine (MailTrue, ResultsTrue), the engine of a
\* restart has executed what the old one had (EngineReplays), and a key is refused
\* because the window holds the account's last executed ids (EngineGood).
AnswersInv ==
  /\ aligned \in BOOLEAN /\ KeysKnown /\ EngineGood /\ EngineReplays
  /\ OpenStatus /\ MailTrue /\ ResultsTrue /\ StatusesTrue

(* It holds initially. *)
LEMMA AnswersInit == Init => AnswersInv
<1> SUFFICES ASSUME Init PROVE AnswersInv
  OBVIOUS
<1>1. requests = << >> /\ log = << >> /\ delivered = 0 /\ engine = NewEngine
      /\ results = << >> /\ aligned = TRUE
  BY DEF Init
<1>2. Len(requests) = 0 /\ Len(log) = 0 /\ Len(results) = 0
  BY <1>1
<1>3. KeysKnown /\ OpenStatus /\ MailTrue /\ ResultsTrue /\ StatusesTrue
  BY <1>2 DEF KeysKnown, OpenStatus, MailTrue, ResultsTrue, StatusesTrue
<1>4. EngineGood
  BY <1>1, NewGood DEF EngineGood
<1>5. EngineReplays
  <2>1. log \in Seq(Known(requests)) /\ Len(requests) \in Nat
    BY <1>1
  <2> QED BY <1>1, <2>1, RepSteps DEF EngineReplays
<1> QED BY <1>1, <1>3, <1>4, <1>5 DEF AnswersInv

(* What the invariant says is what the properties say. *)
LEMMA AnswersMean == AnswersInv => AnswersTrue /\ RetrySafe
<1> SUFFICES ASSUME AnswersInv PROVE AnswersTrue /\ RetrySafe
  OBVIOUS
<1>1. Executed = Ran(engine) /\ \A r : Key(r) = KeyOf(requests, r)
  BY DEF Executed, Ran, Key, KeyOf
<1>2. AnswersTrue
  BY <1>1 DEF AnswersTrue, AnswersInv, StatusesTrue, TrueStatus
<1>3. RetrySafe
  <2> DEFINE ks == KeysOf(requests, engine)
             x  == engine.executed
  <2>1. RepeatsApart(ks) /\ engine \in EngineValue
    BY DEF AnswersInv, EngineGood, GoodEngine, WindowGood
  <2>2. x \in Seq(Nat)
    BY <2>1 DEF EngineValue
  <2>3. Len(x) \in Nat /\ Len(ks) = Len(x) /\ \A i \in 1 .. Len(x) : ks[i] = Key(x[i])
    BY <1>1, <2>2 DEF KeysOf
  <2> HIDE DEF ks
  <2> SUFFICES ASSUME NEW i \in 1 .. Len(x), NEW j \in 1 .. Len(x), i < j, Key(x[i]) = Key(x[j])
               PROVE  Cardinality({k \in i + 1 .. j - 1 : Key(x[k])[1] = Key(x[i])[1]}) >= DedupWindow
    BY DEF RetrySafe
  <2>4. Cardinality(Own(ks, i, j - 1)) >= DedupWindow
    BY <2>1, <2>3 DEF RepeatsApart
  <2>5. \A k \in i + 1 .. j - 1 : k \in 1 .. Len(x) /\ ks[k] = Key(x[k])
    BY <2>3
  <2>6. Own(ks, i, j - 1) = {k \in i + 1 .. j - 1 : Key(x[k])[1] = Key(x[i])[1]}
    BY <2>3, <2>5 DEF Own
  <2> QED BY <2>4, <2>6
<1> QED BY <1>2, <1>3

-----------------------------------------------------------------------------
(* The steps                                                               *)

\* Requests are never removed, and what they ask does not change.
CallsKept ==
  /\ Len(requests) \in Nat /\ Len(requests') \in Nat /\ Len(requests) <= Len(requests')
  /\ \A r \in 1 .. Len(requests) : requests'[r].call = requests[r].call

(* A known request stays known, by its key. *)
LEMMA KnownStays ==
  ASSUME CallsKept
  PROVE  /\ Known(requests) \subseteq Known(requests')
         /\ \A r \in 1 .. Len(requests) :
              r \in 1 .. Len(requests') /\ KeyOf(requests', r) = KeyOf(requests, r)
<1>1. \A r \in 1 .. Len(requests) : r \in 1 .. Len(requests')
  BY DEF CallsKept
<1>2. \A r \in 1 .. Len(requests) : KeyOf(requests', r) = KeyOf(requests, r)
  BY DEF CallsKept, KeyOf
<1> QED BY <1>1, <1>2 DEF Known

(* A sequence is one over the set its elements are in. *)
LEMMA SeqOver ==
  ASSUME NEW S, NEW s \in Seq(S), NEW T, \A i \in 1 .. Len(s) : s[i] \in T
  PROVE  s \in Seq(T)
  OBVIOUS

(* The engine is not touched: it is still good, and what a replay makes. *)
LEMMA EngineStays ==
  ASSUME WaitersInv, AnswersInv, CallsKept, KeysKnown', log' \in Seq(1 .. Len(requests')),
         Len(log) <= Len(log'), \A i \in 1 .. Len(log) : log'[i] = log[i],
         UNCHANGED <<engine, delivered, aligned>>
  PROVE  EngineGood' /\ EngineReplays'
<1>1. /\ Known(requests) \subseteq Known(requests') /\ Known(requests) \subseteq 1 .. Len(requests)
      /\ \A r \in 1 .. Len(requests) : KeyOf(requests', r) = KeyOf(requests, r)
  BY KnownStays DEF Known
<1>2. /\ engine \in EngineValue /\ WindowGood(engine.dedup, KeysOf(requests, engine))
      /\ \A i \in 1 .. Len(engine.executed) : engine.executed[i] \in Known(requests)
  BY DEF AnswersInv, EngineGood, GoodEngine
<1>3. KeysOf(requests', engine) = KeysOf(requests, engine)
  BY <1>1, <1>2 DEF KeysOf
<1>4. GoodEngine(requests', engine)
  BY <1>1, <1>2, <1>3 DEF GoodEngine
<1>5. /\ log \in Seq(Known(requests)) /\ log' \in Seq(Known(requests'))
      /\ Len(requests) \in Nat /\ Len(requests') \in Nat /\ delivered \in 0 .. Len(log)
  <2>1. log \in Seq(1 .. Len(requests)) /\ \A i \in 1 .. Len(log) : log[i] \in Known(requests)
    BY DEF AnswersInv, KeysKnown, WaitersInv, Types
  <2>2. \A i \in 1 .. Len(log') : log'[i] \in Known(requests')
    BY DEF KeysKnown
  <2>3. log \in Seq(Known(requests))
    BY <2>1, SeqOver
  <2>4. log' \in Seq(Known(requests'))
    BY <2>2, SeqOver
  <2> QED BY <2>3, <2>4 DEF WaitersInv, Types, CallsKept
<1>6. \A i \in 1 .. Len(log) : KeyOf(requests', log[i]) = KeyOf(requests, log[i])
  BY <1>1 DEF AnswersInv, KeysKnown
<1>7. \A k \in 0 .. Len(log) : Rep(requests', log', k) = Rep(requests, log, k)
  BY <1>5, <1>6, RepSame
<1>8. Rep(requests', log', delivered) = Rep(requests, log, delivered)
  BY <1>5, <1>7
<1> QED BY <1>4, <1>8 DEF AnswersInv, EngineGood, EngineReplays

(* Where answers come from: mail from the results, a status from the mail, *)
(* and results from the engine.                                            *)
MailFrom ==
  \A r \in 1 .. Len(requests') : requests'[r].mail # None =>
    \/ r \in 1 .. Len(requests) /\ requests'[r].mail = requests[r].mail
    \/ \E i \in 1 .. Len(results) :
         results[i].correlation_id = r /\ results[i].response = requests'[r].mail

ResultsFrom ==
  \A i \in 1 .. Len(results') :
    \/ \E j \in 1 .. Len(results) : results'[i] = results[j]
    \/ TrueOutcome(requests', engine', results'[i].correlation_id, results'[i].response)

StatusFrom ==
  \A r \in 1 .. Len(requests') : FromEngine(r)' =>
    /\ r \in 1 .. Len(requests)
    /\ \/ FromEngine(r) /\ requests'[r].status = requests[r].status
       \/ /\ requests[r].mail # None
          /\ requests'[r].status = ResponseFor(requests[r].call.kind, requests[r].mail)

(* If they come from there, they are true. *)
LEMMA TrueStays ==
  ASSUME WaitersInv, AnswersInv, CallsKept, aligned' => aligned /\ Ran(engine) \subseteq Ran(engine'),
         MailFrom, ResultsFrom, StatusFrom
  PROVE  MailTrue' /\ ResultsTrue' /\ StatusesTrue'
<1> SUFFICES ASSUME aligned'
             PROVE  /\ \A r \in 1 .. Len(requests') : requests'[r].mail # None =>
                         TrueOutcome(requests', engine', r, requests'[r].mail)
                    /\ \A i \in 1 .. Len(results') :
                         TrueOutcome(requests', engine', results'[i].correlation_id,
                                     results'[i].response)
                    /\ \A r \in 1 .. Len(requests') : FromEngine(r)' =>
                         TrueStatus(requests', engine', r, requests'[r].status)
  BY DEF MailTrue, ResultsTrue, StatusesTrue
<1>1. aligned /\ Ran(engine) \subseteq Ran(engine')
  OBVIOUS
<1>2. \A x \in Ran(engine) : x \in 1 .. Len(requests)
  BY DEF Ran, AnswersInv, EngineGood, GoodEngine, Known
<1>3. \A r \in 1 .. Len(requests) :
        KeyOf(requests', r) = KeyOf(requests, r) /\ requests'[r].call = requests[r].call
  BY KnownStays DEF CallsKept
<1>4. ASSUME NEW r \in 1 .. Len(requests), NEW o, TrueOutcome(requests, engine, r, o)
      PROVE  TrueOutcome(requests', engine', r, o)
  BY <1>1, <1>2, <1>3, <1>4 DEF TrueOutcome
<1>5. \A i \in 1 .. Len(results) :
        /\ results[i].correlation_id \in 1 .. Len(requests)
        /\ TrueOutcome(requests, engine, results[i].correlation_id, results[i].response)
  BY <1>1, LogElements DEF AnswersInv, ResultsTrue, WaitersInv, RepliesLogged
<1>6. \A r \in 1 .. Len(requests) : requests[r].mail # None =>
        TrueOutcome(requests, engine, r, requests[r].mail)
  BY <1>1 DEF AnswersInv, MailTrue
<1>7. ASSUME NEW r \in 1 .. Len(requests'), requests'[r].mail # None
      PROVE  TrueOutcome(requests', engine', r, requests'[r].mail)
  <2>1. CASE r \in 1 .. Len(requests) /\ requests'[r].mail = requests[r].mail
    BY <1>4, <1>6, <1>7, <2>1
  <2>2. CASE \E i \in 1 .. Len(results) :
               results[i].correlation_id = r /\ results[i].response = requests'[r].mail
    BY <1>4, <1>5, <2>2
  <2> QED BY <1>7, <2>1, <2>2 DEF MailFrom
<1>8. ASSUME NEW i \in 1 .. Len(results')
      PROVE  TrueOutcome(requests', engine', results'[i].correlation_id, results'[i].response)
  BY <1>4, <1>5 DEF ResultsFrom
<1>9. ASSUME NEW r \in 1 .. Len(requests'), FromEngine(r)'
      PROVE  TrueStatus(requests', engine', r, requests'[r].status)
  <2>1. r \in 1 .. Len(requests)
    BY <1>9 DEF StatusFrom
  <2>2. TrueStatus(requests, engine, r, requests'[r].status)
    <3>1. CASE FromEngine(r) /\ requests'[r].status = requests[r].status
      BY <1>1, <2>1, <3>1 DEF AnswersInv, StatusesTrue
    <3>2. CASE /\ requests[r].mail # None
               /\ requests'[r].status = ResponseFor(requests[r].call.kind, requests[r].mail)
      <4>1. requests[r] \in Request
        BY <2>1, LogElements DEF WaitersInv
      <4>2. requests[r].mail \in Outcome /\ requests[r].call.verdict \in Verdict
        BY <3>2, <4>1, CallsAssumption DEF Request, Call
      <4>3. TrueOutcome(requests, engine, r, requests[r].mail)
        BY <1>6, <2>1, <3>2
      <4>4. CASE requests[r].mail = "Duplicate"
        BY <3>2, <4>3, <4>4 DEF TrueOutcome, TrueStatus, ResponseFor
      <4>5. CASE requests[r].mail # "Duplicate"
        <5>1. ResponseFor(requests[r].call.kind, requests[r].call.verdict) # 409
          BY <4>2 DEF ResponseFor, Verdict
        <5> QED BY <3>2, <4>3, <4>5, <5>1 DEF TrueOutcome, TrueStatus
      <4> QED BY <4>4, <4>5
    <3> QED BY <1>9, <3>1, <3>2 DEF StatusFrom
  <2> QED BY <1>1, <1>2, <1>3, <2>1, <2>2 DEF TrueStatus
<1> QED BY <1>7, <1>8, <1>9

(* A request arrives; it has a key if it gets as far as its XADD. *)
LEMMA ReceiveAnswers ==
  ASSUME WaitersInv, AnswersInv, NEW call \in Calls, Refuse(call) \/ Submit(call)
  PROVE  AnswersInv'
<1> DEFINE n == Len(requests) + 1
           req == requests'[n]
<1>1. /\ \E st \in Status \cup {None}, pc \in {"done", "logging"} :
           requests' = Append(requests, [call |-> call, pc |-> pc, mail |-> None, status |-> st])
           /\ (pc = "logging" => st = None /\ Gate(call) = None)
      /\ UNCHANGED <<log, delivered, engine, results, aligned>>
  <2>1. CASE Refuse(call)
    <3>1. Gate(call) \in Status
      BY <2>1 DEF Refuse, Gate, Extract, Status
    <3> QED BY <2>1, <3>1 DEF Refuse
  <2>2. CASE Submit(call)
    BY <2>2 DEF Submit
  <2> QED BY <2>1, <2>2
<1>2. PICK st \in Status \cup {None}, pc \in {"done", "logging"} :
        /\ requests' = Append(requests, [call |-> call, pc |-> pc, mail |-> None, status |-> st])
        /\ pc = "logging" => st = None /\ Gate(call) = None
  BY <1>1
<1>3. /\ requests \in Seq(Request) /\ Len(requests) \in Nat
      /\ \A i \in 1 .. Len(log) : log[i] \in 1 .. Len(requests)
  BY LogElements DEF WaitersInv, Types
<1>4. /\ Len(requests') = n /\ req.call = call /\ req.pc = pc /\ req.mail = None /\ req.status = st
      /\ \A r \in 1 .. Len(requests) : requests'[r] = requests[r]
      /\ \A r \in 1 .. n : r \in 1 .. Len(requests) \/ r = n
      /\ n \notin 1 .. Len(requests) /\ n \in 1 .. n
  <2> DEFINE new == [call |-> call, pc |-> pc, mail |-> None, status |-> st]
  <2>1. new \in Request
    BY DEF Request
  <2> HIDE DEF new
  <2>2. Len(requests') = n /\ req = new /\ \A r \in 1 .. Len(requests) : requests'[r] = requests[r]
    BY <1>2, <1>3, <2>1, GrownSeq DEF new
  <2>3. /\ \A r \in 1 .. n : r \in 1 .. Len(requests) \/ r = n
        /\ n \notin 1 .. Len(requests) /\ n \in 1 .. n
    BY <1>3
  <2> QED BY <2>2, <2>3 DEF new
<1> HIDE DEF req
<1>5. CallsKept
  BY <1>3, <1>4 DEF CallsKept
<1>6. KeysKnown'
  <2>1. pc = "logging" => n \in Known(requests')
    <3>1. pc = "logging" => call.account_id # None /\ call.client_order_id # None
      BY <1>2, NoneAssumption DEF Gate, Extract, Status
    <3>2. call \in Call
      BY CallsAssumption
    <3>3. pc = "logging" => <<call.account_id, call.client_order_id>> \in KeyValue
      BY <3>1, <3>2 DEF Call, KeyValue
    <3>4. KeyOf(requests', n) = <<call.account_id, call.client_order_id>>
      BY <1>4 DEF KeyOf, req
    <3> QED BY <1>4, <3>3, <3>4 DEF Known
  <2>2. Known(requests) \subseteq Known(requests')
    BY <1>5, KnownStays
  <2> QED BY <1>1, <1>4, <2>1, <2>2 DEF KeysKnown, AnswersInv, req
<1>7. EngineGood' /\ EngineReplays'
  <2>1. log' \in Seq(1 .. Len(requests'))
    <3>1. \A i \in 1 .. Len(log) : log[i] \in 1 .. Len(requests')
      BY <1>3, <1>4
    <3>2. log \in Seq(1 .. Len(requests))
      BY DEF WaitersInv, Types
    <3> QED BY <1>1, <3>1, <3>2, SeqOver
  <2>2. Len(log) <= Len(log') /\ \A i \in 1 .. Len(log) : log'[i] = log[i]
    BY <1>1, LogElements DEF WaitersInv
  <2> QED BY <1>1, <1>5, <1>6, <2>1, <2>2, EngineStays
<1>8. OpenStatus'
  BY <1>2, <1>4 DEF AnswersInv, OpenStatus, req
<1>9. MailFrom
  BY <1>4 DEF MailFrom, req
<1>10. ResultsFrom
  BY <1>1 DEF ResultsFrom
<1>11. StatusFrom
  BY <1>1, <1>3, <1>4 DEF StatusFrom, FromEngine
<1>12. MailTrue' /\ ResultsTrue' /\ StatusesTrue'
  BY <1>1, <1>5, <1>9, <1>10, <1>11, TrueStays
<1> QED BY <1>1, <1>6, <1>7, <1>8, <1>12 DEF AnswersInv

(* One request changes, in anything but its call: a handler's step, a      *)
(* disconnect or a delivery.                                               *)
LEMMA OneRequestAnswers ==
  ASSUME WaitersInv, AnswersInv, NEW r \in 1 .. Len(requests), NEW req \in Request,
         requests' = [requests EXCEPT ![r] = req], req.call = requests[r].call,
         log' = log \/ (log' = Append(log, r) /\ requests[r].pc = "logging"),
         UNCHANGED <<delivered, engine, aligned>>,
         results' = results \/ (results # << >> /\ results' = Tail(results)),
         req.pc = "logging" => requests[r].pc = "logging",
         req.pc \in {"logging", "added", "waiting", "elapsed"} => req.status = None,
         req.mail # None =>
           \/ req.mail = requests[r].mail
           \/ \E i \in 1 .. Len(results) :
                results[i].correlation_id = r /\ results[i].response = req.mail,
         \/ req.status \in {None, 500, 504}
         \/ /\ requests[r].mail # None
            /\ req.status = ResponseFor(requests[r].call.kind, requests[r].mail)
         \/ log' = log /\ req.status = requests[r].status
  PROVE  AnswersInv'
<1>1. /\ requests \in Seq(Request) /\ Len(requests) \in Nat /\ Len(log) \in Nat
      /\ log \in Seq(1 .. Len(requests))
  BY LogElements DEF WaitersInv, Types
<1>2. /\ Len(requests') = Len(requests) /\ requests'[r] = req
      /\ \A x \in 1 .. Len(requests) : x # r => requests'[x] = requests[x]
  BY <1>1, ChangedSeq
<1>3. CallsKept
  BY <1>1, <1>2 DEF CallsKept
<1>4. /\ log' \in Seq(1 .. Len(requests')) /\ Len(log) <= Len(log')
      /\ \A i \in 1 .. Len(log) : log'[i] = log[i]
      /\ \A i \in 1 .. Len(log') :
           \/ i \in 1 .. Len(log) /\ log'[i] = log[i]
           \/ log'[i] = r /\ requests[r].pc = "logging" /\ log' # log
  <2>1. CASE log' = log
    BY <1>1, <1>2, <2>1
  <2>2. CASE log' # log
    <3>1. log' = Append(log, r) /\ requests[r].pc = "logging"
      BY <2>2
    <3>2. /\ log' \in Seq(1 .. Len(requests)) /\ Len(log') = Len(log) + 1
          /\ log'[Len(log) + 1] = r /\ \A i \in 1 .. Len(log) : log'[i] = log[i]
      BY <1>1, <3>1, GrownSeq
    <3>3. \A i \in 1 .. Len(log') : i \in 1 .. Len(log) \/ i = Len(log) + 1
      BY <1>1, <3>2
    <3>4. Len(log) <= Len(log')
      BY <1>1, <3>2
    <3> QED BY <1>2, <2>2, <3>1, <3>2, <3>3, <3>4
  <2> QED BY <2>1, <2>2
<1>5. KeysKnown'
  <2>1. Known(requests) \subseteq Known(requests')
    BY <1>3, KnownStays
  <2>2. ASSUME NEW x \in 1 .. Len(requests'), requests'[x].pc = "logging"
        PROVE  x \in Known(requests')
    <3>1. x \in 1 .. Len(requests) /\ requests[x].pc = "logging"
      BY <1>2, <2>2
    <3> QED BY <2>1, <3>1 DEF AnswersInv, KeysKnown
  <2>3. ASSUME NEW i \in 1 .. Len(log') PROVE log'[i] \in Known(requests')
    <3>1. log'[i] \in Known(requests)
      BY <1>4 DEF AnswersInv, KeysKnown
    <3> QED BY <2>1, <3>1
  <2> QED BY <2>2, <2>3 DEF KeysKnown
<1>6. EngineGood' /\ EngineReplays'
  BY <1>3, <1>4, <1>5, EngineStays
<1>7. OpenStatus'
  BY <1>2 DEF AnswersInv, OpenStatus
<1>8. MailFrom
  BY <1>2 DEF MailFrom
<1>9. ResultsFrom
  <2>1. CASE results' = results
    BY <2>1 DEF ResultsFrom
  <2>2. CASE results # << >> /\ results' = Tail(results)
    <3>1. /\ Len(Tail(results)) = Len(results) - 1
          /\ \A i \in 1 .. Len(Tail(results)) : Tail(results)[i] = results[i + 1]
      BY <2>2, HeadTailProperties DEF WaitersInv, Types
    <3>2. \A i \in 1 .. Len(Tail(results)) : i + 1 \in 1 .. Len(results)
      BY <3>1, LogElements DEF WaitersInv
    <3> QED BY <2>2, <3>1, <3>2 DEF ResultsFrom
  <2> QED BY <2>1, <2>2
<1>10. StatusFrom
  <2> SUFFICES ASSUME NEW x \in 1 .. Len(requests), FromEngine(x)'
               PROVE  \/ FromEngine(x) /\ requests'[x].status = requests[x].status
                      \/ /\ requests[x].mail # None
                         /\ requests'[x].status = ResponseFor(requests[x].call.kind, requests[x].mail)
    BY <1>2 DEF StatusFrom
  <2>1. /\ requests'[x].status \in {200, 204, 400, 404, 409}
        /\ requests'[x].status \notin {None, 500, 504}
    <3> DEFINE st == requests'[x].status
    <3>1. st \in {200, 204, 400, 404, 409}
      BY DEF FromEngine
    <3> HIDE DEF st
    <3>2. st # 500 /\ st # 504 /\ st \in Status
      BY <3>1 DEF Status
    <3>3. st # None
      BY <3>2, NoneAssumption
    <3> QED BY <3>1, <3>2, <3>3 DEF st
  <2>2. PICK i \in 1 .. Len(log') : log'[i] = x
    BY DEF FromEngine
  <2>3. CASE x # r
    <3>1. i \in 1 .. Len(log) /\ log[i] = x /\ requests'[x] = requests[x]
      BY <1>2, <1>4, <2>2, <2>3
    <3> QED BY <2>1, <3>1 DEF FromEngine
  <2>4. CASE x = r /\ log' = log /\ req.status = requests[r].status
    BY <1>2, <2>1, <2>2, <2>4 DEF FromEngine
  <2> QED BY <1>2, <2>1, <2>3, <2>4
<1>11. MailTrue' /\ ResultsTrue' /\ StatusesTrue'
  BY <1>3, <1>8, <1>9, <1>10, TrueStays
<1> QED BY <1>5, <1>6, <1>7, <1>11 DEF AnswersInv

(* The steps of a handler: only Answer has a status of the engine to give. *)
LEMMA HandlerAnswers ==
  ASSUME WaitersInv, AnswersInv, NEW r \in 1 .. Len(requests),
         Added(r) \/ Logged(r) \/ LogFailed(r) \/ Answer(r) \/ Elapse(r) \/ GiveUp(r)
  PROVE  AnswersInv'
<1> DEFINE old == requests[r]
<1>1. old \in Request /\ requests \in Seq(Request)
  BY LogElements DEF WaitersInv, Types
<1>2. old.pc \in {"logging", "added", "waiting", "elapsed"} => old.status = None
  BY DEF AnswersInv, OpenStatus
<1>8. CASE Added(r)
  <2> DEFINE req == [old EXCEPT !.pc = "added"]
  <2>1. /\ req \in Request /\ req.pc = "added" /\ req.mail = old.mail /\ req.status = old.status
        /\ req.call = old.call /\ requests' = [requests EXCEPT ![r] = req]
    BY <1>1, <1>8 DEF Added, Request
  <2>2. /\ log' = Append(log, r) /\ old.pc = "logging"
        /\ UNCHANGED <<delivered, engine, results, aligned>>
    BY <1>8 DEF Added
  <2> HIDE DEF req
  <2> QED BY <1>2, <2>1, <2>2, OneRequestAnswers
<1>3. CASE Logged(r)
  <2> DEFINE req == [old EXCEPT !.pc = "waiting"]
  <2>1. /\ req \in Request /\ req.pc = "waiting" /\ req.mail = old.mail /\ req.status = old.status
        /\ req.call = old.call /\ requests' = [requests EXCEPT ![r] = req]
    BY <1>1, <1>3 DEF Logged, Request
  <2>2. old.pc = "added" /\ UNCHANGED <<log, delivered, engine, results, aligned>>
    BY <1>3 DEF Logged
  <2> HIDE DEF req
  <2> QED BY <1>2, <2>1, <2>2, OneRequestAnswers
<1>4. CASE LogFailed(r)
  <2> DEFINE status == 500
             req == [[[old EXCEPT !.pc = "done"] EXCEPT !.mail = None] EXCEPT !.status = status]
  <2>1. status \in Status
    BY DEF Status
  <2>2. requests' = [requests EXCEPT ![r].pc = "done", ![r].mail = None, ![r].status = status]
    BY <1>4 DEF LogFailed
  <2> HIDE DEF status
  <2>3. /\ req \in Request /\ req.pc = "done" /\ req.mail = None /\ req.status = status
        /\ req.call = old.call /\ requests' = [requests EXCEPT ![r] = req]
    BY <1>1, <2>1, <2>2 DEF Request
  <2>4. /\ log' = log \/ (log' = Append(log, r) /\ old.pc = "logging")
        /\ UNCHANGED <<delivered, engine, results, aligned>>
    BY <1>4 DEF LogFailed, AddedOrNot
  <2> HIDE DEF req
  <2> QED BY <2>3, <2>4, OneRequestAnswers, ZenonT(30) DEF status
<1>5. CASE Answer(r)
  <2> DEFINE status == ResponseFor(old.call.kind, old.mail)
             req == [[[old EXCEPT !.pc = "done"] EXCEPT !.mail = None] EXCEPT !.status = status]
  <2>1. status \in Status
    <3>1. old.mail \in Outcome
      BY <1>1, <1>5 DEF Answer, Request
    <3> QED BY <3>1 DEF ResponseFor, Outcome, Verdict, Status
  <2> HIDE DEF status
  <2>2. req \in Request /\ req.pc = "done" /\ req.mail = None /\ req.call = old.call
        /\ req.status = status
    BY <1>1, <2>1 DEF Request
  <2>3. requests' = [requests EXCEPT ![r] = req]
    BY <1>1, <1>5 DEF Answer, Request, status
  <2>4. old.mail # None /\ UNCHANGED <<log, delivered, engine, results, aligned>>
    BY <1>5 DEF Answer
  <2> HIDE DEF req
  <2> QED BY <2>2, <2>3, <2>4, OneRequestAnswers DEF status
<1>6. CASE Elapse(r)
  <2> DEFINE req == [old EXCEPT !.pc = "elapsed"]
  <2>1. /\ req \in Request /\ req.pc = "elapsed" /\ req.mail = old.mail /\ req.status = old.status
        /\ req.call = old.call /\ requests' = [requests EXCEPT ![r] = req]
    BY <1>1, <1>6 DEF Elapse, Request
  <2>2. old.pc = "waiting" /\ UNCHANGED <<log, delivered, engine, results, aligned>>
    BY <1>6 DEF Elapse
  <2> HIDE DEF req
  <2> QED BY <1>2, <2>1, <2>2, OneRequestAnswers
<1>7. CASE GiveUp(r)
  <2> DEFINE status == 504
             req == [[[old EXCEPT !.pc = "done"] EXCEPT !.mail = None] EXCEPT !.status = status]
  <2>1. status \in Status
    BY DEF Status
  <2>2. requests' = [requests EXCEPT ![r].pc = "done", ![r].mail = None, ![r].status = status]
    BY <1>7 DEF GiveUp
  <2> HIDE DEF status
  <2>3. /\ req \in Request /\ req.pc = "done" /\ req.mail = None /\ req.status = status
        /\ req.call = old.call /\ requests' = [requests EXCEPT ![r] = req]
    BY <1>1, <2>1, <2>2 DEF Request
  <2>4. UNCHANGED <<log, delivered, engine, results, aligned>>
    BY <1>7 DEF GiveUp
  <2> HIDE DEF req
  <2> QED BY <2>3, <2>4, OneRequestAnswers DEF status
<1> QED BY <1>3, <1>4, <1>5, <1>6, <1>7, <1>8

(* A client that disconnects is not answered. *)
LEMMA DisconnectAnswers ==
  ASSUME WaitersInv, AnswersInv, NEW r \in 1 .. Len(requests), Disconnect(r)
  PROVE  AnswersInv'
<1> DEFINE req == [[requests[r] EXCEPT !.pc = "gone"] EXCEPT !.mail = None]
<1>1. requests \in Seq(Request) /\ requests[r] \in Request
  BY LogElements DEF WaitersInv, Types
<1>2. /\ req \in Request /\ req.pc = "gone" /\ req.mail = None /\ req.status = requests[r].status
      /\ req.call = requests[r].call /\ requests' = [requests EXCEPT ![r] = req]
  BY <1>1 DEF Disconnect, Request
<1>3. /\ log' = log \/ (log' = Append(log, r) /\ requests[r].pc = "logging")
      /\ requests[r].pc \in {"logging", "added", "waiting"}
      /\ UNCHANGED <<delivered, engine, results, aligned>>
  BY DEF Disconnect, AddedOrNot
<1>4. requests[r].status = None
  BY <1>3 DEF AnswersInv, OpenStatus
<1> HIDE DEF req
<1> QED BY <1>2, <1>3, <1>4, OneRequestAnswers, ZenonT(30)

(* A reply fills the channel of the handler it is for. *)
LEMMA DeliverAnswers ==
  ASSUME WaitersInv, AnswersInv, Deliver
  PROVE  AnswersInv'
<1> DEFINE reply == Head(results)
           r     == reply.correlation_id
           old   == requests[r]
<1>1. results # << >> /\ results' = Tail(results) /\ UNCHANGED <<log, delivered, engine, aligned>>
  BY DEF Deliver
<1>2. reply = results[1] /\ 1 \in 1 .. Len(results) /\ reply \in Reply
  BY <1>1 DEF WaitersInv, Types
<1>3. r \in 1 .. Len(requests)
  <2>1. PICK k \in 1 .. Len(log) : log[k] = r
    BY <1>2 DEF WaitersInv, RepliesLogged
  <2> QED BY <2>1, LogElements DEF WaitersInv
<1>4. requests \in Seq(Request) /\ old \in Request /\ reply.response \in Outcome
  BY <1>2, <1>3, LogElements DEF WaitersInv, Types, Reply
<1>5. old.pc \in {"logging", "added", "waiting", "elapsed"} => old.status = None
  BY <1>3 DEF AnswersInv, OpenStatus
<1>6. CASE r \in pending /\ old.pc # "gone"
  <2> DEFINE req == [old EXCEPT !.mail = reply.response]
  <2>1. /\ req \in Request /\ req.pc = old.pc /\ req.mail = reply.response
        /\ req.status = old.status /\ req.call = old.call
        /\ requests' = [requests EXCEPT ![r] = req]
    BY <1>3, <1>4, <1>6 DEF Deliver, Request
  <2>2. \E i \in 1 .. Len(results) :
          results[i].correlation_id = r /\ results[i].response = req.mail
    BY <1>2, <2>1
  <2> HIDE DEF req, reply
  <2> QED BY <1>1, <1>3, <1>5, <2>1, <2>2, OneRequestAnswers
<1>7. CASE ~(r \in pending /\ old.pc # "gone")
  <2>1. requests' = requests /\ requests = [requests EXCEPT ![r] = old]
    BY <1>3, <1>4, <1>7 DEF Deliver
  <2> HIDE DEF reply
  <2> QED BY <1>1, <1>3, <1>4, <1>5, <2>1, OneRequestAnswers
<1> QED BY <1>6, <1>7

(* Requests and log as they are: what the replies and statuses rest on.    *)
LEMMA LogKnown ==
  ASSUME WaitersInv, AnswersInv
  PROVE  /\ log \in Seq(Known(requests)) /\ Len(requests) \in Nat /\ Len(log) \in Nat
         /\ delivered \in 0 .. Len(log)
<1>1. log \in Seq(1 .. Len(requests)) /\ \A i \in 1 .. Len(log) : log[i] \in Known(requests)
  BY DEF AnswersInv, KeysKnown, WaitersInv, Types
<1>2. log \in Seq(Known(requests))
  BY <1>1, SeqOver
<1> QED BY <1>2, LogElements DEF WaitersInv, Types

(* The engine answers what it does. *)
LEMMA ExecuteAnswers ==
  ASSUME WaitersInv, AnswersInv, NEW sent \in BOOLEAN, Execute(sent)
  PROVE  AnswersInv'
<1> DEFINE k == delivered + 1
           r == log[k]
           said == IF KeyOf(requests, r) \notin engine.dedup.seen THEN requests[r].call.verdict
                   ELSE "Duplicate"
           reply == [correlation_id |-> r, response |-> said]
<1>1. /\ UNCHANGED <<requests, log, aligned>> /\ delivered < Len(log) /\ delivered' = k
      /\ engine' = Applied(requests, engine, r)
      /\ results' = results \/ results' = Append(results, reply)
  BY AppliedIs DEF Execute
<1>2. /\ k \in 1 .. Len(log) /\ r \in Known(requests) /\ delivered \in Nat
      /\ Len(requests) \in Nat /\ log \in Seq(Known(requests)) /\ r \in 1 .. Len(requests)
  BY <1>1, LogKnown DEF Known
<1>3. GoodEngine(requests, engine)
  BY DEF AnswersInv, EngineGood
<1> HIDE DEF r
<1>4. /\ GoodEngine(requests, engine')
      /\ Ran(engine) \subseteq Ran(engine')
      /\ KeyOf(requests, r) \notin engine.dedup.seen => r \in Ran(engine')
  <2>1. /\ GoodEngine(requests, engine')
        /\ \A i \in 1 .. Len(engine.executed) :
             i \in 1 .. Len(engine'.executed) /\ engine'.executed[i] = engine.executed[i]
        /\ KeyOf(requests, r) \notin engine.dedup.seen =>
             \E i \in 1 .. Len(engine'.executed) : engine'.executed[i] = r
    BY <1>1, <1>2, <1>3, AppliedGood, SMTT(30)
  <2> QED BY <2>1 DEF Ran
<1>5. EngineGood'
  BY <1>1, <1>4 DEF EngineGood
<1>6. EngineReplays'
  <2>1. Rep(requests, log, k) = Applied(requests, Rep(requests, log, delivered), r)
    BY <1>2, RepSteps DEF r
  <2> QED BY <1>1, <2>1 DEF AnswersInv, EngineReplays
<1>7. KeysKnown' /\ OpenStatus' /\ MailFrom /\ StatusFrom /\ CallsKept
  BY <1>1, <1>2 DEF AnswersInv, KeysKnown, OpenStatus, MailFrom, StatusFrom, FromEngine, CallsKept
<1>8. TrueOutcome(requests, engine', r, said)
  <2>1. CASE KeyOf(requests, r) \notin engine.dedup.seen
    <3>1. requests[r].call.verdict \in Verdict
      BY <1>2, LogElements, CallsAssumption DEF WaitersInv, Request, Call
    <3> QED BY <1>4, <2>1, <3>1 DEF TrueOutcome, Verdict
  <2>2. CASE KeyOf(requests, r) \in engine.dedup.seen
    <3> DEFINE ks == KeysOf(requests, engine)
               x  == engine.executed
    <3>1. x \in Seq(Nat)
      BY <1>3 DEF GoodEngine, EngineValue
    <3>2. \A i \in 1 .. Len(ks) : i \in 1 .. Len(x) /\ ks[i] = KeyOf(requests, x[i])
      BY <3>1 DEF KeysOf
    <3>3. PICK i \in 1 .. Len(ks) : ks[i] = KeyOf(requests, r)
      BY <1>3, <2>2 DEF GoodEngine, WindowGood, SeenExecuted
    <3>4. x[i] \in Ran(engine) /\ KeyOf(requests, x[i]) = KeyOf(requests, r)
      BY <3>2, <3>3 DEF Ran
    <3>5. said = "Duplicate"
      BY <2>2
    <3> QED BY <1>4, <3>4, <3>5 DEF TrueOutcome
  <2> QED BY <2>1, <2>2
<1> HIDE DEF said
<1>9. ResultsFrom
  <2>1. CASE results' = results
    BY <2>1 DEF ResultsFrom
  <2>2. CASE results' = Append(results, reply)
    <3>1. reply \in Reply /\ reply.correlation_id = r /\ reply.response = said
      <4>1. said \in Outcome
        <5>1. requests[r].call.verdict \in Verdict
          BY <1>2, LogElements, CallsAssumption DEF WaitersInv, Request, Call
        <5> QED BY <5>1 DEF said, Outcome
      <4> QED BY <1>2, <4>1 DEF Reply
    <3> HIDE DEF reply
    <3>2. /\ Len(results) \in Nat /\ Len(results') = Len(results) + 1
          /\ results'[Len(results) + 1] = reply
          /\ \A i \in 1 .. Len(results) : results'[i] = results[i]
      BY <2>2, <3>1, GrownSeq DEF WaitersInv, Types
    <3>3. \A i \in 1 .. Len(results') : i \in 1 .. Len(results) \/ i = Len(results) + 1
      BY <3>2
    <3> QED BY <1>1, <1>8, <3>1, <3>2, <3>3 DEF ResultsFrom
  <2> QED BY <1>1, <2>1, <2>2
<1>10. MailTrue' /\ ResultsTrue' /\ StatusesTrue'
  BY <1>1, <1>4, <1>7, <1>9, TrueStays
<1> QED BY <1>1, <1>5, <1>6, <1>7, <1>10 DEF AnswersInv

(* A restart with the cursor at the end loses nothing that was executed.   *)
LEMMA FaultAnswers ==
  ASSUME WaitersInv, AnswersInv, SubscriberEnds \/ Restart
  PROVE  AnswersInv'
<1>1. UNCHANGED <<requests, log>> /\ (results' = results \/ results' = << >>)
  BY DEF SubscriberEnds, Restart
<1>2. KeysKnown' /\ OpenStatus' /\ MailFrom /\ StatusFrom /\ CallsKept
  BY <1>1, LogKnown DEF AnswersInv, KeysKnown, OpenStatus, MailFrom, StatusFrom, FromEngine, CallsKept
<1>3. ResultsFrom
  BY <1>1 DEF ResultsFrom
<1>4. /\ EngineGood' /\ EngineReplays' /\ aligned' \in BOOLEAN
      /\ aligned' => aligned /\ Ran(engine) \subseteq Ran(engine')
  <2>1. CASE SubscriberEnds
    BY <1>1, <2>1 DEF SubscriberEnds, AnswersInv, EngineGood, EngineReplays
  <2>2. CASE Restart
    <3>1. /\ engine' = Rep(requests, log, Len(log))
          /\ aligned' = (aligned /\ delivered' = Len(log))
      BY <2>2, AppliedIs DEF Restart
    <3>2. GoodEngine(requests, engine')
      BY <3>1, LogKnown, RepSteps
    <3>3. aligned' => aligned /\ delivered' = Len(log)
      BY <3>1
    <3>4. aligned => engine = Rep(requests, log, delivered)
      BY DEF AnswersInv, EngineReplays
    <3>5. Ran(Rep(requests, log, delivered)) \subseteq Ran(Rep(requests, log, Len(log)))
      <4>1. delivered \in Nat /\ delivered <= Len(log) /\ Len(log) \in Nat
        BY LogKnown
      <4> QED BY <4>1, LogKnown, RepGrows
    <3>6. aligned' \in BOOLEAN
      BY <3>1
    <3> QED BY <1>1, <3>1, <3>2, <3>3, <3>4, <3>5, <3>6 DEF EngineGood, EngineReplays
  <2> QED BY <2>1, <2>2
<1>5. MailTrue' /\ ResultsTrue' /\ StatusesTrue'
  BY <1>2, <1>3, <1>4, TrueStays
<1> QED BY <1>2, <1>4, <1>5 DEF AnswersInv

(* Every step keeps the invariant. *)
LEMMA AnswersStep == WaitersInv /\ AnswersInv /\ [Next]_vars => AnswersInv'
<1> SUFFICES ASSUME WaitersInv, AnswersInv, [Next]_vars PROVE AnswersInv'
  OBVIOUS
<1>1. CASE UNCHANGED vars
  BY <1>1 DEF vars, AnswersInv, KeysKnown, EngineGood, EngineReplays, OpenStatus, MailTrue,
              ResultsTrue, StatusesTrue, FromEngine
<1>2. CASE \E call \in Calls : Refuse(call) \/ Submit(call)
  BY <1>2, ReceiveAnswers
<1>3. CASE \E r \in 1 .. MaxRequests : Handler(r)
  BY <1>3, HandlerAnswers DEF Handler
<1>4. CASE \E r \in 1 .. Len(requests) : Disconnect(r)
  BY <1>4, DisconnectAnswers
<1>5. CASE Deliver
  BY <1>5, DeliverAnswers
<1>6. CASE \E sent \in BOOLEAN : Execute(sent)
  BY <1>6, ExecuteAnswers
<1>7. CASE SubscriberEnds \/ Restart
  BY <1>7, FaultAnswers
<1> QED BY <1>1, <1>2, <1>3, <1>4, <1>5, <1>6, <1>7 DEF Next

(* The invariant holds in every reachable state. *)
LEMMA AnswersAlways == Spec => []AnswersInv
<1>1. Init => WaitersInv /\ AnswersInv
  BY InvInit, AnswersInit
<1>2. (WaitersInv /\ AnswersInv) /\ [Next]_vars => (WaitersInv /\ AnswersInv)'
  BY InvStep, AnswersStep
<1> QED BY <1>1, <1>2, PTL DEF Spec

(* Every answer of the engine that reaches a client is its own request's   *)
(* and is true: however replies are delayed, lost or overtaken by a restart*)
(* of the engine (submit_command and run_result_subscriber in main.rs).    *)
THEOREM AnswersAlwaysTrue == Spec => []AnswersTrue
<1>1. AnswersInv => AnswersTrue
  BY AnswersMean
<1> QED BY <1>1, AnswersAlways, PTL

(* A client_order_id is executed a second time only after DedupWindow other*)
(* commands of its account, through any retries, lost replies and restarts *)
(* (Dedup in engine.rs).                                                   *)
THEOREM RetriesAlwaysSafe == Spec => []RetrySafe
<1>1. AnswersInv => RetrySafe
  BY AnswersMean
<1> QED BY <1>1, AnswersAlways, PTL
=============================================================================
