-------------------------------- MODULE Feed --------------------------------
(***************************************************************************)
(* The websocket feeds of the API (bin/api/ws.rs) with the tail task that  *)
(* feeds them and GET /book (bin/api/book.rs), and the client that docs/   *)
(* API.md describes: subscribe, buffer, fetch a snapshot, drop what the    *)
(* snapshot has, apply the rest.                                           *)
(*                                                                         *)
(* One market and one side of it: levels ordered by price, best first.     *)
(* Connection c is a public one for the market, or private for an account. *)
(* The bounded broadcast channel is how far each receiver has read.  What  *)
(* a client has not read yet, its buffer included, is on the wire.         *)
(***************************************************************************)
EXTENDS Integers, Sequences, SequencesExt

CONSTANTS Prices,        \* levels of the book
          Batches,       \* what a command may emit: sequences of events
          Accounts,
          Conns, Account(_),   \* connections; Account(c) is None for a public one
          Capacity,      \* EVENT_BROADCAST_CAPACITY
          Depths,        \* depth limits of GET /book
          None,
          MaxBatches,    \* bound: batches emitted
          MaxSessions    \* bound: connections opened

Event == [type : {"BookDelta", "Trade"}, price : Prices, qty : Nat]
         \cup [type : {"OrderAccepted", "OrderUpdated"}, account_id : Accounts]

ASSUME BatchesAssumption == Prices \subseteq Nat /\ Batches \subseteq Seq(Event)
ASSUME FeedAssumption    == Capacity \in Nat \ {0} /\ Depths \subseteq Nat
                            /\ MaxBatches \in Nat /\ MaxSessions \in Nat

VARIABLES stream,     \* the batches in `events`; the i-th has seq i - 1
          tail,       \* "running" or "ended"
          book,       \* BookState: [level, last_seq]
          applied,    \* batches applied to book
          sent,       \* batches broadcast
          conn,       \* per connection, the server's end and the wire
          client,     \* per connection, the client's end
          sessions    \* history: connections opened

vars == <<stream, tail, book, applied, sent, conn, client, sessions>>

NoConn   == [state |-> "closed", from |-> 0, pos |-> 0, rest |-> << >>, wire |-> << >>, read |-> 0]
NoClient == [pc |-> "idle", view |-> [p \in {} |-> 0], sequence |-> 0, at |-> 0]

-----------------------------------------------------------------------------
(* The projection and its tail task                                        *)

SetLevel(level, e) ==
  IF e.type = "BookDelta" THEN [level EXCEPT ![e.price] = e.qty] ELSE level

\* Sensitivity variant of ApplyBatch: last_seq counts batches, one ahead of the seq.
ApplyBatchCounting(b, i) == [level |-> FoldLeft(SetLevel, b.level, stream[i]), last_seq |-> i]

\* apply_batch: every delta and last_seq under one write lock.
ApplyBatch(b, i) == [level |-> FoldLeft(SetLevel, b.level, stream[i]), last_seq |-> i - 1]

EmptyBook == [level |-> [p \in Prices |-> 0], last_seq |-> 0]

TailApply ==
  /\ tail = "running" /\ sent = applied /\ applied < Len(stream)
  /\ book' = ApplyBatch(book, applied + 1)
  /\ applied' = applied + 1
  /\ UNCHANGED <<stream, tail, sent, conn, client, sessions>>

\* event_tx.send, after the book has the batch.
TailSend ==
  /\ tail = "running" /\ sent < applied
  /\ sent' = sent + 1
  /\ UNCHANGED <<stream, tail, book, applied, conn, client, sessions>>

\* XREAD returns an error: the task ends, the channel stays open and silent.
TailEnds ==
  /\ tail = "running" /\ sent = applied
  /\ tail' = "ended"
  /\ UNCHANGED <<stream, book, applied, sent, conn, client, sessions>>

\* The engine's XADD events.
Emit(batch) ==
  /\ Len(stream) < MaxBatches
  /\ stream' = Append(stream, batch)
  /\ UNCHANGED <<tail, book, applied, sent, conn, client, sessions>>

-----------------------------------------------------------------------------
(* The server's end of a connection                                        *)

\* A receiver gets what is sent after it subscribes.
Subscribed == [NoConn EXCEPT !.state = "open", !.from = sent + 1, !.pos = sent + 1]

\* public_market subscribes before the upgrade, private_orders only after auth.
Open(c) ==
  /\ conn[c].state = "closed" /\ client[c].pc = "idle" /\ sessions < MaxSessions
  /\ sessions' = sessions + 1
  /\ conn' = [conn EXCEPT ![c] = IF Account(c) = None THEN Subscribed
                                 ELSE [NoConn EXCEPT !.state = "authenticating"]]
  /\ client' = [client EXCEPT ![c].pc = "buffering"]
  /\ UNCHANGED <<stream, tail, book, applied, sent>>

\* The first frame within AUTH_TIMEOUT is a valid token, or the socket is closed.
Authenticate(c, valid) ==
  /\ conn[c].state = "authenticating"
  /\ conn' = [conn EXCEPT ![c] = IF valid THEN Subscribed ELSE NoConn]
  /\ UNCHANGED <<stream, tail, book, applied, sent, client, sessions>>

\* The events of batch i a connection forwards, each with the batch's seq (the
\* private feed sends the event alone; its client does not look at a seq).
ForMarket(e) == e.type \in {"BookDelta", "Trade"}
ForAccount(e, account_id) ==
  e.type \in {"OrderAccepted", "OrderUpdated"} /\ e.account_id = account_id
Forwarded(c, i) ==
  LET Mine(e) == IF Account(c) = None THEN ForMarket(e) ELSE ForAccount(e, Account(c))
      mine    == SelectSeq(stream[i], Mine)
  IN  [k \in 1 .. Len(mine) |-> [seq |-> i - 1, event |-> mine[k]]]

Unread(c) == sent - conn[c].pos + 1

\* Sensitivity variants of Recv: a lagging receiver goes on with what is left in
\* the buffer, or waits.
RecvSkipping(c) ==
  LET i == IF Unread(c) > Capacity THEN sent - Capacity + 1 ELSE conn[c].pos
  IN  /\ conn[c].state = "open" /\ conn[c].rest = << >> /\ Unread(c) > 0
      /\ conn' = [conn EXCEPT ![c].rest = Forwarded(c, i), ![c].pos = i + 1]
      /\ UNCHANGED <<stream, tail, book, applied, sent, client, sessions>>

RecvWaiting(c) ==
  /\ conn[c].state = "open" /\ conn[c].rest = << >> /\ Unread(c) \in 1 .. Capacity
  /\ conn' = [conn EXCEPT ![c].rest = Forwarded(c, conn[c].pos), ![c].pos = @ + 1]
  /\ UNCHANGED <<stream, tail, book, applied, sent, client, sessions>>

\* rx.recv(): the next batch, or Lagged, which ends the connection.
Recv(c) ==
  /\ conn[c].state = "open" /\ conn[c].rest = << >> /\ Unread(c) > 0
  /\ conn' = IF Unread(c) > Capacity THEN [conn EXCEPT ![c] = NoConn]
             ELSE [conn EXCEPT ![c].rest = Forwarded(c, conn[c].pos), ![c].pos = @ + 1]
  /\ UNCHANGED <<stream, tail, book, applied, sent, client, sessions>>

\* socket.send, one message at a time.
Send(c) ==
  /\ conn[c].rest # << >>
  /\ conn' = [conn EXCEPT ![c].rest = Tail(@), ![c].wire = Append(@, Head(conn[c].rest))]
  /\ UNCHANGED <<stream, tail, book, applied, sent, client, sessions>>

-----------------------------------------------------------------------------
(* The client's end                                                        *)

\* BookStore::snapshot: the best depth levels.  What lies below the last level
\* shown is known to be empty only if nothing was cut off.
Shown(depth) ==
  LET full == {p \in Prices : book.level[p] > 0}
      best == {p \in full : Cardinality({q \in full : q < p}) < depth}
      last == Max(best \cup {0})
  IN  [p \in {q \in Prices : best = full \/ q <= last} |-> book.level[p]]

\* GET /book: levels and sequence read under one lock.
GetBook(c, depth) ==
  /\ Account(c) = None /\ client[c].pc = "buffering"
  /\ client' = [client EXCEPT ![c] = [pc |-> "live", view |-> Shown(depth),
                                      sequence |-> book.last_seq, at |-> applied]]
  /\ UNCHANGED <<stream, tail, book, applied, sent, conn, sessions>>

\* A message newer than the snapshot is applied to the view.
Reconcile(cl, view, m) ==
  IF m.seq <= cl.sequence \/ m.event.type # "BookDelta" THEN view
  ELSE [p \in DOMAIN view \cup {m.event.price} |->
          IF p = m.event.price THEN m.event.qty ELSE view[p]]

Consume(c) ==
  /\ conn[c].wire # << >>
  /\ client[c].pc = "live" \/ Account(c) # None
  /\ conn' = [conn EXCEPT ![c].wire = Tail(@), ![c].read = @ + 1]
  /\ client' = [client EXCEPT ![c].view = Reconcile(client[c], @, Head(conn[c].wire))]
  /\ UNCHANGED <<stream, tail, book, applied, sent, sessions>>

\* The client sees the connection closed, or closes it: it starts over.
Leave(c) ==
  /\ client[c].pc # "idle"
  /\ conn' = [conn EXCEPT ![c] = NoConn]
  /\ client' = [client EXCEPT ![c] = NoClient]
  /\ UNCHANGED <<stream, tail, book, applied, sent, sessions>>

-----------------------------------------------------------------------------
\* The API serves once bootstrap has read what is in the stream.
Init ==
  /\ stream \in {<< >>} \cup {<<batch>> : batch \in Batches}
  /\ tail = "running"
  /\ applied = Len(stream) /\ sent = Len(stream)
  /\ book = IF stream = << >> THEN EmptyBook ELSE ApplyBatch(EmptyBook, 1)
  /\ conn = [c \in Conns |-> NoConn] /\ client = [c \in Conns |-> NoClient]
  /\ sessions = 0

Serve(c) ==
  \/ \E valid \in BOOLEAN : Authenticate(c, valid)
  \/ Recv(c) \/ Send(c) \/ Consume(c)
  \/ \E depth \in Depths : GetBook(c, depth)

Next ==
  \/ \E batch \in Batches : Emit(batch)
  \/ TailApply \/ TailSend \/ TailEnds
  \/ \E c \in Conns : Open(c) \/ Serve(c) \/ Leave(c)

Spec == Init /\ [][Next]_vars

\* The tail task and each connection's task run, and clients read their sockets.
FairSpec == Spec /\ WF_vars(TailApply \/ TailSend) /\ \A c \in Conns : WF_vars(Serve(c))
=============================================================================
