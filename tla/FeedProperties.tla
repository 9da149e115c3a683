--------------------------- MODULE FeedProperties ---------------------------
(***************************************************************************)
(* What a subscriber of the feeds may rely on.                             *)
(***************************************************************************)
EXTENDS Feed

\* What connection c forwards of batches i .. applied.
ForwardedFrom(c, i) ==
  FlattenSeq([k \in 1 .. applied - i + 1 |-> Forwarded(c, i + k - 1)])

\* What is still to reach the client of c.
Outstanding(c) == conn[c].wire \o conn[c].rest \o ForwardedFrom(c, conn[c].pos)

(* The feed has no gap: what the client of an open connection has read,    *)
(* followed by what is on its way to it, is every event it is entitled to  *)
(* since it subscribed, in order and once; a connection that lagged behind *)
(* the broadcast buffer is closed, never continued (ws.rs).                *)
FeedUnbroken ==
  \A c \in Conns :
    conn[c].state = "open" =>
      Outstanding(c) = LET all == ForwardedFrom(c, conn[c].from)
                       IN  SubSeq(all, conn[c].read + 1, Len(all))

(* Snapshot and deltas reconcile: once the messages on their way are       *)
(* applied, every level the client shows is the server's, whenever the     *)
(* snapshot was taken relative to apply_batch and to event_tx.send.  The   *)
(* exception is a snapshot of a book no batch has reached: its sequence is *)
(* 0, the seq of the first batch, which the client then drops.             *)
ClientReconciles ==
  \A c \in Conns :
    conn[c].state = "open" /\ client[c].pc = "live" /\ client[c].at > 0 =>
      LET Step(view, m) == Reconcile(client[c], view, m)
          view == FoldLeft(Step, client[c].view, Outstanding(c))
      IN  \A p \in DOMAIN view : view[p] = book.level[p]

(* The feed catches up: as long as the tail task runs, a client that stays *)
(* connected is brought up to the last batch, or cut off for lagging.      *)
FeedCatchesUp ==
  []<>(tail = "ended" \/ \A c \in Conns :
         conn[c].state = "open" => Outstanding(c) = << >> /\ applied = Len(stream))
=============================================================================
