------------------------------- MODULE Dedup -------------------------------
(***************************************************************************)
(* The idempotency window (Dedup in engine.rs): the client_order_ids seen, *)
(* and per account the queue of the most recent ones in arrival order.     *)
(***************************************************************************)
EXTENDS Market

CONSTANTS ClientIds,    \* client_order_id values in use
          DedupWindow   \* DEDUP_WINDOW

ASSUME DedupWindowAssumption == DedupWindow \in Nat

DedupValue == [seen : SUBSET (Accounts \X ClientIds),
               order : [Accounts -> Seq(ClientIds)]]

NewDedup == [seen |-> {}, order |-> [a \in Accounts |-> << >>]]

\* insert() returns false on a key it has seen, and then changes nothing.
Fresh(dedup, account_id, client_order_id) ==
  <<account_id, client_order_id>> \notin dedup.seen

\* Sensitivity variant of DedupInsert: the evicted id stays in seen.
DedupInsertNoForget(dedup, account_id, client_order_id) ==
  LET recent == Append(dedup.order[account_id], client_order_id)
  IN  [seen  |-> dedup.seen \cup {<<account_id, client_order_id>>},
       order |-> [dedup.order EXCEPT ![account_id] =
                    IF Len(recent) > DedupWindow THEN Tail(recent) ELSE recent]]

DedupInsert(dedup, account_id, client_order_id) ==
  LET seen   == dedup.seen \cup {<<account_id, client_order_id>>}
      recent == Append(dedup.order[account_id], client_order_id)
  IN  IF Len(recent) > DedupWindow
      THEN [seen  |-> seen \ {<<account_id, Head(recent)>>},
            order |-> [dedup.order EXCEPT ![account_id] = Tail(recent)]]
      ELSE [seen  |-> seen,
            order |-> [dedup.order EXCEPT ![account_id] = recent]]
=============================================================================
