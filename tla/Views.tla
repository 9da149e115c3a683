------------------------------- MODULE Views -------------------------------
(***************************************************************************)
(* The engine together with what its readers make of its event batches:    *)
(* the orders and balances tables of db_writer (apply_event) and the price *)
(* levels of the API's book projection (apply_batch).  Here every batch is *)
(* applied as it is emitted; module Projections has the streams, the       *)
(* crashes and the lag between them.                                       *)
(***************************************************************************)
EXTENDS Engine

VARIABLES order_rows,     \* table orders, by order_id
          balance_rows,   \* table balances; a missing row is a zero balance
          levels          \* BookState.books; 0 for a price that is not a key

views == <<order_rows, balance_rows, levels>>

OrderRow == [account_id : Accounts, size : Nat, filled_qty : Nat,
             status : {"Open", "PartiallyFilled", "Filled", "Cancelled"}]

ViewsInit ==
  /\ Init
  /\ order_rows = [id \in {} |-> id]
  /\ balance_rows = balances
  /\ levels = [pair \in Markets |-> [side \in Side |-> [price \in Prices |-> 0]]]

\* OrderAccepted: INSERT .. 'open' ON CONFLICT DO NOTHING.
InsertAccepted(rows, accepted) ==
  LET new == {e \in Range(accepted) : e.order_id \notin DOMAIN rows}
  IN  [id \in DOMAIN rows \cup {e.order_id : e \in new} |->
         IF id \in DOMAIN rows THEN rows[id]
         ELSE LET e == CHOOSE x \in new : x.order_id = id
              IN  [account_id |-> e.account_id, size |-> e.req.size,
                   filled_qty |-> 0, status |-> "Open"]]

\* OrderCancelled: UPDATE .. SET status = 'cancelled'.
SetCancelled(rows, cancelled) ==
  [id \in DOMAIN rows |->
     IF id \in Range(cancelled) THEN [rows[id] EXCEPT !.status = "Cancelled"] ELSE rows[id]]

\* Sensitivity variant of SetUpdated: filled_qty += instead of SET.
AddUpdated(rows, updates) ==
  [id \in DOMAIN rows |->
     LET hits == {i \in DOMAIN updates : updates[i].order_id = id}
     IN  IF hits = {} THEN rows[id]
         ELSE LET u == updates[Max(hits)]
              IN  [rows[id] EXCEPT !.filled_qty = @ + u.filled_qty, !.status = u.status]]

\* OrderUpdated: UPDATE .. SET filled_qty, status; the last one of the batch stays.
SetUpdated(rows, updates) ==
  [id \in DOMAIN rows |->
     LET hits == {i \in DOMAIN updates : updates[i].order_id = id}
     IN  IF hits = {} THEN rows[id]
         ELSE LET u == updates[Max(hits)]
              IN  [rows[id] EXCEPT !.filled_qty = u.filled_qty, !.status = u.status]]

\* BalanceChanged: INSERT .. ON CONFLICT DO UPDATE SET available, reserved.
UpsertBalances(rows, changed) ==
  [a \in Accounts |-> [c \in Currency |->
     LET hits == {e \in changed : e.account_id = a /\ e.currency = c}
     IN  IF hits = {} THEN rows[a][c] ELSE (CHOOSE e \in hits : TRUE).balance]]

\* Sensitivity variant of ApplyBatch: the quantity is accumulated, not set.
AccumulateBatch(books_, deltas) ==
  [pair \in Markets |-> [side \in Side |-> [price \in Prices |->
     LET hits == {d \in deltas : d.pair = pair /\ d.level.side = side /\ d.level.price = price}
     IN  IF hits = {} THEN books_[pair][side][price]
         ELSE books_[pair][side][price] + (CHOOSE d \in hits : TRUE).level.qty]]]

\* BookDelta: the level's new total; the key goes when it is 0.
ApplyBatch(books_, deltas) ==
  [pair \in Markets |-> [side \in Side |-> [price \in Prices |->
     LET hits == {d \in deltas : d.pair = pair /\ d.level.side = side /\ d.level.price = price}
     IN  IF hits = {} THEN books_[pair][side][price] ELSE (CHOOSE d \in hits : TRUE).level.qty]]]

Project(emitted) ==
  /\ order_rows' = SetUpdated(SetCancelled(InsertAccepted(order_rows, emitted.events.accepted),
                                           emitted.events.cancelled),
                              emitted.events.updates)
  /\ balance_rows' = UpsertBalances(balance_rows, emitted.balance_changed)
  /\ levels' = ApplyBatch(levels, emitted.events.deltas)

ViewsNext ==
  /\ Next
  /\ IF batch' = << >> THEN UNCHANGED views ELSE Project(batch'[1])

ViewsSpec == ViewsInit /\ [][ViewsNext]_<<vars, views>>

-----------------------------------------------------------------------------
\* Every resting order.
Resting ==
  UNION {Range(books[k[1]].queue[k[2]][k[3]]) : k \in Markets \X Side \X Prices}

(* The orders table tells the truth about every order ever accepted: one   *)
(* that rests shows what was filled of it and is open or partially filled, *)
(* one that does not is filled in full or cancelled.  The cumulative       *)
(* filled_qty and the statuses of add_order and of a cancel (engine.rs)    *)
(* have to add up over the order's whole life.                             *)
OrderRowsExact ==
  /\ DOMAIN order_rows = 0 .. next_order_id - 1
  /\ \A id \in DOMAIN order_rows :
       LET row == order_rows[id]
       IN  IF \E o \in Resting : o.id = id
           THEN \E o \in Resting :
                  /\ o.id = id /\ row.filled_qty = o.size - o.remaining_size
                  /\ row.status = IF row.filled_qty = 0 THEN "Open" ELSE "PartiallyFilled"
           ELSE \/ row.status = "Filled" /\ row.filled_qty = row.size
                \/ row.status = "Cancelled" /\ row.filled_qty < row.size

(* The balances table equals the ledger: every call of ledger.rs that      *)
(* changes a balance marks it dirty, so that BalanceChanged reports it.    *)
BalanceRowsExact == balance_rows = balances

\* What a reader should see of a level: the units resting there.
UnitsAt(pair, side, price) == LevelTotal(books[pair], side, price)

(* The projected price levels equal the engine's books: the dirty levels of*)
(* add_order and cancel_order (book.rs) cover every level they touch, with *)
(* its final aggregate.  The exception is a level with more units than a   *)
(* u64 counts, whose unchecked sum wraps round; as soon as its units fit   *)
(* again, the readers are right again.                                     *)
LevelsExact ==
  \A pair \in Markets, side \in Side, price \in Prices :
    Fits(UnitsAt(pair, side, price)) => levels[pair][side][price] = UnitsAt(pair, side, price)
=============================================================================
