----------------------------- MODULE OrderBook -----------------------------
(***************************************************************************)
(* One market's order book (book.rs) as operators on a book value.         *)
(*                                                                         *)
(* queue[side][price] is the VecDeque at a price level; an absent BTreeMap *)
(* key is an empty queue, since the code drops a level in the very call    *)
(* that empties it.  Each operator returns the changed book together with  *)
(* what the Rust method returns.                                           *)
(***************************************************************************)
EXTENDS Market

CONSTANT None           \* Option::None

ASSUME NoneAssumption == None \notin Prices

Book == [queue : [Side -> [Prices -> Seq(Order)]],
         order_index : Map(OrderId, OrderLocation),
         last_trade_price : Prices \cup {None}]

EmptyBook == [queue |-> [side \in Side |-> [price \in Prices |-> << >>]],
              order_index |-> [id \in {} |-> id],
              last_trade_price |-> None]

Levels(book, side) == {price \in Prices : book.queue[side][price] # << >>}

\* The best of some prices of a side: the lowest ask, the highest bid.
Best(side, prices) == IF side = "Ask" THEN Min(prices) ELSE Max(prices)

\* Sensitivity variant of BestPrice: first and last swapped.
WorstPrice(book, side) ==
  IF side = "Ask" THEN Max(Levels(book, side)) ELSE Min(Levels(book, side))

\* asks.first_key_value() and bids.last_key_value()
BestPrice(book, side) == Best(side, Levels(book, side))

\* Sensitivity variant of Crosses: equal prices do not trade.
CrossesStrictly(req, price) ==
  \/ req.order_type = "Market"
  \/ req.side = "Bid" /\ price < req.price
  \/ req.side = "Ask" /\ price > req.price

\* A taker on taker_side may trade with the opposite level at price.
Crosses(req, price) ==
  \/ req.order_type = "Market"
  \/ req.side = "Bid" /\ price <= req.price
  \/ req.side = "Ask" /\ price >= req.price

\* The units resting at a level.
LevelTotal(book, side, price) ==
  LET q == book.queue[side][price]
  IN  SumTo([i \in 1 .. Len(q) |-> q[i].remaining_size], Len(q))

\* The u64 sum that take_dirty_levels and market_buy_cost make of them.  It is not
\* checked: the release build wraps round (a debug build would panic).
LevelQty(book, side, price) == LevelTotal(book, side, price) % (U64Max + 1)

\* No level of asks holds more units than a u64 counts.
AsksFit(book) == \A price \in Prices : Fits(LevelTotal(book, "Ask", price))

-----------------------------------------------------------------------------
(* add_order: the matching loop.                                           *)

\* Variables of the loop: the book, the taker's remaining size and what the
\* fills so far produced.
MatchState == [book : Book, remaining : Nat, trades : Seq(Trade),
               updates : Seq(OrderUpdate), dirty : SUBSET (Side \X Prices)]

CanFill(req, s) ==
  /\ s.remaining > 0
  /\ Levels(s.book, Opposite(req.side)) # {}
  /\ Crosses(req, BestPrice(s.book, Opposite(req.side)))

WithRemaining(order, left) == [order EXCEPT !.remaining_size = left]

\* A fill of qty against the front order of the level at price.
FillFront(order_id, account_id, req, s, price, level, qty) ==
  LET maker == Head(level)
      left  == maker.remaining_size - qty
      trade == [price |-> maker.price, qty |-> qty,
                maker_id |-> maker.id, taker_id |-> order_id,
                taker_side |-> req.side,
                maker_account |-> maker.account_id, taker_account |-> account_id]
      update == [order_id |-> maker.id, account_id |-> maker.account_id,
                 filled_qty |-> maker.size - left, remaining_size |-> left,
                 status |-> IF left = 0 THEN "Filled" ELSE "PartiallyFilled"]
      after == IF left = 0 THEN Tail(level)
               ELSE [level EXCEPT ![1] = WithRemaining(maker, left)]
      index == IF left = 0 THEN Without(s.book.order_index, {maker.id})
               ELSE s.book.order_index
  IN  [book      |-> [queue |-> [s.book.queue EXCEPT ![Opposite(req.side)][price] = after],
                      order_index |-> index,
                      last_trade_price |-> maker.price],
       remaining |-> s.remaining - qty,
       trades    |-> Append(s.trades, trade),
       updates   |-> Append(s.updates, update),
       dirty     |-> s.dirty \cup {<<maker.side, maker.price>>}]

\* One fill: the best level, its front order, as much as both sides have left.
Fill(order_id, account_id, req, s) ==
  LET side  == Opposite(req.side)
      price == BestPrice(s.book, side)
      level == s.book.queue[side][price]
  IN  FillFront(order_id, account_id, req, s, price, level,
                Min({s.remaining, Head(level).remaining_size}))

MatchStep(order_id, account_id, req, s) ==
  IF CanFill(req, s) THEN Fill(order_id, account_id, req, s) ELSE s

\* The loop: every fill takes at least one unit off the taker, so req.size
\* iterations run it to its end.
Match(book, order_id, account_id, req) ==
  Loop([n \in Nat |-> [s \in MatchState |-> MatchStep(order_id, account_id, req, s)]],
       [book |-> book, remaining |-> req.size, trades |-> << >>,
        updates |-> << >>, dirty |-> {}])[req.size]

\* Sensitivity variant of Rest: push_front instead of push_back.
RestAtFront(book, order_id, account_id, req, remaining) ==
  LET order == [id |-> order_id, account_id |-> account_id, side |-> req.side,
                price |-> req.price, size |-> req.size, remaining_size |-> remaining]
  IN  [queue |-> [book.queue EXCEPT ![req.side][req.price] = <<order>> \o @],
       order_index |-> With(book.order_index, order_id,
                            [owner |-> account_id, side |-> req.side, price |-> req.price]),
       last_trade_price |-> book.last_trade_price]

\* A limit order's remainder joins the back of its own level.
Rest(book, order_id, account_id, req, remaining) ==
  LET order == [id |-> order_id, account_id |-> account_id, side |-> req.side,
                price |-> req.price, size |-> req.size,
                remaining_size |-> remaining]
  IN  [queue |-> [book.queue EXCEPT ![req.side][req.price] = Append(@, order)],
       order_index |-> With(book.order_index, order_id,
                            [owner |-> account_id, side |-> req.side, price |-> req.price]),
       last_trade_price |-> book.last_trade_price]

\* The taker's own status update, none when a limit order rests untouched.
TakerUpdate(order_id, account_id, req, remaining) ==
  LET filled == req.size - remaining
      update(status) == << [order_id |-> order_id, account_id |-> account_id,
                            filled_qty |-> filled, remaining_size |-> remaining,
                            status |-> status] >>
  IN  IF remaining = 0 THEN update("Filled")
      ELSE IF req.order_type = "Market" THEN update("Cancelled")
      ELSE IF filled > 0 THEN update("PartiallyFilled")
      ELSE << >>

\* Drained dirty levels, each with its current aggregate.
TakeDirtyLevels(book, dirty) ==
  {[side |-> d[1], price |-> d[2], qty |-> LevelQty(book, d[1], d[2])] : d \in dirty}

\* What follows the loop, which left m: rest or drop the remainder, report.
Finish(order_id, account_id, req, m) ==
  LET rests == req.order_type = "Limit" /\ m.remaining > 0
      after == IF rests THEN Rest(m.book, order_id, account_id, req, m.remaining)
               ELSE m.book
      dirty == IF rests THEN m.dirty \cup {<<req.side, req.price>>} ELSE m.dirty
  IN  [book            |-> after,
       trades          |-> m.trades,
       updates         |-> m.updates \o TakerUpdate(order_id, account_id, req, m.remaining),
       taker_remaining |-> m.remaining,
       book_deltas     |-> TakeDirtyLevels(after, dirty)]

AddOrder(book, order_id, account_id, req) ==
  Finish(order_id, account_id, req, Match(book, order_id, account_id, req))

-----------------------------------------------------------------------------
(* Read-only walks of the opposite side.                                   *)

\* The walk of market_buy_cost: the cheapest level still ahead yields what it
\* has, up to what is still wanted.
WalkState == [cost : Nat, remaining : Nat, ahead : SUBSET Prices]

\* Sensitivity variant of WalkStep: the level's whole quantity, not what is wanted.
WalkStepUnclamped(book, w) ==
  IF w.ahead = {} \/ w.remaining = 0 THEN w
  ELSE LET price == Min(w.ahead)
           qty   == LevelQty(book, "Ask", price)
       IN  [cost |-> w.cost + price * qty, remaining |-> Max({w.remaining - qty, 0}),
            ahead |-> w.ahead \ {price}]

WalkStep(book, w) ==
  IF w.ahead = {} THEN w
  ELSE LET price == Min(w.ahead)
           take  == Min({w.remaining, LevelQty(book, "Ask", price)})
       IN  [cost      |-> w.cost + price * take,
            remaining |-> w.remaining - take,
            ahead     |-> w.ahead \ {price}]

\* Exact cost of buying up to size off the asks.  A level of asks that fits has at
\* least one unit to yield, so size steps walk far enough.  The checked_mul and
\* checked_add of the walk fail exactly when the cost does not fit a u64.
MarketBuyCost(book, size) ==
  Loop([n \in Nat |-> [w \in WalkState |-> WalkStep(book, w)]],
       [cost |-> 0, remaining |-> size, ahead |-> Levels(book, "Ask")])[size].cost

\* The scan of would_self_trade: the levels from the one it is in, its place
\* there, and what the orders passed so far leave of the size.
ScanState == [found : BOOLEAN, remaining : Nat, ahead : SUBSET Prices, at : Nat \ {0}]

\* One resting order, best level first: the account's own ends the scan, and so
\* does one that uses up the size.
ScanStep(book, account_id, req, w) ==
  LET side  == Opposite(req.side)
      price == Best(side, w.ahead)
      level == book.queue[side][price]
      left  == Max({w.remaining - level[w.at].remaining_size, 0})
      last  == w.at = Len(level)
  IN  IF w.found \/ w.ahead = {} \/ ~Crosses(req, price) THEN w
      ELSE IF level[w.at].account_id = account_id THEN [w EXCEPT !.found = TRUE]
      ELSE [found     |-> FALSE,
            remaining |-> left,
            ahead     |-> IF left = 0 THEN {} ELSE IF last THEN w.ahead \ {price} ELSE w.ahead,
            at        |-> IF last THEN 1 ELSE w.at + 1]

\* Sensitivity variant of WouldSelfTrade: the scan does not stop when the orders
\* ahead use up the size.
WouldSelfTradeAnywhere(book, account_id, req) ==
  \E price \in Levels(book, Opposite(req.side)) :
    /\ Crosses(req, price)
    /\ \E order \in Range(book.queue[Opposite(req.side)][price]) : order.account_id = account_id

\* Whether the scan meets the account's own order.  The orders it passes take at
\* least a unit each, so size steps pass all it can, and one more looks at the next.
WouldSelfTrade(book, account_id, req) ==
  Loop([n \in Nat |-> [w \in ScanState |-> ScanStep(book, account_id, req, w)]],
       [found |-> FALSE, remaining |-> req.size,
        ahead |-> Levels(book, Opposite(req.side)), at |-> 1])[req.size + 1].found

-----------------------------------------------------------------------------
(* cancel_order                                                            *)

\* position() of the order in its level's queue, 0 if it is not there.
Position(q, order_id) ==
  LET hits == {i \in 1 .. Len(q) : q[i].id = order_id}
  IN  IF hits # {} THEN Min(hits) ELSE 0

CanCancel(book, account_id, order_id) ==
  /\ order_id \in DOMAIN book.order_index
  /\ book.order_index[order_id].owner = account_id
  /\ LET at == book.order_index[order_id]
     IN  Position(book.queue[at.side][at.price], order_id) # 0

CancelOrder(book, order_id) ==
  LET at    == book.order_index[order_id]
      q     == book.queue[at.side][at.price]
      i     == Position(q, order_id)
      after == [queue |-> [book.queue EXCEPT ![at.side][at.price] = RemoveAt(q, i)],
                order_index |-> Without(book.order_index, {order_id}),
                last_trade_price |-> book.last_trade_price]
  IN  [book |-> after, removed |-> q[i],
       book_deltas |-> TakeDirtyLevels(after, {<<at.side, at.price>>})]
=============================================================================
