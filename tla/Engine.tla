------------------------------- MODULE Engine -------------------------------
(***************************************************************************)
(* The matching engine (engine.rs): the state of struct Engine and one     *)
(* action per Command that apply() handles.  apply() runs one command at a *)
(* time on a single thread, so each action is one atomic step; response    *)
(* and batch are what the last call returned.                              *)
(*                                                                         *)
(* Left out of the outputs: the filled_qty and total_cost of a Place       *)
(* response and the fields of OrderAccepted the order id stands for.       *)
(***************************************************************************)
EXTENDS OrderBook, Ledger, Dedup

CONSTANTS MaxBatches,           \* bound: event batches emitted
          DepositCeiling,       \* Limits.deposit_ceiling, per currency
          PriceBandBps,         \* Limits.price_band_bps, or None
          PreventSelfTrade      \* Limits.prevent_self_trade

ASSUME DepositCeilingAssumption == DepositCeiling \in [Currency -> 0 .. U64Max]
ASSUME PriceBandAssumption == PriceBandBps \in Nat \/ PriceBandBps = None
ASSUME SelfTradeAssumption == PreventSelfTrade \in BOOLEAN

VARIABLES books,          \* one book per market; absent is an empty book
          order_pair,     \* order id -> market of the book it rests in
          next_order_id,
          next_seq,
          balances,       \* ledger.balances (ledger.dirty is empty between commands)
          dedup,
          listed_pairs,
          response,       \* CommandResponse of the last command
          batch           \* << EventBatch >> of the last command, << >> for None

vars == <<books, order_pair, next_order_id, next_seq, balances, dedup,
          listed_pairs, response, batch>>

Ledger0 == [balances |-> balances, dirty |-> {}]

Init ==
  /\ books = [pair \in Markets |-> EmptyBook]
  /\ order_pair = [id \in {} |-> id]
  /\ next_order_id = 0
  /\ next_seq = 0
  /\ balances = [a \in Accounts |-> [c \in Currency |-> [available |-> 0, reserved |-> 0]]]
  /\ dedup = NewDedup
  /\ listed_pairs = {}
  /\ response = [command |-> "None", result |-> "None"]
  /\ batch = << >>

-----------------------------------------------------------------------------
(* apply(): what every command shares.                                     *)

\* A command that is not a duplicate; its idempotency key is recorded first.
Admit(account_id, client_order_id) ==
  /\ Fresh(dedup, account_id, client_order_id)
  /\ dedup' = DedupInsert(dedup, account_id, client_order_id)

Respond(command, result) == response' = [command |-> command, result |-> result]

NoEvents == [accepted |-> << >>, trades |-> << >>, updates |-> << >>,
             cancelled |-> << >>, deltas |-> {}]

\* The end of apply(): BalanceChanged for the dirty balances, then a sequence
\* number and a batch if there is any event at all.
Commit(events, ledger) ==
  /\ balances' = ledger.balances
  /\ IF events = NoEvents /\ ledger.dirty = {}
     THEN batch' = << >> /\ UNCHANGED next_seq
     ELSE /\ next_seq' = next_seq + 1
          /\ batch' = << [seq    |-> next_seq,
                          events |-> events,
                          balance_changed |->
                            {[account_id |-> d[1], currency |-> d[2],
                              balance |-> ledger.balances[d[1]][d[2]]] : d \in ledger.dirty}] >>

-----------------------------------------------------------------------------
(* place_order                                                             *)

\* price_band: +- bps of the last price but at least 1, saturating.
PriceBand(last, bps) ==
  LET delta == Max({(Min({last * bps, U64Max})) \div 10000, 1})
  IN  [low |-> Max({last - delta, 0}), high |-> Min({last + delta, U64Max})]

OutOfBand(book, req) ==
  /\ req.order_type = "Limit" /\ PriceBandBps # None /\ book.last_trade_price # None
  /\ LET band == PriceBand(book.last_trade_price, PriceBandBps)
     IN  req.price < band.low \/ req.price > band.high

\* Sensitivity variant of QuoteAmount: a wrapping multiplication.
QuoteAmountWrapping(book, req) ==
  IF req.order_type = "Market" /\ req.side = "Bid"
  THEN MarketBuyCost(book, req.size)
  ELSE (req.price * req.size) % (U64Max + 1)

\* What the order locks up, before the u64 checks.  A market buy walks the
\* book; everything else multiplies, asks (which reserve base) included.
QuoteAmount(book, req) ==
  IF req.order_type = "Market" /\ req.side = "Bid"
  THEN MarketBuyCost(book, req.size)
  ELSE req.price * req.size

ReserveOf(book, req) ==
  IF req.side = "Bid"
  THEN [currency |-> req.pair.quote, amount |-> QuoteAmount(book, req)]
  ELSE [currency |-> req.pair.base,  amount |-> req.size]

\* The early returns of place_order, in the code's order; "Ok" when none applies.
PlaceCheck(account_id, req) ==
  IF ~IsValid(req.pair) \/ req.pair \notin listed_pairs THEN "InvalidPair"
  ELSE LET book == books[req.pair]
           hold == ReserveOf(book, req)
       IN  IF OutOfBand(book, req) THEN "PriceOutOfBand"
           ELSE IF PreventSelfTrade /\ WouldSelfTrade(book, account_id, req) THEN "SelfTrade"
           ELSE IF ~Fits(QuoteAmount(book, req)) THEN "InvalidAmount"
           ELSE IF ~Covers(Ledger0, account_id, hold.currency, hold.amount)
                THEN "InsufficientFunds"
           ELSE "Ok"

\* A market sell's unfilled remainder goes back to available.
ReleaseUnsold(ledger, account_id, req, taker_remaining) ==
  IF req.order_type = "Market" /\ req.side = "Ask" /\ taker_remaining > 0
  THEN Release(ledger, account_id, req.pair.base, taker_remaining)
  ELSE ledger

\* Sensitivity variant of Surplus: price improvement is not refunded.
NoSurplus(req, trades) == 0

\* What a limit buy reserved beyond what its fills cost.
Surplus(req, trades) ==
  IF req.side = "Bid" /\ req.order_type = "Limit"
  THEN SumTo([i \in 1 .. Len(trades) |-> (req.price - trades[i].price) * trades[i].qty],
             Len(trades))
  ELSE 0

MakerIds(trades) == {trades[i].maker_id : i \in 1 .. Len(trades)}

\* Sensitivity variant of FilledMakers: no routing entry is ever dropped.
NoFilledMakers(book, trades) == {}

\* Makers the book no longer holds; their order_pair entries go.
FilledMakers(book, trades) == MakerIds(trades) \ DOMAIN book.order_index

PlaceEvents(order_id, account_id, req, match) ==
  [NoEvents EXCEPT
     !.accepted = << [order_id |-> order_id, account_id |-> account_id, req |-> req] >>,
     !.trades   = match.trades,
     !.updates  = match.updates,
     !.deltas   = {[pair |-> req.pair, level |-> d] : d \in match.book_deltas}]

\* The end of place_order, with the trades settled in ledger: refund the
\* surplus, update the routing, answer.
PlaceMatched(order_id, account_id, req, match, ledger, surplus) ==
  LET \* release(..)? would return Err with the book already changed
      refused  == surplus > 0 /\ ~CanRelease(ledger, account_id, req.pair.quote, surplus)
      refunded == IF surplus > 0
                  THEN Release(ledger, account_id, req.pair.quote, surplus)
                  ELSE ledger
      routed   == Without(order_pair, FilledMakers(match.book, match.trades))
  IN  /\ books' = [books EXCEPT ![req.pair] = match.book]
      /\ next_order_id' = next_order_id + 1
      /\ order_pair' = IF order_id \in DOMAIN match.book.order_index
                       THEN With(routed, order_id, req.pair) ELSE routed
      /\ Respond("Place", IF refused THEN "InvalidAmount" ELSE "Ok")
      /\ Commit(IF refused THEN NoEvents
                ELSE PlaceEvents(order_id, account_id, req, match), refunded)

PlaceAccepted(account_id, client_order_id, req) ==
  /\ PlaceCheck(account_id, req) = "Ok"
  /\ Admit(account_id, client_order_id)
  /\ LET book     == books[req.pair]
         hold     == ReserveOf(book, req)
         reserved == Reserve(Ledger0, account_id, hold.currency, hold.amount)
         match    == AddOrder(book, next_order_id, account_id, req)
         settled  == SettleAll(reserved, req.pair, match.trades)
         unsold   == ReleaseUnsold(settled, account_id, req, match.taker_remaining)
     IN  PlaceMatched(next_order_id, account_id, req, match, unsold,
                      Surplus(req, match.trades))
  /\ UNCHANGED listed_pairs

PlaceRejected(account_id, client_order_id, req) ==
  /\ PlaceCheck(account_id, req) # "Ok"
  /\ Admit(account_id, client_order_id)
  /\ Respond("Place", PlaceCheck(account_id, req))
  /\ Commit(NoEvents, Ledger0)
  /\ UNCHANGED <<books, order_pair, next_order_id, listed_pairs>>

Place(account_id, client_order_id, req) ==
  /\ next_order_id < MaxOrders
  /\ \/ PlaceAccepted(account_id, client_order_id, req)
     \/ PlaceRejected(account_id, client_order_id, req)

-----------------------------------------------------------------------------
(* cancel_order                                                            *)

Cancellable(account_id, order_id) ==
  /\ order_id \in DOMAIN order_pair
  /\ CanCancel(books[order_pair[order_id]], account_id, order_id)

\* The currency and amount an open order holds in reserve.
Commitment(pair, order) ==
  IF order.side = "Bid"
  THEN [currency |-> pair.quote, amount |-> order.remaining_size * order.price]
  ELSE [currency |-> pair.base,  amount |-> order.remaining_size]

CancelEvents(pair, cancel) ==
  LET order == cancel.removed
  IN  [NoEvents EXCEPT
         !.cancelled = << order.id >>,
         !.updates   = << [order_id |-> order.id, account_id |-> order.account_id,
                           filled_qty |-> order.size - order.remaining_size,
                           remaining_size |-> order.remaining_size,
                           status |-> "Cancelled"] >>,
         !.deltas    = {[pair |-> pair, level |-> d] : d \in cancel.book_deltas}]

CancelAccepted(account_id, client_order_id, order_id) ==
  /\ Cancellable(account_id, order_id)
  /\ Admit(account_id, client_order_id)
  /\ LET pair   == order_pair[order_id]
         cancel == CancelOrder(books[pair], order_id)
         order  == cancel.removed
         hold   == Commitment(pair, order)
     IN  /\ books' = [books EXCEPT ![pair] = cancel.book]
         /\ order_pair' = Without(order_pair, {order_id})
         /\ Commit(CancelEvents(pair, cancel),
                   Release(Ledger0, order.account_id, hold.currency, hold.amount))
  /\ Respond("Cancel", "Ok")
  /\ UNCHANGED <<next_order_id, listed_pairs>>

CancelRejected(account_id, client_order_id, order_id) ==
  /\ ~Cancellable(account_id, order_id)
  /\ Admit(account_id, client_order_id)
  /\ Respond("Cancel", "NotCancelled")
  /\ Commit(NoEvents, Ledger0)
  /\ UNCHANGED <<books, order_pair, next_order_id, listed_pairs>>

Cancel(account_id, client_order_id, order_id) ==
  \/ CancelAccepted(account_id, client_order_id, order_id)
  \/ CancelRejected(account_id, client_order_id, order_id)

-----------------------------------------------------------------------------
(* deposit, withdraw, list_pair, delist_pair and the duplicate answer      *)

DepositCheck(account_id, currency, amount) ==
  LET after == Held(balances, account_id, currency) + amount
  IN  IF ~Fits(after) THEN "InvalidAmount"
      ELSE IF after > DepositCeiling[currency] THEN "DepositLimitExceeded"
      ELSE "Ok"

DepositCmd(account_id, client_order_id, currency, amount) ==
  LET check == DepositCheck(account_id, currency, amount)
  IN  /\ Admit(account_id, client_order_id)
      /\ Respond("Deposit", check)
      /\ Commit(NoEvents, IF check = "Ok"
                          THEN Deposit(Ledger0, account_id, currency, amount)
                          ELSE Ledger0)
      /\ UNCHANGED <<books, order_pair, next_order_id, listed_pairs>>

WithdrawCmd(account_id, client_order_id, currency, amount) ==
  LET ok == Covers(Ledger0, account_id, currency, amount)
  IN  /\ Admit(account_id, client_order_id)
      /\ Respond("Withdraw", IF ok THEN "Ok" ELSE "InsufficientFunds")
      /\ Commit(NoEvents, IF ok THEN Withdraw(Ledger0, account_id, currency, amount)
                          ELSE Ledger0)
      /\ UNCHANGED <<books, order_pair, next_order_id, listed_pairs>>

\* Sensitivity variant of ListPair: the pair is not validated.
ListAnyPair(account_id, client_order_id, pair) ==
  /\ Admit(account_id, client_order_id)
  /\ Respond("ListPair", "Ok")
  /\ listed_pairs' = listed_pairs \cup {pair}
  /\ Commit(NoEvents, Ledger0)
  /\ UNCHANGED <<books, order_pair, next_order_id>>

ListPair(account_id, client_order_id, pair) ==
  /\ Admit(account_id, client_order_id)
  /\ Respond("ListPair", IF IsValid(pair) THEN "Ok" ELSE "InvalidPair")
  /\ listed_pairs' = IF IsValid(pair) THEN listed_pairs \cup {pair} ELSE listed_pairs
  /\ Commit(NoEvents, Ledger0)
  /\ UNCHANGED <<books, order_pair, next_order_id>>

\* Delisting stops new orders; the orders already resting stay.
DelistPair(account_id, client_order_id, pair) ==
  /\ Admit(account_id, client_order_id)
  /\ Respond("DelistPair", IF pair \in listed_pairs THEN "Ok" ELSE "NotListed")
  /\ listed_pairs' = listed_pairs \ {pair}
  /\ Commit(NoEvents, Ledger0)
  /\ UNCHANGED <<books, order_pair, next_order_id>>

\* Sensitivity variant of Duplicate: it uses up a sequence number.
DuplicateNumbered(account_id, client_order_id) ==
  /\ ~Fresh(dedup, account_id, client_order_id)
  /\ Respond("Duplicate", "Ok")
  /\ batch' = << >>
  /\ next_seq' = next_seq + 1
  /\ UNCHANGED <<books, order_pair, next_order_id, balances, dedup, listed_pairs>>

\* A key still in the window: nothing is touched and nothing is emitted.
Duplicate(account_id, client_order_id) ==
  /\ ~Fresh(dedup, account_id, client_order_id)
  /\ Respond("Duplicate", "Ok")
  /\ batch' = << >>
  /\ UNCHANGED <<books, order_pair, next_order_id, next_seq, balances, dedup, listed_pairs>>

Apply(a, cid) ==
  \/ \E req \in OrderRequest : Place(a, cid, req)
  \/ \E id \in OrderId : Cancel(a, cid, id)
  \/ \E c \in Currency, n \in Amounts : DepositCmd(a, cid, c, n)
  \/ \E c \in Currency, n \in Amounts : WithdrawCmd(a, cid, c, n)
  \/ \E pair \in Pairs : ListPair(a, cid, pair)
  \/ \E pair \in Pairs : DelistPair(a, cid, pair)
  \/ Duplicate(a, cid)

\* Bound: asks reserve base, so a level of asks that a u64 cannot count takes more
\* base in the accounts together than a u64 counts - 2^64 / 1000 deposits of SOL
\* under the ceilings the engine runs with.  Bids at price 0 reserve nothing and
\* are not bounded.
BaseFits == \A pair \in Markets : AsksFit(books[pair])

Next ==
  /\ next_seq < MaxBatches
  /\ \E a \in Accounts, cid \in ClientIds : Apply(a, cid)
  /\ BaseFits'

Spec == Init /\ [][Next]_vars
=============================================================================
