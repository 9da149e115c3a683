-------------------------- MODULE EngineProperties --------------------------
(***************************************************************************)
(* What the engine must guarantee after every command.                     *)
(***************************************************************************)
EXTENDS Engine

Queue(pair, side, price) == books[pair].queue[side][price]

\* Every resting order with the market it rests in.
Open == UNION {{[pair |-> k[1], order |-> o] : o \in Range(Queue(k[1], k[2], k[3]))} :
                 k \in Markets \X Side \X Prices}

(* State is of the types the code declares.                                *)
TypeOK ==
  /\ books \in [Markets -> Book]
  /\ order_pair \in Map(OrderId, Markets)
  /\ next_order_id \in 0 .. MaxOrders
  /\ next_seq \in Nat
  /\ balances \in [Accounts -> [Currency -> Balance]]
  /\ dedup \in DedupValue
  /\ listed_pairs \subseteq Markets

(* No unchecked -= of the ledger (settle in ledger.rs) takes a u64 balance *)
(* below zero.                                                             *)
NoUnderflow ==
  \A a \in Accounts, c \in Currency :
    balances[a][c].available >= 0 /\ balances[a][c].reserved >= 0

\* The orders resting on one side of a book.
RestingOn(book, side) == UNION {Range(book.queue[side][price]) : price \in Prices}

\* What a resting order could still spend: quote for a bid, base for an ask.
Spendable(o) == IF o.side = "Bid" THEN o.price * o.remaining_size ELSE o.remaining_size

\* What the order id of account a could still spend, if it is among the orders.
Pledge(orders, a, id) ==
  LET mine == {o \in orders : o.id = id /\ o.account_id = a}
  IN  IF mine = {} THEN 0 ELSE Spendable(CHOOSE o \in mine : TRUE)

Pledged(orders, a) == SumTo([n \in 1 .. MaxOrders |-> Pledge(orders, a, n - 1)], MaxOrders)

(* The reserved balance of every account and currency c is exactly what its*)
(* open orders could still spend: remaining * price of its bids in the     *)
(* market quoted in c plus the remaining of its asks in the market based on*)
(* c (d is the other currency).  reserve, settle, release and the surplus  *)
(* refund of place_order and cancel_order have to agree for this to hold.  *)
ReservedBacked ==
  \A a \in Accounts, c, d \in Currency : c # d =>
    balances[a][c].reserved =
      Pledged(RestingOn(books[[base |-> c, quote |-> d]], "Ask"), a)
        + Pledged(RestingOn(books[[base |-> d, quote |-> c]], "Bid"), a)

\* The parts of a well-kept book.  Indexed: order_index names the side, price
\* and owner of every resting order, and nothing but resting orders.
Located(book, side, price, o) ==
  /\ o.side = side /\ o.price = price
  /\ o.id \in DOMAIN book.order_index
  /\ book.order_index[o.id] = [owner |-> o.account_id, side |-> side, price |-> price]

RestsAt(q, id) == \E i \in 1 .. Len(q) : q[i].id = id

Indexed(book) ==
  /\ \A side \in Side, price \in Prices :
       \A i \in 1 .. Len(book.queue[side][price]) :
         Located(book, side, price, book.queue[side][price][i])
  /\ \A id \in DOMAIN book.order_index :
       RestsAt(book.queue[book.order_index[id].side][book.order_index[id].price], id)

\* InOrder: a level's queue is in order of arrival, its ids are below next_id,
\* and none of its orders is filled or over-filled.
Live(o, next_id) ==
  o.id < next_id /\ 0 < o.remaining_size /\ o.remaining_size <= o.size

ByArrival(q) == \A i, j \in 1 .. Len(q) : i < j => q[i].id < q[j].id

InOrder(book, next_id) ==
  \A side \in Side, price \in Prices :
    /\ \A i \in 1 .. Len(book.queue[side][price]) : Live(book.queue[side][price][i], next_id)
    /\ ByArrival(book.queue[side][price])

NotCrossed(book) ==
  \A bid \in Levels(book, "Bid"), ask \in Levels(book, "Ask") : bid < ask

(* No market is left crossed: matching runs until the best bid is below    *)
(* the best ask (the while loop of add_order).                             *)
Uncrossed == \A pair \in Markets : NotCrossed(books[pair])

(* order_index and order_pair route a cancel to exactly the order it names:*)
(* between them they hold the resting orders of every book, each at its    *)
(* market, side and price, and nothing else.                               *)
IndexExact ==
  /\ \A pair \in Markets : Indexed(books[pair])
  /\ \A pair \in Markets : \A id \in DOMAIN books[pair].order_index :
       id \in DOMAIN order_pair /\ order_pair[id] = pair
  /\ \A id \in DOMAIN order_pair : id \in DOMAIN books[order_pair[id]].order_index

(* Time priority: within a level the queue is in order of arrival and no   *)
(* filled or over-filled order is left in it, whatever partial fills and   *)
(* cancels happened (pop_front, remove(index), push_back of book.rs).      *)
QueuesInOrder == \A pair \in Markets : InOrder(books[pair], next_order_id)

\* What the buyers of the trades paid.
CostOf(trades) == SumTo([i \in 1 .. Len(trades) |-> trades[i].price * trades[i].qty], Len(trades))

(* market_buy_cost, walked before matching, is what the fills then cost, so*)
(* a market buy leaves nothing reserved (comment at engine.rs:165-167).    *)
WalkedCostExact ==
  \A req \in OrderRequest, a \in Accounts :
    (next_order_id < MaxOrders /\ IsValid(req.pair)
       /\ req.side = "Bid" /\ req.order_type = "Market") =>
      MarketBuyCost(books[req.pair], req.size) =
        CostOf(AddOrder(books[req.pair], next_order_id, a, req).trades)

Makers(req, a) ==
  LET t == AddOrder(books[req.pair], next_order_id, a, req).trades
  IN  {t[i].maker_account : i \in DOMAIN t}

\* The order first in line for req is account a's: the front of the best level,
\* which req crosses.
FirstInLine(req, a) ==
  LET book == books[req.pair]
      side == Opposite(req.side)
  IN  /\ Levels(book, side) # {}
      /\ Crosses(req, BestPrice(book, side))
      /\ Head(book.queue[side][BestPrice(book, side)]).account_id = a

(* would_self_trade predicts, before anything is reserved, whether matching*)
(* this order would trade with the account's own resting orders.  The      *)
(* exception is an order of size 0, which the engine accepts: it trades    *)
(* with nobody, yet is found to self-trade exactly if the order first in   *)
(* line for it is the account's own.                                       *)
SelfTradeMirrorsMatching ==
  \A a \in Accounts, req \in OrderRequest :
    (next_order_id < MaxOrders /\ IsValid(req.pair)) =>
      (WouldSelfTrade(books[req.pair], a, req)
         <=> IF req.size > 0 THEN a \in Makers(req, a) ELSE FirstInLine(req, a))

(* The idempotency window: seen holds exactly the queued ids, an id is     *)
(* queued once, and no account holds more than DEDUP_WINDOW of them.       *)
DedupConsistent ==
  \A a \in Accounts :
    LET recent == dedup.order[a]
    IN  /\ Len(recent) <= DedupWindow
        /\ \A i, j \in 1 .. Len(recent) : recent[i] = recent[j] => i = j
        /\ \A x \in ClientIds :
             <<a, x>> \in dedup.seen <=> \E i \in 1 .. Len(recent) : recent[i] = x

-----------------------------------------------------------------------------
(* Action properties.                                                      *)

\* What a trade in market pair moves into account a of currency c.
Buyer(t)  == IF t.taker_side = "Bid" THEN t.taker_account ELSE t.maker_account
Seller(t) == IF t.taker_side = "Bid" THEN t.maker_account ELSE t.taker_account

NetOfTrade(pair, t, a, c) ==
  LET leg == IF c = pair.base THEN t.qty ELSE - (t.price * t.qty)
  IN  (IF Buyer(t) = a THEN leg ELSE 0) - (IF Seller(t) = a THEN leg ELSE 0)

\* What the emitted trades move into account a of currency c.
NetOfTrades(a, c) ==
  IF batch = << >> \/ batch[1].events.accepted = << >> THEN 0
  ELSE LET pair   == batch[1].events.accepted[1].req.pair
           trades == batch[1].events.trades
       IN  SumTo([i \in 1 .. Len(trades) |-> NetOfTrade(pair, trades[i], a, c)], Len(trades))

(* The events tell the whole story: apart from deposits and withdrawals, an*)
(* account's holding of a currency (available + reserved) changes by what  *)
(* the trades in the emitted batch say, and by nothing else.               *)
TradesExplainHoldings ==
  [][response'.command \notin {"Deposit", "Withdraw"} =>
       \A a \in Accounts, c \in Currency :
         Held(balances', a, c) - Held(balances, a, c) = NetOfTrades(a, c)']_vars

(* A command answered with an error, a failed cancel or Duplicate leaves   *)
(* books, balances, markets, ids and the sequence number alone: place_order*)
(* does not fail after it has matched (the release(..)? at engine.rs:239), *)
(* and a key in the window stops a command before it can do anything.      *)
RefusalChangesNothing ==
  [][response'.result # "Ok" \/ response'.command = "Duplicate" =>
       UNCHANGED <<books, order_pair, next_order_id, next_seq, balances, listed_pairs>>]_vars

(* Every emitted trade's cost fits a u64, so the expect() in settle        *)
(* (ledger.rs) never stops the engine.                                     *)
TradeCostFits ==
  [][\A i \in 1 .. Len(batch') :
       \A k \in 1 .. Len(batch'[i].events.trades) :
         Fits(batch'[i].events.trades[k].price * batch'[i].events.trades[k].qty)]_vars

-----------------------------------------------------------------------------
(* The engine implements Exchange.                                         *)

OpenTable ==
  [id \in {o.order.id : o \in Open} |->
     LET o == CHOOSE x \in Open : x.order.id = id
     IN  [account_id |-> o.order.account_id, pair |-> o.pair, side |-> o.order.side,
          price |-> o.order.price, remaining |-> o.order.remaining_size]]

Holdings == [a \in Accounts |-> [c \in Currency |-> Held(balances, a, c)]]

X == INSTANCE Exchange WITH open <- OpenTable, holdings <- Holdings

(* Price-time priority, exact fills and conservation of funds at once:     *)
(* every command of the engine is a step of Exchange or changes neither the*)
(* open orders nor the holdings.                                           *)
RefinesExchange == X!XSpec
=============================================================================
