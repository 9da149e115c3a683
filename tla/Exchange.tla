------------------------------ MODULE Exchange ------------------------------
(***************************************************************************)
(* What the engine promises, without queues, price levels, indexes or      *)
(* reservations: open orders in one table, holdings per account, and each  *)
(* incoming order filled by price-time priority.  How much of a resting    *)
(* order is taken is said directly, by what is ahead of it, not by a loop. *)
(* Which requests are refused is the implementation's business: a refusal  *)
(* changes nothing here.                                                   *)
(***************************************************************************)
EXTENDS Market

VARIABLES open,      \* order id -> [account_id, pair, side, price, remaining]
          holdings   \* account -> currency -> available + reserved

OpenOrder == [account_id : Accounts, pair : Markets, side : Side,
              price : Prices, remaining : Nat]

xvars == <<open, holdings>>

XInit == /\ open = [id \in {} |-> id]
         /\ holdings = [a \in Accounts |-> [c \in Currency |-> 0]]

\* The resting orders an incoming order may trade with.
Eligible(req) ==
  {id \in DOMAIN open :
     /\ open[id].pair = req.pair /\ open[id].side # req.side
     /\ \/ req.order_type = "Market"
        \/ req.side = "Bid" /\ open[id].price <= req.price
        \/ req.side = "Ask" /\ open[id].price >= req.price}

Better(side, p, q) == IF side = "Ask" THEN p < q ELSE p > q

\* j is served before i: a better price, or the same price and an older id.
Ahead(req, i) ==
  {j \in Eligible(req) :
     \/ Better(open[i].side, open[j].price, open[i].price)
     \/ open[j].price = open[i].price /\ j < i}

\* The sum of f over the order ids in its domain.
SumOf(f) == SumTo([n \in 1 .. MaxOrders |-> IF n - 1 \in DOMAIN f THEN f[n - 1] ELSE 0], MaxOrders)

Remaining(ids) == SumOf([j \in ids |-> open[j].remaining])

\* How much of resting order i an incoming order takes.
Taken(req, i) ==
  Max({0, Min({open[i].remaining, req.size - Remaining(Ahead(req, i))})})

\* What account a receives of currency c when an order of account taker matches.
Received(taker, req, a, c) ==
  LET qty(i)  == Taken(req, i)
      cost(i) == Taken(req, i) * open[i].price
      leg(i)  == IF c = req.pair.base THEN qty(i) ELSE -cost(i)
      buyer(i)  == IF req.side = "Bid" THEN taker ELSE open[i].account_id
      seller(i) == IF req.side = "Ask" THEN taker ELSE open[i].account_id
  IN  SumOf([i \in Eligible(req) |-> (IF buyer(i) = a THEN leg(i) ELSE 0)
                                      - (IF seller(i) = a THEN leg(i) ELSE 0)])

XPlace(id, a, req) ==
  LET left   == [i \in DOMAIN open |->
                   IF i \in Eligible(req) THEN open[i].remaining - Taken(req, i)
                   ELSE open[i].remaining]
      unfilled == req.size - SumOf([i \in Eligible(req) |-> Taken(req, i)])
      rests  == req.order_type = "Limit" /\ unfilled > 0
      makers == [i \in {k \in DOMAIN open : left[k] > 0} |-> [open[i] EXCEPT !.remaining = left[i]]]
      order  == [account_id |-> a, pair |-> req.pair, side |-> req.side,
                 price |-> req.price, remaining |-> unfilled]
  IN  /\ req.pair \in Markets
      /\ \A i \in DOMAIN open : i < id
      /\ open' = IF rests THEN With(makers, id, order) ELSE makers
      /\ holdings' = [x \in Accounts |-> [c \in Currency |->
                        holdings[x][c] + Received(a, req, x, c)]]

XCancel(id) ==
  /\ id \in DOMAIN open
  /\ open' = Without(open, {id})
  /\ UNCHANGED holdings

XDeposit(a, c, amount) ==
  /\ holdings' = [holdings EXCEPT ![a][c] = @ + amount]
  /\ UNCHANGED open

XWithdraw(a, c, amount) ==
  /\ holdings[a][c] >= amount
  /\ holdings' = [holdings EXCEPT ![a][c] = @ - amount]
  /\ UNCHANGED open

\* A refused command, and one about listings, changes nothing here.
XRefuse == UNCHANGED xvars

XNext ==
  \/ XRefuse
  \/ \E a \in Accounts, c \in Currency, n \in Amounts : XDeposit(a, c, n) \/ XWithdraw(a, c, n)
  \/ \E id \in OrderId : XCancel(id)
  \/ \E id \in OrderId, a \in Accounts, req \in OrderRequest : XPlace(id, a, req)

XSpec == XInit /\ [][XNext]_xvars
=============================================================================
