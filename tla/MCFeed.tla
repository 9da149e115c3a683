------------------------------- MODULE MCFeed -------------------------------
EXTENDS FeedProperties

Delta(p, q) == [type |-> "BookDelta", price |-> p, qty |-> q]
Tape(p)     == [type |-> "Trade", price |-> p, qty |-> 1]
Accepted    == [type |-> "OrderAccepted", account_id |-> "alice"]
Update      == [type |-> "OrderUpdated", account_id |-> "alice"]
OtherUpdate == [type |-> "OrderUpdated", account_id |-> "bob"]

\* An update of someone else's, an order that rests, and a trade that moves both levels.
SomeBatches ==
  {<<OtherUpdate>>, <<Delta(1, 1), Accepted>>,
   <<Tape(1), Delta(1, 0), Update, Delta(2, 2)>>}

AccountOf(c) == IF c = "private" THEN "alice" ELSE None
=============================================================================
