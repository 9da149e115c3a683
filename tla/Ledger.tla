------------------------------- MODULE Ledger -------------------------------
(***************************************************************************)
(* The ledger (ledger.rs) as operators on a ledger value: the balances and *)
(* the (account, currency) pairs touched since the last drain.  A missing  *)
(* entry is a zero balance.                                                *)
(*                                                                         *)
(* The u64 additions and subtractions are the integer ones: that none of   *)
(* them leaves 0 .. U64Max is an invariant to check, not an assumption.    *)
(***************************************************************************)
EXTENDS Market

Balance == [available : Int, reserved : Int]

\* Outcome of every call: add to available and to reserved, mark dirty.
Credit(ledger, account_id, currency, available, reserved) ==
  [balances |-> [ledger.balances EXCEPT ![account_id][currency] =
                   [available |-> @.available + available,
                    reserved  |-> @.reserved + reserved]],
   dirty    |-> ledger.dirty \cup {<<account_id, currency>>}]

Held(balances, account_id, currency) ==
  balances[account_id][currency].available + balances[account_id][currency].reserved

Deposit(ledger, account_id, currency, amount) ==
  Credit(ledger, account_id, currency, amount, 0)

\* Sensitivity variant of Covers: funds already reserved count as funds.
CoversHeld(ledger, account_id, currency, amount) ==
  Held(ledger.balances, account_id, currency) >= amount

\* Guard of withdraw and of reserve; otherwise InsufficientFunds.
Covers(ledger, account_id, currency, amount) ==
  ledger.balances[account_id][currency].available >= amount

Withdraw(ledger, account_id, currency, amount) ==
  Credit(ledger, account_id, currency, -amount, 0)

Reserve(ledger, account_id, currency, amount) ==
  Credit(ledger, account_id, currency, -amount, amount)

\* Sensitivity variant of CanRelease: off by one.
CanReleaseStrictly(ledger, account_id, currency, amount) ==
  ledger.balances[account_id][currency].reserved > amount

\* Guard of release; otherwise InvalidAmount and nothing changes.
CanRelease(ledger, account_id, currency, amount) ==
  ledger.balances[account_id][currency].reserved >= amount

\* Sensitivity variant of Release: the balance is not marked dirty.
ReleaseQuietly(ledger, account_id, currency, amount) ==
  IF CanRelease(ledger, account_id, currency, amount)
  THEN [Credit(ledger, account_id, currency, amount, -amount) EXCEPT !.dirty = ledger.dirty]
  ELSE ledger

Release(ledger, account_id, currency, amount) ==
  IF CanRelease(ledger, account_id, currency, amount)
  THEN Credit(ledger, account_id, currency, amount, -amount)
  ELSE ledger

\* Sensitivity variant of Settle: the buyer is charged the quantity, not the cost.
SettleByQuantity(ledger, pair, trade) ==
  LET buyer  == IF trade.taker_side = "Bid" THEN trade.taker_account ELSE trade.maker_account
      seller == IF trade.taker_side = "Bid" THEN trade.maker_account ELSE trade.taker_account
      paid   == Credit(ledger, buyer, pair.quote, 0, -trade.qty)
      bought == Credit(paid, buyer, pair.base, trade.qty, 0)
      earned == Credit(bought, seller, pair.quote, trade.price * trade.qty, 0)
  IN  Credit(earned, seller, pair.base, 0, -trade.qty)

\* The buyer pays out of reserved quote, the seller out of reserved base.
Settle(ledger, pair, trade) ==
  LET cost   == trade.price * trade.qty
      buyer  == IF trade.taker_side = "Bid" THEN trade.taker_account ELSE trade.maker_account
      seller == IF trade.taker_side = "Bid" THEN trade.maker_account ELSE trade.taker_account
      paid   == Credit(ledger, buyer, pair.quote, 0, -cost)
      bought == Credit(paid, buyer, pair.base, trade.qty, 0)
      earned == Credit(bought, seller, pair.quote, cost, 0)
  IN  Credit(earned, seller, pair.base, 0, -trade.qty)

LedgerValue == [balances : [Accounts -> [Currency -> Balance]],
                dirty : SUBSET (Accounts \X Currency)]

\* for trade in trades { ledger.settle(pair, trade) }
SettleAll(ledger, pair, trades) ==
  Loop([n \in Nat |-> [l \in LedgerValue |->
          IF n \in DOMAIN trades THEN Settle(l, pair, trades[n]) ELSE l]],
       ledger)[Len(trades)]
=============================================================================
