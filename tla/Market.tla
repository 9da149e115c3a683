------------------------------- MODULE Market -------------------------------
(***************************************************************************)
(* Currencies, markets, orders and requests (market.rs, book.rs,           *)
(* command.rs, error.rs).  Amounts are the program's u64: U64Max stands    *)
(* for u64::MAX, so that the checked arithmetic has something to reject.   *)
(***************************************************************************)
EXTENDS Integers, Sequences, SequencesExt, Loops

CONSTANTS Accounts,     \* AccountId values in use
          Pairs,        \* pairs a request may name
          Prices,       \* prices a request may carry
          Sizes,        \* order sizes a request may carry
          Amounts,      \* amounts a deposit or withdrawal may carry
          U64Max,       \* u64::MAX
          MaxOrders     \* bound: order ids handed out

ASSUME PricesAssumption    == Prices \subseteq Nat
ASSUME SizesAssumption     == Sizes \subseteq Nat
ASSUME AmountsAssumption   == Amounts \subseteq Nat
ASSUME U64MaxAssumption    == U64Max \in Nat /\ Prices \cup Sizes \cup Amounts \subseteq 0 .. U64Max
ASSUME MaxOrdersAssumption == MaxOrders \in Nat

Currency  == {"USD", "SOL"}
Pair      == [base : Currency, quote : Currency]
IsValid(pair) == pair.base # pair.quote
Markets   == {pair \in Pair : IsValid(pair)}

Side      == {"Bid", "Ask"}
OrderType == {"Limit", "Market"}
ASSUME PairsAssumption == Pairs \subseteq Pair

Opposite(side) == IF side = "Bid" THEN "Ask" ELSE "Bid"

OrderId   == 0 .. MaxOrders - 1

OrderRequest == [pair : Pairs, side : Side, order_type : OrderType,
                 price : Prices, size : Sizes]

\* A resting order.  Only limit orders rest, so order_type is left out.
Order == [id : OrderId, account_id : Accounts, side : Side, price : Prices,
          size : Nat, remaining_size : Nat]

OrderLocation == [owner : Accounts, side : Side, price : Prices]

Trade == [price : Prices, qty : Nat, maker_id : OrderId, taker_id : OrderId,
          taker_side : Side, maker_account : Accounts, taker_account : Accounts]

OrderUpdate == [order_id : OrderId, account_id : Accounts, filled_qty : Int,
                remaining_size : Nat,
                status : {"Filled", "PartiallyFilled", "Cancelled"}]

RejectReason == {"InvalidPair", "PriceOutOfBand", "SelfTrade", "InvalidAmount",
                 "InsufficientFunds", "DepositLimitExceeded"}

\* checked_mul / checked_add return None exactly when the result is not Fits.
Fits(n) == n <= U64Max

\* The finite maps of the code: partial functions from K to V.
Map(K, V) == UNION {[D -> V] : D \in SUBSET K}
Without(f, K) == Restrict(f, DOMAIN f \ K)
With(f, k, v) == [x \in DOMAIN f \cup {k} |-> IF x = k THEN v ELSE f[x]]
=============================================================================
