----------------------------- MODULE BotProofs -----------------------------
(***************************************************************************)
(* The market-making bot never crosses its own quotes, loses no order and  *)
(* renews its tokens in time, for any ladder, spread, bounds of mid, token *)
(* lifetime and number of ticks, faults and visitors.                      *)
(*                                                                         *)
(* The argument: what rests is the ladder of the current mid, what is set  *)
(* aside is the ladder of the one before; a walk by one unit, from the     *)
(* middle of a book with room inside, brings no new quote as far as an old *)
(* one on the other side.                                                  *)
(***************************************************************************)
EXTENDS BotProperties, LoopsProofs

Sides == {"Bid", "Ask"}
Owners == {"maker", "taker", "outsider"}

\* No price is higher.
Top == MaxMid + Spread + QuoteLevels

BotOrder == [id : Nat, owner : Owners, side : Sides, price : 0 .. Top]
BotRequest == [order_type : {"Limit", "Market"}, side : Sides, price : 0 .. Top]

\* The exchange with the orders O when n is the next id: an id is that of one
\* order, and the sides do not cross.
ExchangeGood(O, n) ==
  /\ n \in Nat /\ O \subseteq BotOrder
  /\ \A o \in O : o.id < n
  /\ \A o, p \in O : o.id = p.id => o = p
  /\ \A b, a \in O : b.side = "Bid" /\ a.side = "Ask" => b.price < a.price

(* The constants. *)
LEMMA BotConstants ==
  /\ QuoteLevels \in Nat /\ Spread \in Nat /\ MinMid \in Nat /\ MaxMid \in Nat /\ FirstMid \in Nat
  /\ Ttl \in Nat /\ ReauthEvery \in Nat /\ StartTime \in Nat /\ TickTime \in Nat
  /\ QuoteLevels > 0 /\ Spread > 0 /\ MinMid > 0 /\ MinMid <= MaxMid /\ ReauthEvery <= Ttl
  /\ Top \in Nat /\ MaxMid <= Top
<1>1. /\ QuoteLevels \in Nat \ {0} /\ Spread \in Nat \ {0} /\ MinMid \in Nat \ {0}
      /\ MaxMid \in Nat \ {0} /\ FirstMid \in Nat \ {0} /\ Ttl \in Nat \ {0}
      /\ ReauthEvery \in Nat \ {0} /\ StartTime \in Nat /\ TickTime \in Nat
      /\ MinMid <= MaxMid /\ ReauthEvery <= Ttl
  BY QuotesAssumption
<1>. QED
  BY <1>1 DEF Top

(* The larger and the smaller of two numbers. *)
LEMMA Larger ==
  ASSUME NEW x \in Int, NEW y \in Int
  PROVE  Max({x, y}) = (IF x <= y THEN y ELSE x) /\ Min({x, y}) = (IF x <= y THEN x ELSE y)
<1>1. \E m \in {x, y} : \A k \in {x, y} : m >= k
  OBVIOUS
<1>2. \E m \in {x, y} : \A k \in {x, y} : m <= k
  OBVIOUS
<1>3. Max({x, y}) \in {x, y} /\ \A k \in {x, y} : Max({x, y}) >= k
  BY <1>1 DEF Max
<1>4. Min({x, y}) \in {x, y} /\ \A k \in {x, y} : Min({x, y}) <= k
  BY <1>2 DEF Min
<1>. QED
  BY <1>3, <1>4

(* The ends of a bounded set of numbers. *)
LEMMA Ends ==
  ASSUME NEW P, P \subseteq 0 .. Top, P # {}
  PROVE  /\ Max(P) \in P /\ \A k \in P : k <= Max(P)
         /\ Min(P) \in P /\ \A k \in P : Min(P) <= k
<1>1. P \in SUBSET Nat /\ Top \in Nat /\ \A k \in P : k <= Top
  BY BotConstants
<1>2. PICK m \in P : \A k \in P : k <= m
  BY <1>1, GreatestNat
<1>3. PICK l \in P : \A k \in P : l <= k
  BY <1>1, LeastNat
<1>4. \A k \in P : k \in Int
  BY <1>1
<1>5. \E x \in P : \A k \in P : x >= k
  BY <1>2, <1>4
<1>6. Max(P) \in P /\ \A k \in P : Max(P) >= k
  BY <1>5 DEF Max
<1>7. Min(P) \in P /\ \A k \in P : Min(P) <= k
  BY <1>3 DEF Min
<1>. QED
  BY <1>4, <1>6, <1>7

-----------------------------------------------------------------------------
(* The exchange.                                                           *)

(* Of the orders of a side one is ahead of all others. *)
LEMMA FrontExists ==
  ASSUME ExchangeGood(orders, next_order_id), NEW side \in Sides, On(side) # {}
  PROVE  \E o \in On(side) : \A p \in On(side) : p = o \/ Ahead(o, p)
<1>. DEFINE O == On(side)
            P == {o.price : o \in O}
            best == IF side = "Ask" THEN Min(P) ELSE Max(P)
            L == {o \in O : o.price = best}
            I == {o.id : o \in L}
<1>1. \A o \in O : /\ o \in BotOrder /\ o.side = side
                   /\ o.price \in 0 .. Top /\ o.price \in Int /\ o.id \in Nat
  BY BotConstants DEF On, ExchangeGood, BotOrder
<1>2. P \subseteq 0 .. Top /\ P # {}
  BY <1>1
<1>3. best \in P /\ \A o \in O : IF side = "Ask" THEN best <= o.price ELSE o.price <= best
  <2>. HIDE DEF O, P
  <2>1. /\ Max(P) \in P /\ \A k \in P : k <= Max(P)
        /\ Min(P) \in P /\ \A k \in P : Min(P) <= k
    BY <1>2, Ends
  <2>2. \A o \in O : o.price \in P
    BY DEF P
  <2>. QED
    BY <2>1, <2>2
<1>4. best \in Int /\ L # {}
  BY <1>1, <1>3
<1>. HIDE DEF O, P, best
<1>5. I \in SUBSET Nat /\ I # {}
  BY <1>1, <1>4
<1>6. PICK i \in I : \A k \in I : i <= k
  <2>. HIDE DEF I
  <2>. QED
    BY <1>5, LeastNat
<1>7. PICK o \in L : o.id = i
  BY <1>6
<1>8. ASSUME NEW p \in O, p # o PROVE Ahead(o, p)
  <2>1. /\ o \in O /\ o.price = best /\ o.side = side /\ o.price \in Int /\ p.price \in Int
        /\ o.id \in Nat /\ p.id \in Nat
    BY <1>1, <1>7
  <2>2. CASE p.price = best
    <3>1. i <= p.id
      BY <1>6, <2>2
    <3>2. p.id # o.id
      BY <1>8, <2>1 DEF ExchangeGood, O, On
    <3>3. o.id < p.id
      BY <1>7, <2>1, <3>1, <3>2
    <3>. QED
      BY <2>1, <2>2, <3>3 DEF Ahead
  <2>3. CASE p.price # best
    <3>1. IF side = "Ask" THEN best <= p.price ELSE p.price <= best
      BY <1>3
    <3>. QED
      BY <1>4, <2>1, <2>3, <3>1 DEF Ahead
  <2>. QED
    BY <2>2, <2>3
<1>. QED
  BY <1>7, <1>8 DEF O

(* A request that trades with nothing crosses nothing. *)
LEMMA NoneCrosses ==
  ASSUME ExchangeGood(orders, next_order_id), NEW req \in BotRequest, Counterparts(req) = {},
         NEW p \in On(Opposite(req.side))
  PROVE  ~Crosses(req, p)
<1>. DEFINE opp == Opposite(req.side)
<1>1. opp \in Sides /\ req.price \in Int /\ (opp = "Ask" <=> req.side = "Bid")
  BY BotConstants DEF BotRequest, Sides, Opposite
<1>2. PICK o \in On(opp) : \A q \in On(opp) : q = o \/ Ahead(o, q)
  BY <1>1, FrontExists
<1>3. ~Crosses(req, o)
  BY <1>2 DEF Counterparts
<1>4. /\ o.side = opp /\ p.side = opp /\ o.price \in Int /\ p.price \in Int
  BY <1>2, BotConstants DEF On, ExchangeGood, BotOrder
<1>5. p = o \/ Ahead(o, p)
  BY <1>2
<1>. QED
  BY <1>1, <1>3, <1>4, <1>5 DEF Ahead, Crosses

\* What an accepted request makes of the exchange.
NewOrder(who, req) == [id |-> next_order_id, owner |-> who, side |-> req.side, price |-> req.price]
Accepted(who, req) ==
  /\ next_order_id' = next_order_id + 1
  /\ \A o \in orders' : o \in orders \/ (req.order_type = "Limit" /\ o = NewOrder(who, req))
  /\ ExchangeGood(orders', next_order_id')
  /\ last_price' \in Nat \cup {None}

(* It adds the new order at most, and the sides stay apart. *)
LEMMA AcceptEffect ==
  ASSUME ExchangeGood(orders, next_order_id), last_price \in Nat \cup {None},
         NEW who \in Owners, NEW req \in BotRequest, Accept(who, req)
  PROVE  Accepted(who, req)
<1>. DEFINE hit == Counterparts(req)
            new == NewOrder(who, req)
<1>1. /\ next_order_id' = next_order_id + 1
      /\ orders' = IF hit # {} THEN orders \ hit
                   ELSE IF req.order_type = "Market" THEN orders ELSE orders \cup {new}
      /\ last_price' = IF hit = {} THEN last_price ELSE (CHOOSE o \in hit : TRUE).price
  BY DEF Accept, NewOrder
<1>2. /\ req.order_type \in {"Limit", "Market"} /\ req.side \in Sides /\ req.price \in 0 .. Top
      /\ req.price \in Int
  BY BotConstants DEF BotRequest
<1>3. /\ next_order_id \in Nat /\ orders \subseteq BotOrder /\ \A o \in orders : o.id < next_order_id
      /\ \A o \in orders : o.id \in Nat /\ o.price \in Int /\ o.side \in Sides
  BY BotConstants DEF ExchangeGood, BotOrder
<1>4. /\ new \in BotOrder /\ new.id = next_order_id /\ new.side = req.side /\ new.price = req.price
  BY <1>2, <1>3 DEF NewOrder, BotOrder
<1>5. last_price' \in Nat \cup {None}
  <2>1. CASE hit = {}
    BY <1>1, <2>1
  <2>2. CASE hit # {}
    <3>1. (CHOOSE o \in hit : TRUE) \in hit
      BY <2>2
    <3>2. hit \subseteq orders
      BY DEF Counterparts, On
    <3>3. \A o \in orders : o.price \in Nat
      BY <1>3, BotConstants DEF BotOrder
    <3>. QED
      BY <1>1, <2>2, <3>1, <3>2, <3>3
  <2>. QED
    BY <2>1, <2>2
<1>6. \A o \in orders' : o \in orders \/ (req.order_type = "Limit" /\ hit = {} /\ o = new)
  BY <1>1, <1>2
<1>7. /\ next_order_id' \in Nat /\ orders' \subseteq BotOrder
      /\ \A o \in orders' : o.id < next_order_id'
  BY <1>1, <1>3, <1>4, <1>6
<1>8. ASSUME NEW o \in orders', NEW p \in orders', o.id = p.id PROVE o = p
  <2>1. o \in orders => o.id # new.id
    BY <1>3, <1>4
  <2>2. p \in orders => p.id # new.id
    BY <1>3, <1>4
  <2>3. o \in orders /\ p \in orders => o = p
    BY <1>8 DEF ExchangeGood
  <2>. QED
    BY <1>6, <1>8, <2>1, <2>2, <2>3
<1>9. ASSUME NEW b \in orders', NEW a \in orders', b.side = "Bid", a.side = "Ask"
      PROVE  b.price < a.price
  <2>1. CASE b \in orders /\ a \in orders
    BY <1>9, <2>1 DEF ExchangeGood
  <2>2. CASE ~(b \in orders /\ a \in orders)
    <3>1. hit = {} /\ req.order_type = "Limit" /\ (b = new \/ a = new)
      BY <1>6, <2>2
    <3>2. \A p \in On(Opposite(req.side)) : ~Crosses(req, p)
      BY <1>2, <3>1, NoneCrosses
    <3>3. CASE b = new
      <4>1. req.side = "Bid" /\ a \in orders
        BY <1>4, <1>6, <1>9, <3>3
      <4>2. ~Crosses(req, a)
        BY <1>9, <3>2, <4>1 DEF On, Opposite
      <4>. QED
        BY <1>2, <1>3, <1>4, <3>3, <4>1, <4>2 DEF Crosses
    <3>4. CASE a = new
      <4>1. req.side = "Ask" /\ b \in orders
        BY <1>4, <1>6, <1>9, <3>4
      <4>2. ~Crosses(req, b)
        BY <1>9, <3>2, <4>1 DEF On, Opposite
      <4>. QED
        BY <1>2, <1>3, <1>4, <3>4, <4>1, <4>2 DEF Crosses
    <3>. QED
      BY <3>1, <3>3, <3>4
  <2>. QED
    BY <2>1, <2>2
<1>10. ExchangeGood(orders', next_order_id')
  BY <1>7, <1>8, <1>9 DEF ExchangeGood
<1>. QED
  BY <1>1, <1>5, <1>6, <1>10 DEF Accepted

(* Taking orders out keeps the rest of the exchange. *)
LEMMA FewerOrders ==
  ASSUME NEW O, NEW n, ExchangeGood(O, n), NEW R, R \subseteq O
  PROVE  ExchangeGood(R, n)
<1>1. /\ n \in Nat /\ R \subseteq BotOrder /\ \A o \in R : o.id < n
  BY DEF ExchangeGood
<1>2. \A o, p \in R : o.id = p.id => o = p
  BY DEF ExchangeGood
<1>3. \A b, a \in R : b.side = "Bid" /\ a.side = "Ask" => b.price < a.price
  BY DEF ExchangeGood
<1>. QED
  BY <1>1, <1>2, <1>3 DEF ExchangeGood

(* The best prices, where there are any. *)
LEMMA BestFacts ==
  ASSUME ExchangeGood(orders, next_order_id)
  PROVE  /\ BestOf("Bid") \in Nat \cup {None} /\ BestOf("Ask") \in Nat \cup {None}
         /\ BestOf("Bid") # None => /\ BestOf("Bid") \in Nat
                                    /\ \E o \in On("Bid") : o.price = BestOf("Bid")
                                    /\ \A o \in On("Bid") : o.price <= BestOf("Bid")
         /\ BestOf("Ask") # None => /\ BestOf("Ask") \in Nat
                                    /\ \E o \in On("Ask") : o.price = BestOf("Ask")
                                    /\ \A o \in On("Ask") : BestOf("Ask") <= o.price
<1>. DEFINE B == {o.price : o \in On("Bid")}
            A == {o.price : o \in On("Ask")}
<1>1. B \subseteq 0 .. Top /\ A \subseteq 0 .. Top
  BY DEF On, ExchangeGood, BotOrder
<1>2. /\ BestOf("Bid") = (IF B = {} THEN None ELSE Max(B))
      /\ BestOf("Ask") = (IF A = {} THEN None ELSE Min(A))
  BY DEF BestOf
<1>3. /\ \A o \in On("Bid") : o.price \in B
      /\ \A o \in On("Ask") : o.price \in A
      /\ \A k \in B : \E o \in On("Bid") : o.price = k
      /\ \A k \in A : \E o \in On("Ask") : o.price = k
  OBVIOUS
<1>. HIDE DEF A, B
<1>4. B # {} => Max(B) \in B /\ \A k \in B : k <= Max(B)
  BY <1>1, Ends
<1>5. A # {} => Min(A) \in A /\ \A k \in A : Min(A) <= k
  BY <1>1, Ends
<1>6. B \subseteq Nat /\ A \subseteq Nat
  BY <1>1, BotConstants
<1>. QED
  BY <1>2, <1>3, <1>4, <1>5, <1>6

-----------------------------------------------------------------------------
(* The invariant.                                                          *)

InList(s) == {s[i] : i \in DOMAIN s}

Places == Roles \cup {"clear", "tick", "quote", "print"}

\* The exchange, and what the bot reads of it.
MarketInv ==
  /\ ExchangeGood(orders, next_order_id)
  /\ {last_price, shown.bid, shown.ask} \subseteq Nat \cup {None}

\* The bot: between ticks nothing is set aside, and a fresh process knows no order.
ProcessInv ==
  /\ bot \in [pc : Places, step : Nat, mid : Nat, resting : Seq(Nat), previous : Seq(Nat)]
  /\ \A id \in Tracked : id < next_order_id
  /\ bot.pc \in Roles \cup {"clear"} => bot.resting = << >>
  /\ bot.pc \notin {"quote"} => bot.previous = << >>

\* Tokens outlast the last renewal of both by their lifetime.
TokensInv ==
  /\ clock \in Nat /\ session \in [maker : Nat, taker : Nat, last_auth : Nat]
  /\ session.last_auth <= clock
  /\ bot.pc = "taker" => session.maker = clock + Ttl /\ session.last_auth = clock
  /\ bot.pc \notin Roles => \A who \in Roles : session[who] >= session.last_auth + Ttl
  /\ TokensRenewedInTime

\* A quote of the current ladder, and one no quote of it can trade with.
OfLadder(o) ==
  IF o.side = "Ask" THEN o.price >= bot.mid + Spread
  ELSE o.price = 0 \/ o.price <= bot.mid - Spread
OutOfReach(o) ==
  IF o.side = "Ask" THEN o.price > 0 /\ o.price > bot.mid - Spread
  ELSE o.price < bot.mid + Spread

\* What rests is of the current ladder; what is set aside is out of its reach.
LadderInv ==
  /\ bot.pc = "quote" \/ bot.resting # << >> => bot.mid \in MinMid .. MaxMid
  /\ \A o \in MakerOrders : o.id \in InList(bot.resting) => OfLadder(o)
  /\ bot.pc = "quote" /\ ~excused =>
       \A o \in MakerOrders : o.id \in InList(bot.previous) => OutOfReach(o)

BotInv == MarketInv /\ ProcessInv /\ TokensInv /\ OrdersTracked /\ LadderInv

(* It holds at the start. *)
LEMMA BotInvInit == Init => BotInv
<1>. SUFFICES ASSUME Init PROVE BotInv
  OBVIOUS
<1>1. bot = Fresh /\ orders = {}
  BY DEF Init
<1>2. MakerOrders = {} /\ IdsOf(MakerOrders) = {} /\ Tracked = {}
  BY <1>1 DEF MakerOrders, IdsOf, Tracked, Fresh
<1>3. MarketInv
  BY DEF Init, MarketInv, ExchangeGood
<1>4. ProcessInv
  BY <1>1, <1>2, BotConstants DEF ProcessInv, Fresh, Places, Roles
<1>5. TokensInv
  BY <1>1, BotConstants DEF Init, TokensInv, TokensRenewedInTime, Fresh, Roles
<1>6. OrdersTracked
  BY <1>1, <1>2 DEF OrdersTracked
<1>7. LadderInv
  BY <1>1, <1>2 DEF LadderInv, Fresh
<1>. QED
  BY <1>3, <1>4, <1>5, <1>6, <1>7 DEF BotInv

(* Each rung of the ladder is a request the exchange takes. *)
LEMMA Rung ==
  ASSUME Quoting, ProcessInv, LadderInv
  PROVE  LET req == QuoteAt(bot.step) IN
         /\ req \in BotRequest
         /\ req.order_type = "Limit"
         /\ req.side = "Ask" => req.price >= bot.mid + Spread
         /\ req.side = "Bid" => req.price = 0 \/ req.price <= bot.mid - Spread
<1>. DEFINE i == bot.step \div 2
            low == bot.mid - (Spread + i)
            req == QuoteAt(bot.step)
<1>1. /\ bot.step \in Nat /\ bot.step < 2 * QuoteLevels /\ bot.mid \in Nat /\ bot.mid <= MaxMid
  BY BotConstants DEF Quoting, ProcessInv, LadderInv
<1>2. i \in Nat /\ i < QuoteLevels
  BY <1>1, BotConstants
<1>. HIDE DEF i
<1>3. low \in Int /\ low <= bot.mid - Spread /\ low <= Top
  BY <1>1, <1>2, BotConstants DEF Top
<1>4. bot.mid + Spread + i \in 0 .. Top /\ bot.mid + Spread + i >= bot.mid + Spread
  BY <1>1, <1>2, BotConstants DEF Top
<1>. HIDE DEF low
<1>5. Max({0, low}) = (IF 0 <= low THEN low ELSE 0)
  BY <1>3, Larger
<1>6. Max({0, low}) \in 0 .. Top /\ (Max({0, low}) = 0 \/ Max({0, low}) <= bot.mid - Spread)
  BY <1>3, <1>5, BotConstants
<1>7. req = [order_type |-> "Limit",
             side |-> IF bot.step % 2 = 0 THEN "Bid" ELSE "Ask",
             price |-> IF bot.step % 2 = 0 THEN Max({0, low}) ELSE bot.mid + Spread + i]
  BY DEF QuoteAt, low, i
<1>8. CASE bot.step % 2 = 0
  <2>1. req.order_type = "Limit" /\ req.side = "Bid" /\ req.price = Max({0, low})
    BY <1>7, <1>8
  <2>2. req \in BotRequest
    BY <1>6, <1>7, <1>8 DEF BotRequest, Sides
  <2>. QED
    BY <1>6, <2>1, <2>2
<1>9. CASE bot.step % 2 # 0
  <2>1. req.order_type = "Limit" /\ req.side = "Ask" /\ req.price = bot.mid + Spread + i
    BY <1>7, <1>9
  <2>2. req \in BotRequest
    BY <1>4, <1>7, <1>9 DEF BotRequest, Sides
  <2>. QED
    BY <1>4, <2>1, <2>2
<1>. QED
  BY <1>8, <1>9

(* The takers' and visitors' requests. *)
LEMMA OtherRequests ==
  ASSUME NEW side \in Sides
  PROVE  /\ TakerRequest(side) \in BotRequest
         /\ TakerRequest(side).order_type = "Market"
         /\ \A price \in MinMid .. MaxMid :
              [order_type |-> "Limit", side |-> side, price |-> price] \in BotRequest
<1>1. 0 \in 0 .. Top /\ \A price \in MinMid .. MaxMid : price \in 0 .. Top
  BY BotConstants
<1>. QED
  BY <1>1 DEF TakerRequest, BotRequest

-----------------------------------------------------------------------------
(* The exchange stays good.                                                *)

(* A quote accepted is an order of the ladder. *)
LEMMA QuoteAccepted ==
  ASSUME MarketInv, ProcessInv, LadderInv, Quoting, Accept("maker", QuoteAt(bot.step))
  PROVE  /\ Accepted("maker", QuoteAt(bot.step))
         /\ \A o \in orders' : \/ o \in orders
                               \/ o.id = next_order_id /\ o.owner = "maker" /\ OfLadder(o)
<1>. DEFINE req == QuoteAt(bot.step)
<1>1. /\ req \in BotRequest
      /\ req.side = "Ask" => req.price >= bot.mid + Spread
      /\ req.side = "Bid" => req.price = 0 \/ req.price <= bot.mid - Spread
  BY Rung
<1>2. req.side \in Sides
  BY <1>1 DEF BotRequest
<1>. HIDE DEF req
<1>3. Accept("maker", req)
  BY DEF req
<1>4. Accepted("maker", req)
  <2>1. "maker" \in Owners /\ ExchangeGood(orders, next_order_id) /\ last_price \in Nat \cup {None}
    BY DEF Owners, MarketInv
  <2>. QED
    BY <1>1, <1>3, <2>1, AcceptEffect
<1>5. LET new == NewOrder("maker", req)
      IN  new.id = next_order_id /\ new.owner = "maker" /\ OfLadder(new)
  BY <1>1, <1>2 DEF NewOrder, OfLadder, Sides
<1>6. \A o \in orders' : o \in orders \/ o = NewOrder("maker", req)
  BY <1>4 DEF Accepted
<1>. QED
  BY <1>4, <1>5, <1>6 DEF req

(* A visitor's or the taker's request leaves no new order of the bot. *)
LEMMA OthersAccepted ==
  ASSUME MarketInv, NEW who \in {"taker", "outsider"}, NEW req \in BotRequest, Accept(who, req),
         who = "taker" => req.order_type = "Market"
  PROVE  /\ Accepted(who, req)
         /\ \A o \in orders' : o \in orders \/ o.owner = "outsider"
<1>1. who \in Owners /\ ExchangeGood(orders, next_order_id) /\ last_price \in Nat \cup {None}
  BY DEF Owners, MarketInv
<1>2. Accepted(who, req)
  BY <1>1, AcceptEffect
<1>3. NewOrder(who, req).owner = who
  BY DEF NewOrder
<1>4. \A o \in orders' : o \in orders \/ (req.order_type = "Limit" /\ o = NewOrder(who, req))
  BY <1>2 DEF Accepted
<1>. QED
  BY <1>2, <1>3, <1>4

\* The exchange's orders are those it had, less some; ids and prices stand.
OnlyFewer ==
  orders' \subseteq orders /\ next_order_id' = next_order_id /\ last_price' = last_price

LEMMA MarketFewer ==
  ASSUME MarketInv, OnlyFewer, shown' = shown \/ shown' = Current
  PROVE  MarketInv'
<1>1. ExchangeGood(orders', next_order_id')
  <2>1. ExchangeGood(orders, next_order_id)
    BY DEF MarketInv
  <2>2. orders' \subseteq orders /\ next_order_id' = next_order_id
    BY DEF OnlyFewer
  <2>. QED
    BY <2>1, <2>2, FewerOrders
<1>2. {shown'.bid, shown'.ask} \subseteq Nat \cup {None}
  <2>1. CASE shown' = shown
    BY <2>1 DEF MarketInv
  <2>2. CASE shown' = Current
    <3>1. BestOf("Bid") \in Nat \cup {None} /\ BestOf("Ask") \in Nat \cup {None}
      BY BestFacts DEF MarketInv
    <3>. QED
      BY <2>2, <3>1 DEF Current
  <2>. QED
    BY <2>1, <2>2
<1>3. last_price' \in Nat \cup {None}
  BY DEF OnlyFewer, MarketInv
<1>. QED
  BY <1>1, <1>2, <1>3 DEF MarketInv

LEMMA MarketAccepted ==
  ASSUME MarketInv, NEW who, NEW req, Accepted(who, req), shown' = shown
  PROVE  MarketInv'
<1>1. ExchangeGood(orders', next_order_id') /\ last_price' \in Nat \cup {None}
  BY DEF Accepted
<1>2. {shown'.bid, shown'.ask} \subseteq Nat \cup {None}
  BY DEF MarketInv
<1>. QED
  BY <1>1, <1>2 DEF MarketInv

\* The steps that place no order.
Quiet ==
  \/ \E ok \in BOOLEAN : AuthAtStart(ok)
  \/ \E missed \in {{}, rows} \cup {{id} : id \in rows} : ClearStale(missed)
  \/ \E got \in SUBSET Roles, answered \in BOOLEAN, step \in {-1, 0, 1} : Tick(got, answered, step)
  \/ QuoteRefused \/ CancelPrevious \/ CancelLost \/ Cancelled
  \/ \E side \in Sides : TakerPrint(side) /\ UNCHANGED exchange
  \/ TickEnds \/ Restart \/ Project \/ UNCHANGED vars

\* A step that places an order of someone else's, or the taker's print.
Foreign ==
  \/ \E side \in Sides : TakerPrint(side) /\ Accept("taker", TakerRequest(side))
  \/ \E side \in Sides, price \in MinMid .. MaxMid : Visit(side, price)

(* These are all the steps. *)
LEMMA Steps ==
  ASSUME [Next]_vars
  PROVE  Quiet \/ Foreign \/ QuotePlaced \/ QuoteForgotten
<1>1. ASSUME NEW side \in Sides, TakerPrint(side) PROVE Quiet \/ Foreign
  <2>1. Accept("taker", TakerRequest(side)) \/ UNCHANGED exchange
    BY <1>1 DEF TakerPrint
  <2>. QED
    BY <1>1, <2>1 DEF Quiet, Foreign
<1>2. (\E side \in Sides : TakerPrint(side)) => Quiet \/ Foreign
  BY <1>1
<1>3. BotStep => Quiet \/ Foreign \/ QuotePlaced \/ QuoteForgotten
  BY <1>2 DEF BotStep, Quiet, Sides
<1>4. (\E side \in {"Bid", "Ask"}, price \in MinMid .. MaxMid : Visit(side, price)) => Foreign
  BY DEF Foreign, Sides
<1>5. Restart \/ Project \/ UNCHANGED vars => Quiet
  BY DEF Quiet
<1>. QED
  BY <1>3, <1>4, <1>5 DEF Next

(* A quiet step only takes orders out. *)
LEMMA QuietOrders ==
  ASSUME Quiet
  PROVE  OnlyFewer /\ (shown' = shown \/ shown' = Current)
<1>1. ASSUME NEW ok \in BOOLEAN, AuthAtStart(ok) PROVE OnlyFewer /\ shown' = shown
  BY <1>1 DEF AuthAtStart, exchange, OnlyFewer
<1>2. ASSUME NEW missed, ClearStale(missed) PROVE OnlyFewer /\ shown' = shown
  BY <1>2 DEF ClearStale, OnlyFewer
<1>3. ASSUME NEW got, NEW answered, NEW step, Tick(got, answered, step)
      PROVE  OnlyFewer /\ shown' = shown
  BY <1>3 DEF Tick, exchange, OnlyFewer
<1>4. QuoteRefused => OnlyFewer /\ shown' = shown
  BY DEF QuoteRefused, exchange, OnlyFewer
<1>5. CancelPrevious => OnlyFewer /\ shown' = shown
  BY DEF CancelPrevious, OnlyFewer
<1>6. CancelLost \/ Cancelled => OnlyFewer /\ shown' = shown
  BY DEF CancelLost, Cancelled, exchange, OnlyFewer
<1>7. ASSUME NEW side, TakerPrint(side), UNCHANGED exchange PROVE OnlyFewer /\ shown' = shown
  BY <1>7 DEF TakerPrint, exchange, OnlyFewer
<1>8. TickEnds \/ Restart => OnlyFewer /\ shown' = shown
  BY DEF TickEnds, Restart, exchange, OnlyFewer
<1>9. Project => OnlyFewer /\ shown' = Current
  BY DEF Project, exchange, OnlyFewer
<1>10. UNCHANGED vars => OnlyFewer /\ shown' = shown
  BY DEF vars, exchange, OnlyFewer
<1>. QED
  BY <1>1, <1>2, <1>3, <1>4, <1>5, <1>6, <1>7, <1>8, <1>9, <1>10 DEF Quiet

(* What a foreign step does to the orders and to the bot. *)
LEMMA ForeignEffect ==
  ASSUME MarketInv, Foreign
  PROVE  /\ MarketInv'
         /\ next_order_id' = next_order_id + 1
         /\ \A o \in orders' : o \in orders \/ o.owner = "outsider"
         /\ bot' = bot \/ (bot.pc = "print" /\ bot' = After(bot))
         /\ UNCHANGED <<clock, session, history>>
<1>1. ASSUME NEW side \in Sides, TakerPrint(side), Accept("taker", TakerRequest(side))
      PROVE  /\ MarketInv' /\ next_order_id' = next_order_id + 1
             /\ \A o \in orders' : o \in orders \/ o.owner = "outsider"
  <2>1. /\ Accepted("taker", TakerRequest(side))
        /\ \A o \in orders' : o \in orders \/ o.owner = "outsider"
    BY <1>1, OtherRequests, OthersAccepted
  <2>2. shown' = shown
    BY <1>1 DEF TakerPrint
  <2>3. MarketInv'
    BY <2>1, <2>2, MarketAccepted
  <2>. QED
    BY <2>1, <2>3 DEF Accepted
<1>2. ASSUME NEW side \in Sides, NEW price \in MinMid .. MaxMid, Visit(side, price)
      PROVE  /\ MarketInv' /\ next_order_id' = next_order_id + 1
             /\ \A o \in orders' : o \in orders \/ o.owner = "outsider"
  <2>. DEFINE req == [order_type |-> "Limit", side |-> side, price |-> price]
  <2>1. req \in BotRequest
    BY OtherRequests
  <2>2. Accept("outsider", req) /\ shown' = shown
    BY <1>2 DEF Visit
  <2>. HIDE DEF req
  <2>3. /\ Accepted("outsider", req)
        /\ \A o \in orders' : o \in orders \/ o.owner = "outsider"
    BY <2>1, <2>2, OthersAccepted
  <2>4. MarketInv'
    BY <2>2, <2>3, MarketAccepted
  <2>. QED
    BY <2>3, <2>4 DEF Accepted
<1>3. ASSUME NEW side, TakerPrint(side)
      PROVE  bot.pc = "print" /\ bot' = After(bot) /\ UNCHANGED <<clock, session, history>>
  BY <1>3 DEF TakerPrint
<1>4. ASSUME NEW side, NEW price, Visit(side, price)
      PROVE  bot' = bot /\ UNCHANGED <<clock, session, history>>
  BY <1>4 DEF Visit
<1>. QED
  BY <1>1, <1>2, <1>3, <1>4 DEF Foreign

-----------------------------------------------------------------------------
(* The tokens.                                                             *)

(* A token asked for comes, and lasts its lifetime. *)
LEMMA TokenSigned == ASSUME NEW who PROVE AuthToken(who) = Sign
BY DEF AuthToken, Signup, Login

\* What the tokens' invariant says after a step that leaves them alone.
TokensKept ==
  /\ UNCHANGED <<clock, session>>
  /\ bot'.pc = bot.pc \/ bot'.pc = "maker" \/ (bot.pc = "quote" /\ bot'.pc = "print")
  /\ bot'.pc = bot.pc \/ bot.pc = "quote" => failed' = failed

LEMMA TokensFrame == ASSUME TokensInv, TokensKept PROVE TokensInv'
<1>1. bot'.pc = "taker" => bot.pc = "taker"
  BY DEF TokensKept
<1>2. bot'.pc \notin Roles => bot.pc \notin Roles
  BY DEF TokensKept, Roles
<1>3. TokensRenewedInTime'
  <2>1. bot'.pc \in {"quote", "print"} => bot.pc \in {"quote", "print"} /\ failed' = failed
    BY DEF TokensKept
  <2>2. clock' = clock /\ session' = session
    BY DEF TokensKept
  <2>. QED
    BY <2>1, <2>2 DEF TokensInv, TokensRenewedInTime, Verify
<1>4. clock' = clock /\ session' = session
  BY DEF TokensKept
<1>. QED
  BY <1>1, <1>2, <1>3, <1>4 DEF TokensInv

LEMMA TokensAtStart ==
  ASSUME TokensInv, ProcessInv, NEW ok \in BOOLEAN, AuthAtStart(ok)
  PROVE  TokensInv'
<1>1. clock' = clock /\ clock \in Nat /\ bot.pc \in Roles
  BY DEF AuthAtStart, TokensInv
<1>2. CASE ~ok
  <2>1. session' = session /\ bot'.pc = "maker"
    BY <1>2 DEF AuthAtStart, Fresh
  <2>. QED
    BY <1>1, <2>1 DEF TokensInv, TokensRenewedInTime, Roles
<1>3. CASE ok /\ bot.pc = "maker"
  <2>1. session' = [session EXCEPT !.maker = clock + Ttl, !.last_auth = clock]
    BY <1>3, TokenSigned DEF AuthAtStart, Sign
  <2>2. bot'.pc = "taker"
    BY <1>3 DEF AuthAtStart, ProcessInv
  <2>3. session' \in [maker : Nat, taker : Nat, last_auth : Nat]
    <3>1. clock + Ttl \in Nat /\ clock \in Nat /\ session \in [maker : Nat, taker : Nat, last_auth : Nat]
      BY <1>1, BotConstants DEF TokensInv
    <3>. QED
      BY <2>1, <3>1
  <2>4. session'.maker = clock + Ttl /\ session'.last_auth = clock
    BY <2>1 DEF TokensInv
  <2>5. TokensRenewedInTime'
    BY <2>2 DEF TokensRenewedInTime
  <2>. QED
    BY <1>1, <2>2, <2>3, <2>4, <2>5 DEF TokensInv, Roles
<1>4. CASE ok /\ bot.pc = "taker"
  <2>1. session' = [session EXCEPT !.taker = clock + Ttl, !.last_auth = clock]
    BY <1>4, TokenSigned DEF AuthAtStart, Sign
  <2>2. bot'.pc = "clear"
    BY <1>4 DEF AuthAtStart, ProcessInv
  <2>3. session' \in [maker : Nat, taker : Nat, last_auth : Nat]
    <3>1. clock + Ttl \in Nat /\ clock \in Nat /\ session \in [maker : Nat, taker : Nat, last_auth : Nat]
      BY <1>1, BotConstants DEF TokensInv
    <3>. QED
      BY <2>1, <3>1
  <2>4. /\ session'.maker = clock + Ttl /\ session'.taker = clock + Ttl
        /\ session'.last_auth = clock
    BY <1>4, <2>1 DEF TokensInv
  <2>5. TokensRenewedInTime'
    BY <2>2 DEF TokensRenewedInTime
  <2>6. \A who \in Roles : session'[who] >= session'.last_auth + Ttl
    BY <1>1, <2>4, BotConstants DEF Roles
  <2>. QED
    BY <1>1, <2>2, <2>3, <2>4, <2>5, <2>6 DEF TokensInv, Roles
<1>. QED
  BY <1>1, <1>2, <1>3, <1>4 DEF Roles

LEMMA TokensInTick ==
  ASSUME TokensInv, ProcessInv,
         NEW got \in SUBSET Roles, NEW answered, NEW step, Tick(got, answered, step)
  PROVE  TokensInv'
<1>1. /\ clock' = clock /\ bot.pc = "tick" /\ bot'.pc = "quote" /\ failed' = Roles \ got
      /\ ReauthDue \/ got = Roles
  BY DEF Tick, ProcessInv
<1>2. /\ clock \in Nat /\ session.last_auth \in Nat /\ session.last_auth <= clock
      /\ session.maker \in Nat /\ session.taker \in Nat
      /\ session.maker >= session.last_auth + Ttl /\ session.taker >= session.last_auth + Ttl
      /\ session \in [maker : Nat, taker : Nat, last_auth : Nat] /\ Ttl \in Nat
  BY <1>1, BotConstants DEF TokensInv, Roles
<1>3. CASE ReauthDue
  <2>1. session' = [maker     |-> IF "maker" \in got THEN clock + Ttl ELSE session.maker,
                    taker     |-> IF "taker" \in got THEN clock + Ttl ELSE session.taker,
                    last_auth |-> IF got = Roles THEN clock ELSE session.last_auth]
    BY <1>3, TokenSigned DEF Tick, Renewed, Sign
  <2>2. /\ session'.maker = IF "maker" \in got THEN clock + Ttl ELSE session.maker
        /\ session'.taker = IF "taker" \in got THEN clock + Ttl ELSE session.taker
        /\ session'.last_auth = IF got = Roles THEN clock ELSE session.last_auth
    BY <2>1
  <2>3. session' \in [maker : Nat, taker : Nat, last_auth : Nat]
    BY <1>2, <2>1
  <2>4. /\ session'.last_auth <= clock
        /\ session'.maker >= session'.last_auth + Ttl /\ session'.taker >= session'.last_auth + Ttl
    BY <1>2, <2>2 DEF Roles
  <2>5. \A who \in Roles : clock <= session'[who] \/ who \in Roles \ got
    BY <1>2, <2>2 DEF Roles
  <2>6. TokensRenewedInTime'
    BY <1>1, <2>5 DEF TokensRenewedInTime, Verify
  <2>. QED
    BY <1>1, <1>2, <2>3, <2>4, <2>6 DEF TokensInv, Roles
<1>4. CASE ~ReauthDue
  <2>1. session' = session /\ clock - session.last_auth < ReauthEvery
    BY <1>2, <1>4, BotConstants DEF Tick, ReauthDue
  <2>2. \A who \in Roles : clock <= session[who]
    BY <1>2, <2>1, BotConstants DEF Roles
  <2>3. TokensRenewedInTime'
    BY <1>1, <2>1, <2>2 DEF TokensRenewedInTime, Verify
  <2>. QED
    BY <1>1, <1>2, <2>1, <2>3 DEF TokensInv, Roles
<1>. QED
  BY <1>3, <1>4

(* The clock moves between ticks only. *)
LEMMA TokensLater ==
  ASSUME TokensInv, ProcessInv, bot.pc \notin Roles, bot'.pc = "tick", session' = session,
         clock' \in Nat, clock' >= clock
  PROVE  TokensInv'
<1>1. session.last_auth <= clock' /\ bot'.pc \notin Roles
  BY DEF TokensInv, Roles
<1>2. TokensRenewedInTime'
  BY DEF TokensRenewedInTime
<1>. QED
  BY <1>1, <1>2 DEF TokensInv

LEMMA TokensStep ==
  ASSUME MarketInv, ProcessInv, TokensInv, [Next]_vars
  PROVE  TokensInv'
<1>1. ASSUME Foreign PROVE TokensInv'
  <2>1. /\ bot' = bot \/ (bot.pc = "print" /\ bot' = After(bot))
        /\ clock' = clock /\ session' = session /\ failed' = failed
    BY <1>1, ForeignEffect DEF history
  <2>2. bot'.pc = bot.pc
    BY <2>1 DEF After, ProcessInv
  <2>. QED
    BY <2>1, <2>2, TokensFrame DEF TokensKept
<1>2. ASSUME QuotePlaced \/ QuoteForgotten \/ QuoteRefused PROVE TokensInv'
  <2>1. UNCHANGED <<clock, session, failed>> /\ bot'.pc = bot.pc
    BY <1>2 DEF QuotePlaced, QuoteForgotten, QuoteRefused, After, ProcessInv, history
  <2>. QED
    BY <2>1, TokensFrame DEF TokensKept
<1>3. ASSUME CancelPrevious \/ CancelLost \/ Cancelled PROVE TokensInv'
  <2>1. /\ UNCHANGED <<clock, session, failed>> /\ bot.pc = "quote"
        /\ bot'.pc = bot.pc \/ bot'.pc = "print"
    BY <1>3 DEF CancelPrevious, CancelLost, Cancelled, Quoted, ProcessInv, history
  <2>. QED
    BY <2>1, TokensFrame DEF TokensKept
<1>4. ASSUME NEW side, TakerPrint(side) PROVE TokensInv'
  <2>1. UNCHANGED <<clock, session, failed>> /\ bot'.pc = bot.pc
    BY <1>4 DEF TakerPrint, After, ProcessInv, history
  <2>. QED
    BY <2>1, TokensFrame DEF TokensKept
<1>5. ASSUME Restart PROVE TokensInv'
  <2>1. UNCHANGED <<clock, session, failed>> /\ bot'.pc = "maker"
    BY <1>5 DEF Restart, Fresh
  <2>. QED
    BY <2>1, TokensFrame DEF TokensKept
<1>6. ASSUME Project \/ UNCHANGED vars PROVE TokensInv'
  <2>1. UNCHANGED <<clock, session, failed, bot>>
    BY <1>6 DEF Project, vars, history
  <2>. QED
    BY <2>1, TokensFrame DEF TokensKept
<1>7. ASSUME NEW missed, ClearStale(missed) PROVE TokensInv'
  <2>1. bot.pc = "clear" /\ bot'.pc = "tick" /\ session' = session /\ clock' = clock + StartTime
    BY <1>7 DEF ClearStale, ProcessInv
  <2>2. clock' \in Nat /\ clock' >= clock /\ bot.pc \notin Roles
    BY <2>1, BotConstants DEF TokensInv, Roles
  <2>. QED
    BY <2>1, <2>2, TokensLater
<1>8. ASSUME TickEnds PROVE TokensInv'
  <2>1. bot.pc = "print" /\ bot'.pc = "tick" /\ session' = session /\ clock' = clock + TickTime
    BY <1>8 DEF TickEnds, ProcessInv
  <2>2. clock' \in Nat /\ clock' >= clock /\ bot.pc \notin Roles
    BY <2>1, BotConstants DEF TokensInv, Roles
  <2>. QED
    BY <2>1, <2>2, TokensLater
<1>. QED
  BY <1>1, <1>2, <1>3, <1>4, <1>5, <1>6, <1>7, <1>8, Steps, TokensAtStart, TokensInTick DEF Quiet

-----------------------------------------------------------------------------
(* The lists of orders and the place in the loop.                          *)

(* The members of a list grown or shortened by one. *)
LEMMA ListFacts ==
  /\ InList(<< >>) = {}
  /\ \A s \in Seq(Nat), e \in Nat : /\ Append(s, e) \in Seq(Nat)
                                    /\ InList(Append(s, e)) = InList(s) \cup {e}
  /\ \A s \in Seq(Nat) : s # << >> => /\ Tail(s) \in Seq(Nat) /\ Head(s) \in Nat
                                      /\ InList(s) = {Head(s)} \cup InList(Tail(s))
<1>1. InList(<< >>) = {}
  BY DEF InList
<1>2. ASSUME NEW s \in Seq(Nat), NEW e \in Nat
      PROVE  Append(s, e) \in Seq(Nat) /\ InList(Append(s, e)) = InList(s) \cup {e}
  <2>. DEFINE t == Append(s, e)
  <2>1. /\ t \in Seq(Nat) /\ DOMAIN t = 1 .. Len(s) + 1 /\ Len(s) \in Nat /\ DOMAIN s = 1 .. Len(s)
        /\ \A i \in 1 .. Len(s) : t[i] = s[i]
        /\ t[Len(s) + 1] = e
    OBVIOUS
  <2>. HIDE DEF t
  <2>2. \A i \in DOMAIN t : t[i] \in InList(s) \cup {e}
    <3>1. \A i \in DOMAIN t : i \in 1 .. Len(s) \/ i = Len(s) + 1
      BY <2>1
    <3>. QED
      BY <2>1, <3>1 DEF InList
  <2>3. InList(s) \cup {e} \subseteq InList(t)
    <3>1. \A i \in DOMAIN s : i \in DOMAIN t /\ t[i] = s[i]
      BY <2>1
    <3>2. Len(s) + 1 \in DOMAIN t
      BY <2>1
    <3>. QED
      BY <2>1, <3>1, <3>2 DEF InList
  <2>4. InList(t) = InList(s) \cup {e}
    BY <2>2, <2>3 DEF InList
  <2>. QED
    BY <2>1, <2>4 DEF t
<1>3. ASSUME NEW s \in Seq(Nat), s # << >>
      PROVE  /\ Tail(s) \in Seq(Nat) /\ Head(s) \in Nat
             /\ InList(s) = {Head(s)} \cup InList(Tail(s))
  <2>. DEFINE t == Tail(s)
              h == Head(s)
  <2>1. /\ t \in Seq(Nat) /\ Len(s) \in Nat /\ Len(s) > 0 /\ DOMAIN s = 1 .. Len(s)
        /\ DOMAIN t = 1 .. Len(s) - 1 /\ h = s[1] /\ h \in Nat
        /\ \A i \in 1 .. Len(s) - 1 : t[i] = s[i + 1]
    BY <1>3
  <2>. HIDE DEF t, h
  <2>2. \A i \in DOMAIN s : s[i] \in {h} \cup InList(t)
    <3>. SUFFICES ASSUME NEW i \in DOMAIN s, i # 1 PROVE s[i] \in InList(t)
      BY <2>1
    <3>1. i - 1 \in DOMAIN t /\ t[i - 1] = s[i]
      BY <2>1
    <3>. QED
      BY <3>1 DEF InList
  <2>3. {h} \cup InList(t) \subseteq InList(s)
    <3>1. \A i \in DOMAIN t : i + 1 \in DOMAIN s /\ t[i] = s[i + 1]
      BY <2>1
    <3>2. 1 \in DOMAIN s
      BY <2>1
    <3>. QED
      BY <2>1, <3>1, <3>2 DEF InList
  <2>4. InList(s) = {h} \cup InList(t)
    BY <2>2, <2>3 DEF InList
  <2>. QED
    BY <2>1, <2>4 DEF t, h
<1>. QED
  BY <1>1, <1>2, <1>3

LEMMA TrackedLists == Tracked = InList(bot.resting) \cup InList(bot.previous)
BY DEF Tracked, InList

(* A walked mid is inside the clamp, and off it only where the clamp holds it. *)
LEMMA WalkBounds ==
  ASSUME NEW mid \in Int, NEW step \in {-1, 0, 1}
  PROVE  LET w == Walked(mid, step) IN
         /\ w \in MinMid .. MaxMid
         /\ \/ w = mid + step
            \/ w = MaxMid /\ mid + step >= MaxMid
            \/ w = MinMid /\ mid + step <= MinMid
<1>. DEFINE x == Max({0, mid + step})
            y == Min({MaxMid, x})
<1>1. mid + step \in Int
  OBVIOUS
<1>2. x = IF 0 <= mid + step THEN mid + step ELSE 0
  BY <1>1, Larger
<1>3. x \in Int
  BY <1>1, <1>2
<1>. HIDE DEF x
<1>4. y = IF MaxMid <= x THEN MaxMid ELSE x
  BY <1>3, Larger, BotConstants
<1>5. y \in Int
  BY <1>3, <1>4, BotConstants
<1>. HIDE DEF y
<1>6. Max({MinMid, y}) = IF MinMid <= y THEN y ELSE MinMid
  BY <1>5, Larger, BotConstants
<1>7. Walked(mid, step) = Max({MinMid, y})
  BY DEF Walked, x, y
<1>. QED
  BY <1>1, <1>2, <1>4, <1>6, <1>7, BotConstants

(* Where mid is walked from is a number. *)
LEMMA AnchorNumber ==
  ASSUME MarketInv, ProcessInv, NEW answered
  PROVE  Anchor(answered) \in Int
<1>1. bot.mid \in Nat /\ {shown.bid, shown.ask} \subseteq Nat \cup {None}
  BY DEF MarketInv, ProcessInv
<1>2. shown.bid # None /\ shown.ask # None => shown.bid + shown.ask \in Nat
  BY <1>1
<1>3. shown.bid # None /\ shown.ask # None => (shown.bid + shown.ask) \div 2 \in Int
  BY <1>2
<1>. QED
  BY <1>1, <1>3 DEF Anchor

(* What the bot keeps of its lists and its place. *)
BotShape(b) ==
  /\ b \in [pc : Places, step : Nat, mid : Nat, resting : Seq(Nat), previous : Seq(Nat)]
  /\ b.pc \in Roles \cup {"clear"} => b.resting = << >>
  /\ b.pc \notin {"quote"} => b.previous = << >>

LEMMA FreshShape == BotShape(Fresh) /\ InList(Fresh.resting) = {} /\ InList(Fresh.previous) = {}
BY BotConstants, ListFacts DEF BotShape, Fresh, Places, Roles

LEMMA ProcessShape ==
  ASSUME BotShape(bot'), next_order_id \in Nat,
         \/ next_order_id' = next_order_id /\ Tracked' \subseteq Tracked
         \/ next_order_id' = next_order_id + 1 /\ Tracked' \subseteq Tracked \cup {next_order_id},
         ProcessInv
  PROVE  ProcessInv'
<1>1. \A id \in Tracked : id \in Nat /\ id < next_order_id
  <2>1. \A id \in Tracked : id < next_order_id
    BY DEF ProcessInv
  <2>2. bot.resting \in Seq(Nat) /\ bot.previous \in Seq(Nat)
    BY DEF ProcessInv
  <2>. QED
    BY <2>1, <2>2 DEF Tracked
<1>2. \A id \in Tracked' : id < next_order_id'
  BY <1>1
<1>. QED
  BY <1>2 DEF ProcessInv, BotShape

-----------------------------------------------------------------------------
(* The orders the bot tracks, and their prices.                            *)

\* No order of the bot is new, and the taker has none.
NoneNew == \A o \in orders' : o \in orders \/ o.owner = "outsider"

LEMMA NoneNewMaker == ASSUME NoneNew PROVE MakerOrders' \subseteq MakerOrders
BY DEF NoneNew, MakerOrders

LEMMA NoneNewFewer == ASSUME OnlyFewer PROVE NoneNew
BY DEF OnlyFewer, NoneNew

LEMMA TrackedFrame ==
  ASSUME OrdersTracked, NoneNew, leaked \subseteq leaked',
         \A o \in MakerOrders' : o.id \in Tracked => o.id \in Tracked' \cup leaked'
  PROVE  OrdersTracked'
<1>1. \A o \in MakerOrders' : o \in MakerOrders
  BY NoneNewMaker
<1>2. \A o \in MakerOrders : o.id \in Tracked \cup leaked
  BY DEF OrdersTracked, IdsOf
<1>3. \A o \in MakerOrders' : o.id \in Tracked' \cup leaked'
  BY <1>1, <1>2
<1>4. \A o \in orders' : o.owner # "taker"
  BY DEF OrdersTracked, NoneNew
<1>. QED
  BY <1>3, <1>4 DEF OrdersTracked, IdsOf

\* The lists hold no new order, in a loop that is quoting only if it was.
ListsFewer ==
  /\ bot'.mid = bot.mid /\ excused' = excused
  /\ bot'.resting # << >> => bot.resting # << >>
  /\ InList(bot'.resting) \subseteq InList(bot.resting)
  /\ InList(bot'.previous) \subseteq InList(bot.previous)
  /\ bot'.pc = "quote" => bot.pc = "quote"

LEMMA LadderFrame ==
  ASSUME LadderInv, NoneNew, ListsFewer
  PROVE  LadderInv'
<1>1. bot'.pc = "quote" \/ bot'.resting # << >> => bot'.mid \in MinMid .. MaxMid
  BY DEF LadderInv, ListsFewer
<1>2. ASSUME NEW o \in MakerOrders' PROVE o \in MakerOrders
  BY NoneNewMaker
<1>3. \A o : (OfLadder(o) => OfLadder(o)') /\ (OutOfReach(o) => OutOfReach(o)')
  BY DEF OfLadder, OutOfReach, ListsFewer
<1>4. ASSUME NEW o \in MakerOrders', o.id \in InList(bot'.resting) PROVE OfLadder(o)'
  BY <1>2, <1>3, <1>4 DEF LadderInv, ListsFewer
<1>5. ASSUME bot'.pc = "quote", ~excused',
             NEW o \in MakerOrders', o.id \in InList(bot'.previous)
      PROVE  OutOfReach(o)'
  BY <1>2, <1>3, <1>5 DEF LadderInv, ListsFewer
<1>6. \A o \in MakerOrders' : o.id \in InList(bot'.resting) => OfLadder(o)'
  BY <1>4
<1>7. bot'.pc = "quote" /\ ~excused' =>
        \A o \in MakerOrders' : o.id \in InList(bot'.previous) => OutOfReach(o)'
  BY <1>5
<1>. QED
  BY <1>1, <1>6, <1>7 DEF LadderInv, InList

\* What this section keeps.
ListsInv == ProcessInv /\ OrdersTracked /\ LadderInv

\* The lists and mid stand.
ListsKept ==
  /\ bot'.mid = bot.mid /\ bot'.resting = bot.resting /\ bot'.previous = bot.previous
  /\ excused' = excused /\ leaked' = leaked
  /\ bot'.pc = "quote" => bot.pc = "quote"

LEMMA KeptLists ==
  ASSUME MarketInv, ListsInv, NoneNew, ListsKept, BotShape(bot'),
         next_order_id' = next_order_id \/ next_order_id' = next_order_id + 1
  PROVE  ListsInv'
<1>1. Tracked' = Tracked
  BY DEF Tracked, ListsKept
<1>2. OrdersTracked'
  BY <1>1, TrackedFrame DEF ListsKept, ListsInv
<1>3. ListsFewer
  BY DEF ListsKept, ListsFewer
<1>4. LadderInv'
  BY <1>3, LadderFrame DEF ListsInv
<1>5. next_order_id \in Nat
  BY DEF MarketInv, ExchangeGood
<1>6. ProcessInv'
  BY <1>1, <1>5, ProcessShape DEF ListsInv
<1>. QED
  BY <1>2, <1>4, <1>6 DEF ListsInv

\* Only the place changes, to one where the lists are as they should be.
LEMMA PlaceMoves ==
  ASSUME ListsInv,
         \/ bot' = bot \/ bot' = After(bot)
         \/ bot.pc = "quote" /\ bot.previous = << >> /\ bot' = [bot EXCEPT !.pc = "print", !.step = 0]
         \/ bot.pc = "print" /\ bot' = [bot EXCEPT !.pc = "tick", !.step = 0],
         UNCHANGED <<excused, leaked>>
  PROVE  ListsKept /\ BotShape(bot')
<1>1. BotShape(bot) /\ bot \in [pc : Places, step : Nat, mid : Nat, resting : Seq(Nat), previous : Seq(Nat)]
  BY DEF ListsInv, ProcessInv, BotShape
<1>2. CASE bot' = bot
  BY <1>1, <1>2 DEF ListsKept
<1>3. CASE bot' = After(bot)
  <2>1. /\ bot' \in [pc : Places, step : Nat, mid : Nat, resting : Seq(Nat), previous : Seq(Nat)]
        /\ bot'.pc = bot.pc /\ bot'.mid = bot.mid /\ bot'.resting = bot.resting
        /\ bot'.previous = bot.previous
    <3>. DEFINE n == bot.step + 1
    <3>1. n \in Nat /\ bot' = [bot EXCEPT !.step = n]
      BY <1>1, <1>3 DEF After
    <3>. HIDE DEF n
    <3>2. bot \in [pc : Places, step : Nat, mid : Nat, resting : Seq(Nat), previous : Seq(Nat)]
      BY <1>1
    <3>. QED
      BY <3>1, <3>2
  <2>. QED
    BY <1>1, <2>1 DEF ListsKept, BotShape
<1>4. CASE bot.pc = "quote" /\ bot.previous = << >> /\ bot' = [bot EXCEPT !.pc = "print", !.step = 0]
  <2>1. /\ bot' \in [pc : Places, step : Nat, mid : Nat, resting : Seq(Nat), previous : Seq(Nat)]
        /\ bot'.pc = "print" /\ bot'.mid = bot.mid /\ bot'.resting = bot.resting
        /\ bot'.previous = bot.previous
    BY <1>1, <1>4 DEF Places
  <2>. QED
    BY <1>4, <2>1 DEF ListsKept, BotShape, Roles
<1>5. CASE bot.pc = "print" /\ bot' = [bot EXCEPT !.pc = "tick", !.step = 0]
  <2>1. /\ bot' \in [pc : Places, step : Nat, mid : Nat, resting : Seq(Nat), previous : Seq(Nat)]
        /\ bot'.pc = "tick" /\ bot'.mid = bot.mid /\ bot'.resting = bot.resting
        /\ bot'.previous = bot.previous
    BY <1>1, <1>5 DEF Places
  <2>2. bot.previous = << >>
    BY <1>1, <1>5 DEF BotShape
  <2>. QED
    BY <1>5, <2>1, <2>2 DEF ListsKept, BotShape, Roles
<1>. QED
  BY <1>2, <1>3, <1>4, <1>5

(* A quote placed is listed, and is not among those set aside. *)
LEMMA ListsAfterQuote ==
  ASSUME MarketInv, ListsInv, Quoting, Accept("maker", QuoteAt(bot.step)),
         bot'.mid = bot.mid, bot'.pc = bot.pc, bot'.previous = bot.previous,
         BotShape(bot'), excused' = excused,
         \/ bot'.resting = Append(bot.resting, next_order_id) /\ leaked' = leaked
         \/ bot'.resting = bot.resting /\ leaked' = leaked \cup {next_order_id}
  PROVE  ListsInv'
<1>1. /\ next_order_id' = next_order_id + 1
      /\ \A o \in orders' : \/ o \in orders
                            \/ o.id = next_order_id /\ o.owner = "maker" /\ OfLadder(o)
  BY QuoteAccepted DEF ListsInv, Accepted
<1>2. /\ next_order_id \in Nat /\ bot.resting \in Seq(Nat) /\ bot.previous \in Seq(Nat)
      /\ bot.pc = "quote"
  BY DEF MarketInv, ExchangeGood, ListsInv, ProcessInv, Quoting
<1>. DEFINE n == next_order_id
            R == InList(bot.resting)
            P == InList(bot.previous)
            R1 == InList(bot'.resting)
            P1 == InList(bot'.previous)
<1>3. /\ R \subseteq R1 /\ R1 \subseteq R \cup {n} /\ P1 = P
      /\ n \in R1 \/ n \in leaked'
  <2>1. CASE bot'.resting = Append(bot.resting, n) /\ leaked' = leaked
    <3>1. R1 = R \cup {n}
      BY <1>2, <2>1, ListFacts
    <3>. QED
      BY <2>1, <3>1
  <2>2. CASE bot'.resting = bot.resting /\ leaked' = leaked \cup {n}
    BY <2>2
  <2>. QED
    BY <2>1, <2>2
<1>4. Tracked = R \cup P /\ Tracked' = R1 \cup P1
  BY DEF Tracked, InList
<1>5. n \notin P
  <2>1. \A id \in Tracked : id < n
    BY DEF ListsInv, ProcessInv
  <2>. QED
    BY <1>2, <1>4, <2>1
<1>6. leaked \subseteq leaked'
  OBVIOUS
<1>. HIDE DEF n, R, P, R1, P1
<1>7. ProcessInv'
  <2>1. Tracked' \subseteq Tracked \cup {n}
    BY <1>3, <1>4
  <2>. QED
    BY <1>1, <1>2, <2>1, ProcessShape DEF n, ListsInv
<1>8. OrdersTracked'
  <2>1. ASSUME NEW o \in MakerOrders' PROVE o.id \in Tracked' \cup leaked'
    <3>1. CASE o \in orders
      <4>1. o.id \in Tracked \cup leaked
        BY <3>1 DEF ListsInv, OrdersTracked, IdsOf, MakerOrders
      <4>. QED
        BY <1>3, <1>4, <1>6, <4>1
    <3>2. CASE o.id = n
      BY <1>3, <1>4, <3>2
    <3>. QED
      BY <1>1, <3>1, <3>2 DEF MakerOrders, n
  <2>2. \A o \in orders' : o.owner # "taker"
    BY <1>1 DEF ListsInv, OrdersTracked
  <2>. QED
    BY <2>1, <2>2 DEF OrdersTracked, IdsOf
<1>9. LadderInv'
  <2>1. bot'.mid \in MinMid .. MaxMid
    BY <1>2 DEF ListsInv, LadderInv
  <2>2. \A o : (OfLadder(o) => OfLadder(o)') /\ (OutOfReach(o) => OutOfReach(o)')
    BY DEF OfLadder, OutOfReach
  <2>3. \A o \in orders : o.id # n
    BY <1>2 DEF MarketInv, ExchangeGood, BotOrder, n
  <2>4. ASSUME NEW o \in MakerOrders', o.id \in R1 PROVE OfLadder(o)'
    <3>1. CASE o \in orders
      <4>1. o \in MakerOrders /\ o.id \in R
        BY <1>3, <2>3, <2>4, <3>1 DEF MakerOrders
      <4>. QED
        BY <2>2, <4>1 DEF ListsInv, LadderInv, R
    <3>. QED
      BY <1>1, <2>2, <3>1 DEF MakerOrders
  <2>5. ASSUME ~excused', NEW o \in MakerOrders', o.id \in P1 PROVE OutOfReach(o)'
    <3>1. o \in MakerOrders
      BY <1>1, <1>3, <1>5, <2>5 DEF MakerOrders, n
    <3>. QED
      BY <1>2, <1>3, <2>2, <2>5, <3>1 DEF ListsInv, LadderInv, P
  <2>6. \A o \in MakerOrders' : o.id \in R1 => OfLadder(o)'
    BY <2>4
  <2>7. ~excused' => \A o \in MakerOrders' : o.id \in P1 => OutOfReach(o)'
    BY <2>5
  <2>. QED
    BY <2>1, <2>6, <2>7 DEF LadderInv, InList, R1, P1
<1>. QED
  BY <1>7, <1>8, <1>9 DEF ListsInv

(* A cancel, made or lost, strikes the head off the list. *)
LEMMA ListsAfterCancel ==
  ASSUME MarketInv, ListsInv, CancelPrevious \/ CancelLost
  PROVE  ListsInv'
<1>1. /\ bot.pc = "quote" /\ bot.previous # << >> /\ next_order_id' = next_order_id
      /\ excused' = excused /\ bot' = [bot EXCEPT !.previous = Tail(bot.previous)]
      /\ \/ leaked' = leaked /\ orders' = {o \in orders : o.owner # "maker" \/ o.id # Head(bot.previous)}
         \/ leaked' = leaked \cup {Head(bot.previous)} /\ orders' = orders
  BY DEF CancelPrevious, CancelLost, Quoted, history, exchange
<1>2. /\ bot \in [pc : Places, step : Nat, mid : Nat, resting : Seq(Nat), previous : Seq(Nat)]
      /\ next_order_id \in Nat
  BY DEF MarketInv, ExchangeGood, ListsInv, ProcessInv
<1>. DEFINE h == Head(bot.previous)
            t == Tail(bot.previous)
<1>3. t \in Seq(Nat) /\ InList(bot.previous) = {h} \cup InList(t)
  BY <1>1, <1>2, ListFacts
<1>. HIDE DEF h, t
<1>4. /\ bot'.pc = "quote" /\ bot'.mid = bot.mid /\ bot'.resting = bot.resting /\ bot'.previous = t
      /\ bot' \in [pc : Places, step : Nat, mid : Nat, resting : Seq(Nat), previous : Seq(Nat)]
  BY <1>1, <1>2, <1>3 DEF t
<1>5. BotShape(bot')
  BY <1>4 DEF BotShape, Roles
<1>6. Tracked = Tracked' \cup {h}
  <2>1. Tracked = InList(bot.resting) \cup InList(bot.previous)
    BY TrackedLists
  <2>2. Tracked' = InList(bot'.resting) \cup InList(bot'.previous)
    BY DEF Tracked, InList
  <2>. QED
    BY <1>3, <1>4, <2>1, <2>2
<1>7. ProcessInv'
  <2>1. Tracked' \subseteq Tracked
    BY <1>6
  <2>. QED
    BY <1>1, <1>2, <1>5, <2>1, ProcessShape DEF ListsInv
<1>8. NoneNew /\ leaked \subseteq leaked'
  BY <1>1 DEF NoneNew
<1>9. OrdersTracked'
  <2>1. \A o \in MakerOrders' : o.id \in Tracked => o.id \in Tracked' \cup leaked'
    BY <1>1, <1>6 DEF MakerOrders, h
  <2>. QED
    BY <1>8, <2>1, TrackedFrame DEF ListsInv
<1>10. LadderInv'
  <2>1. ListsFewer
    BY <1>1, <1>3, <1>4 DEF ListsFewer
  <2>. QED
    BY <1>8, <2>1, LadderFrame DEF ListsInv
<1>. QED
  BY <1>7, <1>9, <1>10 DEF ListsInv

(* A process that starts, or starts over, knows no order. *)
LEMMA ListsOfFresh ==
  ASSUME MarketInv, ListsInv, NoneNew, next_order_id' = next_order_id, leaked \subseteq leaked',
         bot'.resting = << >>, bot'.previous = << >>, bot'.pc # "quote", BotShape(bot'),
         \A o \in MakerOrders' : o.id \in Tracked => o.id \in leaked'
  PROVE  ListsInv'
<1>1. Tracked' = {}
  BY DEF Tracked
<1>2. ProcessInv'
  <2>1. next_order_id \in Nat
    BY DEF MarketInv, ExchangeGood
  <2>. QED
    BY <1>1, <2>1, ProcessShape DEF ListsInv
<1>3. OrdersTracked'
  BY TrackedFrame DEF ListsInv
<1>4. InList(bot'.resting) = {}
  BY ListFacts
<1>5. LadderInv'
  BY <1>4 DEF LadderInv, InList
<1>. QED
  BY <1>2, <1>3, <1>5 DEF ListsInv

-----------------------------------------------------------------------------
(* A tick: the heart of the argument.                                      *)

(* One unit's walk from the mid of a ladder, or from inside a book that    *)
(* has the ladder in it and room between its best prices, leaves the       *)
(* ladder out of reach.                                                    *)
LEMMA WalkLeavesLadder ==
  ASSUME MarketInv, ProcessInv, LadderInv,
         NEW answered \in BOOLEAN, NEW step \in {-1, 0, 1},
         ~(answered /\ (shown # Current \/ Squeezed)),
         NEW o \in MakerOrders, o.id \in InList(bot.resting)
  PROVE  LET mid == Walked(Anchor(answered), step) IN
         IF o.side = "Ask" THEN o.price > 0 /\ o.price > mid - Spread
         ELSE o.price < mid + Spread
<1>. DEFINE a == Anchor(answered)
            w == Walked(a, step)
<1>1. /\ bot.mid \in MinMid .. MaxMid /\ bot.mid \in Int
      /\ IF o.side = "Ask" THEN o.price >= bot.mid + Spread
         ELSE o.price = 0 \/ o.price <= bot.mid - Spread
  <2>1. OfLadder(o)
    BY DEF LadderInv
  <2>2. bot.resting # << >>
    BY ListFacts
  <2>. QED
    BY <2>1, <2>2, BotConstants DEF LadderInv, OfLadder
<1>2. o \in orders /\ o \in BotOrder /\ o.price \in Nat /\ o.side \in Sides
  BY BotConstants DEF MakerOrders, MarketInv, ExchangeGood, BotOrder
<1>3. a \in Int
  BY AnchorNumber
<1>. HIDE DEF a
<1>4. /\ w \in MinMid .. MaxMid /\ w \in Int
      /\ w = a + step \/ (w = MaxMid /\ a + step >= MaxMid) \/ (w = MinMid /\ a + step <= MinMid)
  <2>1. /\ w \in MinMid .. MaxMid
        /\ w = a + step \/ (w = MaxMid /\ a + step >= MaxMid) \/ (w = MinMid /\ a + step <= MinMid)
    BY <1>3, WalkBounds
  <2>. QED
    BY <2>1, BotConstants
<1>. SUFFICES IF o.side = "Ask" THEN o.price > 0 /\ o.price > w - Spread
              ELSE o.price < w + Spread
  BY DEF a
<1>. HIDE DEF w
<1>5. CASE a = bot.mid
  BY <1>1, <1>2, <1>4, <1>5, BotConstants
<1>6. CASE a # bot.mid
  <2>1. /\ answered /\ shown.bid # None /\ shown.ask # None
        /\ a = (shown.bid + shown.ask) \div 2
    BY <1>6 DEF Anchor, a
  <2>2. /\ shown.bid = BestOf("Bid") /\ shown.ask = BestOf("Ask")
        /\ shown.ask - shown.bid # 1
    BY <2>1 DEF Current, Squeezed
  <2>. DEFINE b == shown.bid
              k == shown.ask
  <2>3. /\ b \in Nat /\ k \in Nat
        /\ \E p \in On("Bid") : p.price = b
        /\ \E p \in On("Ask") : p.price = k
        /\ \A p \in On("Bid") : p.price <= b
        /\ \A p \in On("Ask") : k <= p.price
    BY <2>1, <2>2, BestFacts DEF MarketInv
  <2>. HIDE DEF b, k
  <2>4. b < k
    <3>1. PICK p \in On("Bid") : p.price = b
      BY <2>3
    <3>2. PICK q \in On("Ask") : q.price = k
      BY <2>3
    <3>. QED
      BY <3>1, <3>2 DEF MarketInv, ExchangeGood, On
  <2>5. k >= b + 2
    BY <2>2, <2>3, <2>4 DEF b, k
  <2>6. a > b /\ a < k
    <3>1. a = (b + k) \div 2
      BY <2>1 DEF b, k
    <3>. QED
      BY <2>3, <2>5, <3>1
  <2>7. CASE o.side = "Ask"
    <3>1. k <= o.price
      BY <1>2, <2>3, <2>7 DEF On
    <3>. QED
      BY <1>1, <1>2, <1>3, <1>4, <2>3, <2>6, <2>7, <3>1, BotConstants
  <2>8. CASE o.side # "Ask"
    <3>1. o.price <= b
      BY <1>2, <2>3, <2>8 DEF On, Sides
    <3>. QED
      BY <1>1, <1>2, <1>3, <1>4, <2>3, <2>6, <2>8, <3>1, BotConstants
  <2>. QED
    BY <2>7, <2>8
<1>. QED
  BY <1>5, <1>6

LEMMA ListsInTick ==
  ASSUME MarketInv, ListsInv, NEW got \in SUBSET Roles, NEW answered \in BOOLEAN,
         NEW step \in {-1, 0, 1}, Tick(got, answered, step)
  PROVE  ListsInv'
<1>. DEFINE mid == Walked(Anchor(answered), step)
<1>1. /\ bot.pc = "tick" /\ orders' = orders /\ next_order_id' = next_order_id /\ leaked' = leaked
      /\ bot' = [bot EXCEPT !.pc = "quote", !.step = 0, !.mid = mid,
                            !.previous = bot.resting, !.resting = << >>]
      /\ excused' = (answered /\ (shown # Current \/ Squeezed))
  BY DEF Tick, exchange
<1>2. mid \in MinMid .. MaxMid /\ mid \in Nat
  <2>1. Anchor(answered) \in Int
    BY AnchorNumber DEF ListsInv
  <2>. QED
    BY <2>1, WalkBounds, BotConstants
<1>3. /\ bot \in [pc : Places, step : Nat, mid : Nat, resting : Seq(Nat), previous : Seq(Nat)]
      /\ bot.previous = << >> /\ next_order_id \in Nat
  BY <1>1 DEF MarketInv, ExchangeGood, ListsInv, ProcessInv
<1>4. ~excused' => \A o \in MakerOrders : o.id \in InList(bot.resting) =>
                     IF o.side = "Ask" THEN o.price > 0 /\ o.price > mid - Spread
                     ELSE o.price < mid + Spread
  BY <1>1, WalkLeavesLadder DEF ListsInv
<1>. HIDE DEF mid
<1>5. /\ bot'.pc = "quote" /\ bot'.mid = mid /\ bot'.previous = bot.resting /\ bot'.resting = << >>
      /\ bot' \in [pc : Places, step : Nat, mid : Nat, resting : Seq(Nat), previous : Seq(Nat)]
  BY <1>1, <1>2, <1>3 DEF Places
<1>6. BotShape(bot')
  BY <1>5 DEF BotShape, Roles
<1>7. Tracked' = Tracked
  BY <1>3, <1>5 DEF Tracked
<1>8. ProcessInv'
  BY <1>1, <1>3, <1>6, <1>7, ProcessShape DEF ListsInv
<1>9. OrdersTracked'
  BY <1>1, <1>7, TrackedFrame DEF ListsInv, NoneNew
<1>10. LadderInv'
  <2>1. MakerOrders' = MakerOrders
    BY <1>1 DEF MakerOrders
  <2>2. InList(bot'.resting) = {}
    BY <1>5, ListFacts
  <2>3. ~excused' => \A o \in MakerOrders' : o.id \in InList(bot'.previous) => OutOfReach(o)'
    BY <1>4, <1>5, <2>1 DEF OutOfReach
  <2>. QED
    BY <1>2, <1>5, <2>2, <2>3 DEF LadderInv, InList
<1>. QED
  BY <1>8, <1>9, <1>10 DEF ListsInv

-----------------------------------------------------------------------------
(* Every step, and the theorems.                                           *)

LEMMA ListsStep ==
  ASSUME MarketInv, ListsInv, [Next]_vars
  PROVE  ListsInv'
<1>1. ASSUME Foreign PROVE ListsInv'
  <2>1. /\ NoneNew /\ next_order_id' = next_order_id + 1
        /\ bot' = bot \/ bot' = After(bot)
        /\ UNCHANGED <<excused, leaked>>
    BY <1>1, ForeignEffect DEF NoneNew, history
  <2>2. ListsKept /\ BotShape(bot')
    BY <2>1, PlaceMoves
  <2>. QED
    BY <2>1, <2>2, KeptLists
<1>2. ASSUME QuotePlaced PROVE ListsInv'
  <2>. DEFINE s == Append(bot.resting, next_order_id)
              k == bot.step + 1
  <2>1. /\ Quoting /\ Accept("maker", QuoteAt(bot.step)) /\ excused' = excused /\ leaked' = leaked
        /\ bot' = [[bot EXCEPT !.resting = s] EXCEPT !.step = k]
    <3>1. /\ Quoting /\ Accept("maker", QuoteAt(bot.step)) /\ UNCHANGED history
          /\ bot' = After([bot EXCEPT !.resting = s])
      BY <1>2 DEF QuotePlaced
    <3>2. [bot EXCEPT !.resting = s].step = bot.step
      BY DEF ListsInv, ProcessInv
    <3>. QED
      BY <3>1, <3>2 DEF After, history
  <2>2. /\ bot \in [pc : Places, step : Nat, mid : Nat, resting : Seq(Nat), previous : Seq(Nat)]
        /\ s \in Seq(Nat) /\ k \in Nat /\ bot.pc = "quote"
    <3>1. next_order_id \in Nat
      BY DEF MarketInv, ExchangeGood
    <3>. QED
      BY <2>1, <3>1, ListFacts DEF ListsInv, ProcessInv, Quoting
  <2>. HIDE DEF s, k
  <2>3. /\ bot' \in [pc : Places, step : Nat, mid : Nat, resting : Seq(Nat), previous : Seq(Nat)]
        /\ bot'.pc = "quote" /\ bot'.mid = bot.mid /\ bot'.previous = bot.previous
        /\ bot'.resting = s
    BY <2>1, <2>2
  <2>4. BotShape(bot')
    BY <2>3 DEF BotShape, Roles
  <2>. QED
    BY <2>1, <2>2, <2>3, <2>4, ListsAfterQuote DEF s
<1>3. ASSUME QuoteForgotten PROVE ListsInv'
  <2>1. /\ Quoting /\ Accept("maker", QuoteAt(bot.step)) /\ UNCHANGED excused
        /\ leaked' = leaked \cup {next_order_id} /\ bot' = After(bot) /\ bot.pc = "quote"
    BY <1>3 DEF QuoteForgotten, Quoting
  <2>. DEFINE k == bot.step + 1
  <2>2. /\ bot \in [pc : Places, step : Nat, mid : Nat, resting : Seq(Nat), previous : Seq(Nat)]
        /\ k \in Nat /\ bot' = [bot EXCEPT !.step = k]
    BY <2>1 DEF ListsInv, ProcessInv, After
  <2>. HIDE DEF k
  <2>3. /\ bot' \in [pc : Places, step : Nat, mid : Nat, resting : Seq(Nat), previous : Seq(Nat)]
        /\ bot'.pc = bot.pc /\ bot'.mid = bot.mid /\ bot'.previous = bot.previous
        /\ bot'.resting = bot.resting
    BY <2>2
  <2>4. BotShape(bot')
    BY <2>1, <2>3 DEF BotShape, Roles
  <2>. QED
    BY <2>1, <2>3, <2>4, ListsAfterQuote
<1>4. ASSUME Quiet PROVE NoneNew /\ next_order_id' = next_order_id
  BY <1>4, QuietOrders, NoneNewFewer DEF OnlyFewer
<1>5. ASSUME NEW ok \in BOOLEAN, AuthAtStart(ok) PROVE ListsInv'
  <2>1. NoneNew /\ next_order_id' = next_order_id /\ leaked' = leaked
    BY <1>5 DEF AuthAtStart, exchange, history, NoneNew
  <2>2. /\ bot \in [pc : Places, step : Nat, mid : Nat, resting : Seq(Nat), previous : Seq(Nat)]
        /\ bot.pc \in Roles /\ bot.resting = << >> /\ bot.previous = << >>
    BY <1>5 DEF ListsInv, ProcessInv, AuthAtStart, Roles
  <2>3. Tracked = {}
    BY <2>2 DEF Tracked
  <2>4. /\ bot'.resting = << >> /\ bot'.previous = << >> /\ bot'.pc # "quote" /\ BotShape(bot')
    <3>1. CASE ~ok
      <4>1. bot' = Fresh
        BY <1>5, <3>1 DEF AuthAtStart
      <4>. QED
        BY <4>1, FreshShape DEF Fresh
    <3>2. CASE ok
      <4>1. bot' = [bot EXCEPT !.pc = IF bot.pc = "maker" THEN "taker" ELSE "clear"]
        BY <1>5, <3>2 DEF AuthAtStart
      <4>2. /\ bot' \in [pc : Places, step : Nat, mid : Nat, resting : Seq(Nat), previous : Seq(Nat)]
            /\ bot'.resting = << >> /\ bot'.previous = << >> /\ bot'.pc # "quote"
        BY <2>2, <4>1 DEF Places, Roles
      <4>. QED
        BY <4>2 DEF BotShape
    <3>. QED
      BY <3>1, <3>2
  <2>. QED
    BY <2>1, <2>3, <2>4, ListsOfFresh
<1>6. ASSUME NEW missed, ClearStale(missed) PROVE ListsInv'
  <2>1. NoneNew /\ next_order_id' = next_order_id /\ leaked' = leaked /\ bot.pc = "clear"
    BY <1>6 DEF ClearStale, history, NoneNew
  <2>2. /\ bot \in [pc : Places, step : Nat, mid : Nat, resting : Seq(Nat), previous : Seq(Nat)]
        /\ bot.resting = << >> /\ bot.previous = << >>
    BY <2>1 DEF ListsInv, ProcessInv
  <2>3. Tracked = {}
    BY <2>2 DEF Tracked
  <2>4. PICK answer \in {None, last_price} :
          bot' = [bot EXCEPT !.pc = "tick", !.mid = IF answer = None THEN FirstMid ELSE answer]
    BY <1>6 DEF ClearStale
  <2>. DEFINE mid == IF answer = None THEN FirstMid ELSE answer
  <2>5. mid \in Nat
    BY BotConstants DEF MarketInv
  <2>. HIDE DEF mid
  <2>6. bot' = [bot EXCEPT !.pc = "tick", !.mid = mid]
    BY <2>4 DEF mid
  <2>7. /\ bot' \in [pc : Places, step : Nat, mid : Nat, resting : Seq(Nat), previous : Seq(Nat)]
        /\ bot'.resting = << >> /\ bot'.previous = << >> /\ bot'.pc # "quote"
    BY <2>2, <2>5, <2>6 DEF Places
  <2>8. BotShape(bot')
    BY <2>7 DEF BotShape
  <2>. QED
    BY <2>1, <2>3, <2>7, <2>8, ListsOfFresh
<1>7. ASSUME Restart PROVE ListsInv'
  <2>1. /\ NoneNew /\ next_order_id' = next_order_id /\ bot' = Fresh
        /\ leaked' = leaked \cup IdsOf(MakerOrders)
    BY <1>7 DEF Restart, exchange, NoneNew
  <2>2. bot'.resting = << >> /\ bot'.previous = << >> /\ bot'.pc # "quote" /\ BotShape(bot')
    BY <2>1, FreshShape DEF Fresh
  <2>3. \A o \in MakerOrders' : o.id \in leaked'
    BY <2>1, NoneNewMaker DEF IdsOf
  <2>. QED
    BY <2>1, <2>2, <2>3, ListsOfFresh
<1>8. ASSUME Quiet, QuoteRefused \/ Project \/ UNCHANGED vars \/ TickEnds \/ Cancelled
                    \/ (\E side : TakerPrint(side))
      PROVE  ListsInv'
  <2>1. /\ UNCHANGED <<excused, leaked>>
        /\ \/ bot' = bot \/ bot' = After(bot)
           \/ bot.pc = "quote" /\ bot.previous = << >> /\ bot' = [bot EXCEPT !.pc = "print", !.step = 0]
           \/ bot.pc = "print" /\ bot' = [bot EXCEPT !.pc = "tick", !.step = 0]
    BY <1>8 DEF QuoteRefused, Project, vars, TickEnds, Cancelled, Quoted, TakerPrint, history
  <2>2. ListsKept /\ BotShape(bot')
    BY <2>1, PlaceMoves
  <2>. QED
    BY <1>4, <1>8, <2>2, KeptLists
<1>9. Quiet => ListsInv'
  BY <1>5, <1>6, <1>7, <1>8, ListsInTick, ListsAfterCancel DEF Quiet
<1>. QED
  BY <1>1, <1>2, <1>3, <1>9, Steps

(* No quote of the current ladder meets an order the bot knows. *)
LEMMA LadderApart ==
  ASSUME MarketInv, ListsInv
  PROVE  QuotesDoNotCross
<1>. DEFINE req == QuoteAt(bot.step)
<1>1. SUFFICES ASSUME Quoting, SelfTrade("maker", req), ~excused,
                      leaked \cap IdsOf(MakerOrders) = {}
               PROVE  FALSE
  BY DEF QuotesDoNotCross
<1>2. /\ req \in BotRequest /\ req.order_type = "Limit"
      /\ req.side = "Ask" => req.price >= bot.mid + Spread
      /\ req.side = "Bid" => req.price = 0 \/ req.price <= bot.mid - Spread
  BY <1>1, Rung DEF ListsInv
<1>3. /\ req.side \in Sides /\ req.price \in Int /\ bot.mid \in Nat /\ bot.pc = "quote"
  BY <1>1, <1>2, BotConstants DEF BotRequest, ListsInv, ProcessInv, Quoting
<1>. HIDE DEF req
<1>4. PICK o \in Counterparts(req) : o.owner = "maker"
  BY <1>1 DEF SelfTrade
<1>5. /\ o \in MakerOrders /\ o.side = Opposite(req.side) /\ Crosses(req, o)
      /\ o.price \in Nat
  <2>1. o \in orders /\ o.side = Opposite(req.side) /\ Crosses(req, o)
    BY <1>4 DEF Counterparts, On
  <2>2. o.price \in Nat
    BY <2>1, BotConstants DEF MarketInv, ExchangeGood, BotOrder
  <2>. QED
    BY <1>4, <2>1, <2>2 DEF MakerOrders
<1>6. o.id \in InList(bot.resting) \/ o.id \in InList(bot.previous)
  <2>1. o.id \in IdsOf(MakerOrders)
    BY <1>5 DEF IdsOf
  <2>2. o.id \in Tracked
    BY <1>1, <2>1 DEF ListsInv, OrdersTracked
  <2>. QED
    BY <2>2, TrackedLists
<1>7. OfLadder(o) \/ OutOfReach(o)
  BY <1>1, <1>3, <1>5, <1>6 DEF ListsInv, LadderInv
<1>8. CASE req.side = "Bid"
  <2>1. o.side = "Ask" /\ o.price <= req.price
    BY <1>2, <1>5, <1>8 DEF Opposite, Crosses
  <2>. QED
    BY <1>2, <1>3, <1>5, <1>7, <1>8, <2>1, BotConstants DEF OfLadder, OutOfReach
<1>9. CASE req.side = "Ask"
  <2>1. o.side = "Bid" /\ o.price >= req.price
    BY <1>2, <1>5, <1>9 DEF Opposite, Crosses
  <2>. QED
    BY <1>2, <1>3, <1>5, <1>7, <1>9, <2>1, BotConstants DEF OfLadder, OutOfReach
<1>. QED
  BY <1>3, <1>8, <1>9 DEF Sides

LEMMA MarketStep ==
  ASSUME MarketInv, ListsInv, [Next]_vars
  PROVE  MarketInv'
<1>1. Quiet => MarketInv'
  BY QuietOrders, MarketFewer
<1>2. Foreign => MarketInv'
  BY ForeignEffect
<1>3. ASSUME QuotePlaced \/ QuoteForgotten PROVE MarketInv'
  <2>1. Quoting /\ Accept("maker", QuoteAt(bot.step)) /\ shown' = shown
    BY <1>3 DEF QuotePlaced, QuoteForgotten
  <2>2. Accepted("maker", QuoteAt(bot.step))
    BY <2>1, QuoteAccepted DEF ListsInv
  <2>. QED
    BY <2>1, <2>2, MarketAccepted
<1>. QED
  BY <1>1, <1>2, <1>3, Steps

(* The invariant holds throughout: one proof per part, all from the whole. *)
LEMMA BotInvariant == Spec => []BotInv
<1>1. ASSUME BotInv, [Next]_vars PROVE BotInv'
  <2>1. MarketInv /\ ListsInv /\ ProcessInv /\ TokensInv
    BY <1>1 DEF BotInv, ListsInv
  <2>2. MarketInv'
    BY <1>1, <2>1, MarketStep
  <2>3. ListsInv'
    BY <1>1, <2>1, ListsStep
  <2>4. TokensInv'
    BY <1>1, <2>1, TokensStep
  <2>. QED
    BY <2>2, <2>3, <2>4 DEF BotInv, ListsInv
<1>. QED
  BY <1>1, BotInvInit, PTL DEF Spec

(* The bot never quotes into its own orders (QuotesDoNotCross): whatever   *)
(* the walk, the ladder, the visitors and the prints, on any number of     *)
(* ticks, unless the book it read was behind or squeezed or a fault left   *)
(* an order behind.                                                        *)
THEOREM NoOwnCross == Spec => []QuotesDoNotCross
<1>1. BotInv => QuotesDoNotCross
  BY LadderApart DEF BotInv, ListsInv
<1>. QED
  BY <1>1, BotInvariant, PTL

(* The bot knows all its orders (OrdersTracked), but for those a fault or  *)
(* a restart took from it, and its taker never rests.                      *)
THEOREM NoOrderLost == Spec => []OrdersTracked
<1>1. BotInv => OrdersTracked
  BY DEF BotInv
<1>. QED
  BY <1>1, BotInvariant, PTL

(* A token that has run out is in use only on a tick that failed to renew  *)
(* it (TokensRenewedInTime), for any lifetime not below the interval of    *)
(* renewal: the re-auth block of the loop.                                 *)
THEOREM TokensLast == Spec => []TokensRenewedInTime
<1>1. BotInv => TokensRenewedInTime
  BY DEF BotInv, TokensInv
<1>. QED
  BY <1>1, BotInvariant, PTL
=============================================================================
