---------------------------- MODULE EngineProofs ----------------------------
(***************************************************************************)
(* The engine keeps its types, its books and its idempotency window, for   *)
(* every set of accounts, prices and sizes and any number of commands.     *)
(* First what the operators on a book value preserve (OrderBook), by       *)
(* induction over the matching loop; then the commands.                    *)
(***************************************************************************)
EXTENDS EngineProperties, LoopsProofs, SequenceTheorems

(* The smaller of two naturals. *)
LEMMA MinTwo ==
  ASSUME NEW a \in Nat, NEW b \in Nat
  PROVE  /\ Min({a, b}) \in Nat
         /\ Min({a, b}) <= a /\ Min({a, b}) <= b
         /\ Min({a, b}) = a \/ Min({a, b}) = b
<1>1. \E x \in {a, b} : \A y \in {a, b} : x <= y
  BY a <= b \/ b <= a
<1>. QED
  BY <1>1 DEF Min

(* Membership in a partial function space. *)
LEMMA MapMember ==
  ASSUME NEW K, NEW V, NEW f
  PROVE  f \in Map(K, V) <=> /\ f = [x \in DOMAIN f |-> f[x]]
                             /\ DOMAIN f \subseteq K
                             /\ \A x \in DOMAIN f : f[x] \in V
  BY DEF Map

LEMMA WithoutMember ==
  ASSUME NEW K, NEW V, NEW f \in Map(K, V), NEW D
  PROVE  /\ Without(f, D) \in Map(K, V)
         /\ DOMAIN Without(f, D) = DOMAIN f \ D
         /\ \A x \in DOMAIN f \ D : Without(f, D)[x] = f[x]
  BY MapMember DEF Without, Restrict

LEMMA WithMember ==
  ASSUME NEW K, NEW V, NEW f \in Map(K, V), NEW k \in K, NEW v \in V
  PROVE  /\ With(f, k, v) \in Map(K, V)
         /\ DOMAIN With(f, k, v) = DOMAIN f \cup {k}
         /\ \A x \in DOMAIN f \cup {k} : With(f, k, v)[x] = IF x = k THEN v ELSE f[x]
  BY MapMember DEF With

(* The best of some prices is one of them, and no other is better.         *)
LEMMA BestOf ==
  ASSUME NEW P, P \subseteq Prices, NEW side \in Side, P # {}
  PROVE  /\ Best(side, P) \in P
         /\ \A p \in P : IF side = "Ask" THEN Best(side, P) <= p ELSE p <= Best(side, P)
<1>1. P \subseteq Nat /\ \A p \in P : p <= U64Max /\ U64Max \in Nat
  BY U64MaxAssumption, PricesAssumption
<1>2. \E m \in P : \A p \in P : m <= p
  <2>1. P \in SUBSET Nat /\ P # {}
    BY <1>1
  <2>. QED
    BY <2>1, LeastNat
<1>3. \E m \in P : \A p \in P : m >= p
  <2>. DEFINE Q == {U64Max - p : p \in P}
  <2>1. Q \in SUBSET Nat /\ Q # {}
    <3>1. PICK p \in P : TRUE
      OBVIOUS
    <3>2. U64Max - p \in Q
      BY <3>1
    <3>3. \A r \in P : U64Max - r \in Nat
      BY <1>1
    <3>. QED
      BY <3>2, <3>3
  <2>2. PICK q \in Q : \A r \in Q : q <= r
    BY <2>1, LeastNat
  <2>3. PICK m \in P : q = U64Max - m
    OBVIOUS
  <2>4. \A p \in P : U64Max - m <= U64Max - p
    BY <2>2, <2>3
  <2>. QED
    BY <2>4, <1>1
<1>4. Min(P) \in P /\ \A p \in P : Min(P) <= p
  BY <1>2 DEF Min
<1>5. Max(P) \in P /\ \A p \in P : Max(P) >= p
  BY <1>3 DEF Max
<1>. QED
  BY <1>1, <1>4, <1>5 DEF Best

(* The best price of a non-empty side is one of its levels and no other    *)
(* level is better.                                                        *)
LEMMA BestIsBest ==
  ASSUME NEW book, NEW side \in Side, Levels(book, side) # {}
  PROVE  /\ BestPrice(book, side) \in Levels(book, side)
         /\ \A p \in Levels(book, side) :
              IF side = "Ask" THEN BestPrice(book, side) <= p
                              ELSE p <= BestPrice(book, side)
<1>1. Levels(book, side) \subseteq Prices
  BY DEF Levels
<1>. QED
  BY <1>1, BestOf DEF BestPrice

-----------------------------------------------------------------------------
(* One fill.                                                               *)

\* The names of Fill, for the lemmas about it.
FillSide(req)     == Opposite(req.side)
FillPrice(req, s) == BestPrice(s.book, FillSide(req))
FillLevel(req, s) == s.book.queue[FillSide(req)][FillPrice(req, s)]
FillQty(req, s)   == Min({s.remaining, Head(FillLevel(req, s)).remaining_size})
FillLeft(req, s)  == Head(FillLevel(req, s)).remaining_size - FillQty(req, s)
FillAfter(req, s) ==
  IF FillLeft(req, s) = 0 THEN Tail(FillLevel(req, s))
  ELSE [FillLevel(req, s) EXCEPT ![1] = WithRemaining(Head(FillLevel(req, s)), FillLeft(req, s))]

(* A partial fill changes nothing of an order but its remaining size.      *)
LEMMA WithRemainingFacts ==
  ASSUME NEW o \in Order, NEW left \in Nat
  PROVE  /\ WithRemaining(o, left) \in Order
         /\ WithRemaining(o, left).remaining_size = left
         /\ WithRemaining(o, left).id = o.id
         /\ WithRemaining(o, left).account_id = o.account_id
         /\ WithRemaining(o, left).side = o.side
         /\ WithRemaining(o, left).price = o.price
         /\ WithRemaining(o, left).size = o.size
  BY DEF WithRemaining, Order

(* The maker of a fill is the front order of the best crossing level.      *)
LEMMA FillFacts ==
  ASSUME NEW req \in OrderRequest, NEW s \in MatchState, CanFill(req, s)
  PROVE  /\ FillSide(req) \in Side /\ FillSide(req) # req.side
         /\ FillPrice(req, s) \in Prices
         /\ Crosses(req, FillPrice(req, s))
         /\ FillLevel(req, s) \in Seq(Order)
         /\ Len(FillLevel(req, s)) \in Nat /\ Len(FillLevel(req, s)) > 0
         /\ Head(FillLevel(req, s)) = FillLevel(req, s)[1]
         /\ Head(FillLevel(req, s)) \in Order
         /\ FillQty(req, s) \in Nat /\ FillQty(req, s) <= s.remaining
         /\ FillLeft(req, s) \in Nat
         /\ FillLeft(req, s) <= Head(FillLevel(req, s)).remaining_size
         /\ Head(FillLevel(req, s)).remaining_size > 0 => FillQty(req, s) > 0
<1>1. FillSide(req) \in Side /\ FillSide(req) # req.side
  BY DEF FillSide, Opposite, Side, OrderRequest
<1>2. FillPrice(req, s) \in Levels(s.book, FillSide(req))
  BY <1>1, BestIsBest DEF CanFill, FillSide, FillPrice
<1>3. Crosses(req, FillPrice(req, s))
  BY DEF CanFill, FillSide, FillPrice
<1>4. FillPrice(req, s) \in Prices /\ FillLevel(req, s) # << >>
  BY <1>2 DEF Levels, FillLevel
<1>5. FillLevel(req, s) \in Seq(Order)
  BY <1>1, <1>4 DEF FillLevel, MatchState, Book
<1>. HIDE DEF FillLevel
<1>6. /\ Len(FillLevel(req, s)) \in Nat /\ Len(FillLevel(req, s)) > 0
      /\ Head(FillLevel(req, s)) = FillLevel(req, s)[1]
      /\ Head(FillLevel(req, s)) \in Order
  BY <1>4, <1>5
<1>7. s.remaining \in Nat /\ s.remaining > 0 /\ Head(FillLevel(req, s)).remaining_size \in Nat
  BY <1>6 DEF MatchState, Order, CanFill
<1>8. /\ FillQty(req, s) \in Nat /\ FillQty(req, s) <= s.remaining
      /\ FillQty(req, s) <= Head(FillLevel(req, s)).remaining_size
      /\ FillQty(req, s) = s.remaining \/ FillQty(req, s) = Head(FillLevel(req, s)).remaining_size
  BY <1>7, MinTwo DEF FillQty
<1>. QED
  BY <1>1, <1>3, <1>4, <1>5, <1>6, <1>7, <1>8 DEF FillLeft

(* The level after a fill: the front order shrunk, or gone.                *)
LEMMA FillAfterFacts ==
  ASSUME NEW req \in OrderRequest, NEW s \in MatchState, CanFill(req, s)
  PROVE  /\ FillAfter(req, s) \in Seq(Order)
         /\ FillLeft(req, s) = 0 =>
              /\ Len(FillAfter(req, s)) = Len(FillLevel(req, s)) - 1
              /\ \A i \in 1 .. Len(FillAfter(req, s)) :
                   FillAfter(req, s)[i] = FillLevel(req, s)[i+1]
         /\ FillLeft(req, s) # 0 =>
              /\ Len(FillAfter(req, s)) = Len(FillLevel(req, s))
              /\ FillAfter(req, s)[1] =
                   WithRemaining(FillLevel(req, s)[1], FillLeft(req, s))
              /\ \A i \in 2 .. Len(FillAfter(req, s)) :
                   FillAfter(req, s)[i] = FillLevel(req, s)[i]
<1>. DEFINE q == FillLevel(req, s)  left == FillLeft(req, s)
<1>1. /\ q \in Seq(Order) /\ Len(q) \in Nat /\ Len(q) > 0
      /\ Head(q) = q[1] /\ Head(q) \in Order /\ left \in Nat
  BY FillFacts
<1>. HIDE DEF q, left
<1>2. CASE left = 0
  <2>1. FillAfter(req, s) = Tail(q)
    BY <1>2 DEF FillAfter, q, left
  <2>. QED
    BY <1>1, <1>2, <2>1 DEF q, left
<1>3. CASE left # 0
  <2>. DEFINE o == WithRemaining(Head(q), left)
  <2>1. FillAfter(req, s) = [q EXCEPT ![1] = o]
    BY <1>3 DEF FillAfter, q, left
  <2>2. o \in Order
    BY <1>1, WithRemainingFacts
  <2>. HIDE DEF o
  <2>3. /\ [q EXCEPT ![1] = o] \in Seq(Order) 
        /\ Len([q EXCEPT ![1] = o]) = Len(q)
        /\ \A i \in 1 .. Len(q) : [q EXCEPT ![1] = o][i] = IF i = 1 THEN o ELSE q[i]
    BY <1>1, <2>2
  <2>4. FillAfter(req, s) \in Seq(Order) /\ Len(FillAfter(req, s)) = Len(q)
    BY <2>1, <2>3
  <2>5. FillAfter(req, s)[1] = WithRemaining(q[1], left)
    BY <1>1, <2>1, <2>3 DEF o
  <2>6. \A i \in 2 .. Len(q) : FillAfter(req, s)[i] = q[i]
    BY <1>1, <2>1, <2>3
  <2>. QED
    BY <1>3, <2>4, <2>5, <2>6 DEF q, left
<1>. QED
  BY <1>2, <1>3 DEF left

\* What a fill from loop state s to f does.
FillResult(req, s, f) ==
  /\ f \in MatchState
  /\ \A side \in Side, price \in Prices :
       f.book.queue[side][price] =
         IF side = FillSide(req) /\ price = FillPrice(req, s)
         THEN FillAfter(req, s) ELSE s.book.queue[side][price]
  /\ f.book.order_index =
       IF FillLeft(req, s) = 0
       THEN Without(s.book.order_index, {FillLevel(req, s)[1].id})
       ELSE s.book.order_index
  /\ f.remaining = s.remaining - FillQty(req, s)
  /\ MakerIds(f.trades) = MakerIds(s.trades) \cup {FillLevel(req, s)[1].id}

(* What a fill does to the book, and that it yields a loop state again.    *)
LEMMA FillEffect ==
  ASSUME NEW order_id \in OrderId, NEW account_id \in Accounts,
         NEW req \in OrderRequest, NEW s \in MatchState, CanFill(req, s),
         NEW f, f = Fill(order_id, account_id, req, s)
  PROVE  FillResult(req, s, f)
<1>. DEFINE side == FillSide(req)  price == FillPrice(req, s)
            maker == Head(FillLevel(req, s))
            qty == FillQty(req, s)  left == FillLeft(req, s)
            queue == [s.book.queue EXCEPT ![side][price] = FillAfter(req, s)]
            index == IF left = 0 THEN Without(s.book.order_index, {maker.id})
                     ELSE s.book.order_index
            trade == [price |-> maker.price, qty |-> qty,
                      maker_id |-> maker.id, taker_id |-> order_id,
                      taker_side |-> req.side,
                      maker_account |-> maker.account_id, taker_account |-> account_id]
            update == [order_id |-> maker.id, account_id |-> maker.account_id,
                       filled_qty |-> maker.size - left, remaining_size |-> left,
                       status |-> IF left = 0 THEN "Filled" ELSE "PartiallyFilled"]
<1>1. f = [book |-> [queue |-> queue, order_index |-> index, last_trade_price |-> maker.price],
           remaining |-> s.remaining - qty,
           trades |-> Append(s.trades, trade),
           updates |-> Append(s.updates, update),
           dirty |-> s.dirty \cup {<<maker.side, maker.price>>}]
  BY DEF Fill, FillFront, FillSide, FillPrice, FillLevel, FillQty, FillLeft, FillAfter
<1>2. /\ side \in Side /\ price \in Prices /\ maker \in Order /\ qty \in Nat /\ left \in Nat
      /\ qty <= s.remaining /\ maker = FillLevel(req, s)[1]
      /\ FillAfter(req, s) \in Seq(Order)
  BY FillFacts, FillAfterFacts
<1>3. /\ s.book.queue \in [Side -> [Prices -> Seq(Order)]]
      /\ s.book.order_index \in Map(OrderId, OrderLocation)
      /\ s.remaining \in Nat /\ s.trades \in Seq(Trade) /\ s.updates \in Seq(OrderUpdate)
      /\ s.dirty \in SUBSET (Side \X Prices)
  BY DEF MatchState, Book
<1>. HIDE DEF side, price, maker, qty, left
<1>4. queue \in [Side -> [Prices -> Seq(Order)]]
  BY <1>2, <1>3
<1>5. \A x \in Side, y \in Prices :
        queue[x][y] = IF x = side /\ y = price THEN FillAfter(req, s) ELSE s.book.queue[x][y]
  BY <1>2, <1>3
<1>6. index \in Map(OrderId, OrderLocation)
  BY <1>3, WithoutMember
<1>7. trade \in Trade
  BY <1>2 DEF Trade, Order, OrderRequest
<1>8. update \in OrderUpdate
  BY <1>2 DEF OrderUpdate, Order
<1>9. Append(s.trades, trade) \in Seq(Trade) /\ Append(s.updates, update) \in Seq(OrderUpdate)
  BY <1>3, <1>7, <1>8
<1>10. s.remaining - qty \in Nat
  BY <1>2, <1>3
<1>11. maker.price \in Prices /\ s.dirty \cup {<<maker.side, maker.price>>} \in SUBSET (Side \X Prices)
  BY <1>2, <1>3 DEF Order
<1>14. trade.maker_id = maker.id
  OBVIOUS
<1>. HIDE DEF queue, index, trade, update
<1>15. MakerIds(f.trades) = MakerIds(s.trades) \cup {maker.id}
  <2>. DEFINE t == s.trades  u == Append(s.trades, trade)
  <2>1. /\ Len(t) \in Nat /\ Len(u) = Len(t) + 1
        /\ \A i \in 1 .. Len(t) : u[i] = t[i]
        /\ u[Len(t)+1] = trade
    BY <1>3, <1>7 DEF trade
  <2>2. f.trades = u
    BY <1>1
  <2>. HIDE DEF t, u
  <2>3. MakerIds(u) = MakerIds(t) \cup {trade.maker_id}
    <3>1. \A i \in 1 .. Len(u) : i \in 1 .. Len(t) \/ i = Len(t) + 1
      BY <2>1
    <3>2. 1 .. Len(t) \subseteq 1 .. Len(u) /\ Len(t) + 1 \in 1 .. Len(u)
      BY <2>1
    <3>. QED
      BY <2>1, <3>1, <3>2 DEF MakerIds
  <2>. QED
    BY <1>14, <2>2, <2>3 DEF t
<1>12. f \in MatchState
  BY <1>1, <1>4, <1>6, <1>9, <1>10, <1>11 DEF MatchState, Book
<1>13. f.book.queue = queue /\ f.book.order_index = index /\ f.remaining = s.remaining - qty
  BY <1>1
<1>. QED
  BY <1>2, <1>5, <1>12, <1>13, <1>15 DEF index, side, price, qty, left, FillResult

(* Fields of a resting order. *)
LEMMA OrderFields ==
  \A o \in Order : /\ o.id \in Nat /\ o.side \in Side /\ o.price \in Prices
                   /\ o.account_id \in Accounts
                   /\ o.size \in Nat /\ o.remaining_size \in Nat
  BY MaxOrdersAssumption DEF Order, OrderId

\* A level q whose front order, of which left remains, was filled: r.
Filled(q, r, left) ==
  /\ left = 0 => Len(r) = Len(q) - 1 /\ \A i \in 1 .. Len(r) : r[i] = q[i+1]
  /\ left # 0 => /\ Len(r) = Len(q)
                 /\ r[1] = WithRemaining(q[1], left)
                 /\ \A i \in 2 .. Len(r) : r[i] = q[i]

(* The orders of a filled level are the orders of the level before, in the *)
(* same order, and the front one is missing when it was used up.           *)
LEMMA FilledLevel ==
  ASSUME NEW q \in Seq(Order), NEW r \in Seq(Order), NEW left \in Nat,
         Len(q) > 0, Filled(q, r, left), NEW i \in 1 .. Len(r)
  PROVE  LET k == IF left = 0 THEN i + 1 ELSE i
         IN  /\ k \in 1 .. Len(q)
             /\ r[i].id = q[k].id /\ r[i].account_id = q[k].account_id
             /\ r[i].side = q[k].side /\ r[i].price = q[k].price
             /\ r[i].size = q[k].size
             /\ r[i].remaining_size = IF left # 0 /\ i = 1 THEN left ELSE q[k].remaining_size
<1>1. Len(q) \in Nat /\ Len(r) \in Nat /\ i \in Nat /\ i > 0 /\ i <= Len(r)
  OBVIOUS
<1>2. CASE left = 0
  <2>1. Len(r) = Len(q) - 1 /\ r[i] = q[i+1]
    BY <1>2 DEF Filled
  <2>2. i + 1 \in 1 .. Len(q)
    BY <1>1, <2>1
  <2>. QED
    BY <1>2, <2>1, <2>2
<1>3. CASE left # 0 /\ i = 1
  <2>1. Len(r) = Len(q) /\ r[1] = WithRemaining(q[1], left)
    BY <1>3 DEF Filled
  <2>2. q[1] \in Order
    OBVIOUS
  <2>. DEFINE o == WithRemaining(q[1], left)
  <2>3. o.id = q[1].id /\ o.account_id = q[1].account_id
        /\ o.side = q[1].side /\ o.price = q[1].price
        /\ o.size = q[1].size /\ o.remaining_size = left
    BY <2>2, WithRemainingFacts
  <2>. HIDE DEF o
  <2>4. r[1] = o
    BY <2>1 DEF o
  <2>. QED
    BY <1>1, <1>3, <2>1, <2>3, <2>4
<1>4. CASE left # 0 /\ i # 1
  <2>1. i \in 2 .. Len(r)
    BY <1>1, <1>4
  <2>2. Len(r) = Len(q) /\ r[i] = q[i]
    BY <1>4, <2>1 DEF Filled
  <2>. QED
    BY <1>1, <1>4, <2>2
<1>. QED
  BY <1>2, <1>3, <1>4

\* Book c is book b with level q of fside at fprice filled to r, and the front
\* order out of the index when it is used up.
FilledBook(b, c, fside, fprice, q, r, left) ==
  /\ q = b.queue[fside][fprice]
  /\ \A side \in Side, price \in Prices :
       c.queue[side][price] = IF side = fside /\ price = fprice THEN r
                              ELSE b.queue[side][price]
  /\ c.order_index = IF left = 0 THEN Without(b.order_index, {q[1].id})
                     ELSE b.order_index

(* Filling the front order of one level, and dropping it from the index    *)
(* when it is used up, keeps a book indexed.                               *)
LEMMA FilledIndexed ==
  ASSUME NEW b \in Book, NEW c \in Book, Indexed(b),
         NEW fside \in Side, NEW fprice \in Prices,
         NEW q \in Seq(Order), NEW r \in Seq(Order), NEW left \in Nat,
         Len(q) > 0, ByArrival(q), Filled(q, r, left),
         FilledBook(b, c, fside, fprice, q, r, left)
  PROVE  Indexed(c)
<1>. USE DEF FilledBook
<1>1. Len(q) \in Nat /\ Len(r) \in Nat /\ 1 \in 1 .. Len(q)
  OBVIOUS
<1>2. b.order_index \in Map(OrderId, OrderLocation)
  BY DEF Book
<1>. DEFINE w == Without(b.order_index, {q[1].id})
<1>9. /\ DOMAIN w = DOMAIN b.order_index \ {q[1].id}
      /\ \A x \in DOMAIN b.order_index \ {q[1].id} : w[x] = b.order_index[x]
  BY DEF Without, Restrict
<1>10. c.order_index = IF left = 0 THEN w ELSE b.order_index
  OBVIOUS
<1>. HIDE DEF w
<1>3. \A x \in DOMAIN c.order_index :
        x \in DOMAIN b.order_index /\ c.order_index[x] = b.order_index[x]
  BY <1>9, <1>10
<1>4. \A x \in DOMAIN b.order_index : x # q[1].id \/ left # 0 => x \in DOMAIN c.order_index
  BY <1>9, <1>10
<1>5. left = 0 => q[1].id \notin DOMAIN c.order_index
  BY <1>9, <1>10
<1>6. \A i \in 1 .. Len(q) : Located(b, fside, fprice, q[i])
  BY DEF Indexed
<1>7. ASSUME NEW side \in Side, NEW price \in Prices,
             NEW i \in 1 .. Len(c.queue[side][price])
      PROVE  Located(c, side, price, c.queue[side][price][i])
  <2>1. CASE side = fside /\ price = fprice
    <3>1. c.queue[side][price] = r
      BY <2>1
    <3>. DEFINE k == IF left = 0 THEN i + 1 ELSE i
    <3>2. i \in 1 .. Len(r)
      BY <3>1
    <3>3. /\ k \in 1 .. Len(q) /\ r[i].id = q[k].id /\ r[i].account_id = q[k].account_id
          /\ r[i].side = q[k].side /\ r[i].price = q[k].price
      BY <3>2, FilledLevel, SMTT(30)
    <3>4. left = 0 => 1 < k
      BY <3>2, <1>1
    <3>. HIDE DEF k
    <3>5. left = 0 => q[k].id # q[1].id
      <4>1. q[1] \in Order /\ q[k] \in Order
        BY <1>1, <3>3
      <4>2. q[1].id \in Nat /\ q[k].id \in Nat
        BY <4>1, OrderFields
      <4>3. left = 0 => q[1].id < q[k].id
        BY <1>1, <3>3, <3>4 DEF ByArrival
      <4>. QED
        BY <4>2, <4>3
    <3>6. Located(b, fside, fprice, q[k])
      BY <1>6, <3>3
    <3>7. q[k].id \in DOMAIN c.order_index
      BY <1>4, <3>5, <3>6 DEF Located
    <3>8. Located(c, fside, fprice, r[i])
      BY <1>3, <3>3, <3>6, <3>7 DEF Located
    <3>. QED
      BY <3>1, <3>8, <2>1
  <2>2. CASE ~(side = fside /\ price = fprice)
    <3>1. c.queue[side][price] = b.queue[side][price]
      BY <2>2
    <3>. DEFINE o == c.queue[side][price][i]
    <3>2. Located(b, side, price, o)
      BY <3>1 DEF Indexed
    <3>. HIDE DEF o
    <3>3. Located(b, fside, fprice, q[1])
      BY <1>1, <1>6
    <3>4. o.id # q[1].id
      BY <2>2, <3>2, <3>3 DEF Located
    <3>5. o.id \in DOMAIN c.order_index
      BY <1>4, <3>2, <3>4 DEF Located
    <3>6. Located(c, side, price, o)
      BY <1>3, <3>2, <3>5 DEF Located
    <3>. QED
      BY <3>6 DEF o
  <2>. QED
    BY <2>1, <2>2
<1>8. ASSUME NEW id \in DOMAIN c.order_index
      PROVE  RestsAt(c.queue[c.order_index[id].side][c.order_index[id].price], id)
  <2>. DEFINE side == b.order_index[id].side  price == b.order_index[id].price
  <2>1. id \in DOMAIN b.order_index /\ c.order_index[id] = b.order_index[id]
    BY <1>3
  <2>2. side \in Side /\ price \in Prices
    <3>1. b.order_index[id] \in OrderLocation
      BY <1>2, <2>1, MapMember
    <3>. QED
      BY <3>1 DEF OrderLocation
  <2>3. RestsAt(b.queue[side][price], id)
    BY <2>1 DEF Indexed
  <2>. HIDE DEF side, price
  <2>4. CASE side = fside /\ price = fprice
    <3>1. c.queue[side][price] = r /\ b.queue[side][price] = q
      BY <2>2, <2>4
    <3>2. PICK j \in 1 .. Len(q) : q[j].id = id
      BY <2>3, <3>1 DEF RestsAt
    <3>3. left = 0 => j # 1
      BY <1>5, <3>2
    <3>. DEFINE i == IF left = 0 THEN j - 1 ELSE j
    <3>4. i \in 1 .. Len(r) /\ j = IF left = 0 THEN i + 1 ELSE i
      BY <1>1, <3>2, <3>3 DEF Filled
    <3>. HIDE DEF i
    <3>5. r[i].id = q[j].id
      BY <3>4, FilledLevel
    <3>6. RestsAt(r, id)
      BY <3>2, <3>4, <3>5 DEF RestsAt
    <3>. QED
      BY <3>1, <3>6, <2>1 DEF side, price
  <2>5. CASE ~(side = fside /\ price = fprice)
    <3>1. c.queue[side][price] = b.queue[side][price]
      BY <2>2, <2>5
    <3>. QED
      BY <3>1, <2>1, <2>3 DEF side, price
  <2>. QED
    BY <2>4, <2>5
<1>. QED
  BY <1>7, <1>8 DEF Indexed

(* ... and in order. *)
LEMMA FilledInOrder ==
  ASSUME NEW b \in Book, NEW c \in Book, NEW n \in Nat, InOrder(b, n),
         NEW fside \in Side, NEW fprice \in Prices,
         NEW q \in Seq(Order), NEW r \in Seq(Order), NEW left \in Nat,
         Len(q) > 0, left <= q[1].remaining_size, Filled(q, r, left),
         FilledBook(b, c, fside, fprice, q, r, left)
  PROVE  InOrder(c, n)
<1>. USE DEF FilledBook
<1>1. Len(q) \in Nat /\ Len(r) \in Nat /\ 1 \in 1 .. Len(q)
  OBVIOUS
<1>2. ByArrival(q) /\ \A i \in 1 .. Len(q) : Live(q[i], n)
  BY DEF InOrder
<1>3. ASSUME NEW i \in 1 .. Len(r) PROVE Live(r[i], n)
  <2>. DEFINE k == IF left = 0 THEN i + 1 ELSE i
  <2>1. /\ k \in 1 .. Len(q) /\ r[i].id = q[k].id /\ r[i].size = q[k].size
        /\ r[i].remaining_size = IF left # 0 /\ i = 1 THEN left ELSE q[k].remaining_size
    BY FilledLevel, SMTT(30)
  <2>4. left # 0 => k = i
    OBVIOUS
  <2>. HIDE DEF k
  <2>2. Live(q[k], n) /\ q[k] \in Order
    BY <1>2, <2>1
  <2>3. q[k].remaining_size \in Nat /\ q[k].size \in Nat /\ q[k].id \in Nat
    BY <2>2, OrderFields
  <2>. QED
    BY <2>1, <2>2, <2>3, <2>4 DEF Live
<1>4. ByArrival(r)
  <2>. SUFFICES ASSUME NEW i \in 1 .. Len(r), NEW j \in 1 .. Len(r), i < j
                PROVE  r[i].id < r[j].id
    BY DEF ByArrival
  <2>. DEFINE d == IF left = 0 THEN 1 ELSE 0
  <2>1. i + d \in 1 .. Len(q) /\ r[i].id = q[i+d].id
    BY FilledLevel
  <2>2. j + d \in 1 .. Len(q) /\ r[j].id = q[j+d].id
    BY FilledLevel
  <2>3. i + d < j + d
    OBVIOUS
  <2>. HIDE DEF d
  <2>. QED
    BY <1>2, <2>1, <2>2, <2>3 DEF ByArrival
<1>5. ASSUME NEW side \in Side, NEW price \in Prices
      PROVE  /\ \A i \in 1 .. Len(c.queue[side][price]) : Live(c.queue[side][price][i], n)
             /\ ByArrival(c.queue[side][price])
  <2>1. CASE side = fside /\ price = fprice
    <3>1. c.queue[side][price] = r
      BY <2>1
    <3>. QED
      BY <3>1, <1>3, <1>4
  <2>2. CASE ~(side = fside /\ price = fprice)
    <3>1. c.queue[side][price] = b.queue[side][price]
      BY <2>2
    <3>. QED
      BY <3>1 DEF InOrder
  <2>. QED
    BY <2>1, <2>2
<1>. QED
  BY <1>5 DEF InOrder

(* A fill keeps the book indexed and in order, leaves the taker's own side *)
(* alone, opens no level and takes at least one unit off the taker.        *)
LEMMA FillKeeps ==
  ASSUME NEW order_id \in OrderId, NEW account_id \in Accounts,
         NEW req \in OrderRequest, NEW s \in MatchState, CanFill(req, s),
         NEW f, f = Fill(order_id, account_id, req, s),
         NEW n \in Nat, Indexed(s.book), InOrder(s.book, n)
  PROVE  /\ f \in MatchState
         /\ Indexed(f.book)
         /\ InOrder(f.book, n)
         /\ f.book.queue[req.side] = s.book.queue[req.side]
         /\ \A side \in Side : Levels(f.book, side) \subseteq Levels(s.book, side)
         /\ DOMAIN f.book.order_index \subseteq DOMAIN s.book.order_index
         /\ f.remaining < s.remaining
         /\ MakerIds(f.trades) \subseteq MakerIds(s.trades) \cup DOMAIN s.book.order_index
         /\ DOMAIN s.book.order_index \cup MakerIds(s.trades)
              \subseteq DOMAIN f.book.order_index \cup MakerIds(f.trades)
<1>. DEFINE fside == FillSide(req)  fprice == FillPrice(req, s)
            q == FillLevel(req, s)  r == FillAfter(req, s)  left == FillLeft(req, s)
            b == s.book  c == f.book
<1>3. FillResult(req, s, f)
  BY FillEffect
<1>12. MakerIds(f.trades) = MakerIds(s.trades) \cup {q[1].id}
  BY <1>3 DEF FillResult
<1>1. f \in MatchState
  BY <1>3 DEF FillResult
<1>2. b \in Book /\ c \in Book /\ s.remaining \in Nat
  BY <1>1 DEF MatchState
<1>4. FilledBook(b, c, fside, fprice, q, r, left)
  BY <1>3 DEF FilledBook, FillLevel, FillResult
<1>5. f.remaining = s.remaining - FillQty(req, s)
  BY <1>3 DEF FillResult
<1>6. fside \in Side /\ fside # req.side /\ fprice \in Prices
  BY FillFacts
<1>7. q \in Seq(Order) /\ Len(q) > 0 /\ Head(q) = q[1]
  BY FillFacts
<1>8. left \in Nat /\ left <= Head(q).remaining_size
  BY FillFacts
<1>9. FillQty(req, s) \in Nat /\ (Head(q).remaining_size > 0 => FillQty(req, s) > 0)
  BY FillFacts
<1>10. r \in Seq(Order)
  BY FillAfterFacts
<1>11. Filled(q, r, left)
  BY FillAfterFacts DEF Filled
<1>. HIDE DEF fside, fprice, q, r, left, b, c
<1>13. Indexed(b) /\ InOrder(b, n)
  BY DEF b
<1>14. ByArrival(q) /\ Live(q[1], n)
  BY <1>4, <1>6, <1>7, <1>13 DEF InOrder, FilledBook
<1>15. Indexed(c)
  BY <1>2, <1>4, <1>6, <1>7, <1>8, <1>10, <1>11, <1>13, <1>14, FilledIndexed
<1>16. left <= q[1].remaining_size
  BY <1>7, <1>8
<1>17. InOrder(c, n)
  BY <1>2, <1>4, <1>6, <1>7, <1>8, <1>10, <1>11, <1>13, <1>16, FilledInOrder
<1>18. c.queue[req.side] = b.queue[req.side]
  <2>1. req.side \in Side
    BY DEF OrderRequest
  <2>2. \A price \in Prices : c.queue[req.side][price] = b.queue[req.side][price]
    BY <1>4, <1>6, <2>1 DEF FilledBook
  <2>3. c.queue[req.side] \in [Prices -> Seq(Order)] /\ b.queue[req.side] \in [Prices -> Seq(Order)]
    BY <1>2, <2>1 DEF Book
  <2>. QED
    BY <2>2, <2>3
<1>19. \A side \in Side : Levels(c, side) \subseteq Levels(b, side)
  <2>1. q # << >>
    BY <1>7
  <2>. QED
    BY <1>4, <2>1 DEF Levels, FilledBook
<1>20. DOMAIN c.order_index \subseteq DOMAIN b.order_index
  <2>1. DOMAIN Without(b.order_index, {q[1].id}) \subseteq DOMAIN b.order_index
    BY DEF Without, Restrict
  <2>. QED
    BY <1>4, <2>1 DEF FilledBook
<1>21. f.remaining < s.remaining
  BY <1>2, <1>5, <1>7, <1>9, <1>14 DEF Live
<1>22. q[1].id \in DOMAIN b.order_index
  <2>1. 1 \in 1 .. Len(q)
    BY <1>7
  <2>2. Located(b, fside, fprice, q[1])
    BY <1>4, <1>6, <1>13, <2>1 DEF Indexed, FilledBook
  <2>. QED
    BY <2>2 DEF Located
<1>23. DOMAIN b.order_index \subseteq DOMAIN c.order_index \cup {q[1].id}
  <2>1. DOMAIN Without(b.order_index, {q[1].id}) = DOMAIN b.order_index \ {q[1].id}
    BY DEF Without, Restrict
  <2>. QED
    BY <1>4, <2>1 DEF FilledBook
<1>. QED
  BY <1>1, <1>12, <1>15, <1>17, <1>18, <1>19, <1>20, <1>21, <1>22, <1>23 DEF b, c

-----------------------------------------------------------------------------
(* The matching loop.                                                      *)

\* What holds between the book before matching and every loop state.
MatchGood(book, req, n, s) ==
  /\ s \in MatchState
  /\ s.remaining <= req.size
  /\ Indexed(s.book) /\ InOrder(s.book, n)
  /\ s.book.queue[req.side] = book.queue[req.side]
  /\ \A side \in Side : Levels(s.book, side) \subseteq Levels(book, side)
  /\ DOMAIN s.book.order_index \subseteq DOMAIN book.order_index
  /\ MakerIds(s.trades) \subseteq DOMAIN book.order_index
  /\ DOMAIN book.order_index \subseteq DOMAIN s.book.order_index \cup MakerIds(s.trades)

(* Matching ends with nothing left to fill, the book indexed and in order, *)
(* and the taker's own side as it was.                                     *)
LEMMA MatchKeeps ==
  ASSUME NEW order_id \in OrderId, NEW account_id \in Accounts,
         NEW req \in OrderRequest, NEW book \in Book, NEW n \in Nat,
         Indexed(book), InOrder(book, n),
         NEW m, m = Match(book, order_id, account_id, req)
  PROVE  MatchGood(book, req, n, m) /\ ~CanFill(req, m)
<1>. DEFINE step(s) == MatchStep(order_id, account_id, req, s)
            F == [k \in Nat |-> [s \in MatchState |-> step(s)]]
            start == [book |-> book, remaining |-> req.size, trades |-> << >>,
                      updates |-> << >>, dirty |-> {}]
            L == Loop(F, start)
            Good(s) == MatchGood(book, req, n, s)
<1>1. req.size \in Nat
  BY SizesAssumption DEF OrderRequest
<1>2. start \in MatchState
  BY <1>1 DEF MatchState
<1>3. ASSUME NEW s \in MatchState PROVE step(s) \in MatchState
  <2>1. CASE CanFill(req, s)
    <3>1. step(s) = Fill(order_id, account_id, req, s)
      BY <2>1 DEF MatchStep
    <3>. HIDE DEF step
    <3>. QED
      BY <2>1, <3>1, FillEffect DEF FillResult
  <2>2. CASE ~CanFill(req, s)
    BY <2>2 DEF MatchStep
  <2>. QED
    BY <2>1, <2>2
<1>4. F \in [Nat -> [MatchState -> MatchState]]
  <2>. HIDE DEF step
  <2>. QED
    BY <1>3
<1>5. L \in [Nat -> MatchState] /\ L[0] = start /\ \A k \in Nat : L[k+1] = F[k+1][L[k]]
  <2>. HIDE DEF F, start
  <2>. QED
    BY <1>2, <1>4, LoopDef
<1>. HIDE DEF L
<1>6. \A k \in Nat : L[k+1] = step(L[k])
  <2>. TAKE k \in Nat
  <2>1. k + 1 \in Nat /\ L[k] \in MatchState
    BY <1>5
  <2>2. F[k+1] = [s \in MatchState |-> step(s)]
    BY <2>1
  <2>. HIDE DEF step, F
  <2>3. L[k+1] = F[k+1][L[k]]
    BY <1>5
  <2>. QED
    BY <2>1, <2>2, <2>3
<1>7. m = L[req.size]
  BY DEF L, Match
<1>8. Good(start)
  <2>1. MakerIds(start.trades) = {}
    BY DEF MakerIds
  <2>. QED
    BY <1>1, <1>2, <2>1 DEF MatchGood
<1>. DEFINE Bounded(s, k) == CanFill(req, s) => s.remaining + k <= req.size
            U == {k \in Nat : Good(L[k]) /\ Bounded(L[k], k)}
<1>9. 0 \in U
  <2>1. Bounded(start, 0)
    BY <1>1
  <2>. HIDE DEF start, Good, Bounded
  <2>. QED
    BY <1>5, <1>8, <2>1
<1>10. ASSUME NEW k \in U PROVE k + 1 \in U
  <2>. DEFINE s == L[k]  t == L[k+1]
  <2>1. Good(s) /\ Bounded(s, k) /\ k \in Nat
    OBVIOUS
  <2>2. t = MatchStep(order_id, account_id, req, s)
    BY <1>6, <2>1
  <2>. HIDE DEF s, t
  <2>3. s \in MatchState /\ s.remaining \in Nat
    BY <2>1 DEF MatchGood, MatchState
  <2>4. CASE CanFill(req, s)
    <3>1. t = Fill(order_id, account_id, req, s)
      BY <2>2, <2>4 DEF MatchStep
    <3>2. Indexed(s.book) /\ InOrder(s.book, n)
      BY <2>1 DEF MatchGood
    <3>3. /\ t \in MatchState
          /\ Indexed(t.book)
          /\ InOrder(t.book, n)
          /\ t.book.queue[req.side] = s.book.queue[req.side]
          /\ \A side \in Side : Levels(t.book, side) \subseteq Levels(s.book, side)
          /\ DOMAIN t.book.order_index \subseteq DOMAIN s.book.order_index
          /\ t.remaining < s.remaining
          /\ MakerIds(t.trades) \subseteq MakerIds(s.trades) \cup DOMAIN s.book.order_index
          /\ DOMAIN s.book.order_index \cup MakerIds(s.trades)
               \subseteq DOMAIN t.book.order_index \cup MakerIds(t.trades)
      BY <2>3, <2>4, <3>1, <3>2, FillKeeps
    <3>5. t.remaining \in Nat
      BY <3>3 DEF MatchState
    <3>7. s.remaining <= req.size
      BY <2>1 DEF MatchGood
    <3>8. t.remaining <= req.size
      BY <1>1, <2>3, <3>3, <3>5, <3>7
    <3>4. Good(t)
      BY <2>1, <3>3, <3>8 DEF MatchGood
    <3>6. t.remaining + (k + 1) <= req.size
      BY <1>1, <2>1, <2>3, <2>4, <3>3, <3>5
    <3>. QED
      BY <2>1, <3>4, <3>6 DEF t
  <2>5. CASE ~CanFill(req, s)
    <3>1. t = s
      BY <2>2, <2>5 DEF MatchStep
    <3>. QED
      BY <2>1, <2>5, <3>1 DEF t
  <2>. QED
    BY <2>4, <2>5
<1>11. U = Nat
  BY <1>9, <1>10, SetInduction
<1>12. Good(m) /\ Bounded(m, req.size)
  BY <1>1, <1>7, <1>11
<1>13. ~CanFill(req, m)
  <2>1. m.remaining \in Nat
    BY <1>12 DEF MatchGood, MatchState
  <2>. QED
    BY <1>1, <1>12, <2>1 DEF CanFill
<1>. QED
  BY <1>12, <1>13

-----------------------------------------------------------------------------
(* add_order.                                                              *)

(* The ids in the index of a well-kept book are below the next order id.   *)
LEMMA IdsBelow ==
  ASSUME NEW book \in Book, NEW n \in Nat, Indexed(book), InOrder(book, n),
         NEW id \in DOMAIN book.order_index
  PROVE  id < n
<1>. DEFINE at == book.order_index[id]  q == book.queue[at.side][at.price]
<1>1. at \in OrderLocation
  BY MapMember DEF Book
<1>2. at.side \in Side /\ at.price \in Prices
  BY <1>1 DEF OrderLocation
<1>3. RestsAt(q, id)
  BY DEF Indexed
<1>4. \A i \in 1 .. Len(q) : Live(q[i], n)
  BY <1>2 DEF InOrder
<1>. HIDE DEF q
<1>. QED
  BY <1>3, <1>4 DEF RestsAt, Live

\* Book c is book b with the order o resting at the back of its level.
RestedBook(b, c, o) ==
  /\ \A side \in Side, price \in Prices :
       c.queue[side][price] = IF side = o.side /\ price = o.price
                              THEN Append(b.queue[side][price], o)
                              ELSE b.queue[side][price]
  /\ DOMAIN c.order_index = DOMAIN b.order_index \cup {o.id}
  /\ \A x \in DOMAIN b.order_index \ {o.id} : c.order_index[x] = b.order_index[x]
  /\ c.order_index[o.id] = [owner |-> o.account_id, side |-> o.side, price |-> o.price]

(* Resting an order gives a book again, with the order at the back.        *)
LEMMA RestEffect ==
  ASSUME NEW order_id \in OrderId, NEW account_id \in Accounts,
         NEW req \in OrderRequest, NEW b \in Book, NEW remaining \in Nat,
         NEW c, c = Rest(b, order_id, account_id, req, remaining)
  PROVE  \E o \in Order :
           /\ o.id = order_id /\ o.side = req.side /\ o.price = req.price
           /\ o.size = req.size /\ o.remaining_size = remaining
           /\ c \in Book /\ RestedBook(b, c, o)
<1>. DEFINE o == [id |-> order_id, account_id |-> account_id, side |-> req.side,
                  price |-> req.price, size |-> req.size, remaining_size |-> remaining]
            queue == [b.queue EXCEPT ![req.side][req.price] = Append(@, o)]
            at == [owner |-> account_id, side |-> req.side, price |-> req.price]
            index == With(b.order_index, order_id, at)
<1>1. req.side \in Side /\ req.price \in Prices /\ req.size \in Nat
  BY SizesAssumption DEF OrderRequest
<1>2. o \in Order /\ at \in OrderLocation
  BY <1>1 DEF Order, OrderLocation
<1>3. o.id = order_id /\ o.side = req.side /\ o.price = req.price /\ o.account_id = account_id
      /\ o.size = req.size /\ o.remaining_size = remaining
  OBVIOUS
<1>4. c = [queue |-> queue, order_index |-> index, last_trade_price |-> b.last_trade_price]
  BY DEF Rest
<1>5. /\ b.queue \in [Side -> [Prices -> Seq(Order)]]
      /\ b.order_index \in Map(OrderId, OrderLocation)
      /\ b.last_trade_price \in Prices \cup {None}
  BY DEF Book
<1>. HIDE DEF o, at
<1>6. Append(b.queue[req.side][req.price], o) \in Seq(Order)
  BY <1>1, <1>2, <1>5
<1>7. queue \in [Side -> [Prices -> Seq(Order)]]
  BY <1>1, <1>5, <1>6
<1>8. \A side \in Side, price \in Prices :
        queue[side][price] = IF side = o.side /\ price = o.price
                             THEN Append(b.queue[side][price], o) ELSE b.queue[side][price]
  BY <1>1, <1>3, <1>5, <1>6
<1>. HIDE DEF queue, index
<1>9. /\ index \in Map(OrderId, OrderLocation)
      /\ DOMAIN index = DOMAIN b.order_index \cup {order_id}
      /\ \A x \in DOMAIN b.order_index \cup {order_id} :
           index[x] = IF x = order_id THEN at ELSE b.order_index[x]
  <2>. DEFINE f == b.order_index  g == With(f, order_id, at)
  <2>1. f \in Map(OrderId, OrderLocation) /\ at \in OrderLocation
    BY <1>2, <1>5
  <2>. HIDE DEF f
  <2>2. g \in Map(OrderId, OrderLocation)
    BY <2>1, WithMember
  <2>3. /\ DOMAIN g = DOMAIN f \cup {order_id}
        /\ \A x \in DOMAIN f \cup {order_id} : g[x] = IF x = order_id THEN at ELSE f[x]
    BY DEF With
  <2>. QED
    BY <2>2, <2>3 DEF f, index
<1>10. c \in Book
  BY <1>4, <1>5, <1>7, <1>9 DEF Book
<1>11. at = [owner |-> o.account_id, side |-> o.side, price |-> o.price]
  BY <1>3 DEF at
<1>12. c.queue = queue /\ c.order_index = index
  BY <1>4
<1>13. RestedBook(b, c, o)
  BY <1>3, <1>8, <1>9, <1>11, <1>12 DEF RestedBook
<1>. QED
  BY <1>2, <1>3, <1>10, <1>13

(* An appended sequence, element by element. *)
LEMMA AppendFacts ==
  ASSUME NEW q \in Seq(Order), NEW o \in Order, NEW r, r = Append(q, o)
  PROVE  /\ Len(q) \in Nat /\ Len(r) = Len(q) + 1
         /\ \A i \in 1 .. Len(q) : i \in 1 .. Len(r) /\ r[i] = q[i]
         /\ Len(r) \in 1 .. Len(r) /\ r[Len(r)] = o
         /\ \A i \in 1 .. Len(r) : i \in 1 .. Len(q) \/ i = Len(r)
  OBVIOUS

(* Resting an order with a new id keeps the book indexed ...               *)
LEMMA RestIndexed ==
  ASSUME NEW b \in Book, NEW c \in Book, NEW o \in Order, Indexed(b),
         o.id \notin DOMAIN b.order_index, RestedBook(b, c, o)
  PROVE  Indexed(c)
<1>. USE DEF RestedBook
<1>. DEFINE q == b.queue[o.side][o.price]  r == c.queue[o.side][o.price]
<1>1. o.side \in Side /\ o.price \in Prices
  BY OrderFields
<1>2. q \in Seq(Order) /\ r = Append(q, o)
  BY <1>1 DEF Book
<1>. HIDE DEF q, r
<1>3. /\ Len(q) \in Nat /\ Len(r) = Len(q) + 1
      /\ \A i \in 1 .. Len(q) : i \in 1 .. Len(r) /\ r[i] = q[i]
      /\ Len(r) \in 1 .. Len(r) /\ r[Len(r)] = o
      /\ \A i \in 1 .. Len(r) : i \in 1 .. Len(q) \/ i = Len(r)
  BY <1>2, AppendFacts
<1>4. ASSUME NEW side \in Side, NEW price \in Prices, NEW x,
             Located(b, side, price, x)
      PROVE  Located(c, side, price, x)
  BY <1>4 DEF Located
<1>5. ASSUME NEW side \in Side, NEW price \in Prices,
             NEW i \in 1 .. Len(c.queue[side][price])
      PROVE  Located(c, side, price, c.queue[side][price][i])
  <2>1. CASE side = o.side /\ price = o.price
    <3>1. c.queue[side][price] = r
      BY <2>1 DEF r
    <3>2. i \in 1 .. Len(r)
      BY <3>1
    <3>3. CASE i \in 1 .. Len(q)
      <4>1. Located(b, side, price, q[i])
        BY <2>1, <3>3 DEF Indexed, q
      <4>2. r[i] = q[i]
        BY <1>3, <3>3
      <4>. QED
        BY <1>4, <3>1, <4>1, <4>2
    <3>4. CASE i = Len(r)
      <4>1. r[i] = o
        BY <1>3, <3>4
      <4>2. Located(c, o.side, o.price, o)
        BY DEF Located
      <4>. QED
        BY <2>1, <3>1, <4>1, <4>2
    <3>. QED
      BY <1>3, <3>2, <3>3, <3>4
  <2>2. CASE ~(side = o.side /\ price = o.price)
    <3>1. c.queue[side][price] = b.queue[side][price]
      BY <2>2
    <3>. DEFINE x == c.queue[side][price][i]
    <3>2. Located(b, side, price, x)
      BY <3>1 DEF Indexed
    <3>. HIDE DEF x
    <3>3. Located(c, side, price, x)
      BY <1>4, <3>2
    <3>. QED
      BY <3>3 DEF x
  <2>. QED
    BY <2>1, <2>2
<1>6. ASSUME NEW id \in DOMAIN c.order_index
      PROVE  RestsAt(c.queue[c.order_index[id].side][c.order_index[id].price], id)
  <2>1. CASE id = o.id
    <3>1. c.order_index[id].side = o.side /\ c.order_index[id].price = o.price
      BY <2>1
    <3>2. RestsAt(r, id)
      BY <1>3, <2>1 DEF RestsAt
    <3>. QED
      BY <3>1, <3>2 DEF r
  <2>2. CASE id # o.id
    <3>. DEFINE at == b.order_index[id]
    <3>1. id \in DOMAIN b.order_index /\ c.order_index[id] = at
      BY <2>2
    <3>2. at \in OrderLocation
      BY <3>1, MapMember DEF Book
    <3>3. at.side \in Side /\ at.price \in Prices
      BY <3>2 DEF OrderLocation
    <3>4. RestsAt(b.queue[at.side][at.price], id)
      BY <3>1 DEF Indexed
    <3>. HIDE DEF at
    <3>5. CASE at.side = o.side /\ at.price = o.price
      <4>1. PICK i \in 1 .. Len(q) : q[i].id = id
        BY <3>4, <3>5 DEF RestsAt, q
      <4>2. RestsAt(r, id)
        BY <1>3, <4>1 DEF RestsAt
      <4>. QED
        BY <3>1, <3>5, <4>2 DEF r
    <3>6. CASE ~(at.side = o.side /\ at.price = o.price)
      BY <3>1, <3>3, <3>4, <3>6
    <3>. QED
      BY <3>5, <3>6
  <2>. QED
    BY <2>1, <2>2
<1>. QED
  BY <1>5, <1>6 DEF Indexed

(* ... and in order. *)
LEMMA RestInOrder ==
  ASSUME NEW b \in Book, NEW c \in Book, NEW o \in Order, InOrder(b, o.id),
         0 < o.remaining_size, o.remaining_size <= o.size, RestedBook(b, c, o)
  PROVE  InOrder(c, o.id + 1)
<1>. USE DEF RestedBook
<1>. DEFINE n == o.id + 1
<1>1. o.side \in Side /\ o.price \in Prices /\ o.id \in Nat
  BY OrderFields
<1>2. ASSUME NEW x \in Order, Live(x, o.id) PROVE Live(x, n)
  <2>1. x.id \in Nat
    BY OrderFields
  <2>. QED
    BY <1>1, <1>2, <2>1 DEF Live
<1>3. Live(o, n)
  BY <1>1 DEF Live
<1>. HIDE DEF n
<1>4. ASSUME NEW side \in Side, NEW price \in Prices
      PROVE  /\ \A i \in 1 .. Len(c.queue[side][price]) : Live(c.queue[side][price][i], n)
             /\ ByArrival(c.queue[side][price])
  <2>. DEFINE q == b.queue[side][price]  r == c.queue[side][price]
  <2>1. q \in Seq(Order)
    BY DEF Book
  <2>2. ByArrival(q) /\ \A i \in 1 .. Len(q) : Live(q[i], o.id)
    BY DEF InOrder
  <2>. HIDE DEF q, r
  <2>3. \A i \in 1 .. Len(q) : q[i] \in Order
    BY <2>1
  <2>4. \A i \in 1 .. Len(q) : Live(q[i], n)
    BY <1>2, <2>2, <2>3
  <2>5. CASE side = o.side /\ price = o.price
    <3>1. r = Append(q, o)
      BY <2>5 DEF q, r
    <3>2. /\ Len(q) \in Nat /\ Len(r) = Len(q) + 1
          /\ \A i \in 1 .. Len(q) : i \in 1 .. Len(r) /\ r[i] = q[i]
          /\ Len(r) \in 1 .. Len(r) /\ r[Len(r)] = o
          /\ \A i \in 1 .. Len(r) : i \in 1 .. Len(q) \/ i = Len(r)
      BY <2>1, <3>1, AppendFacts
    <3>3. \A i \in 1 .. Len(r) : Live(r[i], n)
      BY <1>3, <2>4, <3>2
    <3>4. ASSUME NEW i \in 1 .. Len(r), NEW j \in 1 .. Len(r), i < j
          PROVE  r[i].id < r[j].id
      <4>1. i \in 1 .. Len(q)
        BY <3>2, <3>4
      <4>2. r[i] = q[i] /\ q[i].id < o.id
        BY <2>2, <3>2, <4>1 DEF Live
      <4>3. CASE j \in 1 .. Len(q)
        <5>1. q[i].id < q[j].id /\ r[j] = q[j]
          BY <2>2, <3>2, <3>4, <4>1, <4>3 DEF ByArrival
        <5>. QED
          BY <4>2, <5>1
      <4>4. CASE j = Len(r)
        BY <3>2, <4>2, <4>4
      <4>. QED
        BY <3>2, <4>3, <4>4
    <3>5. ByArrival(r)
      BY <3>4 DEF ByArrival
    <3>. QED
      BY <3>3, <3>5 DEF r
  <2>6. CASE ~(side = o.side /\ price = o.price)
    <3>1. r = q
      BY <2>6 DEF q, r
    <3>. QED
      BY <2>2, <2>4, <3>1 DEF r
  <2>. QED
    BY <2>5, <2>6
<1>. QED
  BY <1>4 DEF InOrder, n

\* What add_order and cancel_order leave: a book that is well kept for the
\* next order id n.
WellKept(book, n) ==
  book \in Book /\ Indexed(book) /\ InOrder(book, n) /\ NotCrossed(book)

(* After matching, a limit order with something left crosses no level of   *)
(* the opposite side.                                                      *)
LEMMA NothingLeftToCross ==
  ASSUME NEW req \in OrderRequest, NEW m \in MatchState, ~CanFill(req, m),
         m.remaining > 0, req.order_type = "Limit",
         NEW p \in Levels(m.book, Opposite(req.side))
  PROVE  IF req.side = "Bid" THEN req.price < p ELSE p < req.price
<1>. DEFINE side == Opposite(req.side)  best == BestPrice(m.book, side)
<1>1. side \in Side /\ req.side \in Side /\ (side = "Ask" <=> req.side = "Bid")
  BY DEF Opposite, Side, OrderRequest
<1>2. Levels(m.book, side) # {} /\ p \in Levels(m.book, side)
  OBVIOUS
<1>3. ~Crosses(req, best)
  BY <1>2 DEF CanFill
<1>. HIDE DEF side, best
<1>4. /\ best \in Levels(m.book, side)
      /\ IF side = "Ask" THEN best <= p ELSE p <= best
  BY <1>1, <1>2, BestIsBest DEF best
<1>5. best \in Nat /\ p \in Nat /\ req.price \in Nat
  BY <1>2, <1>4, PricesAssumption DEF Levels, OrderRequest
<1>6. CASE req.side = "Bid"
  <2>1. ~(best <= req.price)
    BY <1>3, <1>6 DEF Crosses
  <2>. QED
    BY <1>1, <1>4, <1>5, <1>6, <2>1
<1>7. CASE req.side = "Ask"
  <2>1. ~(best >= req.price)
    BY <1>3, <1>7 DEF Crosses
  <2>2. side # "Ask" /\ req.side # "Bid"
    BY <1>1, <1>7
  <2>. QED
    BY <1>4, <1>5, <2>1, <2>2
<1>. QED
  BY <1>1, <1>6, <1>7 DEF Side

\* What placing an order with id order_id makes of book b.
Added(b, order_id, a) ==
  /\ WellKept(a.book, order_id + 1)
  /\ a.trades \in Seq(Trade)
  /\ a.taker_remaining \in Nat
  /\ MakerIds(a.trades) \subseteq DOMAIN b.order_index
  /\ DOMAIN b.order_index \subseteq DOMAIN a.book.order_index \cup MakerIds(a.trades)
  /\ DOMAIN a.book.order_index \subseteq DOMAIN b.order_index \cup {order_id}

(* add_order leaves a well-kept, uncrossed book, and takes out of its index*)
(* only orders that traded.                                                *)
LEMMA AddKeeps ==
  ASSUME NEW order_id \in OrderId, NEW account_id \in Accounts,
         NEW req \in OrderRequest, NEW b, WellKept(b, order_id),
         NEW a, a = AddOrder(b, order_id, account_id, req)
  PROVE  Added(b, order_id, a)
<1>. DEFINE m == Match(b, order_id, account_id, req)
            rests == req.order_type = "Limit" /\ m.remaining > 0
            c == a.book
<1>1. order_id \in Nat
  BY MaxOrdersAssumption DEF OrderId
<1>2. b \in Book /\ Indexed(b) /\ InOrder(b, order_id) /\ NotCrossed(b)
  BY DEF WellKept
<1>3. /\ c = IF rests THEN Rest(m.book, order_id, account_id, req, m.remaining) ELSE m.book
      /\ a.trades = m.trades /\ a.taker_remaining = m.remaining
  BY DEF AddOrder, Finish
<1>. HIDE DEF m, c
<1>4. MatchGood(b, req, order_id, m) /\ ~CanFill(req, m)
  BY <1>1, <1>2, MatchKeeps DEF m
<1>5. /\ m \in MatchState /\ m.remaining <= req.size
      /\ Indexed(m.book) /\ InOrder(m.book, order_id)
      /\ \A side \in Side : Levels(m.book, side) \subseteq Levels(b, side)
      /\ DOMAIN m.book.order_index \subseteq DOMAIN b.order_index
      /\ MakerIds(m.trades) \subseteq DOMAIN b.order_index
      /\ DOMAIN b.order_index \subseteq DOMAIN m.book.order_index \cup MakerIds(m.trades)
  BY <1>4 DEF MatchGood
<1>6. m.book \in Book /\ m.remaining \in Nat /\ m.trades \in Seq(Trade)
  BY <1>5 DEF MatchState
<1>7. NotCrossed(m.book)
  BY <1>2, <1>5 DEF NotCrossed, Side
<1>8. CASE ~rests
  <2>1. c = m.book
    BY <1>3, <1>8
  <2>2. InOrder(m.book, order_id + 1)
    <3>1. ASSUME NEW side \in Side, NEW price \in Prices
          PROVE  /\ \A i \in 1 .. Len(m.book.queue[side][price]) :
                      Live(m.book.queue[side][price][i], order_id + 1)
                 /\ ByArrival(m.book.queue[side][price])
      <4>. DEFINE q == m.book.queue[side][price]
      <4>1. q \in Seq(Order)
        BY <1>6 DEF Book
      <4>2. ByArrival(q) /\ \A i \in 1 .. Len(q) : Live(q[i], order_id)
        BY <1>5 DEF InOrder
      <4>. HIDE DEF q
      <4>3. ASSUME NEW i \in 1 .. Len(q) PROVE Live(q[i], order_id + 1)
        <5>1. q[i] \in Order /\ Live(q[i], order_id)
          BY <4>1, <4>2
        <5>2. q[i].id \in Nat
          BY <5>1, OrderFields
        <5>. QED
          BY <1>1, <5>1, <5>2 DEF Live
      <4>. QED
        BY <4>2, <4>3 DEF q
    <3>. QED
      BY <3>1 DEF InOrder
  <2>. QED
    BY <1>3, <1>5, <1>6, <1>7, <2>1, <2>2 DEF Added, WellKept, c
<1>9. CASE rests
  <2>1. c = Rest(m.book, order_id, account_id, req, m.remaining)
    BY <1>3, <1>9
  <2>2. PICK o \in Order :
           /\ o.id = order_id /\ o.side = req.side /\ o.price = req.price
           /\ o.size = req.size /\ o.remaining_size = m.remaining
           /\ c \in Book /\ RestedBook(m.book, c, o)
    BY <1>6, <2>1, RestEffect
  <2>3. c \in Book /\ RestedBook(m.book, c, o)
    BY <2>2
  <2>4. o.id \notin DOMAIN m.book.order_index
    <3>1. o.id \in Nat /\ ~(o.id < order_id)
      BY <1>1, <2>2
    <3>. QED
      BY <1>1, <1>5, <1>6, <3>1, IdsBelow
  <2>5. Indexed(c)
    BY <1>5, <1>6, <2>3, <2>4, RestIndexed
  <2>6. InOrder(c, order_id + 1)
    <3>1. InOrder(m.book, o.id) /\ 0 < o.remaining_size /\ o.remaining_size <= o.size
      BY <1>5, <1>6, <1>9, <2>2
    <3>2. InOrder(c, o.id + 1)
      BY <1>6, <2>3, <3>1, RestInOrder
    <3>. QED
      BY <2>2, <3>2
  <2>7. \A side \in Side : \A p \in Levels(c, side) :
          p \in Levels(m.book, side) \/ (side = req.side /\ p = req.price)
    BY <2>2 DEF Levels, RestedBook
  <2>8. NotCrossed(c)
    <3>. SUFFICES ASSUME NEW bid \in Levels(c, "Bid"), NEW ask \in Levels(c, "Ask")
                  PROVE  bid < ask
      BY DEF NotCrossed
    <3>1. bid \in Levels(m.book, "Bid") \/ (req.side = "Bid" /\ bid = req.price)
      BY <2>7 DEF Side
    <3>2. ask \in Levels(m.book, "Ask") \/ (req.side = "Ask" /\ ask = req.price)
      BY <2>7 DEF Side
    <3>3. CASE req.side = "Bid" /\ bid = req.price
      <4>1. ask \in Levels(m.book, Opposite(req.side))
        BY <3>2, <3>3 DEF Opposite
      <4>2. IF req.side = "Bid" THEN req.price < ask ELSE ask < req.price
        BY <1>4, <1>5, <1>9, <4>1, NothingLeftToCross
      <4>. QED
        BY <3>3, <4>2
    <3>4. CASE req.side = "Ask" /\ ask = req.price
      <4>1. bid \in Levels(m.book, Opposite(req.side))
        BY <3>1, <3>4 DEF Opposite
      <4>2. IF req.side = "Bid" THEN req.price < bid ELSE bid < req.price
        BY <1>4, <1>5, <1>9, <4>1, NothingLeftToCross
      <4>. QED
        BY <3>4, <4>2
    <3>5. CASE bid \in Levels(m.book, "Bid") /\ ask \in Levels(m.book, "Ask")
      BY <1>7, <3>5 DEF NotCrossed
    <3>. QED
      BY <3>1, <3>2, <3>3, <3>4, <3>5
  <2>9. DOMAIN c.order_index = DOMAIN m.book.order_index \cup {order_id}
    BY <2>2 DEF RestedBook
  <2>. QED
    BY <1>3, <1>5, <1>6, <2>3, <2>5, <2>6, <2>8, <2>9 DEF Added, WellKept, c
<1>. QED
  BY <1>8, <1>9

-----------------------------------------------------------------------------
(* cancel_order.                                                           *)

(* A position found in a queue is a place of the queue that holds the id.  *)
LEMMA PositionFacts ==
  ASSUME NEW q \in Seq(Order), NEW id, Position(q, id) # 0
  PROVE  Position(q, id) \in 1 .. Len(q) /\ q[Position(q, id)].id = id
<1>. DEFINE I == {i \in 1 .. Len(q) : q[i].id = id}
<1>1. Position(q, id) = IF I # {} THEN Min(I) ELSE 0
  BY DEF Position
<1>2. I \in SUBSET Nat /\ I # {}
  BY <1>1
<1>. HIDE DEF I
<1>3. \E m \in I : \A k \in I : m <= k
  BY <1>2, LeastNat
<1>4. Min(I) \in I
  BY <1>3 DEF Min
<1>. QED
  BY <1>1, <1>2, <1>4 DEF I

(* A queue without its i-th order, element by element. *)
LEMMA RemoveAtFacts ==
  ASSUME NEW q \in Seq(Order), NEW i \in 1 .. Len(q), NEW r, r = RemoveAt(q, i)
  PROVE  /\ r \in Seq(Order) /\ Len(q) \in Nat /\ Len(r) = Len(q) - 1
         /\ \A j \in 1 .. Len(r) : r[j] = q[IF j < i THEN j ELSE j + 1]
<1>. DEFINE u == SubSeq(q, 1, i-1)  v == SubSeq(q, i+1, Len(q))
<1>1. Len(q) \in Nat /\ i \in Nat /\ 1 <= i /\ i <= Len(q)
  OBVIOUS
<1>2. /\ u \in Seq(Order) /\ Len(u) = i - 1
      /\ \A j \in 1 .. (i-1) : u[j] = q[j]
  BY <1>1
<1>3. /\ v \in Seq(Order) /\ Len(v) = Len(q) - i
      /\ \A j \in 1 .. (Len(q) - i) : v[j] = q[i + j]
  BY <1>1
<1>4. r = u \o v
  BY DEF RemoveAt
<1>. HIDE DEF u, v
<1>5. /\ u \o v \in Seq(Order) /\ Len(u \o v) = Len(u) + Len(v)
      /\ \A j \in 1 .. (Len(u) + Len(v)) :
           (u \o v)[j] = IF j <= Len(u) THEN u[j] ELSE v[j - Len(u)]
  <2>1. u \in Seq(Order) /\ v \in Seq(Order)
    BY <1>2, <1>3
  <2>. QED
    BY <2>1
<1>6. Len(r) = Len(q) - 1
  BY <1>1, <1>2, <1>3, <1>4, <1>5
<1>7. ASSUME NEW j \in 1 .. Len(r) PROVE r[j] = q[IF j < i THEN j ELSE j + 1]
  <2>1. r[j] = IF j <= i - 1 THEN u[j] ELSE v[j - (i - 1)]
    BY <1>1, <1>2, <1>3, <1>4, <1>5, <1>6
  <2>2. CASE j < i
    BY <1>1, <1>2, <1>6, <2>1, <2>2
  <2>3. CASE ~(j < i)
    <3>1. j - (i - 1) \in 1 .. (Len(q) - i) /\ i + (j - (i - 1)) = j + 1
      BY <1>1, <1>6, <2>3
    <3>2. r[j] = v[j - (i - 1)]
      BY <1>1, <1>6, <2>1, <2>3
    <3>3. v[j - (i - 1)] = q[j + 1]
      BY <1>3, <3>1
    <3>. QED
      BY <2>3, <3>2, <3>3
  <2>. QED
    BY <2>2, <2>3
<1>. QED
  BY <1>1, <1>4, <1>5, <1>6, <1>7

\* Book c is book b without the order id at place i of its level.
CancelledBook(b, c, id, i) ==
  LET at == b.order_index[id]
      q  == b.queue[at.side][at.price]
  IN  /\ \A side \in Side, price \in Prices :
           c.queue[side][price] = IF side = at.side /\ price = at.price
                                  THEN RemoveAt(q, i) ELSE b.queue[side][price]
      /\ DOMAIN c.order_index = DOMAIN b.order_index \ {id}
      /\ \A x \in DOMAIN b.order_index \ {id} : c.order_index[x] = b.order_index[x]

\* The same with the types, for the order at q[Position(q, id)].
Cancelled(b, c, id, at, q) ==
  /\ id \in DOMAIN b.order_index
  /\ at \in OrderLocation /\ at.side \in Side /\ at.price \in Prices
  /\ q \in Seq(Order)
  /\ Position(q, id) \in 1 .. Len(q) /\ q[Position(q, id)].id = id
  /\ CancelOrder(b, id).removed = q[Position(q, id)]
  /\ c \in Book
  /\ CancelledBook(b, c, id, Position(q, id))

(* A cancel gives a book again, without the order at its place.            *)
LEMMA CancelEffect ==
  ASSUME NEW b \in Book, NEW account_id, NEW id, CanCancel(b, account_id, id),
         NEW c, c = CancelOrder(b, id).book,
         NEW at, at = b.order_index[id],
         NEW q, q = b.queue[at.side][at.price]
  PROVE  Cancelled(b, c, id, at, q)
<1>. DEFINE i == Position(q, id)
            queue == [b.queue EXCEPT ![at.side][at.price] = RemoveAt(q, i)]
            index == Without(b.order_index, {id})
<1>1. id \in DOMAIN b.order_index /\ i # 0
  BY DEF CanCancel
<1>2. at \in OrderLocation
  BY <1>1, MapMember DEF Book
<1>3. at.side \in Side /\ at.price \in Prices
  BY <1>2 DEF OrderLocation
<1>4. /\ b.queue \in [Side -> [Prices -> Seq(Order)]]
      /\ b.order_index \in Map(OrderId, OrderLocation)
      /\ b.last_trade_price \in Prices \cup {None}
  BY DEF Book
<1>5. q \in Seq(Order)
  BY <1>3, <1>4
<1>6. i \in 1 .. Len(q) /\ q[i].id = id
  BY <1>1, <1>5, PositionFacts
<1>7. c = [queue |-> queue, order_index |-> index, last_trade_price |-> b.last_trade_price]
  BY DEF CancelOrder
<1>8. CancelOrder(b, id).removed = q[i]
  BY DEF CancelOrder
<1>. HIDE DEF i
<1>9. RemoveAt(q, i) \in Seq(Order)
  BY <1>5, <1>6, RemoveAtFacts
<1>10. queue \in [Side -> [Prices -> Seq(Order)]]
  BY <1>3, <1>4, <1>9
<1>11. \A side \in Side, price \in Prices :
         queue[side][price] = IF side = at.side /\ price = at.price
                              THEN RemoveAt(q, i) ELSE b.queue[side][price]
  BY <1>3, <1>4, <1>9
<1>12. /\ DOMAIN index = DOMAIN b.order_index \ {id}
       /\ \A x \in DOMAIN b.order_index \ {id} : index[x] = b.order_index[x]
  BY DEF Without, Restrict
<1>13. index \in Map(OrderId, OrderLocation)
  BY <1>4, WithoutMember
<1>. HIDE DEF queue, index
<1>14. c \in Book
  BY <1>4, <1>7, <1>10, <1>13 DEF Book
<1>15. c.queue = queue /\ c.order_index = index
  BY <1>7
<1>16. CancelledBook(b, c, id, i)
  BY <1>11, <1>12, <1>15 DEF CancelledBook
<1>. QED
  BY <1>1, <1>2, <1>3, <1>5, <1>6, <1>8, <1>14, <1>16 DEF i, Cancelled

(* cancel_order leaves a well-kept, uncrossed book without the order.      *)
LEMMA CancelKeeps ==
  ASSUME NEW b, NEW n \in Nat, WellKept(b, n),
         NEW account_id, NEW id, CanCancel(b, account_id, id),
         NEW c, c = CancelOrder(b, id).book
  PROVE  WellKept(c, n) /\ DOMAIN c.order_index = DOMAIN b.order_index \ {id}
<1>. DEFINE at == b.order_index[id]
            q == b.queue[at.side][at.price]
            i == Position(q, id)
            r == RemoveAt(q, i)
            up(j) == IF j < i THEN j ELSE j + 1
<1>1. b \in Book /\ Indexed(b) /\ InOrder(b, n) /\ NotCrossed(b)
  BY DEF WellKept
<1>2. /\ id \in DOMAIN b.order_index
      /\ at \in OrderLocation /\ at.side \in Side /\ at.price \in Prices
      /\ q \in Seq(Order)
      /\ Position(q, id) \in 1 .. Len(q) /\ q[Position(q, id)].id = id
      /\ CancelOrder(b, id).removed = q[Position(q, id)]
      /\ c \in Book
      /\ CancelledBook(b, c, id, Position(q, id))
  <2>1. Cancelled(b, c, id, at, q)
    BY <1>1, CancelEffect
  <2>. QED
    BY <2>1 DEF Cancelled
<1>3. /\ \A side \in Side, price \in Prices :
           c.queue[side][price] = IF side = at.side /\ price = at.price
                                  THEN r ELSE b.queue[side][price]
      /\ DOMAIN c.order_index = DOMAIN b.order_index \ {id}
      /\ \A x \in DOMAIN b.order_index \ {id} : c.order_index[x] = b.order_index[x]
  BY <1>2 DEF CancelledBook
<1>4. i \in 1 .. Len(q) /\ q[i].id = id
  BY <1>2
<1>5. ByArrival(q) /\ \A j \in 1 .. Len(q) : Live(q[j], n) /\ Located(b, at.side, at.price, q[j])
  BY <1>1, <1>2 DEF InOrder, Indexed
<1>. HIDE DEF i, q, at
<1>6. /\ Len(q) \in Nat /\ Len(r) = Len(q) - 1
      /\ \A j \in 1 .. Len(r) : r[j] = q[up(j)]
  BY <1>2, <1>4, RemoveAtFacts
<1>7. \A j \in 1 .. Len(r) : up(j) \in 1 .. Len(q) /\ up(j) # i
  BY <1>4, <1>6
<1>8. \A j \in 1 .. Len(r), k \in 1 .. Len(r) : j < k => up(j) < up(k)
  BY <1>4, <1>6
<1>9. \A k \in 1 .. Len(q) : k # i => \E j \in 1 .. Len(r) : up(j) = k
  <2>. SUFFICES ASSUME NEW k \in 1 .. Len(q), k # i PROVE \E j \in 1 .. Len(r) : up(j) = k
    OBVIOUS
  <2>1. CASE k < i
    <3>1. k \in 1 .. Len(r) /\ up(k) = k
      BY <1>4, <1>6, <2>1
    <3>. QED
      BY <3>1
  <2>2. CASE ~(k < i)
    <3>1. k - 1 \in 1 .. Len(r) /\ up(k - 1) = k
      BY <1>4, <1>6, <2>2
    <3>. QED
      BY <3>1
  <2>. QED
    BY <2>1, <2>2
<1>. HIDE DEF r, up
<1>10. ASSUME NEW x, NEW side, NEW price, Located(b, side, price, x), x.id # id
       PROVE  Located(c, side, price, x)
  BY <1>3, <1>10 DEF Located
<1>11. \A k \in 1 .. Len(q) : k # i => q[k].id # id
  <2>. SUFFICES ASSUME NEW k \in 1 .. Len(q), k # i PROVE q[k].id # id
    OBVIOUS
  <2>1. q[k] \in Order /\ q[i] \in Order
    BY <1>2, <1>4
  <2>2. q[k].id \in Nat /\ q[i].id \in Nat
    BY <2>1, OrderFields
  <2>3. k < i \/ i < k
    BY <1>4, <1>6
  <2>4. q[k].id < q[i].id \/ q[i].id < q[k].id
    BY <1>4, <1>5, <2>3 DEF ByArrival
  <2>. QED
    BY <1>4, <2>2, <2>4
<1>12. ASSUME NEW side \in Side, NEW price \in Prices
       PROVE  /\ \A j \in 1 .. Len(c.queue[side][price]) :
                   /\ Located(c, side, price, c.queue[side][price][j])
                   /\ Live(c.queue[side][price][j], n)
              /\ ByArrival(c.queue[side][price])
  <2>1. CASE side = at.side /\ price = at.price
    <3>1. c.queue[side][price] = r
      BY <1>3, <2>1
    <3>2. ASSUME NEW j \in 1 .. Len(r)
          PROVE  Located(c, side, price, r[j]) /\ Live(r[j], n)
      <4>1. up(j) \in 1 .. Len(q) /\ up(j) # i /\ r[j] = q[up(j)]
        BY <1>6, <1>7
      <4>2. Live(q[up(j)], n) /\ Located(b, at.side, at.price, q[up(j)]) /\ q[up(j)].id # id
        BY <1>5, <1>11, <4>1
      <4>. QED
        BY <1>10, <2>1, <4>1, <4>2
    <3>3. ByArrival(r)
      BY <1>5, <1>6, <1>7, <1>8 DEF ByArrival
    <3>. QED
      BY <3>1, <3>2, <3>3
  <2>2. CASE ~(side = at.side /\ price = at.price)
    <3>. DEFINE p == b.queue[side][price]
    <3>1. c.queue[side][price] = p
      BY <1>3, <2>2
    <3>2. ByArrival(p) /\ \A j \in 1 .. Len(p) : Live(p[j], n) /\ Located(b, side, price, p[j])
      BY <1>1 DEF InOrder, Indexed
    <3>. HIDE DEF p
    <3>3. b.order_index[id] = at
      BY DEF at
    <3>4. ASSUME NEW j \in 1 .. Len(p) PROVE p[j].id # id
      <4>1. Located(b, side, price, p[j])
        BY <3>2
      <4>2. b.order_index[p[j].id].side = side /\ b.order_index[p[j].id].price = price
        BY <4>1 DEF Located
      <4>. QED
        BY <2>2, <3>3, <4>2
    <3>5. \A j \in 1 .. Len(p) : Located(c, side, price, p[j])
      BY <1>10, <3>2, <3>4
    <3>. QED
      BY <3>1, <3>2, <3>5
  <2>. QED
    BY <2>1, <2>2
<1>13. ASSUME NEW x \in DOMAIN c.order_index
       PROVE  RestsAt(c.queue[c.order_index[x].side][c.order_index[x].price], x)
  <2>. DEFINE ax == b.order_index[x]
  <2>1. x \in DOMAIN b.order_index /\ x # id /\ c.order_index[x] = ax
    BY <1>3
  <2>2. ax \in OrderLocation
    BY <1>1, <2>1, MapMember DEF Book
  <2>3. ax.side \in Side /\ ax.price \in Prices
    BY <2>2 DEF OrderLocation
  <2>4. RestsAt(b.queue[ax.side][ax.price], x)
    BY <1>1, <2>1 DEF Indexed
  <2>. HIDE DEF ax
  <2>5. CASE ax.side = at.side /\ ax.price = at.price
    <3>1. PICK k \in 1 .. Len(q) : q[k].id = x
      BY <2>4, <2>5 DEF RestsAt, q
    <3>2. k # i
      BY <1>4, <2>1, <3>1
    <3>3. PICK j \in 1 .. Len(r) : up(j) = k
      BY <1>9, <3>2
    <3>4. RestsAt(r, x)
      BY <1>6, <3>1, <3>3 DEF RestsAt
    <3>. QED
      BY <1>3, <2>1, <2>3, <2>5, <3>4
  <2>6. CASE ~(ax.side = at.side /\ ax.price = at.price)
    BY <1>3, <2>1, <2>3, <2>4, <2>6
  <2>. QED
    BY <2>5, <2>6
<1>14. Indexed(c) /\ InOrder(c, n)
  BY <1>12, <1>13 DEF Indexed, InOrder
<1>15. NotCrossed(c)
  <2>1. \A side \in Side : Levels(c, side) \subseteq Levels(b, side)
    <3>. SUFFICES ASSUME NEW side \in Side, NEW p \in Levels(c, side)
                  PROVE  p \in Levels(b, side)
      OBVIOUS
    <3>1. q # << >>
      BY <1>4, <1>2
    <3>2. p \in Prices /\ c.queue[side][p] # << >>
      BY DEF Levels
    <3>3. b.queue[side][p] # << >>
      BY <1>3, <3>1, <3>2 DEF q
    <3>. QED
      BY <3>2, <3>3 DEF Levels
  <2>. QED
    BY <1>1, <2>1 DEF NotCrossed, Side
<1>. QED
  BY <1>2, <1>3, <1>14, <1>15 DEF WellKept


-----------------------------------------------------------------------------
(* Sums and walks are naturals, whatever they run over.                    *)

(* A sum of integers is an integer, of naturals a natural. *)
LEMMA SumToType ==
  ASSUME NEW e, NEW n \in Nat, NEW V \in {Nat, Int},
         \A i \in DOMAIN e : e[i] \in V
  PROVE  SumTo(e, n) \in V
<1>. DEFINE F == [i \in Nat |-> [s \in Int |-> IF i \in DOMAIN e THEN s + e[i] ELSE s]]
<1>1. V \in SUBSET Int /\ 0 \in V /\ \A x, y \in V : x + y \in V
  OBVIOUS
<1>2. F \in [Nat -> [Int -> Int]]
  BY <1>1
<1>3. ASSUME NEW i \in Nat, NEW s \in V PROVE F[i+1][s] \in V
  <2>1. F[i+1][s] = IF (i+1) \in DOMAIN e THEN s + e[i+1] ELSE s
    BY <1>1
  <2>. QED
    BY <1>1, <2>1
<1>. HIDE DEF F
<1>4. Loop(F, 0)[n] \in V
  BY <1>1, <1>2, <1>3, LoopInvariant
<1>. QED
  BY <1>4 DEF SumTo, F

(* The units resting at a level are a natural. *)
LEMMA LevelTotalType ==
  ASSUME NEW book \in Book, NEW side \in Side, NEW price \in Prices
  PROVE  LevelTotal(book, side, price) \in Nat
<1>. DEFINE q == book.queue[side][price]
            e == [i \in 1 .. Len(q) |-> q[i].remaining_size]
<1>1. q \in Seq(Order)
  BY DEF Book
<1>. HIDE DEF q
<1>2. \A i \in 1 .. Len(q) : q[i].remaining_size \in Nat
  <2>1. \A i \in 1 .. Len(q) : q[i] \in Order
    BY <1>1
  <2>. QED
    BY <2>1, OrderFields
<1>3. Len(q) \in Nat /\ \A i \in DOMAIN e : e[i] \in Nat
  BY <1>1, <1>2
<1>. HIDE DEF e
<1>4. SumTo(e, Len(q)) \in Nat
  BY <1>3, SumToType
<1>. QED
  BY <1>4 DEF LevelTotal, e, q

(* The remainder that an unchecked u64 sum leaves. *)
LEMMA WrapNat ==
  ASSUME NEW n \in Nat, NEW m \in Nat
  PROVE  n % (m + 1) \in Nat /\ (n <= m => n % (m + 1) = n)
<1>1. n % (m + 1) \in Nat
  BY SMT
<1>2. n <= m => n % (m + 1) = n
  BY SMT
<1>. QED
  BY <1>1, <1>2

(* The aggregate quantity of a level is a natural, and where a u64 counts  *)
(* the level's units, it is their number.                                  *)
LEMMA LevelQtyType ==
  ASSUME NEW book \in Book, NEW side \in Side, NEW price \in Prices
  PROVE  /\ LevelQty(book, side, price) \in Nat
         /\ Fits(LevelTotal(book, side, price))
              => LevelQty(book, side, price) = LevelTotal(book, side, price)
<1>1. LevelTotal(book, side, price) \in Nat /\ U64Max \in Nat
  BY LevelTotalType, U64MaxAssumption
<1>2. LevelQty(book, side, price) = LevelTotal(book, side, price) % (U64Max + 1)
  BY DEF LevelQty
<1>3. Fits(LevelTotal(book, side, price)) => LevelTotal(book, side, price) <= U64Max
  BY DEF Fits
<1>. QED
  BY <1>1, <1>2, <1>3, WrapNat

(* What a market buy reserves is a natural. *)
LEMMA MarketBuyCostType ==
  ASSUME NEW book \in Book, NEW size \in Nat
  PROVE  MarketBuyCost(book, size) \in Nat
<1>. DEFINE F == [n \in Nat |-> [w \in WalkState |-> WalkStep(book, w)]]
            start == [cost |-> 0, remaining |-> size, ahead |-> Levels(book, "Ask")]
<1>1. start \in WalkState
  BY DEF WalkState, Levels
<1>2. ASSUME NEW w \in WalkState PROVE WalkStep(book, w) \in WalkState
  <2>1. CASE w.ahead = {}
    BY <2>1 DEF WalkStep
  <2>2. CASE w.ahead # {}
    <3>. DEFINE price == Min(w.ahead)
                qty == LevelQty(book, "Ask", price)
                take == Min({w.remaining, qty})
    <3>1. w.ahead \in SUBSET Prices /\ w.remaining \in Nat /\ w.cost \in Nat
      BY DEF WalkState
    <3>2. \E m \in w.ahead : \A k \in w.ahead : m <= k
      BY <2>2, <3>1, PricesAssumption, LeastNat
    <3>3. price \in w.ahead
      BY <3>2 DEF Min
    <3>4. price \in Prices /\ price \in Nat
      BY <3>1, <3>3, PricesAssumption
    <3>. HIDE DEF price
    <3>5. qty \in Nat
      BY <3>4, LevelQtyType DEF Side
    <3>. HIDE DEF qty
    <3>6. take \in Nat /\ take <= w.remaining
      BY <3>1, <3>5, MinTwo
    <3>7. WalkStep(book, w) = [cost |-> w.cost + price * take,
                               remaining |-> w.remaining - take,
                               ahead |-> w.ahead \ {price}]
      BY <2>2 DEF WalkStep, price, qty
    <3>. HIDE DEF take
    <3>8. price * take \in Nat
      BY <3>4, <3>6
    <3>9. w.cost + price * take \in Nat /\ w.remaining - take \in Nat
      BY <3>1, <3>6, <3>8
    <3>. QED
      BY <3>1, <3>7, <3>9 DEF WalkState
  <2>. QED
    BY <2>1, <2>2
<1>3. F \in [Nat -> [WalkState -> WalkState]]
  BY <1>2
<1>. HIDE DEF F, start
<1>4. Loop(F, start) \in [Nat -> WalkState]
  BY <1>1, <1>3, LoopDef
<1>5. Loop(F, start)[size] \in WalkState
  BY <1>4
<1>. QED
  BY <1>5 DEF MarketBuyCost, F, start, WalkState

-----------------------------------------------------------------------------
(* The ledger's operations keep its type.                                  *)

(* Adding to a balance keeps the ledger's type. *)
LEMMA CreditType ==
  ASSUME NEW l \in LedgerValue, NEW a \in Accounts, NEW c \in Currency,
         NEW x \in Int, NEW y \in Int
  PROVE  Credit(l, a, c, x, y) \in LedgerValue
<1>. DEFINE b == l.balances[a][c]
            v == [available |-> b.available + x, reserved |-> b.reserved + y]
<1>1. l.balances \in [Accounts -> [Currency -> Balance]] /\ l.dirty \in SUBSET (Accounts \X Currency)
  BY DEF LedgerValue
<1>2. b \in Balance
  BY <1>1
<1>3. v \in Balance
  BY <1>2 DEF Balance
<1>. HIDE DEF v
<1>4. [l.balances EXCEPT ![a][c] = v] \in [Accounts -> [Currency -> Balance]]
  BY <1>1, <1>3
<1>5. l.dirty \cup {<<a, c>>} \in SUBSET (Accounts \X Currency)
  BY <1>1
<1>6. Credit(l, a, c, x, y) =
        [balances |-> [l.balances EXCEPT ![a][c] = v], dirty |-> l.dirty \cup {<<a, c>>}]
  BY DEF Credit, v
<1>. QED
  BY <1>4, <1>5, <1>6 DEF LedgerValue

(* Release keeps the ledger's type. *)
LEMMA ReleaseType ==
  ASSUME NEW l \in LedgerValue, NEW a \in Accounts, NEW c \in Currency, NEW n \in Int
  PROVE  Release(l, a, c, n) \in LedgerValue
<1>1. Credit(l, a, c, n, -n) \in LedgerValue
  BY CreditType
<1>. QED
  BY <1>1 DEF Release

(* Settling a trade keeps the ledger's type. *)
LEMMA SettleType ==
  ASSUME NEW l \in LedgerValue, NEW pair \in Pair, NEW t \in Trade
  PROVE  Settle(l, pair, t) \in LedgerValue
<1>. DEFINE cost   == t.price * t.qty
            buyer  == IF t.taker_side = "Bid" THEN t.taker_account ELSE t.maker_account
            seller == IF t.taker_side = "Bid" THEN t.maker_account ELSE t.taker_account
            paid   == Credit(l, buyer, pair.quote, 0, -cost)
            bought == Credit(paid, buyer, pair.base, t.qty, 0)
            earned == Credit(bought, seller, pair.quote, cost, 0)
<1>1. pair.base \in Currency /\ pair.quote \in Currency
  BY DEF Pair
<1>2. /\ t.price \in Nat /\ t.qty \in Nat
      /\ t.taker_account \in Accounts /\ t.maker_account \in Accounts
  BY PricesAssumption DEF Trade
<1>3. buyer \in Accounts /\ seller \in Accounts
  BY <1>2
<1>4. cost \in Int /\ -cost \in Int /\ t.qty \in Int /\ -t.qty \in Int
  BY <1>2
<1>5. Settle(l, pair, t) = Credit(earned, seller, pair.base, 0, -t.qty)
  BY DEF Settle
<1>. HIDE DEF cost, buyer, seller
<1>6. paid \in LedgerValue
  BY <1>1, <1>3, <1>4, CreditType
<1>. HIDE DEF paid
<1>7. bought \in LedgerValue
  BY <1>1, <1>3, <1>4, <1>6, CreditType
<1>. HIDE DEF bought
<1>8. earned \in LedgerValue
  BY <1>1, <1>3, <1>4, <1>7, CreditType
<1>. HIDE DEF earned
<1>9. Credit(earned, seller, pair.base, 0, -t.qty) \in LedgerValue
  BY <1>1, <1>3, <1>4, <1>8, CreditType
<1>. QED
  BY <1>5, <1>9

(* Settling a list of trades keeps the ledger's type. *)
LEMMA SettleAllType ==
  ASSUME NEW l \in LedgerValue, NEW pair \in Pair, NEW trades \in Seq(Trade)
  PROVE  SettleAll(l, pair, trades) \in LedgerValue
<1>. DEFINE step(n, x) == IF n \in DOMAIN trades THEN Settle(x, pair, trades[n]) ELSE x
            F == [n \in Nat |-> [x \in LedgerValue |-> step(n, x)]]
<1>1. ASSUME NEW n \in Nat, NEW x \in LedgerValue PROVE step(n, x) \in LedgerValue
  <2>1. CASE n \in DOMAIN trades
    <3>1. trades[n] \in Trade
      BY <2>1
    <3>. QED
      BY <2>1, <3>1, SettleType
  <2>2. CASE n \notin DOMAIN trades
    BY <2>2
  <2>. QED
    BY <2>1, <2>2
<1>2. F \in [Nat -> [LedgerValue -> LedgerValue]]
  <2>. HIDE DEF step
  <2>. QED
    BY <1>1
<1>. HIDE DEF F
<1>3. Loop(F, l) \in [Nat -> LedgerValue]
  BY <1>2, LoopDef
<1>4. Len(trades) \in Nat
  OBVIOUS
<1>5. Loop(F, l)[Len(trades)] \in LedgerValue
  BY <1>3, <1>4
<1>. QED
  BY <1>5 DEF SettleAll, F

-----------------------------------------------------------------------------
(* The idempotency window.                                                 *)

\* seen and the queue of one account agree.
WindowOK(d) ==
  \A a \in Accounts :
    /\ Len(d.order[a]) <= DedupWindow
    /\ \A i, j \in 1 .. Len(d.order[a]) : d.order[a][i] = d.order[a][j] => i = j
    /\ \A x \in ClientIds :
         <<a, x>> \in d.seen <=> \E i \in 1 .. Len(d.order[a]) : d.order[a][i] = x

(* Inserting a key keeps the window's type. *)
LEMMA DedupInsertType ==
  ASSUME NEW d \in DedupValue, NEW a \in Accounts, NEW x \in ClientIds
  PROVE  DedupInsert(d, a, x) \in DedupValue
<1>. DEFINE recent == Append(d.order[a], x)
            seen == d.seen \cup {<<a, x>>}
<1>1. d.seen \in SUBSET (Accounts \X ClientIds) /\ d.order \in [Accounts -> Seq(ClientIds)]
  BY DEF DedupValue
<1>2. recent \in Seq(ClientIds) /\ recent # << >>
  BY <1>1
<1>3. Tail(recent) \in Seq(ClientIds)
  BY <1>2
<1>4. seen \in SUBSET (Accounts \X ClientIds)
  BY <1>1
<1>. HIDE DEF recent, seen
<1>5. /\ [d.order EXCEPT ![a] = recent] \in [Accounts -> Seq(ClientIds)]
      /\ [d.order EXCEPT ![a] = Tail(recent)] \in [Accounts -> Seq(ClientIds)]
  BY <1>1, <1>2, <1>3
<1>6. DedupInsert(d, a, x) =
        IF Len(recent) > DedupWindow
        THEN [seen |-> seen \ {<<a, Head(recent)>>}, order |-> [d.order EXCEPT ![a] = Tail(recent)]]
        ELSE [seen |-> seen, order |-> [d.order EXCEPT ![a] = recent]]
  BY DEF DedupInsert, recent, seen
<1>7. seen \ {<<a, Head(recent)>>} \in SUBSET (Accounts \X ClientIds)
  BY <1>4
<1>. QED
  BY <1>4, <1>5, <1>6, <1>7 DEF DedupValue

(* Inserting a fresh key keeps the window consistent: the key that falls   *)
(* out of the queue falls out of seen, and no other.                       *)
LEMMA DedupInsertKeeps ==
  ASSUME NEW d \in DedupValue, NEW a \in Accounts, NEW x \in ClientIds,
         Fresh(d, a, x), WindowOK(d), NEW e, e = DedupInsert(d, a, x)
  PROVE  WindowOK(e)
<1>. DEFINE q == d.order[a]
            r == Append(q, x)
            full == Len(r) > DedupWindow
            t == IF full THEN Tail(r) ELSE r
            k == IF full THEN 1 ELSE 0
<1>1. d.order \in [Accounts -> Seq(ClientIds)] /\ q \in Seq(ClientIds)
  BY DEF DedupValue
<1>2. /\ Len(q) \in Nat /\ Len(q) <= DedupWindow /\ DedupWindow \in Nat
      /\ \A i, j \in 1 .. Len(q) : q[i] = q[j] => i = j
      /\ \A y \in ClientIds : <<a, y>> \in d.seen <=> \E i \in 1 .. Len(q) : q[i] = y
  BY <1>1, DedupWindowAssumption DEF WindowOK
<1>3. e = [seen  |-> IF full THEN (d.seen \cup {<<a, x>>}) \ {<<a, Head(r)>>}
                     ELSE d.seen \cup {<<a, x>>},
           order |-> [d.order EXCEPT ![a] = t]]
  BY DEF DedupInsert
<1>4. /\ e.seen = IF full THEN (d.seen \cup {<<a, x>>}) \ {<<a, Head(r)>>}
                  ELSE d.seen \cup {<<a, x>>}
      /\ e.order = [d.order EXCEPT ![a] = t]
  BY <1>3
<1>. HIDE DEF q
<1>5. /\ r \in Seq(ClientIds) /\ Len(r) = Len(q) + 1 /\ Head(r) = r[1]
      /\ \A i \in 1 .. Len(q) : r[i] = q[i]
      /\ r[Len(q) + 1] = x
  BY <1>1
<1>. HIDE DEF r
<1>6. /\ t \in Seq(ClientIds) /\ Len(t) = Len(r) - k
      /\ \A i \in 1 .. Len(t) : t[i] = r[i + k]
  BY <1>2, <1>5
<1>7. \A i \in 1 .. Len(q) : q[i] # x
  BY <1>2 DEF Fresh
<1>8. \A i, j \in 1 .. Len(r) : r[i] = r[j] => i = j
  <2>. SUFFICES ASSUME NEW i \in 1 .. Len(r), NEW j \in 1 .. Len(r), r[i] = r[j]
                PROVE  i = j
    OBVIOUS
  <2>1. i \in 1 .. Len(q) \/ i = Len(q) + 1
    BY <1>2, <1>5
  <2>2. j \in 1 .. Len(q) \/ j = Len(q) + 1
    BY <1>2, <1>5
  <2>. QED
    BY <1>2, <1>5, <1>7, <2>1, <2>2
<1>9. Len(t) <= DedupWindow
  BY <1>2, <1>5, <1>6
<1>10. k \in {0, 1} /\ Len(t) \in Nat /\ Len(r) \in Nat /\ (k = 1 <=> full)
  BY <1>5, <1>6
<1>. HIDE DEF t, k
<1>11. \A i, j \in 1 .. Len(t) : t[i] = t[j] => i = j
  <2>. SUFFICES ASSUME NEW i \in 1 .. Len(t), NEW j \in 1 .. Len(t), t[i] = t[j]
                PROVE  i = j
    OBVIOUS
  <2>1. i + k \in 1 .. Len(r) /\ j + k \in 1 .. Len(r)
    BY <1>6, <1>10
  <2>2. r[i + k] = r[j + k]
    BY <1>6
  <2>3. i + k = j + k
    BY <1>8, <2>1, <2>2
  <2>. QED
    BY <1>10, <2>3
<1>12. ASSUME NEW y \in ClientIds
       PROVE  <<a, y>> \in e.seen <=> \E i \in 1 .. Len(t) : t[i] = y
  <2>1. <<a, y>> \in d.seen \cup {<<a, x>>} <=> \E i \in 1 .. Len(r) : r[i] = y
    <3>1. \A i \in 1 .. Len(r) : i \in 1 .. Len(q) \/ i = Len(q) + 1
      BY <1>2, <1>5
    <3>2. 1 .. Len(q) \subseteq 1 .. Len(r) /\ Len(q) + 1 \in 1 .. Len(r)
      BY <1>2, <1>5
    <3>3. <<a, y>> \in d.seen \cup {<<a, x>>} <=> (<<a, y>> \in d.seen \/ y = x)
      OBVIOUS
    <3>. QED
      BY <1>2, <1>5, <3>1, <3>2, <3>3
  <2>2. CASE ~full
    <3>1. e.seen = d.seen \cup {<<a, x>>} /\ k = 0
      BY <1>4, <1>10, <2>2
    <3>2. Len(t) = Len(r) /\ \A i \in 1 .. Len(t) : t[i] = r[i]
      BY <1>6, <1>10, <3>1
    <3>. QED
      BY <2>1, <3>1, <3>2
  <2>3. CASE full
    <3>1. e.seen = (d.seen \cup {<<a, x>>}) \ {<<a, r[1]>>} /\ k = 1
      BY <1>4, <1>5, <1>10, <2>3
    <3>2. Len(t) = Len(r) - 1 /\ \A i \in 1 .. Len(t) : t[i] = r[i+1]
      BY <1>6, <1>10, <3>1
    <3>3. <<a, y>> \in e.seen <=> (\E i \in 1 .. Len(r) : r[i] = y) /\ y # r[1]
      BY <2>1, <3>1
    <3>4. ASSUME NEW i \in 1 .. Len(t), t[i] = y
          PROVE  (\E j \in 1 .. Len(r) : r[j] = y) /\ y # r[1]
      <4>1. i + 1 \in 1 .. Len(r) /\ 1 \in 1 .. Len(r) /\ i + 1 # 1 /\ r[i+1] = y
        BY <1>10, <3>2, <3>4
      <4>. QED
        BY <1>8, <4>1
    <3>5. ASSUME NEW j \in 1 .. Len(r), r[j] = y, y # r[1]
          PROVE  \E i \in 1 .. Len(t) : t[i] = y
      <4>1. j # 1
        BY <3>5
      <4>2. j - 1 \in 1 .. Len(t) /\ (j - 1) + 1 = j
        BY <1>10, <3>2, <4>1
      <4>3. t[j-1] = y
        BY <3>2, <3>5, <4>2
      <4>. QED
        BY <4>2, <4>3
    <3>. QED
      BY <3>3, <3>4, <3>5
  <2>. QED
    BY <2>2, <2>3
<1>13. e.order[a] = t
  BY <1>1, <1>4
<1>14. ASSUME NEW b \in Accounts, b # a
       PROVE  /\ e.order[b] = d.order[b]
              /\ \A y : <<b, y>> \in e.seen <=> <<b, y>> \in d.seen
  BY <1>1, <1>4, <1>14
<1>15. ASSUME NEW b \in Accounts
       PROVE  /\ Len(e.order[b]) <= DedupWindow
              /\ \A i, j \in 1 .. Len(e.order[b]) : e.order[b][i] = e.order[b][j] => i = j
              /\ \A y \in ClientIds :
                   <<b, y>> \in e.seen <=> \E i \in 1 .. Len(e.order[b]) : e.order[b][i] = y
  <2>1. CASE b = a
    BY <1>9, <1>11, <1>12, <1>13, <2>1
  <2>2. CASE b # a
    BY <1>14, <2>2 DEF WindowOK
  <2>. QED
    BY <2>1, <2>2
<1>. QED
  BY <1>15 DEF WindowOK

-----------------------------------------------------------------------------
(* The inductive invariant: types, well-kept books, a routing table that   *)
(* names exactly the orders they hold, and a consistent window.            *)

EngineInv ==
  /\ TypeOK
  /\ \A pair \in Markets : WellKept(books[pair], next_order_id)
  /\ IndexExact
  /\ DedupConsistent

(* It implies the invariants it is made of. *)
LEMMA EngineInvImplies ==
  EngineInv => IndexExact /\ QueuesInOrder /\ Uncrossed /\ DedupConsistent /\ TypeOK
  BY DEF EngineInv, WellKept, QueuesInOrder, Uncrossed

(* The empty map. *)
LEMMA EmptyMap ==
  ASSUME NEW K, NEW V
  PROVE  [x \in {} |-> x] \in Map(K, V) /\ DOMAIN [x \in {} |-> x] = {}
<1>1. [x \in {} |-> x] \in [{} -> V]
  OBVIOUS
<1>2. {} \in SUBSET K
  OBVIOUS
<1>. QED
  BY <1>1, <1>2 DEF Map

(* The empty book is well kept. *)
LEMMA EmptyWellKept == EmptyBook \in Book /\ WellKept(EmptyBook, 0)
<1>1. /\ EmptyBook.queue = [side \in Side |-> [price \in Prices |-> << >>]]
      /\ EmptyBook.order_index = [id \in {} |-> id]
      /\ DOMAIN EmptyBook.order_index = {}
  BY DEF EmptyBook
<1>2. EmptyBook.order_index \in Map(OrderId, OrderLocation)
  BY <1>1, EmptyMap
<1>3. << >> \in Seq(Order)
  OBVIOUS
<1>4. EmptyBook.queue \in [Side -> [Prices -> Seq(Order)]]
  BY <1>1, <1>3
<1>5. EmptyBook \in Book
  BY <1>2, <1>4 DEF EmptyBook, Book
<1>6. \A side \in Side, price \in Prices : EmptyBook.queue[side][price] = << >>
  BY <1>1
<1>7. Indexed(EmptyBook) /\ InOrder(EmptyBook, 0)
  BY <1>1, <1>6 DEF Indexed, InOrder, ByArrival
<1>8. NotCrossed(EmptyBook)
  BY <1>6 DEF NotCrossed, Levels, Side
<1>. QED
  BY <1>5, <1>7, <1>8 DEF WellKept

(* It holds of a new engine. *)
LEMMA InitInv == Init => EngineInv
<1>. SUFFICES ASSUME Init PROVE EngineInv
  OBVIOUS
<1>1. /\ books = [pair \in Markets |-> EmptyBook] /\ order_pair = [id \in {} |-> id]
      /\ next_order_id = 0 /\ next_seq = 0 /\ dedup = NewDedup /\ listed_pairs = {}
      /\ balances = [a \in Accounts |-> [c \in Currency |-> [available |-> 0, reserved |-> 0]]]
  BY DEF Init
<1>2. DOMAIN order_pair = {} /\ order_pair \in Map(OrderId, Markets)
  BY <1>1, EmptyMap
<1>3. dedup \in DedupValue
  BY <1>1 DEF NewDedup, DedupValue
<1>4. DedupConsistent
  <2>1. dedup.seen = {} /\ \A a \in Accounts : dedup.order[a] = << >>
    BY <1>1 DEF NewDedup
  <2>. QED
    BY <2>1, DedupWindowAssumption DEF DedupConsistent
<1>5. balances \in [Accounts -> [Currency -> Balance]]
  BY <1>1 DEF Balance
<1>6. \A pair \in Markets : books[pair] = EmptyBook
  BY <1>1
<1>7. books \in [Markets -> Book]
  BY <1>1, EmptyWellKept
<1>8. TypeOK
  BY <1>1, <1>2, <1>3, <1>5, <1>7, MaxOrdersAssumption DEF TypeOK
<1>9. DOMAIN EmptyBook.order_index = {} /\ Indexed(EmptyBook)
  BY EmptyWellKept DEF EmptyBook, WellKept
<1>10. IndexExact
  BY <1>2, <1>6, <1>9 DEF IndexExact
<1>. QED
  BY <1>1, <1>4, <1>6, <1>8, <1>10, EmptyWellKept DEF EngineInv

(* Commit keeps the types of what it changes. *)
LEMMA CommitType ==
  ASSUME TypeOK, NEW events, NEW l \in LedgerValue, Commit(events, l)
  PROVE  balances' \in [Accounts -> [Currency -> Balance]] /\ next_seq' \in Nat
<1>1. balances' = l.balances /\ (next_seq' = next_seq \/ next_seq' = next_seq + 1)
  BY DEF Commit
<1>2. l.balances \in [Accounts -> [Currency -> Balance]]
  BY DEF LedgerValue
<1>3. next_seq \in Nat
  BY DEF TypeOK
<1>. QED
  BY <1>1, <1>2, <1>3

(* Admitting a command keeps the window. *)
LEMMA AdmitKeeps ==
  ASSUME TypeOK, DedupConsistent, NEW a \in Accounts, NEW x \in ClientIds, Admit(a, x)
  PROVE  dedup' \in DedupValue /\ DedupConsistent'
<1>1. dedup \in DedupValue /\ WindowOK(dedup) /\ Fresh(dedup, a, x)
  BY DEF TypeOK, DedupConsistent, WindowOK, Admit
<1>2. dedup' = DedupInsert(dedup, a, x)
  BY DEF Admit
<1>3. dedup' \in DedupValue
  BY <1>1, <1>2, DedupInsertType
<1>4. WindowOK(dedup')
  BY <1>1, <1>2, DedupInsertKeeps
<1>. QED
  BY <1>3, <1>4 DEF WindowOK, DedupConsistent

(* The ledger a command starts from. *)
LEMMA Ledger0Type == TypeOK => Ledger0 \in LedgerValue
  BY DEF TypeOK, Ledger0, LedgerValue

(* A step that leaves the books and the routing alone keeps the invariant. *)
LEMMA BooksUntouched ==
  ASSUME EngineInv, UNCHANGED <<books, order_pair, next_order_id>>,
         balances' \in [Accounts -> [Currency -> Balance]], next_seq' \in Nat,
         dedup' \in DedupValue, DedupConsistent', listed_pairs' \subseteq Markets
  PROVE  EngineInv'
<1>1. TypeOK'
  BY DEF EngineInv, TypeOK
<1>2. IndexExact'
  BY DEF EngineInv, IndexExact
<1>. QED
  BY <1>1, <1>2 DEF EngineInv

(* ... as every admitted command does that commits a ledger and no order.  *)
LEMMA AdmittedOnly ==
  ASSUME EngineInv, NEW a \in Accounts, NEW x \in ClientIds, Admit(a, x),
         NEW events, NEW l \in LedgerValue, Commit(events, l),
         UNCHANGED <<books, order_pair, next_order_id>>, listed_pairs' \subseteq Markets
  PROVE  EngineInv'
<1>1. TypeOK /\ DedupConsistent
  BY DEF EngineInv
<1>2. balances' \in [Accounts -> [Currency -> Balance]] /\ next_seq' \in Nat
  BY <1>1, CommitType
<1>3. dedup' \in DedupValue /\ DedupConsistent'
  BY <1>1, AdmitKeeps
<1>. QED
  BY <1>2, <1>3, BooksUntouched

-----------------------------------------------------------------------------
(* Placing an order.                                                       *)

(* A well-kept book stays well kept for later order ids. *)
LEMMA LaterId ==
  ASSUME NEW b, NEW n \in Nat, WellKept(b, n)
  PROVE  WellKept(b, n + 1)
<1>1. b \in Book /\ InOrder(b, n)
  BY DEF WellKept
<1>2. ASSUME NEW side \in Side, NEW price \in Prices
      PROVE  /\ \A i \in 1 .. Len(b.queue[side][price]) : Live(b.queue[side][price][i], n + 1)
             /\ ByArrival(b.queue[side][price])
  <2>. DEFINE q == b.queue[side][price]
  <2>1. q \in Seq(Order)
    BY <1>1 DEF Book
  <2>2. ByArrival(q) /\ \A i \in 1 .. Len(q) : Live(q[i], n)
    BY <1>1 DEF InOrder
  <2>. HIDE DEF q
  <2>3. ASSUME NEW i \in 1 .. Len(q) PROVE Live(q[i], n + 1)
    <3>1. q[i] \in Order /\ Live(q[i], n)
      BY <2>1, <2>2
    <3>2. q[i].id \in Nat
      BY <3>1, OrderFields
    <3>. QED
      BY <3>1, <3>2 DEF Live
  <2>. QED
    BY <2>2, <2>3 DEF q
<1>. QED
  BY <1>2 DEF WellKept, InOrder

(* What place_order refunds is an integer. *)
LEMMA SurplusType ==
  ASSUME NEW req \in OrderRequest, NEW trades \in Seq(Trade)
  PROVE  Surplus(req, trades) \in Int
<1>. DEFINE e == [i \in 1 .. Len(trades) |-> (req.price - trades[i].price) * trades[i].qty]
<1>1. Len(trades) \in Nat /\ req.price \in Nat
  <2>1. Len(trades) \in Nat
    OBVIOUS
  <2>2. req.price \in Nat
    BY PricesAssumption DEF OrderRequest
  <2>. QED
    BY <2>1, <2>2
<1>2. ASSUME NEW i \in DOMAIN e PROVE e[i] \in Int
  <2>1. trades[i] \in Trade
    OBVIOUS
  <2>2. trades[i].price \in Nat /\ trades[i].qty \in Nat
    BY <2>1, PricesAssumption DEF Trade
  <2>3. (req.price - trades[i].price) * trades[i].qty \in Int
    BY <1>1, <2>2
  <2>. QED
    BY <2>3
<1>. HIDE DEF e
<1>3. SumTo(e, Len(trades)) \in Int
  BY <1>1, <1>2, SumToType
<1>. QED
  BY <1>3 DEF Surplus, e

(* The ledger a placed order leaves has the ledger's type. *)
LEMMA PlaceLedgerType ==
  ASSUME NEW l \in LedgerValue, NEW book \in Book, NEW a \in Accounts,
         NEW req \in OrderRequest, NEW trades \in Seq(Trade), NEW left \in Nat,
         NEW reserved, NEW settled, NEW unsold, NEW surplus, NEW refunded,
         reserved = Reserve(l, a, ReserveOf(book, req).currency, ReserveOf(book, req).amount),
         settled = SettleAll(reserved, req.pair, trades),
         unsold = ReleaseUnsold(settled, a, req, left),
         surplus = Surplus(req, trades),
         refunded = IF surplus > 0 THEN Release(unsold, a, req.pair.quote, surplus) ELSE unsold
  PROVE  refunded \in LedgerValue
<1>. DEFINE hold == ReserveOf(book, req)
<1>1. /\ req.pair \in Pair /\ req.pair.base \in Currency /\ req.pair.quote \in Currency
      /\ req.price \in Nat /\ req.size \in Nat
  BY PairsAssumption, PricesAssumption, SizesAssumption DEF OrderRequest, Pair
<1>2. QuoteAmount(book, req) \in Int
  <2>1. MarketBuyCost(book, req.size) \in Nat
    BY <1>1, MarketBuyCostType
  <2>2. req.price * req.size \in Int
    BY <1>1
  <2>. QED
    BY <2>1, <2>2 DEF QuoteAmount
<1>3. hold.currency \in Currency /\ hold.amount \in Int
  BY <1>1, <1>2 DEF ReserveOf
<1>. HIDE DEF hold
<1>4. -hold.amount \in Int
  BY <1>3
<1>5. reserved \in LedgerValue
  <2>1. reserved = Credit(l, a, hold.currency, -hold.amount, hold.amount)
    BY DEF Reserve, hold
  <2>. QED
    BY <1>3, <1>4, <2>1, CreditType
<1>6. settled \in LedgerValue
  BY <1>1, <1>5, SettleAllType
<1>7. unsold \in LedgerValue
  <2>1. Release(settled, a, req.pair.base, left) \in LedgerValue
    BY <1>1, <1>6, ReleaseType
  <2>. QED
    BY <1>6, <2>1 DEF ReleaseUnsold
<1>8. surplus \in Int
  BY SurplusType
<1>9. Release(unsold, a, req.pair.quote, surplus) \in LedgerValue
  BY <1>1, <1>7, <1>8, ReleaseType
<1>. QED
  BY <1>7, <1>9

(* place_order keeps the invariant: the book by AddKeeps; the routing table*)
(* loses exactly the makers that left the book and gains the taker if it   *)
(* rests.                                                                  *)
LEMMA PlaceAcceptedKeeps ==
  ASSUME EngineInv, NEW a \in Accounts, NEW x \in ClientIds, NEW req \in OrderRequest,
         next_order_id < MaxOrders, PlaceAccepted(a, x, req)
  PROVE  EngineInv'
<1>. DEFINE n == next_order_id
            pair == req.pair
            b == books[pair]
            m == AddOrder(b, n, a, req)
            c == m.book
            gone == FilledMakers(c, m.trades)
            routed == Without(order_pair, gone)
<1>1. TypeOK /\ IndexExact /\ DedupConsistent /\ \A p \in Markets : WellKept(books[p], n)
  BY DEF EngineInv
<1>2. n \in Nat /\ n \in OrderId /\ n + 1 \in 0 .. MaxOrders
  BY <1>1, MaxOrdersAssumption DEF TypeOK, OrderId
<1>3. pair \in Markets
  <2>1. pair \in Pair
    BY PairsAssumption DEF OrderRequest
  <2>2. IsValid(pair)
    BY DEF PlaceAccepted, PlaceCheck
  <2>. QED
    BY <2>1, <2>2 DEF Markets
<1>4. books' = [books EXCEPT ![pair] = c]
  BY DEF PlaceAccepted, PlaceMatched
<1>5. next_order_id' = n + 1
  BY DEF PlaceAccepted, PlaceMatched
<1>6. order_pair' = IF n \in DOMAIN c.order_index THEN With(routed, n, pair) ELSE routed
  BY DEF PlaceAccepted, PlaceMatched
<1>7. listed_pairs' = listed_pairs /\ Admit(a, x)
  BY DEF PlaceAccepted, PlaceMatched
<1>8. Added(b, n, m)
  BY <1>1, <1>2, <1>3, AddKeeps
<1>9. dedup' \in DedupValue /\ DedupConsistent'
  BY <1>1, <1>7, AdmitKeeps
<1>10. balances' \in [Accounts -> [Currency -> Balance]] /\ next_seq' \in Nat
  <2>. DEFINE hold     == ReserveOf(b, req)
              reserved == Reserve(Ledger0, a, hold.currency, hold.amount)
              settled  == SettleAll(reserved, pair, m.trades)
              unsold   == ReleaseUnsold(settled, a, req, m.taker_remaining)
              surplus  == Surplus(req, m.trades)
              refunded == IF surplus > 0 THEN Release(unsold, a, pair.quote, surplus)
                          ELSE unsold
  <2>1. \E events : Commit(events, refunded)
    BY DEF PlaceAccepted, PlaceMatched
  <2>2. m.trades \in Seq(Trade) /\ m.taker_remaining \in Nat
    BY <1>8 DEF Added
  <2>3. Ledger0 \in LedgerValue /\ b \in Book
    BY <1>1, <1>3, Ledger0Type DEF TypeOK
  <2>. HIDE DEF m, b
  <2>4. refunded \in LedgerValue
    BY <2>2, <2>3, PlaceLedgerType
  <2>. HIDE DEF refunded
  <2>. QED
    BY <1>1, <2>1, <2>4, CommitType
<1>11. /\ WellKept(c, n + 1)
       /\ MakerIds(m.trades) \subseteq DOMAIN b.order_index
       /\ DOMAIN b.order_index \subseteq DOMAIN c.order_index \cup MakerIds(m.trades)
       /\ DOMAIN c.order_index \subseteq DOMAIN b.order_index \cup {n}
  BY <1>8 DEF Added
<1>12. gone = MakerIds(m.trades) \ DOMAIN c.order_index
  BY DEF FilledMakers
<1>13. b \in Book /\ WellKept(b, n)
  BY <1>1, <1>3 DEF TypeOK
<1>14. books \in [Markets -> Book] /\ order_pair \in Map(OrderId, Markets)
       /\ listed_pairs \subseteq Markets
  BY <1>1 DEF TypeOK
<1>15. \A p \in Markets : books'[p] = IF p = pair THEN c ELSE books[p]
  BY <1>3, <1>4, <1>14
<1>16. b = books[pair]
  OBVIOUS
<1>. HIDE DEF m, c, b, gone
<1>17. /\ DOMAIN routed = DOMAIN order_pair \ gone
       /\ \A id \in DOMAIN order_pair \ gone : routed[id] = order_pair[id]
  BY DEF Without, Restrict
<1>18. routed \in Map(OrderId, Markets)
  BY <1>14, WithoutMember
<1>. HIDE DEF routed
<1>19. order_pair' \in Map(OrderId, Markets)
  <2>1. With(routed, n, pair) \in Map(OrderId, Markets)
    BY <1>2, <1>3, <1>18, WithMember
  <2>. QED
    BY <1>6, <1>18, <2>1
<1>20. /\ \A id \in DOMAIN order_pair' :
            \/ id = n /\ n \in DOMAIN c.order_index /\ order_pair'[id] = pair
            \/ id \in DOMAIN order_pair \ gone /\ order_pair'[id] = order_pair[id]
       /\ \A id \in DOMAIN order_pair \ gone :
            id # n => id \in DOMAIN order_pair' /\ order_pair'[id] = order_pair[id]
       /\ n \in DOMAIN c.order_index => n \in DOMAIN order_pair' /\ order_pair'[n] = pair
  <2>1. CASE n \in DOMAIN c.order_index
    <3>. DEFINE w == With(routed, n, pair)
    <3>1. /\ DOMAIN w = DOMAIN routed \cup {n}
          /\ \A id \in DOMAIN routed \cup {n} : w[id] = IF id = n THEN pair ELSE routed[id]
      BY DEF With
    <3>2. order_pair' = w
      BY <1>6, <2>1
    <3>. HIDE DEF w
    <3>. QED
      BY <1>17, <2>1, <3>1, <3>2
  <2>2. CASE n \notin DOMAIN c.order_index
    BY <1>6, <1>17, <2>2
  <2>. QED
    BY <2>1, <2>2
<1>21. ASSUME NEW p \in Markets PROVE WellKept(books'[p], n + 1)
  BY <1>1, <1>2, <1>11, <1>15, LaterId
<1>22. /\ \A p \in Markets : \A id \in DOMAIN books[p].order_index :
            id \in DOMAIN order_pair /\ order_pair[id] = p
       /\ \A id \in DOMAIN order_pair : id \in DOMAIN books[order_pair[id]].order_index
  BY <1>1 DEF IndexExact
<1>23. ASSUME NEW p \in Markets, NEW id \in DOMAIN books'[p].order_index
       PROVE  id \in DOMAIN order_pair' /\ order_pair'[id] = p
  <2>1. CASE p = pair
    <3>1. id \in DOMAIN c.order_index
      BY <1>15, <2>1
    <3>2. CASE id = n
      BY <1>20, <2>1, <3>1, <3>2
    <3>3. CASE id # n
      <4>1. id \in DOMAIN b.order_index /\ id \notin gone
        BY <1>11, <1>12, <3>1, <3>3
      <4>2. id \in DOMAIN order_pair /\ order_pair[id] = pair
        BY <1>3, <1>16, <1>22, <4>1
      <4>. QED
        BY <1>20, <2>1, <3>3, <4>1, <4>2
    <3>. QED
      BY <3>2, <3>3
  <2>2. CASE p # pair
    <3>1. id \in DOMAIN books[p].order_index
      BY <1>15, <2>2
    <3>2. id \in DOMAIN order_pair /\ order_pair[id] = p
      BY <1>22, <3>1
    <3>3. id \notin DOMAIN b.order_index
      BY <1>3, <1>16, <1>22, <2>2, <3>2
    <3>4. id \notin gone
      BY <1>11, <1>12, <3>3
    <3>5. id < n
      <4>1. books[p] \in Book /\ Indexed(books[p]) /\ InOrder(books[p], n)
        BY <1>1 DEF WellKept
      <4>. QED
        BY <1>2, <3>1, <4>1, IdsBelow
    <3>6. id # n
      BY <1>2, <3>5
    <3>. QED
      BY <1>20, <3>2, <3>4, <3>6
  <2>. QED
    BY <2>1, <2>2
<1>24. ASSUME NEW id \in DOMAIN order_pair'
       PROVE  id \in DOMAIN books'[order_pair'[id]].order_index
  <2>1. CASE id = n /\ n \in DOMAIN c.order_index /\ order_pair'[id] = pair
    BY <1>3, <1>15, <2>1
  <2>2. CASE id \in DOMAIN order_pair \ gone /\ order_pair'[id] = order_pair[id]
    <3>. DEFINE p == order_pair[id]
    <3>1. p \in Markets /\ id \in DOMAIN books[p].order_index
      BY <1>14, <1>22, <2>2, MapMember
    <3>2. CASE p = pair
      <4>1. id \in DOMAIN c.order_index
        BY <1>11, <1>12, <1>16, <2>2, <3>1, <3>2
      <4>. QED
        BY <1>15, <2>2, <3>1, <3>2, <4>1
    <3>3. CASE p # pair
      BY <1>15, <2>2, <3>1, <3>3
    <3>. QED
      BY <3>2, <3>3
  <2>. QED
    BY <1>20, <2>1, <2>2
<1>25. IndexExact'
  <2>1. \A p \in Markets : Indexed(books'[p])
    BY <1>21 DEF WellKept
  <2>. QED
    BY <1>23, <1>24, <2>1 DEF IndexExact
<1>26. books' \in [Markets -> Book]
  <2>1. c \in Book
    BY <1>11 DEF WellKept
  <2>. QED
    BY <1>4, <1>14, <2>1
<1>27. TypeOK'
  BY <1>2, <1>5, <1>7, <1>9, <1>10, <1>14, <1>19, <1>26 DEF TypeOK
<1>. QED
  BY <1>5, <1>9, <1>21, <1>25, <1>27 DEF EngineInv

-----------------------------------------------------------------------------
(* Cancelling an order.                                                    *)

(* cancel_order keeps the invariant: the order leaves its book, the book's *)
(* index and the routing table together.                                   *)
LEMMA CancelAcceptedKeeps ==
  ASSUME EngineInv, NEW a \in Accounts, NEW x \in ClientIds, NEW id \in OrderId,
         CancelAccepted(a, x, id)
  PROVE  EngineInv'
<1>. DEFINE n == next_order_id
            pair == order_pair[id]
            b == books[pair]
            c == CancelOrder(b, id).book
            o == CancelOrder(b, id).removed
            hold == Commitment(pair, o)
<1>1. TypeOK /\ IndexExact /\ DedupConsistent /\ \A p \in Markets : WellKept(books[p], n)
  BY DEF EngineInv
<1>2. n \in Nat /\ n \in 0 .. MaxOrders
  BY <1>1, MaxOrdersAssumption DEF TypeOK
<1>3. id \in DOMAIN order_pair /\ CanCancel(b, a, id)
  BY DEF CancelAccepted, Cancellable
<1>4. books \in [Markets -> Book] /\ order_pair \in Map(OrderId, Markets)
      /\ listed_pairs \subseteq Markets
  BY <1>1 DEF TypeOK
<1>5. pair \in Markets
  BY <1>3, <1>4, MapMember
<1>6. /\ books' = [books EXCEPT ![pair] = c]
      /\ order_pair' = Without(order_pair, {id})
      /\ next_order_id' = n /\ listed_pairs' = listed_pairs /\ Admit(a, x)
  BY DEF CancelAccepted
<1>7. \E events : Commit(events, Release(Ledger0, o.account_id, hold.currency, hold.amount))
  BY DEF CancelAccepted
<1>8. b \in Book /\ WellKept(b, n) /\ b = books[pair]
  BY <1>1, <1>4, <1>5
<1>9. o \in Order
  <2>. DEFINE at == b.order_index[id]  q == b.queue[at.side][at.price]
  <2>1. /\ id \in DOMAIN b.order_index
        /\ at \in OrderLocation /\ at.side \in Side /\ at.price \in Prices
        /\ q \in Seq(Order)
        /\ Position(q, id) \in 1 .. Len(q) /\ q[Position(q, id)].id = id
        /\ CancelOrder(b, id).removed = q[Position(q, id)]
        /\ c \in Book
        /\ CancelledBook(b, c, id, Position(q, id))
    <3>1. Cancelled(b, c, id, at, q)
      BY <1>3, <1>8, CancelEffect
    <3>. QED
      BY <3>1 DEF Cancelled
  <2>. HIDE DEF q, b
  <2>. QED
    BY <2>1
<1>10. WellKept(c, n) /\ DOMAIN c.order_index = DOMAIN b.order_index \ {id}
  BY <1>2, <1>3, <1>8, CancelKeeps
<1>. HIDE DEF b, c, o
<1>11. balances' \in [Accounts -> [Currency -> Balance]] /\ next_seq' \in Nat
  <2>1. pair.base \in Currency /\ pair.quote \in Currency
    BY <1>5 DEF Markets, Pair
  <2>2. o.account_id \in Accounts /\ o.remaining_size \in Nat /\ o.price \in Nat
    BY <1>9, OrderFields, PricesAssumption
  <2>3. o.remaining_size * o.price \in Int
    BY <2>2
  <2>4. hold.currency \in Currency /\ hold.amount \in Int
    BY <2>1, <2>2, <2>3 DEF Commitment
  <2>. HIDE DEF hold
  <2>5. Ledger0 \in LedgerValue
    BY <1>1, Ledger0Type
  <2>. DEFINE l == Release(Ledger0, o.account_id, hold.currency, hold.amount)
  <2>6. l \in LedgerValue
    BY <2>2, <2>4, <2>5, ReleaseType
  <2>. HIDE DEF l
  <2>7. \E events : Commit(events, l)
    BY <1>7 DEF l, hold
  <2>. QED
    BY <1>1, <2>6, <2>7, CommitType
<1>12. dedup' \in DedupValue /\ DedupConsistent'
  BY <1>1, <1>6, AdmitKeeps
<1>13. \A p \in Markets : books'[p] = IF p = pair THEN c ELSE books[p]
  BY <1>4, <1>5, <1>6
<1>14. /\ DOMAIN order_pair' = DOMAIN order_pair \ {id}
       /\ \A y \in DOMAIN order_pair \ {id} : order_pair'[y] = order_pair[y]
  <2>. DEFINE w == Without(order_pair, {id})
  <2>1. /\ DOMAIN w = DOMAIN order_pair \ {id}
        /\ \A y \in DOMAIN order_pair \ {id} : w[y] = order_pair[y]
    BY DEF Without, Restrict
  <2>2. order_pair' = w
    BY <1>6
  <2>. HIDE DEF w
  <2>. QED
    BY <2>1, <2>2
<1>15. order_pair' \in Map(OrderId, Markets)
  BY <1>4, <1>6, WithoutMember
<1>16. \A p \in Markets : WellKept(books'[p], n)
  BY <1>1, <1>10, <1>13
<1>17. /\ \A p \in Markets : \A y \in DOMAIN books[p].order_index :
            y \in DOMAIN order_pair /\ order_pair[y] = p
       /\ \A y \in DOMAIN order_pair : y \in DOMAIN books[order_pair[y]].order_index
  BY <1>1 DEF IndexExact
<1>18. pair = order_pair[id]
  OBVIOUS
<1>. HIDE DEF pair
<1>19. ASSUME NEW p \in Markets, NEW y \in DOMAIN books'[p].order_index
       PROVE  y \in DOMAIN order_pair' /\ order_pair'[y] = p
  <2>1. y \in DOMAIN books[p].order_index /\ y # id
    <3>1. CASE p = pair
      BY <1>8, <1>10, <1>13, <3>1
    <3>2. CASE p # pair
      BY <1>13, <1>17, <1>18, <3>2
    <3>. QED
      BY <3>1, <3>2
  <2>. QED
    BY <1>14, <1>17, <2>1
<1>20. ASSUME NEW y \in DOMAIN order_pair'
       PROVE  y \in DOMAIN books'[order_pair'[y]].order_index
  <2>. DEFINE p == order_pair[y]
  <2>1. y \in DOMAIN order_pair /\ y # id /\ order_pair'[y] = p
    BY <1>14
  <2>2. p \in Markets /\ y \in DOMAIN books[p].order_index
    BY <1>4, <1>17, <2>1, MapMember
  <2>. HIDE DEF p
  <2>3. CASE p = pair
    BY <1>8, <1>10, <1>13, <2>1, <2>2, <2>3
  <2>4. CASE p # pair
    BY <1>13, <2>1, <2>2, <2>4
  <2>. QED
    BY <2>3, <2>4
<1>21. IndexExact'
  <2>1. \A p \in Markets : Indexed(books'[p])
    BY <1>16 DEF WellKept
  <2>. QED
    BY <1>19, <1>20, <2>1 DEF IndexExact
<1>22. books' \in [Markets -> Book]
  <2>1. c \in Book
    BY <1>10 DEF WellKept
  <2>. QED
    BY <1>4, <1>6, <2>1
<1>23. TypeOK'
  BY <1>2, <1>4, <1>6, <1>11, <1>12, <1>15, <1>22 DEF TypeOK
<1>. QED
  BY <1>6, <1>12, <1>16, <1>21, <1>23 DEF EngineInv

-----------------------------------------------------------------------------
(* Every command.                                                          *)

(* No command breaks the invariant. *)
LEMMA NextInv == EngineInv /\ [Next]_vars => EngineInv'
<1>. SUFFICES ASSUME EngineInv, [Next]_vars PROVE EngineInv'
  OBVIOUS
<1>1. TypeOK /\ Ledger0 \in LedgerValue /\ listed_pairs \subseteq Markets
  BY Ledger0Type DEF EngineInv, TypeOK
<1>2. CASE UNCHANGED vars
  <2>1. UNCHANGED <<books, order_pair, next_order_id, next_seq, balances, dedup, listed_pairs>>
    BY <1>2 DEF vars
  <2>2. TypeOK' /\ IndexExact' /\ DedupConsistent'
    BY <2>1 DEF EngineInv, TypeOK, IndexExact, DedupConsistent
  <2>. QED
    BY <2>1, <2>2 DEF EngineInv
<1>3. ASSUME NEW a \in Accounts, NEW x \in ClientIds, Apply(a, x)
      PROVE  EngineInv'
  <2>1. ASSUME NEW req \in OrderRequest, Place(a, x, req)
        PROVE  EngineInv'
    <3>1. CASE PlaceAccepted(a, x, req)
      BY <2>1, <3>1, PlaceAcceptedKeeps DEF Place
    <3>2. CASE PlaceRejected(a, x, req)
      <4>1. /\ Admit(a, x) /\ Commit(NoEvents, Ledger0)
            /\ UNCHANGED <<books, order_pair, next_order_id>> /\ listed_pairs' = listed_pairs
        BY <3>2 DEF PlaceRejected
      <4>. QED
        BY <1>1, <4>1, AdmittedOnly
    <3>. QED
      BY <2>1, <3>1, <3>2 DEF Place
  <2>2. ASSUME NEW id \in OrderId, Cancel(a, x, id)
        PROVE  EngineInv'
    <3>1. CASE CancelAccepted(a, x, id)
      BY <3>1, CancelAcceptedKeeps
    <3>2. CASE CancelRejected(a, x, id)
      <4>1. /\ Admit(a, x) /\ Commit(NoEvents, Ledger0)
            /\ UNCHANGED <<books, order_pair, next_order_id>> /\ listed_pairs' = listed_pairs
        BY <3>2 DEF CancelRejected
      <4>. QED
        BY <1>1, <4>1, AdmittedOnly
    <3>. QED
      BY <2>2, <3>1, <3>2 DEF Cancel
  <2>3. ASSUME NEW c \in Currency, NEW n \in Amounts, DepositCmd(a, x, c, n)
        PROVE  EngineInv'
    <3>. DEFINE l == IF DepositCheck(a, c, n) = "Ok" THEN Deposit(Ledger0, a, c, n) ELSE Ledger0
    <3>1. /\ Admit(a, x) /\ Commit(NoEvents, l)
          /\ UNCHANGED <<books, order_pair, next_order_id>> /\ listed_pairs' = listed_pairs
      BY <2>3 DEF DepositCmd
    <3>2. n \in Int
      BY AmountsAssumption
    <3>3. Credit(Ledger0, a, c, n, 0) \in LedgerValue
      BY <1>1, <3>2, CreditType
    <3>4. l \in LedgerValue
      BY <1>1, <3>3 DEF Deposit
    <3>. HIDE DEF l
    <3>. QED
      BY <1>1, <3>1, <3>4, AdmittedOnly
  <2>4. ASSUME NEW c \in Currency, NEW n \in Amounts, WithdrawCmd(a, x, c, n)
        PROVE  EngineInv'
    <3>. DEFINE l == IF Covers(Ledger0, a, c, n) THEN Withdraw(Ledger0, a, c, n) ELSE Ledger0
    <3>1. /\ Admit(a, x) /\ Commit(NoEvents, l)
          /\ UNCHANGED <<books, order_pair, next_order_id>> /\ listed_pairs' = listed_pairs
      BY <2>4 DEF WithdrawCmd
    <3>2. -n \in Int
      BY AmountsAssumption
    <3>3. Credit(Ledger0, a, c, -n, 0) \in LedgerValue
      BY <1>1, <3>2, CreditType
    <3>4. l \in LedgerValue
      BY <1>1, <3>3 DEF Withdraw
    <3>. HIDE DEF l
    <3>. QED
      BY <1>1, <3>1, <3>4, AdmittedOnly
  <2>5. ASSUME NEW pair \in Pairs, ListPair(a, x, pair) \/ DelistPair(a, x, pair)
        PROVE  EngineInv'
    <3>1. /\ Admit(a, x) /\ Commit(NoEvents, Ledger0)
          /\ UNCHANGED <<books, order_pair, next_order_id>>
      BY <2>5 DEF ListPair, DelistPair
    <3>2. listed_pairs' \subseteq Markets
      BY <1>1, <2>5, PairsAssumption DEF ListPair, DelistPair, Markets
    <3>. QED
      BY <1>1, <3>1, <3>2, AdmittedOnly
  <2>6. CASE Duplicate(a, x)
    <3>1. UNCHANGED <<books, order_pair, next_order_id, next_seq, balances, dedup, listed_pairs>>
      BY <2>6 DEF Duplicate
    <3>2. TypeOK' /\ IndexExact' /\ DedupConsistent'
      BY <3>1 DEF EngineInv, TypeOK, IndexExact, DedupConsistent
    <3>. QED
      BY <3>1, <3>2 DEF EngineInv
  <2>. QED
    BY <1>3, <2>1, <2>2, <2>3, <2>4, <2>5, <2>6 DEF Apply
<1>. QED
  BY <1>2, <1>3 DEF Next

(* The engine keeps its types, well-kept books, exact routing and a        *)
(* consistent window: the inductive invariant, for every instance.         *)
THEOREM EngineInvariant == Spec => []EngineInv
  BY InitInv, NextInv, PTL DEF Spec

(* Every state of the engine is of the types the code declares.            *)
THEOREM TypeCorrect == Spec => []TypeOK
<1>1. EngineInv => TypeOK
  BY EngineInvImplies
<1>. QED
  BY <1>1, EngineInvariant, PTL

(* order_index and order_pair hold exactly the resting orders, each at its *)
(* market, side and price, so a cancel reaches the order it names.         *)
THEOREM RoutingExact == Spec => []IndexExact
<1>1. EngineInv => IndexExact
  BY EngineInvImplies
<1>. QED
  BY <1>1, EngineInvariant, PTL

(* Time priority: every level's queue stays in order of arrival and holds  *)
(* live orders only, through any partial fills and cancels.                *)
THEOREM TimePriority == Spec => []QueuesInOrder
<1>1. EngineInv => QueuesInOrder
  BY EngineInvImplies
<1>. QED
  BY <1>1, EngineInvariant, PTL

(* No command leaves a market crossed.                                     *)
THEOREM NeverCrossed == Spec => []Uncrossed
<1>1. EngineInv => Uncrossed
  BY EngineInvImplies
<1>. QED
  BY <1>1, EngineInvariant, PTL

(* The idempotency window's set and queues never disagree.                 *)
THEOREM WindowConsistent == Spec => []DedupConsistent
<1>1. EngineInv => DedupConsistent
  BY EngineInvImplies
<1>. QED
  BY <1>1, EngineInvariant, PTL
=============================================================================
