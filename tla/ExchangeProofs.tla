--------------------------- MODULE ExchangeProofs ---------------------------
(***************************************************************************)
(* The engine implements Exchange: every command is one step of an exchange*)
(* without queues, levels, indexes or reservations, for every instance.    *)
(*                                                                         *)
(* The argument: along the matching loop, how much each resting order has  *)
(* given is a function from order ids to quantities.  A fill adds to one   *)
(* id of it, to the trades and to what the taker got alike, and it takes   *)
(* from an order only when all that is ahead of it is used up.  When the   *)
(* loop stops, that pins the function down to the quantities Exchange      *)
(* says each order gives.                                                  *)
(*                                                                         *)
(* The same quantities decide would_self_trade: its scan meets an own order*)
(* exactly when the matching loop would take from one.                     *)
(*                                                                         *)
(* Its readers follow it: the tables and the price levels built from the   *)
(* event batches agree with the engine.  What a command changes it also    *)
(* marks.  A ledger differs from the one the command found at dirty pairs  *)
(* only; a level of the book that is not dirty is as it was; and the       *)
(* updates of a matching loop, applied up to any fill, show what is left   *)
(* of the makers.                                                          *)
(***************************************************************************)
EXTENDS Views, LedgerProofs

-----------------------------------------------------------------------------
(* Sums over the order ids.                                                *)

Total(d) == SumTo([n \in 1 .. MaxOrders |-> d[n - 1]], MaxOrders)

(* The terms of such a sum. *)
LEMMA TotalTerms ==
  ASSUME NEW d \in [OrderId -> Int], NEW e, e = [n \in 1 .. MaxOrders |-> d[n - 1]]
  PROVE  /\ MaxOrders \in Nat
         /\ e \in [1 .. MaxOrders -> Int]
         /\ \A n \in 1 .. MaxOrders : n - 1 \in OrderId /\ e[n] = d[n - 1]
         /\ \A id \in OrderId : id + 1 \in 1 .. MaxOrders /\ e[id + 1] = d[id]
         /\ Total(d) = SumTo(e, MaxOrders)
<1>1. MaxOrders \in Nat
  BY MaxOrdersAssumption
<1>2. \A n \in 1 .. MaxOrders : n - 1 \in OrderId
  BY <1>1 DEF OrderId
<1>3. \A id \in OrderId : id + 1 \in 1 .. MaxOrders /\ (id + 1) - 1 = id
  BY <1>1 DEF OrderId
<1>. QED
  BY <1>1, <1>2, <1>3 DEF Total

(* A sum of integers is an integer. *)
LEMMA TotalType ==
  ASSUME NEW d \in [OrderId -> Int]
  PROVE  Total(d) \in Int
<1>. DEFINE e == [n \in 1 .. MaxOrders |-> d[n - 1]]
<1>1. /\ MaxOrders \in Nat /\ e \in [1 .. MaxOrders -> Int]
      /\ Total(d) = SumTo(e, MaxOrders)
  BY TotalTerms
<1>. HIDE DEF e
<1>. QED
  BY <1>1, SumOver

(* Larger terms, larger sum. *)
LEMMA TotalMono ==
  ASSUME NEW d \in [OrderId -> Int], NEW f \in [OrderId -> Int],
         \A id \in OrderId : d[id] <= f[id]
  PROVE  Total(d) <= Total(f)
<1>. DEFINE e == [n \in 1 .. MaxOrders |-> d[n - 1]]
            g == [n \in 1 .. MaxOrders |-> f[n - 1]]
            h == [n \in 1 .. MaxOrders |-> g[n] - e[n]]
<1>1. /\ MaxOrders \in Nat /\ e \in [1 .. MaxOrders -> Int] /\ Total(d) = SumTo(e, MaxOrders)
      /\ \A n \in 1 .. MaxOrders : n - 1 \in OrderId /\ e[n] = d[n - 1]
  BY TotalTerms
<1>2. /\ g \in [1 .. MaxOrders -> Int] /\ Total(f) = SumTo(g, MaxOrders)
      /\ \A n \in 1 .. MaxOrders : g[n] = f[n - 1]
  BY TotalTerms
<1>. HIDE DEF e, g
<1>3. \A n \in 1 .. MaxOrders : e[n] <= g[n] /\ e[n] \in Int /\ g[n] \in Int
  BY <1>1, <1>2
<1>4. h \in [1 .. MaxOrders -> Nat] /\ h \in [1 .. MaxOrders -> Int]
  BY <1>3
<1>5. \A n \in 1 .. MaxOrders : h[n] = g[n] - e[n]
  OBVIOUS
<1>. HIDE DEF h
<1>6. SumTo(h, MaxOrders) = SumTo(g, MaxOrders) - SumTo(e, MaxOrders)
  BY <1>1, <1>2, <1>4, <1>5, SumMinus
<1>7. SumTo(h, MaxOrders) \in Nat
  BY <1>1, <1>4, SumOfNats
<1>9. MaxOrders \in 0 .. MaxOrders
  BY <1>1
<1>8. SumTo(g, MaxOrders) \in Int /\ SumTo(e, MaxOrders) \in Int
  BY <1>1, <1>2, <1>9, SumOver
<1>. QED
  BY <1>1, <1>2, <1>6, <1>7, <1>8

(* Changing one term changes the sum by as much. *)
LEMMA TotalChange ==
  ASSUME NEW d \in [OrderId -> Int], NEW f \in [OrderId -> Int], NEW k \in OrderId,
         \A id \in OrderId : id # k => f[id] = d[id]
  PROVE  Total(f) = Total(d) + (f[k] - d[k])
<1>. DEFINE e == [n \in 1 .. MaxOrders |-> d[n - 1]]
            g == [n \in 1 .. MaxOrders |-> f[n - 1]]
<1>1. /\ MaxOrders \in Nat /\ e \in [1 .. MaxOrders -> Int] /\ Total(d) = SumTo(e, MaxOrders)
      /\ \A n \in 1 .. MaxOrders : n - 1 \in OrderId /\ e[n] = d[n - 1]
      /\ k + 1 \in 1 .. MaxOrders /\ e[k + 1] = d[k]
  BY TotalTerms
<1>2. /\ g \in [1 .. MaxOrders -> Int] /\ Total(f) = SumTo(g, MaxOrders)
      /\ \A n \in 1 .. MaxOrders : g[n] = f[n - 1]
      /\ g[k + 1] = f[k]
  BY TotalTerms
<1>. HIDE DEF e, g
<1>3. \A n \in 1 .. MaxOrders : n # k + 1 => g[n] = e[n]
  <2>. SUFFICES ASSUME NEW n \in 1 .. MaxOrders, n # k + 1 PROVE g[n] = e[n]
    OBVIOUS
  <2>1. n - 1 # k
    BY DEF OrderId
  <2>. QED
    BY <1>1, <1>2, <2>1
<1>4. SumTo(g, MaxOrders) = SumTo(e, MaxOrders) + (g[k + 1] - e[k + 1])
  BY <1>1, <1>2, <1>3, SumChange
<1>. QED
  BY <1>1, <1>2, <1>4

(* Nothing adds up to nothing. *)
LEMMA TotalZero ==
  ASSUME NEW d \in [OrderId -> Int], \A id \in OrderId : d[id] = 0
  PROVE  Total(d) = 0
<1>. DEFINE e == [n \in 1 .. MaxOrders |-> d[n - 1]]
<1>1. /\ MaxOrders \in Nat /\ e \in [1 .. MaxOrders -> Int] /\ Total(d) = SumTo(e, MaxOrders)
      /\ \A n \in 1 .. MaxOrders : n - 1 \in OrderId /\ e[n] = d[n - 1]
  BY TotalTerms
<1>. HIDE DEF e
<1>2. \A n \in 1 .. MaxOrders : e[n] = e[n] - e[n]
  BY <1>1
<1>3. SumTo(e, MaxOrders) = SumTo(e, MaxOrders) - SumTo(e, MaxOrders)
  BY <1>1, <1>2, SumMinus
<1>4. MaxOrders \in 0 .. MaxOrders
  BY <1>1
<1>5. SumTo(e, MaxOrders) \in Int
  BY <1>1, <1>4, SumOver
<1>. QED
  BY <1>1, <1>3, <1>5

-----------------------------------------------------------------------------
(* What the resting orders give, along the matching loop.                  *)

\* Of the orders resting on side, x is served before y.
Sooner(side, x, y) ==
  \/ IF side = "Ask" THEN x.price < y.price ELSE x.price > y.price
  \/ x.price = y.price /\ x.id < y.id

\* T is what is left of the orders S when each has given d of its id.
Depleted(S, T, d) ==
  /\ \A o \in S :
       /\ d[o.id] <= o.remaining_size
       /\ d[o.id] < o.remaining_size => WithRemaining(o, o.remaining_size - d[o.id]) \in T
  /\ \A x \in T : \E o \in S :
       d[o.id] < o.remaining_size /\ x = WithRemaining(o, o.remaining_size - d[o.id])

\* Order o may give: it crosses, and all that is served before it is used up.
Due(S, req, d, o) ==
  /\ Crosses(req, o.price)
  /\ \A j \in S : Sooner(Opposite(req.side), j, o) => d[j.id] = j.remaining_size

\* Only such orders of S give.
InTurn(S, req, d) ==
  \A id \in OrderId : d[id] > 0 => \E o \in S : o.id = id /\ Due(S, req, d, o)

\* What order o of S, the maker, moves into account a of currency c when it
\* gives qty to account_id.
Share(account_id, req, o, qty, a, c) ==
  LET leg    == IF c = req.pair.base THEN qty ELSE -(qty * o.price)
      buyer  == IF req.side = "Bid" THEN account_id ELSE o.account_id
      seller == IF req.side = "Bid" THEN o.account_id ELSE account_id
  IN  (IF buyer = a THEN leg ELSE 0) - (IF seller = a THEN leg ELSE 0)

OrderOf(S, id) == CHOOSE o \in S : o.id = id

Shares(S, account_id, req, d, a, c) ==
  [id \in OrderId |-> IF \E o \in S : o.id = id
                      THEN Share(account_id, req, OrderOf(S, id), d[id], a, c) ELSE 0]

NetOf(pair, trades, a, c) ==
  SumTo([i \in 1 .. Len(trades) |-> NetOfTrade(pair, trades[i], a, c)], Len(trades))

\* The trades move what the orders give, and are with the orders that give.
Traded(S, account_id, req, trades, d) ==
  \A a \in Accounts, c \in Currency :
    NetOf(req.pair, trades, a, c) = Total(Shares(S, account_id, req, d, a, c))

MadeWith(S, trades, d) ==
  \A a \in Accounts :
    (\E i \in 1 .. Len(trades) : trades[i].maker_account = a)
      <=> (\E o \in S : o.account_id = a /\ d[o.id] > 0)

\* The loop invariant: what the resting orders S gave up to state s is d.
Gave(S, account_id, req, s, d) ==
  /\ d \in [OrderId -> Nat]
  /\ Depleted(S, RestingOn(s.book, Opposite(req.side)), d)
  /\ InTurn(S, req, d)
  /\ s.remaining = req.size - Total(d)
  /\ Traded(S, account_id, req, s.trades, d)
  /\ MadeWith(S, s.trades, d)

(* Of two orders with ids of their own, one is served before the other.    *)
LEMMA SoonerTotal ==
  ASSUME NEW side, NEW x \in Order, NEW y \in Order, x.id # y.id
  PROVE  /\ Sooner(side, x, y) \/ Sooner(side, y, x)
         /\ ~(Sooner(side, x, y) /\ Sooner(side, y, x))
<1>. DEFINE p == x.price  q == y.price  i == x.id  j == y.id
<1>1. p \in Nat /\ q \in Nat /\ i \in Nat /\ j \in Nat /\ i # j
  BY OrderFields, PricesAssumption
<1>2. /\ Sooner(side, x, y) <=> (IF side = "Ask" THEN p < q ELSE p > q) \/ (p = q /\ i < j)
      /\ Sooner(side, y, x) <=> (IF side = "Ask" THEN q < p ELSE q > p) \/ (q = p /\ j < i)
  BY DEF Sooner
<1>. HIDE DEF p, q, i, j
<1>. QED
  BY <1>1, <1>2

(* The maker of a fill is what is served first of all that rests.          *)
LEMMA FrontFirst ==
  ASSUME NEW account_id \in Accounts, NEW req \in OrderRequest,
         NEW s \in MatchState, NEW f \in MatchState, NEW n \in Nat,
         NEW t \in Trade, NEW q \in Seq(Order), NEW r \in Seq(Order), NEW left \in Nat,
         FillShape(account_id, req, s, f, n, t, q, r, left),
         NEW x \in RestingOn(s.book, Opposite(req.side))
  PROVE  /\ q[1] \in Order /\ q[1].price = t.price
         /\ ~Sooner(Opposite(req.side), x, q[1])
<1>. DEFINE side == Opposite(req.side)  b == s.book
<1>1. /\ b \in Book /\ side \in Side /\ (side = "Ask" <=> req.side = "Bid")
  BY RequestFields DEF MatchState
<1>2. /\ Indexed(b) /\ InOrder(b, n) /\ Len(q) > 0
      /\ t.price \in Levels(b, side) /\ q = b.queue[side][t.price]
      /\ \A p \in Levels(b, side) : IF side = "Ask" THEN t.price <= p ELSE p <= t.price
  BY <1>1 DEF FillShape, FilledBook
<1>3. 1 \in 1 .. Len(q) /\ q[1] \in Order /\ t.price \in Prices /\ t.price \in Nat
  BY <1>2, TradeFields DEF Levels
<1>5. x \in RestingOn(b, side)
  OBVIOUS
<1>. HIDE DEF b, side
<1>13. \A price \in Prices : \A i \in 1 .. Len(b.queue[side][price]) :
         b.queue[side][price][i].price = price
  <2>1. \A price \in Prices : \A i \in 1 .. Len(b.queue[side][price]) :
          Located(b, side, price, b.queue[side][price][i])
    BY <1>1, <1>2 DEF Indexed
  <2>. QED
    BY <2>1 DEF Located
<1>4. q[1].price = t.price
  BY <1>2, <1>3, <1>13
<1>6. PICK price \in Prices : \E i \in 1 .. Len(b.queue[side][price]) : x = b.queue[side][price][i]
  BY <1>1, <1>5, RestingMember
<1>7. PICK i \in 1 .. Len(b.queue[side][price]) : x = b.queue[side][price][i]
  BY <1>6
<1>8. x \in Order /\ x.price = price /\ price \in Levels(b, side)
  <2>1. b.queue[side][price] # << >>
    BY <1>7
  <2>2. x \in Order
    BY <1>1, <1>5, RestingMember
  <2>. QED
    BY <1>7, <1>13, <2>1, <2>2 DEF Levels
<1>9. x.price \in Nat /\ x.id \in Nat /\ q[1].id \in Nat
  BY <1>3, <1>8, OrderFields, PricesAssumption
<1>10. IF side = "Ask" THEN t.price <= x.price ELSE x.price <= t.price
  BY <1>2, <1>8
<1>11. x.price = t.price => ~(x.id < q[1].id)
  <2>. SUFFICES ASSUME x.price = t.price PROVE ~(x.id < q[1].id)
    OBVIOUS
  <2>1. i \in 1 .. Len(q) /\ x = q[i]
    BY <1>2, <1>7, <1>8
  <2>2. i = 1 \/ 1 < i
    BY <2>1
  <2>3. ByArrival(q)
    BY <1>1, <1>2, <1>3 DEF InOrder
  <2>4. 1 < i => q[1].id < q[i].id
    BY <1>3, <2>1, <2>3 DEF ByArrival
  <2>. QED
    BY <1>9, <2>1, <2>2, <2>4
<1>12. ~Sooner(side, x, q[1])
  BY <1>3, <1>4, <1>9, <1>10, <1>11 DEF Sooner
<1>. QED
  BY <1>3, <1>4, <1>12 DEF side

(* Only the remaining size of an order counts, whatever it was before.     *)
LEMMA WithRemainingTwice ==
  ASSUME NEW o \in Order, NEW u \in Nat, NEW v \in Nat
  PROVE  WithRemaining(WithRemaining(o, u), v) = WithRemaining(o, v)
BY DEF WithRemaining, Order

\* Order o of S is the maker of trade t, which it can give after d of it.
Maker(S, req, d, t, o) ==
  /\ o \in S
  /\ d[o.id] < o.remaining_size /\ d[o.id] + t.qty <= o.remaining_size
  /\ t.price = o.price /\ t.maker_account = o.account_id
  /\ \A j \in S : Sooner(Opposite(req.side), j, o) => d[j.id] = j.remaining_size

Given(d, o, qty) == [d EXCEPT ![o.id] = @ + qty]

(* A fill takes from the order that is next in turn.                       *)
LEMMA FillTakes ==
  ASSUME NEW account_id \in Accounts, NEW req \in OrderRequest,
         NEW s \in MatchState, NEW f \in MatchState, NEW n \in Nat,
         NEW t \in Trade, NEW q \in Seq(Order), NEW r \in Seq(Order), NEW left \in Nat,
         FillShape(account_id, req, s, f, n, t, q, r, left),
         NEW S \in SUBSET Order, OwnIds(S), NEW d \in [OrderId -> Nat],
         Depleted(S, RestingOn(s.book, Opposite(req.side)), d)
  PROVE  \E o \in S : /\ Maker(S, req, d, t, o)
                      /\ Depleted(S, RestingOn(f.book, Opposite(req.side)), Given(d, o, t.qty))
<1>. DEFINE side == Opposite(req.side)
            T == RestingOn(s.book, side)  U == RestingOn(f.book, side)
            m == q[1]
<1>1. /\ s.book \in Book /\ f.book \in Book /\ side \in Side
  BY RequestFields DEF MatchState
<1>2. /\ Indexed(s.book) /\ InOrder(s.book, n)
      /\ Len(q) > 0 /\ Filled(q, r, left)
      /\ FilledBook(s.book, f.book, side, t.price, q, r, left)
      /\ left + t.qty = m.remaining_size /\ t.maker_account = m.account_id
      /\ 0 < t.qty
  BY DEF FillShape
<1>3. t.price \in Prices /\ t.qty \in Nat
  BY TradeFields DEF Trade
<1>4. /\ m \in T
      /\ U = (T \ {m}) \cup (IF left = 0 THEN {} ELSE {WithRemaining(m, left)})
  <2>. DEFINE b == s.book  c == f.book
  <2>. HIDE DEF b, c
  <2>. QED
    BY <1>1, <1>2, <1>3, FilledResting DEF b, c
<1>5. \A x \in T : m \in Order /\ m.price = t.price /\ ~Sooner(side, x, m)
  BY FrontFirst
<1>6. Depleted(S, T, d)
  OBVIOUS
<1>. HIDE DEF side, T, U, m
<1>7. m \in Order /\ m.price = t.price
  BY <1>4, <1>5
<1>8. PICK o \in S : d[o.id] < o.remaining_size /\ m = WithRemaining(o, o.remaining_size - d[o.id])
  BY <1>4, <1>6 DEF Depleted
<1>9. /\ o \in Order /\ o.id \in OrderId /\ d[o.id] \in Nat /\ o.remaining_size \in Nat
      /\ o.remaining_size - d[o.id] \in Nat
  BY <1>8, OrderFields DEF Order
<1>10. /\ m.id = o.id /\ m.price = o.price /\ m.account_id = o.account_id
       /\ m.remaining_size = o.remaining_size - d[o.id]
  BY <1>8, <1>9, WithRemainingFacts
<1>11. WithRemaining(m, left) = WithRemaining(o, left)
  BY <1>8, <1>9, WithRemainingTwice
<1>12. left + t.qty = o.remaining_size - d[o.id]
  BY <1>2, <1>10
<1>13. d[o.id] + t.qty <= o.remaining_size /\ o.remaining_size - (d[o.id] + t.qty) = left
  <2>. DEFINE k == t.qty  g == d[o.id]  z == o.remaining_size
  <2>1. k \in Nat /\ g \in Nat /\ z \in Nat /\ left + k = z - g
    BY <1>3, <1>9, <1>12
  <2>. HIDE DEF k, g, z
  <2>2. g + k <= z /\ z - (g + k) = left
    BY <2>1
  <2>. QED
    BY <2>2 DEF k, g, z
<1>14. ASSUME NEW j \in S, Sooner(side, j, o) PROVE d[j.id] = j.remaining_size
  <2>1. j \in Order /\ j.id \in OrderId /\ d[j.id] \in Nat /\ j.remaining_size \in Nat
    BY OrderFields DEF Order
  <2>2. d[j.id] <= j.remaining_size
    BY <1>6 DEF Depleted
  <2>3. SUFFICES ASSUME d[j.id] < j.remaining_size PROVE FALSE
    BY <2>1, <2>2
  <2>. DEFINE x == WithRemaining(j, j.remaining_size - d[j.id])
  <2>4. x \in T
    BY <1>6, <2>3 DEF Depleted
  <2>7. j.remaining_size - d[j.id] \in Nat
    BY <2>1, <2>3
  <2>5. x.id = j.id /\ x.price = j.price
    BY <2>1, <2>7, WithRemainingFacts
  <2>. HIDE DEF x
  <2>6. ~Sooner(side, x, m)
    BY <1>5, <2>4
  <2>. QED
    BY <1>10, <1>14, <2>5, <2>6 DEF Sooner
<1>15. Maker(S, req, d, t, o)
  BY <1>2, <1>7, <1>8, <1>10, <1>13, <1>14 DEF Maker, side
<1>. DEFINE e == Given(d, o, t.qty)
<1>16. /\ e[o.id] = d[o.id] + t.qty
       /\ \A j \in S : j # o => j.id # o.id /\ e[j.id] = d[j.id]
  <2>1. \A j \in S : j # o => j.id # o.id /\ j.id \in OrderId
    BY <1>8 DEF OwnIds, Order
  <2>. QED
    BY <1>9, <2>1 DEF Given
<1>. HIDE DEF e
<1>17. Depleted(S, U, e)
  <2>1. ASSUME NEW j \in S
        PROVE  /\ e[j.id] <= j.remaining_size
               /\ e[j.id] < j.remaining_size => WithRemaining(j, j.remaining_size - e[j.id]) \in U
    <3>1. CASE j = o
      <4>1. e[j.id] <= j.remaining_size /\ j.remaining_size - e[j.id] = left
        BY <1>13, <1>16, <3>1
      <4>2. e[j.id] < j.remaining_size => left # 0
        BY <1>3, <1>9, <1>16, <3>1, <4>1
      <4>. QED
        BY <1>4, <1>11, <3>1, <4>1, <4>2
    <3>2. CASE j # o
      <4>1. e[j.id] = d[j.id] /\ j.id # o.id /\ j \in Order /\ j.id \in OrderId
        BY <1>16, <3>2 DEF Order
      <4>2. d[j.id] <= j.remaining_size
        BY <1>6 DEF Depleted
      <4>3. ASSUME d[j.id] < j.remaining_size
            PROVE  WithRemaining(j, j.remaining_size - d[j.id]) \in U
        <5>. DEFINE x == WithRemaining(j, j.remaining_size - d[j.id])
        <5>1. x \in T
          BY <1>6, <4>3 DEF Depleted
        <5>2. d[j.id] \in Nat /\ j.remaining_size \in Nat
          BY <4>1, OrderFields
        <5>5. j.remaining_size - d[j.id] \in Nat
          BY <4>3, <5>2
        <5>3. x.id = j.id
          BY <4>1, <5>5, WithRemainingFacts
        <5>. HIDE DEF x
        <5>4. x # m
          BY <1>10, <4>1, <5>3
        <5>. QED
          BY <1>4, <5>1, <5>4 DEF x
      <4>. QED
        BY <4>1, <4>2, <4>3
    <3>. QED
      BY <3>1, <3>2
  <2>2. ASSUME NEW x \in U
        PROVE  \E j \in S : e[j.id] < j.remaining_size
                            /\ x = WithRemaining(j, j.remaining_size - e[j.id])
    <3>1. CASE x \in T /\ x # m
      <4>1. PICK j \in S : d[j.id] < j.remaining_size
                           /\ x = WithRemaining(j, j.remaining_size - d[j.id])
        BY <1>6, <3>1 DEF Depleted
      <4>2. j # o
        BY <1>8, <3>1, <4>1
      <4>. QED
        BY <1>16, <4>1, <4>2
    <3>2. CASE left # 0 /\ x = WithRemaining(m, left)
      <4>1. o.remaining_size - e[o.id] = left
        BY <1>13, <1>16
      <4>2. e[o.id] < o.remaining_size
        BY <1>3, <1>9, <1>13, <1>16, <3>2
      <4>. QED
        BY <1>11, <3>2, <4>1, <4>2
    <3>. QED
      BY <1>4, <3>1, <3>2
  <2>. QED
    BY <2>1, <2>2 DEF Depleted
<1>. QED
  BY <1>15, <1>17 DEF e, U, side

\* From d to e, order o of S gave qty more.
GaveMore(S, d, o, qty, e) ==
  /\ e \in [OrderId -> Nat] /\ o.id \in OrderId
  /\ e[o.id] = d[o.id] + qty
  /\ \A id \in OrderId : id # o.id => e[id] = d[id]
  /\ \A j \in S : j # o => j.id # o.id /\ j.id \in OrderId
  /\ Total(e) = Total(d) + qty

(* Giving more changes what one order gave.                                *)
LEMMA GivenFacts ==
  ASSUME NEW S \in SUBSET Order, OwnIds(S), NEW d \in [OrderId -> Nat], NEW o \in S,
         NEW qty \in Nat, NEW e, e = Given(d, o, qty)
  PROVE  GaveMore(S, d, o, qty, e)
<1>1. o.id \in OrderId /\ d[o.id] \in Nat /\ d[o.id] + qty \in Nat
  BY DEF Order
<1>2. /\ e \in [OrderId -> Nat] /\ e[o.id] = d[o.id] + qty
      /\ \A id \in OrderId : id # o.id => e[id] = d[id]
  BY <1>1 DEF Given
<1>3. \A j \in S : j # o => j.id # o.id /\ j.id \in OrderId
  BY DEF OwnIds, Order
<1>4. d \in [OrderId -> Int] /\ e \in [OrderId -> Int]
  BY <1>2
<1>5. Total(e) = Total(d) + (e[o.id] - d[o.id])
  BY <1>1, <1>2, <1>4, TotalChange
<1>6. Total(d) \in Int
  BY <1>4, TotalType
<1>. QED
  BY <1>1, <1>2, <1>3, <1>5, <1>6 DEF GaveMore

(* Orders still give in turn only.                                         *)
LEMMA FillInTurn ==
  ASSUME NEW account_id \in Accounts, NEW req \in OrderRequest,
         NEW t \in Trade, Crosses(req, t.price), 0 < t.qty,
         NEW S \in SUBSET Order, OwnIds(S), NEW d \in [OrderId -> Nat], InTurn(S, req, d),
         NEW o \in S, Maker(S, req, d, t, o)
  PROVE  InTurn(S, req, Given(d, o, t.qty))
<1>. DEFINE e == Given(d, o, t.qty)  side == Opposite(req.side)
<1>1. t.qty \in Nat
  BY TradeFields
<1>2. /\ e \in [OrderId -> Nat] /\ o.id \in OrderId
      /\ \A id \in OrderId : id # o.id => e[id] = d[id]
      /\ \A j \in S : j # o => j.id # o.id /\ j.id \in OrderId
  <2>1. GaveMore(S, d, o, t.qty, e)
    BY <1>1, GivenFacts
  <2>. QED
    BY <2>1 DEF GaveMore
<1>. HIDE DEF e
<1>3. \A j \in S : j # o => e[j.id] = d[j.id]
  BY <1>2
<1>4. d[o.id] < o.remaining_size /\ \A j \in S : Sooner(side, j, o) => d[j.id] = j.remaining_size
  BY DEF Maker
<1>5. d[o.id] # o.remaining_size /\ d[o.id] \in Nat
  BY <1>2, <1>4, OrderFields
<1>6. ASSUME NEW x \in S, Due(S, req, d, x) PROVE Due(S, req, e, x)
  <2>1. \A j \in S : Sooner(side, j, x) => d[j.id] = j.remaining_size
    BY <1>6 DEF Due
  <2>2. \A j \in S : Sooner(side, j, x) => j # o
    BY <1>5, <2>1
  <2>. QED
    BY <1>3, <1>6, <2>1, <2>2 DEF Due
<1>7. Due(S, req, d, o)
  BY <1>4 DEF Due, Maker
<1>8. ASSUME NEW id \in OrderId, e[id] > 0 PROVE \E x \in S : x.id = id /\ Due(S, req, e, x)
  <2>1. CASE id = o.id
    BY <1>6, <1>7, <2>1
  <2>2. CASE id # o.id
    <3>1. d[id] > 0
      BY <1>2, <1>8, <2>2
    <3>2. PICK x \in S : x.id = id /\ Due(S, req, d, x)
      BY <3>1 DEF InTurn
    <3>. QED
      BY <1>6, <3>2
  <2>. QED
    BY <2>1, <2>2
<1>. QED
  BY <1>8 DEF InTurn, e

(* The accounts traded with are those of the orders that gave.             *)
LEMMA FillMadeWith ==
  ASSUME NEW req \in OrderRequest, NEW T \in Seq(Trade), NEW t \in Trade, 0 < t.qty,
         NEW S \in SUBSET Order, OwnIds(S), NEW d \in [OrderId -> Nat], MadeWith(S, T, d),
         NEW o \in S, Maker(S, req, d, t, o)
  PROVE  MadeWith(S, Append(T, t), Given(d, o, t.qty))
<1>. DEFINE e == Given(d, o, t.qty)  V == Append(T, t)
<1>1. t.qty \in Nat
  BY TradeFields
<1>2. /\ e \in [OrderId -> Nat] /\ o.id \in OrderId /\ e[o.id] = d[o.id] + t.qty
      /\ \A id \in OrderId : id # o.id => e[id] = d[id]
      /\ \A j \in S : j # o => j.id # o.id /\ j.id \in OrderId
  <2>1. GaveMore(S, d, o, t.qty, e)
    BY <1>1, GivenFacts
  <2>. QED
    BY <2>1 DEF GaveMore
<1>3. /\ Len(T) \in Nat /\ Len(V) = Len(T) + 1
      /\ \A i \in 1 .. Len(T) : V[i] = T[i]
      /\ V[Len(T) + 1] = t
  BY AppendTrade
<1>4. t.maker_account = o.account_id
  BY DEF Maker
<1>. HIDE DEF e, V
<1>5. d[o.id] \in Nat /\ e[o.id] > 0
  BY <1>1, <1>2
<1>6. ASSUME NEW a \in Accounts
      PROVE  (\E i \in 1 .. Len(V) : V[i].maker_account = a)
               <=> (\E x \in S : x.account_id = a /\ e[x.id] > 0)
  <2>1. (\E i \in 1 .. Len(T) : T[i].maker_account = a)
          <=> (\E x \in S : x.account_id = a /\ d[x.id] > 0)
    BY DEF MadeWith
  <2>2. (\E i \in 1 .. Len(V) : V[i].maker_account = a)
          <=> (\E i \in 1 .. Len(T) : T[i].maker_account = a) \/ o.account_id = a
    <3>1. \A i \in 1 .. Len(V) : i \in 1 .. Len(T) \/ i = Len(T) + 1
      BY <1>3
    <3>2. 1 .. Len(T) \subseteq 1 .. Len(V) /\ Len(T) + 1 \in 1 .. Len(V)
      BY <1>3
    <3>. QED
      BY <1>3, <1>4, <3>1, <3>2
  <2>3. (\E x \in S : x.account_id = a /\ e[x.id] > 0)
          <=> (\E x \in S : x.account_id = a /\ d[x.id] > 0) \/ o.account_id = a
    <3>1. ASSUME NEW x \in S, x.account_id = a, e[x.id] > 0
          PROVE  (\E y \in S : y.account_id = a /\ d[y.id] > 0) \/ o.account_id = a
      BY <1>2, <3>1
    <3>2. ASSUME NEW x \in S, x.account_id = a, d[x.id] > 0
          PROVE  \E y \in S : y.account_id = a /\ e[y.id] > 0
      <4>1. x # o => e[x.id] > 0
        BY <1>2, <3>2
      <4>. QED
        BY <1>5, <3>2, <4>1
    <3>. QED
      BY <1>5, <3>1, <3>2
  <2>. QED
    BY <2>1, <2>2, <2>3
<1>. QED
  BY <1>6 DEF MadeWith, e, V

(* What an order moves, it moves unit by unit.                             *)
LEMMA ShareMore ==
  ASSUME NEW account_id, NEW req, NEW o \in Order, NEW g \in Nat, NEW k \in Nat, NEW a, NEW c
  PROVE  /\ Share(account_id, req, o, g, a, c) \in Int
         /\ Share(account_id, req, o, k, a, c) \in Int
         /\ Share(account_id, req, o, g + k, a, c) =
              Share(account_id, req, o, g, a, c) + Share(account_id, req, o, k, a, c)
<1>. DEFINE p == o.price
            leg(x) == IF c = req.pair.base THEN x ELSE -(x * p)
            buys == (IF req.side = "Bid" THEN account_id ELSE o.account_id) = a
            sells == (IF req.side = "Bid" THEN o.account_id ELSE account_id) = a
<1>1. p \in Nat
  BY OrderFields, PricesAssumption
<1>2. \A x \in {g, k, g + k} :
        Share(account_id, req, o, x, a, c) = (IF buys THEN leg(x) ELSE 0) - (IF sells THEN leg(x) ELSE 0)
  BY DEF Share
<1>3. leg(g) \in Int /\ leg(k) \in Int /\ leg(g + k) = leg(g) + leg(k)
  <2>. HIDE DEF p
  <2>1. g * p \in Nat /\ k * p \in Nat /\ (g + k) * p = g * p + k * p
    BY <1>1
  <2>. QED
    BY <2>1
<1>. HIDE DEF leg, buys, sells
<1>. QED
  BY <1>2, <1>3

(* Nothing given moves nothing.                                            *)
LEMMA ShareNone ==
  ASSUME NEW account_id, NEW req, NEW o \in Order, NEW a, NEW c
  PROVE  Share(account_id, req, o, 0, a, c) = 0
<1>1. /\ Share(account_id, req, o, 0, a, c) \in Int
      /\ Share(account_id, req, o, 0 + 0, a, c) =
           Share(account_id, req, o, 0, a, c) + Share(account_id, req, o, 0, a, c)
  BY ShareMore
<1>. DEFINE u == Share(account_id, req, o, 0, a, c)
<1>2. u \in Int /\ u = u + u
  BY <1>1
<1>. HIDE DEF u
<1>3. u = 0
  BY <1>2
<1>. QED
  BY <1>3 DEF u

\* Trade t of the taker account_id is with order o.
TradeOf(account_id, req, o, t) ==
  /\ t.taker_side = req.side /\ t.taker_account = account_id
  /\ t.maker_account = o.account_id /\ t.price = o.price

(* What a trade moves is what its maker gives.                             *)
LEMMA ShareOfTrade ==
  ASSUME NEW account_id \in Accounts, NEW req \in OrderRequest, NEW t \in Trade,
         NEW o \in Order, TradeOf(account_id, req, o, t),
         NEW a \in Accounts, NEW c \in Currency
  PROVE  NetOfTrade(req.pair, t, a, c) = Share(account_id, req, o, t.qty, a, c)
<1>. USE DEF TradeOf
<1>1. t.price \in Nat /\ t.qty \in Nat /\ t.price * t.qty = t.qty * o.price
  BY TradeFields
<1>2. /\ Buyer(t) = IF req.side = "Bid" THEN account_id ELSE o.account_id
      /\ Seller(t) = IF req.side = "Bid" THEN o.account_id ELSE account_id
  BY DEF Buyer, Seller
<1>. QED
  BY <1>1, <1>2 DEF NetOfTrade, Share

(* The order of an id.                                                     *)
LEMMA OrderOfId ==
  ASSUME NEW S \in SUBSET Order, OwnIds(S), NEW o \in S
  PROVE  OrderOf(S, o.id) = o
BY DEF OrderOf, OwnIds

(* The terms of what the orders give are integers.                         *)
LEMMA SharesType ==
  ASSUME NEW S \in SUBSET Order, NEW account_id, NEW req, NEW d \in [OrderId -> Nat], NEW a, NEW c
  PROVE  Shares(S, account_id, req, d, a, c) \in [OrderId -> Int]
<1>. SUFFICES ASSUME NEW id \in OrderId, \E o \in S : o.id = id
              PROVE  Share(account_id, req, OrderOf(S, id), d[id], a, c) \in Int
  BY DEF Shares
<1>1. OrderOf(S, id) \in Order
  BY DEF OrderOf
<1>. QED
  BY <1>1, ShareMore

(* What the trades move grows by what a new one moves.                     *)
LEMMA NetMore ==
  ASSUME NEW T \in Seq(Trade), NEW t \in Trade, NEW pair, NEW a, NEW c
  PROVE  NetOf(pair, Append(T, t), a, c) = NetOf(pair, T, a, c) + NetOfTrade(pair, t, a, c)
<1>. DEFINE V == Append(T, t)
            e == [i \in 1 .. Len(T) |-> NetOfTrade(pair, T[i], a, c)]
            g == [i \in 1 .. Len(V) |-> NetOfTrade(pair, V[i], a, c)]
<1>1. /\ Len(T) \in Nat /\ Len(V) = Len(T) + 1
      /\ \A i \in 1 .. Len(T) : T[i] \in Trade /\ V[i] = T[i]
      /\ V[Len(T) + 1] = t
      /\ \A i \in 1 .. Len(T) + 1 : V[i] \in Trade
  BY AppendTrade
<1>2. \A x \in Trade : NetOfTrade(pair, x, a, c) \in Int
  BY TradeFields DEF NetOfTrade
<1>. HIDE DEF V
<1>3. e \in [1 .. Len(T) -> Int] /\ g \in [1 .. Len(T) + 1 -> Int]
  BY <1>1, <1>2
<1>4. /\ \A i \in 1 .. Len(T) : g[i] = e[i]
      /\ g[Len(T) + 1] = NetOfTrade(pair, t, a, c)
  BY <1>1
<1>5. NetOf(pair, T, a, c) = SumTo(e, Len(T)) /\ NetOf(pair, V, a, c) = SumTo(g, Len(T) + 1)
  BY <1>1 DEF NetOf
<1>. HIDE DEF e, g
<1>6. SumTo(g, Len(T) + 1) = SumTo(e, Len(T)) + g[Len(T) + 1]
  BY <1>1, <1>3, <1>4, SumAppend
<1>. QED
  BY <1>4, <1>5, <1>6 DEF V

(* The trades still move what the orders gave.                             *)
LEMMA FillTraded ==
  ASSUME NEW account_id \in Accounts, NEW req \in OrderRequest,
         NEW T \in Seq(Trade), NEW t \in Trade,
         t.taker_side = req.side, t.taker_account = account_id,
         NEW S \in SUBSET Order, OwnIds(S), NEW d \in [OrderId -> Nat],
         Traded(S, account_id, req, T, d), NEW o \in S, Maker(S, req, d, t, o)
  PROVE  Traded(S, account_id, req, Append(T, t), Given(d, o, t.qty))
<1>. DEFINE e == Given(d, o, t.qty)
<1>1. t.qty \in Nat
  BY TradeFields
<1>2. /\ e \in [OrderId -> Nat] /\ o.id \in OrderId /\ e[o.id] = d[o.id] + t.qty
      /\ \A id \in OrderId : id # o.id => e[id] = d[id]
  <2>1. GaveMore(S, d, o, t.qty, e)
    BY <1>1, GivenFacts
  <2>. QED
    BY <2>1 DEF GaveMore
<1>. HIDE DEF e
<1>3. t.maker_account = o.account_id /\ t.price = o.price
  BY DEF Maker
<1>4. ASSUME NEW a \in Accounts, NEW c \in Currency
      PROVE  NetOf(req.pair, Append(T, t), a, c) = Total(Shares(S, account_id, req, e, a, c))
  <2>. DEFINE x == Shares(S, account_id, req, d, a, c)  y == Shares(S, account_id, req, e, a, c)
              share(k) == Share(account_id, req, o, k, a, c)
  <2>1. x \in [OrderId -> Int] /\ y \in [OrderId -> Int]
    BY <1>2, SharesType
  <2>2. \A id \in OrderId : id # o.id => y[id] = x[id]
    BY <1>2 DEF Shares
  <2>3. x[o.id] = share(d[o.id]) /\ y[o.id] = share(e[o.id])
    BY <1>2, OrderOfId DEF Shares
  <2>4. d[o.id] \in Nat
    BY <1>2
  <2>5. /\ share(d[o.id]) \in Int /\ share(t.qty) \in Int
        /\ share(d[o.id] + t.qty) = share(d[o.id]) + share(t.qty)
    <3>. DEFINE g == d[o.id]  k == t.qty
    <3>1. g \in Nat /\ k \in Nat
      BY <1>1, <2>4
    <3>. HIDE DEF g, k
    <3>2. /\ Share(account_id, req, o, g, a, c) \in Int
          /\ Share(account_id, req, o, k, a, c) \in Int
          /\ Share(account_id, req, o, g + k, a, c) =
               Share(account_id, req, o, g, a, c) + Share(account_id, req, o, k, a, c)
      BY <3>1, ShareMore
    <3>. QED
      BY <3>2 DEF g, k
  <2>6. NetOfTrade(req.pair, t, a, c) = share(t.qty)
    <3>1. o \in Order /\ TradeOf(account_id, req, o, t)
      BY <1>3 DEF TradeOf
    <3>. QED
      BY <3>1, ShareOfTrade
  <2>7. NetOf(req.pair, Append(T, t), a, c) = NetOf(req.pair, T, a, c) + share(t.qty)
    BY <2>6, NetMore
  <2>8. NetOf(req.pair, T, a, c) = Total(x)
    BY DEF Traded
  <2>. HIDE DEF x, y, share
  <2>9. Total(y) = Total(x) + (y[o.id] - x[o.id]) /\ Total(x) \in Int
    BY <1>2, <2>1, <2>2, TotalChange, TotalType
  <2>10. y[o.id] - x[o.id] = share(t.qty)
    BY <1>2, <2>3, <2>5
  <2>11. NetOf(req.pair, Append(T, t), a, c) = Total(y)
    BY <2>7, <2>8, <2>9, <2>10
  <2>. QED
    BY <2>11 DEF y
<1>. QED
  BY <1>4 DEF Traded, e

(* A fill keeps the loop invariant.                                        *)
LEMMA FillGives ==
  ASSUME NEW account_id \in Accounts, NEW req \in OrderRequest,
         NEW s \in MatchState, NEW f \in MatchState, NEW n \in Nat,
         NEW t \in Trade, NEW q \in Seq(Order), NEW r \in Seq(Order), NEW left \in Nat,
         FillShape(account_id, req, s, f, n, t, q, r, left),
         NEW S \in SUBSET Order, OwnIds(S), NEW d, Gave(S, account_id, req, s, d)
  PROVE  \E e : Gave(S, account_id, req, f, e)
<1>1. /\ d \in [OrderId -> Nat]
      /\ Depleted(S, RestingOn(s.book, Opposite(req.side)), d)
      /\ InTurn(S, req, d) /\ s.remaining = req.size - Total(d)
      /\ Traded(S, account_id, req, s.trades, d) /\ MadeWith(S, s.trades, d)
  BY DEF Gave
<1>2. /\ Crosses(req, t.price) /\ 0 < t.qty
      /\ f.remaining = s.remaining - t.qty /\ f.trades = Append(s.trades, t)
      /\ t.taker_side = req.side /\ t.taker_account = account_id
  BY DEF FillShape
<1>3. s.trades \in Seq(Trade) /\ t.qty \in Nat /\ req.size \in Nat
  BY TradeFields, RequestFields DEF MatchState
<1>4. PICK o \in S : /\ Maker(S, req, d, t, o)
                     /\ Depleted(S, RestingOn(f.book, Opposite(req.side)), Given(d, o, t.qty))
  BY <1>1, FillTakes
<1>. DEFINE e == Given(d, o, t.qty)
<1>5. GaveMore(S, d, o, t.qty, e)
  BY <1>1, <1>3, GivenFacts
<1>6. InTurn(S, req, e)
  BY <1>1, <1>2, <1>4, FillInTurn
<1>7. Traded(S, account_id, req, f.trades, e)
  BY <1>1, <1>2, <1>3, <1>4, FillTraded
<1>8. MadeWith(S, f.trades, e)
  BY <1>1, <1>2, <1>3, <1>4, FillMadeWith
<1>9. f.remaining = req.size - Total(e)
  <2>1. Total(d) \in Int
    BY <1>1, TotalType
  <2>. HIDE DEF e
  <2>. QED
    BY <1>1, <1>2, <1>3, <1>5, <2>1 DEF GaveMore
<1>10. Depleted(S, RestingOn(f.book, Opposite(req.side)), e)
  BY <1>4
<1>11. e \in [OrderId -> Nat]
  BY <1>5 DEF GaveMore
<1>. HIDE DEF e
<1>. QED
  BY <1>6, <1>7, <1>8, <1>9, <1>10, <1>11 DEF Gave

(* Before the first fill no order has given anything.                      *)
LEMMA StartGave ==
  ASSUME NEW account_id \in Accounts, NEW req \in OrderRequest, NEW book \in Book, NEW n \in Nat,
         InOrder(book, n), Indexed(book), NEW s, s.book = book, s.remaining = req.size, s.trades = << >>,
         NEW S, S = RestingOn(book, Opposite(req.side))
  PROVE  Gave(S, account_id, req, s, [id \in OrderId |-> 0])
<1>. DEFINE d == [id \in OrderId |-> 0]
<1>1. d \in [OrderId -> Nat] /\ d \in [OrderId -> Int] /\ \A id \in OrderId : d[id] = 0
  OBVIOUS
<1>. HIDE DEF d
<1>2. S \in SUBSET Order /\ Opposite(req.side) \in Side /\ req.size \in Nat
  BY RequestFields, RestingMember
<1>3. Total(d) = 0
  BY <1>1, TotalZero
<1>4. \A o \in S : /\ o \in Order /\ o.id \in OrderId /\ o.remaining_size \in Nat /\ o.remaining_size > 0
                   /\ WithRemaining(o, o.remaining_size) = o
  <2>. SUFFICES ASSUME NEW o \in S
                PROVE  /\ o \in Order /\ o.id \in OrderId /\ o.remaining_size \in Nat
                       /\ o.remaining_size > 0 /\ WithRemaining(o, o.remaining_size) = o
    OBVIOUS
  <2>1. o \in Order
    BY <1>2
  <2>2. o.id \in OrderId /\ o.remaining_size \in Nat /\ WithRemaining(o, o.remaining_size) = o
    BY <2>1 DEF Order, WithRemaining
  <2>3. PICK price \in Prices : \E i \in 1 .. Len(book.queue[Opposite(req.side)][price]) :
               o = book.queue[Opposite(req.side)][price][i]
    BY <1>2, RestingMember
  <2>4. Live(o, n)
    BY <1>2, <2>3 DEF InOrder
  <2>. QED
    BY <2>1, <2>2, <2>4 DEF Live
<1>5. Depleted(S, RestingOn(s.book, Opposite(req.side)), d)
  BY <1>1, <1>4 DEF Depleted
<1>6. InTurn(S, req, d)
  BY <1>1 DEF InTurn
<1>7. s.remaining = req.size - Total(d)
  BY <1>2, <1>3
<1>8. Traded(S, account_id, req, s.trades, d)
  <2>. SUFFICES ASSUME NEW a \in Accounts, NEW c \in Currency
                PROVE  NetOf(req.pair, << >>, a, c) = Total(Shares(S, account_id, req, d, a, c))
    BY DEF Traded
  <2>. DEFINE x == Shares(S, account_id, req, d, a, c)
              e == [i \in 1 .. 0 |-> NetOfTrade(req.pair, << >>[i], a, c)]
  <2>1. x \in [OrderId -> Int]
    BY <1>1, <1>2, SharesType
  <2>2. \A id \in OrderId : x[id] = 0
    <3>. SUFFICES ASSUME NEW id \in OrderId, \E o \in S : o.id = id
                  PROVE  Share(account_id, req, OrderOf(S, id), 0, a, c) = 0
      BY <1>1 DEF Shares
    <3>1. OrderOf(S, id) \in Order
      BY <1>2 DEF OrderOf
    <3>. QED
      BY <3>1, ShareNone
  <2>3. NetOf(req.pair, << >>, a, c) = SumTo(e, 0)
    BY DEF NetOf
  <2>4. \A i \in DOMAIN e : e[i] \in Int
    OBVIOUS
  <2>. HIDE DEF x, e
  <2>5. SumTo(e, 0) = 0
    BY <2>4, SumStep
  <2>6. Total(x) = 0
    BY <2>1, <2>2, TotalZero
  <2>. QED
    BY <2>3, <2>5, <2>6 DEF x
<1>9. MadeWith(S, s.trades, d)
  <2>1. \A o \in S : ~(d[o.id] > 0)
    BY <1>1, <1>4
  <2>. QED
    BY <2>1 DEF MadeWith
<1>. QED
  BY <1>1, <1>5, <1>6, <1>7, <1>8, <1>9 DEF Gave, d

(* Matching keeps it from its first state to its last.                     *)
LEMMA MatchingGives ==
  ASSUME NEW order_id \in OrderId, NEW account_id \in Accounts,
         NEW req \in OrderRequest, NEW book \in Book, NEW n \in Nat,
         Indexed(book), InOrder(book, n),
         NEW S, S = RestingOn(book, Opposite(req.side))
  PROVE  \E d : Gave(S, account_id, req, Match(book, order_id, account_id, req), d)
<1>. DEFINE Good(s) == Indexed(s.book) /\ InOrder(s.book, n) /\ \E d : Gave(S, account_id, req, s, d)
            G == {s \in MatchState : Good(s)}
            start == [book |-> book, remaining |-> req.size, trades |-> << >>,
                      updates |-> << >>, dirty |-> {}]
<1>1. start \in MatchState
  BY RequestFields DEF MatchState
<1>2. start.book = book /\ start.remaining = req.size /\ start.trades = << >>
  OBVIOUS
<1>3. S \in SUBSET Order /\ OwnIds(S)
  BY RequestFields, RestingMember, RestingOwnIds
<1>. HIDE DEF start
<1>4. Good(start)
  <2>1. Gave(S, account_id, req, start, [id \in OrderId |-> 0])
    BY <1>2, StartGave
  <2>. QED
    BY <1>2, <2>1
<1>5. ASSUME NEW s \in G, CanFill(req, s)
      PROVE  Fill(order_id, account_id, req, s) \in G
  <2>1. s \in MatchState /\ Good(s)
    OBVIOUS
  <2>. DEFINE f == Fill(order_id, account_id, req, s)
  <2>2. /\ f \in MatchState
        /\ \E t \in Trade, q \in Seq(Order), r \in Seq(Order), left \in Nat :
             FillShape(account_id, req, s, f, n, t, q, r, left)
    BY <1>5, <2>1, FillHasShape
  <2>. HIDE DEF f
  <2>3. PICK t \in Trade, q \in Seq(Order), r \in Seq(Order), left \in Nat :
               FillShape(account_id, req, s, f, n, t, q, r, left)
    BY <2>2
  <2>4. PICK d : Gave(S, account_id, req, s, d)
    BY <2>1
  <2>5. \E e : Gave(S, account_id, req, f, e)
    BY <1>3, <2>1, <2>2, <2>3, <2>4, FillGives
  <2>6. Indexed(f.book) /\ InOrder(f.book, n)
    BY <2>3 DEF FillShape
  <2>. QED
    BY <2>2, <2>5, <2>6 DEF f
<1>6. G \in SUBSET MatchState /\ start \in G
  BY <1>1, <1>4
<1>. HIDE DEF G
<1>7. Match(book, order_id, account_id, req) \in G
  BY <1>5, <1>6, MatchInduction DEF start
<1>. QED
  BY <1>7 DEF G

-----------------------------------------------------------------------------
(* When the loop stops, what each order gave is what Exchange says.        *)

\* The sizes of the orders of S that an order of req meets before o.
AheadOf(S, req, o) ==
  [id \in OrderId |->
     IF \E j \in S : j.id = id /\ Crosses(req, j.price) /\ Sooner(Opposite(req.side), j, o)
     THEN OrderOf(S, id).remaining_size ELSE 0]

(* If something of the order is left, all it crosses is used up.           *)
LEMMA AllUsed ==
  ASSUME NEW account_id \in Accounts, NEW req \in OrderRequest,
         NEW m \in MatchState, ~CanFill(req, m), m.remaining > 0, Indexed(m.book),
         NEW S \in SUBSET Order, NEW d, Gave(S, account_id, req, m, d),
         NEW o \in S, Crosses(req, o.price)
  PROVE  d[o.id] = o.remaining_size
<1>. DEFINE side == Opposite(req.side)  b == m.book
            x == WithRemaining(o, o.remaining_size - d[o.id])
<1>1. /\ d \in [OrderId -> Nat] /\ Depleted(S, RestingOn(b, side), d)
      /\ b \in Book /\ side \in Side
      /\ o \in Order /\ o.id \in OrderId /\ o.remaining_size \in Nat /\ o.price \in Nat
  BY RequestFields, OrderFields, PricesAssumption DEF Gave, MatchState, Order
<1>2. d[o.id] \in Nat /\ d[o.id] <= o.remaining_size
  BY <1>1 DEF Depleted
<1>3. SUFFICES ASSUME d[o.id] < o.remaining_size PROVE FALSE
  BY <1>1, <1>2
<1>4. x \in RestingOn(b, side)
  BY <1>1, <1>3 DEF Depleted
<1>5. x.price = o.price
  <2>1. o.remaining_size - d[o.id] \in Nat
    BY <1>1, <1>2
  <2>. QED
    BY <1>1, <2>1, WithRemainingFacts
<1>. HIDE DEF x
<1>6. PICK p \in Prices : \E i \in 1 .. Len(b.queue[side][p]) : x = b.queue[side][p][i]
  BY <1>1, <1>4, RestingMember
<1>7. PICK i \in 1 .. Len(b.queue[side][p]) : x = b.queue[side][p][i]
  BY <1>6
<1>8. Located(b, side, p, b.queue[side][p][i])
  BY <1>1, <1>7 DEF Indexed
<1>9. x.price = p
  BY <1>7, <1>8 DEF Located
<1>10. b.queue[side][p] # << >>
  BY <1>7
<1>11. p \in Levels(b, side)
  BY <1>6, <1>10 DEF Levels
<1>12. Crosses(req, p)
  BY <1>5, <1>9
<1>. HIDE DEF b, side
<1>13. CASE req.order_type = "Market"
  <2>1. Crosses(req, BestPrice(b, side))
    BY <1>13 DEF Crosses
  <2>. QED
    BY <1>11, <2>1 DEF CanFill, b, side
<1>14. CASE req.order_type = "Limit"
  <2>1. IF req.side = "Bid" THEN req.price < p ELSE p < req.price
    BY <1>11, <1>14, NothingLeftToCross DEF b, side
  <2>2. p \in Nat /\ req.price \in Nat /\ req.side \in Side
    BY RequestFields, PricesAssumption
  <2>. QED
    BY <1>12, <1>14, <2>1, <2>2 DEF Crosses, Side
<1>. QED
  BY <1>13, <1>14, RequestFields DEF OrderType

(* AheadOf, order by order. *)
LEMMA AheadTerms ==
  ASSUME NEW req \in OrderRequest, NEW S \in SUBSET Order, OwnIds(S), NEW o \in S,
         NEW g, g = AheadOf(S, req, o)
  PROVE  /\ g \in [OrderId -> Nat]
         /\ g[o.id] = 0 /\ o.id \in OrderId
         /\ \A j \in S : j.id \in OrderId /\
              g[j.id] = IF Crosses(req, j.price) /\ Sooner(Opposite(req.side), j, o)
                        THEN j.remaining_size ELSE 0
         /\ \A id \in OrderId : (~\E j \in S : j.id = id) => g[id] = 0
<1>. DEFINE side == Opposite(req.side)
<1>1. \A j \in S : j \in Order /\ j.id \in OrderId /\ j.remaining_size \in Nat /\ OrderOf(S, j.id) = j
  BY OrderFields, OrderOfId DEF Order
<1>2. ASSUME NEW id \in OrderId, NEW j \in S, j.id = id PROVE OrderOf(S, id).remaining_size \in Nat
  BY <1>1, <1>2
<1>3. g \in [OrderId -> Nat]
  BY <1>2 DEF AheadOf
<1>4. ASSUME NEW j \in S
      PROVE  g[j.id] = IF Crosses(req, j.price) /\ Sooner(side, j, o) THEN j.remaining_size ELSE 0
  <2>1. \A i \in S : i.id = j.id => i = j
    BY DEF OwnIds
  <2>. QED
    BY <1>1, <2>1 DEF AheadOf
<1>5. ~Sooner(side, o, o)
  <2>1. o.price \in Nat /\ o.id \in Nat
    BY <1>1, OrderFields, PricesAssumption
  <2>. QED
    BY <2>1 DEF Sooner
<1>6. \A id \in OrderId : (~\E j \in S : j.id = id) => g[id] = 0
  BY DEF AheadOf
<1>. HIDE DEF side
<1>7. g[o.id] = 0
  BY <1>4, <1>5
<1>. QED
  BY <1>1, <1>3, <1>4, <1>6, <1>7 DEF side

(* The smaller of two numbers, but at least 0: all of an order, the rest   *)
(* of the size, or nothing.                                                *)
LEMMA Clamped ==
  ASSUME NEW z \in Nat, NEW v \in Int
  PROVE  Max({0, Min({z, v})}) = IF v <= 0 THEN 0 ELSE IF v <= z THEN v ELSE z
<1>1. Min({z, v}) = IF v <= z THEN v ELSE z
  BY DEF Min
<1>. DEFINE u == IF v <= z THEN v ELSE z
<1>2. u \in Int
  OBVIOUS
<1>. HIDE DEF u
<1>3. Max({0, u}) = IF u <= 0 THEN 0 ELSE u
  BY <1>2 DEF Max
<1>. QED
  BY <1>1, <1>3 DEF u

(* What order o gave is what the orders ahead of it leave of the size, at  *)
(* most all it has.                                                        *)
LEMMA TakenExact ==
  ASSUME NEW account_id \in Accounts, NEW req \in OrderRequest,
         NEW m \in MatchState, ~CanFill(req, m), Indexed(m.book),
         NEW S \in SUBSET Order, OwnIds(S), \A j \in S : j.remaining_size > 0,
         NEW d, Gave(S, account_id, req, m, d),
         NEW o \in S, Crosses(req, o.price)
  PROVE  d[o.id] = Max({0, Min({o.remaining_size, req.size - Total(AheadOf(S, req, o))})})
<1>. DEFINE side == Opposite(req.side)
            g == AheadOf(S, req, o)
            h == [g EXCEPT ![o.id] = d[o.id]]
            z == o.remaining_size  R == Total(g)  t == Total(d)  k == d[o.id]  size == req.size
<1>1. /\ d \in [OrderId -> Nat] /\ d \in [OrderId -> Int] /\ InTurn(S, req, d)
      /\ Depleted(S, RestingOn(m.book, side), d)
      /\ m.remaining = size - t /\ m.remaining \in Nat /\ size \in Nat
  BY RequestFields DEF Gave, MatchState
<1>2. /\ g \in [OrderId -> Nat] /\ g \in [OrderId -> Int] /\ g[o.id] = 0 /\ o.id \in OrderId
      /\ \A j \in S : j.id \in OrderId /\
           g[j.id] = IF Crosses(req, j.price) /\ Sooner(side, j, o) THEN j.remaining_size ELSE 0
      /\ \A id \in OrderId : (~\E j \in S : j.id = id) => g[id] = 0
  <2>. HIDE DEF side
  <2>. DEFINE u == AheadOf(S, req, o)
  <2>1. u = g
    OBVIOUS
  <2>. HIDE DEF u
  <2>2. /\ u \in [OrderId -> Nat] /\ u[o.id] = 0 /\ o.id \in OrderId
        /\ \A j \in S : j.id \in OrderId /\
             u[j.id] = IF Crosses(req, j.price) /\ Sooner(side, j, o) THEN j.remaining_size ELSE 0
        /\ \A id \in OrderId : (~\E j \in S : j.id = id) => u[id] = 0
    BY <2>1, AheadTerms DEF side
  <2>3. u \in [OrderId -> Int]
    BY <2>2
  <2>. HIDE DEF g
  <2>. QED
    BY <2>1, <2>2, <2>3
<1>. HIDE DEF g
<1>3. /\ h \in [OrderId -> Int] /\ h[o.id] = k /\ k \in Nat
      /\ \A id \in OrderId : id # o.id => h[id] = g[id]
  BY <1>1, <1>2
<1>. HIDE DEF h
<1>4. Total(h) = R + k /\ R \in Int /\ t \in Int
  <2>1. Total(h) = Total(g) + (h[o.id] - g[o.id])
    BY <1>2, <1>3, TotalChange
  <2>2. Total(g) \in Int /\ Total(d) \in Int
    BY <1>1, <1>2, TotalType
  <2>. QED
    BY <1>2, <1>3, <2>1, <2>2
<1>5. z \in Nat /\ z > 0 /\ k <= z
  BY <1>1, OrderFields DEF Depleted
<1>6. \A j \in S : /\ j \in Order /\ j.remaining_size \in Nat /\ d[j.id] \in Nat
                   /\ d[j.id] <= j.remaining_size /\ (j # o => j.id # o.id)
  BY <1>1, <1>2, OrderFields DEF Depleted, OwnIds
<1>7. ASSUME NEW id \in OrderId, d[id] > 0
      PROVE  \E j \in S : /\ j.id = id /\ Crosses(req, j.price)
                          /\ \A i \in S : Sooner(side, i, j) => d[i.id] = i.remaining_size
  BY <1>1, <1>7 DEF InTurn, Due
<1>8. ASSUME k > 0 PROVE R + k <= t
  <2>1. \A j \in S : Sooner(side, j, o) => d[j.id] = j.remaining_size
    <3>1. PICK x \in S : x.id = o.id /\ \A i \in S : Sooner(side, i, x) => d[i.id] = i.remaining_size
      BY <1>2, <1>7, <1>8
    <3>2. x = o
      BY <1>6, <3>1
    <3>. QED
      BY <3>1, <3>2
  <2>2. ASSUME NEW id \in OrderId PROVE h[id] <= d[id]
    <3>1. CASE id = o.id
      BY <1>3, <3>1
    <3>2. CASE id # o.id /\ \E j \in S : j.id = id
      <4>1. PICK j \in S : j.id = id
        BY <3>2
      <4>2. h[id] = IF Crosses(req, j.price) /\ Sooner(side, j, o) THEN j.remaining_size ELSE 0
        BY <1>2, <1>3, <3>2, <4>1
      <4>. QED
        BY <1>1, <1>6, <2>1, <4>1, <4>2
    <3>3. CASE id # o.id /\ ~\E j \in S : j.id = id
      BY <1>1, <1>2, <1>3, <3>3
    <3>. QED
      BY <3>1, <3>2, <3>3
  <2>3. Total(h) <= t
    BY <1>1, <1>3, <2>2, TotalMono
  <2>. QED
    BY <1>4, <2>3
<1>9. ASSUME k < z PROVE t <= R + k /\ t = size
  <2>1. ASSUME NEW id \in OrderId PROVE d[id] <= h[id]
    <3>1. CASE id = o.id
      BY <1>3, <3>1
    <3>2. CASE id # o.id /\ d[id] > 0
      <4>1. PICK j \in S : /\ j.id = id /\ Crosses(req, j.price)
                           /\ \A i \in S : Sooner(side, i, j) => d[i.id] = i.remaining_size
        BY <1>7, <3>2
      <4>2. ~Sooner(side, o, j)
        BY <1>3, <1>5, <1>9, <4>1
      <4>3. Sooner(side, j, o)
        <5>1. o \in Order /\ j \in Order /\ o.id # j.id
          BY <1>6, <3>2, <4>1
        <5>. QED
          BY <4>2, <5>1, SoonerTotal
      <4>4. h[id] = j.remaining_size
        BY <1>2, <1>3, <3>2, <4>1, <4>3
      <4>. QED
        BY <1>6, <4>1, <4>4
    <3>3. CASE id # o.id /\ ~(d[id] > 0)
      BY <1>1, <1>2, <1>3, <3>3
    <3>. QED
      BY <3>1, <3>2, <3>3
  <2>2. t <= Total(h)
    BY <1>1, <1>3, <2>1, TotalMono
  <2>3. ~(m.remaining > 0)
    BY <1>3, <1>5, <1>9, AllUsed
  <2>. QED
    BY <1>1, <1>4, <2>2, <2>3
<1>. HIDE DEF z, R, t, k, size
<1>10. Max({0, Min({z, size - R})}) = IF size - R <= 0 THEN 0 ELSE IF size - R <= z THEN size - R ELSE z
  BY <1>1, <1>4, <1>5, Clamped
<1>11. t <= size
  BY <1>1, <1>4
<1>12. k = IF size - R <= 0 THEN 0 ELSE IF size - R <= z THEN size - R ELSE z
  BY <1>1, <1>3, <1>4, <1>5, <1>8, <1>9, <1>11
<1>. QED
  BY <1>10, <1>12 DEF z, R, t, k, size, g

-----------------------------------------------------------------------------
(* The table of open orders.                                               *)

\* How Exchange shows order o of the market pair.
Entry(pair, o) ==
  [account_id |-> o.account_id, pair |-> pair, side |-> o.side,
   price |-> o.price, remaining |-> o.remaining_size]

\* An id is that of one resting order, in one market, on the order's side.
OneEach(B) ==
  /\ \A p \in Markets, side \in Side : \A o \in RestingOn(B[p], side) :
       o \in Order /\ o.side = side /\ o.remaining_size > 0
  /\ \A p, q \in Markets, i, j \in Side : \A x \in RestingOn(B[p], i), y \in RestingOn(B[q], j) :
       x.id = y.id => p = q /\ x = y

\* Table T holds the resting orders of the books B and nothing else.
Tabled(B, T) ==
  /\ T = [id \in DOMAIN T |-> T[id]]
  /\ \A p \in Markets, side \in Side : \A o \in RestingOn(B[p], side) :
       o.id \in DOMAIN T /\ T[o.id] = Entry(p, o)
  /\ \A id \in DOMAIN T : \E p \in Markets, side \in Side : \E o \in RestingOn(B[p], side) :
       o.id = id /\ T[id] = Entry(p, o)

TableExact == OneEach(books) /\ Tabled(books, OpenTable)

(* What is open is what rests in some book.                                *)
LEMMA OpenMember ==
  ASSUME NEW x
  PROVE  x \in Open <=> \E p \in Markets, side \in Side : \E o \in RestingOn(books[p], side) :
                          x = [pair |-> p, order |-> o]
<1>1. ASSUME x \in Open
      PROVE  \E p \in Markets, side \in Side : \E o \in RestingOn(books[p], side) :
               x = [pair |-> p, order |-> o]
  <2>1. PICK k \in Markets \X Side \X Prices :
               x \in {[pair |-> k[1], order |-> o] : o \in Range(Queue(k[1], k[2], k[3]))}
    BY <1>1 DEF Open
  <2>2. PICK o \in Range(Queue(k[1], k[2], k[3])) : x = [pair |-> k[1], order |-> o]
    BY <2>1
  <2>3. o \in RestingOn(books[k[1]], k[2])
    BY <2>2 DEF RestingOn, Queue
  <2>. QED
    BY <2>2, <2>3
<1>2. ASSUME NEW p \in Markets, NEW side \in Side, NEW o \in RestingOn(books[p], side),
             x = [pair |-> p, order |-> o]
      PROVE  x \in Open
  <2>1. PICK price \in Prices : o \in Range(books[p].queue[side][price])
    BY DEF RestingOn
  <2>. DEFINE k == <<p, side, price>>
  <2>2. k \in Markets \X Side \X Prices /\ k[1] = p /\ k[2] = side /\ k[3] = price
    OBVIOUS
  <2>. HIDE DEF k
  <2>3. x \in {[pair |-> k[1], order |-> y] : y \in Range(Queue(k[1], k[2], k[3]))}
    BY <1>2, <2>1, <2>2 DEF Queue
  <2>. QED
    BY <2>2, <2>3 DEF Open
<1>. QED
  BY <1>1, <1>2

(* Every id is that of one order, which is at its place in the table.      *)
LEMMA TableFacts == EngineInv => TableExact
<1>. SUFFICES ASSUME EngineInv PROVE TableExact
  OBVIOUS
<1>1. /\ books \in [Markets -> Book]
      /\ \A p \in Markets : WellKept(books[p], next_order_id)
      /\ next_order_id \in Nat
      /\ \A p \in Markets : \A id \in DOMAIN books[p].order_index : order_pair[id] = p
  BY MaxOrdersAssumption DEF EngineInv, TypeOK, IndexExact
<1>2. ASSUME NEW p \in Markets, NEW side \in Side, NEW o \in RestingOn(books[p], side)
      PROVE  /\ o \in Order /\ o.side = side /\ o.remaining_size > 0
             /\ o.id \in DOMAIN books[p].order_index
             /\ books[p].order_index[o.id].side = side
  <2>. DEFINE b == books[p]
  <2>1. b \in Book /\ Indexed(b) /\ InOrder(b, next_order_id)
    BY <1>1 DEF WellKept
  <2>2. o \in RestingOn(b, side)
    OBVIOUS
  <2>. HIDE DEF b
  <2>3. PICK price \in Prices : \E i \in 1 .. Len(b.queue[side][price]) : o = b.queue[side][price][i]
    BY <2>1, <2>2, RestingMember
  <2>4. PICK i \in 1 .. Len(b.queue[side][price]) : o = b.queue[side][price][i]
    BY <2>3
  <2>5. o \in Order
    BY <2>1, <2>2, RestingMember
  <2>6. Located(b, side, price, o) /\ Live(o, next_order_id)
    BY <2>1, <2>4 DEF Indexed, InOrder
  <2>. QED
    BY <2>5, <2>6 DEF Located, Live, b
<1>3. ASSUME NEW p \in Markets, NEW q \in Markets, NEW i \in Side, NEW j \in Side,
             NEW x \in RestingOn(books[p], i), NEW y \in RestingOn(books[q], j), x.id = y.id
      PROVE  p = q /\ x = y
  <2>1. order_pair[x.id] = p /\ order_pair[y.id] = q
    BY <1>1, <1>2
  <2>2. p = q
    BY <1>3, <2>1
  <2>3. i = j
    BY <1>2, <1>3, <2>2
  <2>4. OwnIds(RestingOn(books[p], i))
    BY <1>1, RestingOwnIds DEF WellKept
  <2>. QED
    BY <1>3, <2>2, <2>3, <2>4 DEF OwnIds
<1>4. OneEach(books)
  BY <1>2, <1>3 DEF OneEach
<1>. DEFINE T == OpenTable
<1>5. ASSUME NEW p \in Markets, NEW side \in Side, NEW o \in RestingOn(books[p], side)
      PROVE  o.id \in DOMAIN T /\ T[o.id] = Entry(p, o)
  <2>. DEFINE x == [pair |-> p, order |-> o]
              z == CHOOSE y \in Open : y.order.id = o.id
  <2>1. x \in Open /\ x.order.id = o.id
    BY OpenMember
  <2>2. o.id \in DOMAIN T
    BY <2>1 DEF OpenTable
  <2>3. z \in Open /\ z.order.id = o.id
    BY <2>1
  <2>4. T[o.id] = [account_id |-> z.order.account_id, pair |-> z.pair, side |-> z.order.side,
                   price |-> z.order.price, remaining |-> z.order.remaining_size]
    BY <2>2 DEF OpenTable
  <2>. HIDE DEF T, z
  <2>5. PICK q \in Markets, s \in Side : \E y \in RestingOn(books[q], s) : z = [pair |-> q, order |-> y]
    BY <2>3, OpenMember
  <2>6. PICK y \in RestingOn(books[q], s) : z = [pair |-> q, order |-> y]
    BY <2>5
  <2>7. q = p /\ y = o
    BY <1>3, <2>3, <2>6
  <2>. QED
    BY <2>2, <2>4, <2>6, <2>7 DEF Entry
<1>6. ASSUME NEW id \in DOMAIN T
      PROVE  \E p \in Markets, side \in Side : \E o \in RestingOn(books[p], side) :
               o.id = id /\ T[id] = Entry(p, o)
  <2>1. PICK x \in Open : x.order.id = id
    BY DEF OpenTable
  <2>. HIDE DEF T
  <2>2. PICK p \in Markets, side \in Side : \E o \in RestingOn(books[p], side) : x = [pair |-> p, order |-> o]
    BY OpenMember
  <2>. QED
    BY <1>5, <2>1, <2>2
<1>7. T = [id \in DOMAIN T |-> T[id]]
  BY DEF OpenTable
<1>. HIDE DEF T
<1>8. Tabled(books, T)
  BY <1>5, <1>6, <1>7 DEF Tabled
<1>. QED
  BY <1>4, <1>8 DEF TableExact, T

-----------------------------------------------------------------------------
(* Exchange's operators, over that table.                                  *)

(* The sums of the two modules are the same. *)
LEMMA SameSum ==
  ASSUME NEW f, NEW d \in [OrderId -> Int],
         \A id \in OrderId : d[id] = IF id \in DOMAIN f THEN f[id] ELSE 0
  PROVE  X!SumOf(f) = Total(d)
<1>. DEFINE e == [n \in 1 .. MaxOrders |-> IF n - 1 \in DOMAIN f THEN f[n - 1] ELSE 0]
            g == [n \in 1 .. MaxOrders |-> d[n - 1]]
<1>1. X!SumOf(f) = SumTo(e, MaxOrders)
  BY DEF X!SumOf, X!SumTo, X!Loop, SumTo, Loop
<1>2. \A n \in 1 .. MaxOrders : n - 1 \in OrderId
  BY TotalTerms
<1>3. e = g
  BY <1>2
<1>. HIDE DEF e, g
<1>. QED
  BY <1>1, <1>3 DEF Total, g

\* S are the orders an order of req may meet, as the table shows them.
Facing(S, req) ==
  /\ req.pair \in Markets
  /\ S = RestingOn(books[req.pair], Opposite(req.side))
  /\ S \in SUBSET Order /\ OwnIds(S)
  /\ \A o \in S : /\ o.side = Opposite(req.side) /\ o.remaining_size > 0
                  /\ o.id \in DOMAIN OpenTable /\ OpenTable[o.id] = Entry(req.pair, o)
  /\ X!Eligible(req) = {o.id : o \in {j \in S : Crosses(req, j.price)}}

(* They are the eligible ones. *)
LEMMA EligibleExact ==
  ASSUME TableExact, NEW req \in OrderRequest, req.pair \in Markets,
         NEW S, S = RestingOn(books[req.pair], Opposite(req.side))
  PROVE  Facing(S, req)
<1>. DEFINE p == req.pair  opp == Opposite(req.side)  T == OpenTable
<1>1. req.side \in Side /\ opp \in Side /\ opp # req.side
  BY RequestFields
<1>2. \A o \in S : /\ o \in Order /\ o.side = opp /\ o.remaining_size > 0
                   /\ o.id \in DOMAIN T /\ T[o.id] = Entry(p, o)
  BY <1>1 DEF TableExact, OneEach, Tabled
<1>3. OwnIds(S)
  BY <1>1 DEF TableExact, OneEach, OwnIds
<1>4. ASSUME NEW id \in DOMAIN T, T[id].pair = p, T[id].side # req.side
      PROVE  \E o \in S : o.id = id
  <2>1. PICK q \in Markets, side \in Side : \E o \in RestingOn(books[q], side) :
               o.id = id /\ T[id] = Entry(q, o)
    BY DEF TableExact, Tabled
  <2>2. PICK o \in RestingOn(books[q], side) : o.id = id /\ T[id] = Entry(q, o)
    BY <2>1
  <2>3. q = p /\ o.side # req.side
    BY <1>4, <2>2 DEF Entry
  <2>4. o.side = side
    BY DEF TableExact, OneEach
  <2>5. side = opp
    BY <1>1, <2>3, <2>4 DEF Side
  <2>. QED
    BY <2>2, <2>3, <2>5
<1>. DEFINE may(price) == \/ req.order_type = "Market"
                          \/ req.side = "Bid" /\ price <= req.price
                          \/ req.side = "Ask" /\ price >= req.price
<1>5. X!Eligible(req) = {id \in DOMAIN T : T[id].pair = p /\ T[id].side # req.side /\ may(T[id].price)}
  BY DEF X!Eligible
<1>6. \A price : may(price) <=> Crosses(req, price)
  BY DEF Crosses
<1>7. \A o \in S : Entry(p, o).pair = p /\ Entry(p, o).side = o.side /\ Entry(p, o).price = o.price
  BY DEF Entry
<1>. HIDE DEF T, p, may, opp
<1>8. ASSUME NEW id \in X!Eligible(req) PROVE \E o \in S : o.id = id /\ Crosses(req, o.price)
  <2>1. id \in DOMAIN T /\ T[id].pair = p /\ T[id].side # req.side /\ may(T[id].price)
    BY <1>5
  <2>2. PICK o \in S : o.id = id
    BY <1>4, <2>1
  <2>. QED
    BY <1>2, <1>6, <1>7, <2>1, <2>2
<1>9. ASSUME NEW o \in S, Crosses(req, o.price) PROVE o.id \in X!Eligible(req)
  <2>1. T[o.id].pair = p /\ T[o.id].side = opp /\ T[o.id].price = o.price
    BY <1>2, <1>7
  <2>. QED
    BY <1>1, <1>2, <1>5, <1>6, <1>9, <2>1
<1>10. X!Eligible(req) = {o.id : o \in {j \in S : Crosses(req, j.price)}}
  BY <1>8, <1>9
<1>. QED
  BY <1>2, <1>3, <1>10 DEF Facing, T, p, opp

(* What is ahead of an order there is what is ahead of it in the book.     *)
LEMMA AheadExact ==
  ASSUME NEW req \in OrderRequest, NEW S, Facing(S, req), NEW o \in S
  PROVE  X!Remaining(X!Ahead(req, o.id)) = Total(AheadOf(S, req, o))
<1>. DEFINE side == Opposite(req.side)  T == OpenTable
            A == X!Ahead(req, o.id)
            f == [j \in A |-> T[j].remaining]
            g == AheadOf(S, req, o)
<1>1. /\ S \in SUBSET Order /\ OwnIds(S)
      /\ \A j \in S : j.side = side /\ T[j.id] = Entry(req.pair, j)
      /\ X!Eligible(req) = {j.id : j \in {i \in S : Crosses(req, i.price)}}
  BY DEF Facing
<1>2. \A j \in S : /\ T[j.id].side = side /\ T[j.id].price = j.price
                   /\ T[j.id].remaining = j.remaining_size
  <2>. HIDE DEF T, side
  <2>1. \A j \in S : /\ Entry(req.pair, j).side = j.side /\ Entry(req.pair, j).price = j.price
                     /\ Entry(req.pair, j).remaining = j.remaining_size
    BY DEF Entry
  <2>. QED
    BY <1>1, <2>1
<1>3. ASSUME NEW j \in S
      PROVE  j.id \in A <=> Crosses(req, j.price) /\ Sooner(side, j, o)
  <2>. HIDE DEF T
  <2>1. j.id \in A <=> /\ j.id \in X!Eligible(req)
                       /\ \/ X!Better(T[o.id].side, T[j.id].price, T[o.id].price)
                          \/ T[j.id].price = T[o.id].price /\ j.id < o.id
    BY DEF X!Ahead, T
  <2>2. j.id \in X!Eligible(req) <=> Crosses(req, j.price)
    BY <1>1 DEF OwnIds
  <2>3. X!Better(side, j.price, o.price) <=> IF side = "Ask" THEN j.price < o.price ELSE j.price > o.price
    BY DEF X!Better
  <2>. QED
    BY <1>2, <2>1, <2>2, <2>3 DEF Sooner
<1>4. \A id \in A : \E j \in S : j.id = id
  BY <1>1 DEF X!Ahead
<1>5. /\ g \in [OrderId -> Nat]
      /\ \A j \in S : j.id \in OrderId /\
           g[j.id] = IF Crosses(req, j.price) /\ Sooner(side, j, o) THEN j.remaining_size ELSE 0
      /\ \A id \in OrderId : (~\E j \in S : j.id = id) => g[id] = 0
  BY <1>1, AheadTerms
<1>. HIDE DEF A, g
<1>6. DOMAIN f = A /\ \A id \in A : f[id] = T[id].remaining
  OBVIOUS
<1>7. X!Remaining(A) = X!SumOf(f)
  BY DEF X!Remaining
<1>. HIDE DEF f, T, side
<1>8. ASSUME NEW id \in OrderId PROVE g[id] = IF id \in DOMAIN f THEN f[id] ELSE 0
  <2>1. CASE \E j \in S : j.id = id
    <3>1. PICK j \in S : j.id = id
      BY <2>1
    <3>. QED
      BY <1>2, <1>3, <1>5, <1>6, <3>1
  <2>2. CASE ~\E j \in S : j.id = id
    BY <1>4, <1>5, <1>6, <2>2
  <2>. QED
    BY <2>1, <2>2
<1>9. g \in [OrderId -> Int]
  BY <1>5
<1>10. X!SumOf(f) = Total(g)
  BY <1>8, <1>9, SameSum
<1>. QED
  BY <1>7, <1>10 DEF g, A

\* m is where matching an order of req ended, after S gave d.
Matched(S, account_id, req, m, d) ==
  /\ m \in MatchState /\ Indexed(m.book) /\ ~CanFill(req, m)
  /\ Gave(S, account_id, req, m, d)

(* Exchange takes from each order what it gave ...                         *)
LEMMA ExchangeTakes ==
  ASSUME NEW account_id \in Accounts, NEW req \in OrderRequest, NEW S, Facing(S, req),
         NEW m, NEW d, Matched(S, account_id, req, m, d),
         NEW o \in S, Crosses(req, o.price)
  PROVE  X!Taken(req, o.id) = d[o.id]
<1>1. /\ S \in SUBSET Order /\ OwnIds(S) /\ \A j \in S : j.remaining_size > 0
      /\ OpenTable[o.id].remaining = o.remaining_size
  <2>1. OpenTable[o.id] = Entry(req.pair, o)
    BY DEF Facing
  <2>2. Entry(req.pair, o).remaining = o.remaining_size
    BY DEF Entry
  <2>. QED
    BY <2>1, <2>2 DEF Facing
<1>2. d[o.id] = Max({0, Min({o.remaining_size, req.size - Total(AheadOf(S, req, o))})})
  BY <1>1, TakenExact DEF Matched
<1>3. X!Remaining(X!Ahead(req, o.id)) = Total(AheadOf(S, req, o))
  BY AheadExact
<1>4. X!Taken(req, o.id) = X!Max({0, X!Min({OpenTable[o.id].remaining,
                                            req.size - X!Remaining(X!Ahead(req, o.id))})})
  BY DEF X!Taken
<1>5. \A U : X!Max(U) = Max(U) /\ X!Min(U) = Min(U)
  BY DEF X!Max, X!Min, Max, Min
<1>. QED
  BY <1>1, <1>2, <1>3, <1>4, <1>5

(* ... the ids it does not take from gave nothing ...                      *)
LEMMA NoneFromOthers ==
  ASSUME NEW req \in OrderRequest, NEW S, Facing(S, req), NEW d \in [OrderId -> Nat],
         InTurn(S, req, d), NEW id \in OrderId, id \notin X!Eligible(req)
  PROVE  d[id] = 0
<1>. SUFFICES ASSUME d[id] # 0 PROVE FALSE
  OBVIOUS
<1>1. d[id] > 0
  <2>. DEFINE g == d[id]
  <2>1. g \in Nat
    OBVIOUS
  <2>. HIDE DEF g
  <2>. QED
    BY <2>1 DEF g
<1>2. PICK o \in S : o.id = id /\ Crosses(req, o.price)
  BY <1>1 DEF InTurn, Due
<1>. QED
  BY <1>2 DEF Facing

(* ... in all it takes what they gave ...                                  *)
LEMMA ExchangeFills ==
  ASSUME NEW account_id \in Accounts, NEW req \in OrderRequest, NEW S, Facing(S, req),
         NEW m, NEW d, Matched(S, account_id, req, m, d)
  PROVE  X!SumOf([i \in X!Eligible(req) |-> X!Taken(req, i)]) = Total(d)
<1>. DEFINE A == X!Eligible(req)  f == [i \in A |-> X!Taken(req, i)]
<1>1. A = {o.id : o \in {j \in S : Crosses(req, j.price)}}
  BY DEF Facing
<1>2. d \in [OrderId -> Nat] /\ InTurn(S, req, d)
  BY DEF Matched, Gave
<1>3. \A i \in A : X!Taken(req, i) = d[i]
  <2>. HIDE DEF A
  <2>. SUFFICES ASSUME NEW i \in A PROVE X!Taken(req, i) = d[i]
    OBVIOUS
  <2>1. PICK o \in S : o.id = i /\ Crosses(req, o.price)
    BY <1>1
  <2>. QED
    BY <2>1, ExchangeTakes
<1>4. \A id \in OrderId : id \notin A => d[id] = 0
  BY <1>2, NoneFromOthers
<1>. HIDE DEF A
<1>5. DOMAIN f = A /\ \A i \in A : f[i] = d[i]
  BY <1>3
<1>6. d \in [OrderId -> Int]
  BY <1>2
<1>. HIDE DEF f
<1>7. \A id \in OrderId : d[id] = IF id \in DOMAIN f THEN f[id] ELSE 0
  BY <1>4, <1>5
<1>8. X!SumOf(f) = Total(d)
  BY <1>6, <1>7, SameSum
<1>. QED
  BY <1>8 DEF f, A

(* ... and every account receives what they moved.                         *)
LEMMA ExchangeReceives ==
  ASSUME NEW account_id \in Accounts, NEW req \in OrderRequest, NEW S, Facing(S, req),
         NEW m, NEW d, Matched(S, account_id, req, m, d),
         NEW a \in Accounts, NEW c \in Currency
  PROVE  X!Received(account_id, req, a, c) = Total(Shares(S, account_id, req, d, a, c))
<1>. DEFINE A == X!Eligible(req)
            g == Shares(S, account_id, req, d, a, c)
            part(i) == Share(account_id, req, OpenTable[i], X!Taken(req, i), a, c)
            f == [i \in A |-> part(i)]
<1>1. /\ A = {o.id : o \in {j \in S : Crosses(req, j.price)}}
      /\ S \in SUBSET Order /\ OwnIds(S)
      /\ \A o \in S : OpenTable[o.id] = Entry(req.pair, o)
  BY DEF Facing
<1>2. d \in [OrderId -> Nat] /\ InTurn(S, req, d)
  BY DEF Matched, Gave
<1>3. X!Received(account_id, req, a, c) = X!SumOf(f)
  <2>1. req.side = "Bid" <=> req.side # "Ask"
    BY DEF OrderRequest, Side
  <2>. QED
    BY <2>1 DEF X!Received, Share
<1>4. ASSUME NEW o \in S
      PROVE  /\ o \in Order /\ o.id \in OrderId
             /\ g[o.id] = Share(account_id, req, o, d[o.id], a, c)
  <2>1. o \in Order /\ o.id \in OrderId
    <3>1. o \in Order
      BY <1>1
    <3>. QED
      BY <3>1 DEF Order
  <2>2. OrderOf(S, o.id) = o
    BY <1>1, OrderOfId
  <2>. QED
    BY <2>1, <2>2 DEF Shares
<1>5. \A id \in OrderId : (~\E o \in S : o.id = id) => g[id] = 0
  BY DEF Shares
<1>6. g \in [OrderId -> Int]
  BY <1>1, <1>2, SharesType
<1>7. ASSUME NEW o \in S, Crosses(req, o.price) PROVE part(o.id) = g[o.id]
  <2>1. X!Taken(req, o.id) = d[o.id]
    BY <1>7, ExchangeTakes
  <2>2. OpenTable[o.id].account_id = o.account_id /\ OpenTable[o.id].price = o.price
    <3>1. OpenTable[o.id] = Entry(req.pair, o)
      BY <1>1
    <3>2. Entry(req.pair, o).account_id = o.account_id /\ Entry(req.pair, o).price = o.price
      BY DEF Entry
    <3>. QED
      BY <3>1, <3>2
  <2>3. part(o.id) = Share(account_id, req, o, d[o.id], a, c)
    BY <2>1, <2>2 DEF Share
  <2>. QED
    BY <1>4, <2>3
<1>8. ASSUME NEW o \in S, ~Crosses(req, o.price) PROVE g[o.id] = 0
  <2>1. o.id \notin A
    BY <1>1, <1>8 DEF OwnIds
  <2>2. d[o.id] = 0
    BY <1>2, <1>4, <2>1, NoneFromOthers
  <2>. QED
    BY <1>4, <2>2, ShareNone
<1>9. DOMAIN f = A /\ \A i \in A : f[i] = part(i)
  OBVIOUS
<1>. HIDE DEF f, g, part, A
<1>10. ASSUME NEW id \in OrderId PROVE g[id] = IF id \in DOMAIN f THEN f[id] ELSE 0
  <2>1. CASE id \in A
    <3>1. PICK o \in S : o.id = id /\ Crosses(req, o.price)
      BY <1>1, <2>1
    <3>. QED
      BY <1>7, <1>9, <2>1, <3>1
  <2>2. CASE id \notin A /\ \E o \in S : o.id = id
    <3>1. PICK o \in S : o.id = id
      BY <2>2
    <3>2. ~Crosses(req, o.price)
      BY <1>1, <2>2, <3>1
    <3>. QED
      BY <1>8, <1>9, <2>2, <3>1, <3>2
  <2>3. CASE ~\E o \in S : o.id = id
    BY <1>1, <1>5, <1>9, <2>3
  <2>. QED
    BY <2>1, <2>2, <2>3
<1>11. X!SumOf(f) = Total(g)
  BY <1>6, <1>10, SameSum
<1>. QED
  BY <1>3, <1>11 DEF g

-----------------------------------------------------------------------------
(* The table from step to step.                                            *)

(* Two tables of the same books are the same.                              *)
LEMMA TableUnique ==
  ASSUME NEW B, NEW T, NEW U, Tabled(B, T), Tabled(B, U)
  PROVE  T = U
<1>1. /\ T = [id \in DOMAIN T |-> T[id]] /\ U = [id \in DOMAIN U |-> U[id]]
      /\ \A p \in Markets, side \in Side : \A o \in RestingOn(B[p], side) :
           o.id \in DOMAIN T /\ T[o.id] = Entry(p, o) /\ o.id \in DOMAIN U /\ U[o.id] = Entry(p, o)
  BY DEF Tabled
<1>2. ASSUME NEW id \in DOMAIN T PROVE id \in DOMAIN U /\ U[id] = T[id]
  <2>1. PICK p \in Markets, side \in Side : \E o \in RestingOn(B[p], side) : o.id = id
    BY DEF Tabled
  <2>. QED
    BY <1>1, <2>1
<1>3. ASSUME NEW id \in DOMAIN U PROVE id \in DOMAIN T
  <2>1. PICK p \in Markets, side \in Side : \E o \in RestingOn(B[p], side) : o.id = id
    BY DEF Tabled
  <2>. QED
    BY <1>1, <2>1
<1>4. DOMAIN T = DOMAIN U
  BY <1>2, <1>3
<1>. QED
  BY <1>1, <1>2, <1>4

\* Books C are B with the orders Y instead of X on one side of one market.
Changed(B, C, pair, s, X0, Y0) ==
  /\ pair \in Markets /\ s \in Side
  /\ RestingOn(B[pair], s) = X0 /\ RestingOn(C[pair], s) = Y0
  /\ \A p \in Markets, side \in Side :
       p # pair \/ side # s => RestingOn(C[p], side) = RestingOn(B[p], side)

(* One more order, with a new id, is one more entry.                       *)
LEMMA TableWith ==
  ASSUME NEW B, NEW C, NEW T, Tabled(B, T), NEW pair, NEW s, NEW Z, NEW o,
         Changed(B, C, pair, s, Z, Z \cup {o}), o.id \notin DOMAIN T
  PROVE  Tabled(C, X!With(T, o.id, Entry(pair, o)))
<1>. DEFINE U == X!With(T, o.id, Entry(pair, o))
<1>1. /\ DOMAIN U = DOMAIN T \cup {o.id} /\ U = [id \in DOMAIN U |-> U[id]]
      /\ U[o.id] = Entry(pair, o) /\ \A id \in DOMAIN T : U[id] = T[id]
  BY DEF X!With
<1>. HIDE DEF U
<1>2. ASSUME NEW p \in Markets, NEW side \in Side, NEW x \in RestingOn(C[p], side)
      PROVE  x.id \in DOMAIN U /\ U[x.id] = Entry(p, x)
  <2>1. CASE x = o /\ p = pair
    BY <1>1, <2>1
  <2>2. CASE x \in RestingOn(B[p], side)
    <3>1. x.id \in DOMAIN T /\ T[x.id] = Entry(p, x)
      BY <2>2 DEF Tabled
    <3>. QED
      BY <1>1, <3>1
  <2>. QED
    BY <2>1, <2>2 DEF Changed
<1>3. ASSUME NEW id \in DOMAIN U
      PROVE  \E p \in Markets, side \in Side : \E x \in RestingOn(C[p], side) :
               x.id = id /\ U[id] = Entry(p, x)
  <2>1. CASE id = o.id
    <3>1. o \in RestingOn(C[pair], s) /\ pair \in Markets /\ s \in Side
      BY DEF Changed
    <3>. QED
      BY <1>1, <2>1, <3>1
  <2>2. CASE id \in DOMAIN T
    <3>1. PICK p \in Markets, side \in Side : \E x \in RestingOn(B[p], side) :
                 x.id = id /\ T[id] = Entry(p, x)
      BY <2>2 DEF Tabled
    <3>2. RestingOn(B[p], side) \subseteq RestingOn(C[p], side)
      BY DEF Changed
    <3>. QED
      BY <1>1, <2>2, <3>1, <3>2
  <2>. QED
    BY <1>1, <2>1, <2>2
<1>. QED
  BY <1>1, <1>2, <1>3 DEF Tabled, U

(* One order less is one entry less.                                       *)
LEMMA TableWithout ==
  ASSUME NEW B, NEW C, NEW T, OneEach(B), Tabled(B, T), NEW pair, NEW s, NEW Z, NEW o \in Z,
         Changed(B, C, pair, s, Z, Z \ {o})
  PROVE  o.id \in DOMAIN T /\ Tabled(C, X!Without(T, {o.id}))
<1>. DEFINE U == X!Without(T, {o.id})
<1>1. /\ DOMAIN U = DOMAIN T \ {o.id} /\ U = [id \in DOMAIN U |-> U[id]]
      /\ \A id \in DOMAIN U : U[id] = T[id]
  BY DEF X!Without, X!Restrict
<1>. HIDE DEF U
<1>2. /\ pair \in Markets /\ s \in Side /\ o \in RestingOn(B[pair], s)
      /\ \A p \in Markets, side \in Side : RestingOn(C[p], side) \subseteq RestingOn(B[p], side)
      /\ \A p \in Markets, side \in Side : \A x \in RestingOn(B[p], side) :
           x # o => x \in RestingOn(C[p], side)
  BY DEF Changed
<1>3. o \notin RestingOn(C[pair], s)
  BY DEF Changed
<1>4. ASSUME NEW p \in Markets, NEW side \in Side, NEW x \in RestingOn(C[p], side)
      PROVE  x.id # o.id
  <2>. SUFFICES ASSUME x.id = o.id PROVE FALSE
    OBVIOUS
  <2>1. x \in RestingOn(B[p], side)
    BY <1>2
  <2>2. p = pair /\ x = o
    BY <1>2, <2>1 DEF OneEach
  <2>3. x.side = side /\ o.side = s
    BY <1>2, <2>1 DEF OneEach
  <2>. QED
    BY <1>3, <2>2, <2>3
<1>5. ASSUME NEW p \in Markets, NEW side \in Side, NEW x \in RestingOn(C[p], side)
      PROVE  x.id \in DOMAIN U /\ U[x.id] = Entry(p, x)
  <2>1. x.id \in DOMAIN T /\ T[x.id] = Entry(p, x)
    BY <1>2 DEF Tabled
  <2>. QED
    BY <1>1, <1>4, <2>1
<1>6. ASSUME NEW id \in DOMAIN U
      PROVE  \E p \in Markets, side \in Side : \E x \in RestingOn(C[p], side) :
               x.id = id /\ U[id] = Entry(p, x)
  <2>1. PICK p \in Markets, side \in Side : \E x \in RestingOn(B[p], side) :
               x.id = id /\ T[id] = Entry(p, x)
    BY <1>1 DEF Tabled
  <2>. QED
    BY <1>1, <1>2, <2>1
<1>7. o.id \in DOMAIN T
  BY <1>2 DEF Tabled
<1>. QED
  BY <1>1, <1>5, <1>6, <1>7 DEF Tabled, U

\* What Exchange leaves of the table when an order of req has matched.
Reduced(req) ==
  LET left == [i \in DOMAIN OpenTable |->
                 IF i \in X!Eligible(req) THEN OpenTable[i].remaining - X!Taken(req, i)
                 ELSE OpenTable[i].remaining]
  IN  [i \in {k \in DOMAIN OpenTable : left[k] > 0} |-> [OpenTable[i] EXCEPT !.remaining = left[i]]]

\* What order o of side in the market pair has left.
LeftOf(req, d, pair, side, o) ==
  IF pair = req.pair /\ side = Opposite(req.side) THEN o.remaining_size - d[o.id]
  ELSE o.remaining_size

(* That is what it shows of each order: what the order has not given.      *)
LEMMA ReducedExact ==
  ASSUME TableExact, NEW account_id \in Accounts, NEW req \in OrderRequest,
         NEW S, Facing(S, req), NEW m, NEW d, Matched(S, account_id, req, m, d)
  PROVE  /\ Reduced(req) = [id \in DOMAIN Reduced(req) |-> Reduced(req)[id]]
         /\ DOMAIN Reduced(req) \subseteq DOMAIN OpenTable
         /\ \A p \in Markets, side \in Side : \A o \in RestingOn(books[p], side) :
              LET left == LeftOf(req, d, p, side, o)
              IN  /\ o.id \in DOMAIN Reduced(req) <=> left > 0
                  /\ o.id \in DOMAIN Reduced(req) =>
                       Reduced(req)[o.id] = Entry(p, WithRemaining(o, left))
<1>. DEFINE T == OpenTable  A == X!Eligible(req)  opp == Opposite(req.side)
            left == [i \in DOMAIN T |->
                       IF i \in A THEN T[i].remaining - X!Taken(req, i) ELSE T[i].remaining]
            U == Reduced(req)
<1>1. U = [i \in {k \in DOMAIN T : left[k] > 0} |-> [T[i] EXCEPT !.remaining = left[i]]]
  BY DEF Reduced
<1>2. /\ S = RestingOn(books[req.pair], opp) /\ req.pair \in Markets /\ opp \in Side
      /\ S \in SUBSET Order /\ OwnIds(S)
      /\ A = {o.id : o \in {j \in S : Crosses(req, j.price)}}
  BY RequestFields DEF Facing
<1>3. d \in [OrderId -> Nat] /\ InTurn(S, req, d)
  BY DEF Matched, Gave
<1>4. OneEach(books) /\ Tabled(books, T)
  BY DEF TableExact
<1>5. \A i \in DOMAIN T : left[i] = IF i \in A THEN T[i].remaining - X!Taken(req, i)
                                    ELSE T[i].remaining
  OBVIOUS
<1>. HIDE DEF T, left, U, A
<1>6. /\ U = [id \in DOMAIN U |-> U[id]]
      /\ \A i : i \in DOMAIN U <=> i \in DOMAIN T /\ left[i] > 0
      /\ \A i \in DOMAIN U : U[i] = [T[i] EXCEPT !.remaining = left[i]]
  BY <1>1
<1>7. ASSUME NEW p \in Markets, NEW side \in Side, NEW o \in RestingOn(books[p], side)
      PROVE  LET y == LeftOf(req, d, p, side, o)
             IN  /\ o.id \in DOMAIN U <=> y > 0
                 /\ o.id \in DOMAIN U => U[o.id] = Entry(p, WithRemaining(o, y))
  <2>. DEFINE y == LeftOf(req, d, p, side, o)
  <2>1. o.id \in DOMAIN T /\ T[o.id] = Entry(p, o)
    BY <1>4 DEF Tabled
  <2>2. o \in Order /\ o.side = side
    BY <1>4 DEF OneEach
  <2>3. Entry(p, o).remaining = o.remaining_size
    BY DEF Entry
  <2>4. left[o.id] = y
    <3>1. CASE p = req.pair /\ side = opp
      <4>1. o \in S /\ o.id \in OrderId
        BY <1>2, <2>2, <3>1 DEF Order
      <4>2. y = o.remaining_size - d[o.id]
        BY <3>1 DEF LeftOf
      <4>3. CASE Crosses(req, o.price)
        <5>1. X!Taken(req, o.id) = d[o.id]
          BY <4>1, <4>3, ExchangeTakes
        <5>2. o.id \in A
          BY <1>2, <4>1, <4>3
        <5>. QED
          BY <1>5, <2>1, <2>3, <4>2, <5>1, <5>2
      <4>4. CASE ~Crosses(req, o.price)
        <5>1. o.id \notin A
          BY <1>2, <4>1, <4>4 DEF OwnIds
        <5>2. d[o.id] = 0
          BY <1>3, <4>1, <5>1, NoneFromOthers DEF A
        <5>3. o.remaining_size \in Nat
          BY <2>2, OrderFields
        <5>4. y = o.remaining_size
          BY <4>2, <5>2, <5>3
        <5>. QED
          BY <1>5, <2>1, <2>3, <5>1, <5>4
      <4>. QED
        BY <4>3, <4>4
    <3>2. CASE ~(p = req.pair /\ side = opp)
      <4>1. y = o.remaining_size
        BY <3>2 DEF LeftOf
      <4>2. o.id \notin A
        <5>. SUFFICES ASSUME o.id \in A PROVE FALSE
          OBVIOUS
        <5>1. PICK j \in S : j.id = o.id
          BY <1>2
        <5>2. j \in RestingOn(books[req.pair], opp)
          BY <1>2
        <5>3. p = req.pair /\ o = j
          BY <1>2, <1>4, <5>1, <5>2 DEF OneEach
        <5>4. j.side = opp
          BY <1>2, <1>4, <5>2 DEF OneEach
        <5>. QED
          BY <2>2, <3>2, <5>3, <5>4
      <4>. QED
        BY <1>5, <2>1, <2>3, <4>1, <4>2
    <3>. QED
      BY <3>1, <3>2
  <2>. HIDE DEF y
  <2>5. o.id \in DOMAIN U <=> y > 0
    BY <1>6, <2>1, <2>4
  <2>6. [Entry(p, o) EXCEPT !.remaining = y] = Entry(p, WithRemaining(o, y))
    BY <2>2 DEF Entry, WithRemaining, Order
  <2>7. o.id \in DOMAIN U => U[o.id] = Entry(p, WithRemaining(o, y))
    BY <1>6, <2>1, <2>4, <2>6
  <2>. QED
    BY <2>5, <2>7 DEF y
<1>8. DOMAIN U \subseteq DOMAIN T
  BY <1>6
<1>. QED
  BY <1>6, <1>7, <1>8 DEF U, T

(* So it is the table of the books the matching leaves.                    *)
LEMMA ReducedTabled ==
  ASSUME TableExact, books \in [Markets -> Book],
         NEW account_id \in Accounts, NEW req \in OrderRequest,
         NEW S, Facing(S, req), NEW m, NEW d, Matched(S, account_id, req, m, d),
         NEW C, C = [books EXCEPT ![req.pair] = m.book],
         RestingOn(m.book, req.side) = RestingOn(books[req.pair], req.side)
  PROVE  Tabled(C, Reduced(req))
<1>. DEFINE U == Reduced(req)  opp == Opposite(req.side)
<1>1. /\ U = [id \in DOMAIN U |-> U[id]]
      /\ DOMAIN U \subseteq DOMAIN OpenTable
      /\ \A p \in Markets, side \in Side : \A o \in RestingOn(books[p], side) :
           /\ o.id \in DOMAIN U <=> LeftOf(req, d, p, side, o) > 0
           /\ o.id \in DOMAIN U =>
                U[o.id] = Entry(p, WithRemaining(o, LeftOf(req, d, p, side, o)))
  BY ReducedExact
<1>. HIDE DEF U
<1>2. /\ S = RestingOn(books[req.pair], opp) /\ req.pair \in Markets /\ opp \in Side
      /\ S \in SUBSET Order
  BY RequestFields DEF Facing
<1>3. OneEach(books) /\ Tabled(books, OpenTable)
  BY DEF TableExact
<1>4. Depleted(S, RestingOn(m.book, opp), d) /\ d \in [OrderId -> Nat]
  BY DEF Matched, Gave
<1>5. \A p \in Markets : C[p] = IF p = req.pair THEN m.book ELSE books[p]
  BY <1>2
<1>6. req.side \in Side /\ \A side \in Side : side = opp \/ side = req.side
  BY RequestFields DEF Side
<1>7. ASSUME NEW p \in Markets, NEW side \in Side, ~(p = req.pair /\ side = opp)
      PROVE  RestingOn(C[p], side) = RestingOn(books[p], side)
  BY <1>5, <1>6, <1>7
<1>8. ASSUME NEW p \in Markets, NEW side \in Side, ~(p = req.pair /\ side = opp),
             NEW o \in RestingOn(books[p], side)
      PROVE  o.id \in DOMAIN U /\ U[o.id] = Entry(p, o)
  <2>1. LeftOf(req, d, p, side, o) = o.remaining_size
    BY <1>8 DEF LeftOf
  <2>2. o \in Order /\ o.remaining_size > 0
    BY <1>3 DEF OneEach
  <2>3. WithRemaining(o, o.remaining_size) = o
    BY <2>2 DEF WithRemaining, Order
  <2>. QED
    BY <1>1, <2>1, <2>2, <2>3
<1>9. ASSUME NEW j \in S
      PROVE  /\ j \in Order /\ j.id \in OrderId /\ j.remaining_size \in Nat /\ d[j.id] \in Nat
             /\ LeftOf(req, d, req.pair, opp, j) = j.remaining_size - d[j.id]
  <2>1. j \in Order
    BY <1>2
  <2>2. j.id \in OrderId /\ j.remaining_size \in Nat
    BY <2>1 DEF Order
  <2>. QED
    BY <1>4, <2>1, <2>2 DEF LeftOf
<1>10. ASSUME NEW o \in RestingOn(C[req.pair], opp)
       PROVE  o.id \in DOMAIN U /\ U[o.id] = Entry(req.pair, o)
  <2>1. o \in RestingOn(m.book, opp)
    BY <1>2, <1>5
  <2>2. PICK j \in S : d[j.id] < j.remaining_size
                       /\ o = WithRemaining(j, j.remaining_size - d[j.id])
    BY <1>4, <2>1 DEF Depleted
  <2>. DEFINE y == j.remaining_size - d[j.id]
  <2>3. LeftOf(req, d, req.pair, opp, j) = y /\ y > 0 /\ j \in Order
    BY <1>9, <2>2
  <2>4. o = WithRemaining(j, y)
    BY <2>2
  <2>. HIDE DEF y
  <2>5. o.id = j.id
    BY <2>3, <2>4 DEF WithRemaining, Order
  <2>6. j \in RestingOn(books[req.pair], opp)
    BY <1>2
  <2>. QED
    BY <1>1, <1>2, <2>3, <2>4, <2>5, <2>6
<1>11. ASSUME NEW id \in DOMAIN U
       PROVE  \E p \in Markets, side \in Side : \E o \in RestingOn(C[p], side) :
                o.id = id /\ U[id] = Entry(p, o)
  <2>1. PICK p \in Markets, side \in Side : \E o \in RestingOn(books[p], side) : o.id = id
    BY <1>1, <1>3 DEF Tabled
  <2>2. PICK o \in RestingOn(books[p], side) : o.id = id
    BY <2>1
  <2>3. CASE ~(p = req.pair /\ side = opp)
    BY <1>7, <1>8, <2>2, <2>3
  <2>4. CASE p = req.pair /\ side = opp
    <3>1. o \in S
      BY <1>2, <2>4
    <3>. DEFINE y == o.remaining_size - d[o.id]  x == WithRemaining(o, y)
    <3>2. LeftOf(req, d, req.pair, opp, o) = y /\ o \in Order
      BY <1>9, <3>1
    <3>3. y > 0
      BY <1>1, <2>2, <2>4, <3>2
    <3>4. d[o.id] < o.remaining_size
      BY <1>9, <3>1, <3>3
    <3>5. x \in RestingOn(m.book, opp)
      BY <1>4, <3>1, <3>4 DEF Depleted
    <3>6. x = WithRemaining(o, y)
      OBVIOUS
    <3>. HIDE DEF x, y
    <3>7. x.id = o.id
      BY <3>2, <3>6 DEF WithRemaining, Order
    <3>8. U[id] = Entry(req.pair, x)
      BY <1>1, <2>2, <2>4, <3>2, <3>6
    <3>9. x \in RestingOn(C[req.pair], opp)
      BY <1>2, <1>5, <3>5
    <3>. QED
      BY <1>2, <2>2, <3>7, <3>8, <3>9
  <2>. QED
    BY <2>3, <2>4
<1>12. ASSUME NEW p \in Markets, NEW side \in Side, NEW o \in RestingOn(C[p], side)
       PROVE  o.id \in DOMAIN U /\ U[o.id] = Entry(p, o)
  <2>1. CASE p = req.pair /\ side = opp
    BY <1>10, <2>1
  <2>2. CASE ~(p = req.pair /\ side = opp)
    BY <1>7, <1>8, <2>2
  <2>. QED
    BY <2>1, <2>2
<1>. QED
  BY <1>1, <1>11, <1>12 DEF Tabled, U

-----------------------------------------------------------------------------
(* Every command is a step of Exchange.                                    *)

(* In every state of a run the table is exact, ids are handed out in order  *)
(* and holdings are integers.                                              *)
LEMMA OpenFacts ==
  LedgerInv => /\ TableExact /\ Tabled(books, OpenTable)
               /\ \A i \in DOMAIN OpenTable : i < next_order_id
               /\ \A a \in Accounts, c \in Currency : Held(balances, a, c) \in Int
<1>. SUFFICES ASSUME LedgerInv
              PROVE  /\ TableExact /\ Tabled(books, OpenTable)
                     /\ \A i \in DOMAIN OpenTable : i < next_order_id
                     /\ \A a \in Accounts, c \in Currency : Held(balances, a, c) \in Int
  OBVIOUS
<1>4. \A a \in Accounts, c \in Currency : Held(balances, a, c) \in Int
  BY LedgerFacts DEF Held
<1>1. TableExact
  BY TableFacts DEF LedgerInv
<1>2. OneEach(books) /\ Tabled(books, OpenTable)
  BY <1>1 DEF TableExact
<1>3. ASSUME NEW i \in DOMAIN OpenTable PROVE i < next_order_id
  <2>1. PICK p \in Markets, side \in Side : \E o \in RestingOn(books[p], side) : o.id = i
    BY <1>2 DEF Tabled
  <2>2. PICK o \in RestingOn(books[p], side) : o.id = i
    BY <2>1
  <2>3. books[p] \in Book /\ InOrder(books[p], next_order_id)
    BY LedgerFacts DEF WellKept
  <2>4. PICK price \in Prices : \E k \in 1 .. Len(books[p].queue[side][price]) :
               o = books[p].queue[side][price][k]
    BY <2>3, RestingMember
  <2>. QED
    BY <2>2, <2>3, <2>4 DEF InOrder, Live
<1>. QED
  BY <1>1, <1>2, <1>3, <1>4

(* What add_order leaves rests in the table Exchange leaves.               *)
LEMMA PlaceTable ==
  ASSUME LedgerInv, NEW account_id \in Accounts, NEW req \in OrderRequest, req.pair \in Markets,
         NEW b, b = books[req.pair], NEW n \in OrderId, n = next_order_id,
         NEW S, Facing(S, req),
         NEW m, m = Match(b, n, account_id, req), MatchGood(b, req, n, m),
         NEW d, Matched(S, account_id, req, m, d),
         NEW r, r = AddOrder(b, n, account_id, req),
         NEW C, C = [books EXCEPT ![req.pair] = r.book]
  PROVE  Tabled(C, IF req.order_type = "Limit" /\ m.remaining > 0
                   THEN X!With(Reduced(req), n,
                               [account_id |-> account_id, pair |-> req.pair, side |-> req.side,
                                price |-> req.price, remaining |-> m.remaining])
                   ELSE Reduced(req))
<1>. DEFINE rests == req.order_type = "Limit" /\ m.remaining > 0
            B == [books EXCEPT ![req.pair] = m.book]
            o == [id |-> n, account_id |-> account_id, side |-> req.side,
                  price |-> req.price, size |-> req.size, remaining_size |-> m.remaining]
            e == [account_id |-> account_id, pair |-> req.pair, side |-> req.side,
                  price |-> req.price, remaining |-> m.remaining]
<1>1. r.book = IF rests THEN Rest(m.book, n, account_id, req, m.remaining) ELSE m.book
  BY DEF AddOrder, Finish
<1>2. /\ m.book \in Book /\ m.remaining \in Nat
      /\ m.book.queue[req.side] = b.queue[req.side]
  BY DEF MatchGood, MatchState
<1>3. RestingOn(m.book, req.side) = RestingOn(books[req.pair], req.side)
  BY <1>2 DEF RestingOn
<1>4. books \in [Markets -> Book] /\ TableExact
  BY OpenFacts, LedgerFacts
<1>5. Tabled(B, Reduced(req)) /\ DOMAIN Reduced(req) \subseteq DOMAIN OpenTable
  BY <1>3, <1>4, ReducedTabled, ReducedExact
<1>6. CASE ~rests
  <2>1. C = B
    BY <1>1, <1>6
  <2>. QED
    BY <1>5, <1>6, <2>1
<1>7. CASE rests
  <2>1. r.book = Rest(m.book, n, account_id, req, m.remaining)
    BY <1>1, <1>7
  <2>2. PICK x \in Order :
           /\ x.id = n /\ x.side = req.side /\ x.price = req.price
           /\ x.size = req.size /\ x.remaining_size = m.remaining
           /\ r.book \in Book /\ RestedBook(m.book, r.book, x)
    BY <1>2, <2>1, RestEffect
  <2>3. x.account_id = account_id
    <3>1. r.book.order_index[n] = [owner |-> account_id, side |-> req.side, price |-> req.price]
      <4>. DEFINE at == [owner |-> account_id, side |-> req.side, price |-> req.price]
      <4>1. r.book.order_index = With(m.book.order_index, n, at)
        <5>1. Rest(m.book, n, account_id, req, m.remaining).order_index =
                With(m.book.order_index, n, at)
          BY DEF Rest
        <5>. QED
          BY <2>1, <5>1
      <4>. HIDE DEF at
      <4>2. With(m.book.order_index, n, at)[n] = at
        BY DEF With
      <4>. QED
        BY <4>1, <4>2 DEF at
    <3>2. r.book.order_index[n] = [owner |-> x.account_id, side |-> x.side, price |-> x.price]
      BY <2>2 DEF RestedBook
    <3>. QED
      BY <3>1, <3>2
  <2>4. /\ RestingOn(r.book, req.side) = RestingOn(m.book, req.side) \cup {x}
        /\ \A side \in Side : side # req.side => RestingOn(r.book, side) = RestingOn(m.book, side)
    <3>1. /\ m.book \in Book /\ r.book \in Book /\ x \in Order
          /\ RestedBook(m.book, r.book, x) /\ x.side = req.side
      BY <1>2, <2>2
    <3>. DEFINE u == m.book  v == r.book
    <3>2. u \in Book /\ v \in Book /\ x \in Order /\ RestedBook(u, v, x)
      BY <3>1
    <3>. HIDE DEF u, v
    <3>3. /\ RestingOn(v, x.side) = RestingOn(u, x.side) \cup {x}
          /\ \A side \in Side : side # x.side => RestingOn(v, side) = RestingOn(u, side)
      BY <3>2, RestedResting
    <3>. QED
      BY <3>1, <3>3 DEF u, v
  <2>5. /\ \A p \in Markets : B[p] = IF p = req.pair THEN m.book ELSE books[p]
        /\ \A p \in Markets : C[p] = IF p = req.pair THEN r.book ELSE books[p]
    BY <1>4
  <2>6. req.side \in Side
    BY RequestFields
  <2>. HIDE DEF B
  <2>7. Changed(B, C, req.pair, req.side, RestingOn(m.book, req.side),
                RestingOn(m.book, req.side) \cup {x})
    BY <2>4, <2>5, <2>6 DEF Changed
  <2>8. x.id \notin DOMAIN Reduced(req)
    <3>1. \A i \in DOMAIN OpenTable : i < n
      BY OpenFacts
    <3>2. ~(n < n)
      BY DEF OrderId
    <3>. QED
      BY <1>5, <2>2, <3>1, <3>2
  <2>9. Tabled(C, X!With(Reduced(req), x.id, Entry(req.pair, x)))
    BY <1>5, <2>7, <2>8, TableWith DEF B
  <2>10. Entry(req.pair, x) = e
    BY <2>2, <2>3 DEF Entry
  <2>. QED
    BY <1>7, <2>2, <2>9, <2>10
<1>. QED
  BY <1>6, <1>7

(* An accepted order is an XPlace.                                         *)
LEMMA PlaceRefines ==
  ASSUME LedgerInv, LedgerInv', NEW account_id \in Accounts, NEW cid, NEW req \in OrderRequest,
         next_order_id < MaxOrders, PlaceAccepted(account_id, cid, req)
  PROVE  X!XPlace(next_order_id, account_id, req)
<1>. DEFINE n == next_order_id  b == books[req.pair]
            r == AddOrder(b, n, account_id, req)
            m == Match(b, n, account_id, req)
            S == RestingOn(b, Opposite(req.side))
            e == [account_id |-> account_id, pair |-> req.pair, side |-> req.side,
                  price |-> req.price, remaining |-> m.remaining]
<1>1. req.pair \in Markets /\ b \in Book /\ Placed(account_id, req, b, r)
  BY PlaceEffect
<1>2. n \in OrderId /\ n \in Nat /\ WellKept(b, n)
  BY <1>1, LedgerFacts, MaxOrdersAssumption DEF OrderId
<1>3. TableExact /\ \A i \in DOMAIN OpenTable : i < n
  BY OpenFacts
<1>4. Facing(S, req)
  BY <1>1, <1>3, EligibleExact
<1>. HIDE DEF r, m, e
<1>5. MatchGood(b, req, n, m) /\ ~CanFill(req, m)
  BY <1>1, <1>2, MatchKeeps DEF m, WellKept
<1>6. PICK d : Gave(S, account_id, req, m, d)
  <2>1. Indexed(b) /\ InOrder(b, n)
    BY <1>2 DEF WellKept
  <2>. QED
    BY <1>1, <1>2, <2>1, MatchingGives DEF m
<1>7. Matched(S, account_id, req, m, d)
  BY <1>5, <1>6 DEF Matched, MatchGood
<1>8. /\ m.remaining = req.size - Total(d)
      /\ X!SumOf([i \in X!Eligible(req) |-> X!Taken(req, i)]) = Total(d)
  BY <1>4, <1>6, <1>7, ExchangeFills DEF Gave
<1>9. r.trades = m.trades /\ r = AddOrder(b, n, account_id, req)
  BY DEF r, m, AddOrder, Finish
<1>10. OpenTable' = IF req.order_type = "Limit" /\ m.remaining > 0
                    THEN X!With(Reduced(req), n, e) ELSE Reduced(req)
  <2>. DEFINE U == IF req.order_type = "Limit" /\ m.remaining > 0
                   THEN X!With(Reduced(req), n, e) ELSE Reduced(req)
              C == [books EXCEPT ![req.pair] = r.book]
  <2>1. Tabled(C, U)
    BY <1>1, <1>2, <1>4, <1>5, <1>7, <1>9, PlaceTable DEF m, e
  <2>2. books' = C
    BY <1>1 DEF Placed
  <2>. HIDE DEF U, C
  <2>3. Tabled(books, OpenTable)'
    BY OpenFacts, PTL
  <2>4. Tabled(books', OpenTable')
    BY <2>3 DEF Tabled
  <2>. QED
    BY <2>1, <2>2, <2>4, TableUnique DEF U
<1>11. ASSUME NEW x \in Accounts, NEW y \in Currency
       PROVE  Held(balances', x, y) = Held(balances, x, y) + X!Received(account_id, req, x, y)
  <2>1. Held(balances', x, y) - Held(balances, x, y) = NetOfTrades(x, y)'
    BY <1>1, PlacedExplained
  <2>2. NetOfTrades(x, y)' = NetOf(req.pair, r.trades, x, y)
    <3>1. /\ batch' # << >> /\ batch'[1].events.accepted # << >>
          /\ batch'[1].events.accepted[1].req = req /\ batch'[1].events.trades = r.trades
      BY <1>1 DEF Placed
    <3>. QED
      BY <3>1 DEF NetOfTrades, NetOf
  <2>3. NetOf(req.pair, m.trades, x, y) = Total(Shares(S, account_id, req, d, x, y))
    BY <1>6 DEF Gave, Traded
  <2>4. X!Received(account_id, req, x, y) = Total(Shares(S, account_id, req, d, x, y))
    BY <1>4, <1>7, ExchangeReceives
  <2>5. Held(balances, x, y) \in Int /\ Held(balances', x, y) \in Int
    <3>1. (\A a \in Accounts, c \in Currency : Held(balances, a, c) \in Int)'
      BY OpenFacts, PTL
    <3>2. \A a \in Accounts, c \in Currency : Held(balances', a, c) \in Int
      BY <3>1
    <3>. QED
      BY <3>2, OpenFacts
  <2>. QED
    BY <1>9, <2>1, <2>2, <2>3, <2>4, <2>5
<1>12. Reduced(req) =
         LET left == [i \in DOMAIN OpenTable |->
                        IF i \in X!Eligible(req) THEN OpenTable[i].remaining - X!Taken(req, i)
                        ELSE OpenTable[i].remaining]
         IN  [i \in {k \in DOMAIN OpenTable : left[k] > 0} |->
                [OpenTable[i] EXCEPT !.remaining = left[i]]]
  BY DEF Reduced
<1>13. req.pair \in X!Markets
  BY <1>1 DEF X!Markets, X!Pair, X!IsValid, X!Currency, Markets, Pair, IsValid, Currency
<1>14. Holdings' = [x \in Accounts |-> [y \in X!Currency |->
                     Holdings[x][y] + X!Received(account_id, req, x, y)]]
  <2>1. X!Currency = Currency
    BY DEF X!Currency, Currency
  <2>2. \A x \in Accounts, y \in Currency : Holdings[x][y] = Held(balances, x, y)
    BY DEF Holdings
  <2>3. Holdings' = [x \in Accounts |-> [y \in Currency |-> Held(balances', x, y)]]
    BY DEF Holdings
  <2>. QED
    BY <1>11, <2>1, <2>2, <2>3
<1>15. \A i \in DOMAIN OpenTable : i < n
  BY <1>3
<1>16. m.remaining = req.size - X!SumOf([i \in X!Eligible(req) |-> X!Taken(req, i)])
  BY <1>8
<1>17. OpenTable' =
         LET unfilled == req.size - X!SumOf([i \in X!Eligible(req) |-> X!Taken(req, i)])
             order == [account_id |-> account_id, pair |-> req.pair, side |-> req.side,
                       price |-> req.price, remaining |-> unfilled]
         IN  IF req.order_type = "Limit" /\ unfilled > 0
             THEN X!With(Reduced(req), n, order) ELSE Reduced(req)
  BY <1>10, <1>16 DEF e
<1>. QED
  BY <1>12, <1>13, <1>14, <1>15, <1>17 DEF X!XPlace


(* An accepted cancel is an XCancel.                                       *)
LEMMA CancelRefines ==
  ASSUME LedgerInv, LedgerInv', NEW account_id, NEW cid, NEW id \in OrderId,
         CancelAccepted(account_id, cid, id)
  PROVE  \E i \in X!OrderId : X!XCancel(i)
<1>1. PICK pair, b, c, o : Freed(pair, b, c, o)
  BY CancelFrees
<1>2. /\ pair \in Markets /\ b = books[pair] /\ o \in Order
      /\ books' = [books EXCEPT ![pair] = c]
      /\ o \in RestingOn(b, o.side)
      /\ RestingOn(c, o.side) = RestingOn(b, o.side) \ {o}
      /\ \A side \in Side : side # o.side => RestingOn(c, side) = RestingOn(b, side)
  BY <1>1 DEF Freed
<1>3. o.id \in OrderId /\ o.side \in Side
  BY <1>2 DEF Order
<1>4. OneEach(books) /\ Tabled(books, OpenTable) /\ books \in [Markets -> Book]
  BY OpenFacts, LedgerFacts DEF TableExact
<1>. DEFINE C == [books EXCEPT ![pair] = c]  U == X!Without(OpenTable, {o.id})
            Z == RestingOn(b, o.side)
<1>5. \A p \in Markets : C[p] = IF p = pair THEN c ELSE books[p]
  BY <1>4
<1>6. books' = C
  BY <1>2
<1>. HIDE DEF C, U, Z
<1>7. Changed(books, C, pair, o.side, Z, Z \ {o})
  BY <1>2, <1>3, <1>5 DEF Changed, Z
<1>8. o \in Z
  BY <1>2 DEF Z
<1>9. o.id \in DOMAIN OpenTable /\ Tabled(C, U)
  BY <1>4, <1>7, <1>8, TableWithout DEF U
<1>10. OpenTable' = U
  <2>1. Tabled(books, OpenTable)'
    BY OpenFacts, PTL
  <2>2. Tabled(books', OpenTable')
    BY <2>1 DEF Tabled
  <2>. QED
    BY <1>6, <1>9, <2>2, TableUnique
<1>11. Holdings' = Holdings
  <2>1. \A x \in Accounts, y \in Currency : Held(balances', x, y) = Held(balances, x, y)
    BY <1>1, FreedKeeps
  <2>2. Holdings' = [x \in Accounts |-> [y \in Currency |-> Held(balances', x, y)]]
    BY DEF Holdings
  <2>3. Holdings = [x \in Accounts |-> [y \in Currency |-> Held(balances, x, y)]]
    BY DEF Holdings
  <2>. QED
    BY <2>1, <2>2, <2>3
<1>12. X!XCancel(o.id)
  BY <1>9, <1>10, <1>11 DEF X!XCancel, U
<1>13. o.id \in X!OrderId
  BY <1>3 DEF X!OrderId, OrderId
<1>. QED
  BY <1>12, <1>13

(* Books left alone leave the table alone.                                 *)
LEMMA TableUntouched ==
  ASSUME books' = books
  PROVE  OpenTable' = OpenTable
<1>1. Open' = Open
  BY DEF Open, Queue
<1>. QED
  BY <1>1 DEF OpenTable

(* A command that leaves books and balances alone changes nothing there.   *)
LEMMA RefusalRefines ==
  ASSUME books' = books, balances' = balances
  PROVE  UNCHANGED X!xvars
<1>1. OpenTable' = OpenTable
  BY TableUntouched
<1>2. Holdings' = Holdings
  BY DEF Holdings, Held
<1>. QED
  BY <1>1, <1>2 DEF X!xvars

(* Crediting u to an available balance moves the holding by u.             *)
LEMMA FundsMove ==
  ASSUME LedgerInv, NEW a \in Accounts, NEW c \in Currency, NEW u \in Int,
         Commit(NoEvents, Credit(Ledger0, a, c, u, 0)), books' = books
  PROVE  /\ OpenTable' = OpenTable
         /\ Holdings' = [Holdings EXCEPT ![a][c] = @ + u]
<1>1. /\ Ledger0 \in LedgerValue /\ Ledger0.balances = balances
      /\ \A x \in Accounts, y \in Currency :
           balances[x][y].available \in Int /\ balances[x][y].reserved \in Int
  BY LedgerFacts
<1>. DEFINE l == Credit(Ledger0, a, c, u, 0)
<1>2. Moved(Ledger0, l, a, c, u, 0)
  <2>. DEFINE zero == 0
  <2>1. Ledger0 \in LedgerValue /\ zero \in Int
    BY <1>1
  <2>. HIDE DEF zero, l
  <2>2. Moved(Ledger0, Credit(Ledger0, a, c, u, zero), a, c, u, zero)
    BY <2>1, CreditMoves
  <2>. QED
    BY <2>2 DEF zero, l
<1>3. balances' = l.balances
  BY DEF Commit
<1>. HIDE DEF l
<1>4. ASSUME NEW x \in Accounts, NEW y \in Currency
      PROVE  Held(balances', x, y) = Held(balances, x, y) + (IF x = a /\ y = c THEN u ELSE 0)
  <2>1. /\ balances'[x][y].available =
             balances[x][y].available + (IF x = a /\ y = c THEN u ELSE 0)
        /\ balances'[x][y].reserved =
             balances[x][y].reserved + (IF x = a /\ y = c THEN 0 ELSE 0)
    BY <1>1, <1>2, <1>3 DEF Moved
  <2>. DEFINE v == IF x = a /\ y = c THEN u ELSE 0
  <2>2. v \in Int
    OBVIOUS
  <2>3. (IF x = a /\ y = c THEN 0 ELSE 0) = 0
    OBVIOUS
  <2>. HIDE DEF v
  <2>4. Held(balances', x, y) = Held(balances, x, y) + v
    BY <1>1, <2>1, <2>2, <2>3 DEF Held, v
  <2>. QED
    BY <2>4 DEF v
<1>5. \A x \in Accounts, y \in Currency : Held(balances, x, y) \in Int
  BY <1>1 DEF Held
<1>6. Holdings' = [x \in Accounts |-> [y \in Currency |-> Held(balances', x, y)]]
  BY DEF Holdings
<1>7. Holdings = [x \in Accounts |-> [y \in Currency |-> Held(balances, x, y)]]
  BY DEF Holdings
<1>. DEFINE G == [Holdings EXCEPT ![a][c] = @ + u]
<1>8. G = [x \in Accounts |-> [y \in Currency |->
             IF x = a /\ y = c THEN Held(balances, a, c) + u ELSE Held(balances, x, y)]]
  BY <1>7
<1>. HIDE DEF G
<1>9. \A x \in Accounts, y \in Currency :
        Held(balances', x, y) = IF x = a /\ y = c THEN Held(balances, a, c) + u
                                ELSE Held(balances, x, y)
  <2>. SUFFICES ASSUME NEW x \in Accounts, NEW y \in Currency
                PROVE  Held(balances', x, y) = IF x = a /\ y = c THEN Held(balances, a, c) + u
                                               ELSE Held(balances, x, y)
    OBVIOUS
  <2>1. CASE x = a /\ y = c
    BY <1>4, <2>1
  <2>2. CASE ~(x = a /\ y = c)
    <3>1. Held(balances', x, y) = Held(balances, x, y) + 0
      BY <1>4, <2>2
    <3>. QED
      BY <1>5, <2>2, <3>1
  <2>. QED
    BY <2>1, <2>2
<1>10. Holdings' = G
  BY <1>6, <1>8, <1>9
<1>. QED
  BY <1>10, TableUntouched DEF G

(* An accepted deposit is an XDeposit ... *)
LEMMA DepositRefines ==
  ASSUME LedgerInv, NEW a \in Accounts, NEW x, NEW c \in Currency, NEW n \in Amounts,
         DepositCmd(a, x, c, n)
  PROVE  X!XDeposit(a, c, n) \/ UNCHANGED X!xvars
<1>1. /\ Commit(NoEvents, IF DepositCheck(a, c, n) = "Ok" THEN Deposit(Ledger0, a, c, n) ELSE Ledger0)
      /\ books' = books
  BY DEF DepositCmd
<1>2. n \in Int
  BY AmountsAssumption
<1>3. CASE DepositCheck(a, c, n) = "Ok"
  <2>1. Commit(NoEvents, Credit(Ledger0, a, c, n, 0))
    BY <1>1, <1>3 DEF Deposit
  <2>2. /\ OpenTable' = OpenTable
        /\ Holdings' = [Holdings EXCEPT ![a][c] = @ + n]
    BY <1>1, <1>2, <2>1, FundsMove
  <2>. QED
    BY <2>2 DEF X!XDeposit
<1>4. CASE DepositCheck(a, c, n) # "Ok"
  BY <1>1, <1>4, NothingCommitted, RefusalRefines
<1>. QED
  BY <1>3, <1>4

(* ... and an accepted withdrawal an XWithdraw.                            *)
LEMMA WithdrawRefines ==
  ASSUME LedgerInv, NEW a \in Accounts, NEW x, NEW c \in Currency, NEW n \in Amounts,
         WithdrawCmd(a, x, c, n)
  PROVE  X!XWithdraw(a, c, n) \/ UNCHANGED X!xvars
<1>. DEFINE ok == Covers(Ledger0, a, c, n)
<1>1. /\ Commit(NoEvents, IF ok THEN Withdraw(Ledger0, a, c, n) ELSE Ledger0)
      /\ books' = books
  BY DEF WithdrawCmd
<1>2. n \in Nat /\ -n \in Int
  BY AmountsAssumption
<1>3. /\ balances[a][c].available \in Int /\ balances[a][c].reserved \in Int
      /\ balances[a][c].reserved >= 0 /\ (ok => balances[a][c].available >= n)
  BY LedgerFacts DEF Covers, Funded
<1>4. Holdings[a][c] = balances[a][c].available + balances[a][c].reserved
  BY DEF Holdings, Held
<1>. HIDE DEF ok
<1>5. CASE ok
  <2>1. Commit(NoEvents, Credit(Ledger0, a, c, -n, 0))
    BY <1>1, <1>5 DEF Withdraw
  <2>2. /\ OpenTable' = OpenTable
        /\ Holdings' = [Holdings EXCEPT ![a][c] = @ + (-n)]
    BY <1>1, <1>2, <2>1, FundsMove
  <2>. DEFINE v == balances[a][c].available  w == balances[a][c].reserved  h == Holdings[a][c]
  <2>3. v \in Int /\ w \in Int /\ w >= 0 /\ v >= n /\ h = v + w
    BY <1>3, <1>4, <1>5
  <2>. HIDE DEF v, w, h
  <2>4. h >= n /\ h + (-n) = h - n
    BY <1>2, <2>3
  <2>5. Holdings[a][c] >= n /\ Holdings[a][c] + (-n) = Holdings[a][c] - n
    BY <2>4 DEF h
  <2>6. Holdings' = [Holdings EXCEPT ![a][c] = @ - n]
    BY <2>2, <2>5
  <2>. QED
    BY <2>2, <2>5, <2>6 DEF X!XWithdraw
<1>6. CASE ~ok
  BY <1>1, <1>6, NothingCommitted, RefusalRefines
<1>. QED
  BY <1>5, <1>6

(* A new engine is a new exchange. *)
LEMMA InitRefines == Init => X!XInit
<1>. SUFFICES ASSUME Init PROVE X!XInit
  OBVIOUS
<1>1. LedgerInv
  BY InitLedger
<1>2. /\ books = [pair \in Markets |-> EmptyBook]
      /\ balances = [a \in Accounts |-> [c \in Currency |-> [available |-> 0, reserved |-> 0]]]
      /\ next_order_id = 0
  BY DEF Init
<1>3. Tabled(books, OpenTable)
  BY <1>1, OpenFacts
<1>4. DOMAIN OpenTable = {}
  <2>. SUFFICES ASSUME NEW id \in DOMAIN OpenTable PROVE FALSE
    OBVIOUS
  <2>1. PICK p \in Markets, side \in Side : \E o \in RestingOn(books[p], side) : o.id = id
    BY <1>3 DEF Tabled
  <2>2. EmptyBook \in Book /\ books[p] = EmptyBook
    BY <1>1, <1>2, LedgerFacts
  <2>3. PICK o \in RestingOn(EmptyBook, side) : o.id = id
    BY <2>1, <2>2
  <2>4. PICK price \in Prices : \E i \in 1 .. Len(EmptyBook.queue[side][price]) :
               o = EmptyBook.queue[side][price][i]
    BY <2>2, <2>3, RestingMember
  <2>5. EmptyBook.queue[side][price] = << >>
    BY DEF EmptyBook
  <2>. QED
    BY <2>4, <2>5
<1>5. OpenTable = [id \in {} |-> id]
  <2>1. OpenTable = [id \in DOMAIN OpenTable |-> OpenTable[id]]
    BY <1>3 DEF Tabled
  <2>. QED
    BY <1>4, <2>1
<1>6. Holdings = [a \in Accounts |-> [c \in X!Currency |-> 0]]
  <2>1. X!Currency = Currency
    BY DEF X!Currency, Currency
  <2>2. \A a \in Accounts, c \in Currency : Held(balances, a, c) = 0
    BY <1>2 DEF Held
  <2>. QED
    BY <2>1, <2>2 DEF Holdings
<1>. QED
  BY <1>5, <1>6 DEF X!XInit

(* A command of the engine is a step of Exchange or changes nothing there. *)
LEMMA NextRefines == LedgerInv /\ [Next]_vars => [X!XNext]_(X!xvars)
<1>. SUFFICES ASSUME LedgerInv, [Next]_vars PROVE X!XNext \/ UNCHANGED X!xvars
  OBVIOUS
<1>1. LedgerInv'
  BY NextLedger
<1>2. CASE UNCHANGED vars
  BY <1>2, RefusalRefines DEF vars
<1>3. CASE Next
  <2>1. PICK a \in Accounts, x \in ClientIds : Apply(a, x)
    BY <1>3 DEF Next
  <2>2. X!OrderId = OrderId /\ X!Currency = Currency /\ X!OrderRequest = OrderRequest
    BY DEF X!OrderId, OrderId, X!Currency, Currency, X!OrderRequest, OrderRequest,
           X!Side, Side, X!OrderType, OrderType
  <2>3. ASSUME NEW req \in OrderRequest, Place(a, x, req)
        PROVE  X!XNext \/ UNCHANGED X!xvars
    <3>1. CASE PlaceAccepted(a, x, req)
      <4>1. X!XPlace(next_order_id, a, req)
        BY <1>1, <2>3, <3>1, PlaceRefines DEF Place
      <4>2. next_order_id \in OrderId
        BY <2>3, LedgerFacts, MaxOrdersAssumption DEF Place, OrderId
      <4>. QED
        BY <2>2, <4>1, <4>2 DEF X!XNext
    <3>2. CASE PlaceRejected(a, x, req)
      <4>1. Commit(NoEvents, Ledger0) /\ books' = books
        BY <3>2 DEF PlaceRejected
      <4>. QED
        BY <4>1, NothingCommitted, RefusalRefines
    <3>. QED
      BY <2>3, <3>1, <3>2 DEF Place
  <2>4. ASSUME NEW id \in OrderId, Cancel(a, x, id)
        PROVE  X!XNext \/ UNCHANGED X!xvars
    <3>1. CASE CancelAccepted(a, x, id)
      <4>1. \E i \in X!OrderId : X!XCancel(i)
        BY <1>1, <3>1, CancelRefines
      <4>. QED
        BY <4>1 DEF X!XNext
    <3>2. CASE CancelRejected(a, x, id)
      <4>1. Commit(NoEvents, Ledger0) /\ books' = books
        BY <3>2 DEF CancelRejected
      <4>. QED
        BY <4>1, NothingCommitted, RefusalRefines
    <3>. QED
      BY <2>4, <3>1, <3>2 DEF Cancel
  <2>5. ASSUME NEW c \in Currency, NEW n \in Amounts,
               DepositCmd(a, x, c, n) \/ WithdrawCmd(a, x, c, n)
        PROVE  X!XNext \/ UNCHANGED X!xvars
    <3>1. X!XDeposit(a, c, n) \/ X!XWithdraw(a, c, n) \/ UNCHANGED X!xvars
      BY <2>5, DepositRefines, WithdrawRefines
    <3>. QED
      BY <2>2, <3>1 DEF X!XNext
  <2>6. ASSUME NEW pair \in Pairs, ListPair(a, x, pair) \/ DelistPair(a, x, pair)
        PROVE  UNCHANGED X!xvars
    <3>1. Commit(NoEvents, Ledger0) /\ books' = books
      BY <2>6 DEF ListPair, DelistPair
    <3>. QED
      BY <3>1, NothingCommitted, RefusalRefines
  <2>7. ASSUME Duplicate(a, x) PROVE UNCHANGED X!xvars
    BY <2>7, RefusalRefines DEF Duplicate
  <2>. QED
    BY <2>1, <2>3, <2>4, <2>5, <2>6, <2>7 DEF Apply
<1>. QED
  BY <1>2, <1>3

(* The engine implements Exchange: for every instance each command fills   *)
(* the order it carries in price-time priority against the open orders,    *)
(* rests what a limit order leaves, and moves holdings by exactly what was *)
(* filled, or changes neither open orders nor holdings.                    *)
THEOREM EngineImplementsExchange == Spec => RefinesExchange
<1>1. Init => X!XInit
  BY InitRefines
<1>2. LedgerInv /\ [Next]_vars => [X!XNext]_(X!xvars)
  BY NextRefines
<1>. QED
  BY <1>1, <1>2, LedgerInvariant, PTL DEF Spec, RefinesExchange, X!XSpec

-----------------------------------------------------------------------------
(* would_self_trade: the scan meets an own order exactly when the matching *)
(* loop would trade with one.                                              *)

(* What is served before an order is served before what comes after it. *)
LEMMA SoonerTrans ==
  ASSUME NEW side, NEW x \in Order, NEW y \in Order, NEW z \in Order,
         Sooner(side, x, y), Sooner(side, y, z)
  PROVE  Sooner(side, x, z)
<1>. DEFINE p == x.price  q == y.price  r == z.price  i == x.id  j == y.id  k == z.id
<1>1. p \in Nat /\ q \in Nat /\ r \in Nat /\ i \in Nat /\ j \in Nat /\ k \in Nat
  BY OrderFields, PricesAssumption
<1>2. /\ (IF side = "Ask" THEN p < q ELSE p > q) \/ (p = q /\ i < j)
      /\ (IF side = "Ask" THEN q < r ELSE q > r) \/ (q = r /\ j < k)
  BY DEF Sooner
<1>3. Sooner(side, x, z) <=> (IF side = "Ask" THEN p < r ELSE p > r) \/ (p = r /\ i < k)
  BY DEF Sooner
<1>. HIDE DEF p, q, r, i, j, k
<1>. QED
  BY <1>1, <1>2, <1>3

(* What is served before a crossing order crosses too. *)
LEMMA SoonerCrosses ==
  ASSUME NEW req \in OrderRequest, NEW x \in Order, NEW y \in Order,
         Sooner(Opposite(req.side), x, y), Crosses(req, y.price)
  PROVE  Crosses(req, x.price)
<1>. DEFINE p == x.price  q == y.price  r == req.price
<1>1. p \in Nat /\ q \in Nat /\ r \in Nat /\ req.side \in Side
      /\ (Opposite(req.side) = "Ask" <=> req.side = "Bid")
  BY OrderFields, PricesAssumption, RequestFields
<1>2. (IF Opposite(req.side) = "Ask" THEN p < q ELSE p > q) \/ p = q
  BY DEF Sooner
<1>3. Crosses(req, q)
  OBVIOUS
<1>. HIDE DEF p, q, r
<1>4. Crosses(req, p)
  BY <1>1, <1>2, <1>3 DEF Crosses, Side, r
<1>. QED
  BY <1>4 DEF p

\* Nothing of S is served after x and before y.
Follows(S, side, x, y) ==
  /\ x \in S /\ y \in S /\ Sooner(side, x, y)
  /\ \A j \in S : ~(Sooner(side, x, j) /\ Sooner(side, j, y))

(* What is ahead of y includes x and what is ahead of it, and no more than *)
(* that if y follows x.                                                    *)
LEMMA AheadAdds ==
  ASSUME NEW req \in OrderRequest, NEW S \in SUBSET Order, OwnIds(S),
         NEW x \in S, NEW y \in S, Sooner(Opposite(req.side), x, y), Crosses(req, x.price)
  PROVE  /\ Total(AheadOf(S, req, x)) + x.remaining_size <= Total(AheadOf(S, req, y))
         /\ Follows(S, Opposite(req.side), x, y) =>
              Total(AheadOf(S, req, y)) = Total(AheadOf(S, req, x)) + x.remaining_size
<1>. DEFINE side == Opposite(req.side)
            Served(f, o) == \A j \in S :
              f[j.id] = IF Crosses(req, j.price) /\ Sooner(side, j, o) THEN j.remaining_size ELSE 0
            g == AheadOf(S, req, x)  f == AheadOf(S, req, y)
            v == x.remaining_size
            h == [g EXCEPT ![x.id] = v]
<1>. HIDE DEF side
<1>1. /\ g \in [OrderId -> Nat] /\ g[x.id] = 0 /\ x.id \in OrderId /\ Served(g, x)
      /\ \A id \in OrderId : (~\E j \in S : j.id = id) => g[id] = 0
  BY AheadTerms DEF side
<1>2. /\ f \in [OrderId -> Nat] /\ Served(f, y)
      /\ \A id \in OrderId : (~\E j \in S : j.id = id) => f[id] = 0
  BY AheadTerms DEF side
<1>. HIDE DEF g, f
<1>3. /\ \A j \in S : j \in Order /\ j.remaining_size \in Nat /\ (j # x => j.id # x.id)
      /\ Sooner(side, x, y) /\ v \in Nat
  BY OrderFields DEF OwnIds, side
<1>4. /\ h \in [OrderId -> Int] /\ h[x.id] = v
      /\ \A id \in OrderId : id # x.id => h[id] = g[id]
      /\ g \in [OrderId -> Int] /\ f \in [OrderId -> Int]
  BY <1>1, <1>2, <1>3
<1>. HIDE DEF h
<1>5. Total(h) = Total(g) + v /\ Total(g) \in Int /\ Total(f) \in Int
  <2>1. Total(h) = Total(g) + (h[x.id] - g[x.id])
    BY <1>1, <1>4, TotalChange
  <2>2. Total(g) \in Int /\ Total(f) \in Int
    BY <1>4, TotalType
  <2>. QED
    BY <1>1, <1>3, <1>4, <2>1, <2>2
<1>6. \A j \in S : h[j.id] = IF j = x THEN v
                             ELSE IF Crosses(req, j.price) /\ Sooner(side, j, x)
                                  THEN j.remaining_size ELSE 0
  <2>1. \A j \in S : j.id \in OrderId
    BY DEF Order
  <2>. QED
    BY <1>1, <1>3, <1>4, <2>1
<1>7. ASSUME NEW id \in OrderId PROVE h[id] <= f[id]
  <2>1. CASE \E j \in S : j.id = id
    <3>1. PICK j \in S : j.id = id
      BY <2>1
    <3>2. CASE j = x
      BY <1>2, <1>3, <1>6, <3>1, <3>2
    <3>3. CASE j # x
      <4>1. Sooner(side, j, x) => Sooner(side, j, y)
        BY <1>3, SoonerTrans
      <4>. QED
        BY <1>2, <1>3, <1>6, <3>1, <3>3, <4>1
    <3>. QED
      BY <3>2, <3>3
  <2>2. CASE ~\E j \in S : j.id = id
    BY <1>1, <1>2, <1>4, <2>2
  <2>. QED
    BY <2>1, <2>2
<1>8. Total(h) <= Total(f)
  BY <1>4, <1>7, TotalMono
<1>9. ASSUME Follows(S, side, x, y) PROVE Total(f) <= Total(h)
  <2>1. ASSUME NEW id \in OrderId PROVE f[id] <= h[id]
    <3>1. CASE \E j \in S : j.id = id
      <4>1. PICK j \in S : j.id = id
        BY <3>1
      <4>2. CASE j = x
        BY <1>2, <1>3, <1>6, <4>1, <4>2
      <4>3. CASE j # x
        <5>1. Sooner(side, j, x) \/ Sooner(side, x, j)
          BY <1>3, <4>3, SoonerTotal
        <5>2. Sooner(side, j, y) => Sooner(side, j, x)
          BY <1>9, <5>1 DEF Follows
        <5>. QED
          BY <1>2, <1>3, <1>6, <4>1, <4>3, <5>2
      <4>. QED
        BY <4>2, <4>3
    <3>2. CASE ~\E j \in S : j.id = id
      <4>1. f[id] = 0
        BY <1>2, <3>2
      <4>2. id # x.id
        BY <3>2
      <4>. QED
        BY <1>1, <1>4, <3>2, <4>1, <4>2
    <3>. QED
      BY <3>1, <3>2
  <2>. QED
    BY <1>4, <2>1, TotalMono
<1>. QED
  BY <1>3, <1>5, <1>8, <1>9 DEF g, f, v, side

(* Nothing ahead adds up to nothing. *)
LEMMA AheadNone ==
  ASSUME NEW req \in OrderRequest, NEW S \in SUBSET Order, OwnIds(S), NEW o \in S,
         \A j \in S : ~Sooner(Opposite(req.side), j, o)
  PROVE  Total(AheadOf(S, req, o)) = 0
<1>. DEFINE g == AheadOf(S, req, o)
<1>1. /\ g \in [OrderId -> Nat]
      /\ \A j \in S : g[j.id] = IF Crosses(req, j.price) /\ Sooner(Opposite(req.side), j, o)
                                THEN j.remaining_size ELSE 0
      /\ \A id \in OrderId : (~\E j \in S : j.id = id) => g[id] = 0
  BY AheadTerms
<1>. HIDE DEF g
<1>2. g \in [OrderId -> Int] /\ \A id \in OrderId : g[id] = 0
  BY <1>1
<1>3. Total(g) = 0
  BY <1>2, TotalZero
<1>. QED
  BY <1>3 DEF g

\* Account a's own order o of S is one an order of req still has size for.
Meets(S, a, req, o) ==
  /\ o \in S /\ o.account_id = a /\ Crosses(req, o.price)
  /\ Total(AheadOf(S, req, o)) < req.size

\* With left of the size, the scan is at order x, and no own order it would
\* meet is behind it.
ScanAt(S, a, req, left, x) ==
  /\ x \in S
  /\ Crosses(req, x.price) => left = req.size - Total(AheadOf(S, req, x))
  /\ \A o \in S : Meets(S, a, req, o) => o = x \/ Sooner(Opposite(req.side), x, o)

(* What is ahead of an order is an integer. *)
LEMMA AheadType ==
  ASSUME NEW req \in OrderRequest, NEW S \in SUBSET Order, OwnIds(S), NEW o \in S
  PROVE  Total(AheadOf(S, req, o)) \in Int
<1>1. AheadOf(S, req, o) \in [OrderId -> Nat]
  BY AheadTerms
<1>2. AheadOf(S, req, o) \in [OrderId -> Int]
  BY <1>1
<1>. QED
  BY <1>2, TotalType

(* What one order of the scan decides: it is met, it ends the scan, or the *)
(* scan goes on with what follows it.                                      *)
LEMMA ScanDecides ==
  ASSUME NEW a, NEW req \in OrderRequest, NEW S \in SUBSET Order, OwnIds(S),
         NEW left \in Nat, left > 0, NEW x, ScanAt(S, a, req, left, x)
  PROVE  /\ ~Crosses(req, x.price) => \A o \in S : ~Meets(S, a, req, o)
         /\ Crosses(req, x.price) =>
              /\ x.account_id = a => Meets(S, a, req, x)
              /\ x.account_id # a /\ left <= x.remaining_size =>
                   \A o \in S : ~Meets(S, a, req, o)
              /\ x.account_id # a /\ (\A o \in S : ~Sooner(Opposite(req.side), x, o)) =>
                   \A o \in S : ~Meets(S, a, req, o)
              /\ x.account_id # a => \A y \in S : Follows(S, Opposite(req.side), x, y) =>
                   ScanAt(S, a, req, left - x.remaining_size, y)
<1>. DEFINE side == Opposite(req.side)  T(o) == Total(AheadOf(S, req, o))
<1>1. /\ x \in S /\ req.size \in Nat
      /\ Crosses(req, x.price) => left = req.size - T(x)
      /\ \A o \in S : Meets(S, a, req, o) => o = x \/ Sooner(side, x, o)
      /\ \A o \in S : o \in Order /\ o.remaining_size \in Nat /\ T(o) \in Int
  BY RequestFields, OrderFields, AheadType DEF ScanAt
<1>2. \A o \in S : Meets(S, a, req, o) =>
        o.account_id = a /\ Crosses(req, o.price) /\ T(o) < req.size
  BY DEF Meets
<1>3. Crosses(req, x.price) => \A o \in S : Sooner(side, x, o) =>
        /\ T(x) + x.remaining_size <= T(o)
        /\ Follows(S, side, x, o) => T(o) = T(x) + x.remaining_size
  BY <1>1, AheadAdds
<1>. HIDE DEF T
<1>4. ASSUME ~Crosses(req, x.price), NEW o \in S PROVE ~Meets(S, a, req, o)
  BY <1>1, <1>2, <1>4, SoonerCrosses
<1>. HIDE DEF side
<1>5. ASSUME Crosses(req, x.price), x.account_id = a PROVE Meets(S, a, req, x)
  <2>1. T(x) < req.size
    BY <1>1, <1>5
  <2>. QED
    BY <1>1, <1>5, <2>1 DEF Meets, T
<1>6. ASSUME Crosses(req, x.price), x.account_id # a, left <= x.remaining_size, NEW o \in S
      PROVE  ~Meets(S, a, req, o)
  <2>. SUFFICES ASSUME Meets(S, a, req, o) PROVE FALSE
    OBVIOUS
  <2>1. Sooner(side, x, o) /\ T(o) < req.size
    BY <1>1, <1>2, <1>6
  <2>2. T(x) + x.remaining_size <= T(o)
    BY <1>3, <1>6, <2>1
  <2>. QED
    BY <1>1, <1>6, <2>1, <2>2
<1>7. ASSUME Crosses(req, x.price), x.account_id # a, \A o \in S : ~Sooner(side, x, o), NEW o \in S
      PROVE  ~Meets(S, a, req, o)
  BY <1>1, <1>2, <1>7
<1>8. ASSUME Crosses(req, x.price), x.account_id # a, NEW y \in S, Follows(S, side, x, y)
      PROVE  ScanAt(S, a, req, left - x.remaining_size, y)
  <2>1. Sooner(side, x, y) /\ \A j \in S : ~(Sooner(side, x, j) /\ Sooner(side, j, y))
    BY <1>8 DEF Follows
  <2>2. T(y) = T(x) + x.remaining_size
    BY <1>3, <1>8, <2>1
  <2>3. left - x.remaining_size = req.size - T(y)
    BY <1>1, <1>8, <2>2
  <2>4. ASSUME NEW o \in S, Meets(S, a, req, o) PROVE o = y \/ Sooner(side, y, o)
    <3>1. Sooner(side, x, o)
      BY <1>1, <1>2, <1>8, <2>4
    <3>2. ~Sooner(side, o, y)
      BY <2>1, <3>1
    <3>3. o # y => o.id # y.id
      BY DEF OwnIds
    <3>. QED
      BY <1>1, <3>2, <3>3, SoonerTotal
  <2>. QED
    BY <2>3, <2>4 DEF ScanAt, T, side
<1>. QED
  BY <1>1, <1>4, <1>5, <1>6, <1>7, <1>8 DEF side

\* Of the prices of a side, p is the better.
Better(side, p, q) == IF side = "Ask" THEN p < q ELSE p > q

\* The scan is at place i of the best of the levels A; it has passed all others.
ScanPlace(b, side, A, i) ==
  /\ A \subseteq Levels(b, side) /\ A # {}
  /\ i \in 1 .. Len(b.queue[side][Best(side, A)])
  /\ \A p \in Levels(b, side) \ A : \A q \in A : Better(side, p, q)

OrderAt(b, side, A, i) == b.queue[side][Best(side, A)][i]

(* The orders of a side are what its levels hold, in order of service.     *)
LEMMA LevelOrders ==
  ASSUME NEW b \in Book, NEW n \in Nat, Indexed(b), InOrder(b, n), NEW side \in Side,
         NEW S, S = RestingOn(b, side)
  PROVE  /\ S \in SUBSET Order /\ OwnIds(S)
         /\ \A p \in Prices : \A i \in 1 .. Len(b.queue[side][p]) :
              /\ b.queue[side][p][i] \in S
              /\ b.queue[side][p][i].price = p
              /\ b.queue[side][p][i].remaining_size > 0
         /\ \A o \in S : /\ o.price \in Levels(b, side)
                         /\ \E i \in 1 .. Len(b.queue[side][o.price]) : o = b.queue[side][o.price][i]
         /\ \A p \in Prices : \A i, j \in 1 .. Len(b.queue[side][p]) :
              b.queue[side][p][i].id < b.queue[side][p][j].id <=> i < j
<1>1. S \in SUBSET Order /\ OwnIds(S)
  BY RestingMember, RestingOwnIds
<1>2. \A o : o \in S <=> \E p \in Prices : \E i \in 1 .. Len(b.queue[side][p]) : o = b.queue[side][p][i]
  BY RestingMember
<1>3. ASSUME NEW p \in Prices, NEW i \in 1 .. Len(b.queue[side][p])
      PROVE  /\ b.queue[side][p][i] \in S
             /\ b.queue[side][p][i].price = p
             /\ b.queue[side][p][i].remaining_size > 0
  <2>1. Located(b, side, p, b.queue[side][p][i])
    BY DEF Indexed
  <2>2. Live(b.queue[side][p][i], n)
    BY DEF InOrder
  <2>3. b.queue[side][p][i] \in S
    BY <1>2
  <2>4. b.queue[side][p][i].remaining_size \in Nat
    BY <1>1, <2>3, OrderFields
  <2>. QED
    BY <2>1, <2>2, <2>3, <2>4 DEF Located, Live
<1>4. ASSUME NEW o \in S
      PROVE  /\ o.price \in Levels(b, side)
             /\ \E i \in 1 .. Len(b.queue[side][o.price]) : o = b.queue[side][o.price][i]
  <2>1. PICK p \in Prices : \E i \in 1 .. Len(b.queue[side][p]) : o = b.queue[side][p][i]
    BY <1>2
  <2>2. PICK i \in 1 .. Len(b.queue[side][p]) : o = b.queue[side][p][i]
    BY <2>1
  <2>3. o.price = p
    BY <1>3, <2>2
  <2>4. b.queue[side][p] # << >>
    BY <2>2
  <2>. QED
    BY <2>2, <2>3, <2>4 DEF Levels
<1>5. ASSUME NEW p \in Prices, NEW i \in 1 .. Len(b.queue[side][p]), NEW j \in 1 .. Len(b.queue[side][p])
      PROVE  b.queue[side][p][i].id < b.queue[side][p][j].id <=> i < j
  <2>. DEFINE q == b.queue[side][p]
  <2>1. ByArrival(q)
    BY DEF InOrder
  <2>2. q[i].id \in Nat /\ q[j].id \in Nat
    BY <1>1, <1>3, OrderFields
  <2>. HIDE DEF q
  <2>3. i < j \/ i = j \/ j < i
    OBVIOUS
  <2>4. i \in 1 .. Len(q) /\ j \in 1 .. Len(q)
    BY DEF q
  <2>5. (i < j => q[i].id < q[j].id) /\ (j < i => q[j].id < q[i].id)
    BY <2>1, <2>4 DEF ByArrival
  <2>6. q[i].id < q[j].id <=> i < j
    BY <2>2, <2>3, <2>5
  <2>. QED
    BY <2>6 DEF q
<1>. QED
  BY <1>1, <1>3, <1>4, <1>5

\* The scan is at order x of level p, followed by what the book serves next.
ScanNow(b, side, S, A, k, x, p) ==
  /\ x \in S /\ x.price = p /\ x.remaining_size > 0 /\ p \in A /\ p \in Prices
  /\ k \in 1 .. Len(b.queue[side][p])
  /\ k # Len(b.queue[side][p]) =>
       /\ ScanPlace(b, side, A, k + 1)
       /\ Follows(S, side, x, OrderAt(b, side, A, k + 1))
  /\ k = Len(b.queue[side][p]) /\ A \ {p} # {} =>
       /\ ScanPlace(b, side, A \ {p}, 1)
       /\ Follows(S, side, x, OrderAt(b, side, A \ {p}, 1))
  /\ k = Len(b.queue[side][p]) /\ A \ {p} = {} => \A o \in S : ~Sooner(side, x, o)

(* The scan's order, and what follows it in the book.                      *)
LEMMA ScanNext ==
  ASSUME NEW b \in Book, NEW n \in Nat, Indexed(b), InOrder(b, n), NEW side \in Side,
         NEW S, S = RestingOn(b, side),
         NEW A \in SUBSET Prices, NEW k \in Nat, ScanPlace(b, side, A, k),
         NEW x, x = OrderAt(b, side, A, k), NEW p, p = Best(side, A)
  PROVE  ScanNow(b, side, S, A, k, x, p)
<1>. DEFINE Q(r) == b.queue[side][r]
<1>1. /\ S \in SUBSET Order
      /\ \A r \in Prices : \A i \in 1 .. Len(Q(r)) :
           Q(r)[i] \in S /\ Q(r)[i].price = r /\ Q(r)[i].remaining_size > 0
      /\ \A o \in S : o.price \in Levels(b, side) /\ \E i \in 1 .. Len(Q(o.price)) : o = Q(o.price)[i]
      /\ \A r \in Prices : \A i, j \in 1 .. Len(Q(r)) : Q(r)[i].id < Q(r)[j].id <=> i < j
  BY LevelOrders
<1>2. /\ A \subseteq Levels(b, side) /\ A # {} /\ A \subseteq Prices
      /\ k \in 1 .. Len(Q(p)) /\ x = Q(p)[k]
      /\ \A r \in Levels(b, side) \ A : \A q \in A : Better(side, r, q)
  BY DEF ScanPlace, OrderAt, Levels
<1>3. p \in A /\ \A r \in A : r = p \/ Better(side, p, r)
  <2>1. p \in A /\ \A r \in A : IF side = "Ask" THEN p <= r ELSE r <= p
    BY <1>2, BestOf
  <2>2. A \subseteq Nat
    BY <1>2, PricesAssumption
  <2>. QED
    BY <2>1, <2>2 DEF Better
<1>4. x \in S /\ x.price = p /\ x.remaining_size > 0
  BY <1>1, <1>2, <1>3
<1>5. \A r \in Prices : Q(r) \in Seq(Order) /\ Len(Q(r)) \in Nat /\ r \in Nat
                        /\ (r \in Levels(b, side) => 1 \in 1 .. Len(Q(r)))
  <2>1. \A r \in Prices : Q(r) \in Seq(Order)
    BY DEF Book
  <2>. QED
    BY <2>1, PricesAssumption DEF Levels
<1>. DEFINE m == Len(Q(p))
<1>6. ASSUME NEW o \in S, Sooner(side, x, o)
      PROVE  \/ Better(side, p, o.price) /\ o.price \in A \ {p}
             \/ o.price = p /\ \E i \in 1 .. m : o = Q(p)[i] /\ k < i
  <2>1. Better(side, p, o.price) \/ (o.price = p /\ x.id < o.id)
    BY <1>4, <1>6 DEF Sooner, Better
  <2>2. o.price \in Levels(b, side) /\ \E i \in 1 .. Len(Q(o.price)) : o = Q(o.price)[i]
    BY <1>1
  <2>3. CASE Better(side, p, o.price)
    <3>1. p \in Nat /\ o.price \in Nat
      BY <1>1, <1>2, <1>3, <1>5, OrderFields
    <3>2. ~Better(side, o.price, p) /\ o.price # p
      BY <2>3, <3>1 DEF Better
    <3>3. o.price \in A
      BY <1>2, <1>3, <2>2, <3>2
    <3>. QED
      BY <2>3, <3>2, <3>3
  <2>4. CASE o.price = p /\ x.id < o.id
    <3>1. PICK i \in 1 .. m : o = Q(p)[i]
      BY <2>2, <2>4
    <3>2. k < i
      BY <1>1, <1>2, <1>3, <2>4, <3>1
    <3>. QED
      BY <2>4, <3>1, <3>2
  <2>. QED
    BY <2>1, <2>3, <2>4
<1>7. ASSUME k # m PROVE ScanPlace(b, side, A, k + 1) /\ Follows(S, side, x, OrderAt(b, side, A, k + 1))
  <2>. DEFINE y == Q(p)[k + 1]
  <2>1. k \in Nat /\ m \in Nat /\ k + 1 \in 1 .. m
    BY <1>2, <1>3, <1>5, <1>7
  <2>2. y \in S /\ y.price = p /\ x.id < y.id
    BY <1>1, <1>2, <1>3, <2>1
  <2>3. Sooner(side, x, y)
    BY <1>4, <2>2 DEF Sooner
  <2>. HIDE DEF y
  <2>4. ASSUME NEW j \in S, Sooner(side, x, j), Sooner(side, j, y) PROVE FALSE
    <3>1. p \in Nat /\ j.price \in Nat
      BY <1>1, <1>2, <1>3, <1>5, OrderFields
    <3>2. CASE Better(side, p, j.price)
      BY <2>2, <2>4, <3>1, <3>2 DEF Sooner, Better
    <3>3. CASE j.price = p /\ \E i \in 1 .. m : j = Q(p)[i] /\ k < i
      <4>1. PICK i \in 1 .. m : j = Q(p)[i] /\ k < i
        BY <3>3
      <4>2. j.id < y.id
        BY <2>2, <2>4, <3>1, <3>3 DEF Sooner
      <4>3. i < k + 1
        BY <1>1, <1>2, <1>3, <2>1, <4>1, <4>2 DEF y
      <4>. QED
        BY <2>1, <4>1, <4>3
    <3>. QED
      BY <1>6, <2>4, <3>2, <3>3
  <2>5. Follows(S, side, x, y)
    BY <1>4, <2>2, <2>3, <2>4 DEF Follows
  <2>6. ScanPlace(b, side, A, k + 1)
    BY <1>2, <2>1 DEF ScanPlace
  <2>. QED
    BY <2>5, <2>6 DEF OrderAt, y
<1>8. ASSUME k = m, A \ {p} # {}
      PROVE  ScanPlace(b, side, A \ {p}, 1) /\ Follows(S, side, x, OrderAt(b, side, A \ {p}, 1))
  <2>. DEFINE C == A \ {p}  r == Best(side, C)  y == Q(r)[1]
  <2>1. C \subseteq Prices /\ C # {} /\ C \subseteq Levels(b, side) /\ C \subseteq A /\ p \notin C
    BY <1>2, <1>8
  <2>. HIDE DEF C
  <2>2. r \in C /\ \A s \in C : IF side = "Ask" THEN r <= s ELSE s <= r
    BY <2>1, BestOf
  <2>3. r \in Prices /\ r \in Nat /\ r # p /\ 1 \in 1 .. Len(Q(r)) /\ Better(side, p, r)
    BY <1>3, <1>5, <2>1, <2>2
  <2>. HIDE DEF r
  <2>4. y \in S /\ y.price = r
    BY <1>1, <2>3
  <2>5. Sooner(side, x, y)
    BY <1>4, <2>3, <2>4 DEF Sooner, Better
  <2>. HIDE DEF y
  <2>6. ASSUME NEW j \in S, Sooner(side, x, j), Sooner(side, j, y) PROVE FALSE
    <3>1. j.price \in Nat
      BY <1>1, <1>5, OrderFields
    <3>2. CASE j.price \in A \ {p}
      <4>1. IF side = "Ask" THEN r <= j.price ELSE j.price <= r
        BY <2>2, <3>2 DEF C
      <4>2. j.price = r /\ j.id < y.id
        BY <2>3, <2>4, <2>6, <3>1, <4>1 DEF Sooner
      <4>3. PICK i \in 1 .. Len(Q(r)) : j = Q(r)[i]
        BY <1>1, <4>2
      <4>4. i < 1
        BY <1>1, <2>3, <4>2, <4>3 DEF y
      <4>. QED
        BY <1>5, <2>3, <4>3, <4>4
    <3>3. CASE \E i \in 1 .. m : j = Q(p)[i] /\ k < i
      BY <1>3, <1>5, <1>2, <1>8, <3>3
    <3>. QED
      BY <1>6, <2>6, <3>2, <3>3
  <2>7. Follows(S, side, x, y)
    BY <1>4, <2>4, <2>5, <2>6 DEF Follows
  <2>8. ASSUME NEW s \in Levels(b, side) \ C, NEW q \in C PROVE Better(side, s, q)
    <3>1. CASE s = p
      BY <1>3, <2>1, <3>1
    <3>2. CASE s \in Levels(b, side) \ A
      BY <1>2, <2>1, <3>2
    <3>. QED
      BY <2>8, <3>1, <3>2 DEF C
  <2>9. ScanPlace(b, side, C, 1)
    BY <2>1, <2>3, <2>8 DEF ScanPlace, r
  <2>. QED
    BY <2>7, <2>9 DEF OrderAt, y, r, C
<1>9. ASSUME k = m, A \ {p} = {}, NEW o \in S, Sooner(side, x, o) PROVE FALSE
  <2>1. \E i \in 1 .. m : k < i
    BY <1>6, <1>9
  <2>. QED
    BY <1>2, <1>3, <1>5, <1>9, <2>1
<1>. QED
  BY <1>2, <1>3, <1>4, <1>7, <1>8, <1>9 DEF ScanNow

\* The scan is over.
ScanDone(req, w) ==
  \/ w.found \/ w.ahead = {}
  \/ ~Crosses(req, Best(Opposite(req.side), w.ahead))

\* The invariant of the scan: it found an own order it meets, there is none, or
\* it is at its place and there is none before it.
ScanGood(b, S, a, req, w) ==
  /\ w \in ScanState
  /\ w.found => \E o \in S : Meets(S, a, req, o)
  /\ ~w.found /\ w.ahead = {} => \A o \in S : ~Meets(S, a, req, o)
  /\ ~w.found /\ w.ahead # {} =>
       /\ w.remaining > 0
       /\ ScanPlace(b, Opposite(req.side), w.ahead, w.at)
       /\ ScanAt(S, a, req, w.remaining, OrderAt(b, Opposite(req.side), w.ahead, w.at))

(* A scan that is over has decided.                                        *)
LEMMA ScanVerdict ==
  ASSUME NEW a, NEW req \in OrderRequest, NEW b \in Book, NEW n \in Nat,
         Indexed(b), InOrder(b, n), NEW S, S = RestingOn(b, Opposite(req.side)),
         NEW w, ScanGood(b, S, a, req, w), ScanDone(req, w)
  PROVE  w.found <=> \E o \in S : Meets(S, a, req, o)
<1>. DEFINE side == Opposite(req.side)  A == w.ahead  k == w.at  left == w.remaining
            p == Best(side, A)  x == OrderAt(b, side, A, k)
<1>. SUFFICES ASSUME ~w.found, w.ahead # {} PROVE \A o \in S : ~Meets(S, a, req, o)
  BY DEF ScanGood
<1>1. /\ ScanPlace(b, side, A, k) /\ ScanAt(S, a, req, left, x)
      /\ left \in Nat /\ left > 0
      /\ ~Crosses(req, p)
  BY DEF ScanGood, ScanDone, ScanState
<1>. HIDE DEF A, k, left, p, x
<1>2. side \in Side /\ S = RestingOn(b, side)
  BY RequestFields
<1>3. S \in SUBSET Order /\ OwnIds(S)
  BY <1>2, LevelOrders
<1>. HIDE DEF side
<1>4. x.price = p /\ x \in S
  <2>1. x = OrderAt(b, side, A, k) /\ p = Best(side, A)
    BY DEF x, p
  <2>2. A \in SUBSET Prices /\ k \in Nat
    BY DEF ScanGood, ScanState, A, k
  <2>3. ScanNow(b, side, S, A, k, x, p)
    BY <1>1, <1>2, <2>1, <2>2, ScanNext
  <2>. QED
    BY <2>3 DEF ScanNow
<1>. QED
  BY <1>1, <1>3, <1>4, ScanDecides

(* Every step of the scan keeps it, and ends it or uses up size.           *)
LEMMA ScanKeeps ==
  ASSUME NEW a \in Accounts, NEW req \in OrderRequest, NEW b \in Book, NEW n \in Nat,
         Indexed(b), InOrder(b, n), NEW S, S = RestingOn(b, Opposite(req.side)),
         NEW w, ScanGood(b, S, a, req, w), NEW v, v = ScanStep(b, a, req, w)
  PROVE  /\ ScanGood(b, S, a, req, v)
         /\ ScanDone(req, w) => v = w
         /\ ~ScanDone(req, w) => ScanDone(req, v) \/ v.remaining < w.remaining
<1>. DEFINE side == Opposite(req.side)  A == w.ahead  k == w.at  p == Best(side, A)
            x == OrderAt(b, side, A, k)
            r == w.remaining
            left == Max({r - x.remaining_size, 0})
            last == k = Len(b.queue[side][p])
            rest == IF left = 0 THEN {} ELSE IF last THEN A \ {p} ELSE A
            next == IF last THEN 1 ELSE k + 1
<1>1. /\ w \in ScanState /\ w.found \in BOOLEAN /\ r \in Nat
      /\ A \in SUBSET Prices /\ k \in Nat \ {0} /\ k \in Nat
  BY DEF ScanGood, ScanState
<1>2. CASE ScanDone(req, w)
  <2>1. v = w
    BY <1>2 DEF ScanDone, ScanStep
  <2>. QED
    BY <1>2, <2>1
<1>3. CASE ~ScanDone(req, w)
  <2>1. /\ ~w.found /\ A # {} /\ Crosses(req, p)
        /\ r > 0 /\ ScanPlace(b, side, A, k) /\ ScanAt(S, a, req, r, x)
    BY <1>3 DEF ScanDone, ScanGood
  <2>2. v = IF x.account_id = a THEN [w EXCEPT !.found = TRUE]
            ELSE [found |-> FALSE, remaining |-> left, ahead |-> rest, at |-> next]
    BY <2>1 DEF ScanStep, OrderAt
  <2>3. x = OrderAt(b, side, A, k) /\ p = Best(side, A)
    OBVIOUS
  <2>4. ScanDone(req, v) \/ v.remaining < r => ScanDone(req, v) \/ v.remaining < w.remaining
    OBVIOUS
  <2>5. side \in Side /\ S = RestingOn(b, side)
    BY RequestFields
  <2>. HIDE DEF side, A, k, p, x, r
  <2>6. S \in SUBSET Order /\ OwnIds(S)
    BY <2>5, LevelOrders
  <2>. DEFINE Q == b.queue[side][p]
  <2>7. ScanNow(b, side, S, A, k, x, p)
    BY <1>1, <2>1, <2>3, <2>5, ScanNext
  <2>8. /\ x \in S /\ x.price = p /\ x.remaining_size > 0 /\ p \in A /\ p \in Prices
        /\ k \in 1 .. Len(Q)
        /\ ~last => /\ ScanPlace(b, side, A, k + 1)
                    /\ Follows(S, side, x, OrderAt(b, side, A, k + 1))
        /\ last /\ A \ {p} # {} => /\ ScanPlace(b, side, A \ {p}, 1)
                                   /\ Follows(S, side, x, OrderAt(b, side, A \ {p}, 1))
        /\ last /\ A \ {p} = {} => \A o \in S : ~Sooner(side, x, o)
    BY <2>7 DEF ScanNow
  <2>. HIDE DEF Q
  <2>9. x.remaining_size \in Nat
    BY <2>6, <2>8, OrderFields
  <2>10. /\ x.account_id = a => Meets(S, a, req, x)
         /\ x.account_id # a /\ r <= x.remaining_size => \A o \in S : ~Meets(S, a, req, o)
         /\ x.account_id # a /\ (\A o \in S : ~Sooner(side, x, o)) =>
              \A o \in S : ~Meets(S, a, req, o)
         /\ x.account_id # a => \A y \in S : Follows(S, side, x, y) =>
              ScanAt(S, a, req, r - x.remaining_size, y)
    BY <1>1, <2>1, <2>6, <2>8, ScanDecides DEF side
  <2>11. left = IF r <= x.remaining_size THEN 0 ELSE r - x.remaining_size
    <3>. DEFINE u == r - x.remaining_size
    <3>1. u \in Int
      BY <1>1, <2>9
    <3>. HIDE DEF u
    <3>2. Max({u, 0}) = IF u <= 0 THEN 0 ELSE u
      BY <3>1 DEF Max
    <3>. QED
      BY <1>1, <2>9, <3>2 DEF u
  <2>12. left \in Nat /\ left < r
    BY <1>1, <2>1, <2>8, <2>9, <2>11
  <2>. HIDE DEF left
  <2>13. CASE x.account_id = a
    <3>1. v.found /\ v \in ScanState
      BY <1>1, <2>2, <2>13 DEF ScanState
    <3>2. ScanGood(b, S, a, req, v)
      BY <2>8, <2>10, <2>13, <3>1 DEF ScanGood
    <3>. QED
      BY <1>3, <3>1, <3>2 DEF ScanDone
  <2>14. CASE x.account_id # a
    <3>1. v.found = FALSE /\ v.remaining = left /\ v.ahead = rest /\ v.at = next
          /\ v = [found |-> FALSE, remaining |-> left, ahead |-> rest, at |-> next]
      BY <2>2, <2>14
    <3>2. v \in ScanState
      <4>1. rest \in SUBSET Prices /\ next \in Nat \ {0}
        BY <1>1
      <4>. HIDE DEF rest, next
      <4>. QED
        BY <2>12, <3>1, <4>1 DEF ScanState
    <3>3. CASE left = 0
      <4>1. v.ahead = {} /\ \A o \in S : ~Meets(S, a, req, o)
        BY <1>1, <2>9, <2>10, <2>11, <2>14, <3>1, <3>3
      <4>. QED
        BY <1>3, <2>12, <2>4, <3>1, <3>2, <4>1 DEF ScanGood, ScanDone
    <3>4. CASE left # 0 /\ last /\ A \ {p} = {}
      <4>1. v.ahead = {} /\ \A o \in S : ~Meets(S, a, req, o)
        BY <2>8, <2>10, <2>14, <3>1, <3>4
      <4>. QED
        BY <1>3, <2>12, <2>4, <3>1, <3>2, <4>1 DEF ScanGood, ScanDone
    <3>5. CASE left # 0 /\ ~(last /\ A \ {p} = {})
      <4>. DEFINE y == OrderAt(b, side, rest, next)
      <4>1. ScanPlace(b, side, rest, next) /\ Follows(S, side, x, y)
        BY <2>8, <3>5
      <4>. HIDE DEF y, rest, next
      <4>2. left = r - x.remaining_size
        BY <1>1, <2>9, <2>11, <3>5
      <4>3. ScanAt(S, a, req, left, y)
        BY <2>10, <2>14, <4>1, <4>2 DEF Follows
      <4>4. left > 0 /\ rest # {}
        BY <2>12, <3>5, <4>1 DEF ScanPlace
      <4>5. ScanGood(b, S, a, req, v)
        BY <3>1, <3>2, <4>1, <4>3, <4>4 DEF ScanGood, y, side
      <4>. QED
        BY <1>3, <2>12, <2>4, <3>1, <4>5
    <3>. QED
      BY <3>3, <3>4, <3>5
  <2>. QED
    BY <2>13, <2>14
<1>. QED
  BY <1>2, <1>3

(* The scan starts at the order served first.                              *)
LEMMA ScanStart ==
  ASSUME NEW a, NEW req \in OrderRequest, req.size > 0, NEW b \in Book, NEW n \in Nat,
         Indexed(b), InOrder(b, n), NEW S, S = RestingOn(b, Opposite(req.side)),
         NEW w, w = [found |-> FALSE, remaining |-> req.size,
                     ahead |-> Levels(b, Opposite(req.side)), at |-> 1]
  PROVE  ScanGood(b, S, a, req, w)
<1>. DEFINE side == Opposite(req.side)  A == Levels(b, side)
            p == Best(side, A)  x == OrderAt(b, side, A, 1)
<1>1. /\ side \in Side /\ S = RestingOn(b, side) /\ req.size \in Nat
      /\ A \subseteq Prices /\ A \in SUBSET Prices
  BY RequestFields DEF Levels
<1>2. w.found = FALSE /\ w.remaining = req.size /\ w.ahead = A /\ w.at = 1
      /\ w = [found |-> FALSE, remaining |-> req.size, ahead |-> A, at |-> 1]
  OBVIOUS
<1>. HIDE DEF side
<1>3. /\ S \in SUBSET Order /\ OwnIds(S)
      /\ \A o \in S : /\ o.price \in A
                      /\ \E i \in 1 .. Len(b.queue[side][o.price]) : o = b.queue[side][o.price][i]
      /\ \A q \in Prices : \A i, j \in 1 .. Len(b.queue[side][q]) :
           b.queue[side][q][i].id < b.queue[side][q][j].id <=> i < j
  BY <1>1, LevelOrders
<1>4. w \in ScanState
  <2>. HIDE DEF A
  <2>. QED
    BY <1>1, <1>2 DEF ScanState
<1>5. CASE A = {}
  <2>1. \A o \in S : ~Meets(S, a, req, o)
    BY <1>3, <1>5
  <2>. QED
    BY <1>2, <1>4, <1>5, <2>1 DEF ScanGood
<1>6. CASE A # {}
  <2>1. p \in A /\ \A q \in A : IF side = "Ask" THEN p <= q ELSE q <= p
    BY <1>1, <1>6, BestOf
  <2>2. p \in Prices /\ b.queue[side][p] \in Seq(Order) /\ b.queue[side][p] # << >>
    <3>1. p \in Prices /\ b.queue[side][p] # << >>
      BY <2>1 DEF Levels
    <3>. HIDE DEF p
    <3>. QED
      BY <1>1, <3>1 DEF Book
  <2>3. 1 \in 1 .. Len(b.queue[side][p])
    BY <2>2
  <2>4. ScanPlace(b, side, A, 1)
    BY <1>6, <2>3 DEF ScanPlace
  <2>5. x = OrderAt(b, side, A, 1) /\ p = Best(side, A) /\ 1 \in Nat
        /\ x = b.queue[side][p][1]
    BY DEF OrderAt
  <2>. HIDE DEF A, p, x
  <2>6. ScanNow(b, side, S, A, 1, x, p)
    BY <1>1, <2>4, <2>5, ScanNext
  <2>7. x \in S /\ x.price = p
    BY <2>6 DEF ScanNow
  <2>8. ASSUME NEW o \in S PROVE ~Sooner(side, o, x)
    <3>1. p \in Nat /\ o.price \in Nat
      BY <1>1, <1>3, <2>2, PricesAssumption
    <3>2. IF side = "Ask" THEN p <= o.price ELSE o.price <= p
      BY <1>3, <2>1
    <3>. SUFFICES ASSUME Sooner(side, o, x) PROVE FALSE
      OBVIOUS
    <3>3. o.price = p /\ o.id < x.id
      BY <2>7, <3>1, <3>2 DEF Sooner
    <3>4. PICK i \in 1 .. Len(b.queue[side][p]) : o = b.queue[side][p][i]
      BY <1>3, <3>3
    <3>5. i < 1
      BY <1>3, <2>2, <2>3, <2>5, <3>3, <3>4
    <3>. QED
      BY <2>2, <3>4, <3>5
  <2>9. Total(AheadOf(S, req, x)) = 0
    BY <1>3, <2>7, <2>8, AheadNone DEF side
  <2>10. \A o \in S : o = x \/ Sooner(side, x, o)
    <3>1. \A o \in S : o # x => o.id # x.id
      BY <1>3, <2>7 DEF OwnIds
    <3>. QED
      BY <1>3, <2>7, <2>8, <3>1, SoonerTotal
  <2>11. ScanAt(S, a, req, req.size, x)
    BY <1>1, <2>7, <2>9, <2>10 DEF ScanAt, side
  <2>. QED
    BY <1>2, <1>4, <1>6, <2>4, <2>5, <2>11 DEF ScanGood, side
<1>. QED
  BY <1>5, <1>6

(* would_self_trade says whether there is an own order to meet.            *)
LEMMA ScanExact ==
  ASSUME NEW a \in Accounts, NEW req \in OrderRequest, req.size > 0,
         NEW b \in Book, NEW n \in Nat, Indexed(b), InOrder(b, n),
         NEW S, S = RestingOn(b, Opposite(req.side))
  PROVE  WouldSelfTrade(b, a, req) <=> \E o \in S : Meets(S, a, req, o)
<1>. DEFINE step(w) == ScanStep(b, a, req, w)
            F == [k \in Nat |-> [w \in ScanState |-> step(w)]]
            start == [found |-> FALSE, remaining |-> req.size,
                      ahead |-> Levels(b, Opposite(req.side)), at |-> 1]
            L == Loop(F, start)
            Good(w) == ScanGood(b, S, a, req, w)
            G == {w \in ScanState : Good(w)}
            Bounded(w, k) == ScanDone(req, w) \/ w.remaining + k <= req.size
<1>1. req.size \in Nat /\ start.remaining = req.size
  BY RequestFields
<1>2. Good(start) /\ start \in G
  <2>1. Good(start)
    BY ScanStart
  <2>. QED
    BY <2>1 DEF ScanGood
<1>. HIDE DEF start
<1>3. ASSUME NEW w \in G
      PROVE  /\ Good(step(w)) /\ step(w) \in G
             /\ ScanDone(req, w) => step(w) = w
             /\ ~ScanDone(req, w) => ScanDone(req, step(w)) \/ step(w).remaining < w.remaining
  <2>. DEFINE v == step(w)
  <2>1. v = ScanStep(b, a, req, w) /\ ScanGood(b, S, a, req, w)
    OBVIOUS
  <2>. HIDE DEF v
  <2>2. /\ ScanGood(b, S, a, req, v)
        /\ ScanDone(req, w) => v = w
        /\ ~ScanDone(req, w) => ScanDone(req, v) \/ v.remaining < w.remaining
    BY <2>1, ScanKeeps
  <2>. QED
    BY <2>2 DEF v, ScanGood
<1>4. \A k \in Nat : \A w \in G : F[k][w] = step(w)
  <2>. HIDE DEF step, Good
  <2>. QED
    OBVIOUS
<1>. HIDE DEF F, G, step
<1>5. L \in [Nat -> G] /\ L[0] = start /\ \A k \in Nat : L[k+1] = F[k+1][L[k]]
  <2>1. \A k \in Nat : \A w \in G : F[k][w] \in G
    BY <1>3, <1>4
  <2>. QED
    BY <1>2, <2>1, LoopWithin
<1>. HIDE DEF L
<1>6. \A k \in Nat : L[k] \in G /\ L[k+1] \in G /\ L[k+1] = step(L[k])
  BY <1>4, <1>5
<1>7. \A w \in G : w.remaining \in Nat /\ Good(w) /\ (~ScanDone(req, w) => w.remaining > 0)
  BY DEF G, ScanState, ScanGood, ScanDone
<1>. DEFINE U == {k \in Nat : Bounded(L[k], k)}
<1>8. 0 \in U
  BY <1>1, <1>5
<1>9. ASSUME NEW k \in U PROVE k + 1 \in U
  <2>. DEFINE w == L[k]  v == L[k+1]
  <2>1. k \in Nat /\ Bounded(w, k) /\ w \in G /\ v \in G /\ v = step(w)
    BY <1>6
  <2>. HIDE DEF w, v
  <2>2. w.remaining \in Nat /\ v.remaining \in Nat
    BY <1>7, <2>1
  <2>3. ScanDone(req, v) \/ v.remaining + (k + 1) <= req.size
    BY <1>1, <1>3, <2>1, <2>2
  <2>. QED
    BY <2>1, <2>3 DEF v
<1>10. U = Nat
  <2>. HIDE DEF U
  <2>1. U \in SUBSET Nat
    BY DEF U
  <2>. QED
    BY <1>8, <1>9, <2>1, SetInduction
<1>. DEFINE w == L[req.size + 1]
<1>11. w \in G /\ Bounded(w, req.size + 1)
  <2>1. req.size + 1 \in Nat
    BY <1>1
  <2>. QED
    BY <1>5, <1>10, <2>1
<1>. HIDE DEF w
<1>12. ScanDone(req, w)
  BY <1>1, <1>7, <1>11
<1>13. w.found <=> \E o \in S : Meets(S, a, req, o)
  BY <1>7, <1>11, <1>12, ScanVerdict
<1>14. WouldSelfTrade(b, a, req) = w.found
  BY DEF WouldSelfTrade, w, L, F, step, start
<1>. QED
  BY <1>13, <1>14

(* An order of size 0 is told of the first order in line only: passing it  *)
(* ends the scan.                                                          *)
LEMMA ScanOfNothing ==
  ASSUME NEW a \in Accounts, NEW req \in OrderRequest, req.size = 0,
         NEW b \in Book, NEW n \in Nat, InOrder(b, n)
  PROVE  WouldSelfTrade(b, a, req) <=>
           /\ Levels(b, Opposite(req.side)) # {}
           /\ Crosses(req, BestPrice(b, Opposite(req.side)))
           /\ Head(b.queue[Opposite(req.side)][BestPrice(b, Opposite(req.side))]).account_id = a
<1>. DEFINE side == Opposite(req.side)  A == Levels(b, side)  p == BestPrice(b, side)
            q == b.queue[side][p]
            start == [found |-> FALSE, remaining |-> req.size, ahead |-> A, at |-> 1]
            v == ScanStep(b, a, req, start)
            F == [k \in Nat |-> [w \in ScanState |-> ScanStep(b, a, req, w)]]
            Own == A # {} /\ Crosses(req, p) /\ Head(q).account_id = a
            Ends(u) == u \in ScanState /\ ScanStep(b, a, req, u) = u /\ (u.found <=> Own)
<1>1. side \in Side
  BY RequestFields
<1>2. start \in ScanState
  BY DEF ScanState, Levels
<1>3. p = Best(side, A)
  BY DEF BestPrice
<1>4. ASSUME A = {} \/ ~Crosses(req, p) PROVE Ends(v)
  <2>1. v = start
    BY <1>3, <1>4 DEF ScanStep
  <2>2. ScanStep(b, a, req, start) = start
    BY <2>1
  <2>3. ~start.found
    OBVIOUS
  <2>. HIDE DEF start, v
  <2>4. Ends(start)
    BY <1>2, <1>4, <2>2, <2>3
  <2>. QED
    BY <2>1, <2>4
<1>5. ASSUME A # {}, Crosses(req, p) PROVE Ends(v)
  <2>. DEFINE left == Max({req.size - q[1].remaining_size, 0})
              last == 1 = Len(q)
              rest == IF left = 0 THEN {} ELSE IF last THEN A \ {p} ELSE A
              next == IF last THEN 1 ELSE 1 + 1
  <2>1. p \in A /\ p \in Prices
    BY <1>1, <1>5, BestIsBest DEF Levels
  <2>2. q \in Seq(Order) /\ q # << >> /\ \A i \in 1 .. Len(q) : Live(q[i], n)
    BY <1>1, <2>1 DEF Book, InOrder, Levels
  <2>3. v = IF q[1].account_id = a THEN [start EXCEPT !.found = TRUE]
            ELSE [found |-> FALSE, remaining |-> left, ahead |-> rest, at |-> next]
    BY <1>3, <1>5 DEF ScanStep
  <2>. HIDE DEF q
  <2>4. 1 \in 1 .. Len(q) /\ Head(q) = q[1] /\ q[1] \in Order
    BY <2>2
  <2>5. q[1].remaining_size \in Nat
    BY <2>4, OrderFields
  <2>6. left = 0
    <3>. DEFINE r == q[1].remaining_size
    <3>1. r \in Nat /\ req.size - r = 0 - r
      BY <2>5
    <3>. HIDE DEF r
    <3>2. Max({0 - r, 0}) = 0
      BY <3>1 DEF Max
    <3>. QED
      BY <3>1, <3>2 DEF r
  <2>. HIDE DEF left, last
  <2>7. CASE q[1].account_id = a
    <3>1. v = [start EXCEPT !.found = TRUE]
      BY <2>3, <2>7
    <3>2. v \in ScanState /\ v.found
      BY <1>2, <3>1 DEF ScanState
    <3>. HIDE DEF v
    <3>3. ScanStep(b, a, req, v) = v
      BY <3>2 DEF ScanStep
    <3>4. Own
      BY <1>5, <2>4, <2>7
    <3>. HIDE DEF Own
    <3>. QED
      BY <3>2, <3>3, <3>4
  <2>8. CASE q[1].account_id # a
    <3>1. v = [found |-> FALSE, remaining |-> 0, ahead |-> {}, at |-> next]
      BY <2>3, <2>6, <2>8
    <3>2. next \in Nat \ {0}
      OBVIOUS
    <3>. HIDE DEF next
    <3>. HIDE DEF v
    <3>3. v \in ScanState /\ v.ahead = {} /\ ~v.found
      BY <3>1, <3>2 DEF ScanState
    <3>4. ScanStep(b, a, req, v) = v
      BY <3>3 DEF ScanStep
    <3>5. ~Own
      BY <2>4, <2>8
    <3>. HIDE DEF Own
    <3>. QED
      BY <3>3, <3>4, <3>5
  <2>. QED
    BY <2>7, <2>8
<1>6. Ends(v)
  BY <1>4, <1>5
<1>7. Loop(F, start)[1] = v
  <2>. DEFINE G == {start, v}
  <2>1. start \in G /\ G \subseteq ScanState
    BY <1>2, <1>6
  <2>2. \A w \in G : ScanStep(b, a, req, w) \in G
    BY <1>6
  <2>3. \A k \in Nat : \A w \in G : F[k][w] = ScanStep(b, a, req, w)
    <3>. HIDE DEF G
    <3>. QED
      BY <2>1
  <2>4. F[1][start] = v
    BY <1>2
  <2>. HIDE DEF F, start, G, v
  <2>5. start \in G /\ \A k \in Nat : \A w \in G : F[k][w] \in G
    BY <2>1, <2>2, <2>3
  <2>6. Loop(F, start)[0] = start /\ \A k \in Nat : Loop(F, start)[k+1] = F[k+1][Loop(F, start)[k]]
    BY <2>5, LoopWithin
  <2>7. Loop(F, start)[0+1] = F[0+1][start]
    BY <2>6
  <2>. QED
    BY <2>4, <2>7
<1>8. WouldSelfTrade(b, a, req) = Loop(F, start)[req.size + 1].found
  BY DEF WouldSelfTrade
<1>9. req.size + 1 = 1
  OBVIOUS
<1>. HIDE DEF F, start, v
<1>. QED
  BY <1>6, <1>7, <1>8, <1>9

(* The matching loop trades with an account exactly when there is one.     *)
LEMMA MakersExact ==
  ASSUME NEW a \in Accounts, NEW account_id \in Accounts, NEW order_id \in OrderId,
         NEW req \in OrderRequest, NEW b \in Book, NEW n \in Nat, Indexed(b), InOrder(b, n),
         NEW S, S = RestingOn(b, Opposite(req.side)),
         NEW T, T = AddOrder(b, order_id, account_id, req).trades
  PROVE  (\E i \in 1 .. Len(T) : T[i].maker_account = a) <=> \E o \in S : Meets(S, a, req, o)
<1>. DEFINE m == Match(b, order_id, account_id, req)
<1>1. MatchGood(b, req, n, m) /\ ~CanFill(req, m)
  BY MatchKeeps
<1>2. PICK d : Gave(S, account_id, req, m, d)
  BY MatchingGives
<1>3. T = m.trades
  BY DEF AddOrder, Finish
<1>. HIDE DEF m
<1>4. /\ S \in SUBSET Order /\ OwnIds(S)
      /\ \A o \in S : o.remaining_size > 0
  <2>1. Opposite(req.side) \in Side
    BY RequestFields
  <2>2. /\ S \in SUBSET Order /\ OwnIds(S)
        /\ \A p \in Prices : \A i \in 1 .. Len(b.queue[Opposite(req.side)][p]) :
             b.queue[Opposite(req.side)][p][i].remaining_size > 0
        /\ \A o \in S : /\ o.price \in Levels(b, Opposite(req.side))
                        /\ \E i \in 1 .. Len(b.queue[Opposite(req.side)][o.price]) :
                             o = b.queue[Opposite(req.side)][o.price][i]
    BY <2>1, LevelOrders
  <2>3. \A o \in S : o.price \in Prices
    BY <2>2, OrderFields
  <2>. QED
    BY <2>2, <2>3
<1>5. m \in MatchState /\ Indexed(m.book)
  BY <1>1 DEF MatchGood
<1>6. d \in [OrderId -> Nat] /\ InTurn(S, req, d) /\ MadeWith(S, m.trades, d)
  BY <1>2 DEF Gave
<1>7. ASSUME NEW o \in S
      PROVE  d[o.id] > 0 <=> Crosses(req, o.price) /\ Total(AheadOf(S, req, o)) < req.size
  <2>. DEFINE z == o.remaining_size  t == Total(AheadOf(S, req, o))  k == d[o.id]
  <2>1. z \in Nat /\ z > 0 /\ t \in Int /\ req.size \in Nat /\ o.id \in OrderId /\ k \in Nat
    BY <1>4, <1>6, OrderFields, RequestFields, AheadType DEF Order
  <2>2. CASE Crosses(req, o.price)
    <3>1. k = Max({0, Min({z, req.size - t})})
      BY <1>1, <1>2, <1>4, <1>5, <2>2, TakenExact
    <3>. HIDE DEF z, t, k
    <3>2. k = IF req.size - t <= 0 THEN 0 ELSE IF req.size - t <= z THEN req.size - t ELSE z
      <4>1. req.size - t \in Int
        BY <2>1
      <4>. QED
        BY <2>1, <3>1, <4>1, Clamped
    <3>3. k > 0 <=> t < req.size
      BY <2>1, <3>2
    <3>. QED
      BY <2>2, <3>3 DEF t, k
  <2>3. CASE ~Crosses(req, o.price)
    <3>1. ASSUME k > 0 PROVE FALSE
      <4>1. PICK j \in S : j.id = o.id /\ Due(S, req, d, j)
        BY <1>6, <2>1, <3>1 DEF InTurn
      <4>2. j = o
        BY <1>4, <4>1 DEF OwnIds
      <4>. QED
        BY <2>3, <4>1, <4>2 DEF Due
    <3>. QED
      BY <2>3, <3>1
  <2>. QED
    BY <2>2, <2>3
<1>8. (\E i \in 1 .. Len(m.trades) : m.trades[i].maker_account = a)
        <=> \E o \in S : o.account_id = a /\ d[o.id] > 0
  BY <1>6 DEF MadeWith
<1>. QED
  BY <1>3, <1>7, <1>8 DEF Meets

(* So it predicts the matching in every state of a run.                    *)
LEMMA ScanPredicts == LedgerInv => SelfTradeMirrorsMatching
<1>. SUFFICES ASSUME LedgerInv, NEW a \in Accounts, NEW req \in OrderRequest,
                     next_order_id < MaxOrders, IsValid(req.pair)
              PROVE  WouldSelfTrade(books[req.pair], a, req)
                       <=> IF req.size > 0 THEN a \in Makers(req, a) ELSE FirstInLine(req, a)
  BY DEF SelfTradeMirrorsMatching
<1>. DEFINE b == books[req.pair]  n == next_order_id  S == RestingOn(b, Opposite(req.side))
            T == AddOrder(b, n, a, req).trades
<1>1. req.pair \in Markets
  <2>1. req.pair \in Pair
    BY PairsAssumption DEF OrderRequest
  <2>. QED
    BY <2>1 DEF Markets
<1>2. /\ b \in Book /\ Indexed(b) /\ InOrder(b, n) /\ n \in Nat /\ n \in OrderId
  <2>1. n \in Nat /\ n \in OrderId
    BY MaxOrdersAssumption DEF LedgerInv, EngineInv, TypeOK, OrderId
  <2>. QED
    BY <1>1, <2>1, LedgerFacts DEF WellKept
<1>3. S = RestingOn(b, Opposite(req.side)) /\ T = AddOrder(b, n, a, req).trades
  OBVIOUS
<1>4. DOMAIN T = 1 .. Len(T)
  <2>. DEFINE m == Match(b, n, a, req)
  <2>1. MatchGood(b, req, n, m)
    BY <1>2, MatchKeeps
  <2>2. T = m.trades
    BY DEF AddOrder, Finish
  <2>. HIDE DEF m, T
  <2>3. T \in Seq(Trade)
    BY <2>1, <2>2 DEF MatchGood, MatchState
  <2>. QED
    BY <2>3
<1>5. a \in Makers(req, a) <=> \E i \in 1 .. Len(T) : T[i].maker_account = a
  <2>1. Makers(req, a) = {T[i].maker_account : i \in DOMAIN T}
    BY DEF Makers
  <2>. HIDE DEF T
  <2>. QED
    BY <1>4, <2>1
<1>8. CASE ~(req.size > 0)
  <2>1. req.size = 0
    BY <1>8, RequestFields
  <2>. HIDE DEF T
  <2>2. WouldSelfTrade(b, a, req) <=>
          /\ Levels(b, Opposite(req.side)) # {}
          /\ Crosses(req, BestPrice(b, Opposite(req.side)))
          /\ Head(b.queue[Opposite(req.side)][BestPrice(b, Opposite(req.side))]).account_id = a
    BY <1>2, <2>1, ScanOfNothing
  <2>. QED
    BY <1>8, <2>2 DEF FirstInLine
<1>. HIDE DEF b, n, S, T
<1>. SUFFICES ASSUME req.size > 0
              PROVE  WouldSelfTrade(b, a, req) <=> a \in Makers(req, a)
  BY <1>8 DEF b
<1>6. WouldSelfTrade(b, a, req) <=> \E o \in S : Meets(S, a, req, o)
  BY <1>2, <1>3, ScanExact
<1>7. (\E i \in 1 .. Len(T) : T[i].maker_account = a) <=> \E o \in S : Meets(S, a, req, o)
  BY <1>2, <1>3, MakersExact
<1>. QED
  BY <1>5, <1>6, <1>7

(* Before anything is reserved, would_self_trade says exactly whether the  *)
(* matching loop of add_order would trade with the account's own orders,   *)
(* in every book the engine can reach; of an order of size 0, whether the  *)
(* first order in line for it is the account's own.                        *)
THEOREM SelfTradePredicted == Spec => []SelfTradeMirrorsMatching
  BY LedgerInvariant, ScanPredicts, PTL

-----------------------------------------------------------------------------
(* The balances table.                                                     *)

\* Ledger l differs from the balances bal at dirty pairs only.
Marked(bal, l) ==
  /\ l \in LedgerValue
  /\ \A x \in Accounts, y \in Currency :
       <<x, y>> \notin l.dirty => l.balances[x][y] = bal[x][y]

(* Credit marks the balance it changes. *)
LEMMA CreditMarks ==
  ASSUME NEW bal, NEW l, Marked(bal, l), NEW a \in Accounts, NEW c \in Currency,
         NEW u \in Int, NEW v \in Int
  PROVE  Marked(bal, Credit(l, a, c, u, v))
<1>. DEFINE m == Credit(l, a, c, u, v)
<1>1. l \in LedgerValue /\ m \in LedgerValue
  BY CreditType DEF Marked
<1>2. ASSUME NEW x \in Accounts, NEW y \in Currency, <<x, y>> \notin m.dirty
      PROVE  m.balances[x][y] = bal[x][y]
  <2>1. <<x, y>> \notin l.dirty /\ ~(x = a /\ y = c)
    BY <1>2 DEF Credit
  <2>2. m.balances[x][y] = l.balances[x][y]
    BY <1>1, <2>1 DEF Credit, LedgerValue
  <2>. QED
    BY <2>1, <2>2 DEF Marked
<1>. QED
  BY <1>1, <1>2 DEF Marked

(* Release marks it too, or changes nothing. *)
LEMMA ReleaseMarks ==
  ASSUME NEW bal, NEW l, Marked(bal, l), NEW a \in Accounts, NEW c \in Currency, NEW n \in Int
  PROVE  Marked(bal, Release(l, a, c, n))
<1>1. -n \in Int
  OBVIOUS
<1>2. Marked(bal, Credit(l, a, c, n, -n))
  BY <1>1, CreditMarks
<1>. QED
  BY <1>2 DEF Release

(* Settling a trade marks the four balances it changes ... *)
LEMMA SettleMarks ==
  ASSUME NEW bal, NEW l, Marked(bal, l), NEW pair \in Pair, NEW t \in Trade
  PROVE  Marked(bal, Settle(l, pair, t))
<1>. DEFINE cost   == t.price * t.qty
            buyer  == IF t.taker_side = "Bid" THEN t.taker_account ELSE t.maker_account
            seller == IF t.taker_side = "Bid" THEN t.maker_account ELSE t.taker_account
            paid   == Credit(l, buyer, pair.quote, 0, -cost)
            bought == Credit(paid, buyer, pair.base, t.qty, 0)
            earned == Credit(bought, seller, pair.quote, cost, 0)
<1>1. pair.base \in Currency /\ pair.quote \in Currency
  BY DEF Pair
<1>2. buyer \in Accounts /\ seller \in Accounts
  BY DEF Trade
<1>3. cost \in Int /\ -cost \in Int /\ t.qty \in Int /\ -t.qty \in Int
  BY TradeFields
<1>4. Settle(l, pair, t) = Credit(earned, seller, pair.base, 0, -t.qty)
  BY DEF Settle
<1>. HIDE DEF cost, buyer, seller
<1>5. Marked(bal, paid)
  BY <1>1, <1>2, <1>3, CreditMarks
<1>. HIDE DEF paid
<1>6. Marked(bal, bought)
  BY <1>1, <1>2, <1>3, <1>5, CreditMarks
<1>. HIDE DEF bought
<1>7. Marked(bal, earned)
  BY <1>1, <1>2, <1>3, <1>6, CreditMarks
<1>. HIDE DEF earned
<1>8. Marked(bal, Credit(earned, seller, pair.base, 0, -t.qty))
  BY <1>1, <1>2, <1>3, <1>7, CreditMarks
<1>. QED
  BY <1>4, <1>8

(* ... and settling all of them those of every trade. *)
LEMMA SettleAllMarks ==
  ASSUME NEW bal, NEW l, Marked(bal, l), NEW pair \in Pair, NEW trades \in Seq(Trade)
  PROVE  Marked(bal, SettleAll(l, pair, trades))
<1>. DEFINE step(n, x) == IF n \in DOMAIN trades THEN Settle(x, pair, trades[n]) ELSE x
            F == [n \in Nat |-> [x \in LedgerValue |-> step(n, x)]]
            G == {x \in LedgerValue : Marked(bal, x)}
<1>1. ASSUME NEW n \in Nat, NEW x \in LedgerValue
      PROVE  step(n, x) \in LedgerValue /\ (Marked(bal, x) => Marked(bal, step(n, x)))
  <2>1. CASE n \in DOMAIN trades
    <3>1. trades[n] \in Trade
      BY <2>1
    <3>. QED
      BY <2>1, <3>1, SettleType, SettleMarks
  <2>2. CASE n \notin DOMAIN trades
    BY <2>2
  <2>. QED
    BY <2>1, <2>2
<1>2. F \in [Nat -> [LedgerValue -> LedgerValue]]
  <2>. HIDE DEF step
  <2>. QED
    BY <1>1
<1>3. \A n \in Nat : \A x \in G : F[n+1][x] \in G
  <2>. SUFFICES ASSUME NEW n \in Nat, NEW x \in G PROVE F[n+1][x] \in G
    OBVIOUS
  <2>1. n + 1 \in Nat /\ x \in LedgerValue /\ Marked(bal, x)
    OBVIOUS
  <2>2. step(n+1, x) \in G
    BY <1>1, <2>1
  <2>. HIDE DEF step, G
  <2>. QED
    BY <2>1, <2>2
<1>4. l \in G /\ G \in SUBSET LedgerValue
  BY DEF Marked
<1>5. Len(trades) \in Nat
  OBVIOUS
<1>. HIDE DEF F, G
<1>6. Loop(F, l)[Len(trades)] \in G
  BY <1>2, <1>3, <1>4, <1>5, LoopInvariant
<1>. QED
  BY <1>6 DEF SettleAll, F, G

(* So does all that place_order does to the ledger. *)
LEMMA PlaceMarks ==
  ASSUME NEW bal, NEW l, Marked(bal, l), NEW book \in Book, NEW a \in Accounts,
         NEW req \in OrderRequest, NEW trades \in Seq(Trade), NEW left \in Nat,
         NEW reserved, NEW settled, NEW unsold, NEW surplus, NEW refunded,
         reserved = Reserve(l, a, ReserveOf(book, req).currency, ReserveOf(book, req).amount),
         settled = SettleAll(reserved, req.pair, trades),
         unsold = ReleaseUnsold(settled, a, req, left),
         surplus = Surplus(req, trades),
         refunded = IF surplus > 0 THEN Release(unsold, a, req.pair.quote, surplus) ELSE unsold
  PROVE  Marked(bal, refunded)
<1>. DEFINE hold == ReserveOf(book, req)
<1>1. /\ req.pair \in Pair /\ req.pair.base \in Currency /\ req.pair.quote \in Currency
      /\ req.price \in Nat /\ req.size \in Nat
  BY PairsAssumption, PricesAssumption, SizesAssumption DEF OrderRequest, Pair
<1>2. QuoteAmount(book, req) \in Int
  <2>1. MarketBuyCost(book, req.size) \in Nat
    BY <1>1, MarketBuyCostType
  <2>2. req.price * req.size \in Int
    BY <1>1
  <2>. QED
    BY <2>1, <2>2 DEF QuoteAmount
<1>3. hold.currency \in Currency /\ hold.amount \in Int
  BY <1>1, <1>2 DEF ReserveOf
<1>. HIDE DEF hold
<1>4. -hold.amount \in Int
  BY <1>3
<1>5. Marked(bal, reserved)
  <2>1. reserved = Credit(l, a, hold.currency, -hold.amount, hold.amount)
    BY DEF Reserve, hold
  <2>. QED
    BY <1>3, <1>4, <2>1, CreditMarks
<1>6. Marked(bal, settled)
  BY <1>1, <1>5, SettleAllMarks
<1>7. Marked(bal, unsold)
  <2>1. Marked(bal, Release(settled, a, req.pair.base, left))
    BY <1>1, <1>6, ReleaseMarks
  <2>. QED
    BY <1>6, <2>1 DEF ReleaseUnsold
<1>8. surplus \in Int
  BY SurplusType
<1>9. Marked(bal, Release(unsold, a, req.pair.quote, surplus))
  BY <1>1, <1>7, <1>8, ReleaseMarks
<1>. QED
  BY <1>7, <1>9

\* What the readers make of a command's batch.
ViewsFollow == IF batch' = << >> THEN UNCHANGED views ELSE Project(batch'[1])

(* A ledger as the command found it has nothing to mark. *)
LEMMA NothingMarked ==
  ASSUME TypeOK
  PROVE  Marked(balances, Ledger0)
<1>1. Ledger0 \in LedgerValue
  BY Ledger0Type
<1>. QED
  BY <1>1 DEF Marked, Ledger0

(* BalanceChanged then carries every balance that changed. *)
LEMMA CommitShows ==
  ASSUME TypeOK, BalanceRowsExact, NEW events, NEW l, Marked(balances, l),
         Commit(events, l), ViewsFollow
  PROVE  BalanceRowsExact'
<1>. DEFINE changed == {[account_id |-> d[1], currency |-> d[2],
                         balance |-> l.balances[d[1]][d[2]]] : d \in l.dirty}
<1>1. /\ balances \in [Accounts -> [Currency -> Balance]] /\ balance_rows = balances
      /\ l.balances \in [Accounts -> [Currency -> Balance]]
      /\ l.dirty \subseteq Accounts \X Currency
      /\ balances' = l.balances
  BY DEF TypeOK, BalanceRowsExact, Marked, LedgerValue, Commit
<1>2. CASE events = NoEvents /\ l.dirty = {}
  <2>1. batch' = << >> /\ balance_rows' = balance_rows
    BY <1>2 DEF Commit, ViewsFollow, views
  <2>2. \A x \in Accounts, y \in Currency : l.balances[x][y] = balances[x][y]
    BY <1>2 DEF Marked
  <2>3. \A x \in Accounts : l.balances[x] = balances[x]
    BY <1>1, <2>2
  <2>4. l.balances = balances
    BY <1>1, <2>3
  <2>. QED
    BY <1>1, <2>1, <2>4 DEF BalanceRowsExact
<1>3. CASE ~(events = NoEvents /\ l.dirty = {})
  <2>1. batch' # << >> /\ batch'[1].balance_changed = changed
    BY <1>3 DEF Commit
  <2>2. balance_rows' = UpsertBalances(balances, changed)
    BY <1>1, <2>1 DEF ViewsFollow, Project
  <2>3. ASSUME NEW x \in Accounts, NEW y \in Currency
        PROVE  UpsertBalances(balances, changed)[x][y] = l.balances[x][y]
    <3>. DEFINE hits == {e \in changed : e.account_id = x /\ e.currency = y}
    <3>1. UpsertBalances(balances, changed)[x][y] =
            IF hits = {} THEN balances[x][y] ELSE (CHOOSE e \in hits : TRUE).balance
      BY DEF UpsertBalances
    <3>2. \A e \in hits : e.balance = l.balances[x][y]
      OBVIOUS
    <3>3. hits = {} => <<x, y>> \notin l.dirty
      <4>. SUFFICES ASSUME <<x, y>> \in l.dirty PROVE hits # {}
        OBVIOUS
      <4>. DEFINE e == [account_id |-> x, currency |-> y, balance |-> l.balances[x][y]]
      <4>1. e \in changed
        OBVIOUS
      <4>2. e.account_id = x /\ e.currency = y
        OBVIOUS
      <4>. HIDE DEF e, changed
      <4>. QED
        BY <4>1, <4>2
    <3>. HIDE DEF hits
    <3>4. CASE hits = {}
      BY <3>1, <3>3, <3>4 DEF Marked
    <3>5. CASE hits # {}
      <4>1. (CHOOSE e \in hits : TRUE) \in hits
        BY <3>5
      <4>. QED
        BY <3>1, <3>2, <3>5, <4>1
    <3>. QED
      BY <3>4, <3>5
  <2>4. UpsertBalances(balances, changed) =
          [x \in Accounts |-> [y \in Currency |-> l.balances[x][y]]]
    <3>. DEFINE U == UpsertBalances(balances, changed)
    <3>1. U = [x \in Accounts |-> [y \in Currency |-> U[x][y]]]
      BY DEF UpsertBalances
    <3>. HIDE DEF U
    <3>2. \A x \in Accounts, y \in Currency : U[x][y] = l.balances[x][y]
      BY <2>3 DEF U
    <3>3. \A x \in Accounts : [y \in Currency |-> U[x][y]] = [y \in Currency |-> l.balances[x][y]]
      BY <3>2
    <3>. QED
      BY <3>1, <3>3 DEF U
  <2>5. [x \in Accounts |-> [y \in Currency |-> l.balances[x][y]]] = l.balances
    BY <1>1
  <2>. QED
    BY <1>1, <2>2, <2>4, <2>5 DEF BalanceRowsExact
<1>. QED
  BY <1>2, <1>3

\* What an accepted place_order of req emitted and left, having found book b and
\* made r of it.
Emitted(n, account_id, req, b, r) ==
  /\ req.pair \in Markets /\ n \in OrderId /\ n = next_order_id
  /\ b = books[req.pair] /\ b \in Book /\ WellKept(b, n)
  /\ r = AddOrder(b, n, account_id, req)
  /\ books' = [books EXCEPT ![req.pair] = r.book] /\ next_order_id' = n + 1
  /\ \E l : Marked(balances, l) /\ Commit(PlaceEvents(n, account_id, req, r), l)

(* place_order reports what add_order did and marks what it did to the     *)
(* ledger: it is not refused once it has matched.                          *)
LEMMA PlaceEmits ==
  ASSUME LedgerInv, NEW account_id \in Accounts, NEW cid, NEW req \in OrderRequest,
         next_order_id < MaxOrders, PlaceAccepted(account_id, cid, req),
         NEW b, b = books[req.pair],
         NEW r, r = AddOrder(b, next_order_id, account_id, req)
  PROVE  Emitted(next_order_id, account_id, req, b, r)
<1>. DEFINE n == next_order_id
            hold == ReserveOf(b, req)
            reserved == Reserve(Ledger0, account_id, hold.currency, hold.amount)
            settled == SettleAll(reserved, req.pair, r.trades)
            unsold == ReleaseUnsold(settled, account_id, req, r.taker_remaining)
            surplus == Surplus(req, r.trades)
            refused == surplus > 0 /\ ~CanRelease(unsold, account_id, req.pair.quote, surplus)
            refunded == IF surplus > 0 THEN Release(unsold, account_id, req.pair.quote, surplus)
                        ELSE unsold
            events == PlaceEvents(n, account_id, req, r)
<1>1. req.pair \in Markets /\ b \in Book /\ Placed(account_id, req, b, r)
  BY PlaceEffect
<1>2. TypeOK /\ n \in Nat /\ WellKept(b, n)
  BY <1>1, LedgerFacts
<1>3. n \in OrderId
  BY <1>2, MaxOrdersAssumption DEF OrderId
<1>4. /\ books' = [books EXCEPT ![req.pair] = r.book] /\ next_order_id' = n + 1
      /\ Respond("Place", IF refused THEN "InvalidAmount" ELSE "Ok")
      /\ Commit(IF refused THEN NoEvents ELSE events, refunded)
  BY DEF PlaceAccepted, PlaceMatched
<1>5. r.trades \in Seq(Trade) /\ r.taker_remaining \in Nat
  <2>. HIDE DEF n
  <2>1. Added(b, n, r)
    BY <1>2, <1>3, AddKeeps DEF n
  <2>. QED
    BY <2>1 DEF Added
<1>6. Marked(balances, refunded)
  <2>1. Marked(balances, Ledger0)
    BY <1>2, NothingMarked
  <2>2. reserved = Reserve(Ledger0, account_id, ReserveOf(b, req).currency, ReserveOf(b, req).amount)
    OBVIOUS
  <2>3. settled = SettleAll(reserved, req.pair, r.trades)
    OBVIOUS
  <2>4. unsold = ReleaseUnsold(settled, account_id, req, r.taker_remaining)
    OBVIOUS
  <2>5. surplus = Surplus(req, r.trades)
    OBVIOUS
  <2>6. refunded = IF surplus > 0 THEN Release(unsold, account_id, req.pair.quote, surplus) ELSE unsold
    OBVIOUS
  <2>. HIDE DEF hold, reserved, settled, unsold, surplus, refunded
  <2>. QED
    BY <1>1, <1>5, <2>1, <2>2, <2>3, <2>4, <2>5, <2>6, PlaceMarks
<1>. HIDE DEF refused, refunded, events
<1>7. ~refused
  <2>1. response'.result = "Ok"
    BY <1>1 DEF Placed
  <2>. QED
    BY <1>4, <2>1 DEF Respond
<1>8. Commit(events, refunded)
  BY <1>4, <1>7
<1>. QED
  BY <1>1, <1>2, <1>3, <1>4, <1>6, <1>8 DEF Emitted, events

(* An accepted cancel marks the balance it releases to.                    *)
LEMMA CancelMarks ==
  ASSUME LedgerInv, NEW pair, NEW b, NEW c, NEW o, Freed(pair, b, c, o)
  PROVE  \E l : Marked(balances, l) /\ Commit(CancelEvents(pair, CancelOrder(b, o.id)), l)
<1>. DEFINE currency == IF o.side = "Bid" THEN pair.quote ELSE pair.base
            l == Release(Ledger0, o.account_id, currency, Spendable(o))
<1>1. /\ o \in Order /\ pair \in Markets
      /\ Commit(CancelEvents(pair, CancelOrder(b, o.id)), l)
  BY DEF Freed
<1>2. o.account_id \in Accounts /\ Spendable(o) \in Int /\ currency \in Currency
  BY <1>1, OrderFields, SpendableType, TwoMarkets
<1>. HIDE DEF currency
<1>3. Marked(balances, l)
  BY <1>2, NothingMarked, LedgerFacts, ReleaseMarks
<1>. QED
  BY <1>1, <1>3

(* Every command commits a ledger that marks what it changed, unless it    *)
(* leaves balances and readers alone.                                      *)
LEMMA EveryCommit ==
  ASSUME LedgerInv, Next
  PROVE  \/ \E events, l : Marked(balances, l) /\ Commit(events, l)
         \/ balances' = balances /\ batch' = << >>
<1>1. PICK a \in Accounts, x \in ClientIds : Apply(a, x)
  BY DEF Next
<1>2. TypeOK /\ Marked(balances, Ledger0)
  BY NothingMarked, LedgerFacts
<1>3. CASE \E req \in OrderRequest : Place(a, x, req)
  <2>1. PICK req \in OrderRequest : Place(a, x, req)
    BY <1>3
  <2>2. CASE PlaceAccepted(a, x, req)
    <3>1. next_order_id < MaxOrders
      BY <2>1 DEF Place
    <3>2. Emitted(next_order_id, a, req, books[req.pair],
                  AddOrder(books[req.pair], next_order_id, a, req))
      BY <2>2, <3>1, PlaceEmits
    <3>. QED
      BY <3>2 DEF Emitted
  <2>3. CASE PlaceRejected(a, x, req)
    BY <1>2, <2>3 DEF PlaceRejected
  <2>. QED
    BY <2>1, <2>2, <2>3 DEF Place
<1>4. CASE \E id \in OrderId : Cancel(a, x, id)
  <2>1. PICK id \in OrderId : Cancel(a, x, id)
    BY <1>4
  <2>2. CASE CancelAccepted(a, x, id)
    BY <2>2, CancelFrees, CancelMarks
  <2>3. CASE CancelRejected(a, x, id)
    BY <1>2, <2>3 DEF CancelRejected
  <2>. QED
    BY <2>1, <2>2, <2>3 DEF Cancel
<1>5. CASE \E c \in Currency, k \in Amounts : DepositCmd(a, x, c, k)
  <2>1. PICK c \in Currency, k \in Amounts : DepositCmd(a, x, c, k)
    BY <1>5
  <2>2. k \in Int /\ 0 \in Int
    BY AmountsAssumption
  <2>3. Marked(balances, Deposit(Ledger0, a, c, k))
    BY <1>2, <2>2, CreditMarks DEF Deposit
  <2>. QED
    BY <1>2, <2>1, <2>3 DEF DepositCmd
<1>6. CASE \E c \in Currency, k \in Amounts : WithdrawCmd(a, x, c, k)
  <2>1. PICK c \in Currency, k \in Amounts : WithdrawCmd(a, x, c, k)
    BY <1>6
  <2>2. -k \in Int /\ 0 \in Int
    BY AmountsAssumption
  <2>3. Marked(balances, Withdraw(Ledger0, a, c, k))
    BY <1>2, <2>2, CreditMarks DEF Withdraw
  <2>. QED
    BY <1>2, <2>1, <2>3 DEF WithdrawCmd
<1>7. CASE \E pair \in Pairs : ListPair(a, x, pair)
  BY <1>2, <1>7 DEF ListPair
<1>8. CASE \E pair \in Pairs : DelistPair(a, x, pair)
  BY <1>2, <1>8 DEF DelistPair
<1>9. CASE Duplicate(a, x)
  BY <1>9 DEF Duplicate
<1>. QED
  BY <1>1, <1>3, <1>4, <1>5, <1>6, <1>7, <1>8, <1>9 DEF Apply

(* So the balances table follows every command. *)
LEMMA BalancesFollow ==
  ASSUME LedgerInv, BalanceRowsExact, Next, ViewsFollow
  PROVE  BalanceRowsExact'
<1>1. CASE \E events, l : Marked(balances, l) /\ Commit(events, l)
  BY <1>1, CommitShows, LedgerFacts
<1>2. CASE balances' = balances /\ batch' = << >>
  BY <1>2 DEF BalanceRowsExact, ViewsFollow, views
<1>. QED
  BY <1>1, <1>2, EveryCommit

-----------------------------------------------------------------------------
(* The price levels.                                                       *)

\* Book c differs from book b at the dirty levels only.
Covered(b, c, dirty) ==
  /\ dirty \subseteq Side \X Prices
  /\ \A side \in Side, price \in Prices :
       <<side, price>> \notin dirty => c.queue[side][price] = b.queue[side][price]

\* What the readers show at a price level: the u64 sum of its units, even where
\* it wraps round.
LevelsTrue(L, B) ==
  \A pair \in Markets, side \in Side, price \in Prices :
    L[pair][side][price] = LevelQty(B[pair], side, price)

(* The drained deltas then carry every level that changed.                 *)
LEMMA DeltasShow ==
  ASSUME NEW L, NEW B \in [Markets -> Book], LevelsTrue(L, B), NEW pair \in Markets,
         NEW c, NEW dirty, Covered(B[pair], c, dirty),
         NEW deltas, deltas = {[pair |-> pair, level |-> d] : d \in TakeDirtyLevels(c, dirty)},
         NEW C, C = [B EXCEPT ![pair] = c]
  PROVE  LevelsTrue(ApplyBatch(L, deltas), C)
<1>. SUFFICES ASSUME NEW p \in Markets, NEW side \in Side, NEW price \in Prices
              PROVE  ApplyBatch(L, deltas)[p][side][price] = LevelQty(C[p], side, price)
  BY DEF LevelsTrue
<1>. DEFINE hits == {d \in deltas : d.pair = p /\ d.level.side = side /\ d.level.price = price}
<1>1. ApplyBatch(L, deltas)[p][side][price] =
        IF hits = {} THEN L[p][side][price] ELSE (CHOOSE d \in hits : TRUE).level.qty
  BY DEF ApplyBatch
<1>2. L[p][side][price] = LevelQty(B[p], side, price)
  BY DEF LevelsTrue
<1>3. C[p] = IF p = pair THEN c ELSE B[p]
  OBVIOUS
<1>4. \A d \in hits : p = pair /\ d.level.qty = LevelQty(c, side, price)
  <2>. SUFFICES ASSUME NEW d \in hits
                PROVE  p = pair /\ d.level.qty = LevelQty(c, side, price)
    OBVIOUS
  <2>1. PICK l \in TakeDirtyLevels(c, dirty) : d = [pair |-> pair, level |-> l]
    OBVIOUS
  <2>2. PICK k \in dirty : l = [side |-> k[1], price |-> k[2], qty |-> LevelQty(c, k[1], k[2])]
    BY <2>1 DEF TakeDirtyLevels
  <2>3. d.pair = p /\ d.level.side = side /\ d.level.price = price
    OBVIOUS
  <2>. QED
    BY <2>1, <2>2, <2>3
<1>5. hits = {} => p # pair \/ <<side, price>> \notin dirty
  <2>. SUFFICES ASSUME p = pair, <<side, price>> \in dirty PROVE hits # {}
    OBVIOUS
  <2>. DEFINE l == [side |-> side, price |-> price, qty |-> LevelQty(c, side, price)]
              e == [pair |-> pair, level |-> l]
  <2>1. l \in TakeDirtyLevels(c, dirty)
    <3>1. \A k \in dirty : [side |-> k[1], price |-> k[2], qty |-> LevelQty(c, k[1], k[2])]
                             \in TakeDirtyLevels(c, dirty)
      BY DEF TakeDirtyLevels
    <3>. QED
      BY <3>1
  <2>2. l.side = side /\ l.price = price
    OBVIOUS
  <2>. HIDE DEF l
  <2>3. e \in deltas /\ e.pair = p /\ e.level = l
    BY <2>1
  <2>. HIDE DEF e
  <2>. QED
    BY <2>2, <2>3
<1>. HIDE DEF hits
<1>6. CASE hits = {}
  <2>1. LevelQty(C[p], side, price) = LevelQty(B[p], side, price)
    BY <1>3, <1>5, <1>6 DEF Covered, LevelQty, LevelTotal
  <2>. QED
    BY <1>1, <1>2, <1>6, <2>1
<1>7. CASE hits # {}
  <2>1. (CHOOSE d \in hits : TRUE) \in hits
    BY <1>7
  <2>. QED
    BY <1>1, <1>3, <1>4, <1>7, <2>1
<1>. QED
  BY <1>6, <1>7

(* Without deltas the readers' levels stay. *)
LEMMA NoDeltas ==
  ASSUME NEW L, NEW B, LevelsTrue(L, B)
  PROVE  LevelsTrue(ApplyBatch(L, {}), B)
  BY DEF LevelsTrue, ApplyBatch

(* A fill marks the level it takes from. *)
LEMMA FillCovers ==
  ASSUME NEW order_id \in OrderId, NEW account_id \in Accounts,
         NEW req \in OrderRequest, NEW s \in MatchState, CanFill(req, s), Indexed(s.book),
         NEW book, Covered(book, s.book, s.dirty),
         NEW f, f = Fill(order_id, account_id, req, s)
  PROVE  Covered(book, f.book, f.dirty)
<1>. DEFINE q == FillLevel(req, s)
<1>1. /\ FillSide(req) \in Side /\ FillPrice(req, s) \in Prices
      /\ Len(q) > 0 /\ Len(q) \in Nat /\ Head(q) = q[1]
  BY FillFacts
<1>2. Located(s.book, FillSide(req), FillPrice(req, s), q[1])
  BY <1>1 DEF Indexed, FillLevel
<1>3. f.dirty = s.dirty \cup {<<Head(q).side, Head(q).price>>}
  BY DEF Fill, FillFront, FillLevel, FillPrice, FillSide
<1>4. f.dirty = s.dirty \cup {<<FillSide(req), FillPrice(req, s)>>}
  BY <1>1, <1>2, <1>3 DEF Located
<1>5. \A side \in Side, price \in Prices :
        f.book.queue[side][price] =
          IF side = FillSide(req) /\ price = FillPrice(req, s)
          THEN FillAfter(req, s) ELSE s.book.queue[side][price]
  <2>1. FillResult(req, s, f)
    BY FillEffect
  <2>. QED
    BY <2>1 DEF FillResult
<1>. QED
  BY <1>1, <1>4, <1>5 DEF Covered

(* So does matching, from its first state to its last. *)
LEMMA MatchCovers ==
  ASSUME NEW order_id \in OrderId, NEW account_id \in Accounts,
         NEW req \in OrderRequest, NEW book \in Book, NEW n \in Nat,
         Indexed(book), InOrder(book, n),
         NEW m, m = Match(book, order_id, account_id, req)
  PROVE  Covered(book, m.book, m.dirty)
<1>. DEFINE G == {s \in MatchState : /\ Indexed(s.book) /\ InOrder(s.book, n)
                                     /\ Covered(book, s.book, s.dirty)}
            start == [book |-> book, remaining |-> req.size, trades |-> << >>,
                      updates |-> << >>, dirty |-> {}]
<1>1. start \in G
  <2>1. start \in MatchState
    BY RequestFields DEF MatchState
  <2>2. start.book = book /\ start.dirty = {}
    OBVIOUS
  <2>. HIDE DEF start
  <2>. QED
    BY <2>1, <2>2 DEF Covered
<1>2. ASSUME NEW s \in G, CanFill(req, s)
      PROVE  Fill(order_id, account_id, req, s) \in G
  <2>. DEFINE f == Fill(order_id, account_id, req, s)
  <2>1. s \in MatchState /\ Indexed(s.book) /\ InOrder(s.book, n) /\ Covered(book, s.book, s.dirty)
    OBVIOUS
  <2>2. f = Fill(order_id, account_id, req, s)
    OBVIOUS
  <2>. HIDE DEF f
  <2>3. f \in MatchState /\ Indexed(f.book) /\ InOrder(f.book, n)
    BY <1>2, <2>1, <2>2, FillKeeps
  <2>4. Covered(book, f.book, f.dirty)
    BY <1>2, <2>1, <2>2, FillCovers
  <2>5. f \in G
    BY <2>3, <2>4
  <2>. HIDE DEF G
  <2>. QED
    BY <2>2, <2>5
<1>3. G \in SUBSET MatchState
  OBVIOUS
<1>. HIDE DEF G
<1>4. Match(book, order_id, account_id, req) \in G
  BY <1>1, <1>2, <1>3, MatchInduction
<1>. QED
  BY <1>4 DEF G

(* And what follows the loop. *)
LEMMA AddCovers ==
  ASSUME NEW order_id \in OrderId, NEW account_id \in Accounts,
         NEW req \in OrderRequest, NEW b, WellKept(b, order_id),
         NEW r, r = AddOrder(b, order_id, account_id, req)
  PROVE  \E dirty : /\ Covered(b, r.book, dirty)
                    /\ r.book_deltas = TakeDirtyLevels(r.book, dirty)
<1>. DEFINE m == Match(b, order_id, account_id, req)
            rests == req.order_type = "Limit" /\ m.remaining > 0
            dirty == IF rests THEN m.dirty \cup {<<req.side, req.price>>} ELSE m.dirty
<1>1. /\ order_id \in Nat /\ b \in Book /\ Indexed(b) /\ InOrder(b, order_id)
  BY MaxOrdersAssumption DEF WellKept, OrderId
<1>2. m = Match(b, order_id, account_id, req)
  OBVIOUS
<1>3. /\ r.book = IF rests THEN Rest(m.book, order_id, account_id, req, m.remaining) ELSE m.book
      /\ r.book_deltas = TakeDirtyLevels(r.book, dirty)
  BY DEF AddOrder, Finish
<1>. HIDE DEF m
<1>4. Covered(b, m.book, m.dirty)
  BY <1>1, <1>2, MatchCovers
<1>5. m \in MatchState
  BY <1>1, <1>2, MatchKeeps DEF MatchGood
<1>6. CASE ~rests
  BY <1>3, <1>4, <1>6
<1>7. CASE rests
  <2>1. m.book \in Book /\ m.remaining \in Nat
    BY <1>5 DEF MatchState
  <2>2. r.book = Rest(m.book, order_id, account_id, req, m.remaining)
    BY <1>3, <1>7
  <2>3. PICK o \in Order : /\ o.side = req.side /\ o.price = req.price
                           /\ RestedBook(m.book, r.book, o)
    BY <2>1, <2>2, RestEffect
  <2>4. req.side \in Side /\ req.price \in Prices
    BY RequestFields
  <2>5. dirty = m.dirty \cup {<<req.side, req.price>>}
    BY <1>7
  <2>. HIDE DEF dirty
  <2>6. Covered(b, r.book, dirty)
    BY <1>4, <2>3, <2>4, <2>5 DEF Covered, RestedBook
  <2>. QED
    BY <1>3, <2>6 DEF dirty
<1>. QED
  BY <1>6, <1>7

(* The events of a command that is not silent. *)
LEMMA CommitEmits ==
  ASSUME NEW events, NEW l, Commit(events, l), events # NoEvents
  PROVE  batch' # << >> /\ batch'[1].events = events
  BY DEF Commit

(* Where no book changed, no event names an order or a level. *)
LEMMA SilentBatch ==
  ASSUME NEW l, Commit(NoEvents, l)
  PROVE  batch' = << >> \/ batch'[1].events = NoEvents
  BY DEF Commit

\* What one command did to the books, and reported.
PlaceStep ==
  \E a \in Accounts, req \in OrderRequest : \E b, r :
    /\ Emitted(next_order_id, a, req, b, r)
    /\ batch' # << >> /\ batch'[1].events = PlaceEvents(next_order_id, a, req, r)
CancelStep ==
  \E pair, b, c, o :
    /\ Freed(pair, b, c, o)
    /\ batch' # << >> /\ batch'[1].events = CancelEvents(pair, CancelOrder(b, o.id))
SilentStep ==
  /\ books' = books /\ next_order_id' = next_order_id
  /\ batch' = << >> \/ batch'[1].events = NoEvents

(* Every command is one of these. *)
LEMMA EveryStep ==
  ASSUME LedgerInv, Next
  PROVE  PlaceStep \/ CancelStep \/ SilentStep
<1>1. PICK a \in Accounts, x \in ClientIds : Apply(a, x)
  BY DEF Next
<1>3. CASE \E req \in OrderRequest : Place(a, x, req)
  <2>1. PICK req \in OrderRequest : Place(a, x, req)
    BY <1>3
  <2>2. CASE PlaceAccepted(a, x, req)
    <3>. DEFINE n == next_order_id
                b == books[req.pair]
                r == AddOrder(b, n, a, req)
                events == PlaceEvents(n, a, req, r)
    <3>1. n < MaxOrders
      BY <2>1 DEF Place
    <3>2. Emitted(n, a, req, b, r)
      BY <2>2, <3>1, PlaceEmits
    <3>3. events.accepted # << >>
      BY DEF PlaceEvents, NoEvents
    <3>4. events # NoEvents
      BY <3>3 DEF NoEvents
    <3>. HIDE DEF b, r
    <3>5. PICK l : Commit(events, l)
      BY <3>2 DEF Emitted
    <3>. HIDE DEF events
    <3>6. batch' # << >> /\ batch'[1].events = events
      BY <3>4, <3>5, CommitEmits
    <3>. QED
      BY <3>2, <3>6 DEF PlaceStep, events
  <2>3. CASE PlaceRejected(a, x, req)
    BY <2>3, SilentBatch DEF PlaceRejected, SilentStep
  <2>. QED
    BY <2>1, <2>2, <2>3 DEF Place
<1>4. CASE \E id \in OrderId : Cancel(a, x, id)
  <2>1. PICK id \in OrderId : Cancel(a, x, id)
    BY <1>4
  <2>2. CASE CancelAccepted(a, x, id)
    <3>1. PICK pair, b, c, o : Freed(pair, b, c, o)
      BY <2>2, CancelFrees
    <3>. DEFINE events == CancelEvents(pair, CancelOrder(b, o.id))
    <3>2. events.cancelled # << >>
      BY DEF CancelEvents, NoEvents
    <3>3. events # NoEvents
      BY <3>2 DEF NoEvents
    <3>4. PICK l : Commit(events, l)
      BY <3>1 DEF Freed
    <3>. HIDE DEF events
    <3>5. batch' # << >> /\ batch'[1].events = events
      BY <3>3, <3>4, CommitEmits
    <3>. QED
      BY <3>1, <3>5 DEF CancelStep, events
  <2>3. CASE CancelRejected(a, x, id)
    BY <2>3, SilentBatch DEF CancelRejected, SilentStep
  <2>. QED
    BY <2>1, <2>2, <2>3 DEF Cancel
<1>5. CASE \E c \in Currency, k \in Amounts : DepositCmd(a, x, c, k)
  BY <1>5, SilentBatch DEF DepositCmd, SilentStep
<1>6. CASE \E c \in Currency, k \in Amounts : WithdrawCmd(a, x, c, k)
  BY <1>6, SilentBatch DEF WithdrawCmd, SilentStep
<1>7. CASE \E pair \in Pairs : ListPair(a, x, pair)
  BY <1>7, SilentBatch DEF ListPair, SilentStep
<1>8. CASE \E pair \in Pairs : DelistPair(a, x, pair)
  BY <1>8, SilentBatch DEF DelistPair, SilentStep
<1>9. CASE Duplicate(a, x)
  BY <1>9 DEF Duplicate, SilentStep
<1>. QED
  BY <1>1, <1>3, <1>4, <1>5, <1>6, <1>7, <1>8, <1>9 DEF Apply

(* So the readers' levels follow every command. *)
LEMMA LevelsFollow ==
  ASSUME LedgerInv, LevelsTrue(levels, books), Next, ViewsFollow
  PROVE  LevelsTrue(levels', books')
<1>1. books \in [Markets -> Book] /\ LevelsTrue(levels, books)
  BY LedgerFacts
<1>2. CASE PlaceStep
  <2>0. PICK a \in Accounts, req \in OrderRequest : \E b, r :
          /\ Emitted(next_order_id, a, req, b, r)
          /\ batch' # << >> /\ batch'[1].events = PlaceEvents(next_order_id, a, req, r)
    BY <1>2 DEF PlaceStep
  <2>1. PICK b, r :
          /\ Emitted(next_order_id, a, req, b, r)
          /\ batch' # << >> /\ batch'[1].events = PlaceEvents(next_order_id, a, req, r)
    BY <2>0
  <2>. DEFINE n == next_order_id
  <2>2. /\ req.pair \in Markets /\ n \in OrderId /\ b = books[req.pair] /\ WellKept(b, n)
        /\ r = AddOrder(b, n, a, req) /\ books' = [books EXCEPT ![req.pair] = r.book]
    BY <2>1 DEF Emitted
  <2>3. levels' = ApplyBatch(levels, {[pair |-> req.pair, level |-> d] : d \in r.book_deltas})
    BY <2>1 DEF ViewsFollow, Project, PlaceEvents, NoEvents
  <2>. HIDE DEF n
  <2>4. PICK dirty : Covered(b, r.book, dirty) /\ r.book_deltas = TakeDirtyLevels(r.book, dirty)
    BY <2>2, AddCovers
  <2>. DEFINE deltas == {[pair |-> req.pair, level |-> d] : d \in TakeDirtyLevels(r.book, dirty)}
  <2>5. levels' = ApplyBatch(levels, deltas)
    BY <2>3, <2>4
  <2>6. Covered(books[req.pair], r.book, dirty)
    BY <2>2, <2>4
  <2>7. deltas = {[pair |-> req.pair, level |-> d] : d \in TakeDirtyLevels(r.book, dirty)}
    OBVIOUS
  <2>. HIDE DEF deltas
  <2>8. LevelsTrue(ApplyBatch(levels, deltas), books')
    BY <1>1, <2>2, <2>6, <2>7, DeltasShow
  <2>. QED
    BY <2>5, <2>8
<1>3. CASE CancelStep
  <2>1. PICK pair, b, c, o :
          /\ Freed(pair, b, c, o)
          /\ batch' # << >> /\ batch'[1].events = CancelEvents(pair, CancelOrder(b, o.id))
    BY <1>3 DEF CancelStep
  <2>. DEFINE dirty == {<<o.side, o.price>>}
              deltas == {[pair |-> pair, level |-> d] : d \in TakeDirtyLevels(c, dirty)}
  <2>2. /\ pair \in Markets /\ b = books[pair] /\ books' = [books EXCEPT ![pair] = c]
        /\ CancelOrder(b, o.id).book_deltas = TakeDirtyLevels(c, dirty)
    BY <2>1 DEF Freed
  <2>3. o.side \in Side /\ o.price \in Prices
    BY <2>1, OrderFields DEF Freed
  <2>4. Covered(books[pair], c, dirty)
    BY <2>1, <2>2, <2>3 DEF Freed, Covered
  <2>5. levels' = ApplyBatch(levels, deltas)
    BY <2>1, <2>2 DEF ViewsFollow, Project, CancelEvents, NoEvents
  <2>6. deltas = {[pair |-> pair, level |-> d] : d \in TakeDirtyLevels(c, dirty)}
    OBVIOUS
  <2>. HIDE DEF deltas, dirty
  <2>7. LevelsTrue(ApplyBatch(levels, deltas), books')
    BY <1>1, <2>2, <2>4, <2>6, DeltasShow
  <2>. QED
    BY <2>5, <2>7
<1>4. CASE SilentStep
  <2>1. books' = books
    BY <1>4 DEF SilentStep
  <2>2. CASE batch' = << >>
    BY <1>1, <2>1, <2>2 DEF ViewsFollow, views
  <2>3. CASE batch' # << >>
    <3>1. levels' = ApplyBatch(levels, {})
      <4>1. batch'[1].events = NoEvents
        BY <1>4, <2>3 DEF SilentStep
      <4>2. NoEvents.deltas = {}
        BY DEF NoEvents
      <4>3. levels' = ApplyBatch(levels, batch'[1].events.deltas)
        BY <2>3 DEF ViewsFollow, Project
      <4>. QED
        BY <4>1, <4>2, <4>3
    <3>2. LevelsTrue(ApplyBatch(levels, {}), books)
      BY <1>1, NoDeltas
    <3>. QED
      BY <2>1, <3>1, <3>2
  <2>. QED
    BY <2>2, <2>3
<1>. QED
  BY <1>2, <1>3, <1>4, EveryStep

-----------------------------------------------------------------------------
(* The orders table: what an update of a row does.                         *)

Row == [account_id : Accounts, size : Nat, filled_qty : Int,
        status : {"Open", "PartiallyFilled", "Filled", "Cancelled"}]

\* The row of an order after update u.
UpdatedRow(row, u) == [row EXCEPT !.filled_qty = u.filled_qty, !.status = u.status]

(* It is a row, of the same size. *)
LEMMA UpdatedRowFacts ==
  ASSUME NEW row \in Row, NEW u \in OrderUpdate
  PROVE  /\ UpdatedRow(row, u) \in Row
         /\ UpdatedRow(row, u).size = row.size
         /\ UpdatedRow(row, u).filled_qty = u.filled_qty
         /\ UpdatedRow(row, u).status = u.status
  BY DEF Row, OrderUpdate, UpdatedRow

(* Only the last update of a row counts. *)
LEMMA UpdatedTwice ==
  ASSUME NEW row \in Row, NEW u \in OrderUpdate, NEW v \in OrderUpdate
  PROVE  UpdatedRow(UpdatedRow(row, u), v) = UpdatedRow(row, v)
  BY DEF Row, OrderUpdate, UpdatedRow

(* The last of some places of a list. *)
LEMMA LastPlace ==
  ASSUME NEW n \in Nat, NEW h, h \subseteq 1 .. n
  PROVE  /\ h # {} => Max(h) \in h
         /\ n \in h => Max(h) = n
<1>1. ASSUME h # {} PROVE Max(h) \in h /\ \A k \in h : Max(h) >= k
  <2>1. h \in SUBSET Nat /\ \A k \in h : k <= n
    OBVIOUS
  <2>2. PICK x \in h : \A k \in h : k <= x
    BY <1>1, <2>1, GreatestNat
  <2>3. \E m \in h : \A k \in h : m >= k
    BY <2>1, <2>2
  <2>. QED
    BY <2>3 DEF Max
<1>. DEFINE m == Max(h)
<1>2. h # {} => m \in h /\ \A k \in h : m >= k
  BY <1>1
<1>. HIDE DEF m
<1>3. ASSUME n \in h PROVE m = n
  <2>1. m \in 1 .. n /\ m >= n
    BY <1>2, <1>3
  <2>. QED
    BY <2>1
<1>. QED
  BY <1>2, <1>3 DEF m

\* The places of the updates of order id.
HitsOf(us, id) == {i \in DOMAIN us : us[i].order_id = id}

(* SetUpdated, row by row. *)
LEMMA UpdatedDef ==
  ASSUME NEW R, NEW us, NEW id \in DOMAIN R
  PROVE  /\ DOMAIN SetUpdated(R, us) = DOMAIN R
         /\ SetUpdated(R, us)[id] =
              IF HitsOf(us, id) = {} THEN R[id] ELSE UpdatedRow(R[id], us[Max(HitsOf(us, id))])
  BY DEF SetUpdated, HitsOf, UpdatedRow

(* Updates give rows again. *)
LEMMA UpdatedType ==
  ASSUME NEW D, NEW R \in [D -> Row], NEW us \in Seq(OrderUpdate)
  PROVE  SetUpdated(R, us) \in [D -> Row]
<1>1. ASSUME NEW id \in D PROVE SetUpdated(R, us)[id] \in Row
  <2>. DEFINE h == HitsOf(us, id)
  <2>1. Len(us) \in Nat /\ h \subseteq 1 .. Len(us)
    BY DEF HitsOf
  <2>. HIDE DEF h
  <2>2. h # {} => Max(h) \in 1 .. Len(us)
    BY <2>1, LastPlace
  <2>3. h # {} => us[Max(h)] \in OrderUpdate
    BY <2>2
  <2>4. SetUpdated(R, us)[id] = IF h = {} THEN R[id] ELSE UpdatedRow(R[id], us[Max(h)])
    BY UpdatedDef DEF h
  <2>5. R[id] \in Row
    OBVIOUS
  <2>6. CASE h = {}
    BY <2>4, <2>5, <2>6
  <2>7. CASE h # {}
    <3>1. UpdatedRow(R[id], us[Max(h)]) \in Row
      BY <2>3, <2>5, <2>7, UpdatedRowFacts
    <3>. QED
      BY <2>4, <2>7, <3>1
  <2>. QED
    BY <2>6, <2>7
<1>2. SetUpdated(R, us) = [id \in D |-> SetUpdated(R, us)[id]]
  BY DEF SetUpdated
<1>. QED
  BY <1>1, <1>2

(* No update changes nothing. *)
LEMMA UpdatedNone ==
  ASSUME NEW D, NEW R \in [D -> Row]
  PROVE  SetUpdated(R, << >>) = R
<1>1. \A id \in D : HitsOf(<< >>, id) = {}
  BY DEF HitsOf
<1>2. \A id \in D : SetUpdated(R, << >>)[id] = R[id]
  BY <1>1, UpdatedDef
<1>3. SetUpdated(R, << >>) = [id \in D |-> SetUpdated(R, << >>)[id]]
  BY DEF SetUpdated
<1>. QED
  BY <1>2, <1>3

(* One more update is applied to one row. *)
LEMMA UpdatedMore ==
  ASSUME NEW D, NEW R \in [D -> Row], NEW us \in Seq(OrderUpdate), NEW u \in OrderUpdate,
         NEW id \in D
  PROVE  SetUpdated(R, Append(us, u))[id] =
           IF id = u.order_id THEN UpdatedRow(SetUpdated(R, us)[id], u) ELSE SetUpdated(R, us)[id]
<1>. DEFINE n == Len(us)  ws == Append(us, u)  h == HitsOf(us, id)  k == HitsOf(ws, id)
<1>1. /\ n \in Nat /\ DOMAIN us = 1 .. n /\ DOMAIN ws = 1 .. n + 1 /\ ws[n + 1] = u
      /\ \A i \in 1 .. n : ws[i] = us[i] /\ us[i] \in OrderUpdate
  OBVIOUS
<1>2. /\ SetUpdated(R, us)[id] = IF h = {} THEN R[id] ELSE UpdatedRow(R[id], us[Max(h)])
      /\ SetUpdated(R, ws)[id] = IF k = {} THEN R[id] ELSE UpdatedRow(R[id], ws[Max(k)])
  BY UpdatedDef
<1>3. k = IF id = u.order_id THEN h \cup {n + 1} ELSE h
  <2>. HIDE DEF ws, n
  <2>. QED
    BY <1>1 DEF HitsOf
<1>4. h \subseteq 1 .. n
  BY <1>1 DEF HitsOf
<1>. HIDE DEF n, ws, h, k
<1>5. h # {} => Max(h) \in 1 .. n
  BY <1>1, <1>4, LastPlace
<1>6. R[id] \in Row
  OBVIOUS
<1>7. CASE id # u.order_id
  BY <1>1, <1>2, <1>3, <1>5, <1>7 DEF ws
<1>8. CASE id = u.order_id
  <2>1. n + 1 \in Nat /\ k \subseteq 1 .. n + 1 /\ n + 1 \in k
    BY <1>1, <1>3, <1>4, <1>8
  <2>2. Max(k) = n + 1
    BY <2>1, LastPlace
  <2>3. SetUpdated(R, ws)[id] = UpdatedRow(R[id], u)
    BY <1>1, <1>2, <2>1, <2>2
  <2>4. UpdatedRow(SetUpdated(R, us)[id], u) = UpdatedRow(R[id], u)
    <3>1. CASE h = {}
      BY <1>2, <3>1
    <3>2. CASE h # {}
      <4>1. us[Max(h)] \in OrderUpdate
        BY <1>1, <1>5, <3>2
      <4>2. SetUpdated(R, us)[id] = UpdatedRow(R[id], us[Max(h)])
        BY <1>2, <3>2
      <4>. QED
        BY <1>6, <4>1, <4>2, UpdatedTwice
    <3>. QED
      BY <3>1, <3>2
  <2>. QED
    BY <1>8, <2>3, <2>4 DEF ws
<1>. QED
  BY <1>7, <1>8

-----------------------------------------------------------------------------
(* The orders table along the matching loop.                               *)

\* The row of order o while it rests.
Shows(row, o) ==
  /\ row.size = o.size /\ row.filled_qty = o.size - o.remaining_size
  /\ row.status = IF row.filled_qty = 0 THEN "Open" ELSE "PartiallyFilled"

\* The row of an order that does not rest any more.
Done(row) ==
  \/ row.status = "Filled" /\ row.filled_qty = row.size
  \/ row.status = "Cancelled" /\ row.filled_qty < row.size

\* From rows R to rows V the orders S became T: no row but theirs changed, what
\* is left of them shows and what is gone is done.
Told(R, V, S, T) ==
  /\ \A id \in DOMAIN R : (\A o \in S : o.id # id) => V[id] = R[id]
  /\ \A o \in T : Shows(V[o.id], o) /\ \E x \in S : x.id = o.id
  /\ \A x \in S : (\A o \in T : o.id # x.id) => Done(V[x.id])

\* The update a fill emits for its maker o, of which left remains.
MakerUpdate(o, left, u) ==
  /\ u \in OrderUpdate
  /\ u.order_id = o.id /\ u.filled_qty = o.size - left
  /\ u.status = IF left = 0 THEN "Filled" ELSE "PartiallyFilled"

(* That update, in its maker's row, tells of the fill. *)
LEMMA FillTold ==
  ASSUME NEW D, NEW R \in [D -> Row], NEW V \in [D -> Row], NEW W \in [D -> Row],
         NEW S \in SUBSET Order, \A x \in S : x.id \in D,
         NEW T \in SUBSET Order, OwnIds(T), Told(R, V, S, T),
         NEW o \in T, NEW left \in Nat, left < o.remaining_size, o.remaining_size <= o.size,
         NEW u, MakerUpdate(o, left, u),
         \A id \in D : W[id] = IF id = u.order_id THEN UpdatedRow(V[id], u) ELSE V[id],
         NEW U, U = (T \ {o}) \cup (IF left = 0 THEN {} ELSE {WithRemaining(o, left)})
  PROVE  Told(R, W, S, U)
<1>1. /\ o \in Order /\ o.size \in Nat /\ o.remaining_size \in Nat
      /\ u \in OrderUpdate /\ u.order_id = o.id
  BY OrderFields DEF MakerUpdate
<1>2. PICK z \in S : z.id = o.id
  BY DEF Told
<1>3. o.id \in D /\ V[o.id] \in Row
  BY <1>2
<1>4. Shows(V[o.id], o)
  BY DEF Told
<1>5. /\ W[o.id].size = o.size /\ W[o.id].filled_qty = o.size - left
      /\ W[o.id].status = IF left = 0 THEN "Filled" ELSE "PartiallyFilled"
  <2>1. W[o.id] = UpdatedRow(V[o.id], u)
    BY <1>1, <1>3
  <2>2. /\ W[o.id].size = V[o.id].size /\ W[o.id].filled_qty = u.filled_qty
        /\ W[o.id].status = u.status
    BY <1>1, <1>3, <2>1, UpdatedRowFacts
  <2>. QED
    BY <1>4, <2>2 DEF Shows, MakerUpdate
<1>6. \A id \in D : id # o.id => W[id] = V[id]
  BY <1>1
<1>7. ASSUME NEW id \in DOMAIN R, \A x \in S : x.id # id PROVE W[id] = R[id]
  <2>1. id # o.id /\ id \in D /\ V[id] = R[id]
    BY <1>2, <1>7 DEF Told
  <2>. QED
    BY <1>6, <2>1
<1>8. ASSUME NEW y \in U PROVE Shows(W[y.id], y) /\ \E x \in S : x.id = y.id
  <2>1. CASE y \in T /\ y # o
    <3>1. y.id # o.id
      BY <2>1 DEF OwnIds
    <3>2. Shows(V[y.id], y) /\ \E x \in S : x.id = y.id
      BY <2>1 DEF Told
    <3>. QED
      BY <1>6, <3>1, <3>2
  <2>2. CASE left # 0 /\ y = WithRemaining(o, left)
    <3>1. y.id = o.id /\ y.size = o.size /\ y.remaining_size = left
      BY <1>1, <2>2, WithRemainingFacts
    <3>2. o.size - left # 0
      BY <1>1
    <3>3. Shows(W[y.id], y)
      BY <1>5, <2>2, <3>1, <3>2 DEF Shows
    <3>. QED
      BY <1>2, <3>1, <3>3
  <2>. QED
    BY <2>1, <2>2
<1>9. ASSUME NEW x \in S, \A y \in U : y.id # x.id PROVE Done(W[x.id])
  <2>1. CASE x.id = o.id
    <3>1. left = 0
      <4>. SUFFICES ASSUME left # 0 PROVE FALSE
        OBVIOUS
      <4>1. WithRemaining(o, left) \in U
        OBVIOUS
      <4>2. WithRemaining(o, left).id = o.id
        BY <1>1, WithRemainingFacts
      <4>. QED
        BY <1>9, <2>1, <4>1, <4>2
    <3>2. W[o.id].size = o.size /\ W[o.id].filled_qty = o.size /\ W[o.id].status = "Filled"
      BY <1>1, <1>5, <3>1
    <3>. QED
      BY <2>1, <3>2 DEF Done
  <2>2. CASE x.id # o.id
    <3>1. \A y \in T : y.id # x.id
      BY <1>9, <2>2
    <3>2. Done(V[x.id])
      BY <3>1 DEF Told
    <3>3. x.id \in D
      OBVIOUS
    <3>. QED
      BY <1>6, <2>2, <3>2, <3>3
  <2>. QED
    BY <2>1, <2>2
<1>. QED
  BY <1>7, <1>8, <1>9 DEF Told

(* A fill emits it. *)
LEMMA FillUpdates ==
  ASSUME NEW order_id \in OrderId, NEW account_id \in Accounts,
         NEW req \in OrderRequest, NEW s \in MatchState, CanFill(req, s),
         NEW f, f = Fill(order_id, account_id, req, s)
  PROVE  \E u : /\ MakerUpdate(FillLevel(req, s)[1], FillLeft(req, s), u)
                /\ f.updates = Append(s.updates, u)
<1>. DEFINE maker == Head(FillLevel(req, s))
            left == FillLeft(req, s)
            u == [order_id |-> maker.id, account_id |-> maker.account_id,
                  filled_qty |-> maker.size - left, remaining_size |-> left,
                  status |-> IF left = 0 THEN "Filled" ELSE "PartiallyFilled"]
<1>1. f.updates = Append(s.updates, u)
  BY DEF Fill, FillFront, FillSide, FillPrice, FillLevel, FillQty, FillLeft
<1>2. maker \in Order /\ maker = FillLevel(req, s)[1] /\ left \in Nat
  BY FillFacts
<1>. HIDE DEF maker, left
<1>3. maker.size - left \in Int
  BY <1>2, OrderFields
<1>4. u \in OrderUpdate
  BY <1>2, <1>3 DEF OrderUpdate, Order
<1>5. /\ u.order_id = maker.id /\ u.filled_qty = maker.size - left
      /\ u.status = IF left = 0 THEN "Filled" ELSE "PartiallyFilled"
  OBVIOUS
<1>. HIDE DEF u
<1>6. MakerUpdate(maker, left, u)
  BY <1>4, <1>5 DEF MakerUpdate
<1>. QED
  BY <1>1, <1>2, <1>6 DEF left

\* What the updates up to loop state s tell.
ToldBy(R, req, S, s) ==
  Told(R, SetUpdated(R, s.updates), S, RestingOn(s.book, Opposite(req.side)))

(* A fill keeps the table in step with the book ...                        *)
LEMMA FillTells ==
  ASSUME NEW order_id \in OrderId, NEW account_id \in Accounts,
         NEW req \in OrderRequest, NEW s \in MatchState, CanFill(req, s),
         NEW n \in Nat, Indexed(s.book), InOrder(s.book, n),
         NEW D, NEW R \in [D -> Row], NEW S \in SUBSET Order, \A x \in S : x.id \in D,
         ToldBy(R, req, S, s),
         NEW f, f = Fill(order_id, account_id, req, s)
  PROVE  f \in MatchState /\ Indexed(f.book) /\ InOrder(f.book, n) /\ ToldBy(R, req, S, f)
<1>. DEFINE side == Opposite(req.side)
            q == FillLevel(req, s)  r == FillAfter(req, s)  left == FillLeft(req, s)
            fprice == FillPrice(req, s)  qty == FillQty(req, s)
            T == RestingOn(s.book, side)
            U == RestingOn(f.book, side)
            V == SetUpdated(R, s.updates)
            W == SetUpdated(R, f.updates)
<1>1. FillResult(req, s, f)
  BY FillEffect
<1>2. f \in MatchState /\ Indexed(f.book) /\ InOrder(f.book, n)
  BY FillKeeps
<1>3. /\ s.book \in Book /\ s.updates \in Seq(OrderUpdate)
      /\ f.book \in Book /\ f.updates \in Seq(OrderUpdate)
  BY <1>2 DEF MatchState
<1>4. FilledBook(s.book, f.book, side, fprice, q, r, left)
  BY <1>1 DEF FilledBook, FillLevel, FillResult, FillSide
<1>5. /\ fprice \in Prices
      /\ q \in Seq(Order) /\ Len(q) > 0 /\ Len(q) \in Nat /\ Head(q) = q[1] /\ q[1] \in Order
      /\ qty \in Nat /\ left \in Nat
      /\ Head(q).remaining_size > 0 => qty > 0
  BY FillFacts
<1>6. r \in Seq(Order) /\ Filled(q, r, left)
  BY FillAfterFacts DEF Filled
<1>7. left = q[1].remaining_size - qty
  BY <1>5 DEF FillLeft
<1>8. side \in Side
  BY RequestFields
<1>9. q = s.book.queue[side][fprice]
  BY <1>4 DEF FilledBook
<1>10. PICK u : MakerUpdate(q[1], left, u) /\ f.updates = Append(s.updates, u)
  BY FillUpdates
<1>11. Told(R, V, S, T)
  BY DEF ToldBy
<1>. HIDE DEF side, q, r, left, fprice, qty, T, U, V, W
<1>12. Live(q[1], n)
  <2>1. 1 \in 1 .. Len(q)
    BY <1>5
  <2>. QED
    BY <1>5, <1>8, <1>9, <2>1 DEF InOrder
<1>13. /\ q[1].remaining_size \in Nat /\ q[1].size \in Nat
       /\ left < q[1].remaining_size /\ q[1].remaining_size <= q[1].size
  <2>1. q[1].remaining_size \in Nat /\ q[1].size \in Nat
    BY <1>5, OrderFields
  <2>. QED
    BY <1>5, <1>7, <1>12, <2>1 DEF Live
<1>14. /\ q[1] \in T
       /\ U = (T \ {q[1]}) \cup (IF left = 0 THEN {} ELSE {WithRemaining(q[1], left)})
  BY <1>2, <1>3, <1>4, <1>5, <1>6, <1>8, FilledResting DEF T, U
<1>15. T \in SUBSET Order /\ OwnIds(T)
  BY <1>3, <1>8, RestingMember, RestingOwnIds DEF T
<1>16. V \in [D -> Row] /\ W \in [D -> Row]
  BY <1>3, UpdatedType DEF V, W
<1>17. u \in OrderUpdate
  BY <1>10 DEF MakerUpdate
<1>18. \A id \in D : W[id] = IF id = u.order_id THEN UpdatedRow(V[id], u) ELSE V[id]
  BY <1>3, <1>10, <1>17, UpdatedMore DEF V, W
<1>. DEFINE o == q[1]
<1>19. /\ o \in T /\ left \in Nat /\ left < o.remaining_size /\ o.remaining_size <= o.size
       /\ MakerUpdate(o, left, u)
       /\ U = (T \ {o}) \cup (IF left = 0 THEN {} ELSE {WithRemaining(o, left)})
  BY <1>5, <1>10, <1>13, <1>14
<1>. HIDE DEF o
<1>20. Told(R, W, S, U)
  BY <1>11, <1>15, <1>16, <1>18, <1>19, FillTold
<1>. QED
  BY <1>2, <1>20 DEF ToldBy, U, W, side

(* ... so that matching does, from its first state to its last.            *)
LEMMA MatchTells ==
  ASSUME NEW order_id \in OrderId, NEW account_id \in Accounts,
         NEW req \in OrderRequest, NEW book \in Book, NEW n \in Nat,
         Indexed(book), InOrder(book, n),
         NEW S, S = RestingOn(book, Opposite(req.side)),
         NEW D, NEW R \in [D -> Row],
         \A o \in S : o.id \in D /\ Shows(R[o.id], o),
         NEW m, m = Match(book, order_id, account_id, req)
  PROVE  ToldBy(R, req, S, m)
<1>. DEFINE G == {s \in MatchState : Indexed(s.book) /\ InOrder(s.book, n) /\ ToldBy(R, req, S, s)}
            start == [book |-> book, remaining |-> req.size, trades |-> << >>,
                      updates |-> << >>, dirty |-> {}]
<1>1. S \in SUBSET Order
  BY RestingMember, RequestFields
<1>2. start \in G
  <2>1. start \in MatchState
    BY RequestFields DEF MatchState
  <2>2. start.book = book /\ start.updates = << >>
    OBVIOUS
  <2>. HIDE DEF start
  <2>3. SetUpdated(R, << >>) = R
    BY UpdatedNone
  <2>4. Told(R, R, S, S)
    BY DEF Told
  <2>. QED
    BY <2>1, <2>2, <2>3, <2>4 DEF ToldBy
<1>3. ASSUME NEW s \in G, CanFill(req, s)
      PROVE  Fill(order_id, account_id, req, s) \in G
  <2>. DEFINE f == Fill(order_id, account_id, req, s)
  <2>1. s \in MatchState /\ Indexed(s.book) /\ InOrder(s.book, n) /\ ToldBy(R, req, S, s)
    OBVIOUS
  <2>2. f = Fill(order_id, account_id, req, s)
    OBVIOUS
  <2>. HIDE DEF f, G
  <2>3. f \in MatchState /\ Indexed(f.book) /\ InOrder(f.book, n) /\ ToldBy(R, req, S, f)
    BY <1>1, <1>3, <2>1, <2>2, FillTells
  <2>4. f \in G
    BY <2>3 DEF G
  <2>. QED
    BY <2>2, <2>4
<1>4. G \in SUBSET MatchState
  OBVIOUS
<1>. HIDE DEF G
<1>5. Match(book, order_id, account_id, req) \in G
  BY <1>2, <1>3, <1>4, MatchInduction
<1>. QED
  BY <1>5 DEF G

-----------------------------------------------------------------------------
(* The orders table from command to command.                               *)

\* Among the first n rows V those of orders resting in the books B show what is
\* left of them, and the others are done.
RowsBelow(V, B, n) ==
  /\ \A p \in Markets, side \in Side : \A o \in RestingOn(B[p], side) :
       o.id \in 0 .. n-1 /\ Shows(V[o.id], o)
  /\ \A id \in 0 .. n-1 :
       (\A p \in Markets, side \in Side : \A o \in RestingOn(B[p], side) : o.id # id) =>
         Done(V[id])

RowsTrue(V, B, n) == V \in [0 .. n-1 -> Row] /\ RowsBelow(V, B, n)

(* That is what OrderRowsExact says, and more. *)
LEMMA RowsTrueExact ==
  ASSUME RowsTrue(order_rows, books, next_order_id)
  PROVE  OrderRowsExact
<1>1. \A o : o \in Resting <=> \E p \in Markets, side \in Side : o \in RestingOn(books[p], side)
  <2>. SUFFICES ASSUME NEW o
                PROVE  o \in Resting <=> \E p \in Markets, side \in Side : o \in RestingOn(books[p], side)
    OBVIOUS
  <2>1. o \in Resting <=> \E k \in Markets \X Side \X Prices : o \in Range(books[k[1]].queue[k[2]][k[3]])
    BY DEF Resting
  <2>2. \A p, side : o \in RestingOn(books[p], side)
          <=> \E price \in Prices : o \in Range(books[p].queue[side][price])
    BY DEF RestingOn
  <2>3. ASSUME o \in Resting PROVE \E p \in Markets, side \in Side : o \in RestingOn(books[p], side)
    <3>1. PICK k \in Markets \X Side \X Prices : o \in Range(books[k[1]].queue[k[2]][k[3]])
      BY <2>1, <2>3
    <3>2. k[1] \in Markets /\ k[2] \in Side /\ k[3] \in Prices
      OBVIOUS
    <3>. QED
      BY <2>2, <3>1, <3>2
  <2>4. ASSUME NEW p \in Markets, NEW side \in Side, o \in RestingOn(books[p], side)
        PROVE  o \in Resting
    <3>1. PICK price \in Prices : o \in Range(books[p].queue[side][price])
      BY <2>2, <2>4
    <3>. DEFINE k == <<p, side, price>>
    <3>2. k \in Markets \X Side \X Prices /\ k[1] = p /\ k[2] = side /\ k[3] = price
      OBVIOUS
    <3>. HIDE DEF k
    <3>. QED
      BY <2>1, <3>1, <3>2
  <2>. QED
    BY <2>3, <2>4
<1>2. /\ DOMAIN order_rows = 0 .. next_order_id - 1
      /\ RowsBelow(order_rows, books, next_order_id)
  BY DEF RowsTrue
<1>3. ASSUME NEW id \in DOMAIN order_rows
      PROVE  LET row == order_rows[id]
             IN  IF \E o \in Resting : o.id = id
                 THEN \E o \in Resting :
                        /\ o.id = id /\ row.filled_qty = o.size - o.remaining_size
                        /\ row.status = IF row.filled_qty = 0 THEN "Open" ELSE "PartiallyFilled"
                 ELSE \/ row.status = "Filled" /\ row.filled_qty = row.size
                      \/ row.status = "Cancelled" /\ row.filled_qty < row.size
  <2>1. CASE \E o \in Resting : o.id = id
    <3>1. PICK o \in Resting : o.id = id
      BY <2>1
    <3>2. Shows(order_rows[id], o)
      BY <1>1, <1>2, <3>1 DEF RowsBelow
    <3>. QED
      BY <2>1, <3>1, <3>2 DEF Shows
  <2>2. CASE ~\E o \in Resting : o.id = id
    <3>1. Done(order_rows[id])
      BY <1>1, <1>2, <2>2 DEF RowsBelow
    <3>. QED
      BY <2>2, <3>1 DEF Done
  <2>. QED
    BY <2>1, <2>2
<1>. QED
  BY <1>2, <1>3 DEF OrderRowsExact

(* Rows for new orders and for cancelled ones. *)
LEMMA InsertedNone ==
  ASSUME NEW D, NEW R \in [D -> Row]
  PROVE  InsertAccepted(R, << >>) = R
<1>1. {e \in Range(<< >>) : e.order_id \notin DOMAIN R} = {}
  BY DEF Range
<1>. QED
  BY <1>1 DEF InsertAccepted

(* A new order gets a row of its own, open and unfilled. *)
LEMMA InsertedOne ==
  ASSUME NEW n \in Nat, NEW R \in [0 .. n-1 -> Row], NEW a \in Accounts, NEW req \in OrderRequest,
         NEW V, V = InsertAccepted(R, << [order_id |-> n, account_id |-> a, req |-> req] >>)
  PROVE  /\ V \in [0 .. n -> Row]
         /\ \A id \in 0 .. n-1 : V[id] = R[id]
         /\ V[n].size = req.size /\ V[n].filled_qty = 0 /\ V[n].status = "Open"
<1>. DEFINE e == [order_id |-> n, account_id |-> a, req |-> req]
            row == [account_id |-> a, size |-> req.size, filled_qty |-> 0, status |-> "Open"]
            new == {x \in Range(<<e>>) : x.order_id \notin DOMAIN R}
<1>1. DOMAIN R = 0 .. n-1 /\ n \notin 0 .. n-1 /\ (0 .. n-1) \cup {n} = 0 .. n
  OBVIOUS
<1>2. Range(<<e>>) = {e}
  BY DEF Range
<1>3. e.order_id = n /\ e.account_id = a /\ e.req = req
  OBVIOUS
<1>. HIDE DEF e
<1>4. new = {e}
  BY <1>1, <1>2, <1>3
<1>5. V = [id \in DOMAIN R \cup {x.order_id : x \in new} |->
             IF id \in DOMAIN R THEN R[id]
             ELSE LET x == CHOOSE y \in new : y.order_id = id
                  IN  [account_id |-> x.account_id, size |-> x.req.size,
                       filled_qty |-> 0, status |-> "Open"]]
  BY DEF InsertAccepted, e
<1>. HIDE DEF new
<1>6. DOMAIN R \cup {x.order_id : x \in new} = 0 .. n
  <2>1. {x.order_id : x \in new} = {n}
    BY <1>3, <1>4
  <2>. QED
    BY <1>1, <2>1
<1>7. (CHOOSE y \in new : y.order_id = n) = e
  BY <1>3, <1>4
<1>8. V[n] = row
  <2>1. n \in 0 .. n
    OBVIOUS
  <2>. QED
    BY <1>1, <1>3, <1>5, <1>6, <1>7, <2>1
<1>9. ASSUME NEW id \in 0 .. n-1 PROVE V[id] = R[id]
  <2>1. id \in 0 .. n
    BY <1>1
  <2>. QED
    BY <1>1, <1>5, <1>6, <2>1
<1>10. row \in Row
  BY RequestFields DEF Row
<1>11. V \in [0 .. n -> Row]
  <2>1. V = [id \in 0 .. n |-> V[id]]
    BY <1>5, <1>6
  <2>2. ASSUME NEW id \in 0 .. n PROVE V[id] \in Row
    <3>1. CASE id = n
      BY <1>8, <1>10, <3>1
    <3>2. CASE id \in 0 .. n-1
      BY <1>9, <3>2
    <3>. QED
      BY <1>1, <3>1, <3>2
  <2>. QED
    BY <2>1, <2>2
<1>. QED
  BY <1>8, <1>9, <1>11

(* Only the row of a cancelled order is marked as such. *)
LEMMA CancelledRows ==
  ASSUME NEW D, NEW R \in [D -> Row]
  PROVE  /\ SetCancelled(R, << >>) = R
         /\ \A k : /\ SetCancelled(R, <<k>>) \in [D -> Row]
                   /\ \A id \in D : id # k => SetCancelled(R, <<k>>)[id] = R[id]
                   /\ \A id \in D : SetCancelled(R, <<k>>)[id].size = R[id].size
<1>1. Range(<< >>) = {} /\ \A k : Range(<<k>>) = {k}
  BY DEF Range
<1>2. SetCancelled(R, << >>) = R
  BY <1>1 DEF SetCancelled
<1>3. ASSUME NEW row \in Row
      PROVE  [row EXCEPT !.status = "Cancelled"] \in Row /\ [row EXCEPT !.status = "Cancelled"].size = row.size
  BY DEF Row
<1>4. ASSUME NEW k
      PROVE  /\ SetCancelled(R, <<k>>) \in [D -> Row]
             /\ \A id \in D : id # k => SetCancelled(R, <<k>>)[id] = R[id]
             /\ \A id \in D : SetCancelled(R, <<k>>)[id].size = R[id].size
  <2>. DEFINE W == SetCancelled(R, <<k>>)
  <2>1. W = [id \in D |-> IF id = k THEN [R[id] EXCEPT !.status = "Cancelled"] ELSE R[id]]
    BY <1>1 DEF SetCancelled
  <2>. HIDE DEF W
  <2>2. \A id \in D : W[id] = IF id = k THEN [R[id] EXCEPT !.status = "Cancelled"] ELSE R[id]
    BY <2>1
  <2>3. \A id \in D : R[id] \in Row
    OBVIOUS
  <2>4. \A id \in D : W[id] \in Row /\ W[id].size = R[id].size
    BY <1>3, <2>2, <2>3
  <2>5. W \in [D -> Row]
    BY <2>1, <2>4
  <2>. QED
    BY <2>2, <2>4, <2>5 DEF W
<1>. QED
  BY <1>2, <1>4

\* Rows R of D, which are Q below n and so true of the books B, became V as the
\* orders S of one side of one market became T, which leaves the books C.
Retold(n, B, C, Q, pair, s, S, T, D, R, V) ==
  /\ n \in Nat /\ OneEach(B) /\ RowsBelow(Q, B, n)
  /\ Changed(B, C, pair, s, S, T)
  /\ 0 .. n-1 \subseteq D /\ D = DOMAIN R /\ \A id \in 0 .. n-1 : R[id] = Q[id]
  /\ Told(R, V, S, T)

(* Such rows are true of these books; those of new orders are not touched. *)
LEMMA RowsAfter ==
  ASSUME NEW n, NEW B, NEW C, NEW Q, NEW pair, NEW s, NEW S, NEW T, NEW D, NEW R, NEW V,
         Retold(n, B, C, Q, pair, s, S, T, D, R, V)
  PROVE  /\ RowsBelow(V, C, n)
         /\ \A id \in D : id \notin 0 .. n-1 => V[id] = R[id]
<1>. USE DEF Retold
<1>1. pair \in Markets /\ s \in Side /\ RestingOn(B[pair], s) = S /\ RestingOn(C[pair], s) = T
  BY DEF Changed
<1>2. \A x \in S : x.id \in 0 .. n-1 /\ x.side = s
  BY <1>1 DEF RowsBelow, OneEach
<1>3. ASSUME NEW p \in Markets, NEW side \in Side, p # pair \/ side # s,
             NEW o \in RestingOn(B[p], side), NEW x \in S
      PROVE  o.id # x.id
  <2>1. o.side = side
    BY <1>3 DEF OneEach
  <2>2. o.id = x.id => p = pair /\ o = x
    BY <1>1, <1>3 DEF OneEach
  <2>. QED
    BY <1>2, <1>3, <2>1, <2>2
<1>4. ASSUME NEW p \in Markets, NEW side \in Side, NEW o \in RestingOn(C[p], side)
      PROVE  o.id \in 0 .. n-1 /\ Shows(V[o.id], o)
  <2>1. CASE p = pair /\ side = s
    <3>1. o \in T
      BY <1>1, <1>4, <2>1
    <3>2. Shows(V[o.id], o) /\ \E x \in S : x.id = o.id
      BY <3>1 DEF Told
    <3>. QED
      BY <1>2, <3>2
  <2>2. CASE p # pair \/ side # s
    <3>1. o \in RestingOn(B[p], side)
      BY <1>4, <2>2 DEF Changed
    <3>2. o.id \in 0 .. n-1 /\ Shows(Q[o.id], o)
      BY <3>1 DEF RowsBelow
    <3>3. \A x \in S : x.id # o.id
      BY <1>3, <2>2, <3>1
    <3>4. V[o.id] = R[o.id]
      BY <3>2, <3>3 DEF Told
    <3>. QED
      BY <3>2, <3>4
  <2>. QED
    BY <2>1, <2>2
<1>5. ASSUME NEW id \in 0 .. n-1,
             \A p \in Markets, side \in Side : \A o \in RestingOn(C[p], side) : o.id # id
      PROVE  Done(V[id])
  <2>1. \A o \in T : o.id # id
    BY <1>1, <1>5
  <2>2. CASE \E x \in S : x.id = id
    BY <2>1, <2>2 DEF Told
  <2>3. CASE \A x \in S : x.id # id
    <3>1. V[id] = R[id]
      BY <2>3 DEF Told
    <3>2. ASSUME NEW p \in Markets, NEW side \in Side, NEW o \in RestingOn(B[p], side)
          PROVE  o.id # id
      <4>1. CASE p = pair /\ side = s
        BY <1>1, <2>3, <3>2, <4>1
      <4>2. CASE p # pair \/ side # s
        <5>1. o \in RestingOn(C[p], side)
          BY <3>2, <4>2 DEF Changed
        <5>. QED
          BY <1>5, <5>1
      <4>. QED
        BY <4>1, <4>2
    <3>3. Done(Q[id])
      BY <3>2 DEF RowsBelow
    <3>. QED
      BY <3>1, <3>3
  <2>. QED
    BY <2>2, <2>3
<1>6. ASSUME NEW id \in D, id \notin 0 .. n-1
      PROVE  V[id] = R[id]
  BY <1>2, <1>6 DEF Told
<1>. QED
  BY <1>4, <1>5, <1>6 DEF RowsBelow

(* One order more, that the row of the next id shows, or a next id whose   *)
(* order is done already.                                                  *)
LEMMA RowsMore ==
  ASSUME NEW n \in Nat, NEW B, NEW C, NEW V, NEW W, RowsBelow(V, B, n),
         \A id \in 0 .. n-1 : W[id] = V[id],
         \/ C = B /\ Done(W[n])
         \/ \E pair, s, Z, x : Changed(B, C, pair, s, Z, Z \cup {x}) /\ x.id = n /\ Shows(W[n], x)
  PROVE  RowsBelow(W, C, n + 1)
<1>1. (n + 1) - 1 = n /\ \A id \in 0 .. n : id = n \/ id \in 0 .. n-1
  OBVIOUS
<1>2. 0 .. n-1 \subseteq 0 .. n /\ n \in 0 .. n
  OBVIOUS
<1>3. CASE C = B /\ Done(W[n])
  <2>1. \A p \in Markets, side \in Side : \A o \in RestingOn(C[p], side) :
          o.id \in 0 .. n-1 /\ Shows(V[o.id], o)
    BY <1>3 DEF RowsBelow
  <2>2. \A p \in Markets, side \in Side : \A o \in RestingOn(C[p], side) :
          o.id \in 0 .. n /\ Shows(W[o.id], o)
    BY <1>2, <2>1
  <2>3. ASSUME NEW id \in 0 .. n,
               \A p \in Markets, side \in Side : \A o \in RestingOn(C[p], side) : o.id # id
        PROVE  Done(W[id])
    <3>1. CASE id = n
      BY <1>3, <3>1
    <3>2. CASE id \in 0 .. n-1
      <4>1. Done(V[id])
        BY <1>3, <2>3, <3>2 DEF RowsBelow
      <4>. QED
        BY <3>2, <4>1
    <3>. QED
      BY <1>1, <3>1, <3>2
  <2>. QED
    BY <1>1, <2>2, <2>3 DEF RowsBelow
<1>4. CASE \E pair, s, Z, x : Changed(B, C, pair, s, Z, Z \cup {x}) /\ x.id = n /\ Shows(W[n], x)
  <2>1. PICK pair, s, Z, x : Changed(B, C, pair, s, Z, Z \cup {x}) /\ x.id = n /\ Shows(W[n], x)
    BY <1>4
  <2>2. /\ pair \in Markets /\ s \in Side
        /\ RestingOn(B[pair], s) = Z /\ RestingOn(C[pair], s) = Z \cup {x}
        /\ \A p \in Markets, side \in Side :
             p # pair \/ side # s => RestingOn(C[p], side) = RestingOn(B[p], side)
    BY <2>1 DEF Changed
  <2>3. \A p \in Markets, side \in Side :
          RestingOn(B[p], side) \subseteq RestingOn(C[p], side)
          /\ RestingOn(C[p], side) \subseteq RestingOn(B[p], side) \cup {x}
    BY <2>2
  <2>4. ASSUME NEW p \in Markets, NEW side \in Side, NEW o \in RestingOn(C[p], side)
        PROVE  o.id \in 0 .. n /\ Shows(W[o.id], o)
    <3>1. CASE o = x
      BY <1>2, <2>1, <3>1
    <3>2. CASE o \in RestingOn(B[p], side)
      <4>1. o.id \in 0 .. n-1 /\ Shows(V[o.id], o)
        BY <3>2 DEF RowsBelow
      <4>. QED
        BY <1>2, <4>1
    <3>. QED
      BY <2>3, <2>4, <3>1, <3>2
  <2>5. ASSUME NEW id \in 0 .. n,
               \A p \in Markets, side \in Side : \A o \in RestingOn(C[p], side) : o.id # id
        PROVE  Done(W[id])
    <3>1. id # n
      BY <2>1, <2>2, <2>5
    <3>2. id \in 0 .. n-1
      BY <1>1, <3>1
    <3>3. Done(V[id])
      BY <2>3, <2>5, <3>2 DEF RowsBelow
    <3>. QED
      BY <3>2, <3>3
  <2>. QED
    BY <1>1, <2>4, <2>5 DEF RowsBelow
<1>. QED
  BY <1>3, <1>4

(* The taker's own update, last of its batch, makes its row what is left   *)
(* of the order or says that it is done.                                   *)
LEMMA TakerRow ==
  ASSUME NEW n \in OrderId, NEW a \in Accounts, NEW req \in OrderRequest,
         NEW left \in Nat, left <= req.size, NEW us \in Seq(OrderUpdate),
         NEW D, NEW R \in [D -> Row], n \in D,
         NEW V, V = SetUpdated(R, us),
         V[n].size = req.size, V[n].filled_qty = 0, V[n].status = "Open",
         NEW W, W = SetUpdated(R, us \o TakerUpdate(n, a, req, left))
  PROVE  /\ W \in [D -> Row] /\ \A id \in D : id # n => W[id] = V[id]
         /\ IF req.order_type = "Limit" /\ left > 0
            THEN /\ W[n].size = req.size /\ W[n].filled_qty = req.size - left
                 /\ W[n].status = IF W[n].filled_qty = 0 THEN "Open" ELSE "PartiallyFilled"
            ELSE Done(W[n])
<1>. DEFINE status == IF left = 0 THEN "Filled"
                      ELSE IF req.order_type = "Market" THEN "Cancelled" ELSE "PartiallyFilled"
            u == [order_id |-> n, account_id |-> a, filled_qty |-> req.size - left,
                  remaining_size |-> left, status |-> status]
            silent == req.order_type = "Limit" /\ left > 0 /\ req.size - left = 0
            t == TakerUpdate(n, a, req, left)
<1>1. req.size \in Nat /\ req.order_type \in {"Limit", "Market"}
  BY RequestFields DEF OrderType
<1>2. u \in OrderUpdate
  BY <1>1 DEF OrderUpdate
<1>3. t = IF silent THEN << >> ELSE <<u>>
  BY <1>1 DEF TakerUpdate
<1>4. /\ u.order_id = n /\ u.filled_qty = req.size - left /\ u.status = status
  OBVIOUS
<1>. HIDE DEF u, t
<1>5. V \in [D -> Row]
  BY UpdatedType
<1>6. CASE silent
  <2>1. us \o << >> = us
    OBVIOUS
  <2>2. W = V
    BY <1>3, <1>6, <2>1 DEF t
  <2>3. W[n].size = req.size /\ W[n].filled_qty = req.size - left /\ W[n].status = "Open"
    BY <1>6, <2>2
  <2>4. W[n].filled_qty = 0
    BY <2>2
  <2>5. W \in [D -> Row] /\ \A id \in D : id # n => W[id] = V[id]
    BY <1>5, <2>2
  <2>. QED
    BY <1>6, <2>3, <2>4, <2>5
<1>7. CASE ~silent
  <2>1. us \o <<u>> = Append(us, u)
    BY <1>2
  <2>2. W = SetUpdated(R, Append(us, u))
    BY <1>3, <1>7, <2>1 DEF t
  <2>3. Append(us, u) \in Seq(OrderUpdate)
    BY <1>2
  <2>4. W \in [D -> Row]
    <3>. DEFINE more == Append(us, u)
    <3>1. more \in Seq(OrderUpdate) /\ W = SetUpdated(R, more)
      BY <2>2, <2>3
    <3>. HIDE DEF more
    <3>2. SetUpdated(R, more) \in [D -> Row]
      BY <3>1, UpdatedType
    <3>. QED
      BY <3>1, <3>2
  <2>5. ASSUME NEW id \in D
        PROVE  W[id] = IF id = u.order_id THEN UpdatedRow(V[id], u) ELSE V[id]
    BY <1>2, <2>2, UpdatedMore
  <2>6. \A id \in D : id # n => W[id] = V[id]
    BY <1>4, <2>5
  <2>7. W[n] = UpdatedRow(V[n], u)
    BY <1>4, <2>5
  <2>8. V[n] \in Row
    BY <1>5
  <2>9. W[n].size = req.size /\ W[n].filled_qty = req.size - left /\ W[n].status = status
    BY <1>2, <1>4, <2>7, <2>8, UpdatedRowFacts
  <2>10. CASE req.order_type = "Limit" /\ left > 0
    <3>1. req.size - left # 0 /\ status = "PartiallyFilled"
      BY <1>1, <1>7, <2>10
    <3>. QED
      BY <2>4, <2>6, <2>9, <2>10, <3>1
  <2>11. CASE left = 0
    <3>1. req.size - left = req.size /\ status = "Filled"
      BY <1>1, <2>11
    <3>2. Done(W[n])
      BY <2>9, <3>1 DEF Done
    <3>. QED
      BY <2>4, <2>6, <2>11, <3>2
  <2>12. CASE req.order_type # "Limit" /\ left # 0
    <3>1. req.size - left < req.size /\ status = "Cancelled"
      BY <1>1, <2>12
    <3>2. Done(W[n])
      BY <2>9, <3>1 DEF Done
    <3>. QED
      BY <2>4, <2>6, <2>12, <3>2
  <2>. QED
    BY <2>10, <2>11, <2>12
<1>. QED
  BY <1>6, <1>7

\* Books C are B, where what is left of the order n of req after m rests now.
TakerKept(n, req, m, B, C, pair) ==
  IF req.order_type = "Limit" /\ m.remaining > 0
  THEN \E x \in Order :
         /\ x.id = n /\ x.size = req.size /\ x.remaining_size = m.remaining
         /\ Changed(B, C, pair, req.side, RestingOn(m.book, req.side),
                    RestingOn(m.book, req.side) \cup {x})
  ELSE C = B

(* What follows the loop is the taker's order, resting on its own side, or *)
(* nothing.                                                                *)
LEMMA TakerRests ==
  ASSUME NEW n \in OrderId, NEW a \in Accounts, NEW req \in OrderRequest,
         NEW m \in MatchState, NEW r, r = Finish(n, a, req, m),
         NEW pair \in Markets, NEW B \in [Markets -> Book], B[pair] = m.book,
         NEW C, C = [B EXCEPT ![pair] = r.book]
  PROVE  TakerKept(n, req, m, B, C, pair)
<1>. USE DEF TakerKept
<1>. DEFINE rests == req.order_type = "Limit" /\ m.remaining > 0
<1>1. r.book = IF rests THEN Rest(m.book, n, a, req, m.remaining) ELSE m.book
  BY DEF Finish
<1>2. m.book \in Book /\ m.remaining \in Nat
  BY DEF MatchState
<1>3. CASE ~rests
  BY <1>1, <1>3
<1>4. CASE rests
  <2>1. r.book = Rest(m.book, n, a, req, m.remaining)
    BY <1>1, <1>4
  <2>2. PICK x \in Order :
           /\ x.id = n /\ x.side = req.side /\ x.price = req.price
           /\ x.size = req.size /\ x.remaining_size = m.remaining
           /\ r.book \in Book /\ RestedBook(m.book, r.book, x)
    BY <1>2, <2>1, RestEffect
  <2>. DEFINE u == m.book  v == r.book
  <2>3. u \in Book /\ v \in Book /\ x \in Order /\ RestedBook(u, v, x)
    BY <1>2, <2>2
  <2>4. B[pair] = u /\ \A p \in Markets : C[p] = IF p = pair THEN v ELSE B[p]
    OBVIOUS
  <2>. HIDE DEF u, v
  <2>5. /\ RestingOn(v, x.side) = RestingOn(u, x.side) \cup {x}
        /\ \A side \in Side : side # x.side => RestingOn(v, side) = RestingOn(u, side)
    BY <2>3, RestedResting
  <2>6. req.side \in Side
    BY RequestFields
  <2>7. Changed(B, C, pair, req.side, RestingOn(u, req.side), RestingOn(u, req.side) \cup {x})
    BY <2>2, <2>4, <2>5, <2>6 DEF Changed
  <2>. QED
    BY <1>4, <2>2, <2>7 DEF u
<1>. QED
  BY <1>3, <1>4

(* The rows after an accepted place_order.                                 *)
LEMMA PlaceRows ==
  ASSUME LedgerInv, NEW n \in OrderId, RowsTrue(order_rows, books, n),
         NEW a \in Accounts, NEW req \in OrderRequest, NEW b, NEW r, Emitted(n, a, req, b, r),
         NEW R, R = InsertAccepted(order_rows, << [order_id |-> n, account_id |-> a, req |-> req] >>),
         NEW W, W = SetUpdated(R, r.updates)
  PROVE  RowsTrue(W, books', n + 1)
<1>. DEFINE opp == Opposite(req.side)
            m == Match(b, n, a, req)
            S == RestingOn(b, opp)
            T == RestingOn(m.book, opp)
            V == SetUpdated(R, m.updates)
            B == [books EXCEPT ![req.pair] = m.book]
            C == [books EXCEPT ![req.pair] = r.book]
            rests == req.order_type = "Limit" /\ m.remaining > 0
<1>1. /\ req.pair \in Markets /\ b = books[req.pair] /\ b \in Book /\ WellKept(b, n)
      /\ r = AddOrder(b, n, a, req) /\ books' = C
  BY DEF Emitted
<1>2. n \in Nat /\ n \notin 0 .. n-1 /\ n \in 0 .. n /\ 0 .. n-1 \subseteq 0 .. n
  BY MaxOrdersAssumption DEF OrderId
<1>3. OneEach(books) /\ books \in [Markets -> Book]
  BY OpenFacts, LedgerFacts DEF TableExact
<1>4. opp \in Side /\ req.side \in Side /\ opp # req.side /\ \A side \in Side : side = opp \/ side = req.side
  BY RequestFields DEF Side
<1>5. Indexed(b) /\ InOrder(b, n)
  BY <1>1 DEF WellKept
<1>6. m = Match(b, n, a, req)
  OBVIOUS
<1>7. r = Finish(n, a, req, m)
  BY <1>1 DEF AddOrder
<1>. HIDE DEF m
<1>8. MatchGood(b, req, n, m)
  BY <1>1, <1>2, <1>5, <1>6, MatchKeeps
<1>9. /\ m \in MatchState /\ m.remaining \in Nat /\ m.remaining <= req.size
      /\ m.updates \in Seq(OrderUpdate) /\ m.book \in Book
      /\ m.book.queue[req.side] = b.queue[req.side]
  BY <1>8 DEF MatchGood, MatchState
<1>10. /\ order_rows \in [0 .. n-1 -> Row] /\ RowsBelow(order_rows, books, n)
  BY DEF RowsTrue
<1>11. /\ R \in [0 .. n -> Row]
       /\ \A id \in 0 .. n-1 : R[id] = order_rows[id]
       /\ R[n].size = req.size /\ R[n].filled_qty = 0 /\ R[n].status = "Open"
  BY <1>2, <1>10, InsertedOne
<1>12. ToldBy(R, req, S, m)
  <2>1. \A o \in S : o.id \in 0 .. n-1 /\ Shows(order_rows[o.id], o)
    BY <1>1, <1>4, <1>10 DEF RowsBelow
  <2>2. \A o \in S : o.id \in 0 .. n /\ Shows(R[o.id], o)
    BY <1>2, <1>11, <2>1
  <2>3. S = RestingOn(b, Opposite(req.side))
    OBVIOUS
  <2>. HIDE DEF S
  <2>. QED
    BY <1>1, <1>2, <1>5, <1>6, <1>11, <2>2, <2>3, MatchTells
<1>13. Told(R, V, S, T)
  BY <1>12 DEF ToldBy
<1>14. Changed(books, B, req.pair, opp, S, T)
  <2>1. \A p \in Markets : B[p] = IF p = req.pair THEN m.book ELSE books[p]
    BY <1>3
  <2>2. RestingOn(m.book, req.side) = RestingOn(b, req.side)
    BY <1>9 DEF RestingOn
  <2>. HIDE DEF B, opp
  <2>3. ASSUME NEW p \in Markets, NEW side \in Side, p # req.pair \/ side # opp
        PROVE  RestingOn(B[p], side) = RestingOn(books[p], side)
    <3>1. CASE p # req.pair
      BY <2>1, <3>1
    <3>2. CASE p = req.pair /\ side = req.side
      BY <1>1, <2>1, <2>2, <3>2
    <3>. QED
      BY <1>4, <2>3, <3>1, <3>2
  <2>. QED
    BY <1>1, <1>4, <2>1, <2>3 DEF Changed
<1>15. V = SetUpdated(R, m.updates)
  OBVIOUS
<1>16. B = [books EXCEPT ![req.pair] = m.book] /\ C = [books EXCEPT ![req.pair] = r.book]
  OBVIOUS
<1>. HIDE DEF V, B, C, S, T, opp
<1>17. RowsBelow(V, B, n) /\ V[n] = R[n]
  <2>. DEFINE D == 0 .. n
  <2>1. n \in Nat /\ OneEach(books) /\ RowsBelow(order_rows, books, n)
    BY <1>2, <1>3, <1>10
  <2>2. R \in [D -> Row] /\ 0 .. n-1 \subseteq D /\ \A id \in 0 .. n-1 : R[id] = order_rows[id]
    BY <1>2, <1>11
  <2>3. n \in D /\ n \notin 0 .. n-1
    BY <1>2
  <2>. HIDE DEF D
  <2>4. /\ RowsBelow(V, B, n)
        /\ \A id \in D : id \notin 0 .. n-1 => V[id] = R[id]
    <3>1. D = DOMAIN R
      BY <2>2
    <3>2. Retold(n, books, B, order_rows, req.pair, opp, S, T, D, R, V)
      BY <1>13, <1>14, <2>1, <2>2, <3>1 DEF Retold
    <3>. QED
      BY <3>2, RowsAfter
  <2>. QED
    BY <2>3, <2>4
<1>18. /\ W \in [0 .. n -> Row] /\ \A id \in 0 .. n : id # n => W[id] = V[id]
       /\ IF rests
          THEN /\ W[n].size = req.size /\ W[n].filled_qty = req.size - m.remaining
               /\ W[n].status = IF W[n].filled_qty = 0 THEN "Open" ELSE "PartiallyFilled"
          ELSE Done(W[n])
  <2>. DEFINE D == 0 .. n  left == m.remaining  us == m.updates
  <2>1. W = SetUpdated(R, us \o TakerUpdate(n, a, req, left))
    BY <1>7 DEF Finish
  <2>2. V[n].size = req.size /\ V[n].filled_qty = 0 /\ V[n].status = "Open"
    BY <1>11, <1>17
  <2>3. /\ left \in Nat /\ left <= req.size /\ us \in Seq(OrderUpdate)
        /\ R \in [D -> Row] /\ n \in D /\ V = SetUpdated(R, us)
    BY <1>2, <1>9, <1>11, <1>15
  <2>. HIDE DEF D, left, us
  <2>4. /\ W \in [D -> Row] /\ \A id \in D : id # n => W[id] = V[id]
        /\ IF req.order_type = "Limit" /\ left > 0
           THEN /\ W[n].size = req.size /\ W[n].filled_qty = req.size - left
                /\ W[n].status = IF W[n].filled_qty = 0 THEN "Open" ELSE "PartiallyFilled"
           ELSE Done(W[n])
    BY <2>1, <2>2, <2>3, TakerRow
  <2>. QED
    BY <2>4 DEF D, left
<1>19. TakerKept(n, req, m, B, C, req.pair)
  <2>. DEFINE pair == req.pair
  <2>1. pair \in Markets /\ m \in MatchState
    BY <1>1, <1>9
  <2>2. B \in [Markets -> Book] /\ B[pair] = m.book /\ C = [B EXCEPT ![pair] = r.book]
    BY <1>1, <1>3, <1>9, <1>16
  <2>. HIDE DEF pair
  <2>3. TakerKept(n, req, m, B, C, pair)
    BY <1>7, <2>1, <2>2, TakerRests
  <2>. QED
    BY <2>3 DEF pair
<1>20. \/ C = B /\ Done(W[n])
       \/ \E pair, s, Z, x : Changed(B, C, pair, s, Z, Z \cup {x}) /\ x.id = n /\ Shows(W[n], x)
  <2>1. CASE ~rests
    BY <1>18, <1>19, <2>1 DEF TakerKept
  <2>2. CASE rests
    <3>1. PICK x \in Order :
            /\ x.id = n /\ x.size = req.size /\ x.remaining_size = m.remaining
            /\ Changed(B, C, req.pair, req.side, RestingOn(m.book, req.side),
                       RestingOn(m.book, req.side) \cup {x})
      BY <1>19, <2>2 DEF TakerKept
    <3>2. Shows(W[n], x)
      BY <1>18, <2>2, <3>1 DEF Shows
    <3>. QED
      BY <3>1, <3>2
  <2>. QED
    BY <2>1, <2>2
<1>21. \A id \in 0 .. n-1 : W[id] = V[id]
  BY <1>2, <1>18
<1>22. RowsBelow(W, C, n + 1)
  BY <1>2, <1>17, <1>20, <1>21, RowsMore
<1>23. (n + 1) - 1 = n
  BY <1>2
<1>. QED
  BY <1>1, <1>18, <1>22, <1>23 DEF RowsTrue

(* The rows after an accepted cancel_order.                                *)
LEMMA CancelRows ==
  ASSUME LedgerInv, NEW n \in Nat, RowsTrue(order_rows, books, n),
         NEW pair, NEW b, NEW c, NEW o, Freed(pair, b, c, o),
         NEW events, events = CancelEvents(pair, CancelOrder(b, o.id)),
         NEW W, W = SetUpdated(SetCancelled(InsertAccepted(order_rows, events.accepted),
                                            events.cancelled), events.updates)
  PROVE  RowsTrue(W, books', n)
<1>. DEFINE D == 0 .. n-1
            u == [order_id |-> o.id, account_id |-> o.account_id,
                  filled_qty |-> o.size - o.remaining_size,
                  remaining_size |-> o.remaining_size, status |-> "Cancelled"]
            R == SetCancelled(order_rows, <<o.id>>)
            S == RestingOn(b, o.side)
            C == [books EXCEPT ![pair] = c]
<1>1. /\ pair \in Markets /\ b = books[pair] /\ o \in Order /\ books' = C /\ o \in S
      /\ RestingOn(c, o.side) = S \ {o}
      /\ \A side \in Side : side # o.side => RestingOn(c, side) = RestingOn(b, side)
      /\ CancelOrder(b, o.id).removed = o
  BY DEF Freed
<1>2. events.accepted = << >> /\ events.cancelled = <<o.id>> /\ events.updates = <<u>>
  BY <1>1 DEF CancelEvents, NoEvents
<1>3. /\ o.id \in OrderId /\ o.side \in Side /\ o.size \in Nat /\ o.remaining_size \in Nat
      /\ o.account_id \in Accounts
  BY <1>1 DEF Order
<1>4. /\ u \in OrderUpdate /\ u.order_id = o.id /\ u.filled_qty = o.size - o.remaining_size
      /\ u.status = "Cancelled"
  BY <1>3 DEF OrderUpdate
<1>. HIDE DEF u
<1>5. OneEach(books) /\ books \in [Markets -> Book]
  BY OpenFacts, LedgerFacts DEF TableExact
<1>6. order_rows \in [D -> Row] /\ RowsBelow(order_rows, books, n)
  BY DEF RowsTrue
<1>7. o.id \in D /\ Shows(order_rows[o.id], o) /\ o.remaining_size > 0
  BY <1>1, <1>3, <1>5, <1>6 DEF RowsBelow, OneEach
<1>. HIDE DEF D, R
<1>8. InsertAccepted(order_rows, << >>) = order_rows
  BY <1>6, InsertedNone
<1>9. /\ R \in [D -> Row]
      /\ \A id \in D : id # o.id => R[id] = order_rows[id]
      /\ \A id \in D : R[id].size = order_rows[id].size
  BY <1>6, CancelledRows DEF R
<1>10. W = SetUpdated(R, <<u>>)
  BY <1>2, <1>8 DEF R
<1>11. /\ W \in [D -> Row]
       /\ \A id \in D : W[id] = IF id = u.order_id THEN UpdatedRow(R[id], u) ELSE R[id]
  <2>1. << >> \in Seq(OrderUpdate) /\ <<u>> \in Seq(OrderUpdate) /\ Append(<< >>, u) = <<u>>
    BY <1>4
  <2>2. SetUpdated(R, << >>) = R
    BY <1>9, UpdatedNone
  <2>. DEFINE one == <<u>>  none == << >>
  <2>3. one \in Seq(OrderUpdate) /\ W = SetUpdated(R, one)
    BY <1>10, <2>1
  <2>4. none \in Seq(OrderUpdate) /\ W = SetUpdated(R, Append(none, u)) /\ SetUpdated(R, none) = R
    BY <1>10, <2>1, <2>2
  <2>. HIDE DEF one, none
  <2>5. SetUpdated(R, one) \in [D -> Row]
    BY <1>9, <2>3, UpdatedType
  <2>6. \A id \in D : SetUpdated(R, Append(none, u))[id] =
          IF id = u.order_id THEN UpdatedRow(SetUpdated(R, none)[id], u) ELSE SetUpdated(R, none)[id]
    BY <1>4, <1>9, <2>4, UpdatedMore
  <2>. QED
    BY <2>3, <2>4, <2>5, <2>6
<1>12. \A id \in D : id # o.id => W[id] = order_rows[id]
  BY <1>4, <1>9, <1>11
<1>13. Done(W[o.id])
  <2>1. W[o.id] = UpdatedRow(R[o.id], u) /\ R[o.id] \in Row
    BY <1>4, <1>7, <1>9, <1>11
  <2>2. /\ W[o.id].size = R[o.id].size /\ W[o.id].filled_qty = o.size - o.remaining_size
        /\ W[o.id].status = "Cancelled"
    BY <1>4, <2>1, UpdatedRowFacts
  <2>3. R[o.id].size = o.size
    BY <1>7, <1>9 DEF Shows
  <2>4. o.size - o.remaining_size < o.size
    BY <1>3, <1>7
  <2>. QED
    BY <2>2, <2>3, <2>4 DEF Done
<1>14. \A x \in S : x.id = o.id => x = o
  BY <1>1, <1>3, <1>5 DEF OneEach
<1>15. Told(order_rows, W, S, S \ {o})
  <2>1. \A x \in S : x.id \in D /\ Shows(order_rows[x.id], x)
    BY <1>1, <1>3, <1>6 DEF RowsBelow, D
  <2>2. DOMAIN order_rows = D
    BY <1>6
  <2>3. ASSUME NEW id \in D, \A x \in S : x.id # id
        PROVE  W[id] = order_rows[id]
    BY <1>1, <1>12, <2>3
  <2>4. ASSUME NEW x \in S \ {o}
        PROVE  Shows(W[x.id], x)
    BY <1>12, <1>14, <2>1
  <2>5. ASSUME NEW x \in S, \A y \in S \ {o} : y.id # x.id
        PROVE  Done(W[x.id])
    <3>1. x = o
      BY <2>5
    <3>. QED
      BY <1>13, <3>1
  <2>. QED
    BY <2>2, <2>3, <2>4, <2>5 DEF Told
<1>16. Changed(books, C, pair, o.side, S, S \ {o})
  <2>1. \A p \in Markets : C[p] = IF p = pair THEN c ELSE books[p]
    BY <1>5
  <2>. HIDE DEF C
  <2>. QED
    BY <1>1, <1>3, <2>1 DEF Changed
<1>17. Retold(n, books, C, order_rows, pair, o.side, S, S \ {o}, D, order_rows, W)
  <2>1. 0 .. n-1 \subseteq D /\ D = DOMAIN order_rows
    BY <1>6 DEF D
  <2>. QED
    BY <1>5, <1>6, <1>15, <1>16, <2>1 DEF Retold
<1>. HIDE DEF C, S
<1>18. RowsBelow(W, C, n)
  BY <1>17, RowsAfter
<1>. QED
  BY <1>1, <1>11, <1>18 DEF RowsTrue, D

(* So the orders table follows every command.                              *)
LEMMA OrdersFollow ==
  ASSUME LedgerInv, RowsTrue(order_rows, books, next_order_id), Next, ViewsFollow
  PROVE  RowsTrue(order_rows', books', next_order_id')
<1>. DEFINE n == next_order_id
            applied(events) ==
              SetUpdated(SetCancelled(InsertAccepted(order_rows, events.accepted),
                                      events.cancelled), events.updates)
<1>1. n \in Nat /\ order_rows \in [0 .. n-1 -> Row]
  BY LedgerFacts DEF RowsTrue
<1>2. batch' # << >> => order_rows' = applied(batch'[1].events)
  BY DEF ViewsFollow, Project
<1>3. CASE PlaceStep
  <2>0. PICK a \in Accounts, req \in OrderRequest : \E b, r :
          /\ Emitted(n, a, req, b, r)
          /\ batch' # << >> /\ batch'[1].events = PlaceEvents(n, a, req, r)
    BY <1>3 DEF PlaceStep
  <2>1. PICK b, r :
          /\ Emitted(n, a, req, b, r)
          /\ batch' # << >> /\ batch'[1].events = PlaceEvents(n, a, req, r)
    BY <2>0
  <2>. DEFINE e == [order_id |-> n, account_id |-> a, req |-> req]
              R == InsertAccepted(order_rows, <<e>>)
              events == PlaceEvents(n, a, req, r)
  <2>2. events.accepted = <<e>> /\ events.cancelled = << >> /\ events.updates = r.updates
    BY DEF PlaceEvents, NoEvents
  <2>3. n \in OrderId /\ next_order_id' = n + 1
    BY <2>1 DEF Emitted
  <2>. HIDE DEF events, n
  <2>4. R \in [0 .. n -> Row]
    BY <1>1, <2>1, InsertedOne
  <2>. HIDE DEF e
  <2>5. SetCancelled(R, << >>) = R
    <3>. HIDE DEF R
    <3>. QED
      BY <2>4, CancelledRows
  <2>6. order_rows' = SetUpdated(R, r.updates)
    BY <1>2, <2>1, <2>2, <2>5 DEF events
  <2>7. RowsTrue(order_rows, books, n)
    BY DEF n
  <2>8. R = InsertAccepted(order_rows, << [order_id |-> n, account_id |-> a, req |-> req] >>)
    BY DEF e
  <2>. HIDE DEF R
  <2>9. RowsTrue(SetUpdated(R, r.updates), books', n + 1)
    BY <2>1, <2>3, <2>7, <2>8, PlaceRows
  <2>. QED
    BY <2>3, <2>6, <2>9
<1>4. CASE CancelStep
  <2>1. PICK pair, b, c, o :
          /\ Freed(pair, b, c, o)
          /\ batch' # << >> /\ batch'[1].events = CancelEvents(pair, CancelOrder(b, o.id))
    BY <1>4 DEF CancelStep
  <2>. DEFINE events == CancelEvents(pair, CancelOrder(b, o.id))
  <2>2. order_rows' = applied(events)
    BY <1>2, <2>1
  <2>3. events = CancelEvents(pair, CancelOrder(b, o.id))
    OBVIOUS
  <2>. HIDE DEF events
  <2>4. RowsTrue(applied(events), books', n)
    BY <1>1, <2>1, <2>3, CancelRows
  <2>5. next_order_id' = n
    BY <2>1 DEF Freed
  <2>. QED
    BY <2>2, <2>4, <2>5
<1>5. CASE SilentStep
  <2>1. books' = books /\ next_order_id' = n
    BY <1>5 DEF SilentStep
  <2>2. order_rows' = order_rows
    <3>1. CASE batch' = << >>
      BY <3>1 DEF ViewsFollow, views
    <3>2. CASE batch' # << >>
      <4>1. batch'[1].events = NoEvents
        BY <1>5, <3>2 DEF SilentStep
      <4>2. NoEvents.accepted = << >> /\ NoEvents.cancelled = << >> /\ NoEvents.updates = << >>
        BY DEF NoEvents
      <4>3. /\ InsertAccepted(order_rows, << >>) = order_rows
            /\ SetCancelled(order_rows, << >>) = order_rows
            /\ SetUpdated(order_rows, << >>) = order_rows
        BY <1>1, InsertedNone, CancelledRows, UpdatedNone
      <4>. QED
        BY <1>2, <3>2, <4>1, <4>2, <4>3
    <3>. QED
      BY <3>1, <3>2
  <2>. QED
    BY <2>1, <2>2
<1>. QED
  BY <1>3, <1>4, <1>5, EveryStep

-----------------------------------------------------------------------------
(* Every reachable state.                                                  *)

OrderRowsTrue == RowsTrue(order_rows, books, next_order_id)

\* The readers' tables and levels are true of the engine, the levels up to the
\* width of the sums.
LevelsSummed == LevelsTrue(levels, books)
ViewsInv == BalanceRowsExact /\ LevelsSummed /\ OrderRowsTrue

(* A new engine and empty tables agree.                                    *)
LEMMA ViewsStart == ViewsInit => ViewsInv
<1>. SUFFICES ASSUME ViewsInit PROVE ViewsInv
  OBVIOUS
<1>1. /\ books = [pair \in Markets |-> EmptyBook] /\ next_order_id = 0
      /\ order_rows = [id \in {} |-> id] /\ balance_rows = balances
      /\ levels = [pair \in Markets |-> [side \in Side |-> [price \in Prices |-> 0]]]
  BY DEF ViewsInit, Init
<1>2. \A side \in Side, price \in Prices : EmptyBook.queue[side][price] = << >>
  BY DEF EmptyBook
<1>3. LevelsSummed
  <2>1. ASSUME NEW pair \in Markets, NEW side \in Side, NEW price \in Prices
        PROVE  levels[pair][side][price] = LevelQty(books[pair], side, price)
    <3>1. levels[pair][side][price] = 0 /\ books[pair] = EmptyBook
      BY <1>1
    <3>. DEFINE e == [i \in 1 .. 0 |-> EmptyBook.queue[side][price][i].remaining_size]
    <3>2. \A i \in DOMAIN e : e[i] \in Int
      OBVIOUS
    <3>3. LevelTotal(EmptyBook, side, price) = SumTo(e, 0)
      BY <1>2 DEF LevelTotal
    <3>. HIDE DEF e
    <3>4. SumTo(e, 0) = 0
      BY <3>2, SumStep
    <3>5. EmptyBook \in Book
      BY EmptyWellKept
    <3>6. Fits(LevelTotal(EmptyBook, side, price))
      BY <3>3, <3>4, U64MaxAssumption DEF Fits
    <3>7. LevelQty(EmptyBook, side, price) = 0
      BY <3>3, <3>4, <3>5, <3>6, LevelQtyType
    <3>. QED
      BY <3>1, <3>7
  <2>. QED
    BY <2>1 DEF LevelsSummed, LevelsTrue
<1>4. OrderRowsTrue
  <2>1. 0 .. 0-1 = {}
    OBVIOUS
  <2>2. order_rows \in [0 .. next_order_id-1 -> Row]
    BY <1>1, <2>1
  <2>3. ASSUME NEW p \in Markets, NEW side \in Side PROVE RestingOn(books[p], side) = {}
    <3>1. EmptyBook \in Book /\ books[p] = EmptyBook
      BY <1>1, EmptyWellKept
    <3>2. \A o : o \notin RestingOn(EmptyBook, side)
      BY <1>2, <3>1, RestingMember
    <3>. QED
      BY <3>1, <3>2
  <2>4. RowsBelow(order_rows, books, next_order_id)
    BY <1>1, <2>1, <2>3 DEF RowsBelow
  <2>. QED
    BY <2>2, <2>4 DEF OrderRowsTrue, RowsTrue
<1>. QED
  BY <1>1, <1>3, <1>4 DEF ViewsInv, BalanceRowsExact

(* Applying each batch as it is emitted keeps them true.                   *)
LEMMA ViewsKept == LedgerInv /\ ViewsInv /\ [ViewsNext]_<<vars, views>> => ViewsInv'
<1>. SUFFICES ASSUME LedgerInv, ViewsInv, [ViewsNext]_<<vars, views>> PROVE ViewsInv'
  OBVIOUS
<1>1. /\ BalanceRowsExact /\ LevelsTrue(levels, books)
      /\ RowsTrue(order_rows, books, next_order_id)
  BY DEF ViewsInv, LevelsSummed, OrderRowsTrue
<1>2. CASE ViewsNext
  <2>1. Next /\ ViewsFollow
    BY <1>2 DEF ViewsNext, ViewsFollow
  <2>2. BalanceRowsExact' /\ LevelsTrue(levels', books')
    BY <1>1, <2>1, BalancesFollow, LevelsFollow
  <2>3. RowsTrue(order_rows', books', next_order_id')
    BY <1>1, <2>1, OrdersFollow
  <2>. QED
    BY <2>2, <2>3 DEF ViewsInv, LevelsSummed, OrderRowsTrue
<1>3. CASE UNCHANGED <<vars, views>>
  BY <1>1, <1>3 DEF ViewsInv, OrderRowsTrue, BalanceRowsExact, LevelsSummed, vars, views
<1>. QED
  BY <1>2, <1>3

(* The readers leave the engine alone, so that its invariants hold.        *)
LEMMA ViewsEngine == ViewsSpec => []LedgerInv
<1>1. ViewsInit => Init
  BY DEF ViewsInit
<1>2. [ViewsNext]_<<vars, views>> => [Next]_vars
  BY DEF ViewsNext
<1>3. ViewsSpec => Spec
  BY <1>1, <1>2, PTL DEF ViewsSpec, Spec
<1>. QED
  BY <1>3, LedgerInvariant, PTL

(* What readers make of the batches stays true of the engine.              *)
LEMMA ViewsInvariant == ViewsSpec => [](LedgerInv /\ ViewsInv)
  BY ViewsStart, ViewsKept, ViewsEngine, PTL DEF ViewsSpec

(* The balances table that db_writer builds from BalanceChanged equals the *)
(* ledger after every command: no path of the engine changes a balance     *)
(* without marking it dirty.                                               *)
THEOREM BalancesShown == ViewsSpec => []BalanceRowsExact
<1>1. ViewsInv => BalanceRowsExact
  BY DEF ViewsInv
<1>. QED
  BY <1>1, ViewsInvariant, PTL

(* The price levels that the API projects from BookDelta equal the books   *)
(* after every command, wherever a u64 counts the level's units: the dirty *)
(* levels of add_order and cancel_order cover every level they touch, and  *)
(* a level whose sum wrapped round is right again once its units fit.      *)
THEOREM LevelsShown == ViewsSpec => []LevelsExact
<1>1. LedgerInv /\ ViewsInv => LevelsExact
  <2>. SUFFICES ASSUME LedgerInv, ViewsInv, NEW pair \in Markets, NEW side \in Side,
                       NEW price \in Prices, Fits(UnitsAt(pair, side, price))
                PROVE  levels[pair][side][price] = UnitsAt(pair, side, price)
    BY DEF LevelsExact
  <2>1. books[pair] \in Book
    BY LedgerFacts
  <2>2. levels[pair][side][price] = LevelQty(books[pair], side, price)
    BY DEF ViewsInv, LevelsSummed, LevelsTrue
  <2>3. UnitsAt(pair, side, price) = LevelTotal(books[pair], side, price)
    BY DEF UnitsAt
  <2>. QED
    BY <2>1, <2>2, <2>3, LevelQtyType
<1>. QED
  BY <1>1, ViewsInvariant, PTL

(* The orders table that db_writer builds shows, for every order ever      *)
(* accepted, what was filled of it and whether it rests, is filled or was  *)
(* cancelled: the updates of a batch add up over the order's whole life.   *)
THEOREM OrdersShown == ViewsSpec => []OrderRowsExact
<1>1. LedgerInv /\ ViewsInv => OrderRowsExact
  BY RowsTrueExact, LedgerFacts DEF ViewsInv, OrderRowsTrue
<1>. QED
  BY <1>1, ViewsInvariant, PTL
=============================================================================
