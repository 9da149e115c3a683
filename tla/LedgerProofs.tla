---------------------------- MODULE LedgerProofs ----------------------------
(***************************************************************************)
(* The ledger agrees with the books: what an account has reserved is what  *)
(* its open orders could still spend, a market buy costs what was walked,  *)
(* and trades explain every holding, for every instance of the engine.     *)
(*                                                                         *)
(* The argument: sums over order ids and over trades change by one term at *)
(* a time; a fill moves the same amount in the book, in the trades and in  *)
(* the ledger, so the three agree along the matching loop.                 *)
(***************************************************************************)
EXTENDS EngineProofs

-----------------------------------------------------------------------------
(* Sums.                                                                   *)

(* A sum starts at 0 and grows by its next term. *)
LEMMA SumStep ==
  ASSUME NEW e, \A i \in DOMAIN e : e[i] \in Int
  PROVE  /\ SumTo(e, 0) = 0
         /\ \A n \in Nat : /\ SumTo(e, n) \in Int
                           /\ SumTo(e, n+1) = SumTo(e, n) + (IF n+1 \in DOMAIN e THEN e[n+1] ELSE 0)
<1>. DEFINE F == [i \in Nat |-> [s \in Int |-> IF i \in DOMAIN e THEN s + e[i] ELSE s]]
<1>1. F \in [Nat -> [Int -> Int]]
  OBVIOUS
<1>2. \A i \in Nat, s \in Int : F[i][s] = IF i \in DOMAIN e THEN s + e[i] ELSE s
  OBVIOUS
<1>3. \A n \in Nat : SumTo(e, n) = Loop(F, 0)[n]
  BY DEF SumTo
<1>. HIDE DEF F
<1>4. /\ Loop(F, 0) \in [Nat -> Int]
      /\ Loop(F, 0)[0] = 0
      /\ \A n \in Nat : Loop(F, 0)[n+1] = F[n+1][Loop(F, 0)[n]]
  <2>. DEFINE S == Int  x == 0
  <2>1. x \in S /\ F \in [Nat -> [S -> S]]
    BY <1>1
  <2>. HIDE DEF S, x
  <2>2. /\ Loop(F, x) \in [Nat -> S]
        /\ Loop(F, x)[0] = x
        /\ \A n \in Nat : Loop(F, x)[n+1] = F[n+1][Loop(F, x)[n]]
    BY <2>1, LoopDef
  <2>. QED
    BY <2>2 DEF S, x
<1>5. ASSUME NEW n \in Nat
      PROVE  /\ SumTo(e, n) \in Int
             /\ SumTo(e, n+1) = SumTo(e, n) + (IF n+1 \in DOMAIN e THEN e[n+1] ELSE 0)
  <2>1. n + 1 \in Nat /\ SumTo(e, n) = Loop(F, 0)[n] /\ SumTo(e, n+1) = Loop(F, 0)[n+1]
    BY <1>3
  <2>2. SumTo(e, n) \in Int
    BY <1>4, <2>1
  <2>3. SumTo(e, n+1) = F[n+1][SumTo(e, n)]
    BY <1>4, <2>1
  <2>. QED
    BY <1>2, <2>1, <2>2, <2>3
<1>6. SumTo(e, 0) = 0
  BY <1>3, <1>4
<1>. QED
  BY <1>5, <1>6

(* The same for the terms 1 .. n. *)
LEMMA SumOver ==
  ASSUME NEW n \in Nat, NEW e \in [1 .. n -> Int]
  PROVE  /\ SumTo(e, 0) = 0
         /\ \A k \in 0 .. n : SumTo(e, k) \in Int
         /\ \A k \in 0 .. n-1 : SumTo(e, k+1) = SumTo(e, k) + e[k+1]
<1>1. DOMAIN e = 1 .. n /\ \A i \in DOMAIN e : e[i] \in Int
  OBVIOUS
<1>2. /\ SumTo(e, 0) = 0
      /\ \A k \in Nat : /\ SumTo(e, k) \in Int
                        /\ SumTo(e, k+1) = SumTo(e, k) + (IF k+1 \in DOMAIN e THEN e[k+1] ELSE 0)
  BY <1>1, SumStep
<1>3. ASSUME NEW k \in 0 .. n-1 PROVE SumTo(e, k+1) = SumTo(e, k) + e[k+1]
  <2>1. k \in Nat /\ k + 1 \in DOMAIN e
    BY <1>1
  <2>. QED
    BY <1>2, <2>1
<1>. QED
  BY <1>2, <1>3

(* Terms that agree up to n have the same sum to n. *)
LEMMA SumSame ==
  ASSUME NEW n \in Nat, NEW e, NEW g,
         \A i \in DOMAIN e : e[i] \in Int, \A i \in DOMAIN g : g[i] \in Int,
         \A i \in 1 .. n : i \in DOMAIN e /\ i \in DOMAIN g /\ e[i] = g[i]
  PROVE  SumTo(e, n) = SumTo(g, n)
<1>. DEFINE U == {k \in Nat : k <= n => SumTo(e, k) = SumTo(g, k)}
<1>1. 0 \in U
  BY SumStep
<1>2. ASSUME NEW k \in U PROVE k + 1 \in U
  <2>. SUFFICES ASSUME k + 1 <= n PROVE SumTo(e, k+1) = SumTo(g, k+1)
    OBVIOUS
  <2>1. k \in Nat /\ k + 1 \in 1 .. n /\ SumTo(e, k) = SumTo(g, k)
    OBVIOUS
  <2>2. SumTo(e, k+1) = SumTo(e, k) + e[k+1]
    BY <2>1, SumStep
  <2>3. SumTo(g, k+1) = SumTo(g, k) + g[k+1]
    BY <2>1, SumStep
  <2>. QED
    BY <2>1, <2>2, <2>3
<1>3. U = Nat
  BY <1>1, <1>2, SetInduction
<1>. QED
  BY <1>3

(* A sum grows by the term that is appended. *)
LEMMA SumAppend ==
  ASSUME NEW n \in Nat, NEW e \in [1 .. n -> Int], NEW g \in [1 .. n+1 -> Int],
         \A i \in 1 .. n : g[i] = e[i]
  PROVE  SumTo(g, n+1) = SumTo(e, n) + g[n+1]
<1>1. DOMAIN e = 1 .. n /\ DOMAIN g = 1 .. n+1 /\ n+1 \in 1 .. n+1
  OBVIOUS
<1>2. SumTo(e, n) = SumTo(g, n)
  BY <1>1, SumSame
<1>3. SumTo(g, n+1) = SumTo(g, n) + g[n+1]
  BY <1>1, SumStep
<1>. QED
  BY <1>2, <1>3

(* Changing one term changes the sum by as much. *)
LEMMA SumChange ==
  ASSUME NEW n \in Nat, NEW e \in [1 .. n -> Int], NEW g \in [1 .. n -> Int],
         NEW j \in 1 .. n, \A i \in 1 .. n : i # j => g[i] = e[i]
  PROVE  SumTo(g, n) = SumTo(e, n) + (g[j] - e[j])
<1>. DEFINE d(k) == IF j <= k THEN g[j] - e[j] ELSE 0
            U == {k \in Nat : k <= n => SumTo(g, k) = SumTo(e, k) + d(k)}
<1>1. 0 \in U
  <2>1. SumTo(e, 0) = 0 /\ SumTo(g, 0) = 0
    BY SumOver
  <2>2. d(0) = 0
    OBVIOUS
  <2>. QED
    BY <2>1, <2>2
<1>2. ASSUME NEW k \in U PROVE k + 1 \in U
  <2>. SUFFICES ASSUME k + 1 <= n PROVE SumTo(g, k+1) = SumTo(e, k+1) + d(k+1)
    OBVIOUS
  <2>1. k \in 0 .. n-1 /\ k \in 0 .. n /\ SumTo(g, k) = SumTo(e, k) + d(k)
    OBVIOUS
  <2>2. SumTo(e, k) \in Int /\ SumTo(e, k+1) = SumTo(e, k) + e[k+1]
    BY <2>1, SumOver
  <2>3. SumTo(g, k) \in Int /\ SumTo(g, k+1) = SumTo(g, k) + g[k+1]
    BY <2>1, SumOver
  <2>4. g[j] \in Int /\ e[j] \in Int /\ g[k+1] \in Int /\ e[k+1] \in Int
    BY <2>1
  <2>5. d(k) \in Int /\ d(k+1) = d(k) + (g[k+1] - e[k+1])
    BY <2>1, <2>4
  <2>. HIDE DEF U, d
  <2>. QED
    BY <2>1, <2>2, <2>3, <2>4, <2>5
<1>3. U = Nat
  BY <1>1, <1>2, SetInduction
<1>4. SumTo(g, n) = SumTo(e, n) + d(n)
  BY <1>3
<1>. QED
  BY <1>4

(* Without its first term a sum is smaller by as much. *)
LEMMA SumTail ==
  ASSUME NEW n \in Nat, NEW e \in [1 .. n+1 -> Int], NEW g \in [1 .. n -> Int],
         \A i \in 1 .. n : g[i] = e[i+1]
  PROVE  SumTo(g, n) = SumTo(e, n+1) - e[1]
<1>. DEFINE U == {k \in Nat : k <= n => SumTo(g, k) = SumTo(e, k+1) - e[1]}
<1>0. n + 1 \in Nat /\ (n + 1) - 1 = n
  OBVIOUS
<1>5. /\ SumTo(e, 0) = 0
      /\ \A k \in 0 .. n+1 : SumTo(e, k) \in Int
      /\ \A k \in 0 .. n : SumTo(e, k+1) = SumTo(e, k) + e[k+1]
  BY <1>0, SumOver
<1>1. 0 \in U
  <2>1. SumTo(g, 0) = 0
    BY SumOver
  <2>2. SumTo(e, 0+1) = SumTo(e, 0) + e[0+1] /\ 0 + 1 = 1 /\ e[1] \in Int
    BY <1>5
  <2>. QED
    BY <1>5, <2>1, <2>2
<1>2. ASSUME NEW k \in U PROVE k + 1 \in U
  <2>. SUFFICES ASSUME k + 1 <= n PROVE SumTo(g, k+1) = SumTo(e, (k+1)+1) - e[1]
    OBVIOUS
  <2>1. k \in 0 .. n-1 /\ k \in 0 .. n /\ k + 1 \in 0 .. n /\ k + 1 \in 0 .. n+1
        /\ SumTo(g, k) = SumTo(e, k+1) - e[1]
    OBVIOUS
  <2>2. SumTo(e, k+1) \in Int /\ SumTo(e, (k+1)+1) = SumTo(e, k+1) + e[(k+1)+1]
    BY <1>5, <2>1
  <2>3. SumTo(g, k) \in Int /\ SumTo(g, k+1) = SumTo(g, k) + g[k+1]
    BY <2>1, SumOver
  <2>4. g[k+1] = e[(k+1)+1] /\ e[1] \in Int /\ e[(k+1)+1] \in Int
    BY <2>1
  <2>. HIDE DEF U
  <2>. QED
    BY <2>1, <2>2, <2>3, <2>4
<1>3. U = Nat
  BY <1>1, <1>2, SetInduction
<1>4. n \in U
  BY <1>3
<1>. QED
  BY <1>4

(* A sum of naturals is a natural and at least its first term. *)
LEMMA SumOfNats ==
  ASSUME NEW n \in Nat, NEW e \in [1 .. n -> Nat]
  PROVE  SumTo(e, n) \in Nat /\ (n > 0 => SumTo(e, n) >= e[1])
<1>. DEFINE U == {k \in Nat : k <= n => SumTo(e, k) \in Nat /\ (k > 0 => SumTo(e, k) >= e[1])}
<1>0. e \in [1 .. n -> Int]
  OBVIOUS
<1>5. /\ SumTo(e, 0) = 0
      /\ \A k \in 0 .. n-1 : SumTo(e, k+1) = SumTo(e, k) + e[k+1]
  BY <1>0, SumOver
<1>1. 0 \in U
  BY <1>5
<1>2. ASSUME NEW k \in U PROVE k + 1 \in U
  <2>. SUFFICES ASSUME k + 1 <= n
                PROVE  SumTo(e, k+1) \in Nat /\ SumTo(e, k+1) >= e[1]
    OBVIOUS
  <2>1. k \in 0 .. n-1 /\ SumTo(e, k) \in Nat /\ (k > 0 => SumTo(e, k) >= e[1])
    OBVIOUS
  <2>2. SumTo(e, k+1) = SumTo(e, k) + e[k+1]
    BY <1>5, <2>1
  <2>3. e[1] \in Nat /\ e[k+1] \in Nat /\ (k = 0 => e[k+1] = e[1])
    BY <2>1
  <2>. HIDE DEF U
  <2>. QED
    BY <2>1, <2>2, <2>3
<1>3. U = Nat
  BY <1>1, <1>2, SetInduction
<1>. QED
  BY <1>3

-----------------------------------------------------------------------------
(* What sets of resting orders pledge.                                     *)

\* No two of the orders have the same id.
OwnIds(S) == \A x, y \in S : x.id = y.id => x = y

(* What an order could still spend is a natural. *)
LEMMA SpendableType ==
  ASSUME NEW o \in Order
  PROVE  Spendable(o) \in Nat
<1>1. o.price \in Nat /\ o.remaining_size \in Nat
  BY OrderFields, PricesAssumption
<1>2. o.price * o.remaining_size \in Nat
  BY <1>1
<1>. QED
  BY <1>1, <1>2 DEF Spendable

(* A pledge is a natural. *)
LEMMA PledgeType ==
  ASSUME NEW S \in SUBSET Order, NEW a, NEW id
  PROVE  Pledge(S, a, id) \in Nat
<1>. DEFINE mine == {o \in S : o.id = id /\ o.account_id = a}
<1>1. Pledge(S, a, id) = IF mine = {} THEN 0 ELSE Spendable(CHOOSE o \in mine : TRUE)
  BY DEF Pledge
<1>2. mine \subseteq Order
  OBVIOUS
<1>. HIDE DEF mine
<1>3. mine # {} => (CHOOSE o \in mine : TRUE) \in Order
  BY <1>2
<1>. QED
  BY <1>1, <1>3, SpendableType

(* What an account's orders pledge is a natural. *)
LEMMA PledgedType ==
  ASSUME NEW S \in SUBSET Order, NEW a
  PROVE  Pledged(S, a) \in Nat
<1>. DEFINE e == [n \in 1 .. MaxOrders |-> Pledge(S, a, n - 1)]
<1>1. e \in [1 .. MaxOrders -> Nat]
  BY PledgeType
<1>. HIDE DEF e
<1>2. SumTo(e, MaxOrders) \in Nat
  BY <1>1, MaxOrdersAssumption, SumOfNats
<1>. QED
  BY <1>2 DEF Pledged, e

(* One more order, with an id of its own, pledges what it could spend.     *)
LEMMA PledgedMore ==
  ASSUME NEW S \in SUBSET Order, NEW o \in Order, \A x \in S : x.id # o.id,
         NEW a
  PROVE  Pledged(S \cup {o}, a) =
           Pledged(S, a) + (IF o.account_id = a THEN Spendable(o) ELSE 0)
<1>. DEFINE T == S \cup {o}
            e == [n \in 1 .. MaxOrders |-> Pledge(S, a, n - 1)]
            g == [n \in 1 .. MaxOrders |-> Pledge(T, a, n - 1)]
            more == IF o.account_id = a THEN Spendable(o) ELSE 0
            j == o.id + 1
<1>1. o.id \in OrderId /\ o.id \in Nat /\ MaxOrders \in Nat
  BY OrderFields, MaxOrdersAssumption DEF Order
<1>2. j \in 1 .. MaxOrders /\ j - 1 = o.id
  BY <1>1 DEF OrderId
<1>3. T \in SUBSET Order
  OBVIOUS
<1>4. e \in [1 .. MaxOrders -> Int] /\ g \in [1 .. MaxOrders -> Int]
  <2>1. \A n \in 1 .. MaxOrders : Pledge(S, a, n - 1) \in Nat /\ Pledge(T, a, n - 1) \in Nat
    <3>. HIDE DEF T
    <3>. QED
      BY <1>3, PledgeType
  <2>2. e \in [1 .. MaxOrders -> Int]
    BY <2>1
  <2>3. g \in [1 .. MaxOrders -> Int]
    BY <2>1
  <2>. QED
    BY <2>2, <2>3
<1>5. ASSUME NEW i \in 1 .. MaxOrders, i # j PROVE g[i] = e[i]
  <2>1. i - 1 # o.id
    BY <1>1, <1>5
  <2>. DEFINE mine(Q) == {x \in Q : x.id = i - 1 /\ x.account_id = a}
  <2>2. mine(T) = mine(S)
    BY <2>1
  <2>4. \A Q : Pledge(Q, a, i - 1) = IF mine(Q) = {} THEN 0 ELSE Spendable(CHOOSE x \in mine(Q) : TRUE)
    BY DEF Pledge
  <2>. HIDE DEF mine, T
  <2>3. Pledge(T, a, i - 1) = Pledge(S, a, i - 1)
    BY <2>2, <2>4
  <2>. QED
    BY <2>3
<1>6. e[j] = 0
  <2>1. {x \in S : x.id = o.id /\ x.account_id = a} = {}
    OBVIOUS
  <2>2. Pledge(S, a, o.id) = 0
    BY <2>1 DEF Pledge
  <2>. QED
    BY <1>2, <2>2
<1>7. g[j] = more
  <2>. DEFINE mine == {x \in T : x.id = o.id /\ x.account_id = a}
  <2>1. mine = IF o.account_id = a THEN {o} ELSE {}
    OBVIOUS
  <2>2. Pledge(T, a, o.id) = IF mine = {} THEN 0 ELSE Spendable(CHOOSE x \in mine : TRUE)
    BY DEF Pledge
  <2>. HIDE DEF mine
  <2>3. o.account_id = a => mine = {o} /\ (CHOOSE x \in mine : TRUE) = o
    BY <2>1
  <2>4. Pledge(T, a, o.id) = more
    BY <2>1, <2>2, <2>3
  <2>. QED
    BY <1>2, <2>4
<1>8. more \in Nat
  BY SpendableType
<1>9. Pledged(S, a) = SumTo(e, MaxOrders) /\ Pledged(T, a) = SumTo(g, MaxOrders)
  BY DEF Pledged
<1>10. SumTo(e, MaxOrders) \in Int
  <2>. HIDE DEF e
  <2>1. MaxOrders \in 0 .. MaxOrders
    BY <1>1
  <2>. QED
    BY <1>1, <1>4, <2>1, SumOver
<1>. HIDE DEF e, g, j, more, T
<1>11. SumTo(g, MaxOrders) = SumTo(e, MaxOrders) + (g[j] - e[j])
  BY <1>1, <1>2, <1>4, <1>5, SumChange
<1>12. Pledged(T, a) = Pledged(S, a) + more
  BY <1>6, <1>7, <1>8, <1>9, <1>10, <1>11
<1>. QED
  BY <1>12 DEF T, more

(* Without one of its orders a set pledges less by what that could spend.  *)
LEMMA PledgedLess ==
  ASSUME NEW S \in SUBSET Order, OwnIds(S), NEW o \in S, NEW a
  PROVE  Pledged(S \ {o}, a) =
           Pledged(S, a) - (IF o.account_id = a THEN Spendable(o) ELSE 0)
<1>. DEFINE R == S \ {o}
<1>1. R \in SUBSET Order /\ o \in Order /\ S = R \cup {o}
  OBVIOUS
<1>2. \A x \in R : x.id # o.id
  BY DEF OwnIds
<1>. HIDE DEF R
<1>3. Pledged(R \cup {o}, a) = Pledged(R, a) + (IF o.account_id = a THEN Spendable(o) ELSE 0)
  BY <1>1, <1>2, PledgedMore
<1>4. Pledged(R, a) \in Nat /\ Spendable(o) \in Nat
  BY <1>1, PledgedType, SpendableType
<1>5. Pledged(S, a) = Pledged(R, a) + (IF o.account_id = a THEN Spendable(o) ELSE 0)
  BY <1>1, <1>3
<1>6. Pledged(R, a) = Pledged(S, a) - (IF o.account_id = a THEN Spendable(o) ELSE 0)
  BY <1>4, <1>5
<1>. QED
  BY <1>6 DEF R

-----------------------------------------------------------------------------
(* The orders resting on a side, as a set.                                 *)

(* An order rests on a side when it is at some place of some level.        *)
LEMMA RestingMember ==
  ASSUME NEW b \in Book, NEW side \in Side
  PROVE  /\ RestingOn(b, side) \in SUBSET Order
         /\ \A o : o \in RestingOn(b, side) <=>
              \E price \in Prices : \E i \in 1 .. Len(b.queue[side][price]) :
                o = b.queue[side][price][i]
<1>1. \A price \in Prices : b.queue[side][price] \in Seq(Order)
  BY DEF Book
<1>2. ASSUME NEW price \in Prices, NEW o
      PROVE  o \in Range(b.queue[side][price]) <=>
               \E i \in 1 .. Len(b.queue[side][price]) : o = b.queue[side][price][i]
  <2>. DEFINE q == b.queue[side][price]
  <2>1. q \in Seq(Order)
    BY <1>1
  <2>. HIDE DEF q
  <2>2. DOMAIN q = 1 .. Len(q)
    BY <2>1
  <2>3. o \in Range(q) <=> \E i \in 1 .. Len(q) : o = q[i]
    BY <2>2 DEF Range
  <2>. QED
    BY <2>3 DEF q
<1>3. \A o : o \in RestingOn(b, side) <=> \E price \in Prices : o \in Range(b.queue[side][price])
  BY DEF RestingOn
<1>4. \A o : o \in RestingOn(b, side) <=>
        \E price \in Prices : \E i \in 1 .. Len(b.queue[side][price]) : o = b.queue[side][price][i]
  <2>. TAKE o
  <2>1. (\E price \in Prices : o \in Range(b.queue[side][price])) <=>
        \E price \in Prices : \E i \in 1 .. Len(b.queue[side][price]) : o = b.queue[side][price][i]
    BY <1>2
  <2>. QED
    BY <1>3, <2>1
<1>5. ASSUME NEW o \in RestingOn(b, side) PROVE o \in Order
  <2>1. PICK price \in Prices : \E i \in 1 .. Len(b.queue[side][price]) : o = b.queue[side][price][i]
    BY <1>4
  <2>. DEFINE q == b.queue[side][price]
  <2>2. q \in Seq(Order)
    BY <1>1
  <2>3. \E i \in 1 .. Len(q) : o = q[i]
    BY <2>1
  <2>. HIDE DEF q
  <2>. QED
    BY <2>2, <2>3
<1>. QED
  BY <1>4, <1>5

(* The orders on a side of a well-kept book have ids of their own.         *)
LEMMA RestingOwnIds ==
  ASSUME NEW b \in Book, NEW side \in Side, NEW n \in Nat, Indexed(b), InOrder(b, n)
  PROVE  OwnIds(RestingOn(b, side))
<1>. SUFFICES ASSUME NEW x \in RestingOn(b, side), NEW y \in RestingOn(b, side), x.id = y.id
              PROVE  x = y
  BY DEF OwnIds
<1>1. PICK px \in Prices : \E i \in 1 .. Len(b.queue[side][px]) : x = b.queue[side][px][i]
  BY RestingMember
<1>2. PICK py \in Prices : \E i \in 1 .. Len(b.queue[side][py]) : y = b.queue[side][py][i]
  BY RestingMember
<1>3. PICK i \in 1 .. Len(b.queue[side][px]) : x = b.queue[side][px][i]
  BY <1>1
<1>4. PICK j \in 1 .. Len(b.queue[side][py]) : y = b.queue[side][py][j]
  BY <1>2
<1>5. Located(b, side, px, x) /\ Located(b, side, py, y)
  BY <1>3, <1>4 DEF Indexed
<1>6. px = py
  BY <1>5 DEF Located
<1>. DEFINE q == b.queue[side][px]
<1>7. q \in Seq(Order) /\ ByArrival(q)
  BY DEF Book, InOrder
<1>8. i \in 1 .. Len(q) /\ j \in 1 .. Len(q) /\ x = q[i] /\ y = q[j]
  BY <1>3, <1>4, <1>6
<1>. HIDE DEF q
<1>9. x \in Order /\ y \in Order /\ Len(q) \in Nat
  BY <1>7, <1>8
<1>10. x.id \in Nat /\ y.id \in Nat
  BY <1>9, OrderFields
<1>11. ~(i < j) /\ ~(j < i)
  BY <1>7, <1>8, <1>10 DEF ByArrival
<1>12. i = j
  BY <1>8, <1>9, <1>11
<1>. QED
  BY <1>8, <1>12

(* A fill replaces the maker by what is left of it. *)
LEMMA FilledResting ==
  ASSUME NEW b \in Book, NEW c \in Book, NEW n \in Nat, Indexed(b), InOrder(b, n),
         NEW fside \in Side, NEW fprice \in Prices,
         NEW q \in Seq(Order), NEW r \in Seq(Order), NEW left \in Nat,
         Len(q) > 0, Filled(q, r, left),
         FilledBook(b, c, fside, fprice, q, r, left)
  PROVE  /\ q[1] \in RestingOn(b, fside)
         /\ RestingOn(c, fside) =
              (RestingOn(b, fside) \ {q[1]})
                \cup (IF left = 0 THEN {} ELSE {WithRemaining(q[1], left)})
<1>. DEFINE B == RestingOn(b, fside)  C == RestingOn(c, fside)
            shrunk == IF left = 0 THEN {} ELSE {WithRemaining(q[1], left)}
<1>1. /\ Len(q) \in Nat /\ Len(r) \in Nat /\ 1 \in 1 .. Len(q)
      /\ q = b.queue[fside][fprice] /\ r = c.queue[fside][fprice]
      /\ \A price \in Prices : price # fprice => c.queue[fside][price] = b.queue[fside][price]
  BY DEF FilledBook
<1>2. \A o : o \in B <=> \E price \in Prices : \E i \in 1 .. Len(b.queue[fside][price]) :
                           o = b.queue[fside][price][i]
  BY RestingMember
<1>3. \A o : o \in C <=> \E price \in Prices : \E i \in 1 .. Len(c.queue[fside][price]) :
                           o = c.queue[fside][price][i]
  BY RestingMember
<1>. HIDE DEF B, C
<1>4. \A i \in 1 .. Len(q) : q[i] \in B
  BY <1>1, <1>2
<1>5. \A i \in 1 .. Len(q) : i # 1 => q[i] # q[1]
  <2>1. ByArrival(q)
    BY <1>1 DEF InOrder
  <2>2. ASSUME NEW i \in 1 .. Len(q), i # 1 PROVE q[i] # q[1]
    <3>1. q[1] \in Order /\ q[i] \in Order /\ 1 < i
      BY <1>1, <2>2
    <3>2. q[1].id \in Nat /\ q[i].id \in Nat
      BY <3>1, OrderFields
    <3>3. q[1].id < q[i].id
      BY <1>1, <2>1, <3>1 DEF ByArrival
    <3>. QED
      BY <3>2, <3>3
  <2>. QED
    BY <2>2
<1>6. ASSUME NEW o \in C PROVE o \in (B \ {q[1]}) \cup shrunk
  <2>1. PICK price \in Prices : \E i \in 1 .. Len(c.queue[fside][price]) : o = c.queue[fside][price][i]
    BY <1>3
  <2>2. PICK i \in 1 .. Len(c.queue[fside][price]) : o = c.queue[fside][price][i]
    BY <2>1
  <2>3. CASE price = fprice
    <3>1. i \in 1 .. Len(r) /\ o = r[i]
      BY <1>1, <2>2, <2>3
    <3>2. CASE left = 0
      <4>1. i + 1 \in 1 .. Len(q) /\ i + 1 # 1 /\ o = q[i+1]
        BY <1>1, <3>1, <3>2 DEF Filled
      <4>. QED
        BY <1>4, <1>5, <4>1
    <3>3. CASE left # 0 /\ i = 1
      BY <3>1, <3>3 DEF Filled
    <3>4. CASE left # 0 /\ i # 1
      <4>1. i \in 2 .. Len(r) /\ i \in 1 .. Len(q) /\ o = q[i]
        BY <1>1, <3>1, <3>4 DEF Filled
      <4>. QED
        BY <1>4, <1>5, <3>4, <4>1
    <3>. QED
      BY <3>2, <3>3, <3>4
  <2>4. CASE price # fprice
    <3>1. i \in 1 .. Len(b.queue[fside][price]) /\ o = b.queue[fside][price][i]
      BY <1>1, <2>2, <2>4
    <3>2. o \in B
      BY <1>2, <3>1
    <3>3. Located(b, fside, price, o) /\ Located(b, fside, fprice, q[1])
      BY <1>1, <3>1 DEF Indexed
    <3>. QED
      BY <2>4, <3>2, <3>3 DEF Located
  <2>. QED
    BY <2>3, <2>4
<1>7. ASSUME NEW o \in (B \ {q[1]}) \cup shrunk PROVE o \in C
  <2>1. CASE o \in shrunk
    <3>1. left # 0 /\ o = r[1] /\ 1 \in 1 .. Len(r)
      BY <1>1, <2>1 DEF Filled
    <3>. QED
      BY <1>1, <1>3, <3>1
  <2>2. CASE o \in B \ {q[1]}
    <3>1. PICK price \in Prices : \E i \in 1 .. Len(b.queue[fside][price]) : o = b.queue[fside][price][i]
      BY <1>2, <2>2
    <3>2. PICK i \in 1 .. Len(b.queue[fside][price]) : o = b.queue[fside][price][i]
      BY <3>1
    <3>3. CASE price = fprice
      <4>1. i \in 1 .. Len(q) /\ o = q[i] /\ i # 1
        BY <1>1, <2>2, <3>2, <3>3
      <4>2. CASE left = 0
        <5>1. i - 1 \in 1 .. Len(r) /\ (i - 1) + 1 = i
          BY <1>1, <4>1, <4>2 DEF Filled
        <5>2. r[i-1] = o
          BY <4>1, <4>2, <5>1 DEF Filled
        <5>. QED
          BY <1>1, <1>3, <5>1, <5>2
      <4>3. CASE left # 0
        <5>1. i \in 2 .. Len(r) /\ i \in 1 .. Len(r)
          BY <1>1, <4>1, <4>3 DEF Filled
        <5>2. r[i] = o
          BY <4>1, <4>3, <5>1 DEF Filled
        <5>. QED
          BY <1>1, <1>3, <5>1, <5>2
      <4>. QED
        BY <4>2, <4>3
    <3>4. CASE price # fprice
      <4>1. i \in 1 .. Len(c.queue[fside][price]) /\ o = c.queue[fside][price][i]
        BY <1>1, <3>2, <3>4
      <4>. QED
        BY <1>3, <4>1
    <3>. QED
      BY <3>3, <3>4
  <2>. QED
    BY <1>7, <2>1, <2>2
<1>8. q[1] \in B
  BY <1>1, <1>4
<1>9. C = (B \ {q[1]}) \cup shrunk
  BY <1>6, <1>7
<1>. QED
  BY <1>8, <1>9 DEF B, C

(* A resting order joins its side. *)
LEMMA RestedResting ==
  ASSUME NEW b \in Book, NEW c \in Book, NEW o \in Order, RestedBook(b, c, o)
  PROVE  /\ RestingOn(c, o.side) = RestingOn(b, o.side) \cup {o}
         /\ \A side \in Side : side # o.side => RestingOn(c, side) = RestingOn(b, side)
<1>. DEFINE s == o.side  B == RestingOn(b, s)  C == RestingOn(c, s)
            q == b.queue[s][o.price]  r == c.queue[s][o.price]
<1>1. s \in Side /\ o.price \in Prices
  BY OrderFields
<1>2. q \in Seq(Order) /\ r = Append(q, o)
  BY <1>1 DEF Book, RestedBook
<1>3. \A price \in Prices : price # o.price => c.queue[s][price] = b.queue[s][price]
  BY <1>1 DEF RestedBook
<1>4. \A x : x \in B <=> \E price \in Prices : \E i \in 1 .. Len(b.queue[s][price]) :
                           x = b.queue[s][price][i]
  BY <1>1, RestingMember
<1>5. \A x : x \in C <=> \E price \in Prices : \E i \in 1 .. Len(c.queue[s][price]) :
                           x = c.queue[s][price][i]
  BY <1>1, RestingMember
<1>13. q = b.queue[s][o.price] /\ r = c.queue[s][o.price]
  OBVIOUS
<1>12. ASSUME NEW side \in Side, side # s PROVE RestingOn(c, side) = RestingOn(b, side)
  <2>1. \A price \in Prices : c.queue[side][price] = b.queue[side][price]
    BY <1>12 DEF RestedBook
  <2>. QED
    BY <2>1 DEF RestingOn
<1>. HIDE DEF B, C, q, r, s
<1>6. /\ Len(q) \in Nat /\ Len(r) = Len(q) + 1
      /\ \A i \in 1 .. Len(q) : i \in 1 .. Len(r) /\ r[i] = q[i]
      /\ Len(r) \in 1 .. Len(r) /\ r[Len(r)] = o
      /\ \A i \in 1 .. Len(r) : i \in 1 .. Len(q) \/ i = Len(r)
  BY <1>2, AppendFacts
<1>7. ASSUME NEW x \in C PROVE x \in B \cup {o}
  <2>1. PICK price \in Prices : \E i \in 1 .. Len(c.queue[s][price]) : x = c.queue[s][price][i]
    BY <1>5
  <2>2. CASE price = o.price
    <3>1. \E i \in 1 .. Len(r) : x = r[i]
      BY <1>13, <2>1, <2>2
    <3>2. x = o \/ \E i \in 1 .. Len(q) : x = q[i]
      BY <1>6, <3>1
    <3>. QED
      BY <1>1, <1>4, <1>13, <3>2
  <2>3. CASE price # o.price
    BY <1>3, <1>4, <2>1, <2>3
  <2>. QED
    BY <2>2, <2>3
<1>8. ASSUME NEW x \in B PROVE x \in C
  <2>1. PICK price \in Prices : \E i \in 1 .. Len(b.queue[s][price]) : x = b.queue[s][price][i]
    BY <1>4
  <2>2. CASE price = o.price
    <3>1. \E i \in 1 .. Len(r) : x = r[i]
      BY <1>6, <1>13, <2>1, <2>2
    <3>. QED
      BY <1>1, <1>5, <1>13, <3>1
  <2>3. CASE price # o.price
    BY <1>3, <1>5, <2>1, <2>3
  <2>. QED
    BY <2>2, <2>3
<1>9. o \in C
  BY <1>1, <1>5, <1>6, <1>13
<1>10. C = B \cup {o}
  BY <1>7, <1>8, <1>9
<1>. QED
  BY <1>10, <1>12 DEF B, C, s

\* The place of the order id in the book: its location, level and self.
PlaceOf(b, id, at, q, o) ==
  /\ at = b.order_index[id]
  /\ q = b.queue[at.side][at.price]
  /\ o = q[Position(q, id)]

(* A cancelled order leaves its side. *)
LEMMA CancelledResting ==
  ASSUME NEW b \in Book, NEW c, NEW n \in Nat, Indexed(b), InOrder(b, n),
         NEW id, NEW at, NEW q, NEW o, PlaceOf(b, id, at, q, o),
         Cancelled(b, c, id, at, q)
  PROVE  /\ o \in RestingOn(b, at.side)
         /\ RestingOn(c, at.side) = RestingOn(b, at.side) \ {o}
         /\ \A side \in Side : side # at.side => RestingOn(c, side) = RestingOn(b, side)
<1>. DEFINE s == at.side  B == RestingOn(b, s)  C == RestingOn(c, s)
            k == Position(q, id)
            r == RemoveAt(q, k)
<1>1. s \in Side /\ at.price \in Prices /\ q \in Seq(Order) /\ c \in Book
  BY DEF Cancelled
<1>2. k \in 1 .. Len(q) /\ o = q[k]
  BY DEF Cancelled, PlaceOf
<1>3. /\ \A side \in Side, price \in Prices :
           c.queue[side][price] = IF side = s /\ price = at.price
                                  THEN r ELSE b.queue[side][price]
  BY DEF Cancelled, CancelledBook, PlaceOf
<1>4. \A x : x \in B <=> \E price \in Prices : \E i \in 1 .. Len(b.queue[s][price]) :
                           x = b.queue[s][price][i]
  BY <1>1, RestingMember
<1>5. \A x : x \in C <=> \E price \in Prices : \E i \in 1 .. Len(c.queue[s][price]) :
                           x = c.queue[s][price][i]
  BY <1>1, RestingMember
<1>6. q = b.queue[s][at.price]
  BY DEF PlaceOf
<1>7. ByArrival(q) /\ \A side \in Side, price \in Prices :
        \A i \in 1 .. Len(b.queue[side][price]) : Located(b, side, price, b.queue[side][price][i])
  BY <1>1, <1>6 DEF InOrder, Indexed
<1>8. ASSUME NEW side \in Side, side # s PROVE RestingOn(c, side) = RestingOn(b, side)
  <2>1. \A price \in Prices : c.queue[side][price] = b.queue[side][price]
    BY <1>3, <1>8
  <2>. QED
    BY <2>1 DEF RestingOn
<1>. HIDE DEF B, C, k, s
<1>9. /\ Len(q) \in Nat /\ Len(r) = Len(q) - 1
      /\ \A j \in 1 .. Len(r) : r[j] = q[IF j < k THEN j ELSE j + 1]
  BY <1>1, <1>2, RemoveAtFacts
<1>. HIDE DEF r
<1>10. \A i \in 1 .. Len(q) : i # k => q[i] # o
  <2>. SUFFICES ASSUME NEW i \in 1 .. Len(q), i # k PROVE q[i] # q[k]
    BY <1>2
  <2>1. q[i] \in Order /\ q[k] \in Order /\ (i < k \/ k < i)
    BY <1>1, <1>2, <1>9
  <2>2. q[i].id \in Nat /\ q[k].id \in Nat
    BY <2>1, OrderFields
  <2>3. q[i].id < q[k].id \/ q[k].id < q[i].id
    BY <1>2, <1>7, <2>1 DEF ByArrival
  <2>. QED
    BY <2>2, <2>3
<1>11. o \in B
  BY <1>1, <1>2, <1>4, <1>6
<1>12. ASSUME NEW x \in C PROVE x \in B \ {o}
  <2>1. PICK price \in Prices : \E i \in 1 .. Len(c.queue[s][price]) : x = c.queue[s][price][i]
    BY <1>5
  <2>2. CASE price = at.price
    <3>1. PICK j \in 1 .. Len(r) : x = r[j]
      BY <1>1, <1>3, <2>1, <2>2
    <3>. DEFINE i == IF j < k THEN j ELSE j + 1
    <3>2. i \in 1 .. Len(q) /\ i # k
      BY <1>2, <1>9, <3>1
    <3>3. x = q[i]
      BY <1>9, <3>1
    <3>. HIDE DEF i
    <3>. QED
      BY <1>1, <1>4, <1>6, <1>10, <3>2, <3>3
  <2>3. CASE price # at.price
    <3>1. PICK i \in 1 .. Len(b.queue[s][price]) : x = b.queue[s][price][i]
      BY <1>1, <1>3, <2>1, <2>3
    <3>2. Located(b, s, price, x) /\ Located(b, s, at.price, o)
      BY <1>1, <1>2, <1>6, <1>7, <3>1
    <3>3. x # o
      BY <2>3, <3>2 DEF Located
    <3>. QED
      BY <1>4, <3>1, <3>3
  <2>. QED
    BY <2>2, <2>3
<1>13. ASSUME NEW x \in B \ {o} PROVE x \in C
  <2>1. PICK price \in Prices : \E i \in 1 .. Len(b.queue[s][price]) : x = b.queue[s][price][i]
    BY <1>4
  <2>2. CASE price = at.price
    <3>1. PICK i \in 1 .. Len(q) : x = q[i]
      BY <1>6, <2>1, <2>2
    <3>. DEFINE j == IF i < k THEN i ELSE i - 1
    <3>2. i # k
      BY <1>2, <3>1, <1>13
    <3>3. j \in 1 .. Len(r) /\ (IF j < k THEN j ELSE j + 1) = i
      BY <1>2, <1>9, <3>1, <3>2
    <3>. HIDE DEF j
    <3>4. r[j] = x
      BY <1>9, <3>1, <3>3
    <3>. QED
      BY <1>1, <1>3, <1>5, <3>3, <3>4
  <2>3. CASE price # at.price
    BY <1>1, <1>3, <1>5, <2>1, <2>3
  <2>. QED
    BY <2>2, <2>3
<1>14. C = B \ {o}
  BY <1>12, <1>13
<1>. QED
  BY <1>8, <1>11, <1>14 DEF B, C, s

-----------------------------------------------------------------------------
(* The aggregate quantity of a level.                                      *)

(* The terms LevelTotal adds up. *)
LEMMA LevelTerms ==
  ASSUME NEW q \in Seq(Order), NEW e, e = [i \in 1 .. Len(q) |-> q[i].remaining_size]
  PROVE  Len(q) \in Nat /\ e \in [1 .. Len(q) -> Nat] /\ e \in [1 .. Len(q) -> Int]
<1>1. \A i \in 1 .. Len(q) : q[i] \in Order
  OBVIOUS
<1>2. \A i \in 1 .. Len(q) : q[i].remaining_size \in Nat
  BY <1>1, OrderFields
<1>. QED
  BY <1>2

(* A level of a book in order has something to sell. *)
LEMMA LevelPositive ==
  ASSUME NEW b \in Book, NEW n \in Nat, InOrder(b, n), NEW side \in Side,
         NEW p \in Levels(b, side)
  PROVE  LevelTotal(b, side, p) > 0
<1>. DEFINE q == b.queue[side][p]
            e == [i \in 1 .. Len(q) |-> q[i].remaining_size]
<1>1. p \in Prices /\ q # << >>
  BY DEF Levels
<1>2. q \in Seq(Order) /\ \A i \in 1 .. Len(q) : Live(q[i], n)
  BY <1>1 DEF Book, InOrder
<1>3. LevelTotal(b, side, p) = SumTo(e, Len(q))
  BY DEF LevelTotal
<1>. HIDE DEF q
<1>4. Len(q) \in Nat /\ Len(q) > 0 /\ 1 \in 1 .. Len(q)
  BY <1>1, <1>2
<1>5. e \in [1 .. Len(q) -> Nat]
  BY <1>2, LevelTerms
<1>6. e[1] > 0
  BY <1>2, <1>4 DEF Live
<1>. HIDE DEF e
<1>7. SumTo(e, Len(q)) \in Nat /\ SumTo(e, Len(q)) >= e[1] /\ e[1] \in Nat
  BY <1>4, <1>5, SumOfNats
<1>. QED
  BY <1>3, <1>6, <1>7

(* A fill takes its quantity off its level. *)
LEMMA FilledQty ==
  ASSUME NEW q \in Seq(Order), NEW r \in Seq(Order), NEW left \in Nat,
         Len(q) > 0, Filled(q, r, left), NEW qty \in Nat,
         qty = q[1].remaining_size - left
  PROVE  SumTo([i \in 1 .. Len(r) |-> r[i].remaining_size], Len(r)) =
           SumTo([i \in 1 .. Len(q) |-> q[i].remaining_size], Len(q)) - qty
<1>. DEFINE e == [i \in 1 .. Len(q) |-> q[i].remaining_size]
            g == [i \in 1 .. Len(r) |-> r[i].remaining_size]
<1>1. /\ Len(q) \in Nat /\ e \in [1 .. Len(q) -> Int]
      /\ Len(r) \in Nat /\ g \in [1 .. Len(r) -> Int]
      /\ q[1] \in Order /\ 1 \in 1 .. Len(q)
  <2>1. Len(q) \in Nat /\ e \in [1 .. Len(q) -> Int]
    BY LevelTerms
  <2>2. Len(r) \in Nat /\ g \in [1 .. Len(r) -> Int]
    BY LevelTerms
  <2>. HIDE DEF e, g
  <2>. QED
    BY <2>1, <2>2
<1>2. \A i \in 1 .. Len(q) : e[i] = q[i].remaining_size
  OBVIOUS
<1>3. \A i \in 1 .. Len(r) : g[i] = r[i].remaining_size
  OBVIOUS
<1>4. q[1].remaining_size \in Nat
  BY <1>1, OrderFields
<1>. HIDE DEF e, g
<1>5. CASE left = 0
  <2>1. Len(r) + 1 = Len(q) /\ \A i \in 1 .. Len(r) : r[i] = q[i+1] /\ i + 1 \in 1 .. Len(q)
    BY <1>1, <1>5 DEF Filled
  <2>2. \A i \in 1 .. Len(r) : g[i] = e[i+1]
    BY <1>2, <1>3, <2>1
  <2>. DEFINE n == Len(r)
  <2>3. n \in Nat /\ e \in [1 .. n+1 -> Int] /\ g \in [1 .. n -> Int] /\ \A i \in 1 .. n : g[i] = e[i+1]
    BY <1>1, <2>1, <2>2
  <2>. HIDE DEF n
  <2>4. SumTo(g, n) = SumTo(e, n+1) - e[1]
    BY <2>3, SumTail
  <2>. QED
    BY <1>1, <1>2, <1>4, <1>5, <2>1, <2>4 DEF e, g, n
<1>6. CASE left # 0
  <2>1. Len(r) = Len(q) /\ r[1] = WithRemaining(q[1], left) /\ \A i \in 2 .. Len(r) : r[i] = q[i]
    BY <1>6 DEF Filled
  <2>2. r[1].remaining_size = left
    <3>. DEFINE o == WithRemaining(q[1], left)
    <3>1. o.remaining_size = left
      BY <1>1, WithRemainingFacts
    <3>. HIDE DEF o
    <3>2. r[1] = o
      BY <2>1 DEF o
    <3>. QED
      BY <3>1, <3>2
  <2>3. g[1] = left /\ e[1] = q[1].remaining_size
    BY <1>1, <1>2, <1>3, <2>1, <2>2
  <2>4. ASSUME NEW i \in 1 .. Len(q), i # 1 PROVE g[i] = e[i]
    <3>1. i \in 2 .. Len(r) /\ i \in 1 .. Len(r)
      BY <1>1, <2>1, <2>4
    <3>. QED
      BY <1>2, <1>3, <2>1, <3>1
  <2>5. SumTo(g, Len(q)) = SumTo(e, Len(q)) + (g[1] - e[1])
    <3>. DEFINE n == Len(q)
    <3>1. /\ n \in Nat /\ 1 \in 1 .. n /\ e \in [1 .. n -> Int] /\ g \in [1 .. n -> Int]
          /\ \A i \in 1 .. n : i # 1 => g[i] = e[i]
      BY <1>1, <2>1, <2>4
    <3>. HIDE DEF n
    <3>2. SumTo(g, n) = SumTo(e, n) + (g[1] - e[1])
      BY <3>1, SumChange
    <3>. QED
      BY <3>2 DEF n
  <2>6. SumTo(e, Len(q)) \in Int
    <3>1. Len(q) \in 0 .. Len(q)
      BY <1>1
    <3>. QED
      BY <1>1, <3>1, SumOver
  <2>7. SumTo(g, Len(r)) = SumTo(e, Len(q)) - qty
    BY <1>4, <2>1, <2>3, <2>5, <2>6
  <2>. QED
    BY <2>7 DEF e, g
<1>. QED
  BY <1>5, <1>6

-----------------------------------------------------------------------------
(* The walk of market_buy_cost.                                            *)

\* A step of the walk off the units of each level, and the walk's cost: what
\* market_buy_cost does to a book whose levels of asks fit a u64.
TotalStep(b, w) ==
  IF w.ahead = {} THEN w
  ELSE LET price == Min(w.ahead)
           take  == Min({w.remaining, LevelTotal(b, "Ask", price)})
       IN  [cost      |-> w.cost + price * take,
            remaining |-> w.remaining - take,
            ahead     |-> w.ahead \ {price}]
TotalCost(b, size) ==
  Loop([n \in Nat |-> [w \in WalkState |-> TotalStep(b, w)]],
       [cost |-> 0, remaining |-> size, ahead |-> Levels(b, "Ask")])[size].cost

Walk(b, w) == Loop([n \in Nat |-> [x \in WalkState |-> TotalStep(b, x)]], w)

\* What the level at price yields to the walk w, and the walk after it.
Yield(b, w, price) ==
  IF w.remaining <= LevelTotal(b, "Ask", price) THEN w.remaining ELSE LevelTotal(b, "Ask", price)
After(b, w, price) ==
  [cost |-> w.cost + price * Yield(b, w, price), remaining |-> w.remaining - Yield(b, w, price),
   ahead |-> w.ahead \ {price}]

(* A step of the walk takes from the cheapest level ahead as much as it    *)
(* has and is still wanted.                                                *)
LEMMA WalkStepTakes ==
  ASSUME NEW b \in Book, NEW w \in WalkState, NEW price \in w.ahead,
         \A p \in w.ahead : price <= p
  PROVE  /\ price \in Nat /\ LevelTotal(b, "Ask", price) \in Nat
         /\ Yield(b, w, price) \in Nat /\ price * Yield(b, w, price) \in Nat
         /\ Yield(b, w, price) <= w.remaining
         /\ TotalStep(b, w) = After(b, w, price)
         /\ After(b, w, price) \in WalkState
<1>. DEFINE qty == LevelTotal(b, "Ask", price)  take == Yield(b, w, price)
<1>1. w.ahead \in SUBSET Prices /\ w.remaining \in Nat /\ w.cost \in Nat
  BY DEF WalkState
<1>2. price \in Prices /\ price \in Nat /\ \A p \in w.ahead : p \in Nat
  BY <1>1, PricesAssumption
<1>3. qty \in Nat
  BY <1>2, LevelTotalType DEF Side
<1>11. take = IF w.remaining <= qty THEN w.remaining ELSE qty
  BY DEF Yield
<1>4. Min(w.ahead) = price
  <2>1. \A x \in w.ahead : (\A p \in w.ahead : x <= p) => x = price
    BY <1>2
  <2>2. Min(w.ahead) \in w.ahead /\ \A p \in w.ahead : Min(w.ahead) <= p
    BY DEF Min
  <2>. QED
    BY <2>1, <2>2
<1>8. TotalStep(b, w) = [cost |-> w.cost + price * Min({w.remaining, qty}),
                        remaining |-> w.remaining - Min({w.remaining, qty}),
                        ahead |-> w.ahead \ {price}]
  BY <1>4 DEF TotalStep
<1>. HIDE DEF qty, take
<1>5. /\ Min({w.remaining, qty}) \in Nat
      /\ Min({w.remaining, qty}) <= w.remaining /\ Min({w.remaining, qty}) <= qty
      /\ Min({w.remaining, qty}) = w.remaining \/ Min({w.remaining, qty}) = qty
  BY <1>1, <1>3, MinTwo
<1>6. take = Min({w.remaining, qty}) /\ take \in Nat /\ take <= w.remaining
  BY <1>1, <1>3, <1>5, <1>11
<1>7. price * take \in Nat
  BY <1>2, <1>6
<1>9. w.cost + price * take \in Nat /\ w.remaining - take \in Nat /\ w.ahead \ {price} \in SUBSET Prices
  BY <1>1, <1>6, <1>7
<1>12. After(b, w, price) = [cost |-> w.cost + price * take, remaining |-> w.remaining - take,
                             ahead |-> w.ahead \ {price}]
  BY DEF After, take
<1>10. After(b, w, price) \in WalkState
  BY <1>9, <1>12 DEF WalkState
<1>13. TotalStep(b, w) = After(b, w, price)
  BY <1>6, <1>8, <1>12
<1>. QED
  BY <1>2, <1>3, <1>6, <1>7, <1>10, <1>13 DEF qty, take

(* The cheapest level ahead. *)
LEMMA CheapestAhead ==
  ASSUME NEW w \in WalkState, w.ahead # {}
  PROVE  \E price \in w.ahead : \A p \in w.ahead : price <= p
  BY PricesAssumption, LeastNat DEF WalkState

(* A step of the walk gives a state of the walk again. *)
LEMMA WalkStepType ==
  ASSUME NEW b \in Book, NEW w \in WalkState
  PROVE  TotalStep(b, w) \in WalkState
<1>1. CASE w.ahead = {}
  BY <1>1 DEF TotalStep
<1>2. CASE w.ahead # {}
  <2>1. PICK price \in w.ahead : \A p \in w.ahead : price <= p
    BY <1>2, CheapestAhead
  <2>. QED
    BY <2>1, WalkStepTakes
<1>. QED
  BY <1>1, <1>2

(* The walk, step by step. *)
LEMMA WalkDef ==
  ASSUME NEW b \in Book, NEW w \in WalkState
  PROVE  /\ Walk(b, w) \in [Nat -> WalkState]
         /\ Walk(b, w)[0] = w
         /\ \A k \in Nat : Walk(b, w)[k+1] = TotalStep(b, Walk(b, w)[k])
<1>. DEFINE F == [n \in Nat |-> [x \in WalkState |-> TotalStep(b, x)]]
<1>1. F \in [Nat -> [WalkState -> WalkState]]
  BY WalkStepType
<1>2. \A k \in Nat, x \in WalkState : F[k][x] = TotalStep(b, x)
  OBVIOUS
<1>. HIDE DEF F
<1>3. /\ Loop(F, w) \in [Nat -> WalkState]
      /\ Loop(F, w)[0] = w
      /\ \A k \in Nat : Loop(F, w)[k+1] = F[k+1][Loop(F, w)[k]]
  BY <1>1, LoopDef
<1>4. Walk(b, w) = Loop(F, w)
  BY DEF Walk, F
<1>5. ASSUME NEW k \in Nat PROVE Walk(b, w)[k+1] = TotalStep(b, Walk(b, w)[k])
  <2>1. k + 1 \in Nat /\ Loop(F, w)[k] \in WalkState
    BY <1>3
  <2>. QED
    BY <1>2, <1>3, <1>4, <2>1
<1>. QED
  BY <1>3, <1>4, <1>5

(* The first step may be taken apart. *)
LEMMA WalkShift ==
  ASSUME NEW b \in Book, NEW w \in WalkState
  PROVE  \A k \in Nat : Walk(b, w)[k+1] = Walk(b, TotalStep(b, w))[k]
<1>. DEFINE x == TotalStep(b, w)
            A == Walk(b, w)  B == Walk(b, x)
            U == {k \in Nat : A[k+1] = B[k]}
<1>1. x \in WalkState
  BY WalkStepType
<1>2. A[0] = w /\ \A k \in Nat : A[k+1] = TotalStep(b, A[k])
  BY WalkDef
<1>. HIDE DEF x
<1>3. B[0] = x /\ \A k \in Nat : B[k+1] = TotalStep(b, B[k])
  BY <1>1, WalkDef
<1>. HIDE DEF A, B
<1>4. 0 \in U
  BY <1>2, <1>3 DEF x
<1>5. ASSUME NEW k \in U PROVE k + 1 \in U
  <2>1. k \in Nat /\ k + 1 \in Nat /\ A[k+1] = B[k]
    OBVIOUS
  <2>2. A[(k+1)+1] = TotalStep(b, A[k+1]) /\ B[k+1] = TotalStep(b, B[k])
    BY <1>2, <1>3, <2>1
  <2>. QED
    BY <2>1, <2>2
<1>6. U = Nat
  BY <1>4, <1>5, SetInduction
<1>. QED
  BY <1>6 DEF A, B, x

\* Two walks with the same way to go, the first d ahead in cost.
SameWay(b, c, x, y, d) ==
  /\ x \in WalkState /\ y \in WalkState
  /\ x.ahead = y.ahead /\ x.remaining = y.remaining /\ x.cost = y.cost + d
  /\ \A p \in x.ahead : LevelTotal(b, "Ask", p) = LevelTotal(c, "Ask", p)

(* They stay d apart. *)
LEMMA WalkSame ==
  ASSUME NEW b \in Book, NEW c \in Book, NEW v, NEW w, NEW d \in Int, SameWay(b, c, v, w, d)
  PROVE  \A k \in Nat : Walk(b, v)[k].cost = Walk(c, w)[k].cost + d
<1>. DEFINE A == Walk(b, v)  B == Walk(c, w)
            U == {k \in Nat : SameWay(b, c, A[k], B[k], d)}
<1>1. A[0] = v /\ \A k \in Nat : A[k+1] = TotalStep(b, A[k])
  BY WalkDef DEF SameWay
<1>2. B[0] = w /\ \A k \in Nat : B[k+1] = TotalStep(c, B[k])
  BY WalkDef DEF SameWay
<1>. HIDE DEF A, B
<1>3. ASSUME NEW x, NEW y, SameWay(b, c, x, y, d)
      PROVE  SameWay(b, c, TotalStep(b, x), TotalStep(c, y), d)
  <2>1. /\ x \in WalkState /\ y \in WalkState
        /\ x.ahead = y.ahead /\ x.remaining = y.remaining /\ x.cost = y.cost + d
        /\ \A p \in x.ahead : LevelTotal(b, "Ask", p) = LevelTotal(c, "Ask", p)
    BY <1>3 DEF SameWay
  <2>2. CASE x.ahead = {}
    BY <1>3, <2>1, <2>2 DEF TotalStep
  <2>3. CASE x.ahead # {}
    <3>1. PICK price \in x.ahead : \A p \in x.ahead : price <= p
      BY <2>1, <2>3, CheapestAhead
    <3>. DEFINE take == Yield(b, x, price)
                gx == After(b, x, price)  gy == After(c, y, price)
    <3>2. price * take \in Nat /\ TotalStep(b, x) = gx /\ gx \in WalkState
      BY <2>1, <3>1, WalkStepTakes
    <3>3. price \in y.ahead /\ (\A p \in y.ahead : price <= p)
          /\ take = Yield(c, y, price)
      BY <2>1, <3>1 DEF Yield
    <3>4. TotalStep(c, y) = gy /\ gy \in WalkState
      BY <2>1, <3>3, WalkStepTakes
    <3>5. gx.ahead = gy.ahead /\ gx.remaining = gy.remaining
          /\ \A p \in gx.ahead : LevelTotal(b, "Ask", p) = LevelTotal(c, "Ask", p)
      BY <2>1, <3>3 DEF After
    <3>6. gx.cost = gy.cost + d
      <4>1. x.cost \in Nat /\ y.cost \in Nat
        BY <2>1 DEF WalkState
      <4>. DEFINE m == price * take
      <4>2. m \in Nat
        BY <3>2
      <4>3. gx.cost = x.cost + m /\ gy.cost = y.cost + m
        BY <3>3 DEF After
      <4>. HIDE DEF m, gx, gy
      <4>. QED
        BY <2>1, <4>1, <4>2, <4>3
    <3>. HIDE DEF gx, gy
    <3>. QED
      BY <3>2, <3>4, <3>5, <3>6 DEF SameWay
  <2>. QED
    BY <2>2, <2>3
<1>4. 0 \in U
  BY <1>1, <1>2
<1>5. ASSUME NEW k \in U PROVE k + 1 \in U
  <2>1. k \in Nat /\ k + 1 \in Nat /\ SameWay(b, c, A[k], B[k], d)
    OBVIOUS
  <2>2. A[k+1] = TotalStep(b, A[k]) /\ B[k+1] = TotalStep(c, B[k])
    BY <1>1, <1>2, <2>1
  <2>3. SameWay(b, c, A[k+1], B[k+1], d)
    BY <1>3, <2>1, <2>2
  <2>. QED
    BY <2>1, <2>3
<1>6. U = Nat
  BY <1>4, <1>5, SetInduction
<1>7. ASSUME NEW k \in Nat PROVE A[k].cost = B[k].cost + d
  <2>1. SameWay(b, c, A[k], B[k], d)
    BY <1>6
  <2>. QED
    BY <2>1 DEF SameWay
<1>. QED
  BY <1>7 DEF A, B

(* Every level ahead yields something, so as many steps as units are       *)
(* wanted end the walk; further steps cost nothing.                        *)
LEMMA WalkStable ==
  ASSUME NEW b \in Book, NEW w \in WalkState,
         \A p \in w.ahead : LevelTotal(b, "Ask", p) > 0,
         NEW k \in Nat, k >= w.remaining
  PROVE  Walk(b, w)[k].cost = Walk(b, w)[w.remaining].cost
<1>. DEFINE A == Walk(b, w)  n == w.remaining
            Over(x) == x.remaining = 0 \/ x.ahead = {}
            Good(x, j) == /\ x \in WalkState /\ x.ahead \subseteq w.ahead
                          /\ Over(x) \/ x.remaining + j <= n
            U == {j \in Nat : Good(A[j], j)}
            V == {j \in Nat : A[n+j].cost = A[n].cost}
<1>1. A[0] = w /\ \A j \in Nat : A[j+1] = TotalStep(b, A[j])
  BY WalkDef
<1>2. n \in Nat
  BY DEF WalkState
<1>. HIDE DEF A
<1>3. ASSUME NEW x \in WalkState, NEW j \in Nat, Good(x, j)
      PROVE  Good(TotalStep(b, x), j + 1) /\ (Over(x) => TotalStep(b, x).cost = x.cost)
  <2>1. CASE x.ahead = {}
    BY <1>3, <2>1 DEF TotalStep
  <2>2. CASE x.ahead # {}
    <3>1. PICK price \in x.ahead : \A p \in x.ahead : price <= p
      BY <2>2, CheapestAhead
    <3>. DEFINE qty == LevelTotal(b, "Ask", price)
                take == Yield(b, x, price)
                g == After(b, x, price)
    <3>2. /\ price \in Nat /\ qty \in Nat /\ take \in Nat /\ take <= x.remaining
          /\ TotalStep(b, x) = g /\ g \in WalkState
      BY <3>1, WalkStepTakes
    <3>3. x.remaining \in Nat /\ x.cost \in Nat
      BY DEF WalkState
    <3>4. qty > 0
      BY <1>3, <3>1
    <3>5. g.remaining = x.remaining - take /\ g.ahead \subseteq w.ahead
          /\ g.cost = x.cost + price * take
      BY <1>3 DEF After
    <3>6. x.remaining = 0 => take = 0
      BY <3>2, <3>3
    <3>7. take = x.remaining \/ take >= 1
      BY <3>2, <3>3, <3>4 DEF Yield
    <3>. HIDE DEF g, qty, take
    <3>8. x.remaining = 0 => g.cost = x.cost
      BY <3>2, <3>3, <3>5, <3>6
    <3>9. g.remaining = 0 \/ g.remaining + (j + 1) <= n
      BY <1>2, <1>3, <2>2, <3>2, <3>3, <3>5, <3>7
    <3>. QED
      BY <2>2, <3>2, <3>5, <3>8, <3>9
  <2>. QED
    BY <2>1, <2>2
<1>4. 0 \in U
  BY <1>1, <1>2
<1>. HIDE DEF Over
<1>5. ASSUME NEW j \in U PROVE j + 1 \in U
  <2>1. j \in Nat /\ A[j] \in WalkState /\ Good(A[j], j) /\ A[j+1] = TotalStep(b, A[j])
    BY <1>1
  <2>. HIDE DEF Good
  <2>2. Good(A[j+1], j + 1)
    BY <1>3, <2>1
  <2>. QED
    BY <2>1, <2>2
<1>6. U = Nat
  BY <1>4, <1>5, SetInduction
<1>7. ASSUME NEW j \in Nat, j >= n PROVE A[j+1].cost = A[j].cost
  <2>1. Good(A[j], j) /\ A[j] \in WalkState
    BY <1>6
  <2>2. A[j].remaining \in Nat
    BY <2>1 DEF WalkState
  <2>3. Over(A[j])
    BY <1>2, <1>7, <2>1, <2>2 DEF Over
  <2>. HIDE DEF Good
  <2>. QED
    BY <1>1, <1>3, <2>1, <2>3
<1>8. 0 \in V
  BY <1>2
<1>9. ASSUME NEW j \in V PROVE j + 1 \in V
  <2>1. j \in Nat /\ n + j \in Nat /\ n + j >= n /\ n + (j + 1) = (n + j) + 1
        /\ A[n+j].cost = A[n].cost
    BY <1>2
  <2>2. A[(n+j)+1].cost = A[n+j].cost
    BY <1>7, <2>1
  <2>. QED
    BY <2>1, <2>2
<1>10. V = Nat
  BY <1>8, <1>9, SetInduction
<1>11. k - n \in V /\ n + (k - n) = k
  BY <1>2, <1>10
<1>. QED
  BY <1>11 DEF A

\* The walk's first state.
WalkStart(b, size) == [cost |-> 0, remaining |-> size, ahead |-> Levels(b, "Ask")]

(* The cost is that of size steps from the first state. *)
LEMMA WalkStartFacts ==
  ASSUME NEW b \in Book, NEW size \in Nat
  PROVE  /\ WalkStart(b, size) \in WalkState
         /\ WalkStart(b, size).cost = 0
         /\ WalkStart(b, size).remaining = size
         /\ WalkStart(b, size).ahead = Levels(b, "Ask")
         /\ TotalCost(b, size) = Walk(b, WalkStart(b, size))[size].cost
<1>1. TotalCost(b, size) = Walk(b, WalkStart(b, size))[size].cost
  BY DEF TotalCost, Walk, WalkStart
<1>. QED
  BY <1>1 DEF WalkStart, WalkState, Levels

(* The cost of a walk is a natural. *)
LEMMA TotalCostType ==
  ASSUME NEW b \in Book, NEW size \in Nat
  PROVE  TotalCost(b, size) \in Nat
<1>. DEFINE v == WalkStart(b, size)
<1>1. v \in WalkState /\ TotalCost(b, size) = Walk(b, v)[size].cost
  BY WalkStartFacts
<1>. HIDE DEF v
<1>2. Walk(b, v)[size] \in WalkState
  BY <1>1, WalkDef
<1>. QED
  BY <1>1, <1>2 DEF WalkState

(* market_buy_cost is that cost as long as its u64 sums do not wrap round.  *)
LEMMA CostOfAsks ==
  ASSUME NEW b \in Book, AsksFit(b), NEW size
  PROVE  MarketBuyCost(b, size) = TotalCost(b, size)
<1>1. ASSUME NEW w \in WalkState PROVE WalkStep(b, w) = TotalStep(b, w)
  <2>1. CASE w.ahead = {}
    BY <2>1 DEF WalkStep, TotalStep
  <2>2. CASE w.ahead # {}
    <3>1. w.ahead \in SUBSET Prices /\ "Ask" \in Side
      BY DEF WalkState, Side
    <3>2. PICK price \in w.ahead : \A p \in w.ahead : price <= p
      BY <2>2, CheapestAhead
    <3>3. Min(w.ahead) \in w.ahead
      BY <3>2 DEF Min
    <3>. DEFINE p == Min(w.ahead)
    <3>4. p \in Prices
      BY <3>1, <3>3
    <3>5. WalkStep(b, w) = [cost      |-> w.cost + p * Min({w.remaining, LevelQty(b, "Ask", p)}),
                            remaining |-> w.remaining - Min({w.remaining, LevelQty(b, "Ask", p)}),
                            ahead     |-> w.ahead \ {p}]
      BY <2>2 DEF WalkStep
    <3>6. TotalStep(b, w) = [cost      |-> w.cost + p * Min({w.remaining, LevelTotal(b, "Ask", p)}),
                             remaining |-> w.remaining - Min({w.remaining, LevelTotal(b, "Ask", p)}),
                             ahead     |-> w.ahead \ {p}]
      BY <2>2 DEF TotalStep
    <3>. HIDE DEF p
    <3>7. Fits(LevelTotal(b, "Ask", p))
      BY <3>4 DEF AsksFit
    <3>8. LevelQty(b, "Ask", p) = LevelTotal(b, "Ask", p)
      BY <3>1, <3>4, <3>7, LevelQtyType
    <3>. QED
      BY <3>5, <3>6, <3>8
  <2>. QED
    BY <2>1, <2>2
<1>2. [n \in Nat |-> [w \in WalkState |-> WalkStep(b, w)]] =
        [n \in Nat |-> [w \in WalkState |-> TotalStep(b, w)]]
  <2>1. [w \in WalkState |-> WalkStep(b, w)] = [w \in WalkState |-> TotalStep(b, w)]
    BY <1>1
  <2>. QED
    BY <2>1
<1>. QED
  BY <1>2 DEF MarketBuyCost, TotalCost

(* Filling qty off the cheapest asks takes its price off the cost of what  *)
(* is still wanted: the walk over the book before the fill costs that much *)
(* more than the walk over the book after it.                              *)
LEMMA FillWalk ==
  ASSUME NEW b \in Book, NEW c \in Book, NEW n \in Nat, InOrder(b, n), InOrder(c, n),
         NEW p \in Levels(b, "Ask"), \A x \in Levels(b, "Ask") : p <= x,
         NEW q \in Seq(Order), NEW r \in Seq(Order), NEW left \in Nat,
         Len(q) > 0, Filled(q, r, left), FilledBook(b, c, "Ask", p, q, r, left),
         NEW size \in Nat, NEW qty \in Nat, 0 < qty, qty <= size,
         left + qty = q[1].remaining_size
  PROVE  TotalCost(b, size) = p * qty + TotalCost(c, size - qty)
<1>. DEFINE L == LevelTotal(b, "Ask", p)  M == LevelTotal(c, "Ask", p)
            v == WalkStart(b, size)  w == WalkStart(c, size - qty)
            T == Yield(b, v, p)  d == p * qty
<1>1. p \in Prices /\ p \in Nat /\ "Ask" \in Side /\ size - qty \in Nat
  BY PricesAssumption DEF Levels, Side
<1>2. L \in Nat /\ M \in Nat
  BY <1>1, LevelTotalType
<1>3. M = L - qty
  <2>. DEFINE e == [i \in 1 .. Len(q) |-> q[i].remaining_size]
              g == [i \in 1 .. Len(r) |-> r[i].remaining_size]
  <2>1. b.queue["Ask"][p] = q /\ c.queue["Ask"][p] = r
    BY <1>1 DEF FilledBook
  <2>2. L = SumTo(e, Len(q)) /\ M = SumTo(g, Len(r))
    BY <2>1 DEF LevelTotal
  <2>3. q[1] \in Order
    OBVIOUS
  <2>4. q[1].remaining_size \in Nat
    BY <2>3, OrderFields
  <2>5. qty = q[1].remaining_size - left
    BY <2>4
  <2>6. SumTo(g, Len(r)) = SumTo(e, Len(q)) - qty
    BY <2>5, FilledQty
  <2>. HIDE DEF L, M, e, g
  <2>. QED
    BY <2>2, <2>6
<1>4. ASSUME NEW x \in Prices, x # p
      PROVE  /\ LevelTotal(b, "Ask", x) = LevelTotal(c, "Ask", x)
             /\ x \in Levels(b, "Ask") => x \in Levels(c, "Ask")
             /\ x \in Levels(c, "Ask") => x \in Levels(b, "Ask")
  <2>1. c.queue["Ask"][x] = b.queue["Ask"][x]
    BY <1>1, <1>4 DEF FilledBook
  <2>. QED
    BY <2>1 DEF LevelTotal, Levels
<1>5. Levels(c, "Ask") \ {p} = Levels(b, "Ask") \ {p}
  <2>1. ASSUME NEW x PROVE x \in Levels(c, "Ask") \ {p} <=> x \in Levels(b, "Ask") \ {p}
    <3>1. x \in Levels(c, "Ask") \/ x \in Levels(b, "Ask") => x \in Prices
      BY DEF Levels
    <3>. QED
      BY <1>4, <3>1
  <2>. QED
    BY <2>1
<1>6. /\ v \in WalkState /\ v.cost = 0 /\ v.remaining = size /\ v.ahead = Levels(b, "Ask")
      /\ TotalCost(b, size) = Walk(b, v)[size].cost
  BY WalkStartFacts
<1>7. /\ w \in WalkState /\ w.cost = 0 /\ w.remaining = size - qty /\ w.ahead = Levels(c, "Ask")
      /\ TotalCost(c, size - qty) = Walk(c, w)[size - qty].cost
  BY <1>1, WalkStartFacts
<1>. HIDE DEF v, w
<1>8. /\ T \in Nat /\ p * T \in Nat /\ TotalStep(b, v) = After(b, v, p) /\ After(b, v, p) \in WalkState
  BY <1>6, WalkStepTakes
<1>9. T = IF size <= L THEN size ELSE L
  BY <1>6 DEF Yield
<1>10. d \in Nat
  BY <1>1
<1>11. \A k \in Nat : Walk(b, v)[k+1] = Walk(b, After(b, v, p))[k]
  <2>1. \A k \in Nat : Walk(b, v)[k+1] = Walk(b, TotalStep(b, v))[k]
    BY <1>6, WalkShift
  <2>. QED
    BY <1>8, <2>1
<1>12. /\ After(b, v, p).cost = p * T
       /\ After(b, v, p).remaining = size - T
       /\ After(b, v, p).ahead = Levels(b, "Ask") \ {p}
  BY <1>6, <1>8 DEF After
<1>13. size - 1 \in Nat /\ (size - 1) + 1 = size
  OBVIOUS
<1>14. TotalCost(b, size) = Walk(b, After(b, v, p))[size - 1].cost
  BY <1>6, <1>11, <1>13
<1>15. \A x \in w.ahead : LevelTotal(c, "Ask", x) > 0
  BY <1>1, <1>7, LevelPositive
<1>16. \A k \in Nat : k >= size - qty => Walk(c, w)[k].cost = TotalCost(c, size - qty)
  <2>1. \A k \in Nat : k >= w.remaining => Walk(c, w)[k].cost = Walk(c, w)[w.remaining].cost
    BY <1>7, <1>15, WalkStable
  <2>. QED
    BY <1>7, <2>1
<1>. HIDE DEF L, M, T, d
<1>17. ASSUME NEW y, SameWay(b, c, After(b, v, p), y, d),
              Walk(c, y)[size - 1].cost = TotalCost(c, size - qty)
       PROVE  TotalCost(b, size) = d + TotalCost(c, size - qty)
  <2>1. Walk(b, After(b, v, p))[size - 1].cost = Walk(c, y)[size - 1].cost + d
    BY <1>10, <1>13, <1>17, WalkSame
  <2>2. TotalCost(c, size - qty) \in Nat
    BY <1>1, TotalCostType
  <2>. QED
    BY <1>10, <1>14, <1>17, <2>1, <2>2
<1>18. CASE p \in Levels(c, "Ask")
  <2>. DEFINE S == Yield(c, w, p)  y == After(c, w, p)
  <2>1. \A x \in w.ahead : p <= x
    <3>1. \A x \in w.ahead : x = p \/ x \in Levels(b, "Ask")
      BY <1>5, <1>7
    <3>. QED
      BY <1>1, <3>1
  <2>2. /\ S \in Nat /\ p * S \in Nat /\ TotalStep(c, w) = y /\ y \in WalkState
    BY <1>7, <1>18, <2>1, WalkStepTakes
  <2>3. S = IF size - qty <= M THEN size - qty ELSE M
    BY <1>7 DEF Yield, M
  <2>4. y.cost = p * S /\ y.remaining = (size - qty) - S /\ y.ahead = Levels(c, "Ask") \ {p}
    BY <1>7, <2>2 DEF After
  <2>. HIDE DEF S, y
  <2>5. S = T - qty
    BY <1>2, <1>3, <1>9, <2>3
  <2>6. p * T = p * S + d
    <3>1. T = S + qty
      BY <1>8, <2>2, <2>5
    <3>2. p * (S + qty) = p * S + p * qty
      BY <1>1, <2>2
    <3>. QED
      BY <3>1, <3>2 DEF d
  <2>7. SameWay(b, c, After(b, v, p), y, d)
    <3>1. After(b, v, p).remaining = y.remaining
      BY <1>8, <1>12, <2>2, <2>4, <2>5
    <3>2. After(b, v, p).ahead = y.ahead
      BY <1>5, <1>12, <2>4
    <3>3. \A x \in After(b, v, p).ahead : LevelTotal(b, "Ask", x) = LevelTotal(c, "Ask", x)
      <4>1. \A x \in After(b, v, p).ahead : x \in Prices /\ x # p
        BY <1>12 DEF Levels
      <4>2. ASSUME NEW x \in After(b, v, p).ahead PROVE LevelTotal(b, "Ask", x) = LevelTotal(c, "Ask", x)
        BY <1>4, <4>1
      <4>. QED
        BY <4>2
    <3>4. After(b, v, p).cost = y.cost + d
      BY <1>12, <2>4, <2>6
    <3>. QED
      BY <1>8, <2>2, <3>1, <3>2, <3>3, <3>4 DEF SameWay
  <2>8. Walk(c, y)[size - 1] = Walk(c, w)[size]
    <3>1. \A k \in Nat : Walk(c, w)[k+1] = Walk(c, y)[k]
      BY <1>7, <2>2, WalkShift
    <3>. QED
      BY <1>13, <3>1
  <2>9. Walk(c, w)[size].cost = TotalCost(c, size - qty)
    BY <1>1, <1>16
  <2>. QED
    BY <1>17, <2>7, <2>8, <2>9 DEF d
<1>19. CASE p \notin Levels(c, "Ask")
  <2>1. M = 0
    <3>. DEFINE g == [i \in 1 .. Len(r) |-> r[i].remaining_size]
    <3>1. c.queue["Ask"][p] = r /\ r = << >>
      BY <1>1, <1>19 DEF Levels, FilledBook
    <3>2. M = SumTo(g, Len(r)) /\ Len(r) = 0
      BY <3>1 DEF M, LevelTotal
    <3>3. g \in [1 .. Len(r) -> Int]
      BY LevelTerms
    <3>. HIDE DEF g
    <3>4. SumTo(g, 0) = 0
      <4>1. Len(r) \in Nat
        BY <3>2
      <4>. QED
        BY <3>3, <4>1, SumOver
    <3>. QED
      BY <3>2, <3>4
  <2>2. T = qty
    BY <1>2, <1>3, <1>9, <2>1
  <2>3. SameWay(b, c, After(b, v, p), w, d)
    <3>1. After(b, v, p).ahead = w.ahead
      BY <1>5, <1>7, <1>12, <1>19
    <3>2. After(b, v, p).remaining = w.remaining
      BY <1>7, <1>12, <2>2
    <3>3. After(b, v, p).cost = w.cost + d
      BY <1>7, <1>10, <1>12, <2>2 DEF d
    <3>4. \A x \in After(b, v, p).ahead : LevelTotal(b, "Ask", x) = LevelTotal(c, "Ask", x)
      <4>1. \A x \in After(b, v, p).ahead : x \in Prices /\ x # p
        BY <1>12 DEF Levels
      <4>2. ASSUME NEW x \in After(b, v, p).ahead PROVE LevelTotal(b, "Ask", x) = LevelTotal(c, "Ask", x)
        BY <1>4, <4>1
      <4>. QED
        BY <4>2
    <3>. QED
      BY <1>7, <1>8, <3>1, <3>2, <3>3, <3>4 DEF SameWay
  <2>4. Walk(c, w)[size - 1].cost = TotalCost(c, size - qty)
    <3>1. size - 1 >= size - qty
      OBVIOUS
    <3>. QED
      BY <1>13, <1>16, <3>1
  <2>. QED
    BY <1>17, <2>3, <2>4 DEF d
<1>. QED
  BY <1>18, <1>19

(* Nothing wanted, or nothing to buy, costs nothing. *)
LEMMA WalkNothing ==
  ASSUME NEW b \in Book, NEW n \in Nat, InOrder(b, n), NEW size \in Nat,
         size = 0 \/ Levels(b, "Ask") = {}
  PROVE  TotalCost(b, size) = 0
<1>. DEFINE v == WalkStart(b, size)
            A == Walk(b, v)
            U == {k \in Nat : A[k] = v}
<1>1. /\ v \in WalkState /\ v.cost = 0 /\ v.remaining = size /\ v.ahead = Levels(b, "Ask")
      /\ TotalCost(b, size) = A[size].cost
  BY WalkStartFacts
<1>2. A[0] = v /\ \A k \in Nat : A[k+1] = TotalStep(b, A[k])
  BY <1>1, WalkDef
<1>3. CASE size = 0
  BY <1>1, <1>2, <1>3
<1>4. CASE Levels(b, "Ask") = {}
  <2>. HIDE DEF v, A
  <2>1. TotalStep(b, v) = v
    BY <1>1, <1>4 DEF TotalStep
  <2>2. 0 \in U
    BY <1>2
  <2>3. ASSUME NEW k \in U PROVE k + 1 \in U
    BY <1>2, <2>1
  <2>4. U = Nat
    BY <2>2, <2>3, SetInduction
  <2>5. A[size] = v
    BY <2>4
  <2>. QED
    BY <1>1, <2>5
<1>. QED
  BY <1>3, <1>4
-----------------------------------------------------------------------------
(* What trades move.                                                       *)

(* Fields of a trade. *)
LEMMA TradeFields ==
  ASSUME NEW t \in Trade
  PROVE  /\ t.price \in Nat /\ t.qty \in Nat /\ t.price * t.qty \in Nat
         /\ t.taker_side \in Side /\ Buyer(t) \in Accounts /\ Seller(t) \in Accounts
<1>1. t.price \in Nat /\ t.qty \in Nat
  BY PricesAssumption DEF Trade
<1>2. t.taker_side \in Side /\ t.taker_account \in Accounts /\ t.maker_account \in Accounts
  BY DEF Trade
<1>3. \A x, y \in Nat : x * y \in Nat
  OBVIOUS
<1>. QED
  BY <1>1, <1>2, <1>3 DEF Buyer, Seller

\* What settling trade t takes out of the reserved balance of account a in
\* currency c, and what it adds to the available one.
Drawn(pair, t, a, c) ==
  (IF c = pair.quote /\ Buyer(t) = a THEN t.price * t.qty ELSE 0)
    + (IF c = pair.base /\ Seller(t) = a THEN t.qty ELSE 0)
Gained(pair, t, a, c) ==
  (IF c = pair.base /\ Buyer(t) = a THEN t.qty ELSE 0)
    + (IF c = pair.quote /\ Seller(t) = a THEN t.price * t.qty ELSE 0)

\* The same for a list of trades, and what the trades cost.
DrawnBy(pair, trades, a, c) ==
  SumTo([i \in 1 .. Len(trades) |-> Drawn(pair, trades[i], a, c)], Len(trades))
GainedBy(pair, trades, a, c) ==
  SumTo([i \in 1 .. Len(trades) |-> Gained(pair, trades[i], a, c)], Len(trades))
Improved(req, trades) ==
  SumTo([i \in 1 .. Len(trades) |-> (req.price - trades[i].price) * trades[i].qty], Len(trades))

(* Both are naturals. *)
LEMMA LegType ==
  ASSUME NEW t \in Trade, NEW pair, NEW a, NEW c
  PROVE  Drawn(pair, t, a, c) \in Nat /\ Gained(pair, t, a, c) \in Nat
<1>1. t.qty \in Nat /\ t.price * t.qty \in Nat
  BY TradeFields
<1>. QED
  BY <1>1 DEF Drawn, Gained

(* Terms of a list with one more trade. *)
LEMMA AppendTrade ==
  ASSUME NEW T \in Seq(Trade), NEW t \in Trade
  PROVE  /\ Len(T) \in Nat /\ Len(Append(T, t)) = Len(T) + 1
         /\ Append(T, t) \in Seq(Trade)
         /\ \A i \in 1 .. Len(T) : T[i] \in Trade /\ Append(T, t)[i] = T[i]
         /\ Append(T, t)[Len(T) + 1] = t
         /\ \A i \in 1 .. Len(T) + 1 : Append(T, t)[i] \in Trade
  OBVIOUS


(* Fields of a request. *)
LEMMA RequestFields ==
  ASSUME NEW req \in OrderRequest
  PROVE  /\ req.price \in Prices /\ req.price \in Nat /\ req.size \in Nat
         /\ req.side \in Side /\ Opposite(req.side) \in Side
         /\ Opposite(req.side) # req.side
         /\ Opposite(req.side) = "Ask" <=> req.side = "Bid"
         /\ req.order_type \in OrderType
<1>1. req.price \in Prices /\ req.size \in Sizes /\ req.side \in Side /\ req.order_type \in OrderType
  BY DEF OrderRequest
<1>. QED
  BY <1>1, PricesAssumption, SizesAssumption DEF Side, Opposite

(* Each sum grows by the term of the trade that is appended. *)
LEMMA DrawnMore ==
  ASSUME NEW T \in Seq(Trade), NEW t \in Trade, NEW pair, NEW a, NEW c
  PROVE  DrawnBy(pair, Append(T, t), a, c) = DrawnBy(pair, T, a, c) + Drawn(pair, t, a, c)
<1>. DEFINE A == Append(T, t)  n == Len(T)
            e == [i \in 1 .. n |-> Drawn(pair, T[i], a, c)]
            g == [i \in 1 .. n + 1 |-> Drawn(pair, A[i], a, c)]
<1>1. /\ n \in Nat /\ Len(A) = n + 1 /\ A[n+1] = t
      /\ \A i \in 1 .. n : T[i] \in Trade /\ A[i] = T[i]
      /\ \A i \in 1 .. n+1 : A[i] \in Trade
  BY AppendTrade
<1>. HIDE DEF A, n
<1>2. e \in [1 .. n -> Int]
  BY <1>1, LegType
<1>3. g \in [1 .. n+1 -> Int]
  BY <1>1, LegType
<1>4. /\ \A i \in 1 .. n : g[i] = e[i]
      /\ g[n+1] = Drawn(pair, t, a, c)
  BY <1>1
<1>5. DrawnBy(pair, A, a, c) = SumTo(g, n + 1) /\ DrawnBy(pair, T, a, c) = SumTo(e, n)
  BY <1>1 DEF DrawnBy, n
<1>. HIDE DEF e, g
<1>6. SumTo(g, n + 1) = SumTo(e, n) + g[n + 1]
  BY <1>1, <1>2, <1>3, <1>4, SumAppend
<1>. QED
  BY <1>4, <1>5, <1>6 DEF A

(* ... what the trades cost by the cost of the new one ... *)
LEMMA SpentMore ==
  ASSUME NEW T \in Seq(Trade), NEW t \in Trade
  PROVE  CostOf(Append(T, t)) = CostOf(T) + t.price * t.qty
<1>. DEFINE A == Append(T, t)  n == Len(T)
            e == [i \in 1 .. n |-> T[i].price * T[i].qty]
            g == [i \in 1 .. n + 1 |-> A[i].price * A[i].qty]
<1>1. /\ n \in Nat /\ Len(A) = n + 1 /\ A[n+1] = t
      /\ \A i \in 1 .. n : T[i] \in Trade /\ A[i] = T[i]
      /\ \A i \in 1 .. n+1 : A[i] \in Trade
  BY AppendTrade
<1>. HIDE DEF A, n
<1>2. \A x \in Trade : x.price * x.qty \in Int
  BY TradeFields
<1>3. e \in [1 .. n -> Int] /\ g \in [1 .. n+1 -> Int]
  BY <1>1, <1>2
<1>4. /\ \A i \in 1 .. n : g[i] = e[i]
      /\ g[n+1] = t.price * t.qty
  BY <1>1
<1>5. CostOf(A) = SumTo(g, n + 1) /\ CostOf(T) = SumTo(e, n)
  BY <1>1 DEF CostOf, n
<1>. HIDE DEF e, g
<1>6. SumTo(g, n + 1) = SumTo(e, n) + g[n + 1]
  BY <1>1, <1>3, <1>4, SumAppend
<1>. QED
  BY <1>4, <1>5, <1>6 DEF A

(* ... and the surplus of a limit buy by the price improvement of it.     *)
LEMMA ImprovedMore ==
  ASSUME NEW T \in Seq(Trade), NEW t \in Trade, NEW req \in OrderRequest
  PROVE  Improved(req, Append(T, t)) = Improved(req, T) + (req.price - t.price) * t.qty
<1>. DEFINE A == Append(T, t)  n == Len(T)
            e == [i \in 1 .. n |-> (req.price - T[i].price) * T[i].qty]
            g == [i \in 1 .. n + 1 |-> (req.price - A[i].price) * A[i].qty]
<1>1. /\ n \in Nat /\ Len(A) = n + 1 /\ A[n+1] = t
      /\ \A i \in 1 .. n : T[i] \in Trade /\ A[i] = T[i]
      /\ \A i \in 1 .. n+1 : A[i] \in Trade
  BY AppendTrade
<1>. HIDE DEF A, n
<1>2. \A x \in Trade : (req.price - x.price) * x.qty \in Int
  <2>1. req.price \in Nat
    BY RequestFields
  <2>. TAKE x \in Trade
  <2>2. x.price \in Nat /\ x.qty \in Nat
    BY TradeFields
  <2>3. req.price - x.price \in Int /\ x.qty \in Int
    BY <2>1, <2>2
  <2>4. \A y, z \in Int : y * z \in Int
    OBVIOUS
  <2>. QED
    BY <2>3, <2>4
<1>3. e \in [1 .. n -> Int] /\ g \in [1 .. n+1 -> Int]
  BY <1>1, <1>2
<1>4. /\ \A i \in 1 .. n : g[i] = e[i]
      /\ g[n+1] = (req.price - t.price) * t.qty
  BY <1>1
<1>5. Improved(req, A) = SumTo(g, n + 1) /\ Improved(req, T) = SumTo(e, n)
  BY <1>1 DEF Improved, n
<1>. HIDE DEF e, g
<1>6. SumTo(g, n + 1) = SumTo(e, n) + g[n + 1]
  BY <1>1, <1>3, <1>4, SumAppend
<1>. QED
  BY <1>4, <1>5, <1>6 DEF A

(* Nothing moves without trades, and what is drawn or spent is a natural.  *)
LEMMA SumTypes ==
  ASSUME NEW T \in Seq(Trade), NEW pair, NEW a, NEW c
  PROVE  DrawnBy(pair, T, a, c) \in Nat /\ GainedBy(pair, T, a, c) \in Nat /\ CostOf(T) \in Nat
<1>. DEFINE n == Len(T)
            e == [i \in 1 .. n |-> Drawn(pair, T[i], a, c)]
            g == [i \in 1 .. n |-> Gained(pair, T[i], a, c)]
            h == [i \in 1 .. n |-> T[i].price * T[i].qty]
<1>1. n \in Nat /\ \A i \in 1 .. n : T[i] \in Trade
  OBVIOUS
<1>2. DrawnBy(pair, T, a, c) = SumTo(e, n) /\ GainedBy(pair, T, a, c) = SumTo(g, n)
      /\ CostOf(T) = SumTo(h, n)
  BY DEF DrawnBy, GainedBy, CostOf
<1>. HIDE DEF n
<1>3. e \in [1 .. n -> Nat] /\ g \in [1 .. n -> Nat]
  BY <1>1, LegType
<1>4. h \in [1 .. n -> Nat]
  BY <1>1, TradeFields
<1>. HIDE DEF e, g, h
<1>. QED
  BY <1>1, <1>2, <1>3, <1>4, SumOfNats

(* Without trades nothing is drawn, spent or improved. *)
LEMMA NoTrades ==
  ASSUME NEW pair, NEW a, NEW c, NEW req
  PROVE  /\ DrawnBy(pair, << >>, a, c) = 0 /\ CostOf(<< >>) = 0
         /\ Improved(req, << >>) = 0
<1>1. ASSUME NEW e, DOMAIN e = {} PROVE SumTo(e, 0) = 0
  BY <1>1, SumStep
<1>. DEFINE e == [i \in 1 .. 0 |-> Drawn(pair, << >>[i], a, c)]
            g == [i \in 1 .. 0 |-> << >>[i].price * << >>[i].qty]
            h == [i \in 1 .. 0 |-> (req.price - << >>[i].price) * << >>[i].qty]
<1>2. DOMAIN e = {} /\ DOMAIN g = {} /\ DOMAIN h = {}
  OBVIOUS
<1>3. /\ DrawnBy(pair, << >>, a, c) = SumTo(e, 0) /\ CostOf(<< >>) = SumTo(g, 0)
      /\ Improved(req, << >>) = SumTo(h, 0)
  BY DEF DrawnBy, CostOf, Improved
<1>. HIDE DEF e, g, h
<1>. QED
  BY <1>1, <1>2, <1>3

-----------------------------------------------------------------------------
(* One fill, in the book and in the trades.                                *)

\* What a resting order on side pledges less for a fill of qty at price.
Unpledged(side, price, qty) == IF side = "Bid" THEN price * qty ELSE qty

(* A fill takes the filled part of the maker out of its pledge, and out of *)
(* no other account's.                                                     *)
LEMMA FilledPledge ==
  ASSUME NEW b \in Book, NEW c \in Book, NEW n \in Nat, Indexed(b), InOrder(b, n),
         NEW fside \in Side, NEW fprice \in Prices,
         NEW q \in Seq(Order), NEW r \in Seq(Order), NEW left \in Nat,
         Len(q) > 0, Filled(q, r, left),
         FilledBook(b, c, fside, fprice, q, r, left),
         NEW qty \in Nat, left + qty = q[1].remaining_size, NEW a
  PROVE  /\ q[1].side = fside /\ q[1].price = fprice
         /\ Pledged(RestingOn(c, fside), a) =
              Pledged(RestingOn(b, fside), a)
                - (IF q[1].account_id = a THEN Unpledged(fside, fprice, qty) ELSE 0)
<1>. DEFINE S == RestingOn(b, fside)  R == RestingOn(c, fside)  o == q[1]
            p == WithRemaining(o, left)
<1>1. /\ o \in S
      /\ R = (S \ {o}) \cup (IF left = 0 THEN {} ELSE {p})
  BY FilledResting
<1>2. S \in SUBSET Order /\ OwnIds(S)
  BY RestingMember, RestingOwnIds
<1>3. o.side = fside /\ o.price = fprice
  <2>1. 1 \in 1 .. Len(q)
    OBVIOUS
  <2>2. q = b.queue[fside][fprice]
    BY DEF FilledBook
  <2>3. Located(b, fside, fprice, q[1])
    BY <2>1, <2>2 DEF Indexed
  <2>. QED
    BY <2>3 DEF Located
<1>4. o \in Order /\ o.remaining_size \in Nat /\ left + qty = o.remaining_size
  BY <1>1, <1>2, OrderFields
<1>5. /\ p \in Order /\ p.remaining_size = left /\ p.id = o.id
      /\ p.account_id = o.account_id /\ p.side = fside /\ p.price = fprice
  BY <1>3, <1>4, WithRemainingFacts
<1>6. fprice \in Nat
  BY PricesAssumption
<1>. HIDE DEF S, R, o, p
<1>7. Spendable(o) = Unpledged(fside, fprice, qty) + Unpledged(fside, fprice, left)
  <2>1. CASE fside = "Bid"
    <3>1. fprice * (left + qty) = fprice * qty + fprice * left
      BY <1>6
    <3>. QED
      BY <1>3, <1>4, <2>1, <3>1 DEF Spendable, Unpledged
  <2>2. CASE fside # "Bid"
    BY <1>3, <1>4, <2>2 DEF Spendable, Unpledged
  <2>. QED
    BY <2>1, <2>2
<1>8. /\ Spendable(p) = Unpledged(fside, fprice, left)
      /\ left = 0 => Unpledged(fside, fprice, left) = 0
  BY <1>5, <1>6 DEF Spendable, Unpledged
<1>9. Unpledged(fside, fprice, qty) \in Int /\ Unpledged(fside, fprice, left) \in Int
  <2>1. fprice * qty \in Int /\ fprice * left \in Int
    BY <1>6
  <2>. QED
    BY <2>1 DEF Unpledged
<1>10. Pledged(S \ {o}, a) = Pledged(S, a) - (IF o.account_id = a THEN Spendable(o) ELSE 0)
  BY <1>1, <1>2, PledgedLess
<1>11. Pledged(S, a) \in Int /\ Pledged(S \ {o}, a) \in Int
  <2>1. S \ {o} \in SUBSET Order
    BY <1>2
  <2>. QED
    BY <1>2, <2>1, PledgedType
<1>12. left # 0 => Pledged((S \ {o}) \cup {p}, a) =
                     Pledged(S \ {o}, a) + (IF p.account_id = a THEN Spendable(p) ELSE 0)
  <2>1. \A x \in S \ {o} : x.id # p.id
    BY <1>1, <1>2, <1>5 DEF OwnIds
  <2>2. S \ {o} \in SUBSET Order
    BY <1>2
  <2>. QED
    BY <1>5, <2>1, <2>2, PledgedMore
<1>13. Pledged(R, a) = Pledged(S, a) - (IF o.account_id = a THEN Unpledged(fside, fprice, qty) ELSE 0)
  <2>1. CASE left = 0
    <3>1. R = S \ {o}
      BY <1>1, <2>1
    <3>. QED
      BY <1>7, <1>8, <1>9, <1>10, <1>11, <2>1, <3>1
  <2>2. CASE left # 0
    <3>1. R = (S \ {o}) \cup {p}
      BY <1>1, <2>2
    <3>. QED
      BY <1>5, <1>7, <1>8, <1>9, <1>10, <1>11, <1>12, <2>2, <3>1
  <2>. QED
    BY <2>1, <2>2
<1>. QED
  BY <1>3, <1>13 DEF S, R, o

(* The trade of a fill: the maker's price, the taker on the taker's side.  *)
LEMMA FillTrade ==
  ASSUME NEW order_id \in OrderId, NEW account_id \in Accounts,
         NEW req \in OrderRequest, NEW s \in MatchState, CanFill(req, s)
  PROVE  \E t \in Trade :
           /\ Fill(order_id, account_id, req, s).trades = Append(s.trades, t)
           /\ t.price = FillLevel(req, s)[1].price /\ t.qty = FillQty(req, s)
           /\ t.taker_side = req.side /\ t.taker_account = account_id
           /\ t.maker_account = FillLevel(req, s)[1].account_id
<1>. DEFINE maker == Head(FillLevel(req, s))
            t == [price |-> maker.price, qty |-> FillQty(req, s),
                  maker_id |-> maker.id, taker_id |-> order_id,
                  taker_side |-> req.side,
                  maker_account |-> maker.account_id, taker_account |-> account_id]
<1>1. Fill(order_id, account_id, req, s).trades = Append(s.trades, t)
  BY DEF Fill, FillFront, FillSide, FillPrice, FillLevel, FillQty
<1>2. maker \in Order /\ maker = FillLevel(req, s)[1] /\ FillQty(req, s) \in Nat
  BY FillFacts
<1>. HIDE DEF maker
<1>3. t \in Trade
  BY <1>2 DEF Trade, Order, OrderRequest
<1>. QED
  BY <1>1, <1>2, <1>3

-----------------------------------------------------------------------------
(* The matching loop, once more: what it draws, spends and leaves pledged. *)

\* A fill from loop state s to f: trade t with the front order of level q, of
\* which left remains.
FillShape(account_id, req, s, f, n, t, q, r, left) ==
  /\ Indexed(s.book) /\ InOrder(s.book, n) /\ Indexed(f.book) /\ InOrder(f.book, n)
  /\ t.price \in Levels(s.book, Opposite(req.side)) /\ Crosses(req, t.price)
  /\ \A x \in Levels(s.book, Opposite(req.side)) :
       IF req.side = "Bid" THEN t.price <= x ELSE x <= t.price
  /\ Len(q) > 0 /\ Filled(q, r, left)
  /\ FilledBook(s.book, f.book, Opposite(req.side), t.price, q, r, left)
  /\ left + t.qty = q[1].remaining_size
  /\ 0 < t.qty /\ t.qty <= s.remaining /\ f.remaining = s.remaining - t.qty
  /\ f.trades = Append(s.trades, t)
  /\ t.taker_side = req.side /\ t.taker_account = account_id
  /\ t.maker_account = q[1].account_id

(* Every fill has that shape. *)
LEMMA FillHasShape ==
  ASSUME NEW order_id \in OrderId, NEW account_id \in Accounts,
         NEW req \in OrderRequest, NEW s \in MatchState, CanFill(req, s),
         NEW n \in Nat, Indexed(s.book), InOrder(s.book, n)
  PROVE  /\ Fill(order_id, account_id, req, s) \in MatchState
         /\ \E t \in Trade, q \in Seq(Order), r \in Seq(Order), left \in Nat :
              FillShape(account_id, req, s, Fill(order_id, account_id, req, s), n, t, q, r, left)
<1>. DEFINE f == Fill(order_id, account_id, req, s)
            q == FillLevel(req, s)  r == FillAfter(req, s)  left == FillLeft(req, s)
            fprice == FillPrice(req, s)  qty == FillQty(req, s)
<1>1. FillResult(req, s, f)
  BY FillEffect
<1>2. PICK t \in Trade :
           /\ f.trades = Append(s.trades, t)
           /\ t.price = q[1].price /\ t.qty = qty
           /\ t.taker_side = req.side /\ t.taker_account = account_id
           /\ t.maker_account = q[1].account_id
  BY FillTrade
<1>3. f \in MatchState /\ Indexed(f.book) /\ InOrder(f.book, n)
  BY FillKeeps
<1>4. FilledBook(s.book, f.book, Opposite(req.side), fprice, q, r, left) /\ f.remaining = s.remaining - qty
  BY <1>1 DEF FilledBook, FillLevel, FillResult, FillSide
<1>5. /\ fprice \in Prices /\ Crosses(req, fprice)
      /\ q \in Seq(Order) /\ Len(q) > 0 /\ Head(q) = q[1] /\ q[1] \in Order
      /\ qty \in Nat /\ qty <= s.remaining /\ left \in Nat
      /\ Head(q).remaining_size > 0 => qty > 0
  BY FillFacts
<1>6. r \in Seq(Order) /\ Filled(q, r, left)
  BY FillAfterFacts DEF Filled
<1>7. left = q[1].remaining_size - qty
  BY <1>5 DEF FillLeft
<1>8. Opposite(req.side) \in Side /\ (Opposite(req.side) = "Ask" <=> req.side = "Bid")
  BY RequestFields
<1>9. /\ fprice \in Levels(s.book, Opposite(req.side))
      /\ \A x \in Levels(s.book, Opposite(req.side)) :
           IF req.side = "Bid" THEN fprice <= x ELSE x <= fprice
  <2>1. Levels(s.book, Opposite(req.side)) # {}
    BY DEF CanFill
  <2>2. fprice = BestPrice(s.book, Opposite(req.side))
    BY DEF FillPrice, FillSide
  <2>. HIDE DEF fprice
  <2>. QED
    BY <1>8, <2>1, <2>2, BestIsBest
<1>10. q = s.book.queue[Opposite(req.side)][fprice]
  BY <1>4 DEF FilledBook
<1>. HIDE DEF f, q, r, left, fprice, qty
<1>11. 1 \in 1 .. Len(q)
  BY <1>5
<1>12. q[1].price = fprice /\ Live(q[1], n)
  <2>1. Located(s.book, Opposite(req.side), fprice, q[1])
    BY <1>5, <1>8, <1>10, <1>11 DEF Indexed
  <2>. QED
    BY <1>5, <1>8, <1>10, <1>11, <2>1 DEF Located, InOrder
<1>13. q[1].remaining_size \in Nat /\ q[1].remaining_size > 0
  BY <1>5, <1>12, OrderFields DEF Live
<1>14. left + qty = q[1].remaining_size /\ qty > 0
  BY <1>5, <1>7, <1>13
<1>15. FillShape(account_id, req, s, f, n, t, q, r, left)
  BY <1>2, <1>3, <1>4, <1>5, <1>6, <1>9, <1>12, <1>14 DEF FillShape
<1>. QED
  BY <1>3, <1>5, <1>6, <1>15 DEF f

(* What a property of loop states that every fill keeps says of the match. *)
LEMMA MatchInduction ==
  ASSUME NEW order_id \in OrderId, NEW account_id \in Accounts,
         NEW req \in OrderRequest, NEW book \in Book, NEW G \in SUBSET MatchState,
         [book |-> book, remaining |-> req.size, trades |-> << >>,
          updates |-> << >>, dirty |-> {}] \in G,
         \A s \in G : CanFill(req, s) => Fill(order_id, account_id, req, s) \in G
  PROVE  Match(book, order_id, account_id, req) \in G
<1>. DEFINE step(s) == MatchStep(order_id, account_id, req, s)
            F == [k \in Nat |-> [s \in MatchState |-> step(s)]]
            start == [book |-> book, remaining |-> req.size, trades |-> << >>,
                      updates |-> << >>, dirty |-> {}]
<1>1. start \in G /\ req.size \in Nat
  BY RequestFields
<1>2. ASSUME NEW s \in G PROVE step(s) \in G
  BY DEF MatchStep
<1>3. ASSUME NEW s \in MatchState PROVE step(s) \in MatchState
  <2>1. CASE CanFill(req, s)
    <3>1. step(s) = Fill(order_id, account_id, req, s)
      BY <2>1 DEF MatchStep
    <3>. HIDE DEF step
    <3>. QED
      BY <2>1, <3>1, FillEffect DEF FillResult
  <2>2. CASE ~CanFill(req, s)
    BY <2>2 DEF MatchStep
  <2>. QED
    BY <2>1, <2>2
<1>4. Match(book, order_id, account_id, req) = Loop(F, start)[req.size]
  BY DEF Match
<1>. HIDE DEF step, start
<1>5. F \in [Nat -> [MatchState -> MatchState]]
  BY <1>3
<1>6. \A k \in Nat : \A s \in G : F[k+1][s] \in G
  BY <1>2
<1>. HIDE DEF F
<1>7. \A k \in Nat : Loop(F, start)[k] \in G
  BY <1>1, <1>5, <1>6, LoopInvariant
<1>. QED
  BY <1>1, <1>4, <1>7

\* Every order's cost, as a whole, is a u64.
OrdersFit(b) ==
  \A side \in Side : \A o \in RestingOn(b, side) : Fits(o.price * o.size)

\* The currency the makers pay in and the one the taker pays in, and how much
\* of the latter the fills so far used.
MakerCurrency(req) == IF req.side = "Bid" THEN req.pair.base ELSE req.pair.quote
TakerCurrency(req) == IF req.side = "Bid" THEN req.pair.quote ELSE req.pair.base
Used(req, s) == IF req.side = "Bid" THEN CostOf(s.trades) ELSE req.size - s.remaining

\* The parts of the loop invariant.  The makers' pledges shrink by what the
\* trades draw on them; the taker is charged what it used, nobody else is;
\* what was walked is what was spent and is still to be walked; a limit buy's
\* fills and refund add up to its own price.
MakersPay(book, req, s) ==
  \A a \in Accounts :
    Pledged(RestingOn(s.book, Opposite(req.side)), a) =
      Pledged(RestingOn(book, Opposite(req.side)), a)
        - DrawnBy(req.pair, s.trades, a, MakerCurrency(req))
TakerPays(account_id, req, s) ==
  \A a \in Accounts :
    DrawnBy(req.pair, s.trades, a, TakerCurrency(req)) =
      IF a = account_id THEN Used(req, s) ELSE 0
WalkPays(book, req, s) ==
  req.side = "Bid" =>
    CostOf(s.trades) + TotalCost(s.book, s.remaining) = TotalCost(book, req.size)
RefundPays(req, s) ==
  req.side = "Bid" /\ req.order_type = "Limit" =>
    /\ Improved(req, s.trades) \in Nat
    /\ Improved(req, s.trades) + CostOf(s.trades) = req.price * (req.size - s.remaining)
CostsFit(req, s) ==
  /\ OrdersFit(s.book)
  /\ \A i \in 1 .. Len(s.trades) :
       LET cost == s.trades[i].price * s.trades[i].qty
       IN  IF req.side = "Bid" THEN cost <= CostOf(s.trades) ELSE Fits(cost)

(* A fill keeps each of them.  The maker's pledge shrinks by what is drawn. *)
LEMMA FillMakersPay ==
  ASSUME NEW account_id \in Accounts, NEW req \in OrderRequest, IsValid(req.pair),
         NEW s \in MatchState, NEW f \in MatchState, NEW n \in Nat,
         NEW t \in Trade, NEW q \in Seq(Order), NEW r \in Seq(Order), NEW left \in Nat,
         FillShape(account_id, req, s, f, n, t, q, r, left),
         NEW book \in Book, MakersPay(book, req, s)
  PROVE  MakersPay(book, req, f)
<1>. DEFINE opp == Opposite(req.side)  cur == MakerCurrency(req)
<1>1. /\ s.book \in Book /\ f.book \in Book /\ s.trades \in Seq(Trade) /\ f.trades = Append(s.trades, t)
  BY DEF MatchState, FillShape
<1>2. opp \in Side /\ (opp = "Ask" <=> req.side = "Bid") /\ req.side \in Side
  BY RequestFields
<1>3. t.price \in Prices /\ t.qty \in Nat
  BY DEF Trade
<1>. SUFFICES ASSUME NEW a \in Accounts
              PROVE  Pledged(RestingOn(f.book, opp), a) =
                       Pledged(RestingOn(book, opp), a) - DrawnBy(req.pair, f.trades, a, cur)
  BY DEF MakersPay
<1>4. Pledged(RestingOn(s.book, opp), a) =
        Pledged(RestingOn(book, opp), a) - DrawnBy(req.pair, s.trades, a, cur)
  BY DEF MakersPay
<1>5. DrawnBy(req.pair, f.trades, a, cur) = DrawnBy(req.pair, s.trades, a, cur) + Drawn(req.pair, t, a, cur)
  BY <1>1, DrawnMore
<1>6. Drawn(req.pair, t, a, cur) = IF q[1].account_id = a THEN Unpledged(opp, t.price, t.qty) ELSE 0
  <2>1. t.taker_side = req.side /\ t.maker_account = q[1].account_id
    BY DEF FillShape
  <2>2. req.pair.base # req.pair.quote
    BY DEF IsValid
  <2>3. t.price * t.qty \in Nat
    BY TradeFields
  <2>4. CASE req.side = "Bid"
    <3>1. Seller(t) = q[1].account_id /\ cur = req.pair.base /\ opp # "Bid"
      BY <1>2, <2>1, <2>4 DEF Seller, MakerCurrency
    <3>. HIDE DEF cur, opp
    <3>. QED
      BY <1>3, <2>2, <3>1 DEF Drawn, Unpledged
  <2>5. CASE req.side # "Bid"
    <3>1. Buyer(t) = q[1].account_id /\ cur = req.pair.quote /\ opp = "Bid"
      BY <1>2, <2>1, <2>5 DEF Buyer, MakerCurrency, Side
    <3>. HIDE DEF cur, opp
    <3>. QED
      BY <1>3, <2>2, <2>3, <3>1 DEF Drawn, Unpledged
  <2>. QED
    BY <2>4, <2>5
<1>7. Pledged(RestingOn(f.book, opp), a) =
        Pledged(RestingOn(s.book, opp), a) - (IF q[1].account_id = a THEN Unpledged(opp, t.price, t.qty) ELSE 0)
  <2>1. /\ Indexed(s.book) /\ InOrder(s.book, n) /\ Len(q) > 0 /\ Filled(q, r, left)
        /\ FilledBook(s.book, f.book, opp, t.price, q, r, left)
        /\ left + t.qty = q[1].remaining_size
    BY DEF FillShape
  <2>. HIDE DEF opp
  <2>. QED
    BY <1>1, <1>2, <1>3, <2>1, FilledPledge
<1>8. /\ Pledged(RestingOn(book, opp), a) \in Int /\ DrawnBy(req.pair, s.trades, a, cur) \in Int
      /\ Drawn(req.pair, t, a, cur) \in Int
  <2>1. RestingOn(book, opp) \in SUBSET Order
    BY <1>2, RestingMember
  <2>. QED
    BY <1>1, <2>1, PledgedType, SumTypes, LegType
<1>. HIDE DEF opp, cur
<1>. QED
  BY <1>4, <1>5, <1>6, <1>7, <1>8

(* The taker alone is charged for a fill, by what it used. *)
LEMMA FillTakerPays ==
  ASSUME NEW account_id \in Accounts, NEW req \in OrderRequest, IsValid(req.pair),
         NEW s \in MatchState, NEW f \in MatchState, NEW n \in Nat,
         NEW t \in Trade, NEW q \in Seq(Order), NEW r \in Seq(Order), NEW left \in Nat,
         FillShape(account_id, req, s, f, n, t, q, r, left),
         TakerPays(account_id, req, s)
  PROVE  TakerPays(account_id, req, f)
<1>. DEFINE cur == TakerCurrency(req)
<1>1. /\ s.trades \in Seq(Trade) /\ f.trades = Append(s.trades, t)
      /\ s.remaining \in Nat /\ f.remaining = s.remaining - t.qty
  BY DEF MatchState, FillShape
<1>2. req.side \in Side /\ req.size \in Nat
  BY RequestFields
<1>3. t.qty \in Nat /\ t.price * t.qty \in Nat
  BY TradeFields
<1>. SUFFICES ASSUME NEW a \in Accounts
              PROVE  DrawnBy(req.pair, f.trades, a, cur) = IF a = account_id THEN Used(req, f) ELSE 0
  BY DEF TakerPays
<1>4. DrawnBy(req.pair, s.trades, a, cur) = IF a = account_id THEN Used(req, s) ELSE 0
  BY DEF TakerPays
<1>5. DrawnBy(req.pair, f.trades, a, cur) = DrawnBy(req.pair, s.trades, a, cur) + Drawn(req.pair, t, a, cur)
  BY <1>1, DrawnMore
<1>6. CostOf(f.trades) = CostOf(s.trades) + t.price * t.qty /\ CostOf(s.trades) \in Nat
  BY <1>1, SpentMore, SumTypes
<1>7. /\ Drawn(req.pair, t, a, cur) = IF a = account_id THEN Used(req, f) - Used(req, s) ELSE 0
      /\ Used(req, f) \in Int /\ Used(req, s) \in Int
  <2>1. t.taker_side = req.side /\ t.taker_account = account_id
    BY DEF FillShape
  <2>2. req.pair.base # req.pair.quote
    BY DEF IsValid
  <2>3. CASE req.side = "Bid"
    <3>1. Buyer(t) = account_id /\ cur = req.pair.quote
      BY <2>1, <2>3 DEF Buyer, TakerCurrency
    <3>2. Used(req, f) = CostOf(f.trades) /\ Used(req, s) = CostOf(s.trades)
      BY <2>3 DEF Used
    <3>3. Drawn(req.pair, t, a, cur) = IF a = account_id THEN t.price * t.qty ELSE 0
      BY <1>3, <2>2, <3>1 DEF Drawn
    <3>. QED
      BY <1>3, <1>6, <3>2, <3>3
  <2>4. CASE req.side # "Bid"
    <3>1. Seller(t) = account_id /\ cur = req.pair.base
      BY <2>1, <2>4 DEF Seller, TakerCurrency
    <3>2. Used(req, f) = req.size - f.remaining /\ Used(req, s) = req.size - s.remaining
      BY <2>4 DEF Used
    <3>3. Drawn(req.pair, t, a, cur) = IF a = account_id THEN t.qty ELSE 0
      BY <1>3, <2>2, <3>1 DEF Drawn
    <3>. DEFINE z == req.size  k == s.remaining  l == f.remaining  y == t.qty
                u == Used(req, s)  v == Used(req, f)
    <3>4. /\ z \in Nat /\ k \in Nat /\ y \in Nat /\ l = k - y /\ v = z - l /\ u = z - k
      BY <1>1, <1>2, <1>3, <3>2
    <3>. HIDE DEF z, k, l, y, u, v
    <3>5. v - u = y /\ u \in Int /\ v \in Int
      BY <3>4
    <3>. QED
      BY <3>3, <3>5 DEF u, v, y
  <2>. QED
    BY <2>3, <2>4
<1>. HIDE DEF cur
<1>. QED
  BY <1>4, <1>5, <1>7

(* A fill spends what the walk no longer has to. *)
LEMMA FillWalkPays ==
  ASSUME NEW account_id \in Accounts, NEW req \in OrderRequest,
         NEW s \in MatchState, NEW f \in MatchState, NEW n \in Nat,
         NEW t \in Trade, NEW q \in Seq(Order), NEW r \in Seq(Order), NEW left \in Nat,
         FillShape(account_id, req, s, f, n, t, q, r, left),
         NEW book \in Book, WalkPays(book, req, s)
  PROVE  WalkPays(book, req, f)
<1>. SUFFICES ASSUME req.side = "Bid"
              PROVE  CostOf(f.trades) + TotalCost(f.book, f.remaining) = TotalCost(book, req.size)
  BY DEF WalkPays
<1>1. /\ s.book \in Book /\ f.book \in Book /\ s.trades \in Seq(Trade) /\ f.trades = Append(s.trades, t)
      /\ s.remaining \in Nat /\ f.remaining \in Nat /\ f.remaining = s.remaining - t.qty
  BY DEF MatchState, FillShape
<1>2. Opposite(req.side) = "Ask"
  BY DEF Opposite
<1>3. t.qty \in Nat /\ t.price * t.qty \in Nat
  BY TradeFields
<1>4. /\ InOrder(s.book, n) /\ InOrder(f.book, n)
      /\ t.price \in Levels(s.book, "Ask") /\ \A x \in Levels(s.book, "Ask") : t.price <= x
      /\ Len(q) > 0 /\ Filled(q, r, left)
      /\ FilledBook(s.book, f.book, "Ask", t.price, q, r, left)
      /\ 0 < t.qty /\ t.qty <= s.remaining /\ left + t.qty = q[1].remaining_size
  BY <1>2 DEF FillShape
<1>5. TotalCost(s.book, s.remaining) = t.price * t.qty + TotalCost(f.book, s.remaining - t.qty)
  <2>. DEFINE b == s.book  c == f.book  p == t.price  k == t.qty  m == s.remaining
  <2>1. /\ b \in Book /\ c \in Book /\ m \in Nat /\ k \in Nat
        /\ InOrder(b, n) /\ InOrder(c, n)
        /\ p \in Levels(b, "Ask") /\ \A x \in Levels(b, "Ask") : p <= x
        /\ Len(q) > 0 /\ Filled(q, r, left) /\ FilledBook(b, c, "Ask", p, q, r, left)
        /\ 0 < k /\ k <= m /\ left + k = q[1].remaining_size
    BY <1>1, <1>3, <1>4
  <2>. HIDE DEF b, c, p, k, m
  <2>2. /\ 0 < k /\ k <= m /\ left + k = q[1].remaining_size
        /\ FilledBook(b, c, "Ask", p, q, r, left) /\ Filled(q, r, left)
    BY <2>1
  <2>3. TotalCost(b, m) = p * k + TotalCost(c, m - k)
    BY <2>1, <2>2, FillWalk
  <2>. QED
    BY <2>3 DEF b, c, p, k, m
<1>6. CostOf(f.trades) = CostOf(s.trades) + t.price * t.qty /\ CostOf(s.trades) \in Nat
  BY <1>1, SpentMore, SumTypes
<1>7. TotalCost(f.book, f.remaining) \in Nat
  BY <1>1, TotalCostType
<1>8. CostOf(s.trades) + TotalCost(s.book, s.remaining) = TotalCost(book, req.size)
  BY DEF WalkPays
<1>. QED
  BY <1>1, <1>3, <1>5, <1>6, <1>7, <1>8

(* A fill below a buy's own price P adds its cost and its improvement.     *)
LEMMA RefundSum ==
  ASSUME NEW P \in Nat, NEW p \in Nat, NEW k \in Nat, NEW z \in Nat, NEW u \in Nat,
         NEW i0 \in Nat, NEW c0 \in Nat, p <= P, i0 + c0 = P * (z - u)
  PROVE  /\ i0 + (P - p) * k \in Nat
         /\ (i0 + (P - p) * k) + (c0 + p * k) = P * (z - (u - k))
<1>. DEFINE d == P - p  w == z - u
<1>1. d \in Nat /\ P = p + d /\ w \in Int /\ z - (u - k) = w + k
  OBVIOUS
<1>2. \A x, y, m \in Int : (x + y) * m = x * m + y * m /\ m * (x + y) = m * x + m * y
  OBVIOUS
<1>3. \A x, y \in Nat : x * y \in Nat
  OBVIOUS
<1>. HIDE DEF d, w
<1>4. P * k = p * k + d * k
  BY <1>1, <1>2
<1>5. P * (w + k) = P * w + P * k
  BY <1>1, <1>2
<1>6. d * k \in Nat /\ p * k \in Nat
  BY <1>1, <1>3
<1>7. i0 + c0 = P * w
  BY DEF w
<1>. DEFINE A == P * w  B == P * k  C == p * k  D == d * k
<1>8. A = i0 + c0 /\ B = C + D /\ C \in Nat /\ D \in Nat /\ P * (w + k) = A + B
  BY <1>4, <1>5, <1>6, <1>7
<1>. HIDE DEF A, B, C, D
<1>9. i0 + D \in Nat /\ (i0 + D) + (c0 + C) = A + B
  BY <1>8
<1>. QED
  BY <1>1, <1>8, <1>9 DEF C, D, d

(* A fill of a limit buy adds its cost and its surplus at the buy's own price. *)
LEMMA FillRefundPays ==
  ASSUME NEW account_id \in Accounts, NEW req \in OrderRequest,
         NEW s \in MatchState, NEW f \in MatchState, NEW n \in Nat,
         NEW t \in Trade, NEW q \in Seq(Order), NEW r \in Seq(Order), NEW left \in Nat,
         FillShape(account_id, req, s, f, n, t, q, r, left),
         RefundPays(req, s)
  PROVE  RefundPays(req, f)
<1>. SUFFICES ASSUME req.side = "Bid", req.order_type = "Limit"
              PROVE  /\ Improved(req, f.trades) \in Nat
                     /\ Improved(req, f.trades) + CostOf(f.trades) = req.price * (req.size - f.remaining)
  BY DEF RefundPays
<1>1. /\ s.trades \in Seq(Trade) /\ f.trades = Append(s.trades, t)
      /\ s.remaining \in Nat /\ f.remaining \in Nat /\ f.remaining = s.remaining - t.qty
  BY DEF MatchState, FillShape
<1>2. t.price \in Nat /\ t.qty \in Nat /\ req.price \in Nat /\ req.size \in Nat
  BY TradeFields, RequestFields
<1>3. t.price <= req.price
  BY DEF FillShape, Crosses
<1>4. Improved(req, f.trades) = Improved(req, s.trades) + (req.price - t.price) * t.qty
  BY <1>1, ImprovedMore
<1>5. CostOf(f.trades) = CostOf(s.trades) + t.price * t.qty /\ CostOf(s.trades) \in Nat
  BY <1>1, SpentMore, SumTypes
<1>6. /\ Improved(req, s.trades) \in Nat
      /\ Improved(req, s.trades) + CostOf(s.trades) = req.price * (req.size - s.remaining)
  BY DEF RefundPays
<1>. DEFINE P == req.price  p == t.price  k == t.qty  z == req.size  u == s.remaining
            v == f.remaining  i0 == Improved(req, s.trades)  c0 == CostOf(s.trades)
            i1 == Improved(req, f.trades)  c1 == CostOf(f.trades)
<1>7. /\ P \in Nat /\ p \in Nat /\ k \in Nat /\ z \in Nat /\ u \in Nat /\ v = u - k
      /\ p <= P /\ i0 \in Nat /\ c0 \in Nat /\ i0 + c0 = P * (z - u)
      /\ i1 = i0 + (P - p) * k /\ c1 = c0 + p * k
  BY <1>1, <1>2, <1>3, <1>4, <1>5, <1>6
<1>. HIDE DEF P, p, k, z, u, v, i0, i1, c0, c1
<1>8. i1 \in Nat /\ i1 + c1 = P * (z - v)
  BY <1>7, RefundSum
<1>. QED
  BY <1>8 DEF P, z, v, i1, c1

(* More of an order costs more. *)
LEMMA CostGrows ==
  ASSUME NEW p \in Nat, NEW x \in Nat, NEW y \in Nat, x <= y
  PROVE  p * x \in Nat /\ p * y \in Nat /\ p * x <= p * y
<1>1. \A u, v \in Nat : u * v \in Nat /\ p * (u + v) = p * u + p * v
  OBVIOUS
<1>2. PICK z \in Nat : y = x + z
  <2>1. y - x \in Nat /\ y = x + (y - x)
    OBVIOUS
  <2>. QED
    BY <2>1
<1>3. p * y = p * x + p * z /\ p * x \in Nat /\ p * z \in Nat
  BY <1>1, <1>2
<1>. QED
  BY <1>3

(* What fits a u64 bounds what fits. *)
LEMMA FitsBelow ==
  ASSUME NEW x \in Nat, NEW y \in Nat, x <= y, Fits(y)
  PROVE  Fits(x)
  BY U64MaxAssumption DEF Fits

(* No fill costs more than a u64: on one side what the buy reserved, on the
   other the cost of the maker, bounds it. *)
LEMMA FillCostsFit ==
  ASSUME NEW account_id \in Accounts, NEW req \in OrderRequest,
         NEW s \in MatchState, NEW f \in MatchState, NEW n \in Nat,
         NEW t \in Trade, NEW q \in Seq(Order), NEW r \in Seq(Order), NEW left \in Nat,
         FillShape(account_id, req, s, f, n, t, q, r, left),
         CostsFit(req, s)
  PROVE  CostsFit(req, f)
<1>. DEFINE opp == Opposite(req.side)  o == q[1]  T == s.trades  m == Len(T)
<1>1. /\ s.book \in Book /\ f.book \in Book /\ T \in Seq(Trade) /\ f.trades = Append(T, t)
  BY DEF MatchState, FillShape
<1>2. opp \in Side /\ req.side \in Side /\ opp # req.side /\ (opp = "Ask" <=> req.side = "Bid")
  BY RequestFields
<1>3. t.price \in Prices /\ t.price \in Nat /\ t.qty \in Nat /\ t.price * t.qty \in Nat
  BY TradeFields DEF Trade
<1>4. /\ Indexed(s.book) /\ InOrder(s.book, n) /\ Len(q) > 0 /\ Filled(q, r, left)
      /\ FilledBook(s.book, f.book, opp, t.price, q, r, left)
      /\ left + t.qty = q[1].remaining_size
  BY DEF FillShape
<1>. HIDE DEF opp, T, m
<1>5. /\ o \in RestingOn(s.book, opp)
      /\ RestingOn(f.book, opp) =
           (RestingOn(s.book, opp) \ {o}) \cup (IF left = 0 THEN {} ELSE {WithRemaining(o, left)})
  <2>. DEFINE b == s.book  c == f.book  p == t.price
  <2>1. /\ b \in Book /\ c \in Book /\ Indexed(b) /\ InOrder(b, n) /\ p \in Prices
        /\ FilledBook(b, c, opp, p, q, r, left)
    BY <1>1, <1>3, <1>4
  <2>. HIDE DEF b, c, p
  <2>2. /\ o \in RestingOn(b, opp)
        /\ RestingOn(c, opp) =
             (RestingOn(b, opp) \ {o}) \cup (IF left = 0 THEN {} ELSE {WithRemaining(o, left)})
    BY <1>2, <1>4, <2>1, FilledResting
  <2>. QED
    BY <2>2 DEF b, c
<1>6. o.price = t.price /\ Live(o, n)
  <2>1. 1 \in 1 .. Len(q)
    BY <1>4
  <2>2. q = s.book.queue[opp][t.price]
    BY <1>4 DEF FilledBook
  <2>3. Located(s.book, opp, t.price, q[1])
    BY <1>2, <1>3, <1>4, <2>1, <2>2 DEF Indexed
  <2>. QED
    BY <1>2, <1>3, <1>4, <2>1, <2>2, <2>3 DEF Located, InOrder
<1>7. o \in Order
  BY <1>4
<1>8. /\ o.size \in Nat /\ o.remaining_size \in Nat
      /\ WithRemaining(o, left).price = o.price /\ WithRemaining(o, left).size = o.size
  BY <1>7, OrderFields, WithRemainingFacts
<1>9. OrdersFit(s.book) /\ Fits(o.price * o.size)
  BY <1>2, <1>5 DEF CostsFit, OrdersFit
<1>10. RestingOn(f.book, req.side) = RestingOn(s.book, req.side)
  <2>1. \A price \in Prices : f.book.queue[req.side][price] = s.book.queue[req.side][price]
    BY <1>2, <1>4 DEF FilledBook
  <2>. QED
    BY <2>1 DEF RestingOn
<1>11. OrdersFit(f.book)
  <2>1. ASSUME NEW side \in Side, NEW x \in RestingOn(f.book, side) PROVE Fits(x.price * x.size)
    <3>1. CASE side = opp
      <4>1. x \in RestingOn(s.book, opp) \/ x = WithRemaining(o, left)
        BY <1>5, <2>1, <3>1
      <4>. QED
        BY <1>2, <1>8, <1>9, <4>1 DEF OrdersFit
    <3>2. CASE side # opp
      <4>1. side = req.side
        BY <1>2, <3>2 DEF Side
      <4>. QED
        BY <1>2, <1>9, <1>10, <2>1, <4>1 DEF OrdersFit
    <3>. QED
      BY <3>1, <3>2
  <2>. QED
    BY <2>1 DEF OrdersFit
<1>12. /\ m \in Nat /\ Len(f.trades) = m + 1 /\ f.trades[m+1] = t
       /\ \A i \in 1 .. m : T[i] \in Trade /\ f.trades[i] = T[i]
  BY <1>1, AppendTrade DEF m
<1>13. CostOf(f.trades) = CostOf(T) + t.price * t.qty /\ CostOf(T) \in Nat
  BY <1>1, SpentMore, SumTypes
<1>14. ASSUME NEW i \in 1 .. Len(f.trades), NEW cost, cost = f.trades[i].price * f.trades[i].qty
       PROVE  IF req.side = "Bid" THEN cost <= CostOf(f.trades) ELSE Fits(cost)
  <2>1. CASE i = m + 1
    <3>1. cost = t.price * t.qty
      BY <1>12, <1>14, <2>1
    <3>2. CASE req.side = "Bid"
      BY <1>3, <1>13, <3>1, <3>2
    <3>3. CASE req.side # "Bid"
      <4>1. t.qty <= o.size
        BY <1>3, <1>4, <1>6, <1>8 DEF Live
      <4>2. /\ t.price * o.size \in Nat /\ t.price * t.qty <= t.price * o.size
        BY <1>3, <1>8, <4>1, CostGrows
      <4>3. Fits(t.price * o.size)
        BY <1>6, <1>9
      <4>. DEFINE u == t.price * o.size
      <4>4. u \in Nat /\ cost \in Nat /\ cost <= u /\ Fits(u)
        BY <1>3, <3>1, <4>2, <4>3
      <4>. HIDE DEF u
      <4>5. Fits(cost)
        BY <4>4, FitsBelow
      <4>. QED
        BY <3>3, <4>5
    <3>. QED
      BY <3>2, <3>3
  <2>2. CASE i # m + 1
    <3>1. i \in 1 .. m
      BY <1>12, <2>2
    <3>2. f.trades[i] = T[i] /\ T[i] \in Trade
      BY <1>12, <3>1
    <3>3. cost = T[i].price * T[i].qty /\ cost \in Nat
      BY <1>14, <3>2, TradeFields
    <3>4. IF req.side = "Bid" THEN cost <= CostOf(T) ELSE Fits(cost)
      BY <3>1, <3>3 DEF CostsFit, T, m
    <3>. QED
      BY <1>3, <1>13, <3>3, <3>4
  <2>. QED
    BY <2>1, <2>2
<1>. QED
  BY <1>11, <1>14 DEF CostsFit

\* The loop invariant.
MatchPays(book, account_id, req, s) ==
  /\ MakersPay(book, req, s)
  /\ TakerPays(account_id, req, s)
  /\ WalkPays(book, req, s)
  /\ RefundPays(req, s)
  /\ CostsFit(req, s)

(* Matching keeps it from its first state to its last. *)
LEMMA MatchingPays ==
  ASSUME NEW order_id \in OrderId, NEW account_id \in Accounts,
         NEW req \in OrderRequest, IsValid(req.pair), NEW book \in Book, NEW n \in Nat,
         Indexed(book), InOrder(book, n), OrdersFit(book)
  PROVE  MatchPays(book, account_id, req, Match(book, order_id, account_id, req))
<1>. DEFINE Good(s) == Indexed(s.book) /\ InOrder(s.book, n) /\ MatchPays(book, account_id, req, s)
            G == {s \in MatchState : Good(s)}
            start == [book |-> book, remaining |-> req.size, trades |-> << >>,
                      updates |-> << >>, dirty |-> {}]
<1>1. start \in MatchState
  BY RequestFields DEF MatchState
<1>2. /\ start.book = book /\ start.remaining = req.size /\ start.trades = << >>
      /\ req.size \in Nat /\ req.price \in Nat
  BY RequestFields
<1>3. Good(start)
  <2>. HIDE DEF start
  <2>1. MakersPay(book, req, start)
    <3>1. \A a \in Accounts : Pledged(RestingOn(book, Opposite(req.side)), a) \in Int
      <4>1. RestingOn(book, Opposite(req.side)) \in SUBSET Order
        BY RequestFields, RestingMember
      <4>. QED
        BY <4>1, PledgedType
    <3>. QED
      BY <1>2, <3>1, NoTrades DEF MakersPay
  <2>2. TakerPays(account_id, req, start)
    BY <1>2, NoTrades DEF TakerPays, Used
  <2>3. WalkPays(book, req, start)
    <3>1. TotalCost(book, req.size) \in Nat
      BY <1>2, TotalCostType
    <3>. QED
      BY <1>2, <3>1, NoTrades DEF WalkPays
  <2>4. RefundPays(req, start)
    BY <1>2, NoTrades DEF RefundPays
  <2>5. CostsFit(req, start)
    BY <1>2 DEF CostsFit
  <2>. QED
    BY <1>2, <2>1, <2>2, <2>3, <2>4, <2>5 DEF MatchPays
<1>. HIDE DEF start
<1>4. ASSUME NEW s \in G, CanFill(req, s)
      PROVE  Fill(order_id, account_id, req, s) \in G
  <2>1. s \in MatchState /\ Good(s)
    OBVIOUS
  <2>. DEFINE f == Fill(order_id, account_id, req, s)
  <2>2. /\ f \in MatchState
        /\ \E t \in Trade, q \in Seq(Order), r \in Seq(Order), left \in Nat :
             FillShape(account_id, req, s, f, n, t, q, r, left)
    BY <1>4, <2>1, FillHasShape
  <2>. HIDE DEF f
  <2>3. PICK t \in Trade, q \in Seq(Order), r \in Seq(Order), left \in Nat :
               FillShape(account_id, req, s, f, n, t, q, r, left)
    BY <2>2
  <2>4. Indexed(f.book) /\ InOrder(f.book, n)
    BY <2>3 DEF FillShape
  <2>5. MakersPay(book, req, f)
    BY <2>1, <2>2, <2>3, FillMakersPay DEF MatchPays
  <2>6. TakerPays(account_id, req, f)
    BY <2>1, <2>2, <2>3, FillTakerPays DEF MatchPays
  <2>7. WalkPays(book, req, f)
    BY <2>1, <2>2, <2>3, FillWalkPays DEF MatchPays
  <2>8. RefundPays(req, f)
    BY <2>1, <2>2, <2>3, FillRefundPays DEF MatchPays
  <2>9. CostsFit(req, f)
    BY <2>1, <2>2, <2>3, FillCostsFit DEF MatchPays
  <2>. QED
    BY <2>2, <2>4, <2>5, <2>6, <2>7, <2>8, <2>9 DEF MatchPays, f
<1>5. G \in SUBSET MatchState /\ start \in G
  BY <1>1, <1>3
<1>. HIDE DEF G
<1>6. Match(book, order_id, account_id, req) \in G
  BY <1>4, <1>5, MatchInduction DEF start
<1>. QED
  BY <1>6 DEF G

-----------------------------------------------------------------------------
(* What add_order costs: the reserve is drawn, handed back or stays pledged.*)

\* What place_order hands back of the reserve, and what the order that rests
\* keeps of it.
Refund(req, trades, left) ==
  IF req.side = "Bid" THEN Surplus(req, trades)
  ELSE IF req.order_type = "Market" THEN left ELSE 0
Kept(req, left) == IF req.order_type = "Limit" THEN Unpledged(req.side, req.price, left) ELSE 0

\* Order a of account_id, added to book b, leaves the makers' side short of
\* what the trades draw, its own side longer by what it keeps, and has nothing
\* of its reserve unaccounted for.
AddedPays(b, account_id, req, a) ==
  /\ \A x \in Accounts :
       Pledged(RestingOn(a.book, Opposite(req.side)), x) =
         Pledged(RestingOn(b, Opposite(req.side)), x)
           - DrawnBy(req.pair, a.trades, x, MakerCurrency(req))
  /\ \A x \in Accounts :
       Pledged(RestingOn(a.book, req.side), x) =
         Pledged(RestingOn(b, req.side), x)
           + (IF x = account_id THEN Kept(req, a.taker_remaining) ELSE 0)
  /\ \A x \in Accounts :
       x # account_id => DrawnBy(req.pair, a.trades, x, TakerCurrency(req)) = 0
  /\ Refund(req, a.trades, a.taker_remaining) \in Nat
  /\ Kept(req, a.taker_remaining) \in Nat
  /\ ReserveOf(b, req).amount =
       DrawnBy(req.pair, a.trades, account_id, TakerCurrency(req))
         + Refund(req, a.trades, a.taker_remaining) + Kept(req, a.taker_remaining)

\* A market buy spends what was walked.
AddedWalked(b, req, a) ==
  req.side = "Bid" /\ req.order_type = "Market" => CostOf(a.trades) = MarketBuyCost(b, req.size)

\* Every order and every trade stays within a u64.
AddedFits(a) ==
  /\ OrdersFit(a.book)
  /\ \A i \in 1 .. Len(a.trades) : Fits(a.trades[i].price * a.trades[i].qty)

(* A market buy ends with nothing wanted or nothing to buy. *)
LEMMA WalkEnds ==
  ASSUME NEW req \in OrderRequest, NEW book \in Book, NEW n \in Nat,
         NEW m, MatchGood(book, req, n, m), ~CanFill(req, m), WalkPays(book, req, m),
         req.side = "Bid", req.order_type = "Market"
  PROVE  CostOf(m.trades) = TotalCost(book, req.size)
<1>1. m.book \in Book /\ InOrder(m.book, n) /\ m.remaining \in Nat /\ m.trades \in Seq(Trade)
  BY DEF MatchGood, MatchState
<1>2. m.remaining = 0 \/ Levels(m.book, "Ask") = {}
  BY <1>1 DEF CanFill, Crosses, Opposite
<1>3. TotalCost(m.book, m.remaining) = 0
  <2>. DEFINE k == m.remaining  c == m.book
  <2>1. c \in Book /\ InOrder(c, n) /\ k \in Nat /\ (k = 0 \/ Levels(c, "Ask") = {})
    BY <1>1, <1>2
  <2>. HIDE DEF k, c
  <2>2. TotalCost(c, k) = 0
    BY <2>1, WalkNothing
  <2>. QED
    BY <2>2 DEF k, c
<1>4. CostOf(m.trades) \in Nat
  BY <1>1, SumTypes
<1>. QED
  BY <1>3, <1>4 DEF WalkPays

(* The reserve, term by term. *)
LEMMA ReserveSplits ==
  ASSUME NEW account_id \in Accounts, NEW req \in OrderRequest, NEW book \in Book, NEW n \in Nat,
         NEW m, MatchGood(book, req, n, m), ~CanFill(req, m),
         MatchPays(book, account_id, req, m), AsksFit(book)
  PROVE  /\ Refund(req, m.trades, m.remaining) \in Nat
         /\ Kept(req, m.remaining) \in Nat
         /\ ReserveOf(book, req).amount =
              DrawnBy(req.pair, m.trades, account_id, TakerCurrency(req))
                + Refund(req, m.trades, m.remaining) + Kept(req, m.remaining)
<1>. DEFINE k == m.remaining  T == m.trades  P == req.price  z == req.size
<1>1. k \in Nat /\ k <= z /\ T \in Seq(Trade)
  BY DEF MatchGood, MatchState
<1>2. P \in Nat /\ z \in Nat /\ req.side \in Side /\ req.order_type \in OrderType
  BY RequestFields
<1>3. DrawnBy(req.pair, T, account_id, TakerCurrency(req)) = Used(req, m)
  BY DEF MatchPays, TakerPays
<1>4. CostOf(T) \in Nat
  BY <1>1, SumTypes
<1>5. P * k \in Nat /\ P * (z - k) \in Nat /\ P * z = P * (z - k) + P * k
  <2>1. \A u, v \in Nat : P * u \in Nat /\ P * (u + v) = P * u + P * v
    BY <1>2
  <2>2. z - k \in Nat /\ z = (z - k) + k
    BY <1>1, <1>2
  <2>. QED
    BY <1>1, <2>1, <2>2
<1>6. CASE req.side = "Bid" /\ req.order_type = "Limit"
  <2>1. Improved(req, T) \in Nat /\ Improved(req, T) + CostOf(T) = P * (z - k)
    BY <1>6 DEF MatchPays, RefundPays
  <2>2. Refund(req, T, k) = Improved(req, T)
    BY <1>6 DEF Refund, Surplus, Improved
  <2>3. Kept(req, k) = P * k
    BY <1>6 DEF Kept, Unpledged
  <2>4. ReserveOf(book, req).amount = P * z
    BY <1>6 DEF ReserveOf, QuoteAmount
  <2>5. Used(req, m) = CostOf(T)
    BY <1>6 DEF Used
  <2>. HIDE DEF T, k, P, z
  <2>. QED
    BY <1>3, <1>4, <1>5, <2>1, <2>2, <2>3, <2>4, <2>5 DEF T, k
<1>7. CASE req.side = "Bid" /\ req.order_type = "Market"
  <2>1. CostOf(T) = MarketBuyCost(book, req.size)
    <3>1. CostOf(T) = TotalCost(book, req.size)
      BY <1>7, WalkEnds DEF MatchPays
    <3>. QED
      BY <3>1, CostOfAsks
  <2>2. Refund(req, T, k) = 0 /\ Kept(req, k) = 0
    BY <1>7 DEF Refund, Surplus, Kept
  <2>3. ReserveOf(book, req).amount = MarketBuyCost(book, req.size)
    BY <1>7 DEF ReserveOf, QuoteAmount
  <2>4. Used(req, m) = CostOf(T)
    BY <1>7 DEF Used
  <2>. QED
    BY <1>3, <1>4, <2>1, <2>2, <2>3, <2>4
<1>8. CASE req.side = "Ask"
  <2>1. Used(req, m) = z - k
    BY <1>8 DEF Used
  <2>2. ReserveOf(book, req).amount = z
    BY <1>8 DEF ReserveOf
  <2>3. CASE req.order_type = "Limit"
    <3>1. Refund(req, T, k) = 0 /\ Kept(req, k) = k
      BY <1>8, <2>3 DEF Refund, Kept, Unpledged
    <3>. QED
      BY <1>1, <1>2, <1>3, <2>1, <2>2, <3>1
  <2>4. CASE req.order_type = "Market"
    <3>1. Refund(req, T, k) = k /\ Kept(req, k) = 0
      BY <1>8, <2>4 DEF Refund, Kept, Unpledged
    <3>. QED
      BY <1>1, <1>2, <1>3, <2>1, <2>2, <3>1
  <2>. QED
    BY <1>2, <2>3, <2>4 DEF OrderType
<1>. QED
  BY <1>2, <1>6, <1>7, <1>8 DEF Side, OrderType

(* A resting remainder pledges what it keeps, to its own account only.     *)
LEMMA RestPledge ==
  ASSUME NEW order_id \in OrderId, NEW account_id \in Accounts,
         NEW req \in OrderRequest, req.order_type = "Limit",
         NEW b \in Book, InOrder(b, order_id), NEW left \in Nat,
         NEW c, c = Rest(b, order_id, account_id, req, left)
  PROVE  /\ RestingOn(c, Opposite(req.side)) = RestingOn(b, Opposite(req.side))
         /\ \A x \in Accounts :
              Pledged(RestingOn(c, req.side), x) =
                Pledged(RestingOn(b, req.side), x) + (IF x = account_id THEN Kept(req, left) ELSE 0)
         /\ \A y \in RestingOn(c, req.side) :
              y \in RestingOn(b, req.side) \/ (y.price = req.price /\ y.size = req.size)
<1>1. /\ req.side \in Side /\ Opposite(req.side) \in Side /\ Opposite(req.side) # req.side
      /\ order_id \in Nat
  BY RequestFields, MaxOrdersAssumption DEF OrderId
<1>. DEFINE o == [id |-> order_id, account_id |-> account_id, side |-> req.side,
                  price |-> req.price, size |-> req.size, remaining_size |-> left]
<1>2. /\ o \in Order /\ o.id = order_id /\ o.account_id = account_id /\ o.side = req.side
      /\ o.price = req.price /\ o.size = req.size /\ o.remaining_size = left
  BY RequestFields DEF Order
<1>3. c = [queue |-> [b.queue EXCEPT ![req.side][req.price] = Append(@, o)],
           order_index |-> With(b.order_index, order_id,
                                [owner |-> account_id, side |-> req.side, price |-> req.price]),
           last_trade_price |-> b.last_trade_price]
  BY DEF Rest
<1>. HIDE DEF o
<1>4. c \in Book
  BY RestEffect
<1>5. RestedBook(b, c, o)
  <2>. DEFINE w == With(b.order_index, order_id,
                        [owner |-> account_id, side |-> req.side, price |-> req.price])
  <2>1. b.queue \in [Side -> [Prices -> Seq(Order)]]
    BY DEF Book
  <2>2. c.queue = [b.queue EXCEPT ![req.side][req.price] = Append(@, o)] /\ c.order_index = w
    BY <1>3
  <2>3. /\ DOMAIN w = DOMAIN b.order_index \cup {order_id}
        /\ \A x \in DOMAIN w : w[x] = IF x = order_id
                                      THEN [owner |-> account_id, side |-> req.side, price |-> req.price]
                                      ELSE b.order_index[x]
    BY DEF With
  <2>. HIDE DEF w
  <2>4. req.price \in Prices
    BY RequestFields
  <2>5. \A side \in Side, price \in Prices :
          c.queue[side][price] = IF side = o.side /\ price = o.price
                                 THEN Append(b.queue[side][price], o)
                                 ELSE b.queue[side][price]
    BY <1>1, <1>2, <2>1, <2>2, <2>4
  <2>. QED
    BY <1>2, <2>2, <2>3, <2>5 DEF RestedBook
<1>6. /\ RestingOn(c, req.side) = RestingOn(b, req.side) \cup {o}
      /\ RestingOn(c, Opposite(req.side)) = RestingOn(b, Opposite(req.side))
  BY <1>1, <1>2, <1>4, <1>5, RestedResting
<1>7. \A x \in RestingOn(b, req.side) : x.id # o.id
  <2>. SUFFICES ASSUME NEW x \in RestingOn(b, req.side) PROVE x.id # o.id
    OBVIOUS
  <2>1. PICK price \in Prices : \E i \in 1 .. Len(b.queue[req.side][price]) :
             x = b.queue[req.side][price][i]
    BY <1>1, RestingMember
  <2>2. x \in Order
    BY <1>1, RestingMember
  <2>3. x.id \in Nat /\ x.id < order_id
    BY <1>1, <2>1, <2>2, OrderFields DEF InOrder, Live
  <2>. QED
    BY <1>1, <1>2, <2>3
<1>8. Spendable(o) = Kept(req, left)
  BY <1>2 DEF Spendable, Kept, Unpledged
<1>9. RestingOn(b, req.side) \in SUBSET Order
  BY <1>1, RestingMember
<1>10. ASSUME NEW x \in Accounts
       PROVE Pledged(RestingOn(c, req.side), x) =
               Pledged(RestingOn(b, req.side), x) + (IF x = account_id THEN Kept(req, left) ELSE 0)
  <2>1. Pledged(RestingOn(b, req.side) \cup {o}, x) =
          Pledged(RestingOn(b, req.side), x) + (IF o.account_id = x THEN Spendable(o) ELSE 0)
    BY <1>2, <1>7, <1>9, PledgedMore
  <2>. QED
    BY <1>2, <1>6, <1>8, <2>1
<1>. QED
  BY <1>2, <1>6, <1>10

(* add_order keeps to that.                                                *)
LEMMA AddingPays ==
  ASSUME NEW order_id \in OrderId, NEW account_id \in Accounts,
         NEW req \in OrderRequest, IsValid(req.pair), NEW b, WellKept(b, order_id), OrdersFit(b),
         AsksFit(b), NEW a, a = AddOrder(b, order_id, account_id, req)
  PROVE  /\ AddedPays(b, account_id, req, a)
         /\ AddedWalked(b, req, a)
         /\ Fits(QuoteAmount(b, req)) => AddedFits(a)
<1>. DEFINE m == Match(b, order_id, account_id, req)
            opp == Opposite(req.side)
            rests == req.order_type = "Limit" /\ m.remaining > 0
            c == a.book
<1>1. order_id \in Nat
  BY MaxOrdersAssumption DEF OrderId
<1>2. b \in Book /\ Indexed(b) /\ InOrder(b, order_id)
  BY DEF WellKept
<1>3. /\ c = IF rests THEN Rest(m.book, order_id, account_id, req, m.remaining) ELSE m.book
      /\ a.trades = m.trades /\ a.taker_remaining = m.remaining
  BY DEF AddOrder, Finish
<1>4. MatchGood(b, req, order_id, m) /\ ~CanFill(req, m)
  <2>. HIDE DEF m
  <2>. QED
    BY <1>1, <1>2, MatchKeeps DEF m
<1>5. MatchPays(b, account_id, req, m)
  BY <1>1, <1>2, MatchingPays
<1>. HIDE DEF m, c
<1>6. /\ m.book \in Book /\ m.remaining \in Nat /\ m.trades \in Seq(Trade)
      /\ InOrder(m.book, order_id) /\ m.remaining <= req.size
      /\ m.book.queue[req.side] = b.queue[req.side]
  BY <1>4 DEF MatchGood, MatchState
<1>7. /\ req.side \in Side /\ opp \in Side /\ opp # req.side
      /\ req.price \in Nat /\ req.size \in Nat /\ req.order_type \in OrderType
  BY RequestFields
<1>8. RestingOn(m.book, req.side) = RestingOn(b, req.side)
  BY <1>6 DEF RestingOn
<1>9. /\ Refund(req, m.trades, m.remaining) \in Nat
      /\ Kept(req, m.remaining) \in Nat
      /\ ReserveOf(b, req).amount =
           DrawnBy(req.pair, m.trades, account_id, TakerCurrency(req))
             + Refund(req, m.trades, m.remaining) + Kept(req, m.remaining)
  BY <1>1, <1>2, <1>4, <1>5, ReserveSplits
<1>10. rests => /\ RestingOn(c, opp) = RestingOn(m.book, opp)
                /\ \A x \in Accounts :
                     Pledged(RestingOn(c, req.side), x) =
                       Pledged(RestingOn(m.book, req.side), x)
                         + (IF x = account_id THEN Kept(req, m.remaining) ELSE 0)
                /\ \A y \in RestingOn(c, req.side) :
                     y \in RestingOn(m.book, req.side) \/ (y.price = req.price /\ y.size = req.size)
  BY <1>3, <1>6, RestPledge
<1>11. ~rests => c = m.book /\ Kept(req, m.remaining) = 0
  <2>1. m.remaining = 0 => Unpledged(req.side, req.price, m.remaining) = 0
    BY <1>7 DEF Unpledged
  <2>. QED
    BY <1>3, <1>6, <2>1 DEF Kept
<1>12. RestingOn(c, opp) = RestingOn(m.book, opp)
  BY <1>10, <1>11
<1>13. ASSUME NEW x \in Accounts
       PROVE Pledged(RestingOn(c, req.side), x) =
               Pledged(RestingOn(b, req.side), x) + (IF x = account_id THEN Kept(req, m.remaining) ELSE 0)
  <2>1. Pledged(RestingOn(b, req.side), x) \in Int
    <3>1. RestingOn(b, req.side) \in SUBSET Order
      BY <1>2, <1>7, RestingMember
    <3>. QED
      BY <3>1, PledgedType
  <2>. HIDE DEF rests
  <2>. QED
    BY <1>8, <1>10, <1>11, <2>1
<1>14. /\ \A x \in Accounts :
            Pledged(RestingOn(m.book, opp), x) =
              Pledged(RestingOn(b, opp), x) - DrawnBy(req.pair, m.trades, x, MakerCurrency(req))
       /\ \A x \in Accounts :
            x # account_id => DrawnBy(req.pair, m.trades, x, TakerCurrency(req)) = 0
  BY <1>5 DEF MatchPays, MakersPay, TakerPays
<1>. HIDE DEF opp, rests
<1>15. AddedPays(b, account_id, req, a)
  BY <1>3, <1>9, <1>12, <1>13, <1>14 DEF AddedPays, c, opp
<1>16. AddedWalked(b, req, a)
  <2>1. req.side = "Bid" /\ req.order_type = "Market" => CostOf(m.trades) = TotalCost(b, req.size)
    BY <1>1, <1>2, <1>4, <1>5, WalkEnds DEF MatchPays
  <2>2. MarketBuyCost(b, req.size) = TotalCost(b, req.size)
    BY <1>2, CostOfAsks DEF WellKept
  <2>. QED
    BY <1>3, <2>1, <2>2 DEF AddedWalked
<1>17. ASSUME Fits(QuoteAmount(b, req)) PROVE AddedFits(a)
  <2>1. OrdersFit(m.book)
    BY <1>5 DEF MatchPays, CostsFit
  <2>2. OrdersFit(c)
    <3>1. CASE ~rests
      BY <1>11, <2>1, <3>1
    <3>2. CASE rests
      <4>1. Fits(req.price * req.size)
        BY <1>17, <3>2 DEF QuoteAmount, rests
      <4>2. ASSUME NEW side \in Side, NEW y \in RestingOn(c, side) PROVE Fits(y.price * y.size)
        <5>1. CASE side = req.side
          <6>1. y \in RestingOn(m.book, req.side) \/ (y.price = req.price /\ y.size = req.size)
            BY <1>10, <3>2, <4>2, <5>1
          <6>. QED
            BY <1>7, <2>1, <4>1, <6>1 DEF OrdersFit
        <5>2. CASE side # req.side
          <6>1. side = opp
            BY <1>7, <5>2 DEF Side
          <6>. QED
            BY <1>12, <2>1, <4>2, <6>1 DEF OrdersFit
        <5>. QED
          BY <5>1, <5>2
      <4>. QED
        BY <4>2 DEF OrdersFit
    <3>. QED
      BY <3>1, <3>2
  <2>3. req.side = "Bid" => CostOf(m.trades) \in Nat /\ Fits(CostOf(m.trades))
    <3>. SUFFICES ASSUME req.side = "Bid" PROVE CostOf(m.trades) \in Nat /\ Fits(CostOf(m.trades))
      OBVIOUS
    <3>1. CostOf(m.trades) \in Nat
      BY <1>6, SumTypes
    <3>2. CASE req.order_type = "Market"
      <4>1. CostOf(m.trades) = QuoteAmount(b, req)
        BY <1>3, <1>16, <3>2 DEF AddedWalked, QuoteAmount
      <4>. QED
        BY <1>17, <3>1, <4>1
    <3>3. CASE req.order_type = "Limit"
      <4>1. /\ Improved(req, m.trades) \in Nat
            /\ Improved(req, m.trades) + CostOf(m.trades) = req.price * (req.size - m.remaining)
        BY <1>5, <3>3 DEF MatchPays, RefundPays
      <4>2. req.size - m.remaining \in Nat /\ req.size - m.remaining <= req.size
        BY <1>6, <1>7
      <4>3. /\ req.price * req.size \in Nat
            /\ req.price * (req.size - m.remaining) <= req.price * req.size
        BY <1>7, <4>2, CostGrows
      <4>4. Fits(req.price * req.size)
        BY <1>17, <3>3 DEF QuoteAmount
      <4>5. req.price * (req.size - m.remaining) \in Nat
        BY <1>7, <4>2, CostGrows
      <4>6. CostOf(m.trades) <= req.price * req.size
        BY <3>1, <4>1, <4>3, <4>5
      <4>. QED
        BY <3>1, <4>3, <4>4, <4>6, FitsBelow
    <3>. QED
      BY <1>7, <3>2, <3>3 DEF OrderType
  <2>4. ASSUME NEW i \in 1 .. Len(m.trades) PROVE Fits(m.trades[i].price * m.trades[i].qty)
    <3>. DEFINE cost == m.trades[i].price * m.trades[i].qty
    <3>1. cost \in Nat
      <4>1. m.trades[i] \in Trade
        BY <1>6
      <4>. QED
        BY <4>1, TradeFields
    <3>2. IF req.side = "Bid" THEN cost <= CostOf(m.trades) ELSE Fits(cost)
      BY <1>5 DEF MatchPays, CostsFit
    <3>. HIDE DEF cost
    <3>3. Fits(cost)
      BY <2>3, <3>1, <3>2, FitsBelow
    <3>. QED
      BY <3>3 DEF cost
  <2>. QED
    BY <1>3, <2>2, <2>4 DEF AddedFits, c
<1>. QED
  BY <1>15, <1>16, <1>17

-----------------------------------------------------------------------------
(* The ledger's operations, balance by balance.                            *)

\* Ledger m is ledger l but for u more available and v more reserved in the
\* balance of account a and currency c.
Moved(l, m, a, c, u, v) ==
  \A x \in Accounts, y \in Currency :
    /\ m.balances[x][y].available = l.balances[x][y].available + (IF x = a /\ y = c THEN u ELSE 0)
    /\ m.balances[x][y].reserved = l.balances[x][y].reserved + (IF x = a /\ y = c THEN v ELSE 0)

(* The fields of a balance. *)
LEMMA BalanceFields ==
  ASSUME NEW l \in LedgerValue, NEW x \in Accounts, NEW y \in Currency
  PROVE  l.balances[x][y].available \in Int /\ l.balances[x][y].reserved \in Int
  BY DEF LedgerValue, Balance

(* Credit moves just that. *)
LEMMA CreditMoves ==
  ASSUME NEW l \in LedgerValue, NEW a \in Accounts, NEW c \in Currency,
         NEW u \in Int, NEW v \in Int
  PROVE  Credit(l, a, c, u, v) \in LedgerValue /\ Moved(l, Credit(l, a, c, u, v), a, c, u, v)
<1>. DEFINE m == Credit(l, a, c, u, v)
            w == [available |-> l.balances[a][c].available + u,
                  reserved |-> l.balances[a][c].reserved + v]
<1>1. l.balances \in [Accounts -> [Currency -> Balance]]
  BY DEF LedgerValue
<1>2. m.balances = [l.balances EXCEPT ![a][c] = w]
  BY DEF Credit
<1>3. w.available = l.balances[a][c].available + u /\ w.reserved = l.balances[a][c].reserved + v
  OBVIOUS
<1>. HIDE DEF m, w
<1>4. ASSUME NEW x \in Accounts, NEW y \in Currency
      PROVE  m.balances[x][y] = IF x = a /\ y = c THEN w ELSE l.balances[x][y]
  BY <1>1, <1>2
<1>5. Moved(l, m, a, c, u, v)
  <2>. SUFFICES ASSUME NEW x \in Accounts, NEW y \in Currency
                PROVE  /\ m.balances[x][y].available =
                            l.balances[x][y].available + (IF x = a /\ y = c THEN u ELSE 0)
                       /\ m.balances[x][y].reserved =
                            l.balances[x][y].reserved + (IF x = a /\ y = c THEN v ELSE 0)
    BY DEF Moved
  <2>1. l.balances[x][y].available \in Int /\ l.balances[x][y].reserved \in Int
    BY BalanceFields
  <2>. QED
    BY <1>3, <1>4, <2>1
<1>. QED
  BY <1>5, CreditType DEF m

(* Settling a trade draws on the reserved balances and adds to the         *)
(* available ones.                                                         *)
LEMMA SettleMoves ==
  ASSUME NEW l \in LedgerValue, NEW pair \in Pair, NEW t \in Trade, NEW m, m = Settle(l, pair, t),
         NEW x \in Accounts, NEW y \in Currency
  PROVE  /\ m.balances[x][y].available = l.balances[x][y].available + Gained(pair, t, x, y)
         /\ m.balances[x][y].reserved = l.balances[x][y].reserved - Drawn(pair, t, x, y)
<1>. DEFINE cost == t.price * t.qty  buyer == Buyer(t)  seller == Seller(t)  qty == t.qty
            B == pair.base  Q == pair.quote
            paid   == Credit(l, buyer, Q, 0, -cost)
            bought == Credit(paid, buyer, B, qty, 0)
            earned == Credit(bought, seller, Q, cost, 0)
<1>1. B \in Currency /\ Q \in Currency
  BY DEF Pair
<1>2. buyer \in Accounts /\ seller \in Accounts /\ cost \in Int /\ qty \in Int
  BY TradeFields
<1>3. m = Credit(earned, seller, B, 0, -qty)
  BY DEF Settle, Buyer, Seller
<1>4. -cost \in Int /\ -qty \in Int
  BY <1>2
<1>5. /\ Gained(pair, t, x, y) = (IF y = B /\ buyer = x THEN qty ELSE 0)
                                   + (IF y = Q /\ seller = x THEN cost ELSE 0)
      /\ Drawn(pair, t, x, y) = (IF y = Q /\ buyer = x THEN cost ELSE 0)
                                  + (IF y = B /\ seller = x THEN qty ELSE 0)
  BY DEF Gained, Drawn
<1>. HIDE DEF cost, buyer, seller, qty, B, Q
<1>6. paid \in LedgerValue /\ Moved(l, paid, buyer, Q, 0, -cost)
  BY <1>1, <1>2, <1>4, CreditMoves
<1>. HIDE DEF paid
<1>7. bought \in LedgerValue /\ Moved(paid, bought, buyer, B, qty, 0)
  BY <1>1, <1>2, <1>6, CreditMoves
<1>. HIDE DEF bought
<1>8. earned \in LedgerValue /\ Moved(bought, earned, seller, Q, cost, 0)
  BY <1>1, <1>2, <1>7, CreditMoves
<1>. HIDE DEF earned
<1>9. m \in LedgerValue /\ Moved(earned, m, seller, B, 0, -qty)
  BY <1>1, <1>2, <1>3, <1>4, <1>8, CreditMoves
<1>10. /\ l.balances[x][y].available \in Int /\ paid.balances[x][y].available \in Int
       /\ bought.balances[x][y].available \in Int /\ earned.balances[x][y].available \in Int
       /\ l.balances[x][y].reserved \in Int /\ paid.balances[x][y].reserved \in Int
       /\ bought.balances[x][y].reserved \in Int /\ earned.balances[x][y].reserved \in Int
  BY <1>6, <1>7, <1>8, BalanceFields
<1>11. m.balances[x][y].available = l.balances[x][y].available + Gained(pair, t, x, y)
  <2>1. paid.balances[x][y].available = l.balances[x][y].available
    BY <1>6, <1>10 DEF Moved
  <2>2. bought.balances[x][y].available = paid.balances[x][y].available + (IF x = buyer /\ y = B THEN qty ELSE 0)
    BY <1>7 DEF Moved
  <2>3. earned.balances[x][y].available = bought.balances[x][y].available + (IF x = seller /\ y = Q THEN cost ELSE 0)
    BY <1>8 DEF Moved
  <2>4. m.balances[x][y].available = earned.balances[x][y].available
    BY <1>9, <1>10 DEF Moved
  <2>. QED
    BY <1>2, <1>5, <1>10, <2>1, <2>2, <2>3, <2>4
<1>12. m.balances[x][y].reserved = l.balances[x][y].reserved - Drawn(pair, t, x, y)
  <2>1. paid.balances[x][y].reserved = l.balances[x][y].reserved + (IF x = buyer /\ y = Q THEN -cost ELSE 0)
    BY <1>6 DEF Moved
  <2>2. bought.balances[x][y].reserved = paid.balances[x][y].reserved
    BY <1>7, <1>10 DEF Moved
  <2>3. earned.balances[x][y].reserved = bought.balances[x][y].reserved
    BY <1>8, <1>10 DEF Moved
  <2>4. m.balances[x][y].reserved = earned.balances[x][y].reserved + (IF x = seller /\ y = B THEN -qty ELSE 0)
    BY <1>9 DEF Moved
  <2>. QED
    BY <1>2, <1>5, <1>10, <2>1, <2>2, <2>3, <2>4
<1>. QED
  BY <1>11, <1>12

(* Settling all trades of an order, whoever they are with.                 *)
LEMMA SettleAllMoves ==
  ASSUME NEW l \in LedgerValue, NEW pair \in Pair, NEW T \in Seq(Trade),
         NEW m, m = SettleAll(l, pair, T), NEW x \in Accounts, NEW y \in Currency
  PROVE  /\ m.balances[x][y].available = l.balances[x][y].available + GainedBy(pair, T, x, y)
         /\ m.balances[x][y].reserved = l.balances[x][y].reserved - DrawnBy(pair, T, x, y)
<1>. DEFINE step(n, z) == IF n \in DOMAIN T THEN Settle(z, pair, T[n]) ELSE z
            F == [n \in Nat |-> [z \in LedgerValue |-> step(n, z)]]
            L == Loop(F, l)
            len == Len(T)
            e == [i \in 1 .. len |-> Gained(pair, T[i], x, y)]
            g == [i \in 1 .. len |-> Drawn(pair, T[i], x, y)]
<1>1. len \in Nat /\ DOMAIN T = 1 .. len /\ \A i \in 1 .. len : T[i] \in Trade
  OBVIOUS
<1>2. ASSUME NEW n \in Nat, NEW z \in LedgerValue PROVE step(n, z) \in LedgerValue
  BY <1>1, SettleType
<1>3. F \in [Nat -> [LedgerValue -> LedgerValue]]
  <2>. HIDE DEF step
  <2>. QED
    BY <1>2
<1>4. m = L[len]
  BY DEF SettleAll
<1>5. L \in [Nat -> LedgerValue] /\ L[0] = l /\ \A k \in Nat : L[k+1] = F[k+1][L[k]]
  <2>. HIDE DEF F
  <2>. QED
    BY <1>3, LoopDef
<1>. HIDE DEF L
<1>6. \A k \in Nat : k + 1 \in 1 .. len => L[k+1] = Settle(L[k], pair, T[k+1])
  <2>. TAKE k \in Nat
  <2>. HAVE k + 1 \in 1 .. len
  <2>1. k + 1 \in Nat /\ L[k] \in LedgerValue
    BY <1>5
  <2>2. F[k+1][L[k]] = step(k+1, L[k])
    BY <2>1
  <2>. QED
    BY <1>1, <1>5, <2>2
<1>. HIDE DEF F, len
<1>7. e \in [1 .. len -> Int] /\ g \in [1 .. len -> Int]
  BY <1>1, LegType
<1>8. /\ \A i \in 1 .. len : e[i] = Gained(pair, T[i], x, y) /\ g[i] = Drawn(pair, T[i], x, y)
      /\ GainedBy(pair, T, x, y) = SumTo(e, len) /\ DrawnBy(pair, T, x, y) = SumTo(g, len)
  BY DEF GainedBy, DrawnBy, len
<1>. HIDE DEF e, g
<1>. DEFINE U == {k \in Nat : k <= len =>
                    /\ L[k].balances[x][y].available = l.balances[x][y].available + SumTo(e, k)
                    /\ L[k].balances[x][y].reserved = l.balances[x][y].reserved - SumTo(g, k)}
<1>9. l.balances[x][y].available \in Int /\ l.balances[x][y].reserved \in Int
  BY BalanceFields
<1>10. 0 \in U
  <2>1. SumTo(e, 0) = 0 /\ SumTo(g, 0) = 0
    BY <1>1, <1>7, SumOver
  <2>2. /\ L[0].balances[x][y].available = l.balances[x][y].available + SumTo(e, 0)
        /\ L[0].balances[x][y].reserved = l.balances[x][y].reserved - SumTo(g, 0)
    <3>. DEFINE u == l.balances[x][y].available  v == l.balances[x][y].reserved
    <3>1. L[0].balances[x][y].available = u /\ L[0].balances[x][y].reserved = v
      BY <1>5
    <3>. HIDE DEF u, v
    <3>2. u = u + 0 /\ v = v - 0
      BY <1>9 DEF u, v
    <3>. QED
      BY <2>1, <3>1, <3>2 DEF u, v
  <2>. QED
    BY <2>2
<1>11. ASSUME NEW k \in U PROVE k + 1 \in U
  <2>. SUFFICES ASSUME k + 1 <= len
                PROVE  /\ L[k+1].balances[x][y].available = l.balances[x][y].available + SumTo(e, k+1)
                       /\ L[k+1].balances[x][y].reserved = l.balances[x][y].reserved - SumTo(g, k+1)
    OBVIOUS
  <2>1. /\ k \in Nat /\ k + 1 \in 1 .. len /\ k \in 0 .. len /\ k \in 0 .. len - 1 /\ L[k] \in LedgerValue
        /\ L[k].balances[x][y].available = l.balances[x][y].available + SumTo(e, k)
        /\ L[k].balances[x][y].reserved = l.balances[x][y].reserved - SumTo(g, k)
    BY <1>1, <1>5
  <2>2. /\ SumTo(e, k) \in Int /\ SumTo(e, k+1) = SumTo(e, k) + e[k+1] /\ e[k+1] \in Int
        /\ SumTo(g, k) \in Int /\ SumTo(g, k+1) = SumTo(g, k) + g[k+1] /\ g[k+1] \in Int
    BY <1>1, <1>7, <2>1, SumOver
  <2>3. L[k+1] = Settle(L[k], pair, T[k+1]) /\ T[k+1] \in Trade
    BY <1>1, <1>6, <2>1
  <2>4. /\ L[k+1].balances[x][y].available = L[k].balances[x][y].available + Gained(pair, T[k+1], x, y)
        /\ L[k+1].balances[x][y].reserved = L[k].balances[x][y].reserved - Drawn(pair, T[k+1], x, y)
    <3>. DEFINE z == L[k]  t == T[k+1]  u == L[k+1]
    <3>1. z \in LedgerValue /\ t \in Trade /\ u = Settle(z, pair, t)
      BY <2>1, <2>3
    <3>. HIDE DEF z, t, u
    <3>2. /\ u.balances[x][y].available = z.balances[x][y].available + Gained(pair, t, x, y)
          /\ u.balances[x][y].reserved = z.balances[x][y].reserved - Drawn(pair, t, x, y)
      BY <3>1, SettleMoves
    <3>. QED
      BY <3>2 DEF z, t, u
  <2>5. e[k+1] = Gained(pair, T[k+1], x, y) /\ g[k+1] = Drawn(pair, T[k+1], x, y)
    BY <1>8, <2>1
  <2>. HIDE DEF U
  <2>. DEFINE u0 == l.balances[x][y].available  u1 == L[k].balances[x][y].available
              u2 == L[k+1].balances[x][y].available
              v0 == l.balances[x][y].reserved  v1 == L[k].balances[x][y].reserved
              v2 == L[k+1].balances[x][y].reserved
              d == SumTo(e, k)  f == SumTo(g, k)  dd == SumTo(e, k+1)  ff == SumTo(g, k+1)
              i == e[k+1]  j == g[k+1]
  <2>6. /\ u0 \in Int /\ v0 \in Int /\ d \in Int /\ f \in Int /\ i \in Int /\ j \in Int
        /\ u1 = u0 + d /\ v1 = v0 - f /\ u2 = u1 + i /\ v2 = v1 - j
        /\ dd = d + i /\ ff = f + j
    BY <1>9, <2>1, <2>2, <2>4, <2>5
  <2>. HIDE DEF u0, u1, u2, v0, v1, v2, d, f, dd, ff, i, j
  <2>7. u2 = u0 + dd /\ v2 = v0 - ff
    BY <2>6
  <2>. QED
    BY <2>7 DEF u0, u2, v0, v2, dd, ff
<1>12. U = Nat
  BY <1>10, <1>11, SetInduction
<1>. QED
  BY <1>1, <1>4, <1>8, <1>12

(* A term-by-term difference sums to the difference of the sums. *)
LEMMA SumMinus ==
  ASSUME NEW n \in Nat, NEW e \in [1 .. n -> Int], NEW g \in [1 .. n -> Int],
         NEW h \in [1 .. n -> Int], \A i \in 1 .. n : h[i] = e[i] - g[i]
  PROVE  SumTo(h, n) = SumTo(e, n) - SumTo(g, n)
<1>. DEFINE U == {k \in Nat : k <= n => SumTo(h, k) = SumTo(e, k) - SumTo(g, k)}
<1>1. 0 \in U
  <2>1. SumTo(e, 0) = 0 /\ SumTo(g, 0) = 0 /\ SumTo(h, 0) = 0
    BY SumOver
  <2>. QED
    BY <2>1
<1>2. ASSUME NEW k \in U PROVE k + 1 \in U
  <2>. SUFFICES ASSUME k + 1 <= n PROVE SumTo(h, k+1) = SumTo(e, k+1) - SumTo(g, k+1)
    OBVIOUS
  <2>1. k \in 0 .. n-1 /\ k \in 0 .. n /\ k + 1 \in 1 .. n /\ SumTo(h, k) = SumTo(e, k) - SumTo(g, k)
    OBVIOUS
  <2>2. /\ SumTo(e, k) \in Int /\ SumTo(e, k+1) = SumTo(e, k) + e[k+1] /\ e[k+1] \in Int
        /\ SumTo(g, k) \in Int /\ SumTo(g, k+1) = SumTo(g, k) + g[k+1] /\ g[k+1] \in Int
        /\ SumTo(h, k+1) = SumTo(h, k) + h[k+1] /\ h[k+1] = e[k+1] - g[k+1]
    BY <2>1, SumOver
  <2>. QED
    BY <2>1, <2>2
<1>3. U = Nat
  BY <1>1, <1>2, SetInduction
<1>. QED
  BY <1>3

(* What trades move, net, is what they gain less what they draw.           *)
LEMMA NetIsGainLessDraw ==
  ASSUME NEW pair \in Pair, IsValid(pair), NEW T \in Seq(Trade),
         NEW x \in Accounts, NEW y \in Currency
  PROVE  SumTo([i \in 1 .. Len(T) |-> NetOfTrade(pair, T[i], x, y)], Len(T)) =
           GainedBy(pair, T, x, y) - DrawnBy(pair, T, x, y)
<1>. DEFINE n == Len(T)
            e == [i \in 1 .. n |-> Gained(pair, T[i], x, y)]
            g == [i \in 1 .. n |-> Drawn(pair, T[i], x, y)]
            h == [i \in 1 .. n |-> NetOfTrade(pair, T[i], x, y)]
<1>1. n \in Nat /\ \A i \in 1 .. n : T[i] \in Trade
  OBVIOUS
<1>2. pair.base # pair.quote /\ (y = pair.base \/ y = pair.quote)
  BY DEF IsValid, Pair, Currency
<1>3. ASSUME NEW t \in Trade
      PROVE  NetOfTrade(pair, t, x, y) = Gained(pair, t, x, y) - Drawn(pair, t, x, y)
  <2>. DEFINE cost == t.price * t.qty
  <2>1. cost \in Nat /\ t.qty \in Nat
    BY TradeFields
  <2>2. /\ NetOfTrade(pair, t, x, y) =
             (IF Buyer(t) = x THEN (IF y = pair.base THEN t.qty ELSE - cost) ELSE 0)
               - (IF Seller(t) = x THEN (IF y = pair.base THEN t.qty ELSE - cost) ELSE 0)
        /\ Gained(pair, t, x, y) = (IF y = pair.base /\ Buyer(t) = x THEN t.qty ELSE 0)
                                     + (IF y = pair.quote /\ Seller(t) = x THEN cost ELSE 0)
        /\ Drawn(pair, t, x, y) = (IF y = pair.quote /\ Buyer(t) = x THEN cost ELSE 0)
                                    + (IF y = pair.base /\ Seller(t) = x THEN t.qty ELSE 0)
    BY DEF NetOfTrade, Gained, Drawn
  <2>. HIDE DEF cost
  <2>. QED
    BY <1>2, <2>1, <2>2
<1>. HIDE DEF n
<1>4. e \in [1 .. n -> Int] /\ g \in [1 .. n -> Int]
  BY <1>1, LegType
<1>5. \A i \in 1 .. n : h[i] = e[i] - g[i]
  BY <1>1, <1>3
<1>6. h \in [1 .. n -> Int]
  <2>1. \A i \in 1 .. n : h[i] \in Int
    BY <1>4, <1>5
  <2>2. h = [i \in 1 .. n |-> h[i]]
    OBVIOUS
  <2>. HIDE DEF h
  <2>. QED
    BY <2>1, <2>2
<1>7. GainedBy(pair, T, x, y) = SumTo(e, n) /\ DrawnBy(pair, T, x, y) = SumTo(g, n)
  BY DEF GainedBy, DrawnBy, n
<1>8. SumTo([i \in 1 .. Len(T) |-> NetOfTrade(pair, T[i], x, y)], Len(T)) = SumTo(h, n)
  BY DEF n
<1>. HIDE DEF e, g, h
<1>9. SumTo(h, n) = SumTo(e, n) - SumTo(g, n)
  BY <1>1, <1>4, <1>5, <1>6, SumMinus
<1>. QED
  BY <1>7, <1>8, <1>9

\* Where place_order leaves the balance of account x in currency y.
PlacedBalance(l, m, account_id, req, b, a, x, y) ==
  LET due == IF x = account_id /\ y = TakerCurrency(req)
             THEN ReserveOf(b, req).amount - Refund(req, a.trades, a.taker_remaining) ELSE 0
  IN  /\ m.balances[x][y].available =
           l.balances[x][y].available + GainedBy(req.pair, a.trades, x, y) - due
      /\ m.balances[x][y].reserved =
           l.balances[x][y].reserved - DrawnBy(req.pair, a.trades, x, y) + due

(* Crediting nothing is moving nothing. *)
LEMMA NothingMoves ==
  ASSUME NEW l \in LedgerValue, NEW a \in Accounts, NEW c \in Currency,
         NEW u \in Int, u >= 0, u <= 0
  PROVE  Moved(l, l, a, c, u, -u)
<1>1. u = 0 /\ -u = 0
  OBVIOUS
<1>2. ASSUME NEW x \in Accounts, NEW y \in Currency
      PROVE  /\ l.balances[x][y].available =
                  l.balances[x][y].available + (IF x = a /\ y = c THEN u ELSE 0)
             /\ l.balances[x][y].reserved =
                  l.balances[x][y].reserved + (IF x = a /\ y = c THEN 0 ELSE 0)
  <2>1. l.balances[x][y].available \in Int /\ l.balances[x][y].reserved \in Int
    BY BalanceFields
  <2>2. (IF x = a /\ y = c THEN u ELSE 0) = 0 /\ (IF x = a /\ y = c THEN 0 ELSE 0) = 0
    BY <1>1
  <2>. QED
    BY <2>1, <2>2
<1>. QED
  BY <1>1, <1>2 DEF Moved

(* The ledger side of place_order: reserve, settle, hand back.  The taker  *)
(* has the surplus in reserve, so that release is never refused.           *)
LEMMA PlaceLedger ==
  ASSUME NEW l \in LedgerValue, NEW account_id \in Accounts,
         NEW req \in OrderRequest, IsValid(req.pair), NEW b \in Book,
         NEW a, AddedPays(b, account_id, req, a),
         a.trades \in Seq(Trade), a.taker_remaining \in Nat,
         l.balances[account_id][TakerCurrency(req)].reserved >= 0,
         NEW reserved, NEW settled, NEW unsold, NEW surplus, NEW refunded,
         reserved = Reserve(l, account_id, ReserveOf(b, req).currency, ReserveOf(b, req).amount),
         settled = SettleAll(reserved, req.pair, a.trades),
         unsold = ReleaseUnsold(settled, account_id, req, a.taker_remaining),
         surplus = Surplus(req, a.trades),
         refunded = IF surplus > 0 THEN Release(unsold, account_id, req.pair.quote, surplus) ELSE unsold
  PROVE  /\ surplus > 0 => CanRelease(unsold, account_id, req.pair.quote, surplus)
         /\ \A x \in Accounts, y \in Currency :
              PlacedBalance(l, refunded, account_id, req, b, a, x, y)
<1>. DEFINE cur == TakerCurrency(req)
            H == ReserveOf(b, req).amount
            T == a.trades
            left == a.taker_remaining
            R == Refund(req, T, left)
            K == Kept(req, left)
            pair == req.pair
<1>1. /\ pair \in Pair /\ pair.base \in Currency /\ pair.quote \in Currency
      /\ req.side \in Side /\ req.order_type \in OrderType
  BY PairsAssumption, RequestFields DEF OrderRequest, Pair
<1>2. cur \in Currency /\ ReserveOf(b, req).currency = cur
  BY <1>1 DEF TakerCurrency, ReserveOf
<1>3. /\ R \in Nat /\ K \in Nat /\ H = DrawnBy(pair, T, account_id, cur) + R + K
      /\ DrawnBy(pair, T, account_id, cur) \in Nat
  BY SumTypes DEF AddedPays
<1>4. H \in Int /\ -H \in Int
  BY <1>3
<1>5. reserved \in LedgerValue /\ Moved(l, reserved, account_id, cur, -H, H)
  BY <1>2, <1>4, CreditMoves DEF Reserve
<1>6. settled \in LedgerValue
  BY <1>1, <1>5, SettleAllType
<1>7. ASSUME NEW x \in Accounts, NEW y \in Currency
      PROVE  /\ settled.balances[x][y].available =
                  reserved.balances[x][y].available + GainedBy(pair, T, x, y)
             /\ settled.balances[x][y].reserved =
                  reserved.balances[x][y].reserved - DrawnBy(pair, T, x, y)
  BY <1>1, <1>5, SettleAllMoves
<1>8. /\ surplus > 0 => unsold = settled /\ cur = pair.quote /\ surplus = R
      /\ refunded = IF R > 0 THEN Release(settled, account_id, cur, R) ELSE settled
  <2>1. CASE req.side = "Bid"
    <3>1. unsold = settled /\ surplus = R /\ cur = pair.quote
      BY <2>1 DEF ReleaseUnsold, Refund, TakerCurrency
    <3>. QED
      BY <3>1
  <2>2. CASE req.side = "Ask"
    <3>1. surplus = 0 /\ refunded = unsold /\ cur = pair.base
      BY <2>2 DEF Surplus, TakerCurrency
    <3>2. CASE req.order_type = "Market"
      <4>1. R = left
        BY <2>2, <3>2 DEF Refund
      <4>2. unsold = IF left > 0 THEN Release(settled, account_id, cur, left) ELSE settled
        BY <2>2, <3>1, <3>2 DEF ReleaseUnsold
      <4>. QED
        BY <3>1, <4>1, <4>2
    <3>3. CASE req.order_type = "Limit"
      <4>1. R = 0 /\ unsold = settled
        BY <2>2, <3>3 DEF Refund, ReleaseUnsold
      <4>. QED
        BY <3>1, <4>1
    <3>. QED
      BY <1>1, <3>2, <3>3 DEF OrderType
  <2>. QED
    BY <1>1, <2>1, <2>2 DEF Side
<1>. HIDE DEF cur, H, T, left, R, K, pair
<1>9. CanRelease(settled, account_id, cur, R)
  <2>1. reserved.balances[account_id][cur].reserved = l.balances[account_id][cur].reserved + H
    BY <1>2, <1>5 DEF Moved
  <2>2. settled.balances[account_id][cur].reserved =
          reserved.balances[account_id][cur].reserved - DrawnBy(pair, T, account_id, cur)
    BY <1>2, <1>7
  <2>3. l.balances[account_id][cur].reserved \in Int /\ l.balances[account_id][cur].reserved >= 0
    BY <1>2, BalanceFields DEF cur
  <2>4. settled.balances[account_id][cur].reserved >= R
    BY <1>3, <2>1, <2>2, <2>3
  <2>. QED
    BY <2>4 DEF CanRelease
<1>10. Moved(settled, refunded, account_id, cur, R, -R)
  <2>1. -R \in Int /\ R \in Int
    BY <1>3
  <2>2. CASE R > 0
    <3>1. refunded = Credit(settled, account_id, cur, R, -R)
      BY <1>8, <1>9, <2>2 DEF Release
    <3>. QED
      BY <1>2, <1>6, <2>1, <3>1, CreditMoves
  <2>3. CASE ~(R > 0)
    <3>1. R = 0 /\ refunded = settled
      BY <1>3, <1>8, <2>3
    <3>2. R \in Int /\ R >= 0 /\ R <= 0
      BY <2>1, <3>1
    <3>3. Moved(settled, settled, account_id, cur, R, -R)
      BY <1>2, <1>6, <3>2, NothingMoves
    <3>. QED
      BY <3>1, <3>3
  <2>. QED
    BY <2>2, <2>3
<1>11. ASSUME NEW x \in Accounts, NEW y \in Currency
       PROVE  PlacedBalance(l, refunded, account_id, req, b, a, x, y)
  <2>. DEFINE at == x = account_id /\ y = cur
  <2>1. /\ l.balances[x][y].available \in Int /\ l.balances[x][y].reserved \in Int
        /\ reserved.balances[x][y].available \in Int /\ reserved.balances[x][y].reserved \in Int
        /\ settled.balances[x][y].available \in Int /\ settled.balances[x][y].reserved \in Int
    BY <1>5, <1>6, BalanceFields
  <2>2. /\ reserved.balances[x][y].available = l.balances[x][y].available + (IF at THEN -H ELSE 0)
        /\ reserved.balances[x][y].reserved = l.balances[x][y].reserved + (IF at THEN H ELSE 0)
    BY <1>5 DEF Moved
  <2>3. /\ settled.balances[x][y].available = reserved.balances[x][y].available + GainedBy(pair, T, x, y)
        /\ settled.balances[x][y].reserved = reserved.balances[x][y].reserved - DrawnBy(pair, T, x, y)
    BY <1>7
  <2>4. /\ refunded.balances[x][y].available = settled.balances[x][y].available + (IF at THEN R ELSE 0)
        /\ refunded.balances[x][y].reserved = settled.balances[x][y].reserved + (IF at THEN -R ELSE 0)
    BY <1>10 DEF Moved
  <2>5. GainedBy(pair, T, x, y) \in Int /\ DrawnBy(pair, T, x, y) \in Int
    BY SumTypes DEF T
  <2>. HIDE DEF at
  <2>6. /\ refunded.balances[x][y].available =
             l.balances[x][y].available + GainedBy(pair, T, x, y) - (IF at THEN H - R ELSE 0)
        /\ refunded.balances[x][y].reserved =
             l.balances[x][y].reserved - DrawnBy(pair, T, x, y) + (IF at THEN H - R ELSE 0)
    <3>1. R \in Int /\ H \in Int
      BY <1>3, <1>4
    <3>. DEFINE u0 == l.balances[x][y].available  u1 == reserved.balances[x][y].available
                u2 == settled.balances[x][y].available  u3 == refunded.balances[x][y].available
                v0 == l.balances[x][y].reserved  v1 == reserved.balances[x][y].reserved
                v2 == settled.balances[x][y].reserved  v3 == refunded.balances[x][y].reserved
                g == GainedBy(pair, T, x, y)  d == DrawnBy(pair, T, x, y)
    <3>2. /\ u0 \in Int /\ v0 \in Int /\ g \in Int /\ d \in Int
          /\ u1 = u0 + (IF at THEN -H ELSE 0) /\ v1 = v0 + (IF at THEN H ELSE 0)
          /\ u2 = u1 + g /\ v2 = v1 - d
          /\ u3 = u2 + (IF at THEN R ELSE 0) /\ v3 = v2 + (IF at THEN -R ELSE 0)
      BY <2>1, <2>2, <2>3, <2>4, <2>5
    <3>. HIDE DEF u0, u1, u2, u3, v0, v1, v2, v3, g, d
    <3>3. /\ u3 = u0 + g - (IF at THEN H - R ELSE 0)
          /\ v3 = v0 - d + (IF at THEN H - R ELSE 0)
      <4>1. CASE at
        BY <3>1, <3>2, <4>1
      <4>2. CASE ~at
        BY <3>1, <3>2, <4>2
      <4>. QED
        BY <4>1, <4>2
    <3>. QED
      BY <3>3 DEF u0, u3, v0, v3, g, d
  <2>. QED
    BY <2>6 DEF PlacedBalance, at, cur, H, T, left, R, pair
<1>. QED
  BY <1>8, <1>9, <1>11 DEF pair

-----------------------------------------------------------------------------
(* The books and the balances together.                                    *)

\* Every reserved balance is what the account's open orders could still spend.
Backed(B, bal) ==
  \A a \in Accounts, c, d \in Currency : c # d =>
    bal[a][c].reserved =
      Pledged(RestingOn(B[[base |-> c, quote |-> d]], "Ask"), a)
        + Pledged(RestingOn(B[[base |-> d, quote |-> c]], "Bid"), a)

\* No balance is below zero.
Funded(bal) ==
  \A a \in Accounts, c \in Currency : bal[a][c].available >= 0 /\ bal[a][c].reserved >= 0

(* The inductive invariant: the engine's, the two about the balances, the  *)
(* u64 bound on resting orders, which bounds their trades' costs, and the  *)
(* bound on the asks under which market_buy_cost's sums do not wrap round. *)
LedgerInv ==
  /\ EngineInv
  /\ ReservedBacked
  /\ NoUnderflow
  /\ \A pair \in Markets : OrdersFit(books[pair])
  /\ BaseFits

\* The other market.
Flip(pair) == [base |-> pair.quote, quote |-> pair.base]

(* There are two markets, each the other's flip. *)
LEMMA TwoMarkets ==
  ASSUME NEW pair \in Markets
  PROVE  /\ pair \in Pair /\ IsValid(pair) /\ pair.base \in Currency /\ pair.quote \in Currency
         /\ pair.base # pair.quote
         /\ pair = [base |-> pair.base, quote |-> pair.quote]
         /\ Flip(pair) \in Markets /\ Flip(pair) # pair
         /\ \A c \in Currency : c = pair.base \/ c = pair.quote
  BY DEF Markets, Pair, IsValid, Currency, Flip

(* What resting orders pledge in a book is a natural. *)
LEMMA RestingPledgeType ==
  ASSUME NEW b \in Book, NEW side \in Side, NEW a
  PROVE  Pledged(RestingOn(b, side), a) \in Nat
<1>1. RestingOn(b, side) \in SUBSET Order
  BY RestingMember
<1>. QED
  BY <1>1, PledgedType

(* Backed, market by market. *)
LEMMA BackedInMarket ==
  ASSUME NEW B \in [Markets -> Book], NEW bal, Backed(B, bal), NEW pair \in Markets,
         NEW a \in Accounts
  PROVE  /\ bal[a][pair.base].reserved =
              Pledged(RestingOn(B[pair], "Ask"), a) + Pledged(RestingOn(B[Flip(pair)], "Bid"), a)
         /\ bal[a][pair.quote].reserved =
              Pledged(RestingOn(B[Flip(pair)], "Ask"), a) + Pledged(RestingOn(B[pair], "Bid"), a)
<1>. DEFINE c == pair.base  d == pair.quote
<1>1. /\ c \in Currency /\ d \in Currency /\ c # d
      /\ [base |-> c, quote |-> d] = pair /\ [base |-> d, quote |-> c] = Flip(pair)
  BY TwoMarkets DEF Flip
<1>. HIDE DEF c, d
<1>2. /\ bal[a][c].reserved =
           Pledged(RestingOn(B[[base |-> c, quote |-> d]], "Ask"), a)
             + Pledged(RestingOn(B[[base |-> d, quote |-> c]], "Bid"), a)
      /\ bal[a][d].reserved =
           Pledged(RestingOn(B[[base |-> d, quote |-> c]], "Ask"), a)
             + Pledged(RestingOn(B[[base |-> c, quote |-> d]], "Bid"), a)
  BY <1>1 DEF Backed
<1>. QED
  BY <1>1, <1>2 DEF c, d

\* The reserves moved from bal to new as the pledges did from book b to book k
\* of the market pair: its base with the asks, its quote with the bids.
Shifted(bal, new, pair, b, k) ==
  \A a \in Accounts :
    /\ new[a][pair.base].reserved = bal[a][pair.base].reserved
         + (Pledged(RestingOn(k, "Ask"), a) - Pledged(RestingOn(b, "Ask"), a))
    /\ new[a][pair.quote].reserved = bal[a][pair.quote].reserved
         + (Pledged(RestingOn(k, "Bid"), a) - Pledged(RestingOn(b, "Bid"), a))

(* A step in one market keeps the balances backed if the reserves move with*)
(* the pledges.                                                            *)
LEMMA BackedAfter ==
  ASSUME NEW B \in [Markets -> Book], NEW bal \in [Accounts -> [Currency -> Balance]],
         Backed(B, bal), NEW pair \in Markets, NEW k \in Book, NEW C,
         C = [B EXCEPT ![pair] = k], NEW new, Shifted(bal, new, pair, B[pair], k)
  PROVE  Backed(C, new)
<1>1. /\ pair.base # pair.quote /\ pair = [base |-> pair.base, quote |-> pair.quote]
      /\ Flip(pair) \in Markets /\ Flip(pair) # pair
      /\ \A c \in Currency : c = pair.base \/ c = pair.quote
  BY TwoMarkets
<1>. DEFINE f == Flip(pair)
<1>2. C[pair] = k /\ C[f] = B[f] /\ f \in Markets /\ B[pair] \in Book /\ B[f] \in Book
  BY <1>1
<1>3. ASSUME NEW a \in Accounts
      PROVE  /\ new[a][pair.base].reserved =
                  Pledged(RestingOn(k, "Ask"), a) + Pledged(RestingOn(B[f], "Bid"), a)
             /\ new[a][pair.quote].reserved =
                  Pledged(RestingOn(B[f], "Ask"), a) + Pledged(RestingOn(k, "Bid"), a)
  <2>. DEFINE u == Pledged(RestingOn(k, "Ask"), a)  v == Pledged(RestingOn(k, "Bid"), a)
              w == Pledged(RestingOn(B[pair], "Ask"), a)  x == Pledged(RestingOn(B[pair], "Bid"), a)
              y == Pledged(RestingOn(B[f], "Ask"), a)  z == Pledged(RestingOn(B[f], "Bid"), a)
              r == bal[a][pair.base].reserved  s == bal[a][pair.quote].reserved
              rr == new[a][pair.base].reserved  ss == new[a][pair.quote].reserved
  <2>1. u \in Nat /\ v \in Nat /\ w \in Nat /\ x \in Nat /\ y \in Nat /\ z \in Nat
    BY <1>2, RestingPledgeType DEF Side
  <2>2. r = w + z /\ s = y + x
    BY <1>2, BackedInMarket
  <2>3. rr = r + (u - w) /\ ss = s + (v - x)
    BY DEF Shifted
  <2>. HIDE DEF u, v, w, x, y, z, r, s, rr, ss
  <2>4. rr = u + z /\ ss = y + v
    BY <2>1, <2>2, <2>3
  <2>. QED
    BY <2>4 DEF u, v, y, z, rr, ss
<1>4. f = [base |-> pair.quote, quote |-> pair.base]
  BY DEF Flip
<1>. HIDE DEF f
<1>5. ASSUME NEW a \in Accounts, NEW c \in Currency, NEW d \in Currency, c # d
      PROVE  new[a][c].reserved =
               Pledged(RestingOn(C[[base |-> c, quote |-> d]], "Ask"), a)
                 + Pledged(RestingOn(C[[base |-> d, quote |-> c]], "Bid"), a)
  <2>1. CASE c = pair.base
    <3>1. d = pair.quote
      BY <1>1, <1>5, <2>1
    <3>2. [base |-> c, quote |-> d] = pair /\ [base |-> d, quote |-> c] = f
      BY <1>1, <1>4, <2>1, <3>1
    <3>. QED
      BY <1>2, <1>3, <2>1, <3>2
  <2>2. CASE c = pair.quote
    <3>1. d = pair.base
      BY <1>1, <1>5, <2>2
    <3>2. [base |-> c, quote |-> d] = f /\ [base |-> d, quote |-> c] = pair
      BY <1>1, <1>4, <2>2, <3>1
    <3>. QED
      BY <1>2, <1>3, <2>2, <3>2
  <2>. QED
    BY <1>1, <2>1, <2>2
<1>. QED
  BY <1>5 DEF Backed

(* A backed reserve is never below zero. *)
LEMMA BackedPositive ==
  ASSUME NEW B \in [Markets -> Book], NEW bal, Backed(B, bal), NEW a \in Accounts,
         NEW c \in Currency
  PROVE  bal[a][c].reserved >= 0
<1>1. PICK d \in Currency : c # d
  BY DEF Currency
<1>2. [base |-> c, quote |-> d] \in Markets /\ [base |-> d, quote |-> c] \in Markets
  BY <1>1 DEF Markets, Pair, IsValid
<1>. DEFINE u == Pledged(RestingOn(B[[base |-> c, quote |-> d]], "Ask"), a)
            v == Pledged(RestingOn(B[[base |-> d, quote |-> c]], "Bid"), a)
<1>3. u \in Nat /\ v \in Nat
  BY <1>2, RestingPledgeType DEF Side
<1>4. bal[a][c].reserved = u + v
  BY <1>1 DEF Backed
<1>. HIDE DEF u, v
<1>. QED
  BY <1>3, <1>4

(* What the invariant says of the state, in those terms. *)
LEMMA LedgerFacts ==
  ASSUME LedgerInv
  PROVE  /\ TypeOK /\ books \in [Markets -> Book]
         /\ balances \in [Accounts -> [Currency -> Balance]]
         /\ next_order_id \in Nat
         /\ Ledger0 \in LedgerValue /\ Ledger0.balances = balances
         /\ Backed(books, balances) /\ Funded(balances)
         /\ \A pair \in Markets : WellKept(books[pair], next_order_id) /\ OrdersFit(books[pair])
         /\ \A pair \in Markets : AsksFit(books[pair])
         /\ \A a \in Accounts, c \in Currency :
              balances[a][c].available \in Int /\ balances[a][c].reserved \in Int
<1>1. /\ EngineInv /\ TypeOK /\ Backed(books, balances) /\ Funded(balances)
      /\ \A pair \in Markets : WellKept(books[pair], next_order_id) /\ OrdersFit(books[pair])
      /\ \A pair \in Markets : AsksFit(books[pair])
  BY DEF LedgerInv, EngineInv, ReservedBacked, Backed, NoUnderflow, Funded, BaseFits
<1>2. Ledger0 \in LedgerValue /\ Ledger0.balances = balances
  BY <1>1, Ledger0Type DEF Ledger0
<1>3. /\ books \in [Markets -> Book] /\ next_order_id \in Nat
      /\ balances \in [Accounts -> [Currency -> Balance]]
  BY <1>1, MaxOrdersAssumption DEF TypeOK
<1>4. \A a \in Accounts, c \in Currency :
        balances[a][c].available \in Int /\ balances[a][c].reserved \in Int
  BY <1>3 DEF Balance
<1>. QED
  BY <1>1, <1>2, <1>3, <1>4

-----------------------------------------------------------------------------
(* Placing an order.                                                       *)

\* What an accepted place_order of account_id did, with the book b it found and
\* what add_order returned, r.
Placed(account_id, req, b, r) ==
  /\ AddedPays(b, account_id, req, r)
  /\ AddedFits(r)
  /\ r.book \in Book /\ r.trades \in Seq(Trade)
  /\ books' = [books EXCEPT ![req.pair] = r.book]
  /\ balances[account_id][TakerCurrency(req)].available >= ReserveOf(b, req).amount
  /\ \A x \in Accounts, y \in Currency :
       PlacedBalance(Ledger0, Ledger0', account_id, req, b, r, x, y)
  /\ response'.result = "Ok"
  /\ batch' # << >> /\ Len(batch') = 1
  /\ batch'[1].events.accepted # << >>
  /\ batch'[1].events.accepted[1].req = req
  /\ batch'[1].events.trades = r.trades

(* place_order, once accepted, reserves what it can pay for, settles its   *)
(* trades, hands the rest back and is answered Ok.                         *)
LEMMA PlaceEffect ==
  ASSUME LedgerInv, NEW account_id \in Accounts, NEW cid, NEW req \in OrderRequest,
         next_order_id < MaxOrders, PlaceAccepted(account_id, cid, req),
         NEW b, b = books[req.pair],
         NEW r, r = AddOrder(b, next_order_id, account_id, req)
  PROVE  req.pair \in Markets /\ b \in Book /\ Placed(account_id, req, b, r)
<1>. DEFINE n == next_order_id
            hold == ReserveOf(b, req)
            reserved == Reserve(Ledger0, account_id, hold.currency, hold.amount)
            settled == SettleAll(reserved, req.pair, r.trades)
            unsold == ReleaseUnsold(settled, account_id, req, r.taker_remaining)
            surplus == Surplus(req, r.trades)
            refused == surplus > 0 /\ ~CanRelease(unsold, account_id, req.pair.quote, surplus)
            refunded == IF surplus > 0 THEN Release(unsold, account_id, req.pair.quote, surplus)
                        ELSE unsold
            events == PlaceEvents(n, account_id, req, r)
<1>1. PlaceCheck(account_id, req) = "Ok"
  BY DEF PlaceAccepted
<1>2. /\ IsValid(req.pair) /\ Fits(QuoteAmount(b, req))
      /\ Covers(Ledger0, account_id, hold.currency, hold.amount)
  BY <1>1 DEF PlaceCheck
<1>3. req.pair \in Pair
  BY PairsAssumption DEF OrderRequest
<1>4. req.pair \in Markets
  BY <1>2, <1>3 DEF Markets
<1>5. /\ books \in [Markets -> Book] /\ n \in Nat /\ Ledger0 \in LedgerValue
      /\ Ledger0.balances = balances /\ Funded(balances)
      /\ WellKept(books[req.pair], n) /\ OrdersFit(books[req.pair]) /\ AsksFit(books[req.pair])
      /\ \A a \in Accounts, c \in Currency :
           balances[a][c].available \in Int /\ balances[a][c].reserved \in Int
  BY <1>4, LedgerFacts
<1>6. n \in OrderId
  BY <1>5, MaxOrdersAssumption DEF OrderId
<1>7. b \in Book /\ WellKept(b, n) /\ OrdersFit(b) /\ AsksFit(b)
  BY <1>4, <1>5
<1>8. /\ books' = [books EXCEPT ![req.pair] = r.book]
      /\ Respond("Place", IF refused THEN "InvalidAmount" ELSE "Ok")
      /\ Commit(IF refused THEN NoEvents ELSE events, refunded)
  BY DEF PlaceAccepted, PlaceMatched
<1>9. hold.currency = TakerCurrency(req) /\ TakerCurrency(req) \in Currency
  BY <1>3 DEF ReserveOf, TakerCurrency, Pair
<1>. HIDE DEF hold, n
<1>10. r.trades \in Seq(Trade) /\ r.taker_remaining \in Nat /\ r.book \in Book
  <2>1. Added(b, n, r)
    BY <1>6, <1>7, AddKeeps DEF n
  <2>. QED
    BY <2>1 DEF Added, WellKept
<1>11. AddedPays(b, account_id, req, r) /\ AddedFits(r)
  <2>1. AddedPays(b, account_id, req, r) /\ (Fits(QuoteAmount(b, req)) => AddedFits(r))
    BY <1>2, <1>6, <1>7, AddingPays DEF n
  <2>. QED
    BY <1>2, <2>1
<1>12. /\ surplus > 0 => CanRelease(unsold, account_id, req.pair.quote, surplus)
       /\ \A x \in Accounts, y \in Currency :
            PlacedBalance(Ledger0, refunded, account_id, req, b, r, x, y)
  <2>1. Ledger0.balances[account_id][TakerCurrency(req)].reserved >= 0
    BY <1>5, <1>9 DEF Funded
  <2>2. reserved = Reserve(Ledger0, account_id, ReserveOf(b, req).currency, ReserveOf(b, req).amount)
    BY DEF hold
  <2>3. settled = SettleAll(reserved, req.pair, r.trades)
    OBVIOUS
  <2>4. unsold = ReleaseUnsold(settled, account_id, req, r.taker_remaining)
    OBVIOUS
  <2>5. surplus = Surplus(req, r.trades)
    OBVIOUS
  <2>6. refunded = IF surplus > 0 THEN Release(unsold, account_id, req.pair.quote, surplus) ELSE unsold
    OBVIOUS
  <2>. HIDE DEF reserved, settled, unsold, surplus, refunded
  <2>. QED
    BY <1>2, <1>5, <1>7, <1>10, <1>11, <2>1, <2>2, <2>3, <2>4, <2>5, <2>6, PlaceLedger
<1>13. ~refused
  BY <1>12
<1>. HIDE DEF refunded, refused
<1>14. /\ events.accepted = << [order_id |-> n, account_id |-> account_id, req |-> req] >>
       /\ events.accepted # << >> /\ events.accepted[1].req = req
       /\ events.trades = r.trades
  BY DEF PlaceEvents, NoEvents
<1>15. events # NoEvents
  BY <1>14 DEF NoEvents
<1>. HIDE DEF events
<1>16. /\ balances' = refunded.balances /\ batch' # << >> /\ Len(batch') = 1 /\ batch'[1].events = events
  BY <1>8, <1>13, <1>15 DEF Commit
<1>17. \A x \in Accounts, y \in Currency :
         PlacedBalance(Ledger0, Ledger0', account_id, req, b, r, x, y)
  <2>1. Ledger0'.balances = refunded.balances
    BY <1>16 DEF Ledger0
  <2>. QED
    BY <1>12, <2>1 DEF PlacedBalance
<1>18. response'.result = "Ok"
  BY <1>8, <1>13 DEF Respond
<1>19. balances[account_id][TakerCurrency(req)].available >= ReserveOf(b, req).amount
  BY <1>2, <1>5, <1>9 DEF Covers, hold
<1>20. batch'[1].events.accepted # << >> /\ batch'[1].events.accepted[1].req = req
       /\ batch'[1].events.trades = r.trades
  BY <1>14, <1>16
<1>. QED
  BY <1>4, <1>7, <1>8, <1>10, <1>11, <1>16, <1>17, <1>18, <1>19, <1>20 DEF Placed

(* The reserves move with the two sides of the book. *)
LEMMA PlacedReserves ==
  ASSUME LedgerInv, NEW account_id \in Accounts, NEW req \in OrderRequest, req.pair \in Markets,
         NEW b \in Book, NEW r, Placed(account_id, req, b, r), NEW x \in Accounts
  PROVE  /\ balances'[x][MakerCurrency(req)].reserved = balances[x][MakerCurrency(req)].reserved
              + (Pledged(RestingOn(r.book, Opposite(req.side)), x)
                   - Pledged(RestingOn(b, Opposite(req.side)), x))
         /\ balances'[x][TakerCurrency(req)].reserved = balances[x][TakerCurrency(req)].reserved
              + (Pledged(RestingOn(r.book, req.side), x) - Pledged(RestingOn(b, req.side), x))
<1>. DEFINE mc == MakerCurrency(req)  tc == TakerCurrency(req)
            m0 == balances[x][mc].reserved  m1 == balances'[x][mc].reserved
            t0 == balances[x][tc].reserved  t1 == balances'[x][tc].reserved
            o0 == Pledged(RestingOn(b, Opposite(req.side)), x)
            o1 == Pledged(RestingOn(r.book, Opposite(req.side)), x)
            s0 == Pledged(RestingOn(b, req.side), x)
            s1 == Pledged(RestingOn(r.book, req.side), x)
            dm == DrawnBy(req.pair, r.trades, x, mc)
            dt == DrawnBy(req.pair, r.trades, x, tc)
            H == ReserveOf(b, req).amount
            R == Refund(req, r.trades, r.taker_remaining)
            K == Kept(req, r.taker_remaining)
<1>1. mc \in Currency /\ tc \in Currency /\ mc # tc
  BY TwoMarkets DEF MakerCurrency, TakerCurrency
<1>2. /\ Ledger0.balances = balances /\ Ledger0'.balances = balances'
      /\ m0 \in Int /\ t0 \in Int
  BY <1>1, LedgerFacts DEF Ledger0
<1>3. /\ r.book \in Book /\ r.trades \in Seq(Trade) /\ AddedPays(b, account_id, req, r)
      /\ PlacedBalance(Ledger0, Ledger0', account_id, req, b, r, x, mc)
      /\ PlacedBalance(Ledger0, Ledger0', account_id, req, b, r, x, tc)
  BY <1>1 DEF Placed
<1>4. req.side \in Side /\ Opposite(req.side) \in Side
  BY RequestFields
<1>5. o0 \in Nat /\ o1 \in Nat /\ s0 \in Nat /\ s1 \in Nat
  BY <1>3, <1>4, RestingPledgeType
<1>6. dm \in Nat /\ dt \in Nat
  BY <1>3, SumTypes
<1>7. /\ o1 = o0 - dm
      /\ s1 = s0 + (IF x = account_id THEN K ELSE 0)
      /\ x # account_id => dt = 0
      /\ R \in Nat /\ K \in Nat
      /\ x = account_id => H = dt + R + K
  BY <1>3 DEF AddedPays
<1>8. m1 = m0 - dm + 0 /\ t1 = t0 - dt + (IF x = account_id THEN H - R ELSE 0)
  BY <1>1, <1>2, <1>3 DEF PlacedBalance
<1>. HIDE DEF m0, m1, t0, t1, o0, o1, s0, s1, dm, dt, H, R, K
<1>9. m1 = m0 + (o1 - o0)
  BY <1>2, <1>5, <1>6, <1>7, <1>8
<1>10. t1 = t0 + (s1 - s0)
  <2>1. CASE x = account_id
    BY <1>2, <1>5, <1>6, <1>7, <1>8, <2>1
  <2>2. CASE x # account_id
    BY <1>2, <1>5, <1>6, <1>7, <1>8, <2>2
  <2>. QED
    BY <2>1, <2>2
<1>. QED
  BY <1>9, <1>10 DEF m0, m1, t0, t1, o0, o1, s0, s1, mc, tc

(* An accepted order keeps reserves backed, balances at zero or above and  *)
(* every open order within a u64.                                          *)
LEMMA PlacedKeeps ==
  ASSUME LedgerInv, NEW account_id \in Accounts, NEW req \in OrderRequest, req.pair \in Markets,
         NEW b \in Book, b = books[req.pair], NEW r, Placed(account_id, req, b, r)
  PROVE  /\ Backed(books', balances') /\ Funded(balances')
         /\ \A pair \in Markets : OrdersFit(books'[pair])
<1>. DEFINE pair == req.pair
<1>1. /\ books \in [Markets -> Book] /\ balances \in [Accounts -> [Currency -> Balance]]
      /\ Backed(books, balances) /\ Funded(balances)
      /\ Ledger0 \in LedgerValue /\ Ledger0.balances = balances /\ Ledger0'.balances = balances'
      /\ \A p \in Markets : OrdersFit(books[p])
      /\ \A a \in Accounts, c \in Currency :
           balances[a][c].available \in Int /\ balances[a][c].reserved \in Int
  BY LedgerFacts DEF Ledger0
<1>2. /\ AddedPays(b, account_id, req, r) /\ AddedFits(r)
      /\ r.book \in Book /\ r.trades \in Seq(Trade)
      /\ books' = [books EXCEPT ![pair] = r.book]
      /\ balances[account_id][TakerCurrency(req)].available >= ReserveOf(b, req).amount
      /\ \A x \in Accounts, y \in Currency :
           PlacedBalance(Ledger0, Ledger0', account_id, req, b, r, x, y)
  BY DEF Placed
<1>3. ASSUME NEW x \in Accounts
      PROVE  /\ balances'[x][pair.base].reserved = balances[x][pair.base].reserved
                  + (Pledged(RestingOn(r.book, "Ask"), x) - Pledged(RestingOn(books[pair], "Ask"), x))
             /\ balances'[x][pair.quote].reserved = balances[x][pair.quote].reserved
                  + (Pledged(RestingOn(r.book, "Bid"), x) - Pledged(RestingOn(books[pair], "Bid"), x))
  <2>1. /\ balances'[x][MakerCurrency(req)].reserved = balances[x][MakerCurrency(req)].reserved
             + (Pledged(RestingOn(r.book, Opposite(req.side)), x)
                  - Pledged(RestingOn(b, Opposite(req.side)), x))
        /\ balances'[x][TakerCurrency(req)].reserved = balances[x][TakerCurrency(req)].reserved
             + (Pledged(RestingOn(r.book, req.side), x) - Pledged(RestingOn(b, req.side), x))
    BY PlacedReserves
  <2>2. CASE req.side = "Bid"
    <3>1. /\ MakerCurrency(req) = pair.base /\ TakerCurrency(req) = pair.quote
          /\ Opposite(req.side) = "Ask"
      BY <2>2 DEF MakerCurrency, TakerCurrency, Opposite
    <3>. QED
      BY <2>1, <2>2, <3>1
  <2>3. CASE req.side = "Ask"
    <3>1. /\ MakerCurrency(req) = pair.quote /\ TakerCurrency(req) = pair.base
          /\ Opposite(req.side) = "Bid"
      BY <2>3 DEF MakerCurrency, TakerCurrency, Opposite
    <3>. QED
      BY <2>1, <2>3, <3>1
  <2>4. req.side \in Side
    BY RequestFields
  <2>. QED
    BY <2>2, <2>3, <2>4 DEF Side
<1>. HIDE DEF pair
<1>4. Backed(books', balances')
  <2>. DEFINE B == books  C == books'  bal == balances  new == balances'  k == r.book
  <2>1. /\ B \in [Markets -> Book] /\ bal \in [Accounts -> [Currency -> Balance]]
        /\ Backed(B, bal) /\ pair \in Markets /\ k \in Book /\ C = [B EXCEPT ![pair] = k]
    BY <1>1, <1>2 DEF pair
  <2>2. Shifted(bal, new, pair, B[pair], k)
    BY <1>3 DEF Shifted
  <2>. HIDE DEF B, C, bal, new, k
  <2>3. Backed(C, new)
    BY <2>1, <2>2, BackedAfter
  <2>. QED
    BY <2>3 DEF C, new
<1>5. \A p \in Markets : OrdersFit(books'[p])
  <2>1. OrdersFit(r.book)
    BY <1>2 DEF AddedFits
  <2>2. \A p \in Markets : books'[p] = r.book \/ books'[p] = books[p]
    BY <1>1, <1>2
  <2>. QED
    BY <1>1, <2>1, <2>2
<1>6. books' \in [Markets -> Book]
  BY <1>1, <1>2
<1>7. ASSUME NEW x \in Accounts, NEW y \in Currency
      PROVE  balances'[x][y].available >= 0 /\ balances'[x][y].reserved >= 0
  <2>. DEFINE v0 == balances[x][y].available  v1 == balances'[x][y].available
              g == GainedBy(req.pair, r.trades, x, y)
              H == ReserveOf(b, req).amount
              R == Refund(req, r.trades, r.taker_remaining)
              D == DrawnBy(req.pair, r.trades, account_id, TakerCurrency(req))
              K == Kept(req, r.taker_remaining)
              at == x = account_id /\ y = TakerCurrency(req)
  <2>1. balances'[x][y].reserved >= 0
    BY <1>4, <1>6, BackedPositive
  <2>2. v0 \in Int /\ v0 >= 0 /\ (at => v0 >= H)
    BY <1>1, <1>2 DEF Funded
  <2>3. g \in Nat /\ D \in Nat
    BY <1>2, SumTypes
  <2>4. R \in Nat /\ K \in Nat /\ H = D + R + K
    BY <1>2 DEF AddedPays
  <2>5. v1 = v0 + g - (IF at THEN H - R ELSE 0)
    <3>1. PlacedBalance(Ledger0, Ledger0', account_id, req, b, r, x, y)
      BY <1>2
    <3>. QED
      BY <1>1, <3>1 DEF PlacedBalance
  <2>. HIDE DEF v0, v1, g, H, R, D, K, at
  <2>6. v1 >= 0
    BY <2>2, <2>3, <2>4, <2>5
  <2>. QED
    BY <2>1, <2>6 DEF v1
<1>. QED
  BY <1>4, <1>5, <1>7 DEF Funded

(* What an accepted order moves into an account is what its trades say. *)
LEMMA PlacedExplained ==
  ASSUME LedgerInv, NEW account_id \in Accounts, NEW req \in OrderRequest, req.pair \in Markets,
         NEW b \in Book, NEW r, Placed(account_id, req, b, r),
         NEW x \in Accounts, NEW y \in Currency
  PROVE  Held(balances', x, y) - Held(balances, x, y) = NetOfTrades(x, y)'
<1>. DEFINE T == r.trades
            net == SumTo([i \in 1 .. Len(T) |-> NetOfTrade(req.pair, T[i], x, y)], Len(T))
            v0 == balances[x][y].available  v1 == balances'[x][y].available
            w0 == balances[x][y].reserved  w1 == balances'[x][y].reserved
            g == GainedBy(req.pair, T, x, y)  d == DrawnBy(req.pair, T, x, y)
            H == ReserveOf(b, req).amount
            R == Refund(req, r.trades, r.taker_remaining)
            D == DrawnBy(req.pair, r.trades, account_id, TakerCurrency(req))
            K == Kept(req, r.taker_remaining)
            at == x = account_id /\ y = TakerCurrency(req)
<1>1. NetOfTrades(x, y)' = net
  <2>1. /\ batch' # << >> /\ batch'[1].events.accepted # << >>
        /\ batch'[1].events.accepted[1].req = req /\ batch'[1].events.trades = T
    BY DEF Placed
  <2>. QED
    BY <2>1 DEF NetOfTrades
<1>2. T \in Seq(Trade) /\ AddedPays(b, account_id, req, r)
      /\ PlacedBalance(Ledger0, Ledger0', account_id, req, b, r, x, y)
  BY DEF Placed
<1>3. net = g - d
  <2>. DEFINE p == req.pair
  <2>1. p \in Pair /\ IsValid(p)
    BY TwoMarkets
  <2>. HIDE DEF p, T
  <2>2. SumTo([i \in 1 .. Len(T) |-> NetOfTrade(p, T[i], x, y)], Len(T)) =
          GainedBy(p, T, x, y) - DrawnBy(p, T, x, y)
    BY <1>2, <2>1, NetIsGainLessDraw
  <2>. QED
    BY <2>2 DEF p
<1>4. /\ Ledger0.balances = balances /\ Ledger0'.balances = balances'
      /\ v0 \in Int /\ w0 \in Int
  BY LedgerFacts DEF Ledger0
<1>5. g \in Nat /\ d \in Nat /\ D \in Nat
  BY <1>2, SumTypes
<1>6. R \in Nat /\ K \in Nat /\ H = D + R + K
  BY <1>2 DEF AddedPays
<1>7. /\ v1 = v0 + g - (IF at THEN H - R ELSE 0)
      /\ w1 = w0 - d + (IF at THEN H - R ELSE 0)
  BY <1>2, <1>4 DEF PlacedBalance
<1>8. Held(balances', x, y) = v1 + w1 /\ Held(balances, x, y) = v0 + w0
  BY DEF Held
<1>. HIDE DEF net, v0, v1, w0, w1, g, d, H, R, D, K, at
<1>9. (v1 + w1) - (v0 + w0) = g - d
  BY <1>4, <1>5, <1>6, <1>7
<1>. QED
  BY <1>1, <1>3, <1>8, <1>9

-----------------------------------------------------------------------------
(* Cancelling an order.                                                    *)

\* What an accepted cancel_order did: order o of the market pair, which rested
\* in book b, is gone from book c, and what it could still spend is available.
\* Its level is the only one to change and the one that is reported.
Freed(pair, b, c, o) ==
  /\ pair \in Markets /\ b = books[pair] /\ b \in Book /\ c \in Book /\ o \in Order
  /\ books' = [books EXCEPT ![pair] = c]
  /\ o \in RestingOn(b, o.side) /\ OwnIds(RestingOn(b, o.side))
  /\ RestingOn(c, o.side) = RestingOn(b, o.side) \ {o}
  /\ \A side \in Side : side # o.side => RestingOn(c, side) = RestingOn(b, side)
  /\ Commit(CancelEvents(pair, CancelOrder(b, o.id)),
            Release(Ledger0, o.account_id, IF o.side = "Bid" THEN pair.quote ELSE pair.base,
                    Spendable(o)))
  /\ CancelOrder(b, o.id).removed = o
  /\ CancelOrder(b, o.id).book_deltas = TakeDirtyLevels(c, {<<o.side, o.price>>})
  /\ \A side \in Side, price \in Prices :
       ~(side = o.side /\ price = o.price) => c.queue[side][price] = b.queue[side][price]
  /\ next_order_id' = next_order_id

(* cancel_order, once accepted, does that to one resting order. *)
LEMMA CancelFrees ==
  ASSUME LedgerInv, NEW account_id, NEW cid, NEW id \in OrderId,
         CancelAccepted(account_id, cid, id)
  PROVE  \E pair, b, c, o : Freed(pair, b, c, o)
<1>. DEFINE pair == order_pair[id]
            b == books[pair]
            r == CancelOrder(b, id)
            c == r.book
            o == r.removed
            hold == Commitment(pair, o)
            at == b.order_index[id]
            q == b.queue[at.side][at.price]
            i == Position(q, id)
<1>1. /\ TypeOK /\ books \in [Markets -> Book] /\ next_order_id \in Nat
      /\ \A p \in Markets : WellKept(books[p], next_order_id)
  BY LedgerFacts
<1>2. id \in DOMAIN order_pair /\ CanCancel(b, account_id, id)
  BY DEF CancelAccepted, Cancellable
<1>3. pair \in Markets
  BY <1>1, <1>2, MapMember DEF TypeOK
<1>4. /\ b = books[pair] /\ b \in Book /\ Indexed(b) /\ InOrder(b, next_order_id)
  BY <1>1, <1>3 DEF WellKept
<1>5. /\ books' = [books EXCEPT ![pair] = c] /\ next_order_id' = next_order_id
      /\ Commit(CancelEvents(pair, r), Release(Ledger0, o.account_id, hold.currency, hold.amount))
  BY DEF CancelAccepted
<1>6. Cancelled(b, c, id, at, q)
  <2>. HIDE DEF b
  <2>. QED
    BY <1>2, <1>4, CancelEffect
<1>. HIDE DEF pair, b, c, q
<1>7. /\ at.side \in Side /\ at.price \in Prices /\ q \in Seq(Order)
      /\ i \in 1 .. Len(q) /\ q[i].id = id /\ o = q[i] /\ c \in Book
  BY <1>6 DEF Cancelled
<1>8. o \in Order /\ o.id = id
  BY <1>7
<1>9. o.side = at.side /\ o.price = at.price
  <2>1. Located(b, at.side, at.price, b.queue[at.side][at.price][i])
    BY <1>4, <1>7 DEF Indexed, q
  <2>. QED
    BY <1>7, <2>1 DEF Located, q
<1>10. PlaceOf(b, id, at, q, o)
  BY <1>7 DEF PlaceOf, q
<1>11. /\ r.book_deltas = TakeDirtyLevels(c, {<<at.side, at.price>>})
       /\ \A side \in Side, price \in Prices :
            ~(side = at.side /\ price = at.price) => c.queue[side][price] = b.queue[side][price]
  <2>1. r.book_deltas = TakeDirtyLevels(c, {<<at.side, at.price>>})
    BY DEF CancelOrder, c
  <2>2. CancelledBook(b, c, id, i)
    BY <1>6 DEF Cancelled
  <2>. QED
    BY <2>1, <2>2 DEF CancelledBook
<1>. HIDE DEF i, o, at
<1>12. /\ o \in RestingOn(b, at.side)
       /\ RestingOn(c, at.side) = RestingOn(b, at.side) \ {o}
       /\ \A side \in Side : side # at.side => RestingOn(c, side) = RestingOn(b, side)
  BY <1>1, <1>4, <1>6, <1>10, CancelledResting
<1>13. OwnIds(RestingOn(b, o.side))
  BY <1>1, <1>4, <1>7, <1>9, RestingOwnIds
<1>14. hold = [currency |-> IF o.side = "Bid" THEN pair.quote ELSE pair.base,
               amount |-> Spendable(o)]
  <2>1. o.price \in Nat /\ o.remaining_size \in Nat
    BY <1>8, OrderFields, PricesAssumption
  <2>2. o.remaining_size * o.price = o.price * o.remaining_size
    BY <2>1
  <2>. QED
    BY <2>2 DEF Commitment, Spendable
<1>. HIDE DEF hold, r
<1>15. Commit(CancelEvents(pair, CancelOrder(b, o.id)),
              Release(Ledger0, o.account_id, IF o.side = "Bid" THEN pair.quote ELSE pair.base,
                      Spendable(o)))
  <2>1. r = CancelOrder(b, o.id)
    BY <1>8 DEF r
  <2>. QED
    BY <1>5, <1>14, <2>1
<1>16. /\ CancelOrder(b, o.id).removed = o
       /\ CancelOrder(b, o.id).book_deltas = TakeDirtyLevels(c, {<<o.side, o.price>>})
  <2>1. r = CancelOrder(b, o.id)
    BY <1>8 DEF r
  <2>2. r.removed = o
    BY DEF o
  <2>. QED
    BY <1>9, <1>11, <2>1, <2>2
<1>17. Freed(pair, b, c, o)
  BY <1>3, <1>4, <1>5, <1>7, <1>8, <1>9, <1>11, <1>12, <1>13, <1>15, <1>16 DEF Freed
<1>. QED
  BY <1>17

(* A cancelled order had in reserve what it could still spend, so that     *)
(* release is never refused: it moves that from reserved to available.     *)
LEMMA FreedMoves ==
  ASSUME LedgerInv, NEW pair, NEW b, NEW c, NEW o, Freed(pair, b, c, o)
  PROVE  /\ Moved(Ledger0, Ledger0', o.account_id,
                  IF o.side = "Bid" THEN pair.quote ELSE pair.base, Spendable(o), -Spendable(o))
         /\ \A x \in Accounts :
              Pledged(RestingOn(c, o.side), x) = Pledged(RestingOn(b, o.side), x)
                - (IF o.account_id = x THEN Spendable(o) ELSE 0)
<1>. DEFINE cur == IF o.side = "Bid" THEN pair.quote ELSE pair.base
            a == o.account_id
            v == Spendable(o)
            f == Flip(pair)
            side == o.side
            l == Release(Ledger0, a, cur, v)
            S == RestingOn(b, side)
<1>1. /\ pair \in Markets /\ b = books[pair] /\ b \in Book /\ c \in Book /\ o \in Order
      /\ o \in S /\ OwnIds(S) /\ RestingOn(c, side) = S \ {o}
      /\ Commit(CancelEvents(pair, CancelOrder(b, o.id)), l)
  BY DEF Freed
<1>2. /\ books \in [Markets -> Book] /\ Backed(books, balances)
      /\ Ledger0 \in LedgerValue /\ Ledger0.balances = balances
  BY LedgerFacts
<1>3. /\ pair.base \in Currency /\ pair.quote \in Currency /\ f \in Markets
  BY <1>1, TwoMarkets
<1>4. side \in Side /\ a \in Accounts /\ v \in Nat
  BY <1>1, OrderFields, SpendableType
<1>5. cur \in Currency
  BY <1>3
<1>6. S \in SUBSET Order
  BY <1>1, <1>4, RestingMember
<1>7. ASSUME NEW x \in Accounts
      PROVE  Pledged(RestingOn(c, side), x) = Pledged(S, x) - (IF a = x THEN v ELSE 0)
  BY <1>1, <1>6, PledgedLess
<1>8. v <= Pledged(S, a)
  <2>. DEFINE u == Pledged(RestingOn(c, side), a)  w == Pledged(S, a)
  <2>1. u \in Nat /\ w \in Nat
    BY <1>1, <1>4, RestingPledgeType
  <2>2. u = w - v
    BY <1>4, <1>7
  <2>. HIDE DEF u, w, v
  <2>3. v <= w
    BY <1>4, <2>1, <2>2
  <2>. QED
    BY <2>3 DEF w
<1>9. balances[a][cur].reserved >= v
  <2>1. /\ balances[a][pair.base].reserved =
             Pledged(RestingOn(b, "Ask"), a) + Pledged(RestingOn(books[f], "Bid"), a)
        /\ balances[a][pair.quote].reserved =
             Pledged(RestingOn(books[f], "Ask"), a) + Pledged(RestingOn(b, "Bid"), a)
    BY <1>1, <1>2, <1>4, BackedInMarket
  <2>2. /\ Pledged(RestingOn(books[f], "Bid"), a) \in Nat
        /\ Pledged(RestingOn(books[f], "Ask"), a) \in Nat
        /\ Pledged(RestingOn(b, "Bid"), a) \in Nat
        /\ Pledged(RestingOn(b, "Ask"), a) \in Nat
    BY <1>1, <1>2, <1>3, RestingPledgeType DEF Side
  <2>3. CASE side = "Bid"
    BY <1>4, <1>8, <2>1, <2>2, <2>3
  <2>4. CASE side = "Ask"
    BY <1>4, <1>8, <2>1, <2>2, <2>4
  <2>. QED
    BY <1>4, <2>3, <2>4 DEF Side
<1>. HIDE DEF cur, a, v, f, side, S
<1>10. l = Credit(Ledger0, a, cur, v, -v)
  BY <1>2, <1>9 DEF Release, CanRelease
<1>11. Moved(Ledger0, l, a, cur, v, -v)
  BY <1>2, <1>4, <1>5, <1>10, CreditMoves
<1>12. Ledger0'.balances = l.balances
  BY <1>1 DEF Commit, Ledger0
<1>. HIDE DEF l
<1>13. Moved(Ledger0, Ledger0', a, cur, v, -v)
  BY <1>11, <1>12 DEF Moved
<1>. QED
  BY <1>7, <1>13 DEF cur, a, v, side, S

(* A cancel keeps reserves backed, balances at zero or above and every     *)
(* open order within a u64, and moves nothing between accounts.            *)
LEMMA FreedKeeps ==
  ASSUME LedgerInv, NEW pair, NEW b, NEW c, NEW o, Freed(pair, b, c, o)
  PROVE  /\ Backed(books', balances') /\ Funded(balances')
         /\ \A p \in Markets : OrdersFit(books'[p])
         /\ \A x \in Accounts, y \in Currency : Held(balances', x, y) = Held(balances, x, y)
<1>. DEFINE cur == IF o.side = "Bid" THEN pair.quote ELSE pair.base
            a == o.account_id
            v == Spendable(o)
<1>1. /\ pair \in Markets /\ b = books[pair] /\ b \in Book /\ c \in Book /\ o \in Order
      /\ RestingOn(c, o.side) = RestingOn(b, o.side) \ {o}
      /\ \A side \in Side : side # o.side => RestingOn(c, side) = RestingOn(b, side)
      /\ books' = [books EXCEPT ![pair] = c]
  BY DEF Freed
<1>2. /\ books \in [Markets -> Book] /\ balances \in [Accounts -> [Currency -> Balance]]
      /\ Backed(books, balances) /\ Funded(balances)
      /\ Ledger0.balances = balances /\ Ledger0'.balances = balances'
      /\ \A p \in Markets : OrdersFit(books[p])
      /\ \A x \in Accounts, y \in Currency :
           balances[x][y].available \in Int /\ balances[x][y].reserved \in Int
  BY LedgerFacts DEF Ledger0
<1>3. /\ Moved(Ledger0, Ledger0', a, cur, v, -v)
      /\ \A x \in Accounts :
           Pledged(RestingOn(c, o.side), x) = Pledged(RestingOn(b, o.side), x)
             - (IF a = x THEN v ELSE 0)
  BY FreedMoves
<1>4. o.side \in Side /\ a \in Accounts /\ v \in Nat
  BY <1>1, OrderFields, SpendableType
<1>5. /\ pair.base \in Currency /\ pair.quote \in Currency /\ pair.base # pair.quote
  BY <1>1, TwoMarkets
<1>6. ASSUME NEW x \in Accounts, NEW y \in Currency
      PROVE  /\ balances'[x][y].available =
                  balances[x][y].available + (IF x = a /\ y = cur THEN v ELSE 0)
             /\ balances'[x][y].reserved =
                  balances[x][y].reserved + (IF x = a /\ y = cur THEN -v ELSE 0)
  BY <1>2, <1>3 DEF Moved
<1>7. Shifted(balances, balances', pair, b, c)
  <2>. SUFFICES ASSUME NEW x \in Accounts
                PROVE  /\ balances'[x][pair.base].reserved = balances[x][pair.base].reserved
                            + (Pledged(RestingOn(c, "Ask"), x) - Pledged(RestingOn(b, "Ask"), x))
                       /\ balances'[x][pair.quote].reserved = balances[x][pair.quote].reserved
                            + (Pledged(RestingOn(c, "Bid"), x) - Pledged(RestingOn(b, "Bid"), x))
    BY DEF Shifted
  <2>. DEFINE s0 == Pledged(RestingOn(b, "Ask"), x)  s1 == Pledged(RestingOn(c, "Ask"), x)
              t0 == Pledged(RestingOn(b, "Bid"), x)  t1 == Pledged(RestingOn(c, "Bid"), x)
              m0 == balances[x][pair.base].reserved  m1 == balances'[x][pair.base].reserved
              n0 == balances[x][pair.quote].reserved  n1 == balances'[x][pair.quote].reserved
              mine == IF x = a THEN v ELSE 0
  <2>1. /\ s0 \in Nat /\ s1 \in Nat /\ t0 \in Nat /\ t1 \in Nat /\ m0 \in Int /\ n0 \in Int
        /\ mine \in Nat
    BY <1>1, <1>2, <1>4, <1>5, RestingPledgeType DEF Side
  <2>2. CASE o.side = "Bid"
    <3>1. s1 = s0 /\ t1 = t0 - mine
      BY <1>1, <1>3, <2>2 DEF Side
    <3>2. m1 = m0 + 0 /\ n1 = n0 + (IF x = a THEN -v ELSE 0)
      BY <1>5, <1>6, <2>2
    <3>3. (IF x = a THEN -v ELSE 0) = -mine
      BY <1>4
    <3>. HIDE DEF s0, s1, t0, t1, m0, m1, n0, n1, mine
    <3>4. m1 = m0 + (s1 - s0) /\ n1 = n0 + (t1 - t0)
      BY <2>1, <3>1, <3>2, <3>3
    <3>. QED
      BY <3>4 DEF s0, s1, t0, t1, m0, m1, n0, n1
  <2>3. CASE o.side = "Ask"
    <3>1. t1 = t0 /\ s1 = s0 - mine
      BY <1>1, <1>3, <2>3 DEF Side
    <3>2. n1 = n0 + 0 /\ m1 = m0 + (IF x = a THEN -v ELSE 0)
      BY <1>5, <1>6, <2>3
    <3>3. (IF x = a THEN -v ELSE 0) = -mine
      BY <1>4
    <3>. HIDE DEF s0, s1, t0, t1, m0, m1, n0, n1, mine
    <3>4. m1 = m0 + (s1 - s0) /\ n1 = n0 + (t1 - t0)
      BY <2>1, <3>1, <3>2, <3>3
    <3>. QED
      BY <3>4 DEF s0, s1, t0, t1, m0, m1, n0, n1
  <2>. QED
    BY <1>4, <2>2, <2>3 DEF Side
<1>. HIDE DEF cur, v, a
<1>8. Backed(books', balances')
  <2>. DEFINE B == books  C == books'  bal == balances  new == balances'
  <2>1. /\ B \in [Markets -> Book] /\ bal \in [Accounts -> [Currency -> Balance]]
        /\ Backed(B, bal) /\ C = [B EXCEPT ![pair] = c] /\ Shifted(bal, new, pair, B[pair], c)
    BY <1>1, <1>2, <1>7
  <2>. HIDE DEF B, C, bal, new
  <2>2. Backed(C, new)
    BY <1>1, <2>1, BackedAfter
  <2>. QED
    BY <2>2 DEF C, new
<1>9. books' \in [Markets -> Book]
  BY <1>1, <1>2
<1>10. \A p \in Markets : OrdersFit(books'[p])
  <2>1. \A side \in Side : RestingOn(c, side) \subseteq RestingOn(b, side)
    BY <1>1
  <2>2. OrdersFit(c)
    BY <1>1, <1>2, <2>1 DEF OrdersFit
  <2>3. \A p \in Markets : books'[p] = c \/ books'[p] = books[p]
    BY <1>1, <1>2
  <2>. QED
    BY <1>2, <2>2, <2>3
<1>11. ASSUME NEW x \in Accounts, NEW y \in Currency
       PROVE  /\ balances'[x][y].available >= 0 /\ balances'[x][y].reserved >= 0
              /\ Held(balances', x, y) = Held(balances, x, y)
  <2>. DEFINE v0 == balances[x][y].available  v1 == balances'[x][y].available
              w0 == balances[x][y].reserved  w1 == balances'[x][y].reserved
              at == x = a /\ y = cur
  <2>1. v0 \in Int /\ v0 >= 0 /\ w0 \in Int
    BY <1>2 DEF Funded
  <2>2. v1 = v0 + (IF at THEN v ELSE 0) /\ w1 = w0 + (IF at THEN -v ELSE 0)
    BY <1>6
  <2>3. w1 >= 0
    BY <1>8, <1>9, BackedPositive
  <2>4. Held(balances', x, y) = v1 + w1 /\ Held(balances, x, y) = v0 + w0
    BY DEF Held
  <2>. HIDE DEF v0, v1, w0, w1, at
  <2>5. v1 >= 0 /\ v1 + w1 = v0 + w0
    BY <1>4, <2>1, <2>2
  <2>. QED
    BY <2>3, <2>4, <2>5 DEF v1, w1
<1>. QED
  BY <1>8, <1>10, <1>11 DEF Funded

-----------------------------------------------------------------------------
(* Every command.                                                          *)

\* What the action properties say of one step.
Explained ==
  response'.command \notin {"Deposit", "Withdraw"} =>
    \A a \in Accounts, c \in Currency :
      Held(balances', a, c) - Held(balances, a, c) = NetOfTrades(a, c)'
Harmless ==
  response'.result # "Ok" =>
    UNCHANGED <<books, order_pair, next_order_id, next_seq, balances>>
TradesFit ==
  \A i \in 1 .. Len(batch') :
    \A k \in 1 .. Len(batch'[i].events.trades) :
      Fits(batch'[i].events.trades[k].price * batch'[i].events.trades[k].qty)

\* What a step must leave behind, and those three.
StepGood ==
  /\ Backed(books', balances') /\ Funded(balances')
  /\ \A pair \in Markets : OrdersFit(books'[pair])
  /\ Explained /\ Harmless /\ TradesFit

(* Events without an order and without trades move nothing. *)
LEMMA SilentEvents ==
  ASSUME NEW events, NEW l, Commit(events, l), events.accepted = << >>, events.trades = << >>
  PROVE  TradesFit /\ \A a \in Accounts, c \in Currency : NetOfTrades(a, c)' = 0
<1>1. batch' = << >> \/ (Len(batch') = 1 /\ batch'[1].events = events)
  BY DEF Commit
<1>2. CASE batch' = << >>
  BY <1>2 DEF TradesFit, NetOfTrades
<1>3. CASE Len(batch') = 1 /\ batch'[1].events = events
  BY <1>3 DEF TradesFit, NetOfTrades
<1>. QED
  BY <1>1, <1>2, <1>3

(* A command that commits nothing changes no balance and emits nothing. *)
LEMMA NothingCommitted ==
  ASSUME Commit(NoEvents, Ledger0)
  PROVE  balances' = balances /\ next_seq' = next_seq /\ batch' = << >>
  BY DEF Commit, Ledger0

(* Books and balances left alone keep all they had. *)
LEMMA UntouchedGood ==
  ASSUME LedgerInv, books' = books, balances' = balances, batch' = << >>, Harmless
  PROVE  StepGood
<1>1. /\ Backed(books, balances) /\ Funded(balances)
      /\ \A pair \in Markets : OrdersFit(books[pair])
      /\ \A a \in Accounts, c \in Currency :
           balances[a][c].available \in Int /\ balances[a][c].reserved \in Int
  BY LedgerFacts
<1>2. Backed(books', balances') /\ Funded(balances') /\ \A pair \in Markets : OrdersFit(books'[pair])
  BY <1>1
<1>3. ASSUME NEW a \in Accounts, NEW c \in Currency
      PROVE  Held(balances', a, c) - Held(balances, a, c) = NetOfTrades(a, c)'
  <2>1. NetOfTrades(a, c)' = 0
    BY DEF NetOfTrades
  <2>2. Held(balances, a, c) \in Int /\ Held(balances', a, c) = Held(balances, a, c)
    BY <1>1 DEF Held
  <2>. QED
    BY <2>1, <2>2
<1>4. TradesFit
  BY DEF TradesFit
<1>. QED
  BY <1>2, <1>3, <1>4 DEF StepGood, Explained

(* A deposit or withdrawal moves the available balance alone. *)
LEMMA FundsGood ==
  ASSUME LedgerInv, books' = books, NEW a \in Accounts, NEW c \in Currency, NEW u \in Int,
         balances[a][c].available + u >= 0, Commit(NoEvents, Credit(Ledger0, a, c, u, 0)),
         response'.result = "Ok", response'.command \in {"Deposit", "Withdraw"}
  PROVE  StepGood
<1>1. /\ Backed(books, balances) /\ Funded(balances)
      /\ Ledger0 \in LedgerValue /\ Ledger0.balances = balances
      /\ \A pair \in Markets : OrdersFit(books[pair])
      /\ \A x \in Accounts, y \in Currency :
           balances[x][y].available \in Int /\ balances[x][y].reserved \in Int
  BY LedgerFacts
<1>. DEFINE l == Credit(Ledger0, a, c, u, 0)
<1>2. Moved(Ledger0, l, a, c, u, 0)
  BY <1>1, CreditMoves
<1>3. balances' = l.balances
  BY DEF Commit
<1>. HIDE DEF l
<1>4. ASSUME NEW x \in Accounts, NEW y \in Currency
      PROVE  /\ balances'[x][y].available =
                  balances[x][y].available + (IF x = a /\ y = c THEN u ELSE 0)
             /\ balances'[x][y].reserved = balances[x][y].reserved
  BY <1>1, <1>2, <1>3 DEF Moved
<1>5. Backed(books', balances')
  BY <1>1, <1>4 DEF Backed
<1>6. Funded(balances')
  <2>. SUFFICES ASSUME NEW x \in Accounts, NEW y \in Currency
                PROVE  balances'[x][y].available >= 0 /\ balances'[x][y].reserved >= 0
    BY DEF Funded
  <2>. QED
    BY <1>1, <1>4 DEF Funded
<1>7. TradesFit
  BY SilentEvents DEF NoEvents
<1>. QED
  BY <1>1, <1>5, <1>6, <1>7 DEF StepGood, Explained, Harmless

(* place_order: an accepted order is Placed, a rejected one changes nothing. *)
LEMMA PlaceGood ==
  ASSUME LedgerInv, NEW a \in Accounts, NEW x, NEW req \in OrderRequest, Place(a, x, req)
  PROVE  StepGood
<1>1. CASE PlaceAccepted(a, x, req)
  <2>. DEFINE b == books[req.pair]  r == AddOrder(b, next_order_id, a, req)
  <2>1. req.pair \in Markets /\ b \in Book /\ Placed(a, req, b, r)
    BY <1>1, PlaceEffect DEF Place
  <2>2. b = books[req.pair]
    OBVIOUS
  <2>. HIDE DEF b, r
  <2>3. /\ Backed(books', balances') /\ Funded(balances')
        /\ \A pair \in Markets : OrdersFit(books'[pair])
    BY <2>1, <2>2, PlacedKeeps
  <2>4. \A y \in Accounts, c \in Currency :
          Held(balances', y, c) - Held(balances, y, c) = NetOfTrades(y, c)'
    BY <2>1, PlacedExplained
  <2>5. /\ response'.result = "Ok" /\ Len(batch') = 1 /\ batch'[1].events.trades = r.trades
        /\ AddedFits(r)
    BY <2>1 DEF Placed
  <2>6. TradesFit
    BY <2>5 DEF TradesFit, AddedFits
  <2>. QED
    BY <2>3, <2>4, <2>5, <2>6 DEF StepGood, Explained, Harmless
<1>2. CASE PlaceRejected(a, x, req)
  <2>1. Commit(NoEvents, Ledger0) /\ UNCHANGED <<books, order_pair, next_order_id>>
    BY <1>2 DEF PlaceRejected
  <2>2. balances' = balances /\ next_seq' = next_seq /\ batch' = << >>
    BY <2>1, NothingCommitted
  <2>. QED
    BY <2>1, <2>2, UntouchedGood DEF Harmless
<1>. QED
  BY <1>1, <1>2 DEF Place

(* cancel_order: an accepted cancel frees one order, a failed one nothing. *)
LEMMA CancelGood ==
  ASSUME LedgerInv, NEW a \in Accounts, NEW x, NEW id \in OrderId, Cancel(a, x, id)
  PROVE  StepGood
<1>1. CASE CancelAccepted(a, x, id)
  <2>1. PICK pair, b, c, o : Freed(pair, b, c, o)
    BY <1>1, CancelFrees
  <2>2. /\ Backed(books', balances') /\ Funded(balances')
        /\ \A p \in Markets : OrdersFit(books'[p])
        /\ \A y \in Accounts, d \in Currency : Held(balances', y, d) = Held(balances, y, d)
    BY <2>1, FreedKeeps
  <2>. DEFINE events == CancelEvents(pair, CancelOrder(b, o.id))
  <2>3. events.accepted = << >> /\ events.trades = << >>
    BY DEF CancelEvents, NoEvents
  <2>. HIDE DEF events
  <2>4. \E l : Commit(events, l)
    BY <2>1 DEF Freed, events
  <2>5. TradesFit /\ \A y \in Accounts, d \in Currency : NetOfTrades(y, d)' = 0
    BY <2>3, <2>4, SilentEvents
  <2>6. \A y \in Accounts, d \in Currency :
          balances[y][d].available \in Int /\ balances[y][d].reserved \in Int
    BY LedgerFacts
  <2>7. ASSUME NEW y \in Accounts, NEW d \in Currency
        PROVE  Held(balances', y, d) - Held(balances, y, d) = NetOfTrades(y, d)'
    <3>1. Held(balances, y, d) \in Int
      BY <2>6 DEF Held
    <3>. QED
      BY <2>2, <2>5, <3>1
  <2>8. response'.result = "Ok"
    BY <1>1 DEF CancelAccepted, Respond
  <2>. QED
    BY <2>2, <2>5, <2>7, <2>8 DEF StepGood, Explained, Harmless
<1>2. CASE CancelRejected(a, x, id)
  <2>1. Commit(NoEvents, Ledger0) /\ UNCHANGED <<books, order_pair, next_order_id>>
    BY <1>2 DEF CancelRejected
  <2>2. balances' = balances /\ next_seq' = next_seq /\ batch' = << >>
    BY <2>1, NothingCommitted
  <2>. QED
    BY <2>1, <2>2, UntouchedGood DEF Harmless
<1>. QED
  BY <1>1, <1>2 DEF Cancel

(* deposit: credited or refused. *)
LEMMA DepositGood ==
  ASSUME LedgerInv, NEW a \in Accounts, NEW x, NEW c \in Currency, NEW n \in Amounts,
         DepositCmd(a, x, c, n)
  PROVE  StepGood
<1>1. /\ Respond("Deposit", DepositCheck(a, c, n))
      /\ Commit(NoEvents, IF DepositCheck(a, c, n) = "Ok" THEN Deposit(Ledger0, a, c, n) ELSE Ledger0)
      /\ UNCHANGED <<books, order_pair, next_order_id>>
  BY DEF DepositCmd
<1>2. n \in Nat /\ n \in Int
  BY AmountsAssumption
<1>3. balances[a][c].available \in Int /\ balances[a][c].available >= 0
  BY LedgerFacts DEF Funded
<1>4. CASE DepositCheck(a, c, n) = "Ok"
  <2>1. Commit(NoEvents, Credit(Ledger0, a, c, n, 0))
    BY <1>1, <1>4 DEF Deposit
  <2>2. response'.result = "Ok" /\ response'.command = "Deposit"
    BY <1>1, <1>4 DEF Respond
  <2>3. balances[a][c].available + n >= 0
    BY <1>2, <1>3
  <2>. QED
    BY <1>1, <1>2, <2>1, <2>2, <2>3, FundsGood
<1>5. CASE DepositCheck(a, c, n) # "Ok"
  <2>1. balances' = balances /\ next_seq' = next_seq /\ batch' = << >>
    BY <1>1, <1>5, NothingCommitted
  <2>. QED
    BY <1>1, <2>1, UntouchedGood DEF Harmless
<1>. QED
  BY <1>4, <1>5

(* withdraw: debited out of available or refused. *)
LEMMA WithdrawGood ==
  ASSUME LedgerInv, NEW a \in Accounts, NEW x, NEW c \in Currency, NEW n \in Amounts,
         WithdrawCmd(a, x, c, n)
  PROVE  StepGood
<1>. DEFINE ok == Covers(Ledger0, a, c, n)
<1>1. /\ Respond("Withdraw", IF ok THEN "Ok" ELSE "InsufficientFunds")
      /\ Commit(NoEvents, IF ok THEN Withdraw(Ledger0, a, c, n) ELSE Ledger0)
      /\ UNCHANGED <<books, order_pair, next_order_id>>
  BY DEF WithdrawCmd
<1>2. n \in Nat /\ -n \in Int
  BY AmountsAssumption
<1>3. balances[a][c].available \in Int /\ (ok => balances[a][c].available >= n)
  BY LedgerFacts DEF Covers
<1>. HIDE DEF ok
<1>4. CASE ok
  <2>1. Commit(NoEvents, Credit(Ledger0, a, c, -n, 0))
    BY <1>1, <1>4 DEF Withdraw
  <2>2. response'.result = "Ok" /\ response'.command = "Withdraw"
    BY <1>1, <1>4 DEF Respond
  <2>3. balances[a][c].available + (-n) >= 0
    BY <1>2, <1>3, <1>4
  <2>. QED
    BY <1>1, <1>2, <2>1, <2>2, <2>3, FundsGood
<1>5. CASE ~ok
  <2>1. balances' = balances /\ next_seq' = next_seq /\ batch' = << >>
    BY <1>1, <1>5, NothingCommitted
  <2>. QED
    BY <1>1, <2>1, UntouchedGood DEF Harmless
<1>. QED
  BY <1>4, <1>5

(* No command breaks any of it. *)
LEMMA StepsGood == LedgerInv /\ Next => StepGood
<1>. SUFFICES ASSUME LedgerInv, Next PROVE StepGood
  OBVIOUS
<1>1. PICK a \in Accounts, x \in ClientIds : Apply(a, x)
  BY DEF Next
<1>2. ASSUME NEW pair \in Pairs, ListPair(a, x, pair) \/ DelistPair(a, x, pair)
      PROVE  StepGood
  <2>1. Commit(NoEvents, Ledger0) /\ UNCHANGED <<books, order_pair, next_order_id>>
    BY <1>2 DEF ListPair, DelistPair
  <2>2. balances' = balances /\ next_seq' = next_seq /\ batch' = << >>
    BY <2>1, NothingCommitted
  <2>. QED
    BY <2>1, <2>2, UntouchedGood DEF Harmless
<1>3. CASE Duplicate(a, x)
  <2>1. /\ UNCHANGED <<books, order_pair, next_order_id, next_seq, balances>>
        /\ batch' = << >>
    BY <1>3 DEF Duplicate
  <2>. QED
    BY <2>1, UntouchedGood DEF Harmless
<1>. QED
  BY <1>1, <1>2, <1>3, PlaceGood, CancelGood, DepositGood, WithdrawGood DEF Apply

(* Without orders an account pledges nothing. *)
LEMMA PledgedNone ==
  ASSUME NEW a
  PROVE  Pledged({}, a) = 0
<1>. DEFINE e == [n \in 1 .. MaxOrders |-> Pledge({}, a, n - 1)]
<1>1. \A n \in 1 .. MaxOrders : e[n] = 0
  BY DEF Pledge
<1>2. e \in [1 .. MaxOrders -> Int]
  <2>1. e = [n \in 1 .. MaxOrders |-> e[n]]
    OBVIOUS
  <2>. HIDE DEF e
  <2>. QED
    BY <1>1, <2>1
<1>. HIDE DEF e
<1>3. \A n \in 1 .. MaxOrders : e[n] = e[n] - e[n]
  BY <1>1
<1>4. SumTo(e, MaxOrders) = SumTo(e, MaxOrders) - SumTo(e, MaxOrders)
  BY <1>2, <1>3, MaxOrdersAssumption, SumMinus
<1>5. MaxOrders \in 0 .. MaxOrders
  BY MaxOrdersAssumption
<1>6. SumTo(e, MaxOrders) \in Int
  BY <1>2, <1>5, MaxOrdersAssumption, SumOver
<1>7. SumTo(e, MaxOrders) = 0
  BY <1>4, <1>6
<1>. QED
  BY <1>7 DEF Pledged, e

(* A new engine has nothing reserved and nothing resting. *)
LEMMA InitLedger == Init => LedgerInv
<1>. SUFFICES ASSUME Init PROVE LedgerInv
  OBVIOUS
<1>1. EngineInv
  BY InitInv
<1>2. /\ books = [pair \in Markets |-> EmptyBook]
      /\ balances = [a \in Accounts |-> [c \in Currency |-> [available |-> 0, reserved |-> 0]]]
  BY DEF Init
<1>3. NoUnderflow
  BY <1>2 DEF NoUnderflow
<1>4. RestingOn(EmptyBook, "Bid") = {} /\ RestingOn(EmptyBook, "Ask") = {}
  BY EmptyWellKept, RestingMember DEF EmptyBook, Side
<1>5. \A pair \in Markets : OrdersFit(books[pair])
  BY <1>2, <1>4 DEF OrdersFit, Side
<1>6. \A a : Pledged({}, a) = 0
  BY PledgedNone
<1>7. ReservedBacked
  <2>. SUFFICES ASSUME NEW a \in Accounts, NEW c \in Currency, NEW d \in Currency, c # d
                PROVE  balances[a][c].reserved =
                         Pledged(RestingOn(books[[base |-> c, quote |-> d]], "Ask"), a)
                           + Pledged(RestingOn(books[[base |-> d, quote |-> c]], "Bid"), a)
    BY DEF ReservedBacked
  <2>1. [base |-> c, quote |-> d] \in Markets /\ [base |-> d, quote |-> c] \in Markets
    BY DEF Markets, Pair, IsValid
  <2>2. /\ books[[base |-> c, quote |-> d]] = EmptyBook
        /\ books[[base |-> d, quote |-> c]] = EmptyBook
        /\ balances[a][c].reserved = 0
    BY <1>2, <2>1
  <2>. QED
    BY <1>4, <1>6, <2>2
<1>8. BaseFits
  <2>. SUFFICES ASSUME NEW pair \in Markets, NEW price \in Prices
                PROVE  Fits(LevelTotal(books[pair], "Ask", price))
    BY DEF BaseFits, AsksFit
  <2>1. EmptyBook.queue["Ask"][price] = << >>
    BY DEF EmptyBook, Side
  <2>. DEFINE q == EmptyBook.queue["Ask"][price]
              e == [i \in 1 .. Len(q) |-> q[i].remaining_size]
  <2>2. LevelTotal(books[pair], "Ask", price) = SumTo(e, Len(q))
    BY <1>2 DEF LevelTotal
  <2>3. q \in Seq(Order) /\ Len(q) = 0
    BY <2>1
  <2>. HIDE DEF q
  <2>4. e \in [1 .. Len(q) -> Int] /\ Len(q) \in Nat
    BY <2>3, LevelTerms
  <2>. HIDE DEF e
  <2>5. SumTo(e, 0) = 0
    BY <2>4, SumOver
  <2>. QED
    BY <2>2, <2>3, <2>5, U64MaxAssumption DEF Fits
<1>. QED
  BY <1>1, <1>3, <1>5, <1>7, <1>8 DEF LedgerInv

(* Every command keeps the invariant. *)
LEMMA NextLedger == LedgerInv /\ [Next]_vars => LedgerInv'
<1>. SUFFICES ASSUME LedgerInv, [Next]_vars PROVE LedgerInv'
  OBVIOUS
<1>1. EngineInv'
  BY NextInv DEF LedgerInv
<1>2. CASE Next
  <2>1. StepGood
    BY <1>2, StepsGood
  <2>2. BaseFits'
    BY <1>2 DEF Next
  <2>. QED
    BY <1>1, <2>1, <2>2 DEF StepGood, LedgerInv, Backed, Funded, ReservedBacked, NoUnderflow
<1>3. CASE UNCHANGED vars
  <2>1. books' = books /\ balances' = balances
    BY <1>3 DEF vars
  <2>. QED
    BY <1>1, <2>1 DEF LedgerInv, ReservedBacked, NoUnderflow, BaseFits
<1>. QED
  BY <1>2, <1>3

(* The ledger and the books never drift apart: the inductive invariant,    *)
(* for every instance.                                                     *)
THEOREM LedgerInvariant == Spec => []LedgerInv
  BY InitLedger, NextLedger, PTL DEF Spec

(* Every reserved balance is exactly what the account's open orders could  *)
(* still spend, after any commands (reserve, settle, release and the       *)
(* surplus refund of place_order and cancel_order agree).                  *)
THEOREM ReservesBacked == Spec => []ReservedBacked
<1>1. LedgerInv => ReservedBacked
  BY DEF LedgerInv
<1>. QED
  BY <1>1, LedgerInvariant, PTL

(* No unchecked subtraction of the ledger (settle in ledger.rs) takes a    *)
(* balance below zero.                                                     *)
THEOREM NeverOverdrawn == Spec => []NoUnderflow
<1>1. LedgerInv => NoUnderflow
  BY DEF LedgerInv
<1>. QED
  BY <1>1, LedgerInvariant, PTL

(* What market_buy_cost walks before matching is what the fills then cost. *)
THEOREM WalkIsExact == Spec => []WalkedCostExact
<1>1. LedgerInv => WalkedCostExact
  <2>. SUFFICES ASSUME LedgerInv, NEW req \in OrderRequest, NEW a \in Accounts,
                       next_order_id < MaxOrders, IsValid(req.pair),
                       req.side = "Bid", req.order_type = "Market"
                PROVE  MarketBuyCost(books[req.pair], req.size) =
                         CostOf(AddOrder(books[req.pair], next_order_id, a, req).trades)
    BY DEF WalkedCostExact
  <2>. DEFINE b == books[req.pair]  r == AddOrder(b, next_order_id, a, req)
  <2>1. req.pair \in Markets
    BY PairsAssumption DEF OrderRequest, Markets
  <2>2. WellKept(b, next_order_id) /\ OrdersFit(b) /\ AsksFit(b) /\ next_order_id \in Nat
    BY <2>1, LedgerFacts
  <2>3. next_order_id \in OrderId
    BY <2>2, MaxOrdersAssumption DEF OrderId
  <2>4. r = AddOrder(b, next_order_id, a, req)
    OBVIOUS
  <2>. HIDE DEF b, r
  <2>5. AddedWalked(b, req, r)
    BY <2>2, <2>3, <2>4, AddingPays
  <2>. QED
    BY <2>5 DEF AddedWalked, b, r
<1>. QED
  BY <1>1, LedgerInvariant, PTL

(* Apart from deposits and withdrawals, an account's holding changes by    *)
(* what the emitted trades say and by nothing else.                        *)
THEOREM HoldingsExplained == Spec => TradesExplainHoldings
<1>1. LedgerInv /\ [Next]_vars =>
        [response'.command \notin {"Deposit", "Withdraw"} =>
           \A a \in Accounts, c \in Currency :
             Held(balances', a, c) - Held(balances, a, c) = NetOfTrades(a, c)']_vars
  BY StepsGood DEF StepGood, Explained
<1>. QED
  BY <1>1, LedgerInvariant, PTL DEF Spec, TradesExplainHoldings

(* A Duplicate and a refused listing or delisting keep what they find; the *)
(* other commands never list or delist.                                    *)
LEMMA ListingsKept ==
  ASSUME Next, response'.result # "Ok" \/ response'.command = "Duplicate"
  PROVE  /\ listed_pairs' = listed_pairs
         /\ response'.result = "Ok" =>
              UNCHANGED <<books, order_pair, next_order_id, next_seq, balances>>
<1>1. PICK a \in Accounts, x \in ClientIds : Apply(a, x)
  BY DEF Next
<1>2. ASSUME NEW req, Place(a, x, req)
      PROVE  listed_pairs' = listed_pairs /\ response'.command = "Place"
  BY <1>2 DEF Place, PlaceAccepted, PlaceRejected, PlaceMatched, Respond
<1>3. ASSUME NEW id, Cancel(a, x, id)
      PROVE  listed_pairs' = listed_pairs /\ response'.command = "Cancel"
  BY <1>3 DEF Cancel, CancelAccepted, CancelRejected, Respond
<1>4. ASSUME NEW c, NEW n, DepositCmd(a, x, c, n) \/ WithdrawCmd(a, x, c, n)
      PROVE  listed_pairs' = listed_pairs /\ response'.command \in {"Deposit", "Withdraw"}
  BY <1>4 DEF DepositCmd, WithdrawCmd, Respond
<1>5. ASSUME NEW pair, ListPair(a, x, pair) \/ DelistPair(a, x, pair)
      PROVE  /\ response'.command \in {"ListPair", "DelistPair"}
             /\ response'.result # "Ok" => listed_pairs' = listed_pairs
  BY <1>5 DEF ListPair, DelistPair, Respond
<1>6. Duplicate(a, x) =>
        UNCHANGED <<books, order_pair, next_order_id, next_seq, balances, listed_pairs>>
  BY DEF Duplicate
<1>. QED
  BY <1>1, <1>2, <1>3, <1>4, <1>5, <1>6 DEF Apply

(* A command answered with an error, a failed cancel or a Duplicate leaves *)
(* books, balances, markets, ids and the sequence number alone; in         *)
(* particular place_order never fails after it has matched.                *)
THEOREM RefusalsHarmless == Spec => RefusalChangesNothing
<1>1. LedgerInv /\ [Next]_vars =>
        [response'.result # "Ok" \/ response'.command = "Duplicate" =>
           UNCHANGED <<books, order_pair, next_order_id, next_seq, balances, listed_pairs>>]_vars
  <2>. SUFFICES ASSUME LedgerInv, Next,
                       response'.result # "Ok" \/ response'.command = "Duplicate"
                PROVE  UNCHANGED <<books, order_pair, next_order_id, next_seq, balances,
                                   listed_pairs>>
    OBVIOUS
  <2>1. listed_pairs' = listed_pairs
    BY ListingsKept
  <2>2. response'.result # "Ok" => UNCHANGED <<books, order_pair, next_order_id, next_seq, balances>>
    BY StepsGood DEF StepGood, Harmless
  <2>3. response'.result = "Ok" => UNCHANGED <<books, order_pair, next_order_id, next_seq, balances>>
    BY ListingsKept
  <2>. QED
    BY <2>1, <2>2, <2>3
<1>. QED
  BY <1>1, LedgerInvariant, PTL DEF Spec, RefusalChangesNothing

(* Every emitted trade's cost fits a u64, so the expect() in settle never  *)
(* stops the engine.                                                       *)
THEOREM SettleNeverOverflows == Spec => TradeCostFits
<1>1. LedgerInv /\ [Next]_vars =>
        [\A i \in 1 .. Len(batch') :
           \A k \in 1 .. Len(batch'[i].events.trades) :
             Fits(batch'[i].events.trades[k].price * batch'[i].events.trades[k].qty)]_vars
  BY StepsGood DEF StepGood, TradesFit
<1>. QED
  BY <1>1, LedgerInvariant, PTL DEF Spec, TradeCostFits
=============================================================================
