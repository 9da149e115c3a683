----------------------------- MODULE LoopsProofs -----------------------------
(***************************************************************************)
(* Induction for loops.  A set of naturals that holds 0 and is closed under*)
(* successor is Nat; from it, Loop(F, x) is the function its recursion     *)
(* describes, and a set of loop states closed under the body is never left.*)
(***************************************************************************)
EXTENDS Loops, WellFoundedInduction, TLAPS

(* Every non-empty set of naturals has a least element. *)
LEMMA LeastNat ==
  ASSUME NEW T \in SUBSET Nat, T # {}
  PROVE  \E m \in T : \A k \in T : m <= k
<1>1. PICK x \in T : \A y \in T : ~ (<<y, x>> \in OpToRel(<, Nat))
  BY NatLessThanWellFounded, WFMin, Zenon
<1>2. \A y \in T : ~(y < x)
  BY <1>1, Zenon DEF OpToRel
<1>. QED
  BY <1>2

(* Every non-empty bounded set of naturals has a greatest element. *)
LEMMA GreatestNat ==
  ASSUME NEW T \in SUBSET Nat, T # {}, NEW b \in Nat, \A k \in T : k <= b
  PROVE  \E m \in T : \A k \in T : k <= m
<1>. DEFINE D == {n \in Nat : \E k \in T : n = b - k}
<1>1. D \in SUBSET Nat /\ D # {}
  <2>1. PICK k \in T : TRUE
    OBVIOUS
  <2>2. b - k \in D
    BY <2>1
  <2>. QED
    BY <2>2
<1>2. PICK d \in D : \A n \in D : d <= n
  <2>. HIDE DEF D
  <2>. QED
    BY <1>1, LeastNat
<1>3. PICK m \in T : d = b - m
  BY <1>2
<1>4. ASSUME NEW k \in T PROVE k <= m
  <2>1. b - k \in D /\ k \in Nat /\ m \in Nat
    BY <1>4
  <2>2. d <= b - k
    BY <1>2, <2>1
  <2>. QED
    BY <1>3, <2>1, <2>2
<1>. QED
  BY <1>4

(* Induction on Nat for a set given as such. *)
LEMMA SetInduction ==
  ASSUME NEW T \in SUBSET Nat, 0 \in T, \A n \in T : n + 1 \in T
  PROVE  T = Nat
<1>. SUFFICES ASSUME Nat \ T # {} PROVE FALSE
  OBVIOUS
<1>1. PICK m \in Nat \ T : \A k \in Nat \ T : m <= k
  BY LeastNat
<1>2. m - 1 \in T
  BY <1>1
<1>. QED
  BY <1>2

(* Loop(F, x) starts at x and applies the body of iteration n + 1 to the   *)
(* state after n iterations: the recursive definition defines a function.  *)
(* S holds x and what the body makes of a member of S.                     *)
LEMMA LoopWithin ==
  ASSUME NEW S, NEW x \in S, NEW F, \A n \in Nat : \A s \in S : F[n][s] \in S
  PROVE  /\ Loop(F, x) \in [Nat -> S]
         /\ Loop(F, x)[0] = x
         /\ \A n \in Nat : Loop(F, x)[n+1] = F[n+1][Loop(F, x)[n]]
<1>. DEFINE Run(n) == {g \in [0 .. n -> S] :
                         g[0] = x /\ \A i \in 0 .. (n-1) : g[i+1] = F[i+1][g[i]]}
            D(f) == [n \in Nat |-> IF n = 0 THEN x ELSE F[n][f[n-1]]]
<1>1. \A n \in Nat : Run(n) # {}
  <2>. DEFINE T == {n \in Nat : Run(n) # {}}
  <2>1. 0 \in T
    <3>1. [i \in 0 .. 0 |-> x] \in Run(0)
      OBVIOUS
    <3>. QED
      BY <3>1
  <2>2. ASSUME NEW n \in T PROVE n + 1 \in T
    <3>1. PICK g \in Run(n) : TRUE
      OBVIOUS
    <3>. DEFINE h == [i \in 0 .. (n+1) |-> IF i <= n THEN g[i] ELSE F[n+1][g[n]]]
    <3>2. g \in [0 .. n -> S] /\ g[0] = x /\ \A i \in 0 .. (n-1) : g[i+1] = F[i+1][g[i]]
      BY <3>1
    <3>3. F[n+1][g[n]] \in S /\ g[n] \in S
      BY <3>2
    <3>4. h \in [0 .. (n+1) -> S]
      BY <3>2, <3>3
    <3>5. h[0] = x
      BY <3>2
    <3>6. \A i \in 0 .. n : h[i+1] = F[i+1][h[i]]
      BY <3>2
    <3>. HIDE DEF h
    <3>7. h \in Run(n+1)
      BY <3>4, <3>5, <3>6
    <3>. HIDE DEF Run
    <3>. QED
      BY <3>7
  <2>3. T = Nat
    BY <2>1, <2>2, SetInduction
  <2>. QED
    BY <2>3
<1>2. ASSUME NEW n \in Nat, NEW m \in Nat, NEW g \in Run(n), NEW h \in Run(m)
      PROVE  \A i \in Nat : i <= n /\ i <= m => g[i] = h[i]
  <2>. DEFINE U == {i \in Nat : i <= n /\ i <= m => g[i] = h[i]}
  <2>1. 0 \in U
    OBVIOUS
  <2>2. ASSUME NEW i \in U PROVE i + 1 \in U
    OBVIOUS
  <2>3. U = Nat
    BY <2>1, <2>2, SetInduction
  <2>. QED
    BY <2>3
<1>. DEFINE run(n) == CHOOSE g \in Run(n) : TRUE
            w == [n \in Nat |-> run(n)[n]]
<1>3. \A n \in Nat : run(n) \in Run(n)
  <2>. HIDE DEF Run
  <2>. QED
    BY <1>1
<1>. HIDE DEF run
<1>4. w \in [Nat -> S] /\ w[0] = x
  <2>1. \A n \in Nat : run(n)[n] \in S /\ run(n)[0] = x
    BY <1>3
  <2>. QED
    BY <2>1
<1>5. ASSUME NEW n \in Nat PROVE w[n+1] = F[n+1][w[n]]
  <2>1. run(n+1) \in Run(n+1) /\ run(n) \in Run(n)
    <3>. HIDE DEF Run
    <3>. QED
      BY <1>3
  <2>2. run(n+1)[n] = run(n)[n]
    <3>. HIDE DEF Run
    <3>. n + 1 \in Nat /\ n <= n /\ n <= n + 1
      OBVIOUS
    <3>. QED
      BY <1>2, <2>1
  <2>3. run(n+1)[n+1] = F[n+1][run(n+1)[n]]
    BY <2>1
  <2>. QED
    BY <2>2, <2>3
<1>6. w = D(w)
  <2>. HIDE DEF w
  <2>1. \A n \in Nat : w[n] = IF n = 0 THEN x ELSE F[n][w[n-1]]
    <3>. TAKE n \in Nat
    <3>1. CASE n = 0
      BY <3>1, <1>4
    <3>2. CASE n # 0
      <4>1. n - 1 \in Nat /\ (n - 1) + 1 = n
        BY <3>2
      <4>2. w[(n-1)+1] = F[(n-1)+1][w[n-1]]
        BY <4>1, <1>5
      <4>. QED
        BY <4>1, <4>2, <3>2
    <3>. QED
      BY <3>1, <3>2
  <2>. QED
    BY <2>1, <1>4
<1>. DEFINE L == Loop(F, x)
<1>7. L = D(L)
  <2>. HIDE DEF w, D
  <2>1. \E f : f = D(f)
    BY <1>6
  <2>2. (CHOOSE f : f = D(f)) = D(CHOOSE f : f = D(f))
    BY <2>1, Zenon
  <2>. QED
    BY <2>2, Zenon DEF Loop, D
<1>. HIDE DEF L, w
<1>8. L[0] = x
  BY <1>7
<1>9. \A n \in Nat : L[n+1] = F[n+1][L[n]]
  <2>. TAKE n \in Nat
  <2>. n + 1 \in Nat /\ n + 1 # 0 /\ (n + 1) - 1 = n
    OBVIOUS
  <2>. QED
    BY <1>7
<1>10. \A n \in Nat : L[n] \in S
  <2>. DEFINE U == {n \in Nat : L[n] \in S}
  <2>1. 0 \in U
    BY <1>8
  <2>2. ASSUME NEW n \in U PROVE n + 1 \in U
    <3>. n + 1 \in Nat
      OBVIOUS
    <3>. QED
      BY <1>9
  <2>3. U = Nat
    BY <2>1, <2>2, SetInduction
  <2>. QED
    BY <2>3
<1>11. L \in [Nat -> S]
  BY <1>7, <1>10
<1>. QED
  BY <1>8, <1>9, <1>11 DEF L

(* The same for a body that maps S into itself. *)
LEMMA LoopDef ==
  ASSUME NEW S, NEW x \in S, NEW F \in [Nat -> [S -> S]]
  PROVE  /\ Loop(F, x) \in [Nat -> S]
         /\ Loop(F, x)[0] = x
         /\ \A n \in Nat : Loop(F, x)[n+1] = F[n+1][Loop(F, x)[n]]
<1>1. \A n \in Nat : \A s \in S : F[n][s] \in S
  OBVIOUS
<1>. QED
  BY <1>1, LoopWithin

(* A set G of loop states that holds the start and that no iteration leaves*)
(* holds the state after any number of iterations.                         *)
LEMMA LoopInvariant ==
  ASSUME NEW S, NEW G \in SUBSET S, NEW x \in G, NEW F \in [Nat -> [S -> S]],
         \A n \in Nat : \A s \in G : F[n+1][s] \in G
  PROVE  \A n \in Nat : Loop(F, x)[n] \in G
<1>. DEFINE L == Loop(F, x)
            U == {n \in Nat : L[n] \in G}
<1>1. L[0] = x /\ \A n \in Nat : L[n+1] = F[n+1][L[n]]
  BY LoopDef
<1>. HIDE DEF L
<1>2. 0 \in U
  BY <1>1
<1>3. ASSUME NEW n \in U PROVE n + 1 \in U
  BY <1>1
<1>4. U = Nat
  BY <1>2, <1>3, SetInduction
<1>. QED
  BY <1>4 DEF L
=============================================================================
