------------------------------- MODULE Loops -------------------------------
(***************************************************************************)
(* The program's while and for loops, as functions of the iteration count. *)
(* Loop(F, x)[n] is the loop state after n iterations started from x,      *)
(* where F[i] is the body of iteration i as a function of the loop state.  *)
(* Written as a recursive function so that what a loop computes can be     *)
(* proved by induction (module LoopsProofs).                               *)
(***************************************************************************)
EXTENDS Integers, Sequences

Loop(F, x) == LET f[n \in Nat] == IF n = 0 THEN x ELSE F[n][f[n-1]] IN f

\* The sum of e[1] .. e[n], what iter().map(..).sum() computes.
SumTo(e, n) ==
  Loop([i \in Nat |-> [s \in Int |-> IF i \in DOMAIN e THEN s + e[i] ELSE s]], 0)[n]
=============================================================================
