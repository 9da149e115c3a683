------------------------------ MODULE MCViews ------------------------------
EXTENDS Views

SolUsd == [base |-> "SOL", quote |-> "USD"]
OneMarket == {SolUsd}
Ceiling == [c \in Currency |-> IF c = "USD" THEN 3 ELSE 2]

Symmetry == Permutations(Accounts)
=============================================================================
