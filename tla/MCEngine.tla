------------------------------ MODULE MCEngine ------------------------------
EXTENDS EngineProperties, TLC

SolUsd == [base |-> "SOL", quote |-> "USD"]
UsdSol == [base |-> "USD", quote |-> "SOL"]
UsdUsd == [base |-> "USD", quote |-> "USD"]

OneMarket  == {SolUsd}
BothMarkets == {SolUsd, UsdSol, UsdUsd}
Ceiling == [c \in Currency |-> IF c = "USD" THEN 3 ELSE 2]
RichCeiling == [c \in Currency |-> IF c = "USD" THEN 4 ELSE 2]

Symmetry == Permutations(Accounts)
=============================================================================
