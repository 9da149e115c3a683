------------------------------ MODULE MCTables ------------------------------
EXTENDS TablesProperties

Fill(p, q)  == [type |-> "Trade", price |-> p, qty |-> q]
Accept(o)   == [type |-> "OrderAccepted", order |-> o]
Update(o, s) == [type |-> "OrderUpdated", order |-> o, status |-> s]
Cancel(o)   == [type |-> "OrderCancelled", order |-> o]

\* a is filled in two trades of one command, b's, whose rest trades again and is cancelled.
SomeScript ==
  <<<<Accept("a")>>,
    <<Fill(2, 1), Fill(3, 2), Update("a", "filled"), Accept("b"), Update("b", "partially_filled")>>,
    <<Fill(1, 1), Cancel("b")>>>>

\* The widths 1s and 15m, scaled.
SomeLabels == [label \in {"1s", "15m"} |-> IF label = "1s" THEN 1 ELSE 2]
=============================================================================
