---------------------------- MODULE MCTradingDay ----------------------------
(* Instances of TradingDay for TLC. *)
EXTENDS TradingDay
CONSTANTS index, share, pick
ThreeInOrder == <<index, share, pick>>
OnePick == {pick}
\* One price to buy at, one below its stop; the prices tell the options apart.
TwoQuotes == [i \in {index, share, pick} |->
                 CASE i = index -> {4, 6} [] i = share -> {9, 11} [] i = pick -> {14, 16}]
\* Brokerage for every trade, taxes for the dear ones.
BrokerageAndTaxes ==
    [p \in (0..Highest) \X (0..Highest) |-> IF p[1] + p[2] > 20 THEN 2 ELSE 1]
=============================================================================
