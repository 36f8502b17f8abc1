---------------------------- MODULE MCTradingMode ----------------------------
(* Instances of TradingMode for TLC. *)
EXTENDS TradingMode, TLC
CONSTANTS a, b
TwoTicks == {a, b}
Symmetric == Permutations(TwoTicks)
\* Below the threshold and at it.
TwoBalances == {1, 2}
=============================================================================
