----------------------------- MODULE MCExecutor -----------------------------
(* Instances of Executor for TLC: its properties, its inductive invariant, its *)
(* refinement of TradeLifecycle and the claims it does not keep.               *)
EXTENDS ExecutorInvariant, ExecutorRefinement, ExecutorClaims, TLC

\* Both signals of the day choose the same strike: their orders share the net
\* position of one symbol.
SameSymbol == [t \in Trades |-> CHOOSE s \in Symbols : TRUE]

\* Signals are interchangeable in the safety properties.
TradeSymmetry == Permutations(Trades)
=============================================================================
