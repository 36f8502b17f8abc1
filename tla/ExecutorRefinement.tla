-------------------------- MODULE ExecutorRefinement --------------------------
(***************************************************************************)
(* Executor implements TradeLifecycle: seen through the position key and   *)
(* the day's ledgers, every tick, every fault and everything the exchange  *)
(* does moves a trade forward along the life cycle or not at all.          *)
(***************************************************************************)
EXTENDS Executor

\* A trade is where the position that carries it is; without a position it is
\* over if it was ever booked.
StageOf(t) == IF pos.trade = t THEN pos.phase
              ELSE IF booked[t] > 0 THEN "over" ELSE "none"

Lifecycle == INSTANCE TradeLifecycle
             WITH stage  <- [t \in Trades |-> StageOf(t)],
                  posted <- notion,
                  listed <- closed

\* No interleaving of ticks, crashes and exchange events skips, repeats or
\* reverses a phase, starts a second trade beside an active one, cools down an
\* unbooked trade or journals one twice (manager.py's phase diagram).
ImplementsLifecycle == Lifecycle!Spec
=============================================================================
