---------------------------- MODULE ExecutorClaims ----------------------------
(***************************************************************************)
(* What the repository says of the executor and the code does not keep.    *)
(* Each property below restates one sentence of its documentation or of    *)
(* a docstring; TLC shows a behaviour of Executor that breaks it.  Another  *)
(* one is NeverShort: "Every position is a long option premium"            *)
(* (charges.py:67).                                                        *)
(***************************************************************************)
EXTENDS Executor

\* The market sells a step sends.
NewSales == {o \in Ids' \ Ids : orders'[o].kind = "MKT"}

\* "you always buy at entry_price and sell at exit_price" (charges.py:67-68).
\* What is sold at the market was bought.
SellsWhatWasBought ==
    [][\A o \in NewSales : \E b \in Of("BUY", orders'[o].trade) : IsComplete(b)]_vars

\* "if SL order is found cancelled/rejected, immediately re-place or flat the
\* position" (fno-auto-executor-spec-v1.md:238).
RejectedStopIsReplaced ==
    (pos.phase = "OPEN" /\ pos.sl \in Ids /\ orders[pos.sl].status = "REJECTED")
        ~> (pos.phase # "OPEN" \/ \E s \in Of("SLM", pos.trade) :
                                      orders[s].status \in {"OPEN", "COMPLETE"})
=============================================================================
