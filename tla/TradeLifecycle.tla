---------------------------- MODULE TradeLifecycle ----------------------------
(***************************************************************************)
(* What the executor promises about a trade of one instrument, read from   *)
(* the phases of executor/manager.py:                                      *)
(*                                                                         *)
(*    IDLE -> ENTERING -> OPEN -> EXITING -> COOLDOWN -> IDLE              *)
(*                                                                         *)
(* with the square-off of an ENTERING position as a short cut.  Orders,    *)
(* ticks and faults are not visible here: Executor implements this         *)
(* specification whatever happens to them (see ExecutorRefinement).        *)
(***************************************************************************)
EXTENDS Naturals

CONSTANTS Trades

VARIABLES
    stage,   \* where each trade is
    booked,  \* how often its P&L went into the day's total
    posted,  \* how often it was sent to the trade log
    listed   \* how often it was appended to the closed-today list

vars == <<stage, booked, posted, listed>>

Active == {"ENTERING", "OPEN", "EXITING", "COOLDOWN"}
Stages == Active \cup {"none", "over"}

Init ==
    /\ stage = [t \in Trades |-> "none"]
    /\ booked = [t \in Trades |-> 0]
    /\ posted = [t \in Trades |-> 0]
    /\ listed = [t \in Trades |-> 0]

Move(t, from, to) ==
    /\ stage[t] \in from
    /\ stage' = [stage EXCEPT ![t] = to]
    /\ UNCHANGED <<booked, posted, listed>>

\* One trade at a time, and no trade twice.
Enter(t) ==
    /\ \A u \in Trades : stage[u] \notin Active
    /\ Move(t, {"none"}, "ENTERING")

Protect(t) == Move(t, {"ENTERING"}, "OPEN")
Exit(t)    == Move(t, {"ENTERING", "OPEN"}, "EXITING")
Cool(t)    == booked[t] > 0 /\ Move(t, {"EXITING"}, "COOLDOWN")
Forget(t)  == Move(t, {"COOLDOWN"}, "over")

\* The P&L is booked while EXITING; a fault before COOLDOWN is on record makes
\* the executor book it again.
Settle(t) ==
    /\ stage[t] = "EXITING"
    /\ booked' = [booked EXCEPT ![t] = @ + 1]
    /\ UNCHANGED <<stage, posted, listed>>

\* The trade log first, then the list, each once, while in COOLDOWN.
Post(t) ==
    /\ stage[t] = "COOLDOWN" /\ posted[t] = 0
    /\ posted' = [posted EXCEPT ![t] = 1]
    /\ UNCHANGED <<stage, booked, listed>>

List(t) ==
    /\ stage[t] = "COOLDOWN" /\ posted[t] = 1 /\ listed[t] = 0
    /\ listed' = [listed EXCEPT ![t] = 1]
    /\ UNCHANGED <<stage, booked, posted>>

Next == \E t \in Trades :
            \/ Enter(t) \/ Protect(t) \/ Exit(t) \/ Settle(t) \/ Cool(t)
            \/ Post(t) \/ List(t) \/ Forget(t)

Spec == Init /\ [][Next]_vars

\* How far along the diagram a stage is.
Place == [s \in Stages |-> CASE s = "none" -> 0 [] s = "ENTERING" -> 1 [] s = "OPEN" -> 2
                             [] s = "EXITING" -> 3 [] s = "COOLDOWN" -> 4 [] s = "over" -> 5]

\* No trade goes back; its books are written only between its exit and its
\* being forgotten, and of a trade that is over nothing ever changes.
OnlyForward ==
    [][\A t \in Trades :
          /\ Place[stage[t]] <= Place[stage[t]']
          /\ booked'[t] # booked[t] => stage[t] = "EXITING"
          /\ <<posted[t], listed[t]>>' # <<posted[t], listed[t]>> => stage[t] = "COOLDOWN"
      ]_vars
=============================================================================
