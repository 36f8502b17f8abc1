----------------------- MODULE ExecutorRefinement_proofs -----------------------
(***************************************************************************)
(* Executor implements TradeLifecycle, for every set of trades, in both    *)
(* modes and with any number of faults: every step of the tick, of a fault *)
(* or of the world outside is a step of the life cycle or leaves it alone. *)
(***************************************************************************)
EXTENDS ExecutorRefinement, Executor_proofs

\* What the life cycle sees of a step.
Stage == [t \in Trades |-> StageOf(t)]

\* The trade that the position carries moves; where all others are depends on
\* the bookings only.
LEMMA StageOfCarried ==
    ASSUME TypeOK, ControlInv, pos.phase # "IDLE"
    PROVE  pos.trade \in Trades /\ StageOf(pos.trade) = pos.phase
BY DEF ControlInv, StageOf

\* A step that keeps the trade and its ledgers moves this trade alone.
LEMMA MovesCarried ==
    ASSUME TypeOK, ControlInv, pos.phase # "IDLE",
           pos'.trade = pos.trade, UNCHANGED <<booked, notion, closed>>
    PROVE  /\ Stage' = [Stage EXCEPT ![pos.trade] = pos'.phase]
           /\ Stage[pos.trade] = pos.phase
<1>1. pos.trade \in Trades
  BY DEF ControlInv
<1> QED
  BY <1>1 DEF Stage, StageOf

\* A step that keeps phase, trade and ledgers is not seen.
LEMMA NotSeen ==
    ASSUME pos'.phase = pos.phase, pos'.trade = pos.trade,
           UNCHANGED <<booked, notion, closed>>
    PROVE  UNCHANGED Lifecycle!vars
BY DEF Lifecycle!vars, StageOf

LEMMA InitRefines == Init => Lifecycle!Init
<1> SUFFICES ASSUME Init PROVE Lifecycle!Init
  OBVIOUS
<1>1. pos.trade \notin Trades
  BY ExecutorAssumption DEF Init, NoPosition
<1>2. \A t \in Trades : StageOf(t) = "none"
  BY <1>1 DEF Init, Zero, StageOf
<1> QED
  BY <1>2 DEF Init, Zero, Lifecycle!Init

-----------------------------------------------------------------------------
(* The steps the life cycle sees. *)

LEMMA EnterRefines == ASSUME IInv, SaveEntry PROVE Lifecycle!Next
<1> DEFINE t == mem.intent
<1>1. /\ pc = "saveEntry" /\ t \in Trades /\ mem.oid \in Nat /\ pos = NoPosition
      /\ booked[t] = 0 /\ UNCHANGED <<booked, notion, closed>>
      /\ pos' = FreshPosition(t, mem.oid)
  BY DEF SaveEntry, Step, IInv, TypeOK, Memory, ControlInv, EntryLabels, SettleInv, ledger
<1>2. /\ pos.trade \notin Trades
      /\ pos'.phase = "ENTERING" /\ pos'.trade = t
  BY <1>1, FreshPositionLemma, ExecutorAssumption DEF NoPosition
<1>3. /\ \A u \in Trades : Stage[u] \in {"over", "none"}
      /\ Stage[t] = "none"
  BY <1>1, <1>2 DEF Stage, StageOf
<1>4. Stage' = [Stage EXCEPT ![t] = "ENTERING"]
  BY <1>1, <1>2 DEF Stage, StageOf
<1>5. Lifecycle!Enter(t)
  BY <1>1, <1>3, <1>4 DEF Lifecycle!Enter, Lifecycle!Move, Lifecycle!Active, Stage
<1> QED
  BY <1>1, <1>5 DEF Lifecycle!Next

LEMMA ProtectRefines == ASSUME IInv, SaveOpen PROVE Lifecycle!Next
<1>1. /\ pos.phase = "ENTERING" /\ pos'.phase = "OPEN" /\ pos'.trade = pos.trade
      /\ UNCHANGED <<booked, notion, closed>> /\ pos.trade \in Trades
  BY DEF SaveOpen, Step, IInv, ControlInv, FillLabels, TypeOK, Position, ledger
<1>2. Stage' = [Stage EXCEPT ![pos.trade] = "OPEN"] /\ Stage[pos.trade] = "ENTERING"
  BY <1>1, MovesCarried DEF IInv
<1>3. Lifecycle!Protect(pos.trade)
  BY <1>1, <1>2 DEF Lifecycle!Protect, Lifecycle!Move, Stage
<1> QED
  BY <1>1, <1>3 DEF Lifecycle!Next

LEMMA ExitRefines == ASSUME IInv, Squareoff \/ Manage PROVE Lifecycle!Next
<1>1. /\ pos.phase \in {"OPEN", "ENTERING"} /\ pos'.phase = "EXITING"
      /\ pos'.trade = pos.trade /\ UNCHANGED <<booked, notion, closed>>
      /\ pos.trade \in Trades
  BY DEF Squareoff, Manage, Routed, BeginExit, IInv, ControlInv, TypeOK, Position, ledger
<1>2. Stage' = [Stage EXCEPT ![pos.trade] = "EXITING"]
      /\ Stage[pos.trade] \in {"ENTERING", "OPEN"}
  BY <1>1, MovesCarried DEF IInv
<1>3. Lifecycle!Exit(pos.trade)
  BY <1>1, <1>2 DEF Lifecycle!Exit, Lifecycle!Move, Stage
<1> QED
  BY <1>1, <1>3 DEF Lifecycle!Next

LEMMA SettleRefines == ASSUME IInv, SettleBooks PROVE Lifecycle!Next
<1>1. /\ pos.phase = "EXITING" /\ pos' = pos /\ pos.trade \in Trades
      /\ booked' = [booked EXCEPT ![pos.trade] = @ + 1] /\ UNCHANGED <<notion, closed>>
  BY DEF SettleBooks, Step, IInv, ControlInv, ExitLabels, redis
<1>2. \A t \in Trades : t # pos.trade => booked'[t] = booked[t]
  BY <1>1 DEF IInv, TypeOK
<1>3. Stage' = Stage /\ Stage[pos.trade] = "EXITING"
  BY <1>1, <1>2 DEF Stage, StageOf
<1>4. Lifecycle!Settle(pos.trade)
  BY <1>1, <1>3 DEF Lifecycle!Settle, Stage
<1> QED
  BY <1>1, <1>4 DEF Lifecycle!Next

LEMMA CoolRefines == ASSUME IInv, SaveCooldown PROVE Lifecycle!Next
<1>1. /\ pos.phase = "EXITING" /\ pos'.phase = "COOLDOWN" /\ pos'.trade = pos.trade
      /\ UNCHANGED <<booked, notion, closed>> /\ pos.trade \in Trades
      /\ booked[pos.trade] > 0
  BY DEF SaveCooldown, Step, IInv, ControlInv, ExitLabels, TypeOK, Position, ledger, SettleInv
<1>2. Stage' = [Stage EXCEPT ![pos.trade] = "COOLDOWN"] /\ Stage[pos.trade] = "EXITING"
  BY <1>1, MovesCarried DEF IInv
<1>3. Lifecycle!Cool(pos.trade)
  BY <1>1, <1>2 DEF Lifecycle!Cool, Lifecycle!Move, Stage
<1> QED
  BY <1>1, <1>3 DEF Lifecycle!Next

LEMMA ForgetRefines ==
    ASSUME IInv, RouteCooldown PROVE [Lifecycle!Next]_Lifecycle!vars
<1>1. /\ pos.phase = "COOLDOWN" /\ pos' \in {pos, NoPosition}
      /\ UNCHANGED <<booked, notion, closed>> /\ pos.trade \in Trades
      /\ booked[pos.trade] > 0
  BY DEF RouteCooldown, Routed, IInv, ControlInv, ledger, SettleInv, CooldownIsBooked
<1>2. CASE pos' = pos
  BY <1>1, <1>2, NotSeen
<1>3. CASE pos' = NoPosition
  <2>1. pos'.trade \notin Trades
    BY <1>3, ExecutorAssumption DEF NoPosition
  <2>2. Stage' = [Stage EXCEPT ![pos.trade] = "over"] /\ Stage[pos.trade] = "COOLDOWN"
    BY <1>1, <2>1 DEF Stage, StageOf
  <2>3. Lifecycle!Forget(pos.trade)
    BY <1>1, <2>2 DEF Lifecycle!Forget, Lifecycle!Move, Stage
  <2> QED
    BY <1>1, <2>3 DEF Lifecycle!Next
<1> QED
  BY <1>1, <1>2, <1>3

LEMMA PostRefines ==
    ASSUME IInv, PostNotion PROVE [Lifecycle!Next]_Lifecycle!vars
<1>1. /\ pos.phase = "COOLDOWN" /\ pos' = pos /\ pos.trade \in Trades
      /\ notion[pos.trade] = 0 /\ UNCHANGED <<booked, closed>>
      /\ notion' \in {notion, [notion EXCEPT ![pos.trade] = @ + 1]}
  BY DEF PostNotion, IInv, ControlInv, redis, SettleInv
<1>2. CASE notion' = notion
  BY <1>1, <1>2, NotSeen
<1>3. CASE notion' = [notion EXCEPT ![pos.trade] = @ + 1]
  <2>1. notion' = [notion EXCEPT ![pos.trade] = 1]
    BY <1>1, <1>3 DEF IInv, TypeOK
  <2>2. Stage' = Stage /\ Stage[pos.trade] = "COOLDOWN"
    BY <1>1 DEF Stage, StageOf
  <2>3. Lifecycle!Post(pos.trade)
    BY <1>1, <2>1, <2>2 DEF Lifecycle!Post, Stage
  <2> QED
    BY <1>1, <2>3 DEF Lifecycle!Next
<1> QED
  BY <1>1, <1>2, <1>3

LEMMA ListRefines == ASSUME IInv, AppendClosed PROVE Lifecycle!Next
<1>1. /\ pos.phase = "COOLDOWN" /\ pos' = pos /\ pos.trade \in Trades
      /\ notion[pos.trade] = 1 /\ closed[pos.trade] = 0 /\ UNCHANGED <<booked, notion>>
      /\ closed' = [closed EXCEPT ![pos.trade] = @ + 1]
  BY DEF AppendClosed, Step, IInv, ControlInv, redis, SettleInv
<1>2. closed' = [closed EXCEPT ![pos.trade] = 1]
  BY <1>1 DEF IInv, TypeOK
<1>3. Stage' = Stage /\ Stage[pos.trade] = "COOLDOWN"
  BY <1>1 DEF Stage, StageOf
<1>4. Lifecycle!List(pos.trade)
  BY <1>1, <1>2, <1>3 DEF Lifecycle!List, Stage
<1> QED
  BY <1>1, <1>4 DEF Lifecycle!Next

-----------------------------------------------------------------------------
(* Every step. *)

\* All other steps keep phase, trade and ledgers.
Unseen ==
    \/ UNCHANGED vars \/ PassStep \/ FaultStep \/ WorldStep
    \/ NothingToDo \/ Hold \/ RouteEntering \/ RouteExiting \/ RouteIdle
    \/ EntryStep /\ ~SaveEntry /\ ~SaveOpen
    \/ CancelStop \/ PlaceExit \/ SaveExit \/ SettleWaits \/ CheckLimit \/ FlagJournaled

LEMMA UnseenKeeps ==
    ASSUME TypeOK, Unseen
    PROVE  /\ pos'.phase = pos.phase /\ pos'.trade = pos.trade
           /\ UNCHANGED <<booked, notion, closed>>
<1>1. CASE UNCHANGED vars
  BY <1>1 DEF vars
<1>2. CASE PassStep
  BY <1>2 DEF PassStep, TickStart, SubloopPass, TickEnd, ReadStopStatus, ReadPositions,
     redis, ledger, TypeOK, Position
<1>3. CASE FaultStep \/ WorldStep
  BY <1>3 DEF FaultStep, Crash, CallRaises, ReplyLost, CallSwallowed, WorldStep, WriteIntent,
     ExpireIntent, PassSquareoff, ExchangeActs, ExternalClose, redis, ledger
<1>4. CASE NothingToDo \/ Hold \/ RouteEntering \/ RouteExiting \/ RouteIdle
  BY <1>4 DEF NothingToDo, Hold, RouteEntering, RouteExiting, RouteIdle, redis, ledger
<1>5. CASE EntryStep /\ ~SaveEntry /\ ~SaveOpen
  BY <1>5 DEF EntryStep, GatePass, GateFail, TakeIntent, DropIntent, AbortEntry, PlaceEntry,
     EntryFilled, EntryWaits, PlaceStop, redis, ledger
<1>6. CASE CancelStop \/ PlaceExit \/ SaveExit \/ SettleWaits \/ CheckLimit \/ FlagJournaled
  BY <1>6 DEF CancelStop, PlaceExit, SaveExit, SettleWaits, CheckLimit, FlagJournaled,
     redis, ledger, TypeOK, Position
<1> QED
  BY <1>1, <1>2, <1>3, <1>4, <1>5, <1>6 DEF Unseen

LEMMA StepRefines == IInv /\ [Next]_vars => [Lifecycle!Next]_Lifecycle!vars
<1> SUFFICES ASSUME IInv, [Next]_vars PROVE [Lifecycle!Next]_Lifecycle!vars
  OBVIOUS
<1>1. CASE Unseen
  BY <1>1, UnseenKeeps, NotSeen DEF IInv
<1>2. \/ Unseen \/ SaveEntry \/ SaveOpen \/ Squareoff \/ Manage \/ SettleBooks
      \/ SaveCooldown \/ RouteCooldown \/ PostNotion \/ AppendClosed
  BY DEF Next, TickStep, RouteStep, ExitStep, Unseen
<1> QED
  BY <1>1, <1>2, EnterRefines, ProtectRefines, ExitRefines, SettleRefines, CoolRefines,
     ForgetRefines, PostRefines, ListRefines

\* The life cycle of manager.py's phase diagram holds for every trade, whatever
\* ticks, faults and the exchange do.
THEOREM LifecycleHolds == Spec => ImplementsLifecycle
<1> QED
  BY InitRefines, StepRefines, InvariantHolds, PTL
  DEF Spec, ImplementsLifecycle, Lifecycle!Spec

-----------------------------------------------------------------------------
(* What the life cycle promises, every executor keeps. *)

LEMMA StageInStages ==
    TypeOK /\ ControlInv => \A t \in Trades : Stage[t] \in Lifecycle!Stages
BY ExecutorAssumption
DEF TypeOK, Position, Phases, ControlInv, NoPosition, Stage, StageOf, Lifecycle!Stages,
    Lifecycle!Active

\* A step of the life cycle moves one trade, forward, or writes one of its books.
LEMMA StepsForward ==
    ASSUME TypeOK, ControlInv, Lifecycle!Next, NEW t \in Trades
    PROVE  /\ Lifecycle!Place[Stage[t]] <= Lifecycle!Place[Stage'[t]]
           /\ booked'[t] # booked[t] => Stage[t] = "EXITING"
           /\ <<notion[t], closed[t]>>' # <<notion[t], closed[t]>> => Stage[t] = "COOLDOWN"
<1>1. /\ booked \in [Trades -> Nat] /\ notion \in [Trades -> Nat] /\ closed \in [Trades -> Nat]
      /\ DOMAIN Stage = Trades
  BY DEF TypeOK, Stage
<1>2. \A s \in Lifecycle!Stages : Lifecycle!Place[s] \in Nat
  BY DEF Lifecycle!Place, Lifecycle!Stages, Lifecycle!Active
<1>3. ASSUME NEW u \in Trades, NEW from \in SUBSET Lifecycle!Stages, NEW to \in Lifecycle!Stages,
             \A s \in from : Lifecycle!Place[s] <= Lifecycle!Place[to],
             Lifecycle!Move(u, from, to)
      PROVE  /\ Lifecycle!Place[Stage[t]] <= Lifecycle!Place[Stage'[t]]
             /\ UNCHANGED <<booked, notion, closed>>
  <2>1. /\ Stage[u] \in from /\ Stage' = [Stage EXCEPT ![u] = to]
        /\ UNCHANGED <<booked, notion, closed>>
    BY <1>3 DEF Lifecycle!Move, Stage
  <2>2. CASE t = u
    BY <1>1, <1>3, <2>1, <2>2
  <2>3. CASE t # u
    BY <1>1, <1>2, <2>1, <2>3, StageInStages
  <2> QED
    BY <2>1, <2>2, <2>3
<1>4. ASSUME NEW u \in Trades,
             \/ Lifecycle!Enter(u) \/ Lifecycle!Protect(u) \/ Lifecycle!Exit(u)
             \/ Lifecycle!Cool(u) \/ Lifecycle!Forget(u)
      PROVE  /\ Lifecycle!Place[Stage[t]] <= Lifecycle!Place[Stage'[t]]
             /\ UNCHANGED <<booked, notion, closed>>
  <2>1. PICK from \in SUBSET Lifecycle!Stages, to \in Lifecycle!Stages :
           /\ <<from, to>> \in {<<{"none"}, "ENTERING">>, <<{"ENTERING"}, "OPEN">>,
                                <<{"ENTERING", "OPEN"}, "EXITING">>,
                                <<{"EXITING"}, "COOLDOWN">>, <<{"COOLDOWN"}, "over">>}
           /\ Lifecycle!Move(u, from, to)
    <3>1. \E p \in {<<{"none"}, "ENTERING">>, <<{"ENTERING"}, "OPEN">>,
                   <<{"ENTERING", "OPEN"}, "EXITING">>,
                   <<{"EXITING"}, "COOLDOWN">>, <<{"COOLDOWN"}, "over">>} :
             Lifecycle!Move(u, p[1], p[2])
      BY <1>4 DEF Lifecycle!Enter, Lifecycle!Protect, Lifecycle!Exit, Lifecycle!Cool,
         Lifecycle!Forget
    <3> QED
      BY <3>1 DEF Lifecycle!Stages, Lifecycle!Active
  <2>2. \A s \in from : Lifecycle!Place[s] <= Lifecycle!Place[to]
    BY <2>1 DEF Lifecycle!Place, Lifecycle!Stages, Lifecycle!Active
  <2> QED
    BY <1>3, <2>1, <2>2
<1>5. ASSUME NEW u \in Trades,
             Lifecycle!Settle(u) \/ Lifecycle!Post(u) \/ Lifecycle!List(u)
      PROVE  /\ Stage' = Stage
             /\ booked'[t] # booked[t] => Stage[t] = "EXITING"
             /\ <<notion[t], closed[t]>>' # <<notion[t], closed[t]>> => Stage[t] = "COOLDOWN"
  BY <1>1, <1>5 DEF Lifecycle!Settle, Lifecycle!Post, Lifecycle!List, Stage
<1>6. Lifecycle!Place[Stage[t]] \in Nat
  BY <1>2, StageInStages
<1> QED
  BY <1>4, <1>5, <1>6 DEF Lifecycle!Next

\* No trade is seen in an earlier phase again, none is booked but while EXITING or
\* journaled but in COOLDOWN, and once it is over nothing about it changes: no
\* late tick, restart or order event reopens a finished trade.
THEOREM TradesOnlyAdvance == Spec => Lifecycle!OnlyForward
<1>1. IInv /\ [Next]_vars =>
        [\A t \in Trades :
            /\ Lifecycle!Place[Stage[t]] <= Lifecycle!Place[Stage[t]']
            /\ booked'[t] # booked[t] => Stage[t] = "EXITING"
            /\ <<notion[t], closed[t]>>' # <<notion[t], closed[t]>> => Stage[t] = "COOLDOWN"
        ]_Lifecycle!vars
  BY StepRefines, StepsForward DEF IInv, Stage
<1> QED
  BY <1>1, InvariantHolds, PTL DEF Spec, Lifecycle!OnlyForward, Stage
=============================================================================
