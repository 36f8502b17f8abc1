--------------------------- MODULE Executor_proofs ---------------------------
(***************************************************************************)
(* Proofs about Executor, for every set of trades, in both modes, with any *)
(* number of retries, passes and faults.                                   *)
(*                                                                         *)
(* The inductive invariant is IInv of ExecutorInvariant.  It is proved     *)
(* part by part: types and control first, then what each part needs of the *)
(* parts before it.                                                        *)
(***************************************************************************)
EXTENDS ExecutorInvariant, OrderBook_proofs

\* A step that leaves the book alone leaves its indices alone.
LEMMA BookSame ==
    ASSUME UNCHANGED orders
    PROVE  /\ Ids' = Ids
           /\ \A k \in Kinds, t \in Trades : Of(k, t)' = Of(k, t)
           /\ \A o : IsComplete(o)' = IsComplete(o)
           /\ BookTypeOK' = BookTypeOK
BY DEF Ids, Of, IsComplete, BookTypeOK

\* The orders a paper tick may fill.
LEMMA PaperTickLemma ==
    ASSUME BookTypeOK, NEW q \in BOOLEAN, PaperTick(q)
    PROVE  /\ BookTypeOK'
           /\ Ids' = Ids
           /\ \A o \in Ids : orders'[o] = orders[o]
                          \/ orders'[o] = [orders[o] EXCEPT !.status = "COMPLETE"]
           /\ \A k \in Kinds, u \in Trades : Of(k, u)' = Of(k, u)
<1>1. CASE UNCHANGED orders
  BY <1>1, BookSame
<1>2. ASSUME NEW F, SetStatus(F, "COMPLETE")
      PROVE  /\ BookTypeOK' /\ Ids' = Ids
             /\ \A o \in Ids : orders'[o] =
                   IF o \in F THEN [orders[o] EXCEPT !.status = "COMPLETE"] ELSE orders[o]
             /\ \A k \in Kinds, u \in Trades : Of(k, u)' = Of(k, u)
  <2>1. "COMPLETE" \in Statuses
    BY DEF Statuses
  <2> QED
    BY <1>2, <2>1, SetStatusLemma
<1>3. CASE \E F \in SUBSET {o \in Resting(Symbol) : orders[o].kind # "MKT"} :
               SetStatus(F, "COMPLETE")
  BY <1>2, <1>3
<1> QED
  BY <1>1, <1>3 DEF PaperTick

-----------------------------------------------------------------------------
(* Types and control. *)

\* The locals a fault leaves, and the position try_enter saves, are well typed.
LEMMA GivenUpLemma ==
    ASSUME TypeOK
    PROVE  NoMemory \in Memory /\ GivenUp \in Memory
<1>1. PICK b \in BOOLEAN, n \in Nat : b = mem.pastSO /\ n = mem.pass
  BY DEF TypeOK, Memory
<1>2. GivenUp = [NoMemory EXCEPT !.pastSO = b, !.pass = n]
  BY <1>1 DEF GivenUp
<1> QED
  BY <1>2 DEF NoMemory, Memory

LEMMA FreshPositionLemma ==
    ASSUME NEW t \in Trades, NEW n \in Nat
    PROVE  /\ FreshPosition(t, n) \in Position
           /\ FreshPosition(t, n).phase = "ENTERING"
           /\ FreshPosition(t, n).trade = t
           /\ FreshPosition(t, n).entry = n
BY DEF FreshPosition, NoPosition, Position, Phases

LEMMA TypeControlInit == Init => TypeOK /\ ControlInv
<1> SUFFICES ASSUME Init PROVE TypeOK /\ ControlInv
  OBVIOUS
<1>1. BookTypeOK
  BY EmptySeq DEF Init, BookTypeOK
<1> QED
  BY <1>1, ExecutorAssumption
  DEF Init, TypeOK, ControlInv, NoPosition, NoMemory, Position, Memory, Phases,
      Labels, Zero, EntryLabels, FillLabels, ExitLabels

LEMMA TypeControlPass ==
    TypeOK /\ ControlInv /\ PassStep => TypeOK' /\ ControlInv'
<1> SUFFICES ASSUME TypeOK, ControlInv, PassStep
             PROVE  TypeOK' /\ ControlInv'
  OBVIOUS
<1> USE DEF TypeOK, ControlInv, Position, Memory, NoMemory, Phases, Labels,
            EntryLabels, FillLabels, ExitLabels, book, redis, ledger, env, Step
<1>1. ASSUME NEW q \in BOOLEAN, TickStart(q) PROVE TypeOK' /\ ControlInv'
  <2>1. BookTypeOK'
    BY <1>1, PaperTickLemma DEF TickStart
  <2>2. mem' \in Memory /\ mem'.left = 0
    BY <1>1 DEF TickStart
  <2>3. pc' = IF pos.phase \in {"OPEN", "ENTERING"} THEN "status" ELSE "route"
    BY <1>1 DEF TickStart, AfterLoad
  <2> QED
    BY <1>1, <2>1, <2>2, <2>3 DEF TickStart
<1>2. ASSUME NEW q \in BOOLEAN, SubloopPass(q) PROVE TypeOK' /\ ControlInv'
  <2>1. BookTypeOK'
    BY <1>2, PaperTickLemma DEF SubloopPass
  <2>2. mem' \in Memory /\ mem'.left = 0
    <3>1. mem.pass + 1 \in Nat
      OBVIOUS
    <3>2. mem' = [NoMemory EXCEPT !.quote = q, !.pass = mem.pass + 1]
      BY <1>2 DEF SubloopPass
    <3> HIDE DEF TypeOK, ControlInv
    <3> QED
      BY <3>1, <3>2
  <2>3. pc' \in {"status", "done"}
    BY <1>2 DEF SubloopPass
  <2> QED
    BY <1>2, <2>1, <2>2, <2>3 DEF SubloopPass
<1>3. CASE TickEnd
  BY <1>3, BookSame DEF TickEnd
<1>4. CASE ReadStopStatus
  <2>1. CASE /\ pc = "status" /\ pc' = "positions" /\ UNCHANGED pos
             /\ mem' = [mem EXCEPT !.seen = IsComplete(pos.sl)]
    <3>1. PICK b \in BOOLEAN : mem' = [mem EXCEPT !.seen = b]
      BY <2>1 DEF IsComplete
    <3> QED
      BY <1>4, <2>1, <3>1, BookSame DEF ReadStopStatus, NoPosition
  <2>2. CASE /\ pc = "status" /\ pc' = "route" /\ UNCHANGED mem
             /\ pos' = [pos EXCEPT !.slFilled = @ \/ IsComplete(pos.sl)]
    <3>1. PICK b \in BOOLEAN : pos' = [pos EXCEPT !.slFilled = b]
      BY <2>2 DEF IsComplete
    <3> QED
      BY <1>4, <2>2, <3>1, BookSame DEF ReadStopStatus, NoPosition
  <2> QED
    BY <1>4, <2>1, <2>2 DEF ReadStopStatus
<1>5. CASE ReadPositions
  <2>1. PICK a \in BOOLEAN, b \in BOOLEAN :
            pos' = [pos EXCEPT !.slFilled = a, !.flatExt = b]
    <3>1. (pos.slFilled \/ mem.seen) \in BOOLEAN
      OBVIOUS
    <3>2. (pos.flatExt \/ (pos.phase = "OPEN" /\ Net(Symbol) = 0)) \in BOOLEAN
      OBVIOUS
    <3> QED
      BY <1>5, <3>1, <3>2 DEF ReadPositions
  <2>2. pos' \in Position /\ pos'.phase = pos.phase /\ pos'.trade = pos.trade
        /\ pos'.sl = pos.sl
    BY <2>1
  <2>3. mem' \in Memory /\ mem'.intent = mem.intent /\ mem'.left = mem.left
    BY <1>5 DEF ReadPositions
  <2> QED
    BY <1>5, <2>2, <2>3, BookSame DEF ReadPositions, NoPosition
<1> QED
  BY <1>1, <1>2, <1>3, <1>4, <1>5 DEF PassStep

LEMMA TypeControlRoute ==
    TypeOK /\ ControlInv /\ RouteStep => TypeOK' /\ ControlInv'
<1> SUFFICES ASSUME TypeOK, ControlInv, RouteStep
             PROVE  TypeOK' /\ ControlInv'
  OBVIOUS
<1> USE DEF TypeOK, ControlInv, Position, Memory, NoMemory, Phases, Labels,
            EntryLabels, FillLabels, ExitLabels, book, redis, ledger, env, Step
<1>1. CASE Squareoff
  BY <1>1, BookSame DEF Squareoff, BeginExit, NoPosition
<1>2. CASE NothingToDo
  BY <1>2, BookSame DEF NothingToDo
<1>3. CASE Manage
  BY <1>3, BookSame DEF Manage, BeginExit, Routed, NoPosition
<1>4. CASE Hold
  BY <1>4, BookSame DEF Hold, Routed
<1>5. CASE RouteEntering
  BY <1>5, BookSame DEF RouteEntering, Routed
<1>6. CASE RouteExiting
  BY <1>6, BookSame DEF RouteExiting, Routed
<1>7. CASE RouteCooldown
  <2>1. CASE pos' = pos
    BY <1>7, <2>1, BookSame DEF RouteCooldown, Routed
  <2>2. CASE pos' = NoPosition
    <3>1. BookTypeOK' /\ pos' \in Position
      BY <1>7, <2>2, BookSame DEF RouteCooldown, NoPosition
    <3>2. pos'.phase = "IDLE"
      BY <2>2 DEF NoPosition
    <3> QED
      BY <1>7, <2>2, <3>1, <3>2 DEF RouteCooldown
  <2> QED
    BY <1>7, <2>1, <2>2 DEF RouteCooldown
<1>8. CASE RouteIdle
  BY <1>8, BookSame DEF RouteIdle, Routed
<1> QED
  BY <1>1, <1>2, <1>3, <1>4, <1>5, <1>6, <1>7, <1>8 DEF RouteStep


LEMMA TypeControlEntry ==
    TypeOK /\ ControlInv /\ EntryStep => TypeOK' /\ ControlInv'
<1> SUFFICES ASSUME TypeOK, ControlInv, EntryStep
             PROVE  TypeOK' /\ ControlInv'
  OBVIOUS
<1> USE DEF TypeOK, ControlInv, Position, Memory, NoMemory, Phases, Labels,
            EntryLabels, FillLabels, ExitLabels, book, redis, ledger, env, Step
<1>1. CASE GatePass
  BY <1>1, BookSame DEF GatePass
<1>2. CASE GateFail
  BY <1>2, BookSame DEF GateFail
<1>3. CASE TakeIntent
  BY <1>3, BookSame DEF TakeIntent
<1>4. CASE DropIntent
  BY <1>4, BookSame DEF DropIntent
<1>5. CASE AbortEntry
  BY <1>5, BookSame DEF AbortEntry
<1>6. CASE PlaceEntry
  <2>1. BookTypeOK' /\ NewId \in Nat
    BY <1>6, PlaceLemma DEF PlaceEntry, Kinds, Statuses
  <2> QED
    BY <1>6, <2>1 DEF PlaceEntry
<1>7. CASE SaveEntry
  <2>1. mem.intent \in Trades /\ mem.oid \in Nat
    BY <1>7 DEF SaveEntry
  <2>2. pos' = FreshPosition(mem.intent, mem.oid)
    BY <1>7 DEF SaveEntry
  <2>3. /\ pos' \in Position
        /\ pos'.phase = "ENTERING" /\ pos'.trade = mem.intent
    <3> HIDE DEF TypeOK, ControlInv, Position
    <3> QED
      BY <2>1, <2>2, FreshPositionLemma
  <2>4. mem' \in Memory /\ mem'.left > 0
    <3>1. mem' = [mem EXCEPT !.intent = NoTrade, !.oid = 0, !.left = FillAttempts]
      BY <1>7 DEF SaveEntry
    <3>2. FillAttempts \in Nat /\ FillAttempts > 0
      BY ExecutorAssumption
    <3>3. mem \in Memory
      OBVIOUS
    <3> HIDE DEF TypeOK, ControlInv
    <3> QED
      BY <3>1, <3>2, <3>3
  <2> QED
    BY <1>7, <2>1, <2>3, <2>4, BookSame DEF SaveEntry
<1>8. CASE EntryFilled
  BY <1>8, BookSame DEF EntryFilled
<1>9. CASE EntryWaits
  BY <1>9, BookSame DEF EntryWaits
<1>10. CASE PlaceStop
  <2>1. BookTypeOK' /\ NewId \in Nat
    BY <1>10, PlaceLemma DEF PlaceStop, Kinds, Statuses
  <2> QED
    BY <1>10, <2>1 DEF PlaceStop
<1>11. CASE SaveOpen
  BY <1>11, BookSame DEF SaveOpen, NoPosition
<1> QED
  BY <1>1, <1>2, <1>3, <1>4, <1>5, <1>6, <1>7, <1>8, <1>9, <1>10, <1>11 DEF EntryStep


LEMMA TypeControlExit ==
    TypeOK /\ ControlInv /\ ExitStep => TypeOK' /\ ControlInv'
<1> SUFFICES ASSUME TypeOK, ControlInv, ExitStep
             PROVE  TypeOK' /\ ControlInv'
  OBVIOUS
<1> USE DEF TypeOK, ControlInv, Position, Memory, NoMemory, Phases, Labels,
            EntryLabels, FillLabels, ExitLabels, book, redis, ledger, env, Step
<1>1. CASE CancelStop
  <2>1. BookTypeOK'
    BY <1>1, SetStatusLemma DEF CancelStop, Cancel, Statuses
  <2> QED
    BY <1>1, <2>1 DEF CancelStop
<1>2. CASE PlaceExit
  <2>1. BookTypeOK' /\ NewId \in Nat
    BY <1>2, PlaceLemma DEF PlaceExit, Kinds, Statuses
  <2> QED
    BY <1>2, <2>1 DEF PlaceExit
<1>3. CASE SaveExit
  BY <1>3, BookSame DEF SaveExit, NoPosition
<1>4. CASE SettleWaits
  BY <1>4, BookSame DEF SettleWaits
<1>5. CASE SettleBooks
  BY <1>5, BookSame DEF SettleBooks
<1>6. CASE CheckLimit
  <2>1. blocked' \in BOOLEAN
    <3>1. blocked' \in {blocked, TRUE} /\ blocked \in BOOLEAN
      BY <1>6 DEF CheckLimit
    <3> HIDE DEF TypeOK, ControlInv
    <3> QED
      BY <3>1
  <2> QED
    BY <1>6, <2>1, BookSame DEF CheckLimit
<1>7. CASE SaveCooldown
  BY <1>7, BookSame DEF SaveCooldown, NoPosition
<1>8. CASE PostNotion
  BY <1>8, BookSame DEF PostNotion, JournalDue
<1>9. CASE AppendClosed
  BY <1>9, BookSame DEF AppendClosed
<1>10. CASE FlagJournaled
  BY <1>10, BookSame DEF FlagJournaled, NoPosition
<1> QED
  BY <1>1, <1>2, <1>3, <1>4, <1>5, <1>6, <1>7, <1>8, <1>9, <1>10 DEF ExitStep


LEMMA TypeControlFault ==
    TypeOK /\ ControlInv /\ FaultStep => TypeOK' /\ ControlInv'
<1> SUFFICES ASSUME TypeOK, ControlInv, FaultStep
             PROVE  TypeOK' /\ ControlInv'
  OBVIOUS
<1> USE DEF TypeOK, ControlInv, Position, Memory, NoMemory, Phases, Labels,
            EntryLabels, FillLabels, ExitLabels, book, redis, ledger, env, Step
<1>1. CASE Crash
  BY <1>1, BookSame DEF Crash, Fault
<1>2. CASE CallRaises
  <2>1. mem' \in Memory
    <3> HIDE DEF TypeOK, NoMemory, Memory
    <3> QED
      BY <1>2, GivenUpLemma DEF CallRaises
  <2> QED
    BY <1>2, <2>1, BookSame DEF CallRaises, Fault
<1>3. CASE ReplyLost
  <2>1. BookTypeOK' /\ NewId \in Nat
    BY <1>3, PlaceLemma DEF ReplyLost, Kinds, Statuses
  <2>2. mem' \in Memory
    <3> HIDE DEF TypeOK, NoMemory, Memory
    <3> QED
      BY <1>3, GivenUpLemma DEF ReplyLost
  <2>3. pc' \in {"down", "done"}
    BY <1>3 DEF ReplyLost
  <2> QED
    BY <1>3, <2>1, <2>2, <2>3 DEF ReplyLost, Fault
<1>4. CASE CallSwallowed
  BY <1>4, BookSame DEF CallSwallowed, Fault
<1> QED
  BY <1>1, <1>2, <1>3, <1>4 DEF FaultStep


LEMMA TypeControlWorld ==
    TypeOK /\ ControlInv /\ WorldStep => TypeOK' /\ ControlInv'
<1> SUFFICES ASSUME TypeOK, ControlInv, WorldStep
             PROVE  TypeOK' /\ ControlInv'
  OBVIOUS
<1> USE DEF TypeOK, ControlInv, Position, Memory, NoMemory, Phases, Labels,
            EntryLabels, FillLabels, ExitLabels, book, redis, ledger, env, Step
<1>1. CASE WriteIntent
  BY <1>1, BookSame DEF WriteIntent
<1>2. CASE ExpireIntent
  BY <1>2, BookSame DEF ExpireIntent
<1>3. CASE PassSquareoff
  BY <1>3, BookSame DEF PassSquareoff
<1>4. CASE ExchangeActs
  BY <1>4, SetStatusLemma DEF ExchangeActs, Statuses
<1>5. CASE ExternalClose
  <2>1. PICK t \in Trades : Place("EXT", t, "COMPLETE")
    BY <1>5 DEF ExternalClose
  <2>2. BookTypeOK'
    BY <2>1, PlaceLemma DEF Kinds, Statuses
  <2> QED
    BY <1>5, <2>2 DEF ExternalClose
<1> QED
  BY <1>1, <1>2, <1>3, <1>4, <1>5 DEF WorldStep

\* The variables keep their types, and each label of the tick keeps the phase
\* its code relies on.
LEMMA TypeControlStep ==
    TypeOK /\ ControlInv /\ [Next]_vars => TypeOK' /\ ControlInv'
<1> SUFFICES ASSUME TypeOK, ControlInv, [Next]_vars
             PROVE  TypeOK' /\ ControlInv'
  OBVIOUS
<1>1. CASE UNCHANGED vars
  BY <1>1 DEF vars, TypeOK, ControlInv, BookTypeOK
<1>2. CASE Next
  BY <1>2, TypeControlPass, TypeControlRoute, TypeControlEntry,
     TypeControlExit, TypeControlFault, TypeControlWorld DEF Next, TickStep
<1> QED
  BY <1>1, <1>2

LEMMA TypeControl == Spec => [](TypeOK /\ ControlInv)
BY TypeControlInit, TypeControlStep, PTL DEF Spec

\* Type correctness of every reachable state.
THEOREM TypeCorrect == Spec => []TypeOK
BY TypeControl, PTL

-----------------------------------------------------------------------------
(* What each step does to the sets of orders. *)

OwnKinds == {"BUY", "SLM", "MKT"}

LEMMA KindFacts == /\ OwnKinds \subseteq Kinds
                   /\ "EXT" \in Kinds /\ "EXT" \notin OwnKinds
                   /\ "OPEN" \in Statuses /\ "COMPLETE" \in Statuses
                   /\ "CANCELLED" \in Statuses /\ "REJECTED" \in Statuses
BY DEF OwnKinds, Kinds, Statuses

\* The executor's own orders after a step that sends none.
NoneSent == \A k \in OwnKinds, t \in Trades : Of(k, t)' = Of(k, t)

\* The executor's own orders after a step that sends one.
Sent(kind, trade) ==
    \A k \in OwnKinds, t \in Trades :
        Of(k, t)' = Of(k, t) \cup (IF k = kind /\ t = trade THEN {NewId} ELSE {})

LEMMA SameSendsNone == ASSUME UNCHANGED orders PROVE NoneSent
BY BookSame, KindFacts DEF NoneSent

LEMMA StatusSendsNone ==
    ASSUME BookTypeOK, NEW S, NEW status \in Statuses, SetStatus(S, status)
    PROVE  NoneSent
BY SetStatusLemma, KindFacts DEF NoneSent

LEMMA PlaceSends ==
    ASSUME BookTypeOK, NEW kind \in OwnKinds, NEW t \in Trades,
           NEW status \in Statuses, Place(kind, t, status)
    PROVE  Sent(kind, t) /\ NewId \in Nat
<1>1. kind \in Kinds
  BY KindFacts
<1>2. /\ NewId \in Nat
      /\ \A k \in Kinds, u \in Trades :
            Of(k, u)' = Of(k, u) \cup
                        (IF k = kind /\ u = t THEN {NewId} ELSE {})
  BY <1>1, PlaceLemma
<1> QED
  BY <1>2, KindFacts DEF Sent

\* Neither a pass nor the routing sends anything.
LEMMA PassSendsNone ==
    ASSUME TypeOK, PassStep PROVE NoneSent
<1>1. ASSUME NEW q \in BOOLEAN, TickStart(q) \/ SubloopPass(q) PROVE NoneSent
  <2>1. PaperTick(q) /\ BookTypeOK
    BY <1>1 DEF TickStart, SubloopPass, TypeOK
  <2>2. \A k \in Kinds, u \in Trades : Of(k, u)' = Of(k, u)
    BY <2>1, PaperTickLemma
  <2> QED
    BY <2>2, KindFacts DEF NoneSent
<1>2. CASE TickEnd \/ ReadStopStatus \/ ReadPositions
  BY <1>2, SameSendsNone DEF TickEnd, ReadStopStatus, ReadPositions, book
<1> QED
  BY <1>1, <1>2 DEF PassStep

LEMMA RouteSendsNone ==
    ASSUME RouteStep PROVE NoneSent
BY SameSendsNone
DEF RouteStep, Squareoff, NothingToDo, Manage, Hold, RouteEntering,
    RouteExiting, RouteCooldown, RouteIdle, BeginExit, book

LEMMA ExchangeSendsNone ==
    ASSUME TypeOK, ExchangeActs PROVE NoneSent
BY StatusSendsNone, KindFacts DEF ExchangeActs, TypeOK

LEMMA ExternalSendsNone ==
    ASSUME TypeOK, ExternalClose PROVE NoneSent
<1>1. PICK t \in Trades : Place("EXT", t, "COMPLETE")
  BY DEF ExternalClose
<1>2. \A k \in Kinds, u \in Trades :
         Of(k, u)' = Of(k, u) \cup (IF k = "EXT" /\ u = t THEN {NewId} ELSE {})
  BY <1>1, PlaceLemma, KindFacts DEF TypeOK
<1> QED
  BY <1>2, KindFacts DEF NoneSent

-----------------------------------------------------------------------------
(* One entry per intent. *)

LEMMA EntryInit == Init => EntryInv
BY DEF Init, EntryInv, OneEntryPerIntent, NoPosition, NoMemory, EntryLabels,
       Of, Ids

\* A step outside the entry path that buys nothing, touches no intent and
\* keeps or deletes the position keeps the invariant.
LEMMA EntryQuiet ==
    ASSUME EntryInv, NoneSent, UNCHANGED <<intent, written>>,
           pc' \notin EntryLabels,
           pos'.phase # "IDLE" => /\ pos.phase # "IDLE" /\ pos.trade \in Trades
                                  /\ pos'.trade = pos.trade /\ pos'.entry = pos.entry
    PROVE  EntryInv'
BY DEF EntryInv, OneEntryPerIntent, NoneSent, OwnKinds, EntryLabels

LEMMA EntryPass ==
    TypeOK /\ ControlInv /\ EntryInv /\ PassStep => EntryInv'
<1> SUFFICES ASSUME TypeOK, ControlInv, EntryInv, PassStep PROVE EntryInv'
  OBVIOUS
<1>1. /\ pc' \notin EntryLabels
      /\ UNCHANGED <<intent, written>>
      /\ pos'.phase = pos.phase /\ pos'.trade = pos.trade /\ pos'.entry = pos.entry
  BY DEF PassStep, TickStart, SubloopPass, TickEnd, ReadStopStatus,
         ReadPositions, Step, AfterLoad, redis, env, EntryLabels, TypeOK, Position
<1> QED
  BY <1>1, EntryQuiet, PassSendsNone DEF ControlInv

LEMMA EntryRoute ==
    TypeOK /\ ControlInv /\ EntryInv /\ RouteStep => EntryInv'
<1> SUFFICES ASSUME TypeOK, ControlInv, EntryInv, RouteStep PROVE EntryInv'
  OBVIOUS
<1>1. CASE RouteIdle
  BY <1>1, RouteSendsNone
  DEF RouteIdle, Routed, EntryInv, OneEntryPerIntent, NoneSent, OwnKinds,
      EntryLabels, redis, env, TypeOK, Memory
<1>2. CASE RouteStep /\ ~RouteIdle
  <2>1. /\ pc' \notin EntryLabels
        /\ UNCHANGED <<intent, written>>
        /\ \/ pos'.trade = pos.trade /\ pos'.entry = pos.entry /\ pos.phase # "IDLE"
           \/ pos' = pos
           \/ pos' = NoPosition
    BY <1>2
    DEF RouteStep, Squareoff, NothingToDo, Manage, Hold, RouteEntering,
        RouteExiting, RouteCooldown, BeginExit, Routed, Step, redis, env,
        EntryLabels, TypeOK, Position
  <2> QED
    BY <2>1, EntryQuiet, RouteSendsNone DEF ControlInv, NoPosition
<1> QED
  BY <1>1, <1>2

LEMMA EntryEntry ==
    TypeOK /\ ControlInv /\ EntryInv /\ EntryStep => EntryInv'
<1> SUFFICES ASSUME TypeOK, ControlInv, EntryInv, EntryStep PROVE EntryInv'
  OBVIOUS
<1> USE DEF EntryLabels, Step, redis, env, book
<1>1. CASE GatePass
  BY <1>1, SameSendsNone
  DEF GatePass, EntryInv, OneEntryPerIntent, NoneSent, OwnKinds, ControlInv
<1>2. CASE GateFail
  <2>1. NoneSent
    BY <1>2, SameSendsNone DEF GateFail
  <2> QED
    BY <1>2, <2>1, ExecutorAssumption
    DEF GateFail, EntryInv, OneEntryPerIntent, NoneSent, OwnKinds, ControlInv
<1>3. CASE TakeIntent
  BY <1>3, SameSendsNone
  DEF TakeIntent, EntryInv, OneEntryPerIntent, NoneSent, OwnKinds, ControlInv
<1>4. CASE DropIntent
  <2>1. NoneSent
    BY <1>4, SameSendsNone DEF DropIntent
  <2> QED
    BY <1>4, <2>1, ExecutorAssumption
    DEF DropIntent, EntryInv, OneEntryPerIntent, NoneSent, OwnKinds, ControlInv
<1>5. CASE AbortEntry \/ EntryFilled \/ EntryWaits \/ SaveOpen
  <2>1. NoneSent
    BY <1>5, SameSendsNone DEF AbortEntry, EntryFilled, EntryWaits, SaveOpen
  <2>2. /\ pc' \notin EntryLabels
        /\ UNCHANGED <<intent, written>>
        /\ pos' = pos \/ pos' = [pos EXCEPT !.phase = "OPEN", !.sl = mem.oid]
        /\ pos' # pos => pos.phase = "ENTERING"
    BY <1>5 DEF AbortEntry, EntryFilled, EntryWaits, SaveOpen, ControlInv, FillLabels
  <2>3. pos'.trade = pos.trade /\ pos'.entry = pos.entry
    BY <2>2 DEF TypeOK, Position
  <2> QED
    BY <2>1, <2>2, <2>3, EntryQuiet DEF ControlInv
<1>6. CASE PlaceEntry
  <2>1. mem.intent \in Trades /\ pos.phase = "IDLE"
    BY <1>6 DEF PlaceEntry, ControlInv
  <2>2. Sent("BUY", mem.intent)
    BY <1>6, <2>1, PlaceSends, KindFacts DEF PlaceEntry, OwnKinds, TypeOK
  <2>3. /\ pc' = "saveEntry" /\ UNCHANGED <<intent, written, pos>>
        /\ mem'.oid = NewId /\ mem'.intent = mem.intent
    BY <1>6 DEF PlaceEntry, TypeOK, Memory
  <2>4. Of("BUY", mem.intent) = {} /\ mem.intent # intent /\ mem.intent \in written
    BY <1>6 DEF PlaceEntry, EntryInv
  <2>5. \A t \in Trades : Of("BUY", t)' = IF t = mem.intent THEN {NewId} ELSE Of("BUY", t)
    BY <2>2, <2>4 DEF Sent, OwnKinds
  <2> QED
    BY <2>1, <2>3, <2>4, <2>5 DEF EntryInv, OneEntryPerIntent
<1>7. CASE SaveEntry
  <2>1. NoneSent
    BY <1>7, SameSendsNone DEF SaveEntry
  <2>2. mem.intent \in Trades /\ mem.oid \in Nat
    BY <1>7 DEF SaveEntry, ControlInv, TypeOK, Memory
  <2>3. pos'.trade = mem.intent /\ pos'.entry = mem.oid
    BY <1>7, <2>2, FreshPositionLemma DEF SaveEntry
  <2> QED
    BY <1>7, <2>1, <2>2, <2>3
    DEF SaveEntry, EntryInv, OneEntryPerIntent, NoneSent, OwnKinds
<1>8. CASE PlaceStop
  <2>1. pos.trade \in Trades
    BY <1>8 DEF PlaceStop, ControlInv, FillLabels
  <2>2. Sent("SLM", pos.trade)
    BY <1>8, <2>1, PlaceSends, KindFacts DEF PlaceStop, OwnKinds, TypeOK
  <2>3. \A t \in Trades : Of("BUY", t)' = Of("BUY", t)
    BY <2>2 DEF Sent, OwnKinds
  <2>4. pc' = "saveOpen" /\ UNCHANGED <<intent, written, pos>>
    BY <1>8 DEF PlaceStop
  <2> QED
    BY <2>3, <2>4 DEF EntryInv, OneEntryPerIntent, ControlInv
<1> QED
  BY <1>1, <1>2, <1>3, <1>4, <1>5, <1>6, <1>7, <1>8 DEF EntryStep

\* Only orders of other kinds are sent on the exit path.
LEMMA ExitSends ==
    ASSUME TypeOK, ControlInv, ExitStep
    PROVE  \/ NoneSent
           \/ pc = "sell" /\ PlaceExit /\ pos.trade \in Trades /\ Sent("MKT", pos.trade)
<1>1. CASE CancelStop
  BY <1>1, StatusSendsNone, KindFacts DEF CancelStop, Cancel, TypeOK
<1>2. CASE PlaceExit
  <2>1. pos.trade \in Trades /\ pc = "sell"
    BY <1>2 DEF PlaceExit, ControlInv, ExitLabels
  <2>2. PICK st \in {"OPEN", "COMPLETE"} : Place("MKT", pos.trade, st)
    BY <1>2 DEF PlaceExit
  <2> QED
    BY <1>2, <2>1, <2>2, PlaceSends, KindFacts DEF OwnKinds, TypeOK
<1>3. CASE ExitStep /\ ~CancelStop /\ ~PlaceExit
  BY <1>3, SameSendsNone
  DEF ExitStep, SaveExit, SettleWaits, SettleBooks, CheckLimit, SaveCooldown,
      PostNotion, AppendClosed, FlagJournaled, book
<1> QED
  BY <1>1, <1>2, <1>3

\* What the exit path leaves alone.
LEMMA ExitFrame ==
    ASSUME TypeOK, ControlInv, ExitStep
    PROVE  /\ pc' \notin EntryLabels \cup FillLabels
           /\ UNCHANGED <<intent, written>>
           /\ pos.phase \in {"EXITING", "COOLDOWN"}
           /\ pos'.phase \in {"EXITING", "COOLDOWN"}
           /\ pos'.trade = pos.trade /\ pos'.entry = pos.entry /\ pos'.sl = pos.sl
BY DEF ExitStep, CancelStop, PlaceExit, SaveExit, SettleWaits, SettleBooks,
       CheckLimit, SaveCooldown, PostNotion, AppendClosed, FlagJournaled, Step,
       redis, env, EntryLabels, FillLabels, ExitLabels, ControlInv, TypeOK, Position

LEMMA EntryExit ==
    TypeOK /\ ControlInv /\ EntryInv /\ ExitStep => EntryInv'
<1> SUFFICES ASSUME TypeOK, ControlInv, EntryInv, ExitStep PROVE EntryInv'
  OBVIOUS
<1>1. CASE NoneSent
  BY <1>1, ExitFrame, EntryQuiet DEF ControlInv
<1>2. CASE pos.trade \in Trades /\ Sent("MKT", pos.trade)
  BY <1>2, ExitFrame
  DEF EntryInv, OneEntryPerIntent, Sent, OwnKinds, EntryLabels
<1> QED
  BY <1>1, <1>2, ExitSends

LEMMA EntryFault ==
    TypeOK /\ ControlInv /\ EntryInv /\ FaultStep => EntryInv'
<1> SUFFICES ASSUME TypeOK, ControlInv, EntryInv, FaultStep PROVE EntryInv'
  OBVIOUS
<1>1. /\ pc' \notin EntryLabels
      /\ UNCHANGED <<intent, written, pos>>
  BY DEF FaultStep, Crash, CallRaises, ReplyLost, CallSwallowed, redis, env, EntryLabels
<1>2. CASE NoneSent
  BY <1>1, <1>2, EntryQuiet DEF ControlInv
<1>3. CASE pc = "enter" /\ Place("BUY", mem.intent, "OPEN")
  <2>1. mem.intent \in Trades /\ Of("BUY", mem.intent) = {}
        /\ mem.intent # intent /\ mem.intent \in written /\ pos.phase = "IDLE"
    BY <1>3 DEF ControlInv, EntryInv, EntryLabels
  <2>2. Sent("BUY", mem.intent)
    BY <1>3, <2>1, PlaceSends, KindFacts DEF OwnKinds, TypeOK
  <2>3. \A t \in Trades : Of("BUY", t)' = IF t = mem.intent THEN {NewId} ELSE Of("BUY", t)
    BY <2>1, <2>2 DEF Sent, OwnKinds
  <2> QED
    BY <1>1, <2>1, <2>3 DEF EntryInv, OneEntryPerIntent, EntryLabels
<1>4. CASE \/ pc = "placeSL" /\ Place("SLM", pos.trade, "OPEN")
           \/ pc = "sell" /\ Place("MKT", pos.trade, "OPEN")
  <2>1. pos.trade \in Trades
    BY <1>4 DEF ControlInv, FillLabels, ExitLabels
  <2>2. PICK k \in {"SLM", "MKT"} : Place(k, pos.trade, "OPEN")
    BY <1>4
  <2>4. k \in OwnKinds /\ k # "BUY" /\ BookTypeOK
    BY DEF OwnKinds, TypeOK
  <2>5. Sent(k, pos.trade)
    BY <2>1, <2>2, <2>4, PlaceSends, KindFacts
  <2>3. \A t \in Trades : Of("BUY", t)' = Of("BUY", t)
    BY <2>4, <2>5 DEF Sent, OwnKinds
  <2> QED
    BY <1>1, <2>3 DEF EntryInv, OneEntryPerIntent, EntryLabels, ControlInv
<1>5. ~ReplyLost => NoneSent
  BY SameSendsNone DEF FaultStep, Crash, CallRaises, CallSwallowed, book
<1> QED
  BY <1>2, <1>3, <1>4, <1>5 DEF ReplyLost

LEMMA EntryWorld ==
    TypeOK /\ ControlInv /\ EntryInv /\ WorldStep => EntryInv'
<1> SUFFICES ASSUME TypeOK, ControlInv, EntryInv, WorldStep PROVE EntryInv'
  OBVIOUS
<1>1. NoneSent /\ UNCHANGED <<pc, mem, pos>>
  BY SameSendsNone, ExchangeSendsNone, ExternalSendsNone
  DEF WorldStep, WriteIntent, ExpireIntent, PassSquareoff, ExchangeActs,
      ExternalClose, redis, book
<1>2. \A t \in Trades : Of("BUY", t)' = Of("BUY", t)
  BY <1>1 DEF NoneSent, OwnKinds
<1>3. \/ UNCHANGED <<intent, written>>
      \/ intent' = NoTrade /\ written' = written
      \/ \E t \in Trades \ written : intent' = t /\ written' = written \cup {t}
  BY DEF WorldStep, WriteIntent, ExpireIntent, PassSquareoff, ExchangeActs,
         ExternalClose, redis, env
<1>4. OneEntryPerIntent'
  BY <1>2 DEF EntryInv, OneEntryPerIntent
<1>5. intent' # NoTrade => intent' \in written'
  BY <1>3 DEF EntryInv
<1>6. \A t \in Trades : Of("BUY", t)' # {} => t \in written' /\ t # intent'
  BY <1>2, <1>3, ExecutorAssumption DEF EntryInv
<1>7. written \subseteq written'
  BY <1>3
<1>8. pc = "enter" => intent' # mem.intent
  <2>1. pc = "enter" => mem.intent \in written /\ mem.intent \in Trades
                        /\ mem.intent # intent
    BY DEF EntryInv, ControlInv, EntryLabels
  <2> QED
    BY <1>3, <2>1, ExecutorAssumption
<1>9. /\ pc \in EntryLabels => mem.intent \in written'
      /\ pc \in {"gate", "take", "drop", "enter"} => Of("BUY", mem.intent)' = {}
      /\ pc = "saveEntry" => mem.oid \in Of("BUY", mem.intent)'
  BY <1>1, <1>2, <1>7 DEF EntryInv, ControlInv, EntryLabels
<1>10. pos.phase # "IDLE" => pos.entry \in Of("BUY", pos.trade)'
  BY <1>1, <1>2 DEF EntryInv, ControlInv
<1> QED
  BY <1>1, <1>4, <1>5, <1>6, <1>8, <1>9, <1>10 DEF EntryInv

LEMMA EntryStepLemma ==
    TypeOK /\ ControlInv /\ EntryInv /\ [Next]_vars => EntryInv'
<1> SUFFICES ASSUME TypeOK, ControlInv, EntryInv, [Next]_vars PROVE EntryInv'
  OBVIOUS
<1>1. CASE UNCHANGED vars
  BY <1>1 DEF vars, EntryInv, OneEntryPerIntent, Of, Ids
<1>2. CASE Next
  BY <1>2, EntryPass, EntryRoute, EntryEntry, EntryExit, EntryFault, EntryWorld
  DEF Next, TickStep
<1> QED
  BY <1>1, <1>2

LEMMA EntryInvariant == Spec => []EntryInv
<1>1. Init => EntryInv
  BY EntryInit
<1>2. TypeOK /\ ControlInv /\ EntryInv /\ [Next]_vars => EntryInv'
  BY EntryStepLemma
<1> QED
  BY <1>1, <1>2, TypeControl, PTL DEF Spec

\* Whatever ticks die where, and however late the exchange answers, a signal is
\* bought at most once.
THEOREM NeverBuysTwice == Spec => []OneEntryPerIntent
<1>1. EntryInv => OneEntryPerIntent
  BY DEF EntryInv
<1> QED
  BY <1>1, EntryInvariant, PTL

-----------------------------------------------------------------------------
(* One exit per trade. *)

LEMMA ExitInit == Init => ExitInv
BY DEF Init, ExitInv, OneExitPerTrade, NoPosition, Of, Ids

\* A step that sends no market sell and does not head for one.
LEMMA ExitQuiet ==
    ASSUME ControlInv, ExitInv,
           \A t \in Trades : /\ Of("MKT", t)' = Of("MKT", t)
                             /\ Of("BUY", t) \subseteq Of("BUY", t)',
           pc' \notin {"cancelSL", "sell", "saveEntry"},
           pos'.phase \in {"ENTERING", "OPEN"} =>
               pos.phase \in {"ENTERING", "OPEN"} /\ pos'.trade = pos.trade
    PROVE  ExitInv'
BY DEF ExitInv, OneExitPerTrade, ControlInv

\* Sending the market sell of a bought trade that has none.
LEMMA ExitSale ==
    ASSUME ControlInv, ExitInv, Sent("MKT", pos.trade), pos.phase = "EXITING",
           Of("MKT", pos.trade) = {}, Of("BUY", pos.trade) # {},
           pc' \notin {"cancelSL", "sell", "saveEntry"}, UNCHANGED pos
    PROVE  ExitInv'
<1>1. pos.trade \in Trades
  BY DEF ControlInv
<1>2. \A t \in Trades :
         /\ Of("MKT", t)' = IF t = pos.trade THEN {NewId} ELSE Of("MKT", t)
         /\ Of("BUY", t)' = Of("BUY", t)
  BY <1>1 DEF Sent, OwnKinds
<1> QED
  BY <1>1, <1>2 DEF ExitInv, OneExitPerTrade

LEMMA ExitRoute ==
    TypeOK /\ ControlInv /\ ExitInv /\ RouteStep => ExitInv'
<1> SUFFICES ASSUME TypeOK, ControlInv, ExitInv, RouteStep PROVE ExitInv'
  OBVIOUS
<1>1. \A t \in Trades : /\ Of("MKT", t)' = Of("MKT", t)
                        /\ Of("BUY", t) \subseteq Of("BUY", t)'
  BY RouteSendsNone DEF NoneSent, OwnKinds
<1>2. CASE Squareoff \/ Manage
  <2>1. /\ pos.phase \in {"ENTERING", "OPEN"} /\ pc' # "saveEntry"
        /\ pos'.phase = "EXITING" /\ pos'.trade = pos.trade
    BY <1>2 DEF Squareoff, Manage, BeginExit, Routed, TypeOK, Position
  <2> QED
    BY <1>1, <2>1 DEF ExitInv, OneExitPerTrade, ControlInv
<1>3. CASE RouteStep /\ ~Squareoff /\ ~Manage
  <2>1. pc' \notin {"cancelSL", "sell", "saveEntry"} /\ pos' \in {pos, NoPosition}
    BY <1>3
    DEF RouteStep, NothingToDo, Hold, RouteEntering, RouteExiting, RouteCooldown,
        RouteIdle, Routed, Step, redis
  <2> QED
    BY <1>1, <2>1, ExitQuiet DEF NoPosition
<1> QED
  BY <1>2, <1>3

LEMMA ExitEntry ==
    TypeOK /\ ControlInv /\ EntryInv /\ ExitInv /\ EntryStep => ExitInv'
<1> SUFFICES ASSUME TypeOK, ControlInv, EntryInv, ExitInv, EntryStep PROVE ExitInv'
  OBVIOUS
<1> USE DEF Step, redis, book
<1>1. CASE PlaceEntry
  <2>1. /\ mem.intent \in Trades /\ pos.phase = "IDLE"
        /\ Of("MKT", mem.intent) = {}
    BY <1>1 DEF PlaceEntry, ControlInv, EntryLabels, EntryInv, ExitInv
  <2>2. Sent("BUY", mem.intent)
    BY <1>1, <2>1, PlaceSends, KindFacts DEF PlaceEntry, OwnKinds, TypeOK
  <2>3. \A t \in Trades : /\ Of("MKT", t)' = Of("MKT", t)
                          /\ Of("BUY", t) \subseteq Of("BUY", t)'
    BY <2>2 DEF Sent, OwnKinds
  <2>4. pc' = "saveEntry" /\ UNCHANGED pos /\ mem'.intent = mem.intent
    BY <1>1 DEF PlaceEntry, TypeOK, Memory
  <2> QED
    BY <2>1, <2>3, <2>4 DEF ExitInv, OneExitPerTrade
<1>2. CASE SaveEntry
  <2>1. NoneSent
    BY <1>2, SameSendsNone DEF SaveEntry
  <2>2. /\ mem.intent \in Trades /\ mem.oid \in Nat
        /\ Of("MKT", mem.intent) = {}
    BY <1>2 DEF SaveEntry, ControlInv, EntryLabels, TypeOK, Memory, ExitInv
  <2>3. pos'.trade = mem.intent /\ pc' = "fill"
    BY <1>2, <2>2, FreshPositionLemma DEF SaveEntry
  <2> QED
    BY <2>1, <2>2, <2>3 DEF NoneSent, OwnKinds, ExitInv, OneExitPerTrade
<1>3. CASE PlaceStop
  <2>1. pos.trade \in Trades
    BY <1>3 DEF PlaceStop, ControlInv, FillLabels
  <2>2. Sent("SLM", pos.trade)
    BY <1>3, <2>1, PlaceSends, KindFacts DEF PlaceStop, OwnKinds, TypeOK
  <2>3. \A t \in Trades : /\ Of("MKT", t)' = Of("MKT", t)
                          /\ Of("BUY", t) \subseteq Of("BUY", t)'
    BY <2>2 DEF Sent, OwnKinds
  <2> QED
    BY <1>3, <2>3, ExitQuiet DEF PlaceStop
<1>4. CASE EntryStep /\ ~PlaceEntry /\ ~SaveEntry /\ ~PlaceStop
  <2>1. NoneSent
    BY <1>4, SameSendsNone
    DEF EntryStep, GatePass, GateFail, TakeIntent, DropIntent, AbortEntry,
        EntryFilled, EntryWaits, SaveOpen
  <2>2. pc' \notin {"cancelSL", "sell", "saveEntry"}
    BY <1>4
    DEF EntryStep, GatePass, GateFail, TakeIntent, DropIntent, AbortEntry,
        EntryFilled, EntryWaits, SaveOpen
  <2>3. \/ pos' = pos
        \/ pos.phase = "ENTERING" /\ pos' = [pos EXCEPT !.phase = "OPEN", !.sl = mem.oid]
    BY <1>4
    DEF EntryStep, GatePass, GateFail, TakeIntent, DropIntent, AbortEntry,
        EntryFilled, EntryWaits, SaveOpen, ControlInv, FillLabels
  <2>4. pos'.trade = pos.trade
    BY <2>3 DEF TypeOK, Position
  <2>5. pos' # pos => pos.phase = "ENTERING"
    BY <2>3
  <2> QED
    BY <2>1, <2>2, <2>4, <2>5, ExitQuiet DEF NoneSent, OwnKinds
<1> QED
  BY <1>1, <1>2, <1>3, <1>4

LEMMA ExitExit ==
    TypeOK /\ ControlInv /\ EntryInv /\ ExitInv /\ ExitStep => ExitInv'
<1> SUFFICES ASSUME TypeOK, ControlInv, EntryInv, ExitInv, ExitStep PROVE ExitInv'
  OBVIOUS
<1>1. CASE CancelStop
  <2>1. /\ pc = "cancelSL" /\ pc' = "sell" /\ UNCHANGED pos
        /\ pos.phase = "EXITING"
    BY <1>1 DEF CancelStop, Step, redis, ControlInv, ExitLabels
  <2>2. NoneSent
    BY <1>1, StatusSendsNone, KindFacts DEF CancelStop, Cancel, TypeOK
  <2> QED
    BY <2>1, <2>2 DEF NoneSent, OwnKinds, ExitInv, OneExitPerTrade, ControlInv
<1>2. CASE PlaceExit
  <2>1. /\ pc = "sell" /\ pc' \in {"saveExit", "done"} /\ UNCHANGED pos
        /\ pos.phase = "EXITING" /\ pos.trade \in Trades
    BY <1>2 DEF PlaceExit, redis, ControlInv, ExitLabels
  <2>2. PICK st \in {"OPEN", "COMPLETE"} : Place("MKT", pos.trade, st)
    BY <1>2 DEF PlaceExit
  <2>3. Sent("MKT", pos.trade)
    BY <2>1, <2>2, PlaceSends, KindFacts DEF OwnKinds, TypeOK
  <2>4. Of("MKT", pos.trade) = {} /\ Of("BUY", pos.trade) # {}
    BY <2>1 DEF ExitInv, EntryInv
  <2> QED
    BY <2>1, <2>3, <2>4, ExitSale
<1>3. CASE ~CancelStop /\ ~PlaceExit
  <2>1. NoneSent
    BY <1>3, ExitSends
  <2>2. pc' \notin {"cancelSL", "sell", "saveEntry"}
    BY <1>3
    DEF ExitStep, SaveExit, SettleWaits, SettleBooks, CheckLimit, SaveCooldown,
        PostNotion, AppendClosed, FlagJournaled, Step
  <2> QED
    BY <2>1, <2>2, ExitFrame, ExitQuiet DEF NoneSent, OwnKinds
<1> QED
  BY <1>1, <1>2, <1>3

LEMMA ExitFault ==
    TypeOK /\ ControlInv /\ EntryInv /\ ExitInv /\ FaultStep => ExitInv'
<1> SUFFICES ASSUME TypeOK, ControlInv, EntryInv, ExitInv, FaultStep PROVE ExitInv'
  OBVIOUS
<1>1. UNCHANGED pos
  BY DEF FaultStep, Crash, CallRaises, ReplyLost, CallSwallowed, redis
<1>2. CASE CallSwallowed
  <2>1. /\ NoneSent /\ pc' # "saveEntry" /\ pc' # "cancelSL"
        /\ pc' = "sell" => pc = "cancelSL"
    BY <1>2, SameSendsNone DEF CallSwallowed, book
  <2> QED
    BY <1>1, <2>1 DEF NoneSent, OwnKinds, ExitInv, OneExitPerTrade, ControlInv, ExitLabels
<1>3. CASE Crash \/ CallRaises
  <2>1. NoneSent /\ pc' \in {"down", "done"}
    BY <1>3, SameSendsNone DEF Crash, CallRaises, book
  <2> QED
    BY <1>1, <2>1, ExitQuiet DEF NoneSent, OwnKinds
<1>4. CASE ReplyLost
  <2>1. pc' \in {"down", "done"}
    BY <1>4 DEF ReplyLost
  <2>2. CASE pc = "sell" /\ Place("MKT", pos.trade, "OPEN")
    <3>1. /\ pos.phase = "EXITING" /\ pos.trade \in Trades
          /\ Of("MKT", pos.trade) = {} /\ Of("BUY", pos.trade) # {}
      BY <2>2 DEF ControlInv, ExitLabels, ExitInv, EntryInv
    <3>2. Sent("MKT", pos.trade)
      BY <2>2, <3>1, PlaceSends, KindFacts DEF OwnKinds, TypeOK
    <3> QED
      BY <1>1, <2>1, <3>1, <3>2, ExitSale
  <2>3. CASE pc = "enter" /\ Place("BUY", mem.intent, "OPEN")
    <3>1. mem.intent \in Trades
      BY <2>3 DEF ControlInv, EntryLabels
    <3>2. Sent("BUY", mem.intent)
      BY <2>3, <3>1, PlaceSends, KindFacts DEF OwnKinds, TypeOK
    <3> QED
      BY <1>1, <2>1, <3>2, ExitQuiet DEF Sent, OwnKinds
  <2>4. CASE pc = "placeSL" /\ Place("SLM", pos.trade, "OPEN")
    <3>1. pos.trade \in Trades
      BY <2>4 DEF ControlInv, FillLabels
    <3>2. Sent("SLM", pos.trade)
      BY <2>4, <3>1, PlaceSends, KindFacts DEF OwnKinds, TypeOK
    <3> QED
      BY <1>1, <2>1, <3>2, ExitQuiet DEF Sent, OwnKinds
  <2> QED
    BY <1>4, <2>2, <2>3, <2>4 DEF ReplyLost
<1> QED
  BY <1>2, <1>3, <1>4 DEF FaultStep

\* What the outside world leaves alone.
LEMMA WorldFrame ==
    ASSUME TypeOK, WorldStep
    PROVE  NoneSent /\ UNCHANGED <<pc, mem, pos, booked, notion, closed>>
BY SameSendsNone, ExchangeSendsNone, ExternalSendsNone
DEF WorldStep, WriteIntent, ExpireIntent, PassSquareoff, ExchangeActs,
    ExternalClose, redis, ledger, book

LEMMA ExitStepLemma ==
    TypeOK /\ ControlInv /\ EntryInv /\ ExitInv /\ [Next]_vars => ExitInv'
<1> SUFFICES ASSUME TypeOK, ControlInv, EntryInv, ExitInv, [Next]_vars PROVE ExitInv'
  OBVIOUS
<1>1. CASE UNCHANGED vars
  BY <1>1 DEF vars, ExitInv, OneExitPerTrade, Of, Ids
<1>2. CASE PassStep
  <2>1. pc' \notin {"cancelSL", "sell", "saveEntry"}
        /\ pos'.phase = pos.phase /\ pos'.trade = pos.trade
    BY <1>2 DEF PassStep, TickStart, SubloopPass, TickEnd, ReadStopStatus,
                ReadPositions, Step, AfterLoad, redis, TypeOK, Position
  <2> QED
    BY <1>2, <2>1, PassSendsNone, ExitQuiet DEF NoneSent, OwnKinds
<1>3. CASE WorldStep
  BY <1>3, WorldFrame
  DEF NoneSent, OwnKinds, ExitInv, OneExitPerTrade, ControlInv, ExitLabels, EntryLabels
<1> QED
  BY <1>1, <1>2, <1>3, ExitRoute, ExitEntry, ExitExit, ExitFault DEF Next, TickStep

LEMMA ExitInvariant == Spec => []ExitInv
<1>1. Init => ExitInv
  BY ExitInit
<1>2. TypeOK /\ ControlInv /\ EntryInv /\ ExitInv /\ [Next]_vars => ExitInv'
  BY ExitStepLemma
<1> QED
  BY <1>1, <1>2, TypeControl, EntryInvariant, PTL DEF Spec

\* However a tick dies inside _exit, the position is sold at the market at
\* most once: EXITING is on record before the sell is sent.
THEOREM NeverSellsTwice == Spec => []OneExitPerTrade
<1>1. ExitInv => OneExitPerTrade
  BY DEF ExitInv
<1> QED
  BY <1>1, ExitInvariant, PTL

-----------------------------------------------------------------------------
(* Stops. *)

\* What a step may do to the book: it adds one order at most, a buy for the
\* intent in hand, a stop after a filled entry or a sale; an order that is no
\* longer OPEN keeps its status, and only CancelStop cancels.
OrdersKept ==
    /\ Ids \subseteq Ids' /\ Ids' \subseteq Ids \cup {NewId}
    /\ \A o \in Ids : /\ orders'[o].kind = orders[o].kind
                      /\ orders'[o].trade = orders[o].trade
                      /\ orders[o].status # "OPEN" => orders'[o].status = orders[o].status
                      /\ IsComplete(o) => IsComplete(o)'
                      /\ orders[o].status # "CANCELLED" /\ pc # "cancelSL" =>
                             orders'[o].status # "CANCELLED"
    /\ \A o \in Ids' \ Ids :
           /\ orders'[o].kind = "SLM" => pc = "placeSL" /\ orders'[o].trade = pos.trade
           /\ orders'[o].kind = "BUY" => pc = "enter" /\ orders'[o].trade = mem.intent

LEMMA KeptSame == ASSUME UNCHANGED orders PROVE OrdersKept
BY DEF OrdersKept, Ids, IsComplete

LEMMA KeptPlace ==
    ASSUME BookTypeOK, NEW kind \in Kinds, NEW t \in Trades,
           NEW status \in Statuses, Place(kind, t, status),
           kind = "SLM" => pc = "placeSL" /\ t = pos.trade,
           kind = "BUY" => pc = "enter" /\ t = mem.intent
    PROVE  OrdersKept
<1>1. /\ NewId \notin Ids /\ Ids' = Ids \cup {NewId}
      /\ \A o \in Ids : orders'[o] = orders[o]
      /\ orders'[NewId] = [kind |-> kind, trade |-> t, status |-> status]
  BY PlaceLemma
<1>2. orders'[NewId].kind = kind /\ orders'[NewId].trade = t
  BY <1>1
<1> QED
  BY <1>1, <1>2 DEF OrdersKept, IsComplete

LEMMA KeptStatus ==
    ASSUME BookTypeOK, NEW S, NEW status \in Statuses, SetStatus(S, status),
           \A o \in S \cap Ids : orders[o].status = "OPEN",
           status = "CANCELLED" => pc = "cancelSL"
    PROVE  OrdersKept
<1>1. /\ Ids' = Ids
      /\ \A o \in Ids : orders'[o] =
            IF o \in S THEN [orders[o] EXCEPT !.status = status] ELSE orders[o]
  BY SetStatusLemma
<1>2. \A o \in Ids : orders[o] \in Order
  BY BookElements
<1>3. \A o \in Ids : /\ orders'[o].kind = orders[o].kind
                     /\ orders'[o].trade = orders[o].trade
                     /\ orders'[o].status = IF o \in S THEN status ELSE orders[o].status
  BY <1>1, <1>2 DEF Order
<1> QED
  BY <1>1, <1>3 DEF OrdersKept, IsComplete

LEMMA KeptByPass == ASSUME TypeOK, PassStep PROVE OrdersKept
<1>1. ASSUME NEW q \in BOOLEAN, PaperTick(q) PROVE OrdersKept
  <2>1. CASE UNCHANGED orders
    BY <2>1, KeptSame
  <2>2. CASE \E F \in SUBSET {o \in Resting(Symbol) : orders[o].kind # "MKT"} :
                 SetStatus(F, "COMPLETE")
    BY <2>2, KeptStatus, KindFacts DEF TypeOK, Resting
  <2> QED
    BY <1>1, <2>1, <2>2 DEF PaperTick
<1>2. CASE TickEnd \/ ReadStopStatus \/ ReadPositions
  BY <1>2, KeptSame DEF TickEnd, ReadStopStatus, ReadPositions, book
<1> QED
  BY <1>1, <1>2 DEF PassStep, TickStart, SubloopPass

LEMMA KeptByEntry ==
    ASSUME TypeOK, ControlInv, EntryStep PROVE OrdersKept
<1>1. CASE PlaceEntry
  <2>1. PICK st \in {"OPEN", "COMPLETE"} : Place("BUY", mem.intent, st)
    BY <1>1 DEF PlaceEntry
  <2>2. mem.intent \in Trades /\ pc = "enter"
    BY <1>1 DEF PlaceEntry, Step, ControlInv, EntryLabels
  <2> QED
    BY <2>1, <2>2, KeptPlace, KindFacts DEF TypeOK, OwnKinds
<1>2. CASE PlaceStop
  BY <1>2, KeptPlace, KindFacts
  DEF PlaceStop, Step, ControlInv, FillLabels, TypeOK, OwnKinds
<1>3. CASE EntryStep /\ ~PlaceEntry /\ ~PlaceStop
  BY <1>3, KeptSame
  DEF EntryStep, GatePass, GateFail, TakeIntent, DropIntent, AbortEntry,
      SaveEntry, EntryFilled, EntryWaits, SaveOpen, book
<1> QED
  BY <1>1, <1>2, <1>3

LEMMA KeptByExit ==
    ASSUME TypeOK, ControlInv, ExitStep PROVE OrdersKept
<1>1. CASE CancelStop
  BY <1>1, KeptStatus, KindFacts DEF CancelStop, Cancel, Step, TypeOK
<1>2. CASE PlaceExit
  <2>1. PICK st \in {"OPEN", "COMPLETE"} : Place("MKT", pos.trade, st)
    BY <1>2 DEF PlaceExit
  <2>2. pos.trade \in Trades
    BY <1>2 DEF PlaceExit, ControlInv, ExitLabels
  <2> QED
    BY <2>1, <2>2, KeptPlace, KindFacts DEF TypeOK, OwnKinds
<1>3. CASE ExitStep /\ ~CancelStop /\ ~PlaceExit
  BY <1>3, KeptSame
  DEF ExitStep, SaveExit, SettleWaits, SettleBooks, CheckLimit, SaveCooldown,
      PostNotion, AppendClosed, FlagJournaled, book
<1> QED
  BY <1>1, <1>2, <1>3

LEMMA KeptByFault ==
    ASSUME TypeOK, ControlInv, FaultStep PROVE OrdersKept
<1>1. CASE ReplyLost
  BY <1>1, KeptPlace, KindFacts
  DEF ReplyLost, ControlInv, EntryLabels, FillLabels, ExitLabels, TypeOK, OwnKinds
<1>2. CASE Crash \/ CallRaises \/ CallSwallowed
  BY <1>2, KeptSame DEF Crash, CallRaises, CallSwallowed, book
<1> QED
  BY <1>1, <1>2 DEF FaultStep

LEMMA KeptByWorld == ASSUME TypeOK, WorldStep PROVE OrdersKept
<1>1. CASE ExchangeActs
  BY <1>1, KeptStatus, KindFacts DEF ExchangeActs, TypeOK
<1>2. CASE ExternalClose
  BY <1>2, KeptPlace, KindFacts DEF ExternalClose, TypeOK
<1>3. CASE WriteIntent \/ ExpireIntent \/ PassSquareoff
  BY <1>3, KeptSame DEF WriteIntent, ExpireIntent, PassSquareoff, book
<1> QED
  BY <1>1, <1>2, <1>3 DEF WorldStep

LEMMA AlwaysKept ==
    ASSUME TypeOK, ControlInv, [Next]_vars PROVE OrdersKept
<1>1. CASE UNCHANGED vars \/ RouteStep
  BY <1>1, KeptSame
  DEF vars, RouteStep, Squareoff, NothingToDo, Manage, Hold, RouteEntering,
      RouteExiting, RouteCooldown, RouteIdle, BeginExit, book
<1> QED
  BY <1>1, KeptByPass, KeptByEntry, KeptByExit, KeptByFault, KeptByWorld
  DEF Next, TickStep

\* A position becomes OPEN only in SaveOpen, and keeps its orders while OPEN;
\* the two steps before that see the same ENTERING position.
StopFrame ==
    /\ pos'.phase = "OPEN" =>
         \/ /\ pos.phase = "OPEN" /\ pos'.trade = pos.trade
            /\ pos'.entry = pos.entry /\ pos'.sl = pos.sl
         \/ /\ SaveOpen /\ pc = "saveOpen" /\ pos'.trade = pos.trade
            /\ pos'.entry = pos.entry /\ pos'.sl = mem.oid
    /\ pc' \in {"placeSL", "saveOpen"} =>
         /\ pos' = pos
         /\ \/ pc' = "placeSL" /\ EntryFilled
            \/ pc' = "saveOpen" /\ PlaceStop
            \/ pc' = pc /\ mem' = mem

LEMMA StopFrameHolds ==
    ASSUME TypeOK, ControlInv, [Next]_vars PROVE StopFrame
<1>1. CASE UNCHANGED vars
  BY <1>1 DEF vars, StopFrame
<1>2. CASE PassStep
  BY <1>2
  DEF PassStep, TickStart, SubloopPass, TickEnd, ReadStopStatus, ReadPositions,
      Step, AfterLoad, redis, TypeOK, Position, StopFrame
<1>3. CASE RouteStep
  <2>1. pc' \notin {"placeSL", "saveOpen"}
    BY <1>3
    DEF RouteStep, Squareoff, NothingToDo, Manage, Hold, RouteEntering, Step,
        RouteExiting, RouteCooldown, RouteIdle, BeginExit, Routed
  <2>2. pos' = pos \/ pos' = NoPosition \/ pos' = [pos EXCEPT !.phase = "EXITING"]
    BY <1>3
    DEF RouteStep, Squareoff, NothingToDo, Manage, Hold, RouteEntering,
        RouteExiting, RouteCooldown, RouteIdle, BeginExit, redis
  <2> QED
    BY <2>1, <2>2 DEF StopFrame, NoPosition, TypeOK, Position
<1>4. CASE EntryStep
  <2>1. CASE SaveOpen
    BY <2>1 DEF SaveOpen, Step, TypeOK, Position, StopFrame
  <2>2. CASE SaveEntry
    <3>1. mem.intent \in Trades /\ mem.oid \in Nat
      BY <2>2 DEF SaveEntry, Step, ControlInv, EntryLabels, TypeOK, Memory
    <3>2. pos'.phase = "ENTERING" /\ pc' = "fill"
      BY <2>2, <3>1, FreshPositionLemma DEF SaveEntry, Step
    <3> QED
      BY <3>2 DEF StopFrame
  <2>3. CASE EntryStep /\ ~SaveOpen /\ ~SaveEntry
    BY <2>3
    DEF EntryStep, GatePass, GateFail, TakeIntent, DropIntent, AbortEntry,
        PlaceEntry, EntryFilled, EntryWaits, PlaceStop, Step, redis, StopFrame
  <2> QED
    BY <1>4, <2>1, <2>2, <2>3
<1>5. CASE ExitStep
  BY <1>5, ExitFrame DEF StopFrame, FillLabels
<1>6. CASE FaultStep
  BY <1>6
  DEF FaultStep, Crash, CallRaises, ReplyLost, CallSwallowed, redis, StopFrame
<1>7. CASE WorldStep
  BY <1>7, WorldFrame DEF StopFrame
<1> QED
  BY <1>1, <1>2, <1>3, <1>4, <1>5, <1>6, <1>7 DEF Next, TickStep

LEMMA StopInit == Init => StopInv
BY DEF Init, StopInv, OpenIsBacked, StopsFollowFills, NoPosition, Ids

LEMMA StopStepLemma ==
    TypeOK /\ ControlInv /\ EntryInv /\ StopInv /\ [Next]_vars => StopInv'
<1> SUFFICES ASSUME TypeOK, ControlInv, EntryInv, StopInv, [Next]_vars PROVE StopInv'
  OBVIOUS
<1>1. OrdersKept /\ StopFrame
  BY AlwaysKept, StopFrameHolds
<1>2. \A k \in Kinds, t \in Trades : Of(k, t) \subseteq Of(k, t)'
  BY <1>1 DEF OrdersKept, Of
<1>3. \A o : IsComplete(o) => IsComplete(o)'
  BY <1>1 DEF OrdersKept, IsComplete
<1>4. StopsFollowFills'
  <2> SUFFICES ASSUME NEW o \in Ids', orders'[o].kind = "SLM"
               PROVE  \E b \in Of("BUY", orders[o].trade)' : IsComplete(b)'
    BY DEF StopsFollowFills
  <2>1. CASE o \in Ids
    <3>1. orders[o].kind = "SLM" /\ orders'[o].trade = orders[o].trade
      BY <1>1, <2>1 DEF OrdersKept
    <3>2. orders[o].trade \in Trades
      BY <2>1, BookElements DEF TypeOK, Order
    <3>3. PICK b \in Of("BUY", orders[o].trade) : IsComplete(b)
      BY <2>1, <3>1 DEF StopInv, StopsFollowFills
    <3> QED
      BY <1>2, <1>3, <3>1, <3>2, <3>3, KindFacts DEF OwnKinds, Of
  <2>2. CASE o \notin Ids
    <3>1. pc = "placeSL" /\ orders'[o].trade = pos.trade
      BY <1>1, <2>2 DEF OrdersKept
    <3>2. pos.trade \in Trades /\ pos.entry \in Of("BUY", pos.trade) /\ IsComplete(pos.entry)
      BY <3>1 DEF ControlInv, FillLabels, EntryInv, StopInv
    <3> QED
      BY <1>2, <1>3, <3>1, <3>2, KindFacts DEF OwnKinds, Of
  <2> QED
    BY <2>1, <2>2
<1>5. OpenIsBacked'
  <2> SUFFICES ASSUME pos'.phase = "OPEN"
               PROVE  /\ pos'.entry \in Of("BUY", pos.trade)' /\ IsComplete(pos.entry)'
                      /\ pos'.sl \in Of("SLM", pos.trade)'
                      /\ orders'[pos'.sl].status # "CANCELLED"
    BY DEF OpenIsBacked
  <2>1. PICK sl \in {pos.sl, mem.oid} :
            /\ pos.trade \in Trades /\ pos.phase # "IDLE" /\ pc # "cancelSL"
            /\ pos'.trade = pos.trade /\ pos'.entry = pos.entry /\ pos'.sl = sl
            /\ IsComplete(pos.entry)
            /\ sl \in Of("SLM", pos.trade) /\ orders[sl].status # "CANCELLED"
    BY <1>1 DEF StopFrame, StopInv, OpenIsBacked, ControlInv, FillLabels, ExitLabels
  <2>2. pos.entry \in Of("BUY", pos.trade) /\ sl \in Ids
    BY <2>1 DEF EntryInv, Of
  <2> QED
    BY <1>1, <1>2, <1>3, <2>1, <2>2, KindFacts DEF OrdersKept, OwnKinds, Of, IsComplete
<1>6. pc' \in {"placeSL", "saveOpen"} => IsComplete(pos.entry)'
  BY <1>1, <1>3 DEF StopFrame, EntryFilled, PlaceStop, Step, StopInv, IsComplete
<1>7. pc' = "saveOpen" => /\ (mem.oid \in Of("SLM", pos.trade))'
                          /\ orders'[mem'.oid].status # "CANCELLED"
  <2> SUFFICES ASSUME pc' = "saveOpen"
               PROVE  /\ (mem.oid \in Of("SLM", pos.trade))'
                      /\ orders'[mem'.oid].status # "CANCELLED"
    OBVIOUS
  <2>1. CASE PlaceStop
    <3>1. /\ Place("SLM", pos.trade, "OPEN") /\ mem'.oid = NewId /\ pos' = pos
          /\ pos.trade \in Trades
      BY <2>1 DEF PlaceStop, Step, redis, TypeOK, Memory, ControlInv, FillLabels
    <3>2. /\ Ids' = Ids \cup {NewId}
          /\ orders'[NewId] = [kind |-> "SLM", trade |-> pos.trade, status |-> "OPEN"]
      BY <3>1, PlaceLemma, KindFacts DEF TypeOK, OwnKinds
    <3> QED
      BY <3>1, <3>2 DEF Of
  <2>2. CASE pc' = pc /\ mem' = mem /\ pos' = pos
    <3>1. /\ pos.trade \in Trades /\ mem.oid \in Of("SLM", pos.trade)
          /\ orders[mem.oid].status # "CANCELLED" /\ mem.oid \in Ids
      BY <2>2 DEF ControlInv, FillLabels, StopInv, Of
    <3> QED
      BY <1>1, <1>2, <2>2, <3>1, KindFacts DEF OrdersKept, OwnKinds, Of, FillLabels, ControlInv
  <2> QED
    BY <1>1, <2>1, <2>2 DEF StopFrame
<1> QED
  BY <1>4, <1>5, <1>6, <1>7 DEF StopInv

LEMMA StopInvariant == Spec => []StopInv
<1>1. Init => StopInv
  BY StopInit
<1>2. TypeOK /\ ControlInv /\ EntryInv /\ StopInv /\ [Next]_vars => StopInv'
  BY StopStepLemma
<1> QED
  BY <1>1, <1>2, TypeControl, EntryInvariant, PTL DEF Spec

\* An OPEN position was really bought and its recorded stop was really sent,
\* and the executor has not cancelled it behind Redis's back.
THEOREM OpenPositionsAreBacked == Spec => []OpenIsBacked
<1>1. StopInv => OpenIsBacked
  BY DEF StopInv
<1> QED
  BY <1>1, StopInvariant, PTL

\* No stop is ever sent for an entry that has not filled.
THEOREM StopsComeAfterFills == Spec => []StopsFollowFills
<1>1. StopInv => StopsFollowFills
  BY DEF StopInv
<1> QED
  BY <1>1, StopInvariant, PTL

-----------------------------------------------------------------------------
(* Booking and the journal. *)

Holding == {"ENTERING", "OPEN", "EXITING"}

\* Bought trades stay bought.
LEMMA BoughtStays ==
    ASSUME TypeOK, ControlInv, [Next]_vars, NEW t \in Trades, Of("BUY", t) # {}
    PROVE  Of("BUY", t)' # {}
BY AlwaysKept DEF OrdersKept, Of

LEMMA SettleInit == Init => SettleInv
BY DEF Init, SettleInv, CooldownIsBooked, JournaledAtMostOnce, NoPosition, Zero

\* A step that writes no ledger and moves no trade into a phase or a label
\* that SettleInv speaks of.
LEMMA SettleQuiet ==
    ASSUME TypeOK, ControlInv, SettleInv, [Next]_vars,
           UNCHANGED <<booked, notion, closed>>,
           pos'.phase = "COOLDOWN" => pos.phase = "COOLDOWN" /\ pos'.trade = pos.trade,
           pos'.phase \in Holding => pos.phase \in Holding /\ pos'.trade = pos.trade,
           \/ pc' \notin {"limit", "cooldown", "saveEntry", "journal", "append"}
           \/ pc' = pc /\ pos'.trade = pos.trade /\ mem'.intent = mem.intent
    PROVE  SettleInv'
<1>1. \A t \in Trades : booked'[t] > 0 => Of("BUY", t)' # {}
  BY BoughtStays DEF SettleInv
<1>2. pos'.phase \in {"ENTERING", "OPEN", "EXITING"} =>
          notion'[pos'.trade] = 0 /\ closed'[pos'.trade] = 0
  BY DEF SettleInv, Holding
<1>3. CooldownIsBooked' /\ JournaledAtMostOnce'
  BY DEF SettleInv, CooldownIsBooked, JournaledAtMostOnce
<1> QED
  BY <1>1, <1>2, <1>3 DEF SettleInv

LEMMA SettlePass ==
    ASSUME TypeOK, ControlInv, SettleInv, [Next]_vars, PassStep PROVE SettleInv'
<1>1. /\ UNCHANGED <<booked, notion, closed>>
      /\ pc' \notin {"limit", "cooldown", "saveEntry", "journal", "append"}
      /\ pos'.phase = pos.phase /\ pos'.trade = pos.trade
  BY DEF PassStep, TickStart, SubloopPass, TickEnd, ReadStopStatus, ReadPositions,
         Step, AfterLoad, redis, ledger, TypeOK, Position
<1> QED
  BY <1>1, SettleQuiet

LEMMA SettleRoute ==
    ASSUME TypeOK, ControlInv, SettleInv, [Next]_vars, RouteStep PROVE SettleInv'
<1>1. /\ UNCHANGED <<booked, notion, closed>>
      /\ pc' \notin {"limit", "cooldown", "saveEntry", "journal", "append"}
  BY DEF RouteStep, Squareoff, NothingToDo, Manage, Hold, RouteEntering, ledger,
         RouteExiting, RouteCooldown, RouteIdle, BeginExit, Routed, Step
<1>2. \/ pos' = pos \/ pos' = NoPosition
      \/ pos' = [pos EXCEPT !.phase = "EXITING"] /\ pos.phase \in Holding
  BY DEF RouteStep, Squareoff, NothingToDo, Manage, Hold, RouteEntering, Routed,
         RouteExiting, RouteCooldown, RouteIdle, BeginExit, redis, Holding
<1>3. /\ pos'.phase = "COOLDOWN" => pos.phase = "COOLDOWN" /\ pos'.trade = pos.trade
      /\ pos'.phase \in Holding => pos.phase \in Holding /\ pos'.trade = pos.trade
  BY <1>2 DEF Holding, NoPosition, TypeOK, Position
<1> QED
  BY <1>1, <1>3, SettleQuiet

LEMMA SettleEntry ==
    ASSUME TypeOK, ControlInv, EntryInv, SettleInv, [Next]_vars, EntryStep
    PROVE  SettleInv'
<1>1. UNCHANGED <<booked, notion, closed>>
  BY DEF EntryStep, GatePass, GateFail, TakeIntent, DropIntent, AbortEntry,
         PlaceEntry, SaveEntry, EntryFilled, EntryWaits, PlaceStop, SaveOpen, ledger
<1>2. CASE PlaceEntry
  <2>1. /\ pc' = "saveEntry" /\ pos' = pos /\ mem'.intent = mem.intent
        /\ mem.intent \in Trades /\ Of("BUY", mem.intent) = {}
    BY <1>2 DEF PlaceEntry, Step, redis, TypeOK, Memory, ControlInv, EntryLabels, EntryInv
  <2>2. booked'[mem.intent] = 0
    BY <1>1, <2>1 DEF SettleInv, TypeOK
  <2>3. \A t \in Trades : booked'[t] > 0 => Of("BUY", t)' # {}
    BY <1>1, BoughtStays DEF SettleInv
  <2>4. CooldownIsBooked' /\ JournaledAtMostOnce'
    BY <1>1, <2>1 DEF SettleInv, CooldownIsBooked, JournaledAtMostOnce
  <2> QED
    BY <1>1, <2>1, <2>2, <2>3, <2>4 DEF SettleInv
<1>3. CASE SaveEntry
  <2>1. mem.intent \in Trades /\ mem.oid \in Nat /\ booked[mem.intent] = 0
    BY <1>3 DEF SaveEntry, Step, ControlInv, EntryLabels, TypeOK, Memory, SettleInv
  <2>2. pos'.phase = "ENTERING" /\ pos'.trade = mem.intent /\ pc' = "fill"
    BY <1>3, <2>1, FreshPositionLemma DEF SaveEntry, Step
  <2>3. notion[mem.intent] = 0 /\ closed[mem.intent] = 0
    BY <2>1 DEF SettleInv, CooldownIsBooked, TypeOK
  <2>4. \A t \in Trades : booked'[t] > 0 => Of("BUY", t)' # {}
    BY <1>1, BoughtStays DEF SettleInv
  <2>5. CooldownIsBooked' /\ JournaledAtMostOnce'
    BY <1>1, <2>2 DEF SettleInv, CooldownIsBooked, JournaledAtMostOnce
  <2> QED
    BY <1>1, <2>2, <2>3, <2>4, <2>5 DEF SettleInv
<1>4. CASE SaveOpen
  <2>1. /\ pos.phase \in Holding /\ pos'.phase = "OPEN" /\ pos'.trade = pos.trade
        /\ pc' = "done"
    BY <1>4 DEF SaveOpen, Step, ControlInv, FillLabels, TypeOK, Position, Holding
  <2> QED
    BY <1>1, <2>1, SettleQuiet
<1>5. CASE EntryStep /\ ~PlaceEntry /\ ~SaveEntry /\ ~SaveOpen
  <2>1. pos' = pos /\ pc' \notin {"limit", "cooldown", "saveEntry", "journal", "append"}
    BY <1>5 DEF EntryStep, GatePass, GateFail, TakeIntent, DropIntent, AbortEntry,
                EntryFilled, EntryWaits, PlaceStop, Step, redis
  <2> QED
    BY <1>1, <2>1, SettleQuiet
<1> QED
  BY <1>2, <1>3, <1>4, <1>5

LEMMA SettleExit ==
    ASSUME TypeOK, ControlInv, EntryInv, SettleInv, [Next]_vars, ExitStep
    PROVE  SettleInv'
<1>0. \A t \in Trades : Of("BUY", t) # {} => Of("BUY", t)' # {}
  BY BoughtStays
<1>1. CASE SettleBooks
  <2>1. /\ pos.phase = "EXITING" /\ pos.trade \in Trades /\ pc' = "limit" /\ pos' = pos
        /\ booked' = [booked EXCEPT ![pos.trade] = @ + 1]
        /\ UNCHANGED <<notion, closed>> /\ Of("BUY", pos.trade) # {}
    BY <1>1 DEF SettleBooks, Step, redis, ControlInv, ExitLabels, EntryInv
  <2>2. booked'[pos.trade] > 0 /\ \A t \in Trades : booked'[t] >= booked[t]
    BY <2>1 DEF TypeOK
  <2>3. \A t \in Trades : booked'[t] > 0 => Of("BUY", t)' # {}
    BY <1>0, <2>1 DEF SettleInv, TypeOK
  <2>4. CooldownIsBooked' /\ JournaledAtMostOnce'
    <3>1. \A t \in Trades : booked[t] \in Nat /\ booked'[t] \in Nat
      BY <2>1 DEF TypeOK
    <3> QED
      BY <2>1, <2>2, <3>1 DEF SettleInv, CooldownIsBooked, JournaledAtMostOnce
  <2> QED
    BY <2>1, <2>2, <2>3, <2>4 DEF SettleInv
<1>2. CASE CheckLimit
  <2>1. pc = "limit" /\ pc' = "cooldown" /\ pos' = pos /\ UNCHANGED <<booked, notion, closed>>
    BY <1>2 DEF CheckLimit, Step, ledger
  <2> QED
    BY <1>0, <2>1 DEF SettleInv, CooldownIsBooked, JournaledAtMostOnce
<1>3. CASE SaveCooldown
  <2>1. /\ pc = "cooldown" /\ pc' = "journal" /\ pos.phase = "EXITING"
        /\ pos'.phase = "COOLDOWN" /\ pos'.trade = pos.trade
        /\ UNCHANGED <<booked, notion, closed>>
    BY <1>3 DEF SaveCooldown, Step, ledger, ControlInv, ExitLabels, TypeOK, Position
  <2> QED
    BY <1>0, <2>1 DEF SettleInv, CooldownIsBooked, JournaledAtMostOnce
<1>4. CASE PostNotion
  <2>1. /\ pc = "journal" /\ pos' = pos /\ UNCHANGED <<booked, closed>>
        /\ pos.phase = "COOLDOWN" /\ pos.trade \in Trades
        /\ notion[pos.trade] = 0 /\ closed[pos.trade] = 0
    BY <1>4 DEF PostNotion, redis, ControlInv, SettleInv
  <2>2. \/ pc' = "append" /\ notion' = [notion EXCEPT ![pos.trade] = @ + 1]
        \/ pc' = "done" /\ notion' = notion
    BY <1>4 DEF PostNotion
  <2>3. CASE pc' = "append" /\ notion' = [notion EXCEPT ![pos.trade] = @ + 1]
    <3>1. /\ notion'[pos.trade] = 1
          /\ \A t \in Trades : t # pos.trade => notion'[t] = notion[t]
      BY <2>1, <2>3 DEF TypeOK
    <3> QED
      BY <1>0, <2>1, <2>3, <3>1 DEF SettleInv, CooldownIsBooked, JournaledAtMostOnce
  <2>4. CASE pc' = "done" /\ notion' = notion
    BY <1>0, <2>1, <2>4 DEF SettleInv, CooldownIsBooked, JournaledAtMostOnce
  <2> QED
    BY <2>2, <2>3, <2>4
<1>5. CASE AppendClosed
  <2>1. /\ pc' = "flag" /\ pos' = pos /\ UNCHANGED <<booked, notion>>
        /\ pos.phase = "COOLDOWN" /\ pos.trade \in Trades
        /\ closed[pos.trade] = 0
        /\ closed' = [closed EXCEPT ![pos.trade] = @ + 1]
    BY <1>5 DEF AppendClosed, Step, redis, ControlInv, SettleInv
  <2>2. /\ closed'[pos.trade] = 1
        /\ \A t \in Trades : t # pos.trade => closed'[t] = closed[t]
    BY <2>1 DEF TypeOK
  <2> QED
    BY <1>0, <2>1, <2>2 DEF SettleInv, CooldownIsBooked, JournaledAtMostOnce
<1>6. CASE CancelStop \/ PlaceExit \/ SaveExit \/ SettleWaits \/ FlagJournaled
  <2>1. /\ UNCHANGED <<booked, notion, closed>>
        /\ pc' \notin {"limit", "cooldown", "saveEntry", "journal", "append"}
        /\ pos'.phase = pos.phase /\ pos'.trade = pos.trade
    BY <1>6 DEF CancelStop, PlaceExit, SaveExit, SettleWaits, FlagJournaled, Step,
                redis, ledger, TypeOK, Position
  <2> QED
    BY <2>1, SettleQuiet
<1> QED
  BY <1>1, <1>2, <1>3, <1>4, <1>5, <1>6 DEF ExitStep

LEMMA SettleFault ==
    ASSUME TypeOK, ControlInv, SettleInv, [Next]_vars, FaultStep PROVE SettleInv'
<1>1. /\ UNCHANGED <<booked, notion, closed, pos>>
      /\ pc' \notin {"limit", "cooldown", "saveEntry", "journal", "append"}
  BY DEF FaultStep, Crash, CallRaises, ReplyLost, CallSwallowed, redis, ledger
<1> QED
  BY <1>1, SettleQuiet

LEMMA SettleStepLemma ==
    TypeOK /\ ControlInv /\ EntryInv /\ SettleInv /\ [Next]_vars => SettleInv'
<1> SUFFICES ASSUME TypeOK, ControlInv, EntryInv, SettleInv, [Next]_vars PROVE SettleInv'
  OBVIOUS
<1>1. CASE UNCHANGED vars
  BY <1>1, SettleQuiet DEF vars
<1>2. CASE WorldStep
  BY <1>2, WorldFrame, SettleQuiet
<1> QED
  BY <1>1, <1>2, SettlePass, SettleRoute, SettleEntry, SettleExit, SettleFault
  DEF Next, TickStep

LEMMA SettleInvariant == Spec => []SettleInv
<1>1. Init => SettleInv
  BY SettleInit
<1>2. TypeOK /\ ControlInv /\ EntryInv /\ SettleInv /\ [Next]_vars => SettleInv'
  BY SettleStepLemma
<1> QED
  BY <1>1, <1>2, TypeControl, EntryInvariant, PTL DEF Spec

\* COOLDOWN and the journal follow the booking, wherever a tick dies between
\* the writes.
THEOREM CooldownFollowsBooking == Spec => []CooldownIsBooked
<1>1. SettleInv => CooldownIsBooked
  BY DEF SettleInv
<1> QED
  BY <1>1, SettleInvariant, PTL

\* No trade is posted or listed twice, although the flag that says so is the last
\* of three writes.
THEOREM NeverJournaledTwice == Spec => []JournaledAtMostOnce
<1>1. SettleInv => JournaledAtMostOnce
  BY DEF SettleInv
<1> QED
  BY <1>1, SettleInvariant, PTL

-----------------------------------------------------------------------------
(* The square-off. *)

\* Only the step after "sell" sends a market sell, for the trade of the position.
SalesMade ==
    \A t \in Trades : Of("MKT", t)' # {} =>
        Of("MKT", t) # {} \/ (pc = "sell" /\ t = pos.trade)

LEMMA NoneSentNoSale == ASSUME NoneSent PROVE SalesMade
BY DEF NoneSent, SalesMade, OwnKinds

LEMMA SalesByFault == ASSUME TypeOK, ControlInv, FaultStep PROVE SalesMade
<1>1. CASE ReplyLost
  <2>1. PICK k \in OwnKinds, t \in Trades :
            /\ Place(k, t, "OPEN")
            /\ k = "MKT" => pc = "sell" /\ t = pos.trade
    BY <1>1 DEF ReplyLost, ControlInv, EntryLabels, FillLabels, ExitLabels, OwnKinds
  <2>2. Sent(k, t)
    BY <2>1, PlaceSends, KindFacts DEF TypeOK
  <2> QED
    BY <2>1, <2>2 DEF Sent, SalesMade, OwnKinds
<1>2. CASE Crash \/ CallRaises \/ CallSwallowed
  BY <1>2, SameSendsNone, NoneSentNoSale DEF Crash, CallRaises, CallSwallowed, book
<1> QED
  BY <1>1, <1>2 DEF FaultStep

LEMMA SalesByEntry == ASSUME TypeOK, ControlInv, EntryStep PROVE SalesMade
<1>1. CASE PlaceEntry \/ PlaceStop
  <2>1. PICK k \in {"BUY", "SLM"}, t \in Trades, st \in {"OPEN", "COMPLETE"} : Place(k, t, st)
    BY <1>1 DEF PlaceEntry, PlaceStop, Step, ControlInv, EntryLabels, FillLabels
  <2>2. Sent(k, t)
    BY <2>1, PlaceSends, KindFacts DEF TypeOK, OwnKinds
  <2> QED
    BY <2>1, <2>2 DEF Sent, SalesMade, OwnKinds
<1>2. CASE EntryStep /\ ~PlaceEntry /\ ~PlaceStop
  BY <1>2, SameSendsNone, NoneSentNoSale
  DEF EntryStep, GatePass, GateFail, TakeIntent, DropIntent, AbortEntry,
      SaveEntry, EntryFilled, EntryWaits, SaveOpen, book
<1> QED
  BY <1>1, <1>2

LEMMA AlwaysSalesMade == ASSUME TypeOK, ControlInv, [Next]_vars PROVE SalesMade
<1>1. CASE UNCHANGED vars
  BY <1>1, SameSendsNone, NoneSentNoSale DEF vars
<1>2. CASE ExitStep
  BY <1>2, ExitSends, NoneSentNoSale DEF Sent, SalesMade, OwnKinds
<1> QED
  BY <1>1, <1>2, PassSendsNone, RouteSendsNone, WorldFrame, NoneSentNoSale, SalesByFault,
     SalesByEntry DEF Next, TickStep

\* Where an exit starts, and what a tick knows of the clock.
SaleFrame ==
    /\ afterSO => afterSO'
    /\ mem'.pastSO => mem.pastSO \/ afterSO
    /\ pc' \in {"cancelSL", "sell"} =>
           /\ pos'.entry = pos.entry
           /\ \/ pc \in {"cancelSL", "sell"}
              \/ pos.phase = "OPEN"
              \/ mem.pastSO

LEMMA SaleFrameHolds == ASSUME TypeOK, ControlInv, [Next]_vars PROVE SaleFrame
<1> USE DEF SaleFrame, Step, redis, env
<1>1. CASE UNCHANGED vars
  BY <1>1 DEF vars
<1>2. CASE PassStep
  <2>1. ASSUME NEW q \in BOOLEAN, TickStart(q) \/ SubloopPass(q) PROVE SaleFrame
    <3>1. pc' \notin {"cancelSL", "sell"} /\ afterSO' = afterSO
      BY <2>1 DEF TickStart, SubloopPass, AfterLoad
    <3>2. mem'.pastSO => afterSO
      BY <2>1 DEF TickStart, SubloopPass, NoMemory
    <3> QED
      BY <3>1, <3>2
  <2>2. CASE TickEnd
    BY <2>2 DEF TickEnd, NoMemory
  <2>3. CASE ReadStopStatus \/ ReadPositions
    BY <2>3 DEF ReadStopStatus, ReadPositions, TypeOK, Memory
  <2> QED
    BY <1>2, <2>1, <2>2, <2>3 DEF PassStep
<1>3. CASE RouteStep
  BY <1>3 DEF RouteStep, Squareoff, NothingToDo, Manage, Hold, RouteEntering,
    RouteExiting, RouteCooldown, RouteIdle, BeginExit, Routed, TypeOK, Memory, Position
<1>4. CASE EntryStep
  BY <1>4 DEF EntryStep, GatePass, GateFail, TakeIntent, DropIntent, AbortEntry,
      PlaceEntry, SaveEntry, EntryFilled, EntryWaits, PlaceStop, SaveOpen, TypeOK, Memory
<1>5. CASE ExitStep
  BY <1>5 DEF ExitStep, CancelStop, PlaceExit, SaveExit, SettleWaits, SettleBooks,
       CheckLimit, SaveCooldown, PostNotion, AppendClosed, FlagJournaled, TypeOK, Memory
<1>6. CASE FaultStep
  <2>1. GivenUp.pastSO = mem.pastSO /\ NoMemory.pastSO = FALSE
    BY DEF GivenUp, NoMemory
  <2> QED
    BY <1>6, <2>1 DEF FaultStep, Crash, CallRaises, ReplyLost, CallSwallowed, TypeOK, Memory
<1>7. CASE WorldStep
  BY <1>7 DEF WorldStep, WriteIntent, ExpireIntent, PassSquareoff, ExchangeActs, ExternalClose
<1> QED
  BY <1>1, <1>2, <1>3, <1>4, <1>5, <1>6, <1>7 DEF Next, TickStep

LEMMA SquareoffInit == Init => SquareoffInv
BY DEF Init, SquareoffInv, UnboughtSoldAtSquareoffOnly, NoMemory, Of, Ids

LEMMA SquareoffStep ==
    TypeOK /\ ControlInv /\ EntryInv /\ StopInv /\ SquareoffInv /\ [Next]_vars
        => SquareoffInv'
<1> SUFFICES ASSUME TypeOK, ControlInv, EntryInv, StopInv, SquareoffInv, [Next]_vars
             PROVE  SquareoffInv'
  OBVIOUS
<1>1. SalesMade /\ SaleFrame /\ OrdersKept
  BY AlwaysSalesMade, SaleFrameHolds, AlwaysKept
<1>2. /\ \A o : IsComplete(o) => IsComplete(o)'
      /\ \A t \in Trades : Of("BUY", t) \subseteq Of("BUY", t)'
  BY <1>1 DEF OrdersKept, IsComplete, Of
<1>3. pc = "sell" => /\ IsComplete(pos.entry) \/ afterSO
                     /\ pos.entry \in Of("BUY", pos.trade)
  BY DEF SquareoffInv, EntryInv, ControlInv, ExitLabels
<1>4. UnboughtSoldAtSquareoffOnly'
  <2> SUFFICES ASSUME NEW t \in Trades, Of("MKT", t)' # {}, ~afterSO'
               PROVE  \E o \in Of("BUY", t)' : IsComplete(o)'
    BY DEF UnboughtSoldAtSquareoffOnly
  <2>1. ~afterSO
    BY <1>1 DEF SaleFrame
  <2>2. CASE Of("MKT", t) # {}
    <3>1. PICK o \in Of("BUY", t) : IsComplete(o)
      BY <2>1, <2>2 DEF SquareoffInv, UnboughtSoldAtSquareoffOnly
    <3> QED
      BY <1>2, <3>1
  <2>3. CASE pc = "sell" /\ t = pos.trade
    BY <1>2, <1>3, <2>1, <2>3
  <2> QED
    BY <1>1, <2>2, <2>3 DEF SalesMade
<1>5. mem'.pastSO => afterSO'
  BY <1>1 DEF SaleFrame, SquareoffInv
<1>6. pc' \in {"cancelSL", "sell"} => IsComplete(pos.entry)' \/ afterSO'
  <2> SUFFICES ASSUME pc' \in {"cancelSL", "sell"} PROVE IsComplete(pos.entry)' \/ afterSO'
    OBVIOUS
  <2>1. IsComplete(pos.entry) \/ afterSO
    BY <1>1 DEF SaleFrame, SquareoffInv, StopInv, OpenIsBacked
  <2>2. IsComplete(pos.entry) => IsComplete(pos.entry)'
    BY <1>1 DEF SaleFrame, OrdersKept, IsComplete
  <2> QED
    BY <1>1, <2>1, <2>2 DEF SaleFrame
<1> QED
  BY <1>4, <1>5, <1>6 DEF SquareoffInv

LEMMA SquareoffInvariant == Spec => []SquareoffInv
<1>1. Init => SquareoffInv
  BY SquareoffInit
<1>2. TypeOK /\ ControlInv /\ EntryInv /\ StopInv /\ SquareoffInv /\ [Next]_vars
          => SquareoffInv'
  BY SquareoffStep
<1> QED
  BY <1>1, <1>2, TypeControl, EntryInvariant, StopInvariant, PTL DEF Spec

\* Before 15:10 nothing is sold at the market that was not bought, whatever
\* fails: the entry's fill is seen before OPEN is saved.
THEOREM OnlyBoughtIsSold == Spec => []UnboughtSoldAtSquareoffOnly
<1>1. SquareoffInv => UnboughtSoldAtSquareoffOnly
  BY DEF SquareoffInv
<1> QED
  BY <1>1, SquareoffInvariant, PTL

-----------------------------------------------------------------------------
\* All parts together: the invariant the runs check in every reachable state is
\* one of every instance.
THEOREM InvariantHolds == Spec => []IInv
<1> QED
  BY TypeControl, EntryInvariant, ExitInvariant, StopInvariant, SettleInvariant,
     SquareoffInvariant, PTL DEF IInv
=============================================================================
