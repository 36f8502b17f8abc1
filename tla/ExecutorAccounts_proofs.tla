----------------------- MODULE ExecutorAccounts_proofs -----------------------
(***************************************************************************)
(* The accounts the executor keeps with the broker, for every set of       *)
(* trades and symbols.                                                     *)
(*                                                                         *)
(* AccountInv of ExecutorInvariant holds in both modes, whatever fails and *)
(* whatever the exchange does: a unit that is or may be bought is in the   *)
(* hands of the executor, or sold, or the price of a fault.  From it follow *)
(* bounds on what an account may hold and owe.                             *)
(*                                                                         *)
(* PaperInv is exact: every unit the paper book holds has one stop resting *)
(* against it or is about to get one, and a symbol is traded again only    *)
(* after it was found flat.  A call that fails breaks the count (the stop  *)
(* or the sale is lost), and so does the square-off, which sells what its  *)
(* ENTERING position may not have bought.                                  *)
(***************************************************************************)
EXTENDS Executor_proofs, FunctionTheorems

-----------------------------------------------------------------------------
(* What a step does to the hands the orders are in. *)

\* A buy is recorded in two steps; the id of the entry is replaced only by a
\* new entry, or forgotten with a trade that is over.
EntryHands ==
    /\ pos'.entry # pos.entry =>
           \/ SaveEntry /\ pos.entry = 0 /\ pos'.entry = mem.oid
           \/ pos.phase = "COOLDOWN"
    /\ pc' = "saveEntry" =>
           \/ PlaceEntry /\ mem'.oid = NewId /\ mem'.intent = mem.intent
           \/ pc = "saveEntry" /\ mem' = mem
    /\ pc = "saveEntry" => SaveEntry \/ (pc' = "saveEntry" /\ mem' = mem) \/ faults' = faults + 1

\* A stop is recorded by SaveOpen, or a fault leaves it unrecorded.
StopHands ==
    Unsaved' \subseteq Unsaved
        \cup (IF SaveEntry THEN {mem.intent} ELSE {})
        \cup (IF pc = "saveOpen" /\ faults' = faults + 1 THEN {pos.trade} ELSE {})

\* A stop on record, or a settled trade, belongs to the entry on record.
KnownHands ==
    pos'.sl # 0 \/ pos'.phase = "COOLDOWN" \/ pc' = "cooldown" =>
        /\ pos'.entry = pos.entry
        /\ pos.sl # 0 \/ pos.phase = "COOLDOWN" \/ pc \in {"cooldown", "saveOpen"}

\* A trade is let go of when it is found flat, or a fault loses it.
Release ==
    \A s : Held(s) =>
        Held(s)' \/ (SettleBooks /\ Symbol = s) \/ (pc = "saveEntry" /\ faults' = faults + 1)

Hands == EntryHands /\ StopHands /\ KnownHands /\ Release

LEMMA HandsWorld ==
    ASSUME UNCHANGED <<pos, pc, mem>> PROVE Hands
BY DEF Hands, EntryHands, StopHands, KnownHands, Release, Unsaved, Held, Symbol

LEMMA HandsPass ==
    ASSUME TypeOK, ControlInv, PassStep PROVE Hands
<1>1. /\ pc \notin {"saveEntry", "saveOpen", "limit", "cooldown", "placeSL"}
      /\ pc' \notin {"saveEntry", "saveOpen", "limit", "cooldown"}
      /\ pos'.entry = pos.entry /\ pos'.sl = pos.sl /\ pos'.phase = pos.phase
      /\ pos'.trade = pos.trade
  BY DEF PassStep, TickStart, SubloopPass, TickEnd, ReadStopStatus, ReadPositions, Step,
     AfterLoad, redis, TypeOK, Position
<1> QED
  BY <1>1 DEF Hands, EntryHands, StopHands, KnownHands, Release, Unsaved, Held, Symbol

LEMMA HandsRoute ==
    ASSUME TypeOK, ControlInv, RouteStep PROVE Hands
<1>1. /\ pc = "route"
      /\ pc' \notin {"saveEntry", "saveOpen", "limit", "cooldown"}
  BY DEF RouteStep, Squareoff, NothingToDo, Manage, Hold, RouteEntering, RouteExiting,
     RouteCooldown, RouteIdle, BeginExit, Routed, Step
<1>2. CASE RouteCooldown
  <2>1. pos.phase = "COOLDOWN" /\ (pos' = pos \/ pos' = NoPosition)
    BY <1>2 DEF RouteCooldown, Routed
  <2> QED
    BY <1>1, <2>1
    DEF Hands, EntryHands, StopHands, KnownHands, Release, Unsaved, Held, Symbol, NoPosition
<1>3. CASE RouteStep /\ ~RouteCooldown
  <2>1. \/ pos' = pos
        \/ pos.phase \in {"OPEN", "ENTERING"} /\ pos' = [pos EXCEPT !.phase = "EXITING"]
    BY <1>3 DEF RouteStep, Squareoff, NothingToDo, Manage, Hold, RouteEntering, RouteExiting,
       RouteIdle, BeginExit, Routed, redis
  <2>2. /\ pos'.entry = pos.entry /\ pos'.sl = pos.sl /\ pos'.trade = pos.trade
        /\ \/ pos'.phase = pos.phase
           \/ pos.phase \in {"OPEN", "ENTERING"} /\ pos'.phase = "EXITING"
    <3>1. pos \in Position
      BY DEF TypeOK
    <3> QED
      BY <2>1, <3>1 DEF Position
  <2> QED
    BY <1>1, <2>2
    DEF Hands, EntryHands, StopHands, KnownHands, Release, Unsaved, Held, Symbol
<1> QED
  BY <1>2, <1>3

LEMMA HandsEntry ==
    ASSUME TypeOK, ControlInv, EntryStep PROVE Hands
<1> USE DEF Hands, EntryHands, StopHands, KnownHands, Release, Unsaved, Held, Symbol
<1>1. CASE SaveEntry
  <2>1. /\ mem.intent \in Trades /\ mem.oid \in Nat /\ pos = NoPosition
        /\ pc = "saveEntry" /\ pc' = "fill" /\ pos' = FreshPosition(mem.intent, mem.oid)
    BY <1>1 DEF SaveEntry, Step, ControlInv, EntryLabels, TypeOK, Memory
  <2>2. /\ pos'.phase = "ENTERING" /\ pos'.trade = mem.intent /\ pos'.entry = mem.oid
        /\ pos'.sl = 0
    BY <2>1, FreshPositionLemma DEF FreshPosition, NoPosition
  <2>3. pos.entry = 0 /\ pos.phase = "IDLE"
    BY <2>1 DEF NoPosition
  <2> QED
    BY <1>1, <2>1, <2>2, <2>3
<1>2. CASE SaveOpen
  <2>1. /\ pc = "saveOpen" /\ pc' = "done" /\ pos.phase = "ENTERING"
        /\ pos'.phase = "OPEN" /\ pos'.trade = pos.trade /\ pos'.entry = pos.entry
    BY <1>2 DEF SaveOpen, Step, ControlInv, FillLabels, TypeOK, Position
  <2> QED
    BY <2>1
<1>3. CASE EntryStep /\ ~SaveEntry /\ ~SaveOpen
  <2>1. /\ pos' = pos /\ pc \notin {"saveEntry", "saveOpen", "limit", "cooldown"}
        /\ pc' \notin {"limit", "cooldown"}
    BY <1>3 DEF EntryStep, GatePass, GateFail, TakeIntent, DropIntent, AbortEntry,
       PlaceEntry, EntryFilled, EntryWaits, PlaceStop, Step, redis
  <2>2. pc' = "saveEntry" => /\ PlaceEntry /\ pos.phase = "IDLE"
                             /\ mem'.oid = NewId /\ mem'.intent = mem.intent
    BY <1>3 DEF EntryStep, GatePass, GateFail, TakeIntent, DropIntent, AbortEntry,
       PlaceEntry, EntryFilled, EntryWaits, PlaceStop, Step, ControlInv, EntryLabels,
       TypeOK, Memory
  <2> QED
    BY <2>1, <2>2
<1> QED
  BY <1>1, <1>2, <1>3

LEMMA HandsExit ==
    ASSUME TypeOK, ControlInv, ExitStep PROVE Hands
<1>1. /\ pc \notin {"saveEntry", "saveOpen"} /\ pc' \notin {"saveEntry", "saveOpen"}
      /\ pos.phase \in {"EXITING", "COOLDOWN"} /\ pos'.phase \in {"EXITING", "COOLDOWN"}
      /\ pos'.trade = pos.trade /\ pos'.entry = pos.entry /\ pos'.sl = pos.sl
      /\ pos'.phase = "COOLDOWN" => pos.phase = "COOLDOWN" \/ pc = "cooldown"
      /\ pc' = "cooldown" => pos.sl # 0
      /\ pos.phase = "EXITING" /\ pc \notin {"limit", "cooldown"} =>
             pos'.phase = "EXITING" /\ (pc' \notin {"limit", "cooldown"} \/ SettleBooks)
  BY ExitFrame
  DEF ExitStep, CancelStop, PlaceExit, SaveExit, SettleWaits, SettleBooks, CheckLimit,
      SaveCooldown, PostNotion, AppendClosed, FlagJournaled, Step, redis, ControlInv,
      EntryLabels, FillLabels, ExitLabels, TypeOK, Position
<1> QED
  BY <1>1 DEF Hands, EntryHands, StopHands, KnownHands, Release, Unsaved, Held, Symbol

LEMMA HandsFault ==
    ASSUME TypeOK, ControlInv, FaultStep PROVE Hands
<1>1. /\ faults' = faults + 1 /\ pos' = pos
      /\ pc' \notin {"saveEntry", "saveOpen", "limit", "cooldown"}
  BY DEF FaultStep, Crash, CallRaises, ReplyLost, CallSwallowed, Fault, redis
<1> QED
  BY <1>1 DEF Hands, EntryHands, StopHands, KnownHands, Release, Unsaved, Held, Symbol

LEMMA HandsHold ==
    ASSUME TypeOK, ControlInv, [Next]_vars PROVE Hands
<1>1. CASE UNCHANGED vars \/ WorldStep
  BY <1>1, WorldFrame, HandsWorld DEF vars
<1> QED
  BY <1>1, HandsPass, HandsRoute, HandsEntry, HandsExit, HandsFault DEF Next, TickStep

\* Only PlaceEntry and PlaceStop send a buy or a stop and come back with its id.
LEMMA NewOrders ==
    ASSUME TypeOK, ControlInv, [Next]_vars, NEW o \in Ids' \ Ids
    PROVE  /\ orders'[o].kind = "BUY" => PlaceEntry \/ faults' = faults + 1
           /\ orders'[o].kind = "SLM" => PlaceStop \/ (faults' = faults + 1 /\ pos' = pos /\ pc' # "saveOpen")
<1>1. OrdersKept
  BY AlwaysKept
<1>2. orders'[o].kind \in {"BUY", "SLM"} => pc \in {"enter", "placeSL"}
  BY <1>1 DEF OrdersKept
<1>3. CASE FaultStep
  BY <1>3 DEF FaultStep, Crash, CallRaises, ReplyLost, CallSwallowed, Fault, redis
<1>4. CASE WorldStep
  <2>1. CASE ExternalClose
    <3>1. PICK t \in Trades : Place("EXT", t, "COMPLETE")
      BY <2>1 DEF ExternalClose
    <3>2. Ids' = Ids \cup {NewId} /\ orders'[NewId] = [kind |-> "EXT", trade |-> t, status |-> "COMPLETE"]
      BY <3>1, PlaceLemma, KindFacts DEF TypeOK
    <3>3. o = NewId
      BY <3>2
    <3> QED
      BY <3>2, <3>3
  <2>2. CASE ExchangeActs
    BY <2>2, SetStatusLemma, KindFacts DEF ExchangeActs, TypeOK
  <2>3. CASE UNCHANGED orders
    BY <2>3 DEF Ids
  <2> QED
    BY <1>4, <2>1, <2>2, <2>3 DEF WorldStep, WriteIntent, ExpireIntent, PassSquareoff, book
<1>5. CASE PlaceEntry
  BY <1>1, <1>5 DEF PlaceEntry, Step, OrdersKept
<1>6. CASE PlaceStop
  BY <1>1, <1>6 DEF PlaceStop, Step, OrdersKept
<1>7. CASE UNCHANGED orders
  BY <1>7 DEF Ids
<1>8. CASE PassStep \/ RouteStep \/ ExitStep
  <2>1. pc \notin {"enter", "placeSL"}
    BY <1>8 DEF PassStep, TickStart, SubloopPass, TickEnd, ReadStopStatus, ReadPositions,
       RouteStep, Squareoff, NothingToDo, Manage, Hold, RouteEntering, RouteExiting,
       RouteCooldown, RouteIdle, Routed, ExitStep, CancelStop, PlaceExit, SaveExit,
       SettleWaits, SettleBooks, CheckLimit, SaveCooldown, PostNotion, AppendClosed,
       FlagJournaled, Step
  <2> QED
    BY <1>2, <2>1
<1>9. CASE EntryStep
  BY <1>5, <1>6, <1>7, <1>9 DEF EntryStep, GatePass, GateFail, TakeIntent, DropIntent,
     AbortEntry, SaveEntry, EntryFilled, EntryWaits, SaveOpen, book
<1> QED
  BY <1>3, <1>4, <1>7, <1>8, <1>9 DEF Next, TickStep, vars

LEMMA FaultsGrow ==
    ASSUME TypeOK, ControlInv, [Next]_vars
    PROVE  faults \in Nat /\ faults' \in Nat /\ faults <= faults'
<1>1. faults \in Nat /\ faults' \in Nat
  BY TypeControlStep DEF TypeOK
<1>2. CASE FaultStep
  BY <1>1, <1>2 DEF FaultStep, Crash, CallRaises, ReplyLost, CallSwallowed, Fault
<1>3. CASE UNCHANGED faults
  BY <1>1, <1>3
<1> QED
  BY <1>2, <1>3 DEF Next, vars, TickStep, PassStep, TickStart, SubloopPass, TickEnd,
     ReadStopStatus, ReadPositions, RouteStep, Squareoff, NothingToDo, Manage, Hold,
     RouteEntering, RouteExiting, RouteCooldown, RouteIdle, BeginExit, EntryStep, GatePass,
     GateFail, TakeIntent, DropIntent, AbortEntry, PlaceEntry, SaveEntry, EntryFilled,
     EntryWaits, PlaceStop, SaveOpen, ExitStep, CancelStop, PlaceExit, SaveExit, SettleWaits,
     SettleBooks, CheckLimit, SaveCooldown, PostNotion, AppendClosed, FlagJournaled,
     WorldStep, WriteIntent, ExpireIntent, PassSquareoff, ExchangeActs, ExternalClose

\* What a well typed book is, before and after a step.
LEMMA BookBefore ==
    TypeOK => /\ \A S \in SUBSET Ids : IsFiniteSet(S) /\ Cardinality(S) \in Nat
              /\ \A o \in Ids : orders[o] \in Order
BY BookFinite, BookElements DEF TypeOK

LEMMA BookAfter ==
    ASSUME TypeOK, ControlInv, [Next]_vars
    PROVE  /\ \A S \in SUBSET Ids : IsFiniteSet(S) /\ Cardinality(S) \in Nat
           /\ \A S \in SUBSET Ids' : IsFiniteSet(S) /\ Cardinality(S) \in Nat
           /\ \A o \in Ids : orders[o] \in Order
           /\ \A o \in Ids' : orders'[o] \in Order
           /\ 0 \notin Ids
<1>1. TypeOK'
  BY TypeControlStep
<1>2. (TypeOK => /\ \A S \in SUBSET Ids : IsFiniteSet(S) /\ Cardinality(S) \in Nat
                 /\ \A o \in Ids : orders[o] \in Order)'
  BY BookBefore, PTL
<1>3. 0 \notin Ids
  BY LenProperties DEF TypeOK, BookTypeOK, Ids
<1> QED
  BY <1>1, <1>2, <1>3, BookBefore

-----------------------------------------------------------------------------
(* The parts of AccountInv. *)

\* A COMPLETE entry stays COMPLETE, and a stop is recorded for one only.
LEMMA KnownStep ==
    ASSUME TypeOK, ControlInv, StopInv, EntryKnown, [Next]_vars PROVE EntryKnown'
<1>1. KnownHands /\ OrdersKept
  BY HandsHold, AlwaysKept DEF Hands
<1> SUFFICES ASSUME pos'.sl # 0 \/ pos'.phase = "COOLDOWN" \/ pc' = "cooldown"
             PROVE  IsComplete(pos.entry)'
  BY DEF EntryKnown
<1>2. pos'.entry = pos.entry /\ IsComplete(pos.entry)
  BY <1>1 DEF KnownHands, EntryKnown, StopInv
<1> QED
  BY <1>1, <1>2 DEF OrdersKept, IsComplete

\* A buy becomes an orphan when the fault that hides it is counted.
LEMMA OrphansStep ==
    ASSUME TypeOK, ControlInv, EntryKnown, OrphansPaidFor, [Next]_vars
    PROVE  OrphansPaidFor'
<1> DEFINE lost == faults' = faults + 1
           hidden == IF pc = "enter" THEN NewId ELSE mem.oid
<1>1. EntryHands /\ OrdersKept
  BY HandsHold, AlwaysKept DEF Hands
<1>2. faults \in Nat /\ faults' \in Nat /\ faults <= faults'
  BY FaultsGrow
<1>3. ASSUME NEW o \in Orphans' \ Orphans
      PROVE  lost /\ o = hidden
  <2>1. o \in Ids' /\ orders'[o].kind = "BUY" /\ orders'[o].status = "OPEN" /\ o # pos'.entry
    BY <1>3 DEF Orphans
  <2>2. CASE o \in Ids
    <3>1. orders[o].kind = "BUY" /\ orders[o].status = "OPEN"
      BY <1>1, <2>1, <2>2 DEF OrdersKept
    <3>2. o # pos.entry
      BY <1>1, <2>1, <2>2, <3>1, BookAfter DEF EntryHands, EntryKnown, IsComplete
    <3>3. pc = "saveEntry" /\ o = mem.oid
      BY <1>3, <2>2, <3>1, <3>2 DEF Orphans
    <3>4. ~SaveEntry
      BY <2>1, <3>2, <3>3, FreshPositionLemma DEF SaveEntry, FreshPosition, NoPosition
    <3>5. ~(pc' = "saveEntry" /\ mem' = mem)
      BY <1>3, <3>3 DEF Orphans
    <3> QED
      BY <1>1, <3>3, <3>4, <3>5 DEF EntryHands
  <2>3. CASE o \notin Ids
    <3>1. pc = "enter" /\ o = NewId /\ (PlaceEntry \/ lost)
      BY <1>1, <2>1, <2>3, NewOrders DEF OrdersKept
    <3>2. ~PlaceEntry
      BY <1>1, <1>3, <3>1 DEF EntryHands, PlaceEntry, Step, Orphans
    <3> QED
      BY <3>1, <3>2
  <2> QED
    BY <2>2, <2>3
<1>4. Orphans \in SUBSET Ids /\ Orphans' \in SUBSET Ids'
  BY DEF Orphans
<1>5. IsFiniteSet(Orphans) /\ Cardinality(Orphans) \in Nat /\ Cardinality(Orphans') \in Nat
  BY <1>4, BookAfter
<1> HIDE DEF hidden
<1>6. CASE lost
  <2>1. Orphans' \subseteq Orphans \cup {hidden}
    BY <1>3
  <2>2. /\ IsFiniteSet(Orphans \cup {hidden})
        /\ Cardinality(Orphans \cup {hidden}) <= Cardinality(Orphans) + 1
    BY <1>5, FS_AddElement
  <2>3. Cardinality(Orphans') <= Cardinality(Orphans \cup {hidden})
    BY <2>1, <2>2, FS_Subset
  <2>4. Cardinality(Orphans \cup {hidden}) \in Nat
    BY <2>2, FS_CardinalityType
  <2> QED
    BY <1>2, <1>5, <1>6, <2>2, <2>3, <2>4 DEF OrphansPaidFor
<1>7. CASE ~lost
  <2>1. Orphans' \subseteq Orphans
    BY <1>3, <1>7
  <2>2. Cardinality(Orphans') <= Cardinality(Orphans)
    BY <1>5, <2>1, FS_Subset
  <2> QED
    BY <1>2, <1>5, <2>2 DEF OrphansPaidFor
<1> QED
  BY <1>6, <1>7

LEMMA ProtectedFinite ==
    TypeOK => /\ IsFiniteSet(Stops) /\ Cardinality(Stops) \in Nat
              /\ IsFiniteSet(Protected) /\ Protected \subseteq Trades
<1> SUFFICES ASSUME TypeOK
             PROVE  /\ IsFiniteSet(Stops) /\ Cardinality(Stops) \in Nat
                    /\ IsFiniteSet(Protected) /\ Protected \subseteq Trades
  OBVIOUS
<1>1. IsFiniteSet(Stops) /\ Cardinality(Stops) \in Nat
  BY BookBefore DEF Stops
<1>2. [o \in Stops |-> orders[o].trade] \in Surjection(Stops, Protected)
  BY DEF Surjection, Protected
<1>3. IsFiniteSet(Protected)
  BY <1>1, <1>2, FS_Surjection
<1>4. Protected \subseteq Trades
  BY BookBefore DEF Protected, Stops, Order
<1> QED
  BY <1>1, <1>3, <1>4

\* What a step adds to the stops and to the trades that have one.
LEMMA StopsAdded ==
    ASSUME TypeOK, ControlInv, [Next]_vars
    PROVE  \/ Stops' = Stops /\ Protected' = Protected
           \/ /\ pc = "placeSL" /\ pos.phase = "ENTERING"
              /\ Stops' = Stops \cup {NewId} /\ Protected' = Protected \cup {pos.trade}
              /\ PlaceStop \/ (faults' = faults + 1 /\ pos' = pos /\ pc' # "saveOpen")
<1>1. OrdersKept
  BY AlwaysKept
<1>2. CASE \E o \in Ids' \ Ids : orders'[o].kind = "SLM"
  <2>1. /\ NewId \in Ids' \ Ids /\ orders'[NewId].kind = "SLM"
        /\ orders'[NewId].trade = pos.trade /\ pc = "placeSL"
    BY <1>1, <1>2 DEF OrdersKept
  <2>2. Stops' = Stops \cup {NewId}
    BY <1>1, <2>1 DEF OrdersKept, Stops
  <2>3. Protected' = Protected \cup {pos.trade}
    BY <1>1, <2>1, <2>2 DEF OrdersKept, Protected, Stops
  <2> QED
    BY <2>1, <2>2, <2>3, NewOrders DEF ControlInv, FillLabels
<1>3. CASE ~ \E o \in Ids' \ Ids : orders'[o].kind = "SLM"
  <2>1. Stops' = Stops
    BY <1>1, <1>3 DEF OrdersKept, Stops
  <2>2. Protected' = Protected
    BY <1>1, <2>1 DEF OrdersKept, Protected, Stops
  <2> QED
    BY <2>1, <2>2
<1> QED
  BY <1>2, <1>3

\* An intent that is not bought yet has no stop, and gets none while it is
\* bought.
LEMMA FreshTradeStep ==
    ASSUME TypeOK, ControlInv, EntryInv, StopInv, StopsCounted, [Next]_vars
    PROVE  pc' = "saveEntry" => Of("SLM", mem.intent)' = {}
<1> SUFFICES ASSUME pc' = "saveEntry" PROVE Of("SLM", mem.intent)' = {}
  OBVIOUS
<1>1. EntryHands /\ OrdersKept
  BY HandsHold, AlwaysKept DEF Hands
<1>2. mem'.intent = mem.intent /\ pc \in {"enter", "saveEntry"}
  BY <1>1 DEF EntryHands, PlaceEntry, Step
<1>3. Of("SLM", mem.intent) = {}
  <2>1. CASE pc = "saveEntry"
    BY <2>1 DEF StopsCounted
  <2>2. CASE pc = "enter"
    <3>1. Of("BUY", mem.intent) = {}
      BY <2>2 DEF EntryInv
    <3> QED
      BY <3>1 DEF StopInv, StopsFollowFills, Of
  <2> QED
    BY <1>2, <2>1, <2>2
<1> QED
  BY <1>1, <1>2, <1>3 DEF OrdersKept, Of

LEMMA StopsStep ==
    ASSUME TypeOK, ControlInv, EntryInv, StopInv, StopsCounted, [Next]_vars
    PROVE  StopsCounted'
<1> SUFFICES Cardinality(Stops') <= Cardinality(Protected' \ Unsaved') + faults'
  BY FreshTradeStep DEF StopsCounted
<1> DEFINE S == Stops
           P == Protected
           u == pos.trade
<1>1. StopHands
  BY HandsHold DEF Hands
<1>2. faults \in Nat /\ faults' \in Nat /\ faults <= faults'
  BY FaultsGrow
<1>3. /\ IsFiniteSet(S) /\ Cardinality(S) \in Nat /\ IsFiniteSet(P)
      /\ NewId \notin S
  BY ProtectedFinite, LenProperties DEF TypeOK, BookTypeOK, Ids, NewId, Stops
<1>4. /\ IsFiniteSet(P \ Unsaved) /\ Cardinality(P \ Unsaved) \in Nat
      /\ Cardinality(S) <= Cardinality(P \ Unsaved) + faults
  BY <1>3, FS_Difference, FS_CardinalityType DEF StopsCounted
<1>5. CASE Stops' = S /\ Protected' = P
  <2>4. /\ Cardinality(Stops') = Cardinality(S)
        /\ Cardinality(Protected' \ Unsaved') = Cardinality(P \ Unsaved')
    BY <1>5
  <2>1. IsFiniteSet(P \ Unsaved') /\ Cardinality(P \ Unsaved') \in Nat
    BY <1>3, FS_Difference, FS_CardinalityType
  <2>2. CASE pc = "saveOpen" /\ faults' = faults + 1
    <3>1. Unsaved' \subseteq {u}
      BY <1>1, <2>2 DEF StopHands, Unsaved, SaveEntry, Step
    <3>2. Unsaved = {}
      BY <2>2 DEF Unsaved
    <3>3. P \ Unsaved \subseteq (P \ Unsaved') \cup {u}
      BY <3>1, <3>2
    <3>4. /\ IsFiniteSet((P \ Unsaved') \cup {u})
          /\ Cardinality((P \ Unsaved') \cup {u}) <= Cardinality(P \ Unsaved') + 1
          /\ Cardinality((P \ Unsaved') \cup {u}) \in Nat
      BY <2>1, FS_AddElement, FS_CardinalityType
    <3>5. Cardinality(P \ Unsaved) <= Cardinality((P \ Unsaved') \cup {u})
      BY <3>3, <3>4, FS_Subset
    <3> QED
      BY <1>2, <1>3, <1>4, <2>4, <2>1, <2>2, <3>4, <3>5
  <2>3. CASE ~(pc = "saveOpen" /\ faults' = faults + 1)
    <3>1. P \ Unsaved \subseteq P \ Unsaved'
      <4>1. SaveEntry => mem.intent \notin P
        BY DEF SaveEntry, Step, StopsCounted, Of, Protected, Stops
      <4> QED
        BY <1>1, <2>3, <4>1 DEF StopHands
    <3>2. Cardinality(P \ Unsaved) <= Cardinality(P \ Unsaved')
      BY <2>1, <3>1, FS_Subset
    <3> QED
      BY <1>2, <1>3, <1>4, <2>4, <2>1, <3>2
  <2> QED
    BY <2>2, <2>3
<1>6. CASE /\ pc = "placeSL" /\ pos.phase = "ENTERING"
           /\ Stops' = S \cup {NewId} /\ Protected' = P \cup {u}
           /\ PlaceStop \/ (faults' = faults + 1 /\ pos' = pos /\ pc' # "saveOpen")
  <2>1. Cardinality(Stops') = Cardinality(S) + 1
    BY <1>3, <1>6, FS_AddElement
  <2>2. Unsaved = {u}
    BY <1>6 DEF Unsaved
  <2>3. CASE PlaceStop
    <3>1. Unsaved' = {}
      BY <2>3 DEF PlaceStop, Step, Unsaved
    <3>2. Protected' \ Unsaved' = (P \ {u}) \cup {u}
      BY <1>6, <3>1
    <3>3. Cardinality(Protected' \ Unsaved') = Cardinality(P \ Unsaved) + 1
      BY <1>4, <2>2, <3>2, FS_AddElement
    <3> QED
      BY <1>2, <1>3, <1>4, <2>1, <3>3
  <2>4. CASE faults' = faults + 1 /\ pos' = pos /\ pc' # "saveOpen"
    <3>1. Unsaved' = {u}
      BY <1>6, <2>4 DEF Unsaved
    <3>2. Protected' \ Unsaved' = P \ Unsaved
      BY <1>6, <2>2, <3>1
    <3> QED
      BY <1>2, <1>3, <1>4, <2>1, <2>4, <3>2
  <2> QED
    BY <1>6, <2>3, <2>4
<1> QED
  BY <1>5, <1>6, StopsAdded

\* A step adds to the claims on s only by a buy of s, and takes nothing back
\* from what was sold.
LEMMA ClaimsMove ==
    ASSUME TypeOK, ControlInv, [Next]_vars, NEW s
    PROVE  /\ Cardinality(Claimed(s)) \in Nat /\ Cardinality(Claimed(s)') \in Nat
           /\ Cardinality(Sold(s)) \in Nat /\ Cardinality(Sold(s)') \in Nat
           /\ Cardinality(Sold(s)) <= Cardinality(Sold(s)')
           /\ \/ Cardinality(Claimed(s)') <= Cardinality(Claimed(s))
              \/ /\ Cardinality(Claimed(s)') <= Cardinality(Claimed(s)) + 1
                 /\ pc = "enter" /\ SymbolOf[mem.intent] = s
                 /\ PlaceEntry \/ faults' = faults + 1
<1>1. OrdersKept
  BY AlwaysKept
<1>2. /\ Claimed(s) \in SUBSET Ids /\ Claimed(s)' \in SUBSET Ids'
      /\ Sold(s) \in SUBSET Ids /\ Sold(s)' \in SUBSET Ids'
  BY DEF Claimed, Sold, Done, Book
<1>3. /\ IsFiniteSet(Claimed(s)) /\ Cardinality(Claimed(s)) \in Nat
      /\ Cardinality(Claimed(s)') \in Nat
      /\ Cardinality(Sold(s)) \in Nat /\ IsFiniteSet(Sold(s)') /\ Cardinality(Sold(s)') \in Nat
  BY <1>2, BookAfter
<1>4. Cardinality(Sold(s)) <= Cardinality(Sold(s)')
  <2>1. Sold(s) \subseteq Sold(s)'
    BY <1>1 DEF OrdersKept, Sold, Bought, Done, Book
  <2> QED
    BY <1>3, <2>1, FS_Subset
<1>5. ASSUME NEW o \in Claimed(s)', o \in Ids PROVE o \in Claimed(s)
  <2>1. /\ orders[o].kind = "BUY" /\ SymbolOf[orders[o].trade] = s
        /\ orders'[o].status \in {"OPEN", "COMPLETE"}
    BY <1>1, <1>5 DEF OrdersKept, Claimed, Book
  <2>2. orders[o].status \in {"OPEN", "COMPLETE"}
    BY <1>1, <1>5, <2>1 DEF OrdersKept
  <2> QED
    BY <1>5, <2>1, <2>2 DEF Claimed, Book
<1>6. CASE Claimed(s)' \subseteq Ids
  <2>1. Claimed(s)' \subseteq Claimed(s)
    BY <1>5, <1>6
  <2> QED
    BY <1>3, <1>4, <2>1, FS_Subset
<1>7. CASE ~(Claimed(s)' \subseteq Ids)
  <2>1. PICK o \in Claimed(s)' : o \in Ids' \ Ids
    BY <1>2, <1>7
  <2>2. orders'[o].kind = "BUY" /\ SymbolOf[orders'[o].trade] = s
    BY <2>1 DEF Claimed, Book
  <2>3. pc = "enter" /\ SymbolOf[mem.intent] = s /\ (PlaceEntry \/ faults' = faults + 1)
    BY <1>1, <2>1, <2>2, NewOrders DEF OrdersKept
  <2>4. Claimed(s)' \subseteq Claimed(s) \cup {NewId}
    BY <1>1, <1>2, <1>5 DEF OrdersKept
  <2>5. /\ IsFiniteSet(Claimed(s) \cup {NewId})
        /\ Cardinality(Claimed(s) \cup {NewId}) <= Cardinality(Claimed(s)) + 1
    <3> DEFINE C == Claimed(s)
               n == NewId
    <3>1. IsFiniteSet(C) /\ Cardinality(C) \in Nat
      BY <1>3
    <3> HIDE DEF C, n
    <3>2. /\ IsFiniteSet(C \cup {n})
          /\ Cardinality(C \cup {n}) = IF n \in C THEN Cardinality(C) ELSE Cardinality(C) + 1
      BY <3>1, FS_AddElement
    <3>3. Cardinality(C \cup {n}) <= Cardinality(C) + 1
      BY <3>1, <3>2
    <3> QED
      BY <3>2, <3>3 DEF C, n
  <2>6. /\ Cardinality(Claimed(s)') <= Cardinality(Claimed(s) \cup {NewId})
        /\ Cardinality(Claimed(s) \cup {NewId}) \in Nat
    BY <2>4, <2>5, FS_Subset, FS_CardinalityType
  <2> QED
    BY <1>3, <1>4, <2>3, <2>5, <2>6
<1> QED
  BY <1>6, <1>7

\* A settled symbol was found flat, and what may still be bought of it is
\* orphaned: the entry of the settled trade has filled.
LEMMA SettledClaims ==
    ASSUME TypeOK, EntryKnown, ControlInv, OrphansPaidFor, SettleBooks
    PROVE  Cardinality(Claimed(Symbol)) <= Cardinality(Sold(Symbol)) + faults
<1> DEFINE s == Symbol
<1>1. IsFlat(s) /\ IsComplete(pos.entry) /\ pc = "settle"
  BY DEF SettleBooks, Step, EntryKnown
<1> HIDE DEF s
<1>2. Claimed(s) \subseteq Bought(s) \cup Orphans
  BY <1>1 DEF Claimed, Orphans, Bought, Done, Book, IsComplete
<1>3. /\ Bought(s) \in SUBSET Ids /\ Orphans \in SUBSET Ids /\ Claimed(s) \in SUBSET Ids
      /\ Sold(s) \in SUBSET Ids /\ Bought(s) \cup Orphans \in SUBSET Ids
      /\ Bought(s) \cap Orphans \in SUBSET Ids
  BY DEF Bought, Orphans, Claimed, Sold, Done, Book
<1>4. /\ IsFiniteSet(Bought(s)) /\ Cardinality(Bought(s)) \in Nat
      /\ IsFiniteSet(Orphans) /\ Cardinality(Orphans) \in Nat
      /\ Cardinality(Claimed(s)) \in Nat /\ Cardinality(Sold(s)) \in Nat
      /\ IsFiniteSet(Bought(s) \cup Orphans) /\ Cardinality(Bought(s) \cup Orphans) \in Nat
      /\ Cardinality(Bought(s) \cap Orphans) \in Nat
  BY <1>3, BookBefore
<1>5. Cardinality(Bought(s) \cup Orphans)
         = Cardinality(Bought(s)) + Cardinality(Orphans) - Cardinality(Bought(s) \cap Orphans)
  BY <1>4, FS_Union
<1>6. Cardinality(Claimed(s)) <= Cardinality(Bought(s) \cup Orphans)
  BY <1>2, <1>4, FS_Subset
<1>7. Cardinality(Bought(s)) <= Cardinality(Sold(s))
  BY <1>1, <1>4 DEF IsFlat, Net
<1>8. Cardinality(Orphans) <= faults /\ faults \in Nat
  BY DEF OrphansPaidFor, TypeOK
<1>9. Cardinality(Claimed(s)) <= Cardinality(Sold(s)) + faults
  BY <1>4, <1>5, <1>6, <1>7, <1>8
<1> QED
  BY <1>9 DEF s

LEMMA ClaimsStep ==
    ASSUME TypeOK, ControlInv, EntryKnown, OrphansPaidFor, ClaimsCounted, [Next]_vars
    PROVE  ClaimsCounted'
<1> SUFFICES ASSUME NEW s \in Symbols
             PROVE  Cardinality(Claimed(s)') <=
                        Cardinality(Sold(s)') + faults' + IF Held(s)' THEN 1 ELSE 0
  BY DEF ClaimsCounted
<1>1. Release /\ EntryHands
  BY HandsHold DEF Hands
<1>2. faults \in Nat /\ faults' \in Nat /\ faults <= faults'
  BY FaultsGrow
<1>3. Cardinality(Claimed(s)) <= Cardinality(Sold(s)) + faults + IF Held(s) THEN 1 ELSE 0
  BY DEF ClaimsCounted
<1>4. /\ Cardinality(Claimed(s)) \in Nat /\ Cardinality(Claimed(s)') \in Nat
      /\ Cardinality(Sold(s)) \in Nat /\ Cardinality(Sold(s)') \in Nat
      /\ Cardinality(Sold(s)) <= Cardinality(Sold(s)')
  BY ClaimsMove
<1>5. CASE Cardinality(Claimed(s)') <= Cardinality(Claimed(s))
  <2>1. CASE Held(s)' \/ ~Held(s) \/ faults' = faults + 1
    BY <1>2, <1>3, <1>4, <1>5, <2>1
  <2>2. CASE SettleBooks /\ Symbol = s
    BY <1>2, <1>4, <1>5, <2>2, SettledClaims
  <2> QED
    BY <1>1, <2>1, <2>2 DEF Release
<1>6. CASE /\ Cardinality(Claimed(s)') <= Cardinality(Claimed(s)) + 1
           /\ pc = "enter" /\ SymbolOf[mem.intent] = s
           /\ PlaceEntry \/ faults' = faults + 1
  <2>1. ~Held(s)
    BY <1>6 DEF Held, ControlInv, EntryLabels
  <2>2. PlaceEntry => Held(s)'
    BY <1>1, <1>6 DEF PlaceEntry, Step, EntryHands, Held
  <2> QED
    BY <1>2, <1>3, <1>4, <1>6, <2>1, <2>2
<1> QED
  BY <1>5, <1>6, ClaimsMove

\* What a step does to the bookings and to the trade in hand.
LEMMA BookingFrame ==
    ASSUME TypeOK, ControlInv, [Next]_vars
    PROVE  /\ faults' \in Nat /\ faults' >= faults
           /\ \/ /\ SettleBooks
                 /\ pc' = "limit" /\ pos' = pos
                 /\ booked' = [booked EXCEPT ![pos.trade] = @ + 1]
              \/ /\ UNCHANGED booked
                 /\ \/ SaveEntry /\ pos.phase = "IDLE" /\ pos'.trade = mem.intent
                    \/ pos'.trade = pos.trade /\ pos'.phase = pos.phase
                    \/ pos'.trade = pos.trade /\ pos.phase # "COOLDOWN"
                    \/ pos' = NoPosition
                 /\ pc \in {"limit", "cooldown"} =>
                       \/ pc' \in {"limit", "cooldown"}
                       \/ pos'.phase = "COOLDOWN"
                       \/ faults' = faults + 1
<1> DEFINE Keeps == pos'.trade = pos.trade /\ pos'.phase = pos.phase
<1>1. faults \in Nat
  BY DEF TypeOK
<1>2. faults' \in Nat /\ faults' >= faults
  BY <1>1, FaultsGrow
<1>3. CASE UNCHANGED vars
  BY <1>2, <1>3 DEF vars
<1>4. CASE PassStep
  BY <1>2, <1>4 DEF PassStep, TickStart, SubloopPass, TickEnd, ReadStopStatus, ReadPositions,
     Step, redis, ledger, TypeOK, Position
<1>5. CASE RouteStep
  BY <1>2, <1>5 DEF RouteStep, Squareoff, NothingToDo, Manage, Hold, RouteEntering,
     RouteExiting, RouteCooldown, RouteIdle, BeginExit, Routed, Step, redis, ledger, TypeOK,
     Position
<1>6. CASE EntryStep
  <2>1. CASE SaveEntry
    <3>1. mem.intent \in Trades /\ mem.oid \in Nat /\ pos.phase = "IDLE" /\ UNCHANGED booked
      BY <2>1 DEF SaveEntry, Step, TypeOK, Memory, ControlInv, EntryLabels, ledger
    <3>2. pos'.trade = mem.intent
      BY <2>1, <3>1, FreshPositionLemma DEF SaveEntry
    <3> QED
      BY <1>2, <2>1, <3>1, <3>2 DEF SaveEntry, Step
  <2>2. CASE EntryFilled \/ EntryWaits \/ PlaceStop \/ SaveOpen
    BY <1>2, <2>2 DEF EntryFilled, EntryWaits, PlaceStop, SaveOpen, Step, redis, ledger,
       TypeOK, Position, ControlInv, FillLabels
  <2>3. CASE GatePass \/ GateFail \/ TakeIntent \/ DropIntent \/ AbortEntry \/ PlaceEntry
    BY <1>2, <2>3 DEF GatePass, GateFail, TakeIntent, DropIntent, AbortEntry, PlaceEntry,
       Step, redis, ledger
  <2> QED
    BY <1>6, <2>1, <2>2, <2>3 DEF EntryStep
<1>7. CASE ExitStep
  <2>1. CASE SettleBooks
    BY <1>2, <2>1 DEF SettleBooks, Step, redis
  <2>2. CASE CancelStop \/ PlaceExit \/ SaveExit \/ SettleWaits \/ CheckLimit \/ SaveCooldown
    BY <1>2, <2>2 DEF CancelStop, PlaceExit, SaveExit, SettleWaits, CheckLimit, SaveCooldown,
       Step, redis, ledger, TypeOK, Position, ControlInv, ExitLabels
  <2>3. CASE PostNotion \/ AppendClosed \/ FlagJournaled
    BY <1>2, <2>3 DEF PostNotion, AppendClosed, FlagJournaled, Step, redis, ledger, TypeOK,
       Position
  <2> QED
    BY <1>7, <2>1, <2>2, <2>3 DEF ExitStep
<1>8. CASE FaultStep
  BY <1>2, <1>8 DEF FaultStep, Crash, CallRaises, ReplyLost, CallSwallowed, Fault, Step,
     redis, ledger
<1>9. CASE WorldStep
  BY <1>2, <1>9 DEF WorldStep, WriteIntent, ExpireIntent, PassSquareoff, ExchangeActs,
     ExternalClose, redis, ledger
<1> QED
  BY <1>3, <1>4, <1>5, <1>6, <1>7, <1>8, <1>9 DEF Next, TickStep

LEMMA BookingsStep ==
    ASSUME TypeOK, ControlInv, SettleInv, BookingsCounted, [Next]_vars
    PROVE  BookingsCounted'
<1> DEFINE Past(t) == \/ pos.trade # t \/ pos.phase = "COOLDOWN"
                      \/ pc \in {"limit", "cooldown"}
<1> SUFFICES ASSUME NEW t \in Trades
             PROVE  booked'[t] <= faults' + IF Past(t)' THEN 1 ELSE 0
  BY DEF BookingsCounted
<1>1. /\ faults \in Nat /\ faults' \in Nat /\ faults' >= faults
      /\ booked \in [Trades -> Nat]
  BY BookingFrame DEF TypeOK
<1>2. booked[t] <= faults + IF Past(t) THEN 1 ELSE 0
  BY DEF BookingsCounted
<1>3. CASE SettleBooks /\ pc' = "limit" /\ booked' = [booked EXCEPT ![pos.trade] = @ + 1] /\ pos' = pos
  <2>1. Past(t)'
    BY <1>3
  <2>2. CASE t = pos.trade
    <3>1. ~Past(t) /\ booked'[t] = booked[t] + 1
      BY <1>1, <1>3, <2>2 DEF SettleBooks, Step, ControlInv, ExitLabels
    <3> QED
      BY <1>1, <1>2, <2>1, <3>1
  <2>3. CASE t # pos.trade
    <3>1. booked'[t] = booked[t]
      BY <1>1, <1>3, <2>3
    <3> QED
      BY <1>1, <1>2, <2>1, <3>1
  <2> QED
    BY <2>2, <2>3
<1>4. CASE UNCHANGED booked /\ (Past(t) => Past(t)' \/ faults' = faults + 1)
  BY <1>1, <1>2, <1>4
<1>5. CASE SaveEntry /\ pos'.trade = t /\ t = mem.intent /\ UNCHANGED booked
  <2>1. booked[t] = 0
    BY <1>5 DEF SaveEntry, Step, SettleInv
  <2> QED
    BY <1>1, <1>5, <2>1
<1>6. CASE UNCHANGED booked /\ ~(Past(t) => Past(t)' \/ faults' = faults + 1)
  <2>1. ~Past(t)'
    BY <1>6
  <2>2. pos'.trade = t /\ pos'.phase # "COOLDOWN" /\ pc' \notin {"limit", "cooldown"}
    BY <2>1
  <2>3. pc \notin {"limit", "cooldown"}
    BY <1>6, <2>2, BookingFrame
  <2>4. pos' # NoPosition
    BY <2>2, ExecutorAssumption DEF NoPosition
  <2>5. SaveEntry /\ pos'.trade = mem.intent
    BY <1>3, <1>6, <2>2, <2>3, <2>4, BookingFrame
  <2> QED
    BY <1>5, <1>6, <2>2, <2>5
<1> QED
  BY <1>3, <1>4, <1>6, BookingFrame

\* Booked trades were bought, and the book is finite.
LEMMA UnjournaledFinite ==
    TypeOK /\ SettleInv => IsFiniteSet(Unjournaled)
<1> SUFFICES ASSUME TypeOK, SettleInv PROVE IsFiniteSet(Unjournaled)
  OBVIOUS
<1> DEFINE Traded == {orders[o].trade : o \in Ids}
<1>1. IsFiniteSet(Ids)
  BY BookBefore
<1>2. [o \in Ids |-> orders[o].trade] \in Surjection(Ids, Traded)
  BY DEF Surjection
<1>3. IsFiniteSet(Traded)
  BY <1>1, <1>2, FS_Surjection
<1>4. Unjournaled \subseteq Traded
  BY DEF Unjournaled, SettleInv, Of
<1> QED
  BY <1>3, <1>4, FS_Subset

\* A step that neither writes a ledger nor lets go of a trade in hand.
LEMMA JournalQuiet ==
    ASSUME UNCHANGED <<booked, notion, closed>>, JournalHands \subseteq JournalHands'
    PROVE  (Unjournaled \ JournalHands)' \subseteq Unjournaled \ JournalHands
BY DEF Unjournaled

\* What a step may do to the trades without a complete journal.
JournalStepAllowed ==
    /\ pos'.journaled => pos'.phase = "COOLDOWN" /\ pc' # "journal"
    /\ \/ (Unjournaled \ JournalHands)' \subseteq Unjournaled \ JournalHands
       \/ /\ faults' = faults + 1
          /\ (Unjournaled \ JournalHands)' \subseteq
                 (Unjournaled \ JournalHands) \cup {pos.trade}

LEMMA JournalFrame ==
    ASSUME TypeOK, ControlInv, SettleInv, [Next]_vars,
           pos.journaled => pos.phase = "COOLDOWN" /\ pc # "journal"
    PROVE  JournalStepAllowed
<1>1. CASE UNCHANGED vars \/ WorldStep
  <2>1. UNCHANGED <<booked, notion, closed, pos, pc>>
    BY <1>1 DEF vars, WorldStep, WriteIntent, ExpireIntent, PassSquareoff, ExchangeActs,
       ExternalClose, redis, ledger
  <2>2. JournalHands' = JournalHands
    BY <2>1 DEF JournalHands
  <2> QED
    BY <2>1, <2>2, JournalQuiet DEF JournalStepAllowed
<1>2. CASE PassStep
  <2>1. /\ UNCHANGED <<booked, notion, closed>>
        /\ pos'.phase = pos.phase /\ pos'.trade = pos.trade /\ pos'.journaled = pos.journaled
        /\ pc \notin {"journal", "append"} /\ pc' # "journal"
    BY <1>2 DEF PassStep, TickStart, SubloopPass, TickEnd, ReadStopStatus, ReadPositions, Step,
       AfterLoad, redis, ledger, TypeOK, Position
  <2>2. JournalHands \subseteq JournalHands'
    BY <2>1 DEF JournalHands
  <2> QED
    BY <2>1, <2>2, JournalQuiet DEF JournalStepAllowed
<1>3. CASE RouteStep
  <2>1. /\ UNCHANGED <<booked, notion, closed>> /\ pc = "route" /\ pc' # "journal"
        /\ \/ pos' = pos
           \/ pos' = NoPosition /\ pos.phase = "COOLDOWN"
           \/ pos' = [pos EXCEPT !.phase = "EXITING"] /\ pos.phase \in {"OPEN", "ENTERING"}
    BY <1>3 DEF RouteStep, Squareoff, NothingToDo, Manage, Hold, RouteEntering, RouteExiting,
       RouteCooldown, RouteIdle, BeginExit, Routed, Step, redis, ledger
  <2>2. /\ pos'.journaled => pos'.phase = "COOLDOWN"
        /\ pos.phase = "EXITING" => pos' = pos
    BY <2>1 DEF NoPosition, TypeOK, Position
  <2>3. JournalHands \subseteq JournalHands'
    BY <2>1, <2>2 DEF JournalHands
  <2> QED
    BY <2>1, <2>2, <2>3, JournalQuiet DEF JournalStepAllowed
<1>4. CASE EntryStep
  <2>1. UNCHANGED <<booked, notion, closed>> /\ pc' # "journal"
        /\ pc \notin {"journal", "append"} /\ pos.phase # "EXITING"
    BY <1>4 DEF EntryStep, GatePass, GateFail, TakeIntent, DropIntent, AbortEntry, PlaceEntry,
       SaveEntry, EntryFilled, EntryWaits, PlaceStop, SaveOpen, Step, ledger, ControlInv,
       EntryLabels, FillLabels
  <2>2. ~pos'.journaled \/ pos' = pos
    <3>1. CASE SaveEntry
      <4>1. pos' = FreshPosition(mem.intent, mem.oid)
        BY <3>1 DEF SaveEntry
      <4> QED
        BY <4>1 DEF FreshPosition, NoPosition
    <3>2. CASE SaveOpen
      <4>1. pos.phase = "ENTERING" /\ pos'.journaled = pos.journaled
        BY <3>2 DEF SaveOpen, Step, ControlInv, FillLabels, TypeOK, Position
      <4> QED
        BY <4>1
    <3> QED
      BY <1>4, <3>1, <3>2 DEF EntryStep, GatePass, GateFail, TakeIntent, DropIntent,
         AbortEntry, PlaceEntry, EntryFilled, EntryWaits, PlaceStop, redis
  <2>3. JournalHands = {}
    BY <2>1 DEF JournalHands
  <2> QED
    BY <2>1, <2>2, <2>3, JournalQuiet DEF JournalStepAllowed
<1>5. CASE ExitStep
  <2>1. CASE CancelStop \/ PlaceExit \/ SaveExit \/ SettleWaits \/ CheckLimit
    <3>1. /\ UNCHANGED <<booked, notion, closed>> /\ pos.phase = "EXITING"
          /\ pos'.phase = "EXITING" /\ pos'.trade = pos.trade
          /\ pos'.journaled = pos.journaled
      BY <2>1 DEF CancelStop, PlaceExit, SaveExit, SettleWaits, CheckLimit, Step, redis, ledger,
         ControlInv, ExitLabels, TypeOK, Position
    <3>2. JournalHands \subseteq JournalHands'
      BY <3>1 DEF JournalHands
    <3> QED
      BY <3>1, <3>2, JournalQuiet DEF JournalStepAllowed
  <2>2. CASE SettleBooks
    <3>1. /\ pos' = pos /\ pos.phase = "EXITING" /\ UNCHANGED <<notion, closed>>
          /\ booked' = [booked EXCEPT ![pos.trade] = @ + 1]
      BY <2>2 DEF SettleBooks, Step, redis, ControlInv, ExitLabels
    <3>2. JournalHands = {pos.trade} /\ JournalHands' = {pos.trade}
      BY <3>1 DEF JournalHands
    <3>3. \A t \in Trades : t # pos.trade => booked'[t] = booked[t]
      BY <3>1 DEF TypeOK
    <3>4. (Unjournaled \ JournalHands)' \subseteq Unjournaled \ JournalHands
      BY <3>1, <3>2, <3>3 DEF Unjournaled
    <3> QED
      BY <3>1, <3>4 DEF JournalStepAllowed
  <2>3. CASE SaveCooldown
    <3>1. /\ UNCHANGED <<booked, notion, closed>> /\ pos.phase = "EXITING"
          /\ pos'.phase = "COOLDOWN" /\ pos'.trade = pos.trade
          /\ pos'.journaled = pos.journaled /\ pc' = "journal"
      BY <2>3 DEF SaveCooldown, Step, ledger, ControlInv, ExitLabels, TypeOK, Position
    <3>2. JournalHands \subseteq JournalHands'
      BY <3>1 DEF JournalHands
    <3> QED
      BY <3>1, <3>2, JournalQuiet DEF JournalStepAllowed
  <2>4. CASE PostNotion
    <3>1. /\ pos' = pos /\ pos.phase = "COOLDOWN" /\ JournalDue
          /\ UNCHANGED <<booked, closed>> /\ pc' = "append" /\ pc = "journal"
          /\ notion' = [notion EXCEPT ![pos.trade] = @ + 1]
      BY <2>4 DEF PostNotion, redis, ControlInv, JournalDue
    <3>2. JournalHands = {pos.trade} /\ JournalHands' = {pos.trade}
      BY <3>1 DEF JournalHands
    <3>3. \A t \in Trades : t # pos.trade => notion'[t] = notion[t]
      BY <3>1 DEF TypeOK
    <3>4. (Unjournaled \ JournalHands)' \subseteq Unjournaled \ JournalHands
      BY <3>1, <3>2, <3>3 DEF Unjournaled
    <3> QED
      BY <3>1, <3>4 DEF JournalStepAllowed
  <2>5. CASE AppendClosed
    <3>1. /\ pos' = pos /\ pos.phase = "COOLDOWN" /\ pos.trade \in Trades
          /\ UNCHANGED <<booked, notion>> /\ pc = "append" /\ pc' = "flag"
          /\ closed' = [closed EXCEPT ![pos.trade] = @ + 1]
          /\ notion[pos.trade] = 1 /\ closed[pos.trade] = 0
      BY <2>5 DEF AppendClosed, Step, redis, ControlInv, SettleInv
    <3>2. JournalHands = {pos.trade} /\ JournalHands' = {}
      BY <3>1 DEF JournalHands
    <3>3. /\ closed'[pos.trade] = 1 /\ notion'[pos.trade] = 1
          /\ \A t \in Trades : t # pos.trade => closed'[t] = closed[t]
      BY <3>1 DEF TypeOK
    <3>4. (Unjournaled \ JournalHands)' \subseteq Unjournaled \ JournalHands
      BY <3>1, <3>2, <3>3 DEF Unjournaled
    <3> QED
      BY <3>1, <3>4 DEF JournalStepAllowed
  <2>6. CASE FlagJournaled
    <3>1. /\ UNCHANGED <<booked, notion, closed>> /\ pos.phase = "COOLDOWN" /\ pc = "flag"
          /\ pos'.phase = "COOLDOWN" /\ pc' = "done"
      BY <2>6 DEF FlagJournaled, Step, ledger, ControlInv, TypeOK, Position
    <3>2. JournalHands = {}
      BY <3>1 DEF JournalHands
    <3> QED
      BY <3>1, <3>2, JournalQuiet DEF JournalStepAllowed
  <2> QED
    BY <1>5, <2>1, <2>2, <2>3, <2>4, <2>5, <2>6 DEF ExitStep
<1>6. CASE FaultStep
  <2>1. /\ UNCHANGED <<booked, notion, closed, pos>> /\ faults' = faults + 1
        /\ pc' # "journal"
    BY <1>6 DEF FaultStep, Crash, CallRaises, ReplyLost, CallSwallowed, Fault, redis, ledger
  <2>2. JournalHands \subseteq {pos.trade} /\ Unjournaled' = Unjournaled
    BY <2>1 DEF JournalHands, Unjournaled
  <2> QED
    BY <2>1, <2>2 DEF JournalStepAllowed
<1> QED
  BY <1>1, <1>2, <1>3, <1>4, <1>5, <1>6 DEF Next, TickStep

LEMMA JournalStep ==
    ASSUME TypeOK, ControlInv, SettleInv, JournalCounted, [Next]_vars
    PROVE  JournalCounted'
<1> DEFINE Gaps == Unjournaled \ JournalHands
<1>1. JournalStepAllowed
  BY JournalFrame DEF JournalCounted
<1>2. faults \in Nat /\ faults' \in Nat /\ faults <= faults'
  BY FaultsGrow
<1>3. IsFiniteSet(Gaps) /\ Cardinality(Gaps) \in Nat /\ Cardinality(Gaps) <= faults
  BY UnjournaledFinite, FS_Difference, FS_CardinalityType DEF JournalCounted, JournalGapsPaidFor
<1>4. CASE Gaps' \subseteq Gaps
  <2>1. Cardinality(Gaps') <= Cardinality(Gaps) /\ Cardinality(Gaps') \in Nat
    BY <1>3, <1>4, FS_Subset, FS_CardinalityType
  <2> QED
    BY <1>1, <1>2, <1>3, <2>1 DEF JournalStepAllowed, JournalCounted, JournalGapsPaidFor
<1>5. CASE faults' = faults + 1 /\ Gaps' \subseteq Gaps \cup {pos.trade}
  <2>1. /\ IsFiniteSet(Gaps \cup {pos.trade})
        /\ Cardinality(Gaps \cup {pos.trade}) <= Cardinality(Gaps) + 1
        /\ Cardinality(Gaps \cup {pos.trade}) \in Nat
    <3>1. /\ IsFiniteSet(Gaps \cup {pos.trade})
          /\ Cardinality(Gaps \cup {pos.trade}) =
                 IF pos.trade \in Gaps THEN Cardinality(Gaps) ELSE Cardinality(Gaps) + 1
      BY <1>3, FS_AddElement
    <3> HIDE DEF Gaps
    <3> QED
      BY <1>3, <3>1
  <2>2. Cardinality(Gaps') <= Cardinality(Gaps \cup {pos.trade}) /\ Cardinality(Gaps') \in Nat
    BY <1>5, <2>1, FS_Subset, FS_CardinalityType
  <2> QED
    BY <1>1, <1>3, <1>2, <1>5, <2>1, <2>2
    DEF JournalStepAllowed, JournalCounted, JournalGapsPaidFor
<1> QED
  BY <1>1, <1>4, <1>5 DEF JournalStepAllowed

LEMMA AccountInit == Init => AccountInv
<1> SUFFICES ASSUME Init PROVE AccountInv
  OBVIOUS
<1>1. Ids = {}
  BY DEF Init, Ids
<1>2. Orphans = {} /\ Stops = {} /\ \A s : Claimed(s) = {} /\ Sold(s) = {}
  BY <1>1 DEF Orphans, Stops, Claimed, Sold, Done, Book
<1>3. Protected \ Unsaved = {} /\ faults = 0
  BY <1>2 DEF Protected, Init
<1>4. \A s : ~Held(s)
  BY DEF Init, Held, NoPosition
<1>5. Cardinality({}) = 0
  BY FS_EmptySet
<1>6. EntryKnown
  BY DEF Init, NoPosition, EntryKnown
<1>7. OrphansPaidFor /\ StopsCounted
  <2>1. Cardinality(Orphans) = 0 /\ Cardinality(Stops) = 0
    BY <1>2, <1>5
  <2>2. Cardinality(Protected \ Unsaved) = 0
    BY <1>3, <1>5
  <2>3. pc # "saveEntry"
    BY DEF Init
  <2> QED
    BY <1>3, <2>1, <2>2, <2>3 DEF OrphansPaidFor, StopsCounted
<1>8. ClaimsCounted
  BY <1>2, <1>3, <1>4, <1>5 DEF ClaimsCounted
<1>9. BookingsCounted
  BY <1>3 DEF Init, Zero, BookingsCounted
<1>10. JournalCounted
  <2>1. Unjournaled \ JournalHands = {}
    BY DEF Init, Zero, Unjournaled
  <2>2. Cardinality(Unjournaled \ JournalHands) = 0
    BY <1>5, <2>1
  <2> QED
    BY <1>3, <2>2 DEF Init, NoPosition, JournalCounted, JournalGapsPaidFor
<1> QED
  BY <1>6, <1>7, <1>8, <1>9, <1>10 DEF AccountInv

\* Whatever calls fail and whatever the exchange and the user do: every buy and
\* every stop the broker has is on record, about to be, or paid for by a fault.
THEOREM AccountsHold == Spec => []AccountInv
<1>1. Init => AccountInv
  BY AccountInit
<1>2. TypeOK /\ ControlInv /\ EntryInv /\ StopInv /\ SettleInv /\ AccountInv /\ [Next]_vars
          => AccountInv'
  BY KnownStep, OrphansStep, StopsStep, ClaimsStep, BookingsStep, JournalStep DEF AccountInv
<1> QED
  BY <1>1, <1>2, TypeControl, EntryInvariant, StopInvariant, SettleInvariant, PTL DEF Spec

-----------------------------------------------------------------------------
(* What follows for the account. *)

\* In either mode, whatever the exchange, the user and the clock do: an
\* instrument holds at most one unit and one per fault.
THEOREM HoldsOnePosition == Spec => []OnePosition
<1>1. TypeOK /\ AccountInv => OnePosition
  <2> SUFFICES ASSUME TypeOK, AccountInv, NEW s \in Symbols PROVE Net(s) <= 1 + faults
    BY DEF OnePosition
  <2>1. Bought(s) \subseteq Claimed(s) /\ Claimed(s) \in SUBSET Ids
    BY DEF Bought, Done, Claimed, Book
  <2>2. IsFiniteSet(Claimed(s)) /\ Cardinality(Claimed(s)) \in Nat
    BY <2>1, BookBefore
  <2>3. Cardinality(Bought(s)) <= Cardinality(Claimed(s))
    BY <2>1, <2>2, FS_Subset
  <2>4. Cardinality(Claimed(s)) <= Cardinality(Sold(s)) + faults + IF Held(s) THEN 1 ELSE 0
    BY DEF AccountInv, ClaimsCounted
  <2>5. /\ Net(s) = Cardinality(Bought(s)) - Cardinality(Sold(s)) /\ faults \in Nat
        /\ Cardinality(Bought(s)) \in Nat /\ Cardinality(Sold(s)) \in Nat
    BY NetType DEF TypeOK
  <2> QED
    BY <2>2, <2>3, <2>4, <2>5
<1> QED
  BY <1>1, TypeCorrect, AccountsHold, PTL

\* A trade's P&L is in the day's total once, and once more at most for each tick
\* that died between booking it and recording COOLDOWN.
THEOREM BookingsCostFaults == Spec => []BookingsPaidFor
<1>1. TypeOK /\ AccountInv => BookingsPaidFor
  <2> SUFFICES ASSUME TypeOK, AccountInv, NEW t \in Trades PROVE booked[t] <= 1 + faults
    BY DEF BookingsPaidFor
  <2>1. faults \in Nat /\ booked[t] \in Nat
    BY DEF TypeOK
  <2> QED
    BY <2>1 DEF AccountInv, BookingsCounted
<1> QED
  BY <1>1, TypeCorrect, AccountsHold, PTL

\* However many ticks die, raise or lose a reply: a trade whose P&L is in the day's
\* total and whose journal will stay incomplete has cost one of these faults.
THEOREM JournalGapsCostFaults == Spec => []JournalGapsPaidFor
<1>1. AccountInv => JournalGapsPaidFor
  BY DEF AccountInv, JournalCounted
<1> QED
  BY <1>1, AccountsHold, PTL

\* However often ticks die between sending a stop and recording it: each stop
\* beyond the first of its trade is one of these faults.
THEOREM StopsCostFaults == Spec => []StopsPaidFor
<1>1. TypeOK /\ AccountInv => StopsPaidFor
  <2> SUFFICES ASSUME TypeOK, AccountInv PROVE StopsPaidFor
    OBVIOUS
  <2>1. IsFiniteSet(Protected) /\ IsFiniteSet(Protected \ Unsaved)
    BY ProtectedFinite, FS_Difference
  <2>2. Cardinality(Protected \ Unsaved) <= Cardinality(Protected)
    BY <2>1, FS_Subset
  <2>3. /\ Cardinality(Protected \ Unsaved) \in Nat /\ Cardinality(Protected) \in Nat
        /\ Cardinality(Stops) \in Nat /\ faults \in Nat
    BY <2>1, ProtectedFinite, FS_CardinalityType DEF TypeOK
  <2> QED
    BY <2>2, <2>3 DEF AccountInv, StopsCounted, StopsPaidFor
<1> QED
  BY <1>1, TypeCorrect, AccountsHold, PTL

\* One stop of each trade that has one; all others are repetitions.
FirstStop(t) == CHOOSE o : o \in Of("SLM", t)
FirstStops   == {FirstStop(t) : t \in Protected}

LEMMA FirstStopOf ==
    ASSUME NEW t \in Protected PROVE FirstStop(t) \in Of("SLM", t)
BY DEF Protected, Stops, Of, FirstStop

LEMMA RepeatedStops ==
    ASSUME TypeOK, StopsPaidFor
    PROVE  Cardinality(Stops \ FirstStops) <= faults
<1>1. /\ IsFiniteSet(Stops) /\ Cardinality(Stops) \in Nat
      /\ IsFiniteSet(Protected) /\ Protected \subseteq Trades
  BY ProtectedFinite
<1>2. FirstStops \subseteq Stops
  BY FirstStopOf DEF FirstStops, Stops, Of
<1>3. IsFiniteSet(FirstStops) /\ Cardinality(FirstStops) \in Nat
  BY <1>1, <1>2, FS_Subset, FS_CardinalityType
<1>4. [t \in Protected |-> FirstStop(t)] \in Injection(Protected, FirstStops)
  <2> DEFINE f == [t \in Protected |-> FirstStop(t)]
  <2>1. f \in [Protected -> FirstStops]
    BY DEF FirstStops
  <2>2. \A t, u \in Protected : f[t] = f[u] => t = u
    BY FirstStopOf DEF Of
  <2> QED
    BY <2>1, <2>2, Fun_IsInj
<1>5. Cardinality(Protected) <= Cardinality(FirstStops) /\ Cardinality(Protected) \in Nat
  BY <1>1, <1>3, <1>4, FS_Injection, FS_CardinalityType
<1>6. Cardinality(Stops \ FirstStops) = Cardinality(Stops) - Cardinality(Stops \cap FirstStops)
  BY <1>1, FS_Difference
<1>7. Stops \cap FirstStops = FirstStops
  BY <1>2
<1> QED
  BY <1>1, <1>3, <1>5, <1>6, <1>7 DEF StopsPaidFor, TypeOK

\* The sales of s fall into repeated stops, sales by hand, market sells of
\* oversold trades, and what was bought before.
OversoldSales(s) == {o \in Sold(s) : orders[o].kind = "MKT" /\ orders[o].trade \in Oversold(s)}
CoveredSales(s)  == {o \in Sold(s) : \/ o \in FirstStops
                                     \/ orders[o].kind = "MKT" /\ orders[o].trade \notin Oversold(s)}

LEMMA OversoldCounted ==
    ASSUME TypeOK, OneExitPerTrade, NEW s
    PROVE  /\ IsFiniteSet(Oversold(s))
           /\ Cardinality(OversoldSales(s)) = Cardinality(Oversold(s))
<1> DEFINE M == OversoldSales(s)
           f == [o \in M |-> orders[o].trade]
<1>1. M \in SUBSET Ids /\ IsFiniteSet(M)
  BY BookBefore DEF OversoldSales, Sold, Done, Book
<1>2. f \in [M -> Oversold(s)]
  BY DEF OversoldSales
<1>3. ASSUME NEW t \in Oversold(s) PROVE \E o \in M : f[o] = t
  <2>1. PICK o \in Of("MKT", t) : IsComplete(o)
    BY <1>3 DEF Oversold, SoldTo
  <2>2. o \in M
    BY <1>3, <2>1 DEF OversoldSales, Sold, Bought, Done, Book, Of, IsComplete, Oversold
  <2> QED
    BY <2>1, <2>2 DEF Of
<1>4. f \in Surjection(M, Oversold(s))
  BY <1>2, <1>3 DEF Surjection
<1>5. \A o, p \in M : f[o] = f[p] => o = p
  BY <1>1, BookBefore DEF OversoldSales, OneExitPerTrade, Of, Order
<1>6. f \in Injection(M, Oversold(s))
  BY <1>2, <1>5, Fun_IsInj
<1> QED
  BY <1>1, <1>4, <1>6, FS_Surjection

LEMMA CoveredCounted ==
    ASSUME TypeOK, OneExitPerTrade, StopsFollowFills, NEW s
    PROVE  Cardinality(CoveredSales(s)) <= Cardinality(Bought(s))
<1> DEFINE R == CoveredSales(s)
           entry(t) == CHOOSE b \in Of("BUY", t) : IsComplete(b)
           f == [o \in R |-> entry(orders[o].trade)]
<1>1. \A o \in Ids : orders[o] \in Order
  BY BookBefore
<1>2. ASSUME NEW o \in R
      PROVE  /\ o \in Ids /\ orders[o].trade \in Trades /\ SymbolOf[orders[o].trade] = s
             /\ IsComplete(o)
             /\ \/ orders[o].kind = "SLM" /\ o = FirstStop(orders[o].trade)
                \/ orders[o].kind = "MKT" /\ orders[o].trade \notin Oversold(s)
  BY <1>1, <1>2, FirstStopOf
  DEF CoveredSales, FirstStops, Sold, Done, Book, IsComplete, Order, Of
<1>3. ASSUME NEW o \in R
      PROVE  \E b \in Of("BUY", orders[o].trade) : IsComplete(b)
  <2>1. CASE orders[o].kind = "SLM"
    BY <1>2, <2>1 DEF StopsFollowFills
  <2>2. CASE orders[o].kind = "MKT" /\ orders[o].trade \notin Oversold(s)
    BY <1>2, <2>2 DEF Oversold, SoldTo, Of
  <2> QED
    BY <1>2, <2>1, <2>2
<1>4. ASSUME NEW o \in R
      PROVE  f[o] \in Bought(s) /\ orders[f[o]].trade = orders[o].trade
  <2>1. f[o] \in Of("BUY", orders[o].trade) /\ IsComplete(f[o])
    BY <1>3
  <2> QED
    BY <1>2, <2>1 DEF Of, Bought, Done, Book, IsComplete
<1>5. ASSUME NEW o \in R, NEW p \in R, orders[o].trade = orders[p].trade
      PROVE  o = p
  <2>1. CASE orders[o].kind = "SLM" /\ orders[p].kind = "SLM"
    BY <1>2, <1>5, <2>1
  <2>2. CASE orders[o].kind = "MKT" /\ orders[p].kind = "MKT"
    BY <1>2, <1>5, <2>2 DEF OneExitPerTrade, Of
  <2>3. ASSUME NEW a \in R, NEW m \in R, orders[a].trade = orders[m].trade,
               orders[a].kind = "SLM", orders[m].kind = "MKT"
        PROVE  FALSE
    BY <1>2, <2>3 DEF Oversold, SoldTo, Of
  <2> QED
    BY <1>2, <1>5, <2>1, <2>2, <2>3
<1>6. f \in Injection(R, Bought(s))
  <2>1. f \in [R -> Bought(s)]
    BY <1>4
  <2>2. \A o, p \in R : f[o] = f[p] => o = p
    BY <1>4, <1>5
  <2> QED
    BY <2>1, <2>2, Fun_IsInj
<1>7. IsFiniteSet(Bought(s))
  BY BookBefore DEF Bought, Done, Book
<1> QED
  BY <1>6, <1>7, FS_Injection

LEMMA UnionBound ==
    ASSUME NEW S, NEW T, IsFiniteSet(S), IsFiniteSet(T)
    PROVE  IsFiniteSet(S \cup T) /\ Cardinality(S \cup T) <= Cardinality(S) + Cardinality(T)
<1>1. /\ Cardinality(S) \in Nat /\ Cardinality(T) \in Nat
      /\ IsFiniteSet(S \cap T)
  BY FS_CardinalityType, FS_Intersection
<1>2. Cardinality(S \cap T) \in Nat
  BY <1>1, FS_CardinalityType
<1> QED
  BY <1>1, <1>2, FS_Union

\* In either mode and after any fault, what the account owes of a symbol is
\* explained: a trade sold twice or unbought, a sale by hand, or a fault.
THEOREM ShortsAreExplained == Spec => []ShortIsAccountedFor
<1>1. TypeOK /\ OneExitPerTrade /\ StopsFollowFills /\ StopsPaidFor => ShortIsAccountedFor
  <2> SUFFICES ASSUME TypeOK, OneExitPerTrade, StopsFollowFills, StopsPaidFor, NEW s \in Symbols
               PROVE  Net(s) + Cardinality(Oversold(s)) + Cardinality(ByHand(s)) + faults >= 0
    BY DEF ShortIsAccountedFor
  <2> DEFINE E == Stops \ FirstStops
             H == ByHand(s)
             M == OversoldSales(s)
             R == CoveredSales(s)
  <2>1. Sold(s) \subseteq ((E \cup H) \cup M) \cup R
    BY BookBefore DEF Sold, Bought, Done, Book, Stops, ByHand, OversoldSales, CoveredSales,
       Order, Kinds
  <2>2. E \in SUBSET Ids /\ H \in SUBSET Ids /\ M \in SUBSET Ids /\ R \in SUBSET Ids
    BY DEF Stops, ByHand, OversoldSales, CoveredSales, Sold, Done, Book
  <2>3. /\ Cardinality(E) <= faults /\ faults \in Nat
        /\ Cardinality(M) = Cardinality(Oversold(s))
        /\ Cardinality(R) <= Cardinality(Bought(s))
    BY RepeatedStops, OversoldCounted, CoveredCounted DEF TypeOK
  <2> HIDE DEF E, H, M, R
  <2>4. /\ IsFiniteSet(E) /\ Cardinality(E) \in Nat /\ IsFiniteSet(H) /\ Cardinality(H) \in Nat
        /\ IsFiniteSet(M) /\ Cardinality(M) \in Nat /\ IsFiniteSet(R) /\ Cardinality(R) \in Nat
    BY <2>2, BookBefore
  <2>5. IsFiniteSet(E \cup H) /\ Cardinality(E \cup H) <= Cardinality(E) + Cardinality(H)
    BY <2>4, UnionBound
  <2>6. /\ IsFiniteSet((E \cup H) \cup M)
        /\ Cardinality((E \cup H) \cup M) <= Cardinality(E \cup H) + Cardinality(M)
    BY <2>4, <2>5, UnionBound
  <2>7. /\ IsFiniteSet(((E \cup H) \cup M) \cup R)
        /\ Cardinality(((E \cup H) \cup M) \cup R) <= Cardinality((E \cup H) \cup M) + Cardinality(R)
    BY <2>4, <2>6, UnionBound
  <2>8. Cardinality(Sold(s)) <= Cardinality(((E \cup H) \cup M) \cup R)
    BY <2>1, <2>7, FS_Subset
  <2>9. /\ Cardinality(E \cup H) \in Nat /\ Cardinality((E \cup H) \cup M) \in Nat
        /\ Cardinality(((E \cup H) \cup M) \cup R) \in Nat
    BY <2>5, <2>6, <2>7, FS_CardinalityType
  <2>10. /\ Net(s) = Cardinality(Bought(s)) - Cardinality(Sold(s))
         /\ Cardinality(Bought(s)) \in Nat /\ Cardinality(Sold(s)) \in Nat
    BY NetType DEF TypeOK
  <2> QED
    BY <2>3, <2>4, <2>5, <2>6, <2>7, <2>8, <2>9, <2>10 DEF H
<1> QED
  BY <1>1, TypeCorrect, NeverSellsTwice, StopsComeAfterFills, StopsCostFaults, PTL

-----------------------------------------------------------------------------
(* The paper book, on days without faults. *)

Rests(s) == Cardinality(Resting(s))

\* Steps that neither read nor change the book, in a pass that does not fail.
LEMMA NoFaultSteps ==
    ASSUME TypeOK, ~Live, [Next]_vars, faults' = 0
    PROVE  /\ faults = 0
           /\ \/ TickStep
              \/ /\ UNCHANGED <<orders, pos, pc, mem>>
                 /\ afterSO => afterSO'
<1>1. ~FaultStep
  BY DEF FaultStep, Crash, CallRaises, ReplyLost, CallSwallowed, Fault, TypeOK
<1>2. CASE UNCHANGED vars
  BY <1>2 DEF vars
<1>3. CASE TickStep
  BY <1>3 DEF TickStep, PassStep, TickStart, SubloopPass, TickEnd, ReadStopStatus,
     ReadPositions, RouteStep, Squareoff, NothingToDo, Manage, Hold, RouteEntering,
     RouteExiting, RouteCooldown, RouteIdle, BeginExit, EntryStep, GatePass, GateFail,
     TakeIntent, DropIntent, AbortEntry, PlaceEntry, SaveEntry, EntryFilled, EntryWaits,
     PlaceStop, SaveOpen, ExitStep, CancelStop, PlaceExit, SaveExit, SettleWaits,
     SettleBooks, CheckLimit, SaveCooldown, PostNotion, AppendClosed, FlagJournaled
<1>4. CASE WorldStep
  BY <1>4 DEF WorldStep, WriteIntent, ExpireIntent, PassSquareoff, ExchangeActs,
     ExternalClose, book, redis, env
<1> QED
  BY <1>1, <1>2, <1>3, <1>4 DEF Next

-----------------------------------------------------------------------------
(* Where a paper tick can be. *)

\* The paper gateway is never asked for positions, and only a tick that was
\* told of 15:10 leaves OPEN or ENTERING through a sale.
LEMMA PaperPathStep ==
    ASSUME TypeOK, ControlInv, SquareoffInv, ~Live, PaperPath, [Next]_vars
    PROVE  PaperPath'
<1> USE DEF PaperPath, Step, redis, env
<1>1. CASE UNCHANGED vars
  BY <1>1 DEF vars
<1>2. CASE PassStep
  <2>1. ASSUME NEW q \in BOOLEAN, TickStart(q) \/ SubloopPass(q) PROVE PaperPath'
    BY <2>1 DEF TickStart, SubloopPass, AfterLoad
  <2>2. CASE TickEnd
    BY <2>2 DEF TickEnd
  <2>3. CASE ReadStopStatus
    BY <2>3 DEF ReadStopStatus, TypeOK, Position
  <2>4. ~ReadPositions
    BY DEF ReadPositions
  <2> QED
    BY <1>2, <2>1, <2>2, <2>3, <2>4 DEF PassStep
<1>3. CASE RouteStep
  <2>1. CASE Squareoff \/ Manage
    BY <2>1 DEF Squareoff, Manage, Routed, BeginExit, SquareoffInv, TypeOK, Position
  <2>2. CASE RouteCooldown
    BY <2>2 DEF RouteCooldown, Routed, NoPosition
  <2>3. CASE NothingToDo \/ Hold \/ RouteEntering \/ RouteExiting \/ RouteIdle
    BY <2>3 DEF NothingToDo, Hold, RouteEntering, RouteExiting, RouteIdle, Routed
  <2> QED
    BY <1>3, <2>1, <2>2, <2>3 DEF RouteStep
<1>4. CASE EntryStep
  BY <1>4 DEF EntryStep, GatePass, GateFail, TakeIntent, DropIntent, AbortEntry,
     PlaceEntry, SaveEntry, EntryFilled, EntryWaits, PlaceStop, SaveOpen,
     FreshPosition, NoPosition, TypeOK, Position
<1>5. CASE ExitStep
  BY <1>5 DEF ExitStep, CancelStop, PlaceExit, SaveExit, SettleWaits, SettleBooks,
     CheckLimit, SaveCooldown, PostNotion, AppendClosed, FlagJournaled, TypeOK, Position
<1>6. CASE FaultStep
  BY <1>6 DEF FaultStep, Crash, CallRaises, ReplyLost, CallSwallowed
<1>7. CASE WorldStep
  BY <1>7 DEF WorldStep, WriteIntent, ExpireIntent, PassSquareoff, ExchangeActs, ExternalClose
<1> QED
  BY <1>1, <1>2, <1>3, <1>4, <1>5, <1>6, <1>7 DEF Next, TickStep

-----------------------------------------------------------------------------
(* What a step does to the accounts. *)

\* A fill, a stop that is sent and a stop that is cancelled move a unit between
\* what rests and what is done; only PlaceEntry adds to a net position.
BookFrame(s) ==
    /\ PlaceEntry => /\ Net(s)' = Net(s) + IF SymbolOf[mem.intent] = s THEN 1 ELSE 0
                     /\ Rests(s)' = Rests(s)
    /\ PlaceStop => /\ Net(s)' = Net(s)
                    /\ Rests(s)' = Rests(s) + IF Symbol = s THEN 1 ELSE 0
    /\ ~PlaceEntry => Net(s)' <= Net(s)
    /\ ~PlaceEntry /\ ~PlaceStop /\ pc \notin {"cancelSL", "sell"} =>
           Net(s)' - Rests(s)' = Net(s) - Rests(s)

LEMMA FrameSame ==
    ASSUME TypeOK, UNCHANGED orders, ~PlaceEntry, ~PlaceStop, NEW s
    PROVE  BookFrame(s)
<1>1. Net(s)' = Net(s) /\ Resting(s)' = Resting(s)
  BY SameNet
<1>2. Net(s) \in Int /\ Rests(s) \in Int
  BY NetType DEF TypeOK, Rests
<1>3. Rests(s)' = Rests(s)
  BY <1>1 DEF Rests
<1> QED
  BY <1>1, <1>2, <1>3 DEF BookFrame

LEMMA FrameTick ==
    ASSUME TypeOK, EntriesFilled, NEW q \in BOOLEAN, PaperTick(q),
           ~PlaceEntry, ~PlaceStop, NEW s
    PROVE  BookFrame(s)
<1>1. CASE UNCHANGED orders
  BY <1>1, FrameSame
<1>2. CASE \E F \in SUBSET {o \in Resting(Symbol) : orders[o].kind # "MKT"} :
               SetStatus(F, "COMPLETE")
  <2>1. PICK F \in SUBSET {o \in Resting(Symbol) : orders[o].kind # "MKT"} :
               SetStatus(F, "COMPLETE")
    BY <1>2
  <2>2. F \in SUBSET Resting(Symbol) /\ \A o \in F : orders[o].kind # "BUY"
    BY DEF EntriesFilled, IsComplete, Resting, Book
  <2>3. /\ Net(s)' <= Net(s)
        /\ Net(s)' - Cardinality(Resting(s))' = Net(s) - Cardinality(Resting(s))
    <3> DEFINE r == Symbol
    <3>1. F \in SUBSET Resting(r)
      BY <2>2
    <3> HIDE DEF r
    <3> QED
      BY <2>1, <2>2, <3>1, FillNet DEF TypeOK
  <2> QED
    BY <2>3 DEF BookFrame, Rests
<1> QED
  BY <1>1, <1>2 DEF PaperTick

LEMMA FrameEntry ==
    ASSUME TypeOK, ControlInv, ~Live, EntryStep, NEW s
    PROVE  BookFrame(s)
<1>1. CASE PlaceEntry
  <2>1. mem.intent \in Trades /\ Place("BUY", mem.intent, "COMPLETE")
    BY <1>1 DEF PlaceEntry, Step, ControlInv, EntryLabels
  <2>2. ~PlaceStop
    BY <1>1 DEF PlaceEntry, PlaceStop, Step
  <2>3. /\ Net(s)' = Net(s) + (IF SymbolOf[mem.intent] = s THEN 1 ELSE 0)
        /\ Cardinality(Resting(s))' = Cardinality(Resting(s)) + 0
    <3>1. "BUY" \in Kinds /\ "COMPLETE" \in Statuses /\ BookTypeOK
      BY DEF Kinds, Statuses, TypeOK
    <3> QED
      BY <2>1, <3>1, PlaceNet
  <2>4. Cardinality(Resting(s)) \in Nat
    BY NetType DEF TypeOK
  <2> QED
    BY <1>1, <2>2, <2>3, <2>4 DEF BookFrame, Rests
<1>2. CASE PlaceStop
  <2>1. pos.trade \in Trades /\ Place("SLM", pos.trade, "OPEN")
    BY <1>2 DEF PlaceStop, Step, ControlInv, FillLabels
  <2>2. ~PlaceEntry /\ pc \notin {"cancelSL", "sell"}
    BY <1>2 DEF PlaceEntry, PlaceStop, Step
  <2>3. /\ Net(s)' = Net(s) + 0
        /\ Cardinality(Resting(s))' =
              Cardinality(Resting(s)) + (IF SymbolOf[pos.trade] = s THEN 1 ELSE 0)
    <3>1. "SLM" \in Kinds /\ "OPEN" \in Statuses /\ BookTypeOK
      BY DEF Kinds, Statuses, TypeOK
    <3> QED
      BY <2>1, <3>1, PlaceNet
  <2>4. Cardinality(Resting(s)) \in Nat /\ Net(s) \in Int
    BY NetType DEF TypeOK
  <2> QED
    BY <1>2, <2>2, <2>3, <2>4 DEF BookFrame, Rests, Symbol
<1>3. CASE EntryStep /\ ~PlaceEntry /\ ~PlaceStop
  BY <1>3, FrameSame
  DEF EntryStep, GatePass, GateFail, TakeIntent, DropIntent, AbortEntry,
      SaveEntry, EntryFilled, EntryWaits, SaveOpen, book
<1> QED
  BY <1>1, <1>2, <1>3

LEMMA FrameExit ==
    ASSUME TypeOK, ControlInv, ExitStep, NEW s
    PROVE  BookFrame(s)
<1>1. ~PlaceEntry /\ ~PlaceStop
  BY DEF ExitStep, CancelStop, PlaceExit, SaveExit, SettleWaits, SettleBooks, CheckLimit,
     SaveCooldown, PostNotion, AppendClosed, FlagJournaled, PlaceEntry, PlaceStop, Step
<1>2. CASE CancelStop
  <2>1. pc = "cancelSL" /\ Cancel(pos.sl)
    BY <1>2 DEF CancelStop, Step
  <2>2. Net(s)' = Net(s) /\ Net(s) \in Int
    BY <2>1, CancelNet, NetType DEF TypeOK
  <2> QED
    BY <1>1, <2>1, <2>2 DEF BookFrame
<1>3. CASE PlaceExit
  <2>1. pc = "sell" /\ pos.trade \in Trades
    BY <1>3 DEF PlaceExit, ControlInv, ExitLabels
  <2>2. PICK st \in {"OPEN", "COMPLETE"} : Place("MKT", pos.trade, st)
    BY <1>3 DEF PlaceExit
  <2>3. Net(s)' = Net(s) + (IF SymbolOf[pos.trade] = s /\ st = "COMPLETE" THEN -1 ELSE 0)
    <3>1. "MKT" \in Kinds /\ st \in Statuses /\ BookTypeOK
      BY DEF Kinds, Statuses, TypeOK
    <3> QED
      BY <2>1, <2>2, <3>1, PlaceNet
  <2>4. Net(s) \in Int
    BY NetType DEF TypeOK
  <2> QED
    BY <1>1, <2>1, <2>3, <2>4 DEF BookFrame
<1>4. CASE ExitStep /\ ~CancelStop /\ ~PlaceExit
  BY <1>1, <1>4, FrameSame
  DEF ExitStep, SaveExit, SettleWaits, SettleBooks, CheckLimit, SaveCooldown,
      PostNotion, AppendClosed, FlagJournaled, book
<1> QED
  BY <1>2, <1>3, <1>4

LEMMA FrameHolds ==
    ASSUME TypeOK, ControlInv, ~Live, EntriesFilled, [Next]_vars, faults' = 0, NEW s
    PROVE  BookFrame(s)
<1>1. CASE PassStep
  <2>1. ~PlaceEntry /\ ~PlaceStop
    BY <1>1 DEF PassStep, TickStart, SubloopPass, TickEnd, ReadStopStatus, ReadPositions,
       PlaceEntry, PlaceStop, Step
  <2>2. CASE \E q \in BOOLEAN : PaperTick(q)
    BY <2>1, <2>2, FrameTick
  <2>3. CASE UNCHANGED orders
    BY <2>1, <2>3, FrameSame
  <2> QED
    BY <1>1, <2>2, <2>3 DEF PassStep, TickStart, SubloopPass, TickEnd, ReadStopStatus,
       ReadPositions, book
<1>2. CASE RouteStep
  <2>1. UNCHANGED orders /\ pc = "route"
    BY <1>2 DEF RouteStep, Squareoff, NothingToDo, Manage, Hold, RouteEntering,
       RouteExiting, RouteCooldown, RouteIdle, BeginExit, Routed, Step, book
  <2> QED
    BY <2>1, FrameSame DEF PlaceEntry, PlaceStop, Step
<1>3. CASE UNCHANGED <<orders, pos, pc, mem>>
  <2>1. ~PlaceEntry /\ ~PlaceStop
    BY <1>3 DEF PlaceEntry, PlaceStop, Step
  <2> QED
    BY <1>3, <2>1, FrameSame
<1> QED
  BY <1>1, <1>2, <1>3, NoFaultSteps, FrameEntry, FrameExit DEF TickStep

-----------------------------------------------------------------------------
(* The parts of PaperInv. *)

\* A well typed book has orders in it, and its net positions are numbers.
LEMMA BookNumbers ==
    TypeOK => /\ \A o \in Ids : orders[o] \in Order
              /\ \A s : Net(s) \in Int /\ Rests(s) \in Nat
BY BookElements, NetType DEF Rests, TypeOK

LEMMA AfterTyped ==
    ASSUME TypeOK, ControlInv, [Next]_vars
    PROVE  /\ \A o \in Ids' : orders'[o] \in Order
           /\ \A s : Net(s)' \in Int /\ Rests(s)' \in Nat
<1>1. TypeOK'
  BY TypeControlStep
<1>2. (TypeOK => /\ \A o \in Ids : orders[o] \in Order
                 /\ \A s : Net(s) \in Int /\ Rests(s) \in Nat)'
  BY BookNumbers, PTL
<1> QED
  BY <1>1, <1>2

\* The only buy of a pass that does not fail is COMPLETE, and stays so.
LEMMA FilledStep ==
    ASSUME TypeOK, ControlInv, ~Live, EntriesFilled, [Next]_vars, faults' = 0
    PROVE  EntriesFilled'
<1>1. OrdersKept
  BY AlwaysKept
<1>2. ASSUME NEW o \in Ids' \ Ids, orders'[o].kind = "BUY" PROVE IsComplete(o)'
  <2>1. ASSUME NEW kind \in Kinds, NEW t \in Trades, NEW status \in Statuses,
               Place(kind, t, status)
        PROVE  orders'[o].kind = kind /\ orders'[o].status = status
    <3>1. /\ Ids' = Ids \cup {NewId}
          /\ orders'[NewId] = [kind |-> kind, trade |-> t, status |-> status]
      BY <2>1, PlaceLemma DEF TypeOK
    <3>2. o = NewId
      BY <3>1
    <3> QED
      BY <3>1, <3>2
  <2>2. CASE EntryStep
    <3>1. CASE PlaceEntry
      <4>1. mem.intent \in Trades /\ Place("BUY", mem.intent, "COMPLETE")
        BY <3>1 DEF PlaceEntry, Step, ControlInv, EntryLabels
      <4> QED
        BY <2>1, <4>1 DEF Kinds, Statuses, IsComplete
    <3>2. CASE PlaceStop
      <4>1. pos.trade \in Trades /\ Place("SLM", pos.trade, "OPEN")
        BY <3>2 DEF PlaceStop, Step, ControlInv, FillLabels
      <4> QED
        BY <1>2, <2>1, <4>1 DEF Kinds, Statuses
    <3>3. CASE EntryStep /\ ~PlaceEntry /\ ~PlaceStop
      BY <3>3, <1>2 DEF EntryStep, GatePass, GateFail, TakeIntent, DropIntent,
         AbortEntry, SaveEntry, EntryFilled, EntryWaits, SaveOpen, book, Ids
    <3> QED
      BY <2>2, <3>1, <3>2, <3>3
  <2>6. PICK u \in Trades : o \in Of("BUY", u)' /\ o \notin Of("BUY", u)
    <3>1. PICK u \in Trades : orders'[o].trade = u
      BY AfterTyped DEF Order
    <3> QED
      BY <1>2, <3>1 DEF Of
  <2>3. CASE ExitStep
    <3>1. NoneSent \/ Sent("MKT", pos.trade)
      BY <2>3, ExitSends
    <3> QED
      BY <2>6, <3>1 DEF NoneSent, Sent, OwnKinds
  <2>4. CASE PassStep \/ RouteStep
    <3>1. NoneSent
      BY <2>4, PassSendsNone, RouteSendsNone
    <3> QED
      BY <2>6, <3>1 DEF NoneSent, OwnKinds
  <2>5. CASE UNCHANGED <<orders, pos, pc, mem>>
    BY <1>2, <2>5 DEF Ids
  <2> QED
    BY <2>2, <2>3, <2>4, <2>5, NoFaultSteps DEF TickStep
<1>3. ASSUME NEW o \in Ids, orders'[o].kind = "BUY" PROVE IsComplete(o)'
  BY <1>1, <1>3 DEF OrdersKept, EntriesFilled
<1> QED
  BY <1>2, <1>3 DEF EntriesFilled

\* A symbol leaves the executor's hands only when it is found flat.
LEMMA HeldFrame ==
    ASSUME TypeOK, ControlInv, ~Live, [Next]_vars, faults' = 0, NEW s
    PROVE  /\ Held(s) => Held(s)' \/ Net(s)' <= 0
           /\ PlaceEntry => /\ Held(s)' <=> SymbolOf[mem.intent] = s
                            /\ ~Held(s)
<1> USE DEF Held, Symbol, Step, redis
<1>1. CASE PassStep
  <2>1. ASSUME NEW q \in BOOLEAN, TickStart(q) \/ SubloopPass(q)
        PROVE  UNCHANGED pos /\ pc # "saveEntry" /\ pc' \notin {"limit", "cooldown"}
    BY <2>1 DEF TickStart, SubloopPass, AfterLoad
  <2>2. ASSUME TickEnd \/ ReadStopStatus \/ ReadPositions
        PROVE  /\ pos'.phase = pos.phase /\ pos'.trade = pos.trade
               /\ pc # "saveEntry" /\ pc' \notin {"limit", "cooldown"}
    BY <2>2 DEF TickEnd, ReadStopStatus, ReadPositions, TypeOK, Position
  <2>3. pc # "enter"
    BY <1>1 DEF PassStep, TickStart, SubloopPass, TickEnd, ReadStopStatus, ReadPositions
  <2> QED
    BY <1>1, <2>1, <2>2, <2>3 DEF PassStep, PlaceEntry
<1>2. CASE RouteStep
  <2>1. pc = "route" /\ pc' \notin {"limit", "cooldown"}
    BY <1>2 DEF RouteStep, Squareoff, NothingToDo, Manage, Hold, RouteEntering,
       RouteExiting, RouteCooldown, RouteIdle, BeginExit, Routed
  <2>2. CASE Squareoff \/ Manage
    BY <2>1, <2>2 DEF Squareoff, Manage, BeginExit, TypeOK, Position, PlaceEntry
  <2>3. CASE RouteCooldown
    BY <2>1, <2>3 DEF RouteCooldown, Routed, PlaceEntry
  <2>4. CASE NothingToDo \/ Hold \/ RouteEntering \/ RouteExiting \/ RouteIdle
    BY <2>1, <2>4 DEF NothingToDo, Hold, RouteEntering, RouteExiting, RouteIdle, PlaceEntry
  <2> QED
    BY <1>2, <2>2, <2>3, <2>4 DEF RouteStep
<1>3. CASE EntryStep
  <2>1. CASE PlaceEntry
    BY <2>1 DEF PlaceEntry, ControlInv, EntryLabels, TypeOK, Memory
  <2>2. CASE SaveEntry
    BY <2>2 DEF SaveEntry, PlaceEntry, FreshPosition, NoPosition, ControlInv, EntryLabels
  <2>3. CASE SaveOpen
    BY <2>3 DEF SaveOpen, PlaceEntry, TypeOK, Position
  <2>4. CASE EntryStep /\ ~PlaceEntry /\ ~SaveEntry /\ ~SaveOpen
    BY <2>4 DEF EntryStep, GatePass, GateFail, TakeIntent, DropIntent, AbortEntry,
       EntryFilled, EntryWaits, PlaceStop
  <2> QED
    BY <1>3, <2>1, <2>2, <2>3, <2>4
<1>4. CASE ExitStep
  <2>1. ~PlaceEntry
    BY <1>4 DEF ExitStep, CancelStop, PlaceExit, SaveExit, SettleWaits, SettleBooks,
       CheckLimit, SaveCooldown, PostNotion, AppendClosed, FlagJournaled, PlaceEntry
  <2>2. CASE SettleBooks
    <3>1. UNCHANGED orders /\ pos' = pos /\ pc = "settle" /\ Net(Symbol) <= 0
      BY <2>2 DEF SettleBooks, IsFlat, book
    <3>2. Net(s)' = Net(s)
      BY <3>1, SameNet
    <3> QED
      BY <2>1, <3>1, <3>2
  <2>3. CASE SaveCooldown
    BY <2>1, <2>3 DEF SaveCooldown
  <2>4. CASE CheckLimit
    BY <2>1, <2>4 DEF CheckLimit
  <2>5. CASE ExitStep /\ ~SettleBooks /\ ~SaveCooldown /\ ~CheckLimit
    <3>1. pos'.phase = pos.phase /\ pos'.trade = pos.trade
      BY <2>5 DEF ExitStep, CancelStop, PlaceExit, SaveExit, SettleWaits, PostNotion,
         AppendClosed, FlagJournaled, TypeOK, Position
    <3>2. pc # "saveEntry" /\ pc' \notin {"limit", "cooldown"}
      BY <2>5 DEF ExitStep, CancelStop, PlaceExit, SaveExit, SettleWaits, PostNotion,
         AppendClosed, FlagJournaled
    <3> QED
      BY <2>1, <3>1, <3>2
  <2> QED
    BY <1>4, <2>2, <2>3, <2>4, <2>5
<1>5. CASE UNCHANGED <<orders, pos, pc, mem>>
  BY <1>5 DEF PlaceEntry
<1> QED
  BY <1>1, <1>2, <1>3, <1>4, <1>5, NoFaultSteps DEF TickStep

LEMMA FlatStep ==
    ASSUME TypeOK, ControlInv, ~Live, EntriesFilled, Flatness, [Next]_vars, faults' = 0
    PROVE  Flatness'
<1> SUFFICES ASSUME NEW s \in Symbols
             PROVE  Net(s)' <= IF Held(s)' THEN 1 ELSE 0
  BY DEF Flatness
<1>1. BookFrame(s)
  BY FrameHolds
<1>2. /\ Held(s) => Held(s)' \/ Net(s)' <= 0
      /\ PlaceEntry => /\ Held(s)' <=> SymbolOf[mem.intent] = s
                       /\ ~Held(s)
  BY HeldFrame
<1>3. Net(s) \in Int /\ Net(s)' \in Int
  BY AfterTyped, NetType DEF TypeOK
<1>4. Net(s) <= IF Held(s) THEN 1 ELSE 0
  BY DEF Flatness
<1>5. CASE PlaceEntry
  <2>1. Net(s) <= 0
    BY <1>2, <1>4, <1>5
  <2>2. Net(s)' = Net(s) + IF SymbolOf[mem.intent] = s THEN 1 ELSE 0
    BY <1>1, <1>5 DEF BookFrame
  <2>3. CASE SymbolOf[mem.intent] = s
    BY <1>2, <1>3, <1>5, <2>1, <2>2, <2>3
  <2>4. CASE SymbolOf[mem.intent] # s
    BY <1>2, <1>3, <1>5, <2>1, <2>2, <2>4
  <2> QED
    BY <2>3, <2>4
<1>6. CASE ~PlaceEntry
  <2>1. Net(s)' <= Net(s)
    BY <1>1, <1>6 DEF BookFrame
  <2>2. CASE Held(s)
    BY <1>2, <1>3, <1>4, <2>1, <2>2
  <2>3. CASE ~Held(s)
    BY <1>3, <1>4, <2>1, <2>3
  <2> QED
    BY <2>2, <2>3
<1> QED
  BY <1>5, <1>6

\* Before 15:10 a unit waits for its stop from its purchase to PlaceStop.
LEMMA AwaitsFrame ==
    ASSUME TypeOK, ControlInv, SquareoffInv, ~Live, PaperPath, [Next]_vars,
           faults' = 0, ~afterSO', NEW s
    PROVE  /\ ~afterSO
           /\ PlaceEntry => ~AwaitsStop(s) /\ (AwaitsStop(s)' <=> SymbolOf[mem.intent] = s)
           /\ PlaceStop => ~AwaitsStop(s)' /\ (AwaitsStop(s) <=> Symbol = s)
           /\ ~PlaceEntry /\ ~PlaceStop => (AwaitsStop(s)' <=> AwaitsStop(s))
<1> USE DEF AwaitsStop, Symbol, Step, redis, env
<1>0. ~afterSO
  <2>1. CASE TickStep
    BY <2>1 DEF TickStep, PassStep, TickStart, SubloopPass, TickEnd, ReadStopStatus,
     ReadPositions, RouteStep, Squareoff, NothingToDo, Manage, Hold, RouteEntering,
     RouteExiting, RouteCooldown, RouteIdle, BeginExit, EntryStep, GatePass, GateFail,
     TakeIntent, DropIntent, AbortEntry, PlaceEntry, SaveEntry, EntryFilled, EntryWaits,
     PlaceStop, SaveOpen, ExitStep, CancelStop, PlaceExit, SaveExit, SettleWaits,
     SettleBooks, CheckLimit, SaveCooldown, PostNotion, AppendClosed, FlagJournaled
  <2> QED
    BY <2>1, NoFaultSteps
<1>1. CASE PassStep
  <2>1. ASSUME NEW q \in BOOLEAN, TickStart(q) \/ SubloopPass(q)
        PROVE  /\ UNCHANGED pos /\ pc \in {"down", "done"}
               /\ pc' \in {"status", "route", "done"}
    BY <2>1 DEF TickStart, SubloopPass, AfterLoad
  <2>2. ASSUME TickEnd \/ ReadStopStatus \/ ReadPositions
        PROVE  /\ pos'.phase = pos.phase /\ pos'.trade = pos.trade
               /\ pc \in {"done", "status", "positions"}
               /\ pc' \in {"down", "positions", "route"}
    BY <2>2 DEF TickEnd, ReadStopStatus, ReadPositions, TypeOK, Position
  <2> QED
    BY <1>0, <1>1, <2>1, <2>2 DEF PassStep, PlaceEntry, PlaceStop
<1>2. CASE RouteStep
  <2>1. pc = "route" /\ pc' \notin {"saveEntry", "saveOpen"}
    BY <1>2 DEF RouteStep, Squareoff, NothingToDo, Manage, Hold, RouteEntering,
       RouteExiting, RouteCooldown, RouteIdle, BeginExit, Routed
  <2>2. ~Squareoff
    BY <1>0 DEF Squareoff, SquareoffInv
  <2>3. CASE Manage
    BY <1>0, <2>1, <2>3 DEF Manage, Routed, BeginExit, TypeOK, Position, PlaceEntry, PlaceStop
  <2>4. CASE RouteCooldown
    BY <1>0, <2>1, <2>4 DEF RouteCooldown, Routed, NoPosition, PlaceEntry, PlaceStop
  <2>5. CASE NothingToDo \/ Hold \/ RouteEntering \/ RouteExiting \/ RouteIdle
    BY <1>0, <2>1, <2>5 DEF NothingToDo, Hold, RouteEntering, RouteExiting, RouteIdle,
       PlaceEntry, PlaceStop
  <2> QED
    BY <1>2, <2>2, <2>3, <2>4, <2>5 DEF RouteStep
<1>3. CASE EntryStep
  <2>1. CASE PlaceEntry
    BY <1>0, <2>1 DEF PlaceEntry, PlaceStop, ControlInv, EntryLabels, TypeOK, Memory
  <2>2. CASE PlaceStop
    BY <1>0, <2>2 DEF PlaceEntry, PlaceStop, ControlInv, FillLabels
  <2>3. CASE SaveEntry
    BY <1>0, <2>3 DEF SaveEntry, PlaceEntry, PlaceStop, FreshPosition, NoPosition,
       ControlInv, EntryLabels
  <2>4. CASE SaveOpen
    BY <1>0, <2>4 DEF SaveOpen, PlaceEntry, PlaceStop, TypeOK, Position
  <2>5. CASE EntryStep /\ ~PlaceEntry /\ ~PlaceStop /\ ~SaveEntry /\ ~SaveOpen
    BY <1>0, <2>5 DEF EntryStep, GatePass, GateFail, TakeIntent, DropIntent, AbortEntry,
       EntryFilled, EntryWaits
  <2> QED
    BY <1>3, <2>1, <2>2, <2>3, <2>4, <2>5
<1>4. CASE ExitStep
  <2>1. ~PlaceEntry /\ ~PlaceStop
    BY <1>4 DEF ExitStep, CancelStop, PlaceExit, SaveExit, SettleWaits, SettleBooks,
       CheckLimit, SaveCooldown, PostNotion, AppendClosed, FlagJournaled, PlaceEntry, PlaceStop
  <2>2. pos.phase # "ENTERING" /\ pos'.phase # "ENTERING"
    BY <1>4, ExitFrame
  <2>3. pc # "saveEntry" /\ pc' # "saveEntry"
    BY <1>4 DEF ExitStep, CancelStop, PlaceExit, SaveExit, SettleWaits, SettleBooks,
       CheckLimit, SaveCooldown, PostNotion, AppendClosed, FlagJournaled
  <2> QED
    BY <1>0, <2>1, <2>2, <2>3
<1>5. CASE UNCHANGED <<orders, pos, pc, mem>>
  BY <1>0, <1>5 DEF PlaceEntry, PlaceStop
<1> QED
  BY <1>1, <1>2, <1>3, <1>4, <1>5, NoFaultSteps DEF TickStep

LEMMA BalanceStep ==
    ASSUME TypeOK, ControlInv, SquareoffInv, ~Live, PaperPath, EntriesFilled, Balance,
           [Next]_vars, faults' = 0, ~afterSO'
    PROVE  Balance'
<1> SUFFICES ASSUME NEW s \in Symbols
             PROVE  Net(s)' = Rests(s)' + IF AwaitsStop(s)' THEN 1 ELSE 0
  BY DEF Balance, Rests
<1>1. BookFrame(s)
  BY FrameHolds
<1>3. /\ ~afterSO
      /\ PlaceEntry => ~AwaitsStop(s) /\ (AwaitsStop(s)' <=> SymbolOf[mem.intent] = s)
      /\ PlaceStop => ~AwaitsStop(s)' /\ (AwaitsStop(s) <=> Symbol = s)
      /\ ~PlaceEntry /\ ~PlaceStop => (AwaitsStop(s)' <=> AwaitsStop(s))
  BY AwaitsFrame
<1>4. /\ Net(s) \in Int /\ Net(s)' \in Int
      /\ Rests(s) \in Nat /\ Rests(s)' \in Nat
  BY AfterTyped, BookNumbers
<1>5. Net(s) = Rests(s) + IF AwaitsStop(s) THEN 1 ELSE 0
  BY DEF Balance, Rests
<1>6. CASE PlaceEntry
  <2>1. Net(s) = Rests(s) /\ Rests(s)' = Rests(s)
    BY <1>1, <1>3, <1>4, <1>5, <1>6 DEF BookFrame
  <2>2. Net(s)' = Net(s) + IF AwaitsStop(s)' THEN 1 ELSE 0
    BY <1>1, <1>3, <1>6 DEF BookFrame
  <2> QED
    BY <2>1, <2>2
<1>7. CASE PlaceStop
  <2>1. Rests(s)' = Rests(s) + (IF AwaitsStop(s) THEN 1 ELSE 0) /\ Net(s)' = Net(s)
    BY <1>1, <1>3, <1>7 DEF BookFrame
  <2> QED
    BY <1>3, <1>4, <1>5, <1>7, <2>1
<1>8. CASE ~PlaceEntry /\ ~PlaceStop
  <2>1. pc \notin {"cancelSL", "sell"}
    BY <1>3 DEF PaperPath
  <2>2. Net(s)' - Rests(s)' = Net(s) - Rests(s)
    BY <1>1, <1>8, <2>1 DEF BookFrame
  <2>3. CASE AwaitsStop(s)
    BY <1>3, <1>4, <1>5, <1>8, <2>2, <2>3
  <2>4. CASE ~AwaitsStop(s)
    BY <1>3, <1>4, <1>5, <1>8, <2>2, <2>4
  <2> QED
    BY <2>3, <2>4
<1> QED
  BY <1>6, <1>7, <1>8

-----------------------------------------------------------------------------
LEMMA PaperInit == Init => PaperInv
<1> SUFFICES ASSUME Init PROVE PaperPath /\ EntriesFilled /\ Flatness /\ Balance
  BY DEF PaperInv
<1>1. Ids = {}
  BY DEF Init, Ids
<1>2. \A s : Bought(s) = {} /\ Sold(s) = {} /\ Resting(s) = {}
  BY <1>1 DEF Bought, Sold, Done, Resting, Book
<1>3. \A s : Net(s) = 0 /\ Cardinality(Resting(s)) = 0
  BY <1>2, FS_EmptySet DEF Net
<1>4. \A s : ~AwaitsStop(s) /\ ~Held(s)
  BY DEF Init, AwaitsStop, Held, NoPosition
<1> QED
  BY <1>1, <1>3, <1>4 DEF Init, NoPosition, PaperPath, EntriesFilled, Flatness, Balance

LEMMA PaperStep ==
    TypeOK /\ ControlInv /\ SquareoffInv /\ PaperInv /\ [Next]_vars => PaperInv'
<1> SUFFICES ASSUME TypeOK, ControlInv, SquareoffInv, PaperInv, [Next]_vars, ~Live
             PROVE  /\ PaperPath'
                    /\ faults' = 0 => EntriesFilled' /\ Flatness'
                    /\ faults' = 0 /\ ~afterSO' => Balance'
  BY DEF PaperInv
<1>1. PaperPath /\ PaperPath'
  BY PaperPathStep DEF PaperInv
<1>2. ASSUME faults' = 0 PROVE EntriesFilled /\ Flatness
  BY <1>2, NoFaultSteps DEF PaperInv
<1>3. ASSUME faults' = 0 PROVE EntriesFilled' /\ Flatness'
  BY <1>2, <1>3, FilledStep, FlatStep
<1>4. ASSUME faults' = 0, ~afterSO' PROVE Balance'
  <2>1. ~afterSO /\ faults = 0
    BY <1>1, <1>4, AwaitsFrame, NoFaultSteps
  <2>2. Balance
    BY <2>1 DEF PaperInv
  <2> QED
    BY <1>1, <1>2, <1>4, <2>2, BalanceStep
<1> QED
  BY <1>1, <1>3, <1>4

\* In the paper book, with no call failing: what is bought of a symbol and not
\* sold is held for one trade, a stop rests against it before 15:10, and no
\* entry is left unfilled.
THEOREM PaperAccountsHold == Spec => []PaperInv
<1>1. Init => PaperInv
  BY PaperInit
<1>2. TypeOK /\ ControlInv /\ SquareoffInv /\ PaperInv /\ [Next]_vars => PaperInv'
  BY PaperStep
<1> QED
  BY <1>1, <1>2, TypeControl, SquareoffInvariant, PTL DEF Spec

-----------------------------------------------------------------------------
\* The paper account owes no option before 15:10 while no call fails: what has
\* been sold of a symbol was bought before.
THEOREM PaperNeverShort == Spec => [](~Live => NeverShort)
<1>1. TypeOK /\ PaperInv => (~Live => NeverShort)
  <2> SUFFICES ASSUME TypeOK, PaperInv, ~Live, faults = 0, ~afterSO, NEW s \in Symbols
               PROVE  Net(s) >= 0
    BY DEF NeverShort
  <2>1. Net(s) = Rests(s) + IF AwaitsStop(s) THEN 1 ELSE 0
    BY DEF PaperInv, Balance, Rests
  <2>2. Rests(s) \in Nat
    BY BookNumbers
  <2> QED
    BY <2>1, <2>2
<1> QED
  BY <1>1, TypeCorrect, PaperAccountsHold, PTL

\* Nothing is left to fill in the paper book once the instrument is IDLE or in
\* COOLDOWN before 15:10: the stop of a settled trade is the sale that settled it.
THEOREM PaperNothingResting == Spec => [](~Live => NothingLeftResting)
<1>1. TypeOK /\ PaperInv => (~Live => NothingLeftResting)
  <2> SUFFICES ASSUME TypeOK, PaperInv, ~Live, faults = 0, ~afterSO,
                      pos.phase \in {"IDLE", "COOLDOWN"}, pc # "saveEntry",
                      NEW o \in Ids, orders[o].status = "OPEN"
               PROVE  FALSE
    BY DEF NothingLeftResting
  <2>1. PICK s \in Symbols : s = SymbolOf[orders[o].trade]
    <3>1. orders[o].trade \in Trades
      BY BookNumbers DEF Order
    <3> QED
      BY <3>1, BookAssumption
  <2>2. o \in Resting(s)
    BY <2>1 DEF Resting, Book
  <2>3. ~AwaitsStop(s) /\ ~Held(s)
    BY DEF AwaitsStop, Held
  <2>4. Rests(s) <= 0
    <3>1. Net(s) = Rests(s) + 0
      BY <2>3 DEF PaperInv, Balance, Rests
    <3>2. Net(s) <= 0
      BY <2>3 DEF PaperInv, Flatness
    <3>3. Net(s) \in Int /\ Rests(s) \in Nat
      BY BookNumbers
    <3> QED
      BY <3>1, <3>2, <3>3
  <2>5. Resting(s) = {}
    <3>1. Resting(s) \in SUBSET Ids
      BY DEF Resting, Book
    <3>2. IsFiniteSet(Resting(s))
      BY <3>1, BookFinite DEF TypeOK
    <3>3. Rests(s) = 0
      BY <2>4, BookNumbers
    <3> QED
      BY <3>2, <3>3, FS_EmptySet DEF Rests
  <2> QED
    BY <2>2, <2>5
<1> QED
  BY <1>1, TypeCorrect, PaperAccountsHold, PTL
=============================================================================
