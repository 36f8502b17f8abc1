-------------------------- MODULE TradingMode_proofs --------------------------
(***************************************************************************)
(* TradingMode for any number of overlapping ticks, any balances and any     *)
(* threshold: the lot multiplier is agreed upon, and neither book departs    *)
(* from the position without a careless switch or a mishap.                 *)
(***************************************************************************)
EXTENDS TradingMode, TLAPS

-----------------------------------------------------------------------------
(* The types, without the numbers that play no part here. *)

Types ==
    /\ override \in Modes \cup {"none"} /\ variable \in Modes /\ past \in BOOLEAN
    /\ multiplier \in 0..2
    /\ pos \in Position /\ entry \in Order /\ stop \in Order /\ exit \in Order
    /\ book \in [Modes -> Int]
    /\ tick \in [Ticks -> Tick]
    /\ careless \in BOOLEAN /\ mishap \in BOOLEAN

\* What each tick knows of the multiplier where it stands: what it stores is
\* never 0, what it rereads or trades has been stored.
Knows(t) ==
    /\ At(t, "store") => tick[t].lots \in 1..2
    /\ At(t, "reread") => multiplier # 0
    /\ tick[t].pc \in {"multiplier", "margins", "store", "reread"} => tick[t].mode = "live"
    /\ tick[t].pc \in Passing \cup {"ready"} =>
          /\ tick[t].lots = Lots(tick[t].mode)
          /\ tick[t].mode = "live" => multiplier # 0

\* What a held position records of it.
SizeAgrees == pos.phase \in Held =>
    /\ pos.qty = Lots(pos.home)
    /\ pos.home = "live" => multiplier # 0

OneTrades == \A s, t \in Ticks : tick[s].pc \in Passing /\ tick[t].pc \in Passing => s = t

\* The position whose fill a tick awaits.
Awaits(t) == tick[t].pc \in {"fill", "placeStop", "saveOpen"} => pos.phase = "ENTERING"

AgreementInv ==
    /\ Types /\ OneTrades
    /\ \A t \in Ticks : Knows(t) /\ Awaits(t)
    /\ SizeAgrees

-----------------------------------------------------------------------------
(* The books. *)

\* Every running tick and every held position go by the mode in force.
OneMode ==
    /\ \A t \in Ticks : ~At(t, "down") => tick[t].mode = Resolved
    /\ pos.phase \in Held => pos.home = Resolved

\* What the three orders leave in book m.
Owed(m) ==
    IF entry.status = "filled" /\ entry.home = m /\ stop.status # "filled"
       /\ exit.status # "filled"
    THEN entry.qty ELSE 0

\* A stop and an exit belong to a filled entry, an exit to one whose stop neither
\* rests nor has filled.
OrdersMatch ==
    /\ entry.status # "cancelled"
    /\ stop.status # "none" =>
          entry.status = "filled" /\ stop.home = entry.home /\ stop.qty = entry.qty
    /\ exit.status # "none" =>
          /\ entry.status = "filled" /\ exit.home = entry.home /\ exit.qty = entry.qty
          /\ stop.status \notin {"open", "filled"}
    /\ \A m \in Modes : book[m] = Owed(m)

\* The orders of the position on record.
PositionMatches ==
    /\ pos.phase \in Held =>
          entry.status # "none" /\ entry.home = pos.home /\ entry.qty = pos.qty
    /\ pos.phase \notin Held /\ (\A t \in Ticks : ~At(t, "saveEntry")) => entry.status = "none"
    /\ pos.hasStop => entry.status = "filled"
    /\ pos.phase # "EXITING" => exit.status = "none"
    /\ pos.phase = "ENTERING" /\ (\A t \in Ticks : ~At(t, "saveOpen")) => stop.status = "none"

\* What a tick has done and read of them where it stands.
Stands(t) ==
    /\ At(t, "enter") => pos.phase = "IDLE"
    /\ At(t, "saveEntry") =>
          /\ pos.phase = "IDLE" /\ stop.status = "none"
          /\ entry.status # "none" /\ entry.home = tick[t].mode /\ entry.qty = tick[t].lots
    /\ tick[t].pc \in {"placeStop", "saveOpen"} => entry.status = "filled"
    /\ tick[t].pc \in {"cancel", "sell", "settle", "cooldown"} => pos.phase = "EXITING"
    /\ tick[t].pc \in {"cancel", "sell"} => exit.status = "none"
    /\ At(t, "sell") => stop.status # "open"
    /\ At(t, "cooldown") =>
          /\ stop.status # "open" /\ exit.status # "open"
          /\ stop.status = "filled" \/ exit.status = "filled"

BooksInv ==
    /\ ~careless => OneMode
    /\ ~careless /\ ~mishap =>
          OrdersMatch /\ PositionMatches /\ \A t \in Ticks : Stands(t)

-----------------------------------------------------------------------------
(* Types, what the ticks know, and the size of the position. *)

Labels == {"down"} \cup Preparing \cup Passing

\* The steps of a pass, by what they are for.
Reads(t)  == ReadStop(t) \/ ReadPositions(t)
Routes(t) == Squareoff(t) \/ Manage(t) \/ Hold(t) \/ Resume(t) \/ CooldownElapses(t)
Enters(t) == SizeEntry(t) \/ PlaceEntry(t) \/ SaveEntry(t) \/ EntryFilled(t)
             \/ EntryWaits(t) \/ PlaceStop(t) \/ SaveOpen(t)
Exits(t)  == CancelStop(t) \/ CancelFails(t) \/ PlaceExit(t) \/ SeesFlat(t) \/ SaveCooldown(t)

LEMMA PassSplits ==
  ASSUME NEW t \in Ticks, Pass(t)
  PROVE  BeginPass(t) \/ NextPass(t) \/ Reads(t) \/ Routes(t) \/ Enters(t) \/ Exits(t)
  BY DEF Pass, Reads, Routes, Enters, Exits

LEMMA InitAgreement == Init => AgreementInv
<1> SUFFICES ASSUME Init PROVE AgreementInv
  OBVIOUS
<1>1. Types
  <2>1. Down \in Tick /\ NoPosition \in Position /\ NoOrder \in Order
    BY DEF Down, Tick, NoPosition, Position, Phases, NoOrder, Order, Modes
  <2>2. tick \in [Ticks -> Tick] /\ book \in [Modes -> Int] /\ multiplier \in 0..2
    BY <2>1 DEF Init
  <2>3. careless \in BOOLEAN /\ mishap \in BOOLEAN /\ past \in BOOLEAN
    BY Zenon DEF Init
  <2>4. override \in Modes \cup {"none"} /\ variable \in Modes
    BY Zenon DEF Init
  <2>5. pos \in Position /\ entry \in Order /\ stop \in Order /\ exit \in Order
    BY <2>1 DEF Init
  <2>6. QED BY <2>2, <2>3, <2>4, <2>5 DEF Types
<1>2. \A t \in Ticks : Knows(t)
  BY DEF Init, Knows, Down, At, Passing
<1>3. SizeAgrees
  BY DEF Init, SizeAgrees, NoPosition, Held
<1>4. OneTrades /\ \A t \in Ticks : Awaits(t)
  BY DEF Init, OneTrades, Awaits, Down, Passing
<1>5. QED BY <1>1, <1>2, <1>3, <1>4 DEF AgreementInv

\* A tick that goes on keeps its type.
LEMMA StepTypes ==
  ASSUME tick \in [Ticks -> Tick], NEW t \in Ticks, NEW label \in Labels
  PROVE  [tick EXCEPT ![t].pc = label] \in [Ticks -> Tick]
<1>1. [tick[t] EXCEPT !.pc = label] \in Tick
  BY DEF Tick, Labels
<1>2. QED BY <1>1

LEMMA GotoTypes ==
  ASSUME tick \in [Ticks -> Tick], NEW t \in Ticks, NEW label \in Labels, NEW lots \in 0..2,
         Goto(t, label, lots)
  PROVE  tick' \in [Ticks -> Tick]
<1>1. [tick[t] EXCEPT !.pc = label, !.lots = lots] \in Tick
  BY DEF Tick, Labels
<1>2. tick' = [tick EXCEPT ![t] = [tick[t] EXCEPT !.pc = label, !.lots = lots]]
  BY DEF Goto
<1>3. QED BY <1>1, <1>2

\* What each kind of step does to the processes.
LEMMA TickStep ==
  ASSUME Types, [Next]_vars
  PROVE  tick' \in [Ticks -> Tick]
<1> USE DEF Types
<1>1. ASSUME NEW t \in Ticks, Preamble(t) PROVE tick' \in [Ticks -> Tick]
  <2>1. CASE StartTick(t)
    <3>1. Resolved \in Modes /\ variable \in Modes
      BY DEF Resolved
    <3>2. \A label \in Labels, lots \in 0..2 :
             [Down EXCEPT !.pc = label, !.mode = Resolved, !.config = variable, !.lots = lots]
               \in Tick
      BY <3>1 DEF Down, Tick, Labels
    <3>3. (IF Resolved = "paper" THEN "ready" ELSE "multiplier") \in Labels
          /\ (IF Resolved = "paper" THEN 1 ELSE 0) \in 0..2
      BY DEF Labels, Preparing
    <3>4. PICK d \in Tick : tick' = [tick EXCEPT ![t] = d]
      BY <2>1, <3>2, <3>3 DEF StartTick
    <3>5. QED BY <3>4
  <2>2. CASE GetMultiplier(t)
    BY <2>2, GotoTypes DEF GetMultiplier, Labels, Preparing
  <2>3. CASE GetMargins(t)
    <3>1. \A funds \in Cash : Decide(funds) \in 0..2
      BY DEF Decide
    <3>2. QED BY <2>3, <3>1, GotoTypes DEF GetMargins, Labels, Preparing
  <2>4. CASE MarginsFail(t)
    BY <2>4 DEF MarginsFail, Down, Tick, Modes
  <2>5. CASE StoreMultiplier(t)
    <3>1. tick[t].lots \in 0..2
      BY DEF Tick
    <3>2. QED BY <2>5, <3>1, GotoTypes DEF StoreMultiplier, Labels, Preparing
  <2>6. CASE RereadMultiplier(t)
    BY <2>6, GotoTypes DEF RereadMultiplier, Labels, Preparing
  <2>7. QED BY <1>1, <2>1, <2>2, <2>3, <2>4, <2>5, <2>6 DEF Preamble
<1>2. ASSUME NEW t \in Ticks, EndTick(t) PROVE tick' \in [Ticks -> Tick]
  BY <1>2 DEF EndTick, Down, Tick, Modes
<1>3. ASSUME NEW t \in Ticks, Pass(t) PROVE tick' \in [Ticks -> Tick]
  <2>1. \A label \in Passing : [tick EXCEPT ![t].pc = label] \in [Ticks -> Tick]
    BY StepTypes DEF Labels
  <2>2. CASE BeginPass(t)
    <3>1. AfterLoad \in Passing
      BY DEF AfterLoad, Passing
    <3>2. [tick[t] EXCEPT !.pc = AfterLoad, !.past = past] \in Tick
      BY <3>1 DEF Tick
    <3>3. tick' = [tick EXCEPT ![t] = [tick[t] EXCEPT !.pc = AfterLoad, !.past = past]]
      BY <2>2 DEF BeginPass
    <3>4. QED BY <3>2, <3>3
  <2>3. CASE NextPass(t)
    BY <2>1, <2>3 DEF NextPass, Step, Passing
  <2>4. CASE Reads(t)
    <3>1. CASE tick' = [tick EXCEPT ![t].pc = "route"]
      BY <2>1, <3>1 DEF Passing
    <3>2. CASE \E label \in Passing, seen \in BOOLEAN :
                  tick' = [tick EXCEPT ![t].pc = label, ![t].seen = seen]
      <4>1. PICK label \in Passing, seen \in BOOLEAN :
              tick' = [tick EXCEPT ![t].pc = label, ![t].seen = seen]
        BY <3>2
      <4>2. [tick[t] EXCEPT !.pc = label, !.seen = seen] \in Tick
        BY DEF Tick
      <4>3. tick' = [tick EXCEPT ![t] = [tick[t] EXCEPT !.pc = label, !.seen = seen]]
        BY <4>1
      <4>4. QED BY <4>2, <4>3
    <3>3. ReadStop(t) => \/ tick' = [tick EXCEPT ![t].pc = "route"]
                         \/ \E seen \in BOOLEAN :
                              tick' = [tick EXCEPT ![t].pc = "positions", ![t].seen = seen]
      BY Zenon DEF ReadStop, Step, SeesStopFilled
    <3>4. ReadPositions(t) => tick' = [tick EXCEPT ![t].pc = "route", ![t].seen = FALSE]
      BY DEF ReadPositions
    <3>5. "route" \in Passing /\ "positions" \in Passing /\ FALSE \in BOOLEAN
      BY DEF Passing
    <3>6. QED BY <2>4, <3>1, <3>2, <3>3, <3>4, <3>5 DEF Reads
  <2>5. CASE Routes(t)
    BY <2>1, <2>5 DEF Routes, Squareoff, Manage, Hold, Resume, CooldownElapses, BeginExit,
       Step, Passing
  <2>6. CASE Enters(t)
    BY <2>1, <2>6 DEF Enters, SizeEntry, PlaceEntry, SaveEntry, EntryFilled, EntryWaits,
       PlaceStop, SaveOpen, Step, Passing
  <2>7. CASE Exits(t)
    BY <2>1, <2>7 DEF Exits, CancelStop, CancelFails, PlaceExit, SeesFlat, SaveCooldown,
       Step, Passing
  <2>8. QED BY <1>3, <2>2, <2>3, <2>4, <2>5, <2>6, <2>7, PassSplits
<1>4. CASE World
  BY <1>4 DEF World, ExchangeFills, SquareoffTime, ChangeMode
<1>5. CASE UNCHANGED vars
  BY <1>5 DEF vars
<1>6. QED BY <1>1, <1>2, <1>3, <1>4, <1>5 DEF Next

\* A stop that fills keeps what it says otherwise; its book moves.
LEMMA StopFillTypes ==
  ASSUME Types, StopFills \/ UNCHANGED <<stop, book>>
  PROVE  stop' \in Order /\ book' \in [Modes -> Int]
<1>1. CASE StopFills
  <2>1. stop' \in Order
    BY <1>1 DEF StopFills, Types, Order
  <2>2. stop.home \in Modes /\ stop.qty \in 0..2 /\ book \in [Modes -> Int]
    BY DEF Types, Order
  <2>3. book[stop.home] + (-stop.qty) \in Int
    BY <2>2
  <2>4. book' \in [Modes -> Int]
    BY <1>1, <2>2, <2>3 DEF StopFills, Fills
  <2>5. QED BY <2>1, <2>4
<1>2. QED BY <1>1 DEF Types

\* An entry or an exit that fills moves its book.
LEMMA FillTypes ==
  ASSUME book \in [Modes -> Int], NEW o \in Order, NEW n \in Int, Fills(o, n)
  PROVE  book' \in [Modes -> Int]
<1>1. o.home \in Modes
  BY DEF Order
<1>2. book[o.home] + n \in Int
  BY <1>1
<1>3. QED BY <1>1, <1>2 DEF Fills

LEMMA PassTypes ==
  ASSUME Types, NEW t \in Ticks, Pass(t)
  PROVE  /\ UNCHANGED <<override, variable, past, careless, multiplier>>
         /\ pos' \in Position /\ mishap' \in BOOLEAN
         /\ entry' \in Order /\ stop' \in Order /\ exit' \in Order
         /\ book' \in [Modes -> Int]
<1>1. tick[t].mode \in Modes /\ tick[t].lots \in 0..2 /\ pos.qty \in 0..2
  BY DEF Types, Tick, Position
<1>2. \A status \in {"open", "filled"}, qty \in 0..2 : Sent(t, status, qty) \in Order
  BY <1>1 DEF Sent, Order
<1>3. CASE BeginPass(t) \/ NextPass(t)
  <2>1. stop' \in Order /\ book' \in [Modes -> Int]
    BY <1>3, StopFillTypes DEF BeginPass, NextPass, PaperTick
  <2>2. UNCHANGED <<settings, multiplier, pos, entry, exit, mishap>>
    BY <1>3 DEF BeginPass, NextPass
  <2>3. QED BY <2>1, <2>2 DEF settings, Types
<1>4. CASE Reads(t)
  <2>1. pos' \in Position
    BY <1>4 DEF Reads, ReadStop, ReadPositions, Types, Position, trade
  <2>2. UNCHANGED <<settings, multiplier, orders, mishap>>
    BY <1>4 DEF Reads, ReadStop, ReadPositions, trade
  <2>3. QED BY <2>1, <2>2 DEF settings, orders, Types
<1>5. CASE Routes(t)
  <2>1. NoPosition \in Position /\ [pos EXCEPT !.phase = "EXITING"] \in Position
    BY DEF NoPosition, Position, Phases, Held, Modes, Types
  <2>2. pos' \in Position
    BY <1>5, <2>1 DEF Routes, Squareoff, Manage, Hold, Resume, CooldownElapses, BeginExit,
       Types, trade
  <2>3. UNCHANGED <<settings, multiplier, orders, mishap>>
    BY <1>5 DEF Routes, Squareoff, Manage, Hold, Resume, CooldownElapses, BeginExit, trade
  <2>4. QED BY <2>2, <2>3 DEF settings, orders, Types
<1>6. CASE Enters(t)
  <2>1. CASE PlaceEntry(t)
    <3>1. NoOrder \in Order
      BY DEF NoOrder, Order, Modes
    <3>2. entry' \in Order /\ stop' \in Order /\ exit' \in Order
      BY <1>1, <1>2, <2>1, <3>1 DEF PlaceEntry
    <3>3. tick[t].mode = "paper" => book' \in [Modes -> Int]
      <4>1. Sent(t, "filled", tick[t].lots) \in Order /\ tick[t].lots \in Int
        BY <1>1, <1>2
      <4>2. tick[t].mode = "paper" => Fills(Sent(t, "filled", tick[t].lots), tick[t].lots)
        BY <2>1 DEF PlaceEntry, Fills
      <4>3. QED BY <4>1, <4>2, FillTypes DEF Types
    <3>4. QED BY <2>1, <3>2, <3>3 DEF PlaceEntry, settings, Types
  <2>2. CASE SaveEntry(t)
    <3>1. pos' \in Position
      BY <1>1, <2>2 DEF SaveEntry, NoPosition, Position, Phases, Held, Modes
    <3>2. QED BY <2>2, <3>1 DEF SaveEntry, settings, orders, Types
  <2>3. CASE PlaceStop(t)
    BY <1>1, <1>2, <2>3 DEF PlaceStop, settings, Types
  <2>4. CASE SaveOpen(t)
    <3>1. pos' \in Position
      BY <2>4 DEF SaveOpen, Types, Position, Phases, Held
    <3>2. QED BY <2>4, <3>1 DEF SaveOpen, settings, orders, Types
  <2>5. CASE SizeEntry(t) \/ EntryFilled(t) \/ EntryWaits(t)
    BY <2>5 DEF SizeEntry, EntryFilled, EntryWaits, settings, trade, orders, Types
  <2>6. QED BY <1>6, <2>1, <2>2, <2>3, <2>4, <2>5 DEF Enters
<1>7. CASE Exits(t)
  <2>1. CASE CancelStop(t)
    <3>1. stop' \in Order
      BY <2>1 DEF CancelStop, Types, Order
    <3>2. QED BY <2>1, <3>1 DEF CancelStop, settings, Types
  <2>2. CASE CancelFails(t)
    BY <2>2 DEF CancelFails, settings, orders, Types
  <2>3. CASE PlaceExit(t)
    <3>1. exit' \in Order
      BY <1>1, <1>2, <2>3 DEF PlaceExit
    <3>2. tick[t].mode = "paper" => book' \in [Modes -> Int]
      <4>1. Sent(t, "filled", pos.qty) \in Order /\ -pos.qty \in Int
        BY <1>1, <1>2
      <4>2. tick[t].mode = "paper" => Fills(Sent(t, "filled", pos.qty), -pos.qty)
        BY <2>3 DEF PlaceExit, Fills
      <4>3. QED BY <4>1, <4>2, FillTypes DEF Types
    <3>3. mishap' \in BOOLEAN
      <4>1. mishap' = (mishap \/ ~StillHeld)
        BY <2>3 DEF PlaceExit
      <4>2. QED BY <4>1, Zenon DEF Types
    <3>4. UNCHANGED <<settings, multiplier, pos, entry, stop>>
      BY <2>3 DEF PlaceExit
    <3>5. book' \in [Modes -> Int]
      BY <2>3, <3>2 DEF PlaceExit, Types
    <3>6. QED BY <3>1, <3>3, <3>4, <3>5 DEF settings, Types
  <2>4. CASE SeesFlat(t)
    BY <2>4 DEF SeesFlat, settings, trade, orders, Types
  <2>5. CASE SaveCooldown(t)
    <3>1. [NoPosition EXCEPT !.phase = "COOLDOWN"] \in Position /\ NoOrder \in Order
      <4>1. NoOrder \in Order
        BY DEF NoOrder, Order, Modes
      <4>2. NoPosition \in Position /\ "COOLDOWN" \in Phases
        BY DEF NoPosition, Position, Phases, Modes
      <4>3. QED BY <4>1, <4>2 DEF Position
    <3>2. pos' \in Position
      BY <2>5, <3>1 DEF SaveCooldown
    <3>3. entry' \in Order /\ stop' \in Order /\ exit' \in Order
      BY <2>5, <3>1 DEF SaveCooldown, Forget, Types
    <3>4. QED BY <2>5, <3>2, <3>3 DEF SaveCooldown, settings, Types
  <2>6. QED BY <1>7, <2>1, <2>2, <2>3, <2>4, <2>5 DEF Exits
<1>8. QED BY <1>3, <1>4, <1>5, <1>6, <1>7, PassSplits

\* The preamble and the end of a tick leave the trade alone, but for the mishap.
LEMMA PreambleFrame ==
  ASSUME NEW t \in Ticks, Preamble(t)
  PROVE  UNCHANGED <<settings, trade>>
  BY DEF Preamble, StartTick, GetMultiplier, GetMargins, MarginsFail, StoreMultiplier,
         RereadMultiplier, settings, trade

LEMMA TypesStep == Types /\ [Next]_vars => Types'
<1> SUFFICES ASSUME Types, [Next]_vars PROVE Types'
  OBVIOUS
<1>1. tick' \in [Ticks -> Tick]
  BY TickStep
<1>2. ASSUME NEW t \in Ticks, Preamble(t) PROVE Types'
  <2>1. multiplier' \in 0..2
    BY <1>2 DEF Preamble, StartTick, GetMultiplier, GetMargins, MarginsFail, StoreMultiplier,
       RereadMultiplier, Types, Tick
  <2>2. QED BY <1>1, <1>2, <2>1, PreambleFrame DEF settings, trade, orders, Types
<1>3. ASSUME NEW t \in Ticks, EndTick(t) PROVE Types'
  <2>1. mishap' \in BOOLEAN
    <3>1. mishap' = (mishap \/ At(t, "saveEntry") \/ At(t, "saveOpen"))
      BY <1>3 DEF EndTick
    <3>2. QED BY <3>1, Zenon DEF Types
  <2>2. QED BY <1>1, <1>3, <2>1 DEF EndTick, settings, orders, Types
<1>4. ASSUME NEW t \in Ticks, Pass(t) PROVE Types'
  BY <1>1, <1>4, PassTypes DEF Types
<1>5. CASE ExchangeFills
  <2>1. CASE UNCHANGED <<entry, exit>> /\ StopFills
    BY <1>1, <1>5, <2>1, StopFillTypes DEF ExchangeFills, settings, Types
  <2>2. CASE /\ entry' = [entry EXCEPT !.status = "filled"]
             /\ Fills(entry, entry.qty) /\ UNCHANGED <<stop, exit>>
    <3>1. entry' \in Order /\ entry.qty \in Int
      BY <2>2 DEF Types, Order
    <3>2. book' \in [Modes -> Int]
      BY <2>2, <3>1, FillTypes DEF Types
    <3>3. QED BY <1>1, <1>5, <2>2, <3>1, <3>2 DEF ExchangeFills, settings, Types
  <2>3. CASE /\ exit' = [exit EXCEPT !.status = "filled"]
             /\ Fills(exit, -exit.qty) /\ UNCHANGED <<entry, stop>>
    <3>1. exit' \in Order /\ -exit.qty \in Int
      BY <2>3 DEF Types, Order
    <3>2. book' \in [Modes -> Int]
      BY <2>3, <3>1, FillTypes DEF Types
    <3>3. QED BY <1>1, <1>5, <2>3, <3>1, <3>2 DEF ExchangeFills, settings, Types
  <2>4. QED BY <1>5, <2>1, <2>2, <2>3 DEF ExchangeFills
<1>6. CASE SquareoffTime
  BY <1>6 DEF SquareoffTime, trade, orders, Types
<1>7. CASE ChangeMode
  <2>1. careless' \in BOOLEAN
    <3>1. careless' = (careless \/ (~Quiet /\ Resolved' # Resolved))
      BY <1>7 DEF ChangeMode
    <3>2. QED BY <3>1, Zenon DEF Types
  <2>2. override' \in Modes \cup {"none"} /\ variable' \in Modes
    BY <1>7 DEF ChangeMode, Types
  <2>3. QED BY <1>1, <1>7, <2>1, <2>2 DEF ChangeMode, trade, orders, Types
<1>8. CASE UNCHANGED vars
  BY <1>1, <1>8 DEF vars, settings, trade, orders, Types
<1>9. QED BY <1>2, <1>3, <1>4, <1>5, <1>6, <1>7, <1>8 DEF Next, World

\* Only StoreMultiplier changes the multiplier, and only from 0.
LEMMA MultiplierStep ==
  ASSUME Types, [Next]_vars, multiplier # 0
  PROVE  multiplier' = multiplier
<1>1. ASSUME NEW t \in Ticks, Preamble(t) PROVE multiplier' = multiplier
  BY <1>1 DEF Preamble, StartTick, GetMultiplier, GetMargins, MarginsFail, StoreMultiplier,
     RereadMultiplier
<1>2. ASSUME NEW t \in Ticks, Pass(t) PROVE multiplier' = multiplier
  BY <1>2, PassTypes
<1>3. ASSUME NEW t \in Ticks, EndTick(t) PROVE multiplier' = multiplier
  BY <1>3 DEF EndTick
<1>4. CASE World
  BY <1>4 DEF World, ExchangeFills, SquareoffTime, ChangeMode
<1>5. QED BY <1>1, <1>2, <1>3, <1>4 DEF Next, vars

\* A pass of t moves t on, within the pass, and leaves its mode and its lots.
Moves(t) ==
    /\ tick'[t].pc \in Passing
    /\ tick'[t].mode = tick[t].mode /\ tick'[t].lots = tick[t].lots
    /\ \A s \in Ticks : s # t => tick'[s] = tick[s]

LEMMA StepMoves ==
  ASSUME tick \in [Ticks -> Tick], NEW t \in Ticks, NEW label \in Passing,
         tick' = [tick EXCEPT ![t].pc = label]
  PROVE  Moves(t)
  BY DEF Moves, Tick

LEMMA PassMoves ==
  ASSUME Types, NEW t \in Ticks, Pass(t)
  PROVE  tick[t].pc \in Passing \cup {"ready"} /\ Moves(t)
<1>0. tick \in [Ticks -> Tick]
  BY DEF Types
<1>1. CASE BeginPass(t)
  <2>1. AfterLoad \in Passing
    BY DEF AfterLoad, Passing
  <2>2. tick' = [tick EXCEPT ![t].pc = AfterLoad, ![t].past = past] /\ tick[t].pc = "ready"
    BY <1>1 DEF BeginPass, At
  <2>3. QED BY <1>0, <2>1, <2>2 DEF Moves, Tick
<1>2. CASE NextPass(t)
  BY <1>0, <1>2, StepMoves DEF NextPass, At, Step, Passing
<1>3. CASE Reads(t)
  <2>1. tick[t].pc \in {"stop", "positions"}
    BY <1>3 DEF Reads, ReadStop, ReadPositions, At, Step
  <2>2. CASE tick' = [tick EXCEPT ![t].pc = "route"]
    BY <1>0, <2>1, <2>2, StepMoves DEF Passing
  <2>3. ASSUME NEW label \in {"route", "positions"}, NEW seen,
               tick' = [tick EXCEPT ![t].pc = label, ![t].seen = seen]
        PROVE  tick[t].pc \in Passing \cup {"ready"} /\ Moves(t)
    BY <1>0, <2>1, <2>3 DEF Moves, Passing, Tick
  <2>4. QED BY <1>3, <2>2, <2>3 DEF Reads, ReadStop, ReadPositions, Step
<1>4. CASE Routes(t)
  <2>1. tick[t].pc = "route"
    BY <1>4 DEF Routes, Squareoff, Manage, Hold, Resume, CooldownElapses, Routed, At, Step
  <2>2. \E label \in Passing : tick' = [tick EXCEPT ![t].pc = label]
    BY <1>4 DEF Routes, Squareoff, Manage, Hold, Resume, CooldownElapses, BeginExit, Step, Passing
  <2>3. QED BY <1>0, <2>1, <2>2, StepMoves DEF Passing
<1>5. CASE Enters(t)
  <2>1. tick[t].pc \in {"route", "enter", "saveEntry", "fill", "placeStop", "saveOpen"}
    BY <1>5 DEF Enters, SizeEntry, PlaceEntry, SaveEntry, EntryFilled, EntryWaits, PlaceStop,
       SaveOpen, At, Step
  <2>2. \E label \in Passing : tick' = [tick EXCEPT ![t].pc = label]
    BY <1>5 DEF Enters, SizeEntry, PlaceEntry, SaveEntry, EntryFilled, EntryWaits, PlaceStop,
       SaveOpen, Step, Passing
  <2>3. QED BY <1>0, <2>1, <2>2, StepMoves DEF Passing
<1>6. CASE Exits(t)
  <2>1. tick[t].pc \in {"cancel", "sell", "settle", "cooldown"}
    BY <1>6 DEF Exits, CancelStop, CancelFails, PlaceExit, SeesFlat, SaveCooldown, At, Step
  <2>2. \E label \in Passing : tick' = [tick EXCEPT ![t].pc = label]
    BY <1>6 DEF Exits, CancelStop, CancelFails, PlaceExit, SeesFlat, SaveCooldown, Step, Passing
  <2>3. QED BY <1>0, <2>1, <2>2, StepMoves DEF Passing
<1>7. QED BY <1>1, <1>2, <1>3, <1>4, <1>5, <1>6, PassSplits

\* The other ticks stay where they are in a preamble too.
LEMMA OthersStay ==
  ASSUME Types, NEW t \in Ticks, Preamble(t) \/ EndTick(t), NEW s \in Ticks, s # t
  PROVE  tick'[s] = tick[s]
  BY DEF Types, Preamble, StartTick, GetMultiplier, GetMargins, MarginsFail, StoreMultiplier,
         RereadMultiplier, EndTick, Goto

\* And nobody begins to trade in one.
LEMMA PreambleLabel ==
  ASSUME Types, NEW t \in Ticks, Preamble(t) \/ EndTick(t)
  PROVE  tick'[t].pc \in {"down"} \cup Preparing
<1> USE DEF Types, Tick, Preparing
<1>1. CASE StartTick(t)
  <2>1. tick'[t].pc = IF Resolved = "paper" THEN "ready" ELSE "multiplier"
    BY <1>1 DEF StartTick, Down
  <2>2. QED BY <2>1
<1>2. CASE GetMultiplier(t) \/ GetMargins(t)
  BY <1>2 DEF GetMultiplier, GetMargins, Goto
<1>3. CASE StoreMultiplier(t) \/ RereadMultiplier(t)
  BY <1>3 DEF StoreMultiplier, RereadMultiplier, Goto
<1>4. CASE MarginsFail(t) \/ EndTick(t)
  BY <1>4 DEF MarginsFail, EndTick, Down
<1>5. QED BY <1>1, <1>2, <1>3, <1>4 DEF Preamble

\* A tick that does not move, or moves within its pass, keeps what it knows.
LEMMA KnowsKept ==
  ASSUME AgreementInv, [Next]_vars, NEW t \in Ticks,
         \/ tick'[t] = tick[t]
         \/ /\ tick[t].pc \in Passing \cup {"ready"} /\ tick'[t].pc \in Passing
            /\ tick'[t].mode = tick[t].mode /\ tick'[t].lots = tick[t].lots
  PROVE  Knows(t)'
<1> USE DEF At, Passing
<1>1. Knows(t) /\ Types'
  BY TypesStep DEF AgreementInv
<1>2. CASE multiplier # 0
  BY <1>1, <1>2, MultiplierStep DEF AgreementInv, Knows, Lots
<1>3. CASE multiplier = 0
  BY <1>1, <1>3 DEF Knows, Lots, Types, AgreementInv, Modes
<1>4. QED BY <1>2, <1>3

\* A tick that moves within its preamble knows what it has to.
LEMMA KnowsMoved ==
  ASSUME AgreementInv, NEW t \in Ticks, Preamble(t) \/ EndTick(t), Types'
  PROVE  Knows(t)'
<1> USE DEF AgreementInv, Types, Knows, Lots, Modes, At, Passing
<1>1. CASE StartTick(t)
  <2>1. /\ tick'[t].pc = IF Resolved = "paper" THEN "ready" ELSE "multiplier"
        /\ tick'[t].mode = Resolved
        /\ tick'[t].lots = IF Resolved = "paper" THEN 1 ELSE 0
    BY <1>1 DEF StartTick, Down
  <2>2. Resolved \in Modes
    BY DEF Resolved
  <2>3. QED BY <2>1, <2>2
<1>2. CASE GetMultiplier(t)
  BY <1>2 DEF GetMultiplier, Goto
<1>3. CASE GetMargins(t)
  <2>1. \A funds \in Cash : Decide(funds) \in 1..2
    BY DEF Decide
  <2>2. QED BY <1>3, <2>1 DEF GetMargins, Goto
<1>4. CASE MarginsFail(t)
  BY <1>4 DEF MarginsFail, Down
<1>5. CASE StoreMultiplier(t)
  BY <1>5 DEF StoreMultiplier, Goto
<1>6. CASE RereadMultiplier(t)
  BY <1>6 DEF RereadMultiplier, Goto
<1>7. CASE EndTick(t)
  BY <1>7 DEF EndTick, Down
<1>8. QED BY <1>1, <1>2, <1>3, <1>4, <1>5, <1>6, <1>7 DEF Preamble

LEMMA KnowsStep ==
  ASSUME AgreementInv, [Next]_vars, NEW t \in Ticks
  PROVE  Knows(t)'
<1>1. Types /\ Types'
  BY TypesStep DEF AgreementInv
<1>2. ASSUME NEW s \in Ticks, Preamble(s) \/ EndTick(s) PROVE Knows(t)'
  <2>1. CASE s = t
    BY <1>1, <1>2, <2>1, KnowsMoved
  <2>2. CASE s # t
    BY <1>1, <1>2, <2>2, OthersStay, KnowsKept
  <2>3. QED BY <2>1, <2>2
<1>3. ASSUME NEW s \in Ticks, Pass(s) PROVE Knows(t)'
  BY <1>1, <1>3, PassMoves, KnowsKept DEF Moves
<1>4. CASE World
  <2>1. tick' = tick
    BY <1>4 DEF World, ExchangeFills, SquareoffTime, ChangeMode
  <2>2. QED BY <2>1, KnowsKept
<1>5. CASE UNCHANGED vars
  BY <1>5, KnowsKept DEF vars
<1>6. QED BY <1>2, <1>3, <1>4, <1>5 DEF Next

\* One tick passes, and no tick starts or begins its pass meanwhile.
LEMMA OneTradesStep == AgreementInv /\ [Next]_vars => OneTrades'
<1> SUFFICES ASSUME AgreementInv, [Next]_vars PROVE OneTrades'
  OBVIOUS
<1>1. Types /\ OneTrades
  BY DEF AgreementInv
<1>2. CASE \A s \in Ticks : tick'[s].pc \in Passing => tick[s].pc \in Passing
  BY <1>1, <1>2 DEF OneTrades
<1>3. ASSUME NEW t \in Ticks, Preamble(t) \/ EndTick(t) PROVE OneTrades'
  <2>1. tick'[t].pc \notin Passing
    BY <1>1, <1>3, PreambleLabel DEF Passing, Preparing
  <2>2. QED BY <1>1, <1>2, <1>3, <2>1, OthersStay
<1>4. ASSUME NEW t \in Ticks, Pass(t) PROVE OneTrades'
  <2>1. tick[t].pc \in Passing \cup {"ready"} /\ Moves(t)
    BY <1>1, <1>4, PassMoves
  <2>2. CASE tick[t].pc \in Passing
    BY <1>2, <2>1, <2>2 DEF Moves
  <2>3. CASE tick[t].pc = "ready"
    <3>1. NoneTrades
      BY <1>4, <2>3 DEF Pass, BeginPass, NextPass, ReadStop, ReadPositions, Squareoff, Manage,
         Hold, Resume, CooldownElapses, SizeEntry, PlaceEntry, SaveEntry, EntryFilled,
         EntryWaits, PlaceStop, SaveOpen, CancelStop, CancelFails, PlaceExit, SeesFlat,
         SaveCooldown, Routed, At, Step
    <3>2. QED BY <2>1, <3>1 DEF NoneTrades, Moves, OneTrades
  <2>4. QED BY <2>1, <2>2, <2>3
<1>5. CASE World \/ UNCHANGED vars
  <2>1. tick' = tick
    BY <1>5 DEF World, ExchangeFills, SquareoffTime, ChangeMode, vars
  <2>2. QED BY <1>2, <2>1
<1>6. QED BY <1>3, <1>4, <1>5 DEF Next

LEMMA AwaitsStep ==
  ASSUME AgreementInv, [Next]_vars, NEW t \in Ticks
  PROVE  Awaits(t)'
<1>1. Types /\ OneTrades /\ Awaits(t)
  BY DEF AgreementInv
<1>2. CASE pos' = pos /\ tick'[t].pc = tick[t].pc
  BY <1>1, <1>2 DEF Awaits
<1>3. ASSUME NEW s \in Ticks, Preamble(s) \/ EndTick(s) PROVE Awaits(t)'
  <2>1. pos' = pos
    BY <1>3, PreambleFrame DEF trade, EndTick
  <2>2. CASE s = t
    BY <1>1, <1>3, <2>2, PreambleLabel DEF Awaits, Preparing
  <2>3. QED BY <1>1, <1>2, <1>3, <2>1, <2>2, OthersStay
<1>4. ASSUME NEW s \in Ticks, Pass(s) PROVE Awaits(t)'
  <2>1. CASE s # t
    <3>1. tick'[t] = tick[t] /\ tick'[s].pc \in Passing
      BY <1>1, <1>4, <2>1, PassMoves DEF Moves
    <3>2. tick[t].pc \notin Passing
      BY <2>1, <3>1, OneTradesStep DEF OneTrades
    <3>3. QED BY <3>1, <3>2 DEF Awaits, Passing
  <2>2. CASE s = t
    <3> USE DEF Types, Tick, Awaits, At, Step
    <3>1. CASE BeginPass(t) \/ NextPass(t)
      BY <1>1, <3>1 DEF BeginPass, NextPass, AfterLoad
    <3>2. CASE Reads(t)
      BY <1>1, <3>2 DEF Reads, ReadStop, ReadPositions
    <3>3. CASE Routes(t)
      BY <1>1, <3>3 DEF Routes, Squareoff, Manage, Hold, Resume, CooldownElapses, BeginExit,
         Routed, trade
    <3>4. CASE SaveEntry(t)
      BY <1>1, <3>4 DEF SaveEntry, NoPosition
    <3>5. CASE Enters(t) /\ ~SaveEntry(t)
      BY <1>1, <3>5 DEF Enters, SizeEntry, PlaceEntry, EntryFilled, EntryWaits, PlaceStop,
         SaveOpen, trade
    <3>6. CASE Exits(t)
      BY <1>1, <3>6 DEF Exits, CancelStop, CancelFails, PlaceExit, SeesFlat, SaveCooldown
    <3>7. QED BY <1>4, <2>2, <3>1, <3>2, <3>3, <3>4, <3>5, <3>6, PassSplits
  <2>3. QED BY <2>1, <2>2
<1>5. CASE World \/ UNCHANGED vars
  BY <1>2, <1>5 DEF World, ExchangeFills, SquareoffTime, ChangeMode, vars, trade
<1>6. QED BY <1>3, <1>4, <1>5 DEF Next

LEMMA SizeStep == AgreementInv /\ [Next]_vars => SizeAgrees'
<1> SUFFICES ASSUME AgreementInv, [Next]_vars PROVE SizeAgrees'
  OBVIOUS
<1>1. Types /\ SizeAgrees
  BY DEF AgreementInv
<1>2. CASE /\ pos'.phase \in Held => pos.phase \in Held
           /\ pos.phase \in Held /\ pos'.phase \in Held => pos'.home = pos.home /\ pos'.qty = pos.qty
  BY <1>1, <1>2, MultiplierStep DEF SizeAgrees, Lots
<1>3. ASSUME NEW t \in Ticks, Preamble(t) PROVE SizeAgrees'
  BY <1>2, <1>3, PreambleFrame DEF trade
<1>4. ASSUME NEW t \in Ticks, EndTick(t) PROVE SizeAgrees'
  BY <1>2, <1>4 DEF EndTick
<1>5. ASSUME NEW t \in Ticks, Pass(t) PROVE SizeAgrees'
  <2>1. CASE SaveEntry(t)
    <3>1. Knows(t) /\ At(t, "saveEntry") /\ multiplier' = multiplier
      BY <1>5, <2>1, PassTypes DEF AgreementInv, SaveEntry, Step
    <3>2. pos'.home = tick[t].mode /\ pos'.qty = tick[t].lots
      BY <2>1 DEF SaveEntry, NoPosition
    <3>3. QED BY <3>1, <3>2 DEF SizeAgrees, Knows, Lots, At, Passing
  <2>2. CASE BeginPass(t) \/ NextPass(t)
    BY <1>2, <2>2 DEF BeginPass, NextPass
  <2>3. CASE Reads(t)
    BY <1>1, <1>2, <2>3 DEF Reads, ReadStop, ReadPositions, trade, Types, Position
  <2>4. CASE Routes(t)
    BY <1>1, <1>2, <2>4 DEF Routes, Squareoff, Manage, Hold, Resume, CooldownElapses, BeginExit,
       Routed, NoPosition, trade, Types, Position, Held
  <2>5. CASE SizeEntry(t) \/ PlaceEntry(t) \/ EntryFilled(t) \/ EntryWaits(t) \/ PlaceStop(t)
    BY <1>2, <2>5 DEF SizeEntry, PlaceEntry, EntryFilled, EntryWaits, PlaceStop, trade
  <2>6. CASE SaveOpen(t)
    <3>1. pos.phase \in Held
      BY <1>5, <2>6 DEF SaveOpen, Step, At, AgreementInv, Awaits, Held
    <3>2. QED BY <1>1, <1>2, <2>6, <3>1 DEF SaveOpen, Types, Position
  <2>7. CASE Exits(t)
    BY <1>1, <1>2, <2>7 DEF Exits, CancelStop, CancelFails, PlaceExit, SeesFlat, SaveCooldown,
       NoPosition, trade, Held
  <2>8. QED BY <1>5, <2>1, <2>2, <2>3, <2>4, <2>5, <2>6, <2>7, PassSplits DEF Enters
<1>6. CASE World
  BY <1>2, <1>6 DEF World, ExchangeFills, SquareoffTime, ChangeMode, trade
<1>7. CASE UNCHANGED vars
  BY <1>2, <1>7 DEF vars, trade
<1>8. QED BY <1>3, <1>4, <1>5, <1>6, <1>7 DEF Next

LEMMA AgreementStep == AgreementInv /\ [Next]_vars => AgreementInv'
  BY TypesStep, OneTradesStep, KnowsStep, AwaitsStep, SizeStep DEF AgreementInv

LEMMA AgreementHolds == Spec => []AgreementInv
  BY InitAgreement, AgreementStep, PTL DEF Spec

\* Ticks that race for the day's multiplier all trade the same number of lots,
\* and every position held was sized with it; paper mode trades one lot.
THEOREM OneMultiplierADay == Spec => []MultiplierAgrees
<1>1. AgreementInv => MultiplierAgrees
  BY DEF AgreementInv, Knows, SizeAgrees, MultiplierAgrees
<1>2. QED BY <1>1, AgreementHolds, PTL

-----------------------------------------------------------------------------
(* The bound on the books. *)

Bounded == book \in [Modes -> -MaxNet..MaxNet]

LEMMA FillsBounded ==
  ASSUME Bounded, NEW o, o.home \in Modes, NEW n, Fills(o, n)
  PROVE  Bounded'
  BY DEF Bounded, Fills

LEMMA StopFillBounded ==
  ASSUME Types, Bounded, StopFills \/ UNCHANGED <<stop, book>>
  PROVE  Bounded'
<1>1. stop.home \in Modes
  BY DEF Types, Order
<1>2. QED BY <1>1, FillsBounded DEF StopFills, Bounded

LEMMA BoundedStep == Types /\ Bounded /\ [Next]_vars => Bounded'
<1> SUFFICES ASSUME Types, Bounded, [Next]_vars PROVE Bounded'
  OBVIOUS
<1>1. CASE book' = book
  BY <1>1 DEF Bounded
<1>2. ASSUME NEW t \in Ticks, Preamble(t) \/ EndTick(t) PROVE Bounded'
  BY <1>1, <1>2, PreambleFrame DEF EndTick, trade, orders
<1>3. ASSUME NEW t \in Ticks, Pass(t) PROVE Bounded'
  <2>1. \A status, qty : Sent(t, status, qty).home \in Modes
    BY DEF Sent, Types, Tick
  <2>2. CASE BeginPass(t) \/ NextPass(t)
    BY <2>2, StopFillBounded DEF BeginPass, NextPass, PaperTick
  <2>3. CASE PlaceEntry(t)
    BY <1>1, <2>1, <2>3, FillsBounded DEF PlaceEntry, Fills, Sent
  <2>4. CASE PlaceExit(t)
    BY <1>1, <2>1, <2>4, FillsBounded DEF PlaceExit, Fills, Sent
  <2>5. CASE Reads(t) \/ Routes(t)
    BY <1>1, <2>5 DEF Reads, ReadStop, ReadPositions, Routes, Squareoff, Manage, Hold, Resume,
       CooldownElapses, BeginExit, trade, orders
  <2>6. CASE Enters(t) /\ ~PlaceEntry(t)
    BY <1>1, <2>6 DEF Enters, SizeEntry, SaveEntry, EntryFilled, EntryWaits, PlaceStop,
       SaveOpen, trade, orders
  <2>7. CASE Exits(t) /\ ~PlaceExit(t)
    BY <1>1, <2>7 DEF Exits, CancelStop, CancelFails, SeesFlat, SaveCooldown, trade, orders
  <2>8. QED BY <1>3, <2>2, <2>3, <2>4, <2>5, <2>6, <2>7, PassSplits
<1>4. CASE ExchangeFills
  <2>1. entry.home \in Modes /\ exit.home \in Modes
    BY DEF Types, Order
  <2>2. QED BY <1>4, <2>1, FillsBounded, StopFillBounded DEF ExchangeFills
<1>5. CASE SquareoffTime \/ ChangeMode \/ UNCHANGED vars
  BY <1>1, <1>5 DEF SquareoffTime, ChangeMode, vars, trade, orders
<1>6. QED BY <1>2, <1>3, <1>4, <1>5 DEF Next, World

\* The type invariant: no tick passes before it knows how many lots it may trade.
THEOREM TypeCorrect == Spec => []TypeOK
<1>1. Init => Bounded
  BY ModeAssumption DEF Init, Bounded
<1>2. AgreementInv /\ Bounded => TypeOK
  <2> SUFFICES ASSUME AgreementInv, Bounded PROVE TypeOK
    OBVIOUS
  <2>1. \A t \in Ticks : tick[t].pc \in Passing => tick[t].lots # 0
    BY DEF AgreementInv, Types, Tick, Knows, Lots, Modes
  <2>2. QED BY <2>1, Zenon DEF AgreementInv, Types, Bounded, TypeOK
<1>3. AgreementInv /\ Bounded /\ [Next]_vars => Bounded'
  BY BoundedStep DEF AgreementInv
<1>4. QED BY <1>1, <1>2, <1>3, InitAgreement, AgreementStep, PTL DEF Spec

-----------------------------------------------------------------------------
(* One mode, while it is only switched in quiet moments. *)

Calm    == ~careless /\ ~mishap
Matches == OrdersMatch /\ PositionMatches /\ \A t \in Ticks : Stands(t)

\* A position changes books by being bought only.
LEMMA HomeStep ==
  ASSUME Types, NEW t \in Ticks, Pass(t), pos'.phase \in Held
  PROVE  \/ pos.phase \in Held /\ pos'.home = pos.home
         \/ At(t, "saveEntry") /\ pos'.home = tick[t].mode
         \/ At(t, "saveOpen") /\ pos'.home = pos.home
<1> USE DEF Types, Position
<1>1. CASE BeginPass(t) \/ NextPass(t) \/ Reads(t)
  BY <1>1 DEF BeginPass, NextPass, Reads, ReadStop, ReadPositions, trade
<1>2. CASE Routes(t)
  BY <1>2 DEF Routes, Squareoff, Manage, Hold, Resume, CooldownElapses, BeginExit, Routed,
     NoPosition, trade, Held
<1>3. CASE Enters(t)
  BY <1>3 DEF Enters, SizeEntry, PlaceEntry, SaveEntry, EntryFilled, EntryWaits, PlaceStop,
     SaveOpen, NoPosition, Step, trade
<1>4. CASE Exits(t)
  BY <1>4 DEF Exits, CancelStop, CancelFails, PlaceExit, SeesFlat, SaveCooldown, NoPosition,
     trade, Held
<1>5. QED BY <1>1, <1>2, <1>3, <1>4, PassSplits

LEMMA OneModeStep ==
  ASSUME AgreementInv, ~careless => OneMode, [Next]_vars, ~careless'
  PROVE  OneMode' /\ ~careless
<1>1. Types
  BY DEF AgreementInv
<1>2. ASSUME NEW t \in Ticks, Preamble(t) \/ EndTick(t) PROVE OneMode' /\ ~careless
  <2>1. UNCHANGED <<override, variable, careless, pos>>
    BY <1>2, PreambleFrame DEF EndTick, settings, trade
  <2>2. ~careless => tick'[t].pc = "down" \/ tick'[t].mode = Resolved
    <3> USE <1>1 DEF Types, Tick, At
    <3>1. CASE StartTick(t)
      BY <3>1 DEF StartTick, Down
    <3>2. CASE MarginsFail(t) \/ EndTick(t)
      BY <3>2 DEF MarginsFail, EndTick, Down
    <3>3. CASE GetMultiplier(t) \/ GetMargins(t)
      BY <3>3, <2>1 DEF GetMultiplier, GetMargins, Goto, OneMode
    <3>4. CASE StoreMultiplier(t) \/ RereadMultiplier(t)
      BY <3>4, <2>1 DEF StoreMultiplier, RereadMultiplier, Goto, OneMode
    <3>5. QED BY <1>2, <3>1, <3>2, <3>3, <3>4 DEF Preamble
  <2>3. QED BY <1>1, <1>2, <2>1, <2>2, OthersStay DEF OneMode, At, Resolved
<1>3. ASSUME NEW t \in Ticks, Pass(t) PROVE OneMode' /\ ~careless
  <2>1. UNCHANGED <<override, variable, careless>>
    BY <1>1, <1>3, PassTypes
  <2>2. tick[t].pc \in Passing \cup {"ready"} /\ Moves(t)
    BY <1>1, <1>3, PassMoves
  <2>3. \A s \in Ticks : ~At(s, "down")' => tick'[s].mode = Resolved
    BY <2>1, <2>2 DEF OneMode, Moves, At, Passing
  <2>4. pos'.phase \in Held => pos'.home = Resolved
    BY <1>1, <1>3, <2>1, HomeStep DEF OneMode, At, AgreementInv, Awaits, Held
  <2>5. QED BY <2>1, <2>3, <2>4 DEF OneMode, Resolved
<1>4. CASE ExchangeFills \/ SquareoffTime \/ UNCHANGED vars
  BY <1>4 DEF ExchangeFills, SquareoffTime, vars, settings, trade, OneMode, At, Resolved
<1>5. CASE ChangeMode
  <2>1. ~careless /\ UNCHANGED <<pos, tick>> /\ (Quiet \/ Resolved' = Resolved)
    <3>1. careless' = (careless \/ (~Quiet /\ Resolved' # Resolved))
      BY <1>5 DEF ChangeMode
    <3>2. ~careless /\ (Quiet \/ Resolved' = Resolved)
      BY <3>1, Zenon
    <3>3. QED BY <1>5, <3>2 DEF ChangeMode, trade
  <2>2. QED BY <2>1 DEF OneMode, Quiet, At
<1>6. QED BY <1>2, <1>3, <1>4, <1>5 DEF Next, World

\* What makes a step calm was so before.
LEMMA CalmBefore ==
  ASSUME AgreementInv, ~careless => OneMode, [Next]_vars, Calm'
  PROVE  Calm
<1>1. ~careless
  BY OneModeStep DEF Calm
<1>2. ASSUME mishap PROVE mishap'
  <2>1. ASSUME NEW t \in Ticks, Preamble(t) \/ EndTick(t) PROVE mishap'
    BY <1>2, <2>1, PreambleFrame DEF EndTick, trade
  <2>2. ASSUME NEW t \in Ticks, Pass(t) PROVE mishap'
    BY <1>2, <2>2 DEF Pass, BeginPass, NextPass, ReadStop, ReadPositions, Squareoff, Manage,
       Hold, Resume, CooldownElapses, BeginExit, SizeEntry, PlaceEntry, SaveEntry, EntryFilled,
       EntryWaits, PlaceStop, SaveOpen, CancelStop, CancelFails, PlaceExit, SeesFlat,
       SaveCooldown, trade
  <2>3. CASE World \/ UNCHANGED vars
    BY <1>2, <2>3 DEF World, ExchangeFills, SquareoffTime, ChangeMode, vars, trade
  <2>4. QED BY <2>1, <2>2, <2>3 DEF Next
<1>3. QED BY <1>1, <1>2 DEF Calm

-----------------------------------------------------------------------------
(* Fills: an order that fills keeps the books and the position in step. *)

LEMMA StopFillMatches ==
  ASSUME Types, OrdersMatch, StopFills, UNCHANGED <<entry, exit>>
  PROVE  /\ OrdersMatch' /\ entry.status = "filled"
         /\ stop.status = "open" /\ stop'.status = "filled"
<1>1. /\ stop.status = "open" /\ stop'.status = "filled"
      /\ stop'.home = stop.home /\ stop'.qty = stop.qty
  BY DEF StopFills, Types, Order
<1>2. /\ entry.status = "filled" /\ stop.home = entry.home /\ stop.qty = entry.qty
      /\ exit.status = "none"
  BY <1>1 DEF OrdersMatch
<1>3. stop.home \in Modes /\ stop.qty \in 0..2 /\ book \in [Modes -> Int]
  BY DEF Types, Order
<1>4. \A m \in Modes : book'[m] = IF m = stop.home THEN book[m] - stop.qty ELSE book[m]
  BY <1>3 DEF StopFills, Fills
<1>5. \A m \in Modes : book'[m] = Owed(m)'
  BY <1>1, <1>2, <1>3, <1>4 DEF OrdersMatch, Owed
<1>6. QED BY <1>1, <1>2, <1>5 DEF OrdersMatch

LEMMA EntryFillMatches ==
  ASSUME Types, OrdersMatch, entry.status = "open", Fills(entry, entry.qty),
         entry' = [entry EXCEPT !.status = "filled"], UNCHANGED <<stop, exit>>
  PROVE  /\ OrdersMatch' /\ entry'.status = "filled"
         /\ entry'.home = entry.home /\ entry'.qty = entry.qty
<1>1. entry'.status = "filled" /\ entry'.home = entry.home /\ entry'.qty = entry.qty
  BY DEF Types, Order
<1>2. stop.status = "none" /\ exit.status = "none"
  BY DEF OrdersMatch
<1>3. entry.home \in Modes /\ entry.qty \in 0..2 /\ book \in [Modes -> Int]
  BY DEF Types, Order
<1>4. \A m \in Modes : book'[m] = IF m = entry.home THEN book[m] + entry.qty ELSE book[m]
  BY <1>3 DEF Fills
<1>5. \A m \in Modes : book'[m] = Owed(m)'
  BY <1>1, <1>2, <1>3, <1>4 DEF OrdersMatch, Owed
<1>6. QED BY <1>1, <1>2, <1>5 DEF OrdersMatch

LEMMA ExitFillMatches ==
  ASSUME Types, OrdersMatch, exit.status = "open", Fills(exit, -exit.qty),
         exit' = [exit EXCEPT !.status = "filled"], UNCHANGED <<entry, stop>>
  PROVE  OrdersMatch' /\ exit'.status = "filled"
<1>1. exit'.status = "filled" /\ exit'.home = exit.home /\ exit'.qty = exit.qty
  BY DEF Types, Order
<1>2. /\ entry.status = "filled" /\ exit.home = entry.home /\ exit.qty = entry.qty
      /\ stop.status \notin {"open", "filled"}
  BY DEF OrdersMatch
<1>3. exit.home \in Modes /\ exit.qty \in 0..2 /\ book \in [Modes -> Int]
  BY DEF Types, Order
<1>4. \A m \in Modes : book'[m] = IF m = exit.home THEN book[m] + (-exit.qty) ELSE book[m]
  BY <1>3 DEF Fills
<1>5. \A m \in Modes : book'[m] = Owed(m)'
  BY <1>1, <1>2, <1>3, <1>4 DEF OrdersMatch, Owed
<1>6. QED BY <1>1, <1>2, <1>5 DEF OrdersMatch

\* A stop that is about to be cancelled, sold past or forgotten does not fill any
\* more: while one rests, no tick stands there.
LEMMA FillsKeepMatches ==
  ASSUME Types, Matches, ExchangeFills
  PROVE  Matches'
<1>1. UNCHANGED <<pos, tick>>
  BY DEF ExchangeFills
<1>2. CASE StopFills /\ UNCHANGED <<entry, exit>>
  <2>1. /\ OrdersMatch' /\ entry.status = "filled"
        /\ stop.status = "open" /\ stop'.status = "filled"
    BY <1>2, StopFillMatches DEF Matches
  <2>2. PositionMatches'
    BY <1>1, <1>2, <2>1 DEF Matches, PositionMatches, At
  <2>3. \A t \in Ticks : Stands(t)'
    BY <1>1, <1>2, <2>1 DEF Matches, Stands, At
  <2>4. QED BY <2>1, <2>2, <2>3 DEF Matches
<1>3. CASE /\ entry.status = "open" /\ Fills(entry, entry.qty)
           /\ entry' = [entry EXCEPT !.status = "filled"] /\ UNCHANGED <<stop, exit>>
  <2>1. /\ OrdersMatch' /\ entry'.status = "filled"
        /\ entry'.home = entry.home /\ entry'.qty = entry.qty
    BY <1>3, EntryFillMatches DEF Matches
  <2>2. PositionMatches'
    BY <1>1, <1>3, <2>1 DEF Matches, PositionMatches, At
  <2>3. \A t \in Ticks : Stands(t)'
    BY <1>1, <1>3, <2>1 DEF Matches, Stands, At
  <2>4. QED BY <2>1, <2>2, <2>3 DEF Matches
<1>4. CASE /\ exit.status = "open" /\ Fills(exit, -exit.qty)
           /\ exit' = [exit EXCEPT !.status = "filled"] /\ UNCHANGED <<entry, stop>>
  <2>1. OrdersMatch' /\ exit'.status = "filled"
    BY <1>4, ExitFillMatches DEF Matches
  <2>2. PositionMatches'
    BY <1>1, <1>4, <2>1 DEF Matches, PositionMatches, At
  <2>3. \A t \in Ticks : Stands(t)'
    BY <1>1, <1>4, <2>1 DEF Matches, Stands, At
  <2>4. QED BY <2>1, <2>2, <2>3 DEF Matches
<1>5. QED BY <1>2, <1>3, <1>4 DEF ExchangeFills

-----------------------------------------------------------------------------
(* Passes. *)

\* PositionMatches for the one tick that passes.
MatchesAlone(t) ==
    /\ pos.phase \in Held =>
          entry.status # "none" /\ entry.home = pos.home /\ entry.qty = pos.qty
    /\ pos.phase \notin Held /\ ~At(t, "saveEntry") => entry.status = "none"
    /\ pos.hasStop => entry.status = "filled"
    /\ pos.phase # "EXITING" => exit.status = "none"
    /\ pos.phase = "ENTERING" /\ ~At(t, "saveOpen") => stop.status = "none"

LEMMA Alone ==
  ASSUME AgreementInv, Matches, NEW t \in Ticks, Pass(t)
  PROVE  /\ MatchesAlone(t) /\ Stands(t) /\ OrdersMatch
         /\ OrdersMatch' /\ MatchesAlone(t)' /\ Stands(t)' => Matches'
<1>1. Types /\ OneTrades /\ OneTrades'
  BY OneTradesStep DEF AgreementInv, Next
<1>2. tick[t].pc \in Passing \cup {"ready"} /\ Moves(t)
  BY <1>1, PassMoves
<1>3. \A s \in Ticks : s # t => tick[s].pc \notin Passing /\ tick'[s].pc \notin Passing
  BY <1>1, <1>2 DEF OneTrades, Moves
<1>4. \A s \in Ticks : s # t => ~At(s, "saveEntry") /\ ~At(s, "saveOpen") /\ Stands(s)'
  BY <1>3 DEF At, Stands, Passing
<1>5. MatchesAlone(t) /\ Stands(t) /\ OrdersMatch
  BY <1>4 DEF Matches, PositionMatches, MatchesAlone
<1>6. ASSUME OrdersMatch', MatchesAlone(t)', Stands(t)' PROVE Matches'
  <2>1. PositionMatches'
    BY <1>6 DEF MatchesAlone, PositionMatches
  <2>2. \A s \in Ticks : Stands(s)'
    BY <1>4, <1>6
  <2>3. QED BY <1>6, <2>1, <2>2 DEF Matches
<1>7. QED BY <1>5, <1>6

\* What a calm pass starts from: the tick and the position are of one mode.
Ready(t) ==
    /\ Types /\ MatchesAlone(t) /\ Stands(t) /\ OrdersMatch
    /\ Awaits(t) /\ Knows(t) /\ SizeAgrees
    /\ tick[t].pc \in Passing \cup {"ready"}
    /\ pos.phase \in Held => pos.home = tick[t].mode

Kept(t) == OrdersMatch' /\ MatchesAlone(t)' /\ Stands(t)'

LEMMA ReadyHolds ==
  ASSUME AgreementInv, Matches, OneMode, NEW t \in Ticks, Pass(t)
  PROVE  Ready(t)
<1>1. tick[t].pc \in Passing \cup {"ready"}
  BY PassMoves DEF AgreementInv
<1>2. tick[t].mode = Resolved
  BY <1>1 DEF OneMode, At, Passing
<1>3. QED BY <1>1, <1>2, Alone DEF Ready, AgreementInv, OneMode

\* A pass moves to one label.
LEMMA Labelled ==
  ASSUME Types, NEW t \in Ticks, NEW label, tick' = [tick EXCEPT ![t].pc = label]
  PROVE  tick'[t].pc = label /\ tick'[t].mode = tick[t].mode /\ tick'[t].lots = tick[t].lots
  BY DEF Types, Tick

LEMMA OrdersUnmoved ==
  ASSUME OrdersMatch, UNCHANGED orders
  PROVE  OrdersMatch'
  BY DEF OrdersMatch, Owed, orders

LEMMA BeginKept ==
  ASSUME NEW t \in Ticks, Ready(t), BeginPass(t) \/ NextPass(t)
  PROVE  Kept(t)
<1> USE DEF Ready
<1>1. /\ tick[t].pc \in {"ready", "done"} /\ tick'[t].pc \in {"stop", "route"}
      /\ UNCHANGED <<pos, entry, exit>> /\ PaperTick(t)
  BY DEF BeginPass, NextPass, AfterLoad, At, Step, Types, Tick
<1>2. Stands(t)'
  BY <1>1 DEF Stands, At
<1>3. CASE StopFills
  <2>1. /\ OrdersMatch' /\ entry.status = "filled"
        /\ stop.status = "open" /\ stop'.status = "filled"
    BY <1>1, <1>3, StopFillMatches
  <2>2. QED BY <1>1, <1>2, <2>1 DEF Kept, MatchesAlone, At
<1>4. CASE UNCHANGED <<stop, book>>
  BY <1>1, <1>2, <1>4, OrdersUnmoved DEF Kept, MatchesAlone, At, orders
<1>5. QED BY <1>1, <1>3, <1>4 DEF PaperTick

LEMMA ReadsKept ==
  ASSUME NEW t \in Ticks, Ready(t), Reads(t)
  PROVE  Kept(t)
<1> USE DEF Ready
<1>1. tick[t].pc \in {"stop", "positions"} /\ tick'[t].pc \in {"positions", "route"}
  BY DEF Reads, ReadStop, ReadPositions, At, Step, Types, Tick
<1>2. /\ UNCHANGED orders
      /\ pos'.phase = pos.phase /\ pos'.home = pos.home /\ pos'.qty = pos.qty
      /\ pos'.hasStop = pos.hasStop
  BY DEF Reads, ReadStop, ReadPositions, trade, Types, Position
<1>3. QED BY <1>1, <1>2, OrdersUnmoved DEF Kept, MatchesAlone, Stands, At, orders

LEMMA RoutesKept ==
  ASSUME NEW t \in Ticks, Ready(t), Routes(t)
  PROVE  Kept(t)
<1> USE DEF Ready
<1>1. tick[t].pc = "route" /\ UNCHANGED orders
  BY DEF Routes, Squareoff, Manage, Hold, Resume, CooldownElapses, BeginExit, Routed, At, Step,
     trade
<1>2. OrdersMatch' /\ UNCHANGED <<entry, stop, exit>>
  BY <1>1, OrdersUnmoved DEF orders
<1>3. ASSUME NEW label \in {"cancel", "sell", "settle"}, pos.phase \in {"OPEN", "ENTERING"},
             label = "sell" => pos.phase = "ENTERING", BeginExit(t, label)
      PROVE  Kept(t)
  <2>1. tick'[t].pc = label
    BY <1>3, Labelled DEF BeginExit
  <2>2. /\ pos'.phase = "EXITING" /\ pos'.home = pos.home /\ pos'.qty = pos.qty
        /\ pos'.hasStop = pos.hasStop
    BY <1>3 DEF BeginExit, Types, Position
  <2>3. exit.status = "none" /\ (label = "sell" => stop.status = "none")
    BY <1>1, <1>3 DEF MatchesAlone, At
  <2>4. MatchesAlone(t)'
    BY <1>1, <1>2, <1>3, <2>2 DEF MatchesAlone, Held
  <2>5. Stands(t)'
    BY <1>2, <1>3, <2>1, <2>2, <2>3 DEF Stands, At
  <2>6. QED BY <1>2, <2>4, <2>5 DEF Kept
<1>4. CASE Squareoff(t) \/ Manage(t)
  BY <1>3, <1>4 DEF Squareoff, Manage, Routed
<1>5. CASE Hold(t) \/ Resume(t)
  <2>1. UNCHANGED pos /\ tick'[t].pc \in {"done", "fill", "settle"}
    BY <1>5, Labelled DEF Hold, Resume, Step, trade
  <2>2. tick'[t].pc = "settle" => pos.phase = "EXITING"
    BY <1>5, Labelled DEF Hold, Resume, Step, Routed
  <2>3. MatchesAlone(t)'
    BY <1>1, <1>2, <2>1 DEF MatchesAlone, At
  <2>4. Stands(t)'
    BY <1>2, <2>1, <2>2 DEF Stands, At
  <2>5. QED BY <1>2, <2>3, <2>4 DEF Kept
<1>6. CASE CooldownElapses(t)
  <2>1. pos.phase = "COOLDOWN" /\ pos' = NoPosition /\ tick'[t].pc = "done"
    BY <1>6, Labelled DEF CooldownElapses, Routed, Step
  <2>2. MatchesAlone(t)'
    BY <1>1, <1>2, <2>1 DEF MatchesAlone, NoPosition, Held, At
  <2>3. Stands(t)'
    BY <2>1 DEF Stands, At
  <2>4. QED BY <1>2, <2>2, <2>3 DEF Kept
<1>7. QED BY <1>4, <1>5, <1>6 DEF Routes

LEMMA SentFields ==
  ASSUME NEW t \in Ticks, NEW status, NEW qty
  PROVE  /\ Sent(t, status, qty).status = status
         /\ Sent(t, status, qty).home = tick[t].mode /\ Sent(t, status, qty).qty = qty
  BY DEF Sent

LEMMA EntersKept ==
  ASSUME NEW t \in Ticks, Ready(t), Enters(t)
  PROVE  Kept(t)
<1> USE DEF Ready
<1>1. CASE SizeEntry(t)
  <2>1. /\ tick[t].pc = "route" /\ tick'[t].pc = "enter" /\ pos.phase = "IDLE"
        /\ UNCHANGED <<pos, orders>>
    BY <1>1, Labelled DEF SizeEntry, Step, Routed, At, trade
  <2>2. QED BY <2>1, OrdersUnmoved DEF Kept, MatchesAlone, Stands, At, orders
<1>2. CASE PlaceEntry(t)
  <2>1. /\ tick[t].pc = "enter" /\ tick'[t].pc = "saveEntry" /\ pos.phase = "IDLE"
        /\ tick'[t].mode = tick[t].mode /\ tick'[t].lots = tick[t].lots /\ pos' = pos
    BY <1>2, Labelled DEF PlaceEntry, Step, At, Stands
  <2>2. entry.status = "none" /\ ~pos.hasStop /\ stop.status = "none" /\ exit.status = "none"
    BY <2>1 DEF MatchesAlone, Held, At, OrdersMatch
  <2>3. stop'.status = "none" /\ exit'.status = "none"
    BY <1>2 DEF PlaceEntry, NoOrder
  <2>4. /\ entry'.status \in {"open", "filled"} /\ entry'.home = tick[t].mode
        /\ entry'.qty = tick[t].lots
    BY <1>2, SentFields DEF PlaceEntry
  <2>5. \A m \in Modes : book'[m] = Owed(m)'
    <3>1. \A m \in Modes : book[m] = 0
      BY <2>2 DEF OrdersMatch, Owed
    <3>2. CASE entry' = Sent(t, "open", tick[t].lots) /\ UNCHANGED book
      BY <3>1, <3>2, SentFields DEF Owed
    <3>3. CASE entry' = Sent(t, "filled", tick[t].lots) /\ Fills(entry', tick[t].lots)
      <4>1. entry'.home \in Modes /\ tick[t].lots \in 0..2 /\ book \in [Modes -> Int]
        BY <2>4 DEF Types, Tick
      <4>2. \A m \in Modes :
              book'[m] = IF m = entry'.home THEN book[m] + tick[t].lots ELSE book[m]
        BY <3>3, <4>1 DEF Fills
      <4>3. entry'.status = "filled"
        BY <3>3, SentFields
      <4>4. QED BY <2>3, <2>4, <3>1, <4>1, <4>2, <4>3 DEF Owed
    <3>4. QED BY <1>2, <3>2, <3>3 DEF PlaceEntry
  <2>6. OrdersMatch'
    BY <2>3, <2>4, <2>5 DEF OrdersMatch
  <2>7. MatchesAlone(t)' /\ Stands(t)'
    BY <2>1, <2>2, <2>3, <2>4 DEF MatchesAlone, Stands, Held, At
  <2>8. QED BY <2>6, <2>7 DEF Kept
<1>3. CASE SaveEntry(t)
  <2>1. /\ tick[t].pc = "saveEntry" /\ tick'[t].pc = "fill" /\ UNCHANGED orders
        /\ pos'.phase = "ENTERING" /\ pos'.home = tick[t].mode /\ pos'.qty = tick[t].lots
        /\ pos'.hasStop = FALSE
    BY <1>3, Labelled DEF SaveEntry, Step, At, NoPosition
  <2>2. pos.phase = "IDLE" /\ stop.status = "none" /\ entry.status # "none"
        /\ entry.home = tick[t].mode /\ entry.qty = tick[t].lots /\ exit.status = "none"
    BY <2>1 DEF Stands, At, MatchesAlone
  <2>3. UNCHANGED <<entry, stop, exit>>
    BY <2>1 DEF orders
  <2>4. MatchesAlone(t)' /\ Stands(t)'
    BY <2>1, <2>2, <2>3 DEF MatchesAlone, Stands, Held, At
  <2>5. QED BY <2>1, <2>4, OrdersUnmoved DEF Kept
<1>4. CASE EntryFilled(t) \/ EntryWaits(t)
  <2>1. /\ tick[t].pc = "fill" /\ tick'[t].pc \in {"placeStop", "done"}
        /\ tick'[t].pc = "placeStop" => entry.status = "filled"
        /\ UNCHANGED <<pos, orders>>
    BY <1>4, Labelled DEF EntryFilled, EntryWaits, Step, At, trade
  <2>2. pos.phase = "ENTERING"
    BY <2>1 DEF Awaits
  <2>3. QED BY <2>1, <2>2, OrdersUnmoved DEF Kept, MatchesAlone, Stands, At, orders
<1>5. CASE PlaceStop(t)
  <2>1. /\ tick[t].pc = "placeStop" /\ tick'[t].pc = "saveOpen"
        /\ UNCHANGED <<pos, entry, exit, book>>
    BY <1>5, Labelled DEF PlaceStop, Step, At
  <2>2. pos.phase = "ENTERING" /\ entry.status = "filled" /\ stop.status = "none"
        /\ exit.status = "none"
    BY <2>1 DEF Awaits, Stands, MatchesAlone, At
  <2>3. stop'.status = "open" /\ stop'.home = entry.home /\ stop'.qty = entry.qty
    BY <1>5, <2>2, SentFields DEF PlaceStop, MatchesAlone, Held
  <2>4. OrdersMatch'
    BY <2>1, <2>2, <2>3 DEF OrdersMatch, Owed
  <2>5. MatchesAlone(t)' /\ Stands(t)'
    BY <2>1, <2>2 DEF MatchesAlone, Stands, At
  <2>6. QED BY <2>4, <2>5 DEF Kept
<1>6. CASE SaveOpen(t)
  <2>1. /\ tick[t].pc = "saveOpen" /\ tick'[t].pc = "done" /\ UNCHANGED orders
    BY <1>6, Labelled DEF SaveOpen, Step, At
  <2>2. pos'.phase = "OPEN" /\ pos'.home = pos.home /\ pos'.qty = pos.qty
    BY <1>6 DEF SaveOpen, Types, Position
  <2>3. pos.phase = "ENTERING" /\ entry.status = "filled"
    BY <2>1 DEF Awaits, Stands
  <2>4. UNCHANGED <<entry, stop, exit>>
    BY <2>1 DEF orders
  <2>5. MatchesAlone(t)' /\ Stands(t)'
    BY <2>1, <2>2, <2>3, <2>4 DEF MatchesAlone, Stands, Held, At
  <2>6. QED BY <2>1, <2>5, OrdersUnmoved DEF Kept
<1>7. QED BY <1>1, <1>2, <1>3, <1>4, <1>5, <1>6 DEF Enters

\* What is settled was held and is sold: a flat book means a filled stop or exit.
LEMMA FlatIsSold ==
  ASSUME NEW t \in Ticks, Ready(t), pos.phase = "EXITING", pos.hasStop, IsFlat(tick[t].mode)
  PROVE  /\ stop.status # "open" /\ exit.status # "open"
         /\ stop.status = "filled" \/ exit.status = "filled"
<1> USE DEF Ready
<1>1. /\ entry.status = "filled" /\ entry.home = tick[t].mode /\ entry.qty = pos.qty
      /\ tick[t].mode \in Modes
  BY DEF MatchesAlone, Held, Types, Tick
<1>2. pos.qty \in 1..2
  BY DEF SizeAgrees, Lots, Held, Types, Modes
<1>3. book[tick[t].mode] <= 0
  BY <1>1 DEF IsFlat, Types
<1>4. book[tick[t].mode] = Owed(tick[t].mode)
  BY <1>1 DEF OrdersMatch
<1>5. stop.status = "filled" \/ exit.status = "filled"
  BY <1>1, <1>2, <1>3, <1>4 DEF Owed
<1>6. QED BY <1>5 DEF OrdersMatch

LEMMA ExitsKept ==
  ASSUME NEW t \in Ticks, Ready(t), Exits(t), ~mishap'
  PROVE  Kept(t)
<1> USE DEF Ready
<1>1. CASE CancelStop(t)
  <2>1. /\ tick[t].pc = "cancel" /\ tick'[t].pc = "sell"
        /\ UNCHANGED <<pos, entry, exit, book>>
    BY <1>1, Labelled DEF CancelStop, Step, At
  <2>2. pos.phase = "EXITING" /\ exit.status = "none"
    BY <2>1 DEF Stands
  <2>3. /\ stop'.home = stop.home /\ stop'.qty = stop.qty
        /\ stop'.status # "open" /\ (stop'.status = "filled" <=> stop.status = "filled")
        /\ stop.status = "none" => stop'.status = "none"
        /\ stop'.status = "none" => stop.status = "none"
    <3>1. stop.status = "open" => stop.home = tick[t].mode
      BY <2>2 DEF OrdersMatch, MatchesAlone, Held
    <3>2. QED BY <1>1, <3>1 DEF CancelStop, Types, Order
  <2>4. OrdersMatch'
    BY <2>1, <2>2, <2>3 DEF OrdersMatch, Owed
  <2>5. MatchesAlone(t)' /\ Stands(t)'
    BY <2>1, <2>2, <2>3 DEF MatchesAlone, Stands, At
  <2>6. QED BY <2>4, <2>5 DEF Kept
<1>2. CASE CancelFails(t)
  BY <1>2 DEF CancelFails
<1>3. CASE PlaceExit(t)
  <2>1. /\ tick[t].pc = "sell" /\ tick'[t].pc = "settle" /\ UNCHANGED <<pos, entry, stop>>
    BY <1>3, Labelled DEF PlaceExit, Step, At
  <2>2. pos.phase = "EXITING" /\ exit.status = "none" /\ stop.status # "open"
    BY <2>1 DEF Stands, At
  <2>3. StillHeld
    <3>1. mishap' = (mishap \/ ~StillHeld)
      BY <1>3 DEF PlaceExit
    <3>2. QED BY <3>1, Zenon
  <2>4. entry.status = "filled" /\ stop.status # "filled"
    BY <2>3 DEF StillHeld
  <2>5. exit'.status \in {"open", "filled"} /\ exit'.home = entry.home /\ exit'.qty = entry.qty
    BY <1>3, <2>2, SentFields DEF PlaceExit, MatchesAlone, Held
  <2>6. \A m \in Modes : book'[m] = Owed(m)'
    <3>1. CASE exit' = Sent(t, "open", pos.qty) /\ UNCHANGED book
      BY <2>1, <2>2, <3>1, SentFields DEF OrdersMatch, Owed
    <3>2. CASE exit' = Sent(t, "filled", pos.qty) /\ Fills(exit', -pos.qty)
      <4>1. exit'.home \in Modes /\ pos.qty \in 0..2 /\ book \in [Modes -> Int]
            /\ pos.qty = entry.qty /\ exit'.status = "filled"
        BY <2>2, <2>5, <3>2, SentFields DEF Types, Order, Position, MatchesAlone, Held
      <4>2. \A m \in Modes :
              book'[m] = IF m = exit'.home THEN book[m] + (-pos.qty) ELSE book[m]
        BY <3>2, <4>1 DEF Fills
      <4>3. QED BY <2>1, <2>2, <2>4, <2>5, <4>1, <4>2 DEF OrdersMatch, Owed
    <3>3. QED BY <1>3, <3>1, <3>2 DEF PlaceExit
  <2>7. OrdersMatch'
    BY <2>1, <2>2, <2>4, <2>5, <2>6 DEF OrdersMatch
  <2>8. MatchesAlone(t)' /\ Stands(t)'
    BY <2>1, <2>2 DEF MatchesAlone, Stands, At
  <2>9. QED BY <2>7, <2>8 DEF Kept
<1>4. CASE SeesFlat(t)
  <2>1. /\ tick[t].pc = "settle" /\ tick'[t].pc = "cooldown" /\ UNCHANGED <<pos, orders>>
        /\ pos.hasStop /\ IsFlat(tick[t].mode)
    BY <1>4, Labelled DEF SeesFlat, Step, At, trade
  <2>2. pos.phase = "EXITING"
    BY <2>1 DEF Stands
  <2>3. UNCHANGED <<entry, stop, exit>>
    BY <2>1 DEF orders
  <2>4. MatchesAlone(t)' /\ Stands(t)'
    BY <2>1, <2>2, <2>3, FlatIsSold DEF MatchesAlone, Stands, At
  <2>5. QED BY <2>1, <2>4, OrdersUnmoved DEF Kept
<1>5. CASE SaveCooldown(t)
  <2>1. /\ tick[t].pc = "cooldown" /\ tick'[t].pc = "done" /\ UNCHANGED book
        /\ pos'.phase = "COOLDOWN" /\ pos'.hasStop = FALSE
    BY <1>5, Labelled DEF SaveCooldown, Step, At, NoPosition
  <2>2. /\ stop.status # "open" /\ exit.status # "open"
        /\ stop.status = "filled" \/ exit.status = "filled"
    BY <2>1 DEF Stands, At
  <2>3. entry.status = "filled"
    BY <2>2 DEF OrdersMatch
  <2>4. entry'.status = "none" /\ stop'.status = "none" /\ exit'.status = "none"
    BY <1>5, <2>2, <2>3 DEF SaveCooldown, Forget, NoOrder
  <2>5. \A m \in Modes : book[m] = 0
    BY <2>2 DEF OrdersMatch, Owed
  <2>6. OrdersMatch'
    BY <2>1, <2>4, <2>5 DEF OrdersMatch, Owed
  <2>7. MatchesAlone(t)' /\ Stands(t)'
    BY <2>1, <2>4 DEF MatchesAlone, Stands, Held, At
  <2>8. QED BY <2>6, <2>7 DEF Kept
<1>6. QED BY <1>1, <1>2, <1>3, <1>4, <1>5 DEF Exits

LEMMA BooksStep == AgreementInv /\ BooksInv /\ [Next]_vars => BooksInv'
<1> SUFFICES ASSUME AgreementInv, BooksInv, [Next]_vars PROVE BooksInv'
  OBVIOUS
<1>1. ~careless => OneMode
  BY DEF BooksInv
<1>2. ~careless' => OneMode'
  BY <1>1, OneModeStep
<1>3. SUFFICES ASSUME Calm' PROVE Matches'
  BY <1>2 DEF BooksInv, Calm, Matches
<1>4. Calm /\ Matches /\ OneMode /\ Types
  BY <1>1, <1>3, CalmBefore DEF BooksInv, Calm, Matches, AgreementInv
<1>5. ASSUME NEW t \in Ticks, Preamble(t) \/ EndTick(t) PROVE Matches'
  <2>1. UNCHANGED <<pos, orders>>
    BY <1>5, PreambleFrame DEF EndTick, trade
  <2>2. ~At(t, "saveOpen") /\ ~At(t, "saveEntry")
    <3>1. CASE Preamble(t)
      BY <3>1 DEF Preamble, StartTick, GetMultiplier, GetMargins, MarginsFail, StoreMultiplier,
         RereadMultiplier, At
    <3>2. CASE EndTick(t)
      BY <1>3, <3>2 DEF EndTick, Calm
    <3>3. QED BY <1>5, <3>1, <3>2
  <2>3. tick'[t].pc \in {"down"} \cup Preparing
    BY <1>4, <1>5, PreambleLabel
  <2>4. \A s \in Ticks : s # t => tick'[s] = tick[s]
    BY <1>4, <1>5, OthersStay
  <2>5. UNCHANGED <<entry, stop, exit>> /\ OrdersMatch'
    BY <1>4, <2>1, OrdersUnmoved DEF orders, Matches
  <2>6. PositionMatches'
    BY <1>4, <2>1, <2>2, <2>4, <2>5 DEF Matches, PositionMatches, At
  <2>7. \A s \in Ticks : Stands(s)'
    <3>1. Stands(t)'
      BY <2>3 DEF Stands, At, Preparing
    <3>2. ASSUME NEW s \in Ticks, s # t PROVE Stands(s)'
      BY <1>4, <2>1, <2>4, <2>5, <3>2 DEF Matches, Stands, At
    <3>3. QED BY <3>1, <3>2
  <2>8. QED BY <2>5, <2>6, <2>7 DEF Matches
<1>6. ASSUME NEW t \in Ticks, Pass(t) PROVE Matches'
  <2>1. Ready(t)
    BY <1>4, <1>6, ReadyHolds
  <2>2. Kept(t)
    BY <1>3, <1>6, <2>1, PassSplits, BeginKept, ReadsKept, RoutesKept, EntersKept, ExitsKept
       DEF Calm
  <2>3. QED BY <1>4, <1>6, <2>2, Alone DEF Kept
<1>7. CASE ExchangeFills
  BY <1>4, <1>7, FillsKeepMatches
<1>8. CASE SquareoffTime \/ ChangeMode \/ UNCHANGED vars
  <2>1. UNCHANGED <<pos, orders, tick>>
    BY <1>8 DEF SquareoffTime, ChangeMode, vars, trade
  <2>2. UNCHANGED <<pos, tick, entry, stop, exit>> /\ OrdersMatch'
    BY <1>4, <2>1, OrdersUnmoved DEF orders, Matches
  <2>3. PositionMatches'
    BY <1>4, <2>2 DEF Matches, PositionMatches, At
  <2>4. \A t \in Ticks : Stands(t)'
    BY <1>4, <2>2 DEF Matches, Stands, At
  <2>5. QED BY <2>2, <2>3, <2>4 DEF Matches
<1>9. QED BY <1>5, <1>6, <1>7, <1>8 DEF Next, World

\* Unless the mode is switched under a running tick or a held position, or one of
\* the mishaps happens, each position is bought, protected and sold in one book,
\* whatever fills between any two calls and wherever a tick ends.
THEOREM OneBookPerPosition == Spec => []BooksFollowPosition
<1>1. Init => BooksInv
  <2>1. ASSUME Init PROVE OneMode
    BY <2>1 DEF Init, OneMode, Down, At, NoPosition, Held
  <2>2. ASSUME Init PROVE OrdersMatch
    BY <2>2 DEF Init, OrdersMatch, Owed, NoOrder
  <2>3. ASSUME Init PROVE PositionMatches
    BY <2>3 DEF Init, PositionMatches, NoOrder, NoPosition, Held
  <2>4. ASSUME Init PROVE \A t \in Ticks : Stands(t)
    BY <2>4 DEF Init, Stands, Down, At
  <2>5. QED BY <2>1, <2>2, <2>3, <2>4 DEF BooksInv
<1>2. AgreementInv /\ BooksInv => BooksFollowPosition
  <2> SUFFICES ASSUME AgreementInv, BooksInv, ~careless, ~mishap,
                      \A t \in Ticks : ~At(t, "saveEntry"), NEW m \in Modes
               PROVE  book[m] = Expected(m)
    BY DEF BooksFollowPosition
  <2>1. OrdersMatch /\ PositionMatches
    BY DEF BooksInv
  <2>2. book[m] = Owed(m)
    BY <2>1 DEF OrdersMatch
  <2>3. CASE pos.phase \in Held
    BY <2>1, <2>2, <2>3 DEF PositionMatches, Owed, Expected, StillHeld
  <2>4. CASE pos.phase \notin Held
    BY <2>1, <2>2, <2>4 DEF PositionMatches, Owed, Expected
  <2>5. QED BY <2>3, <2>4
<1>3. QED BY <1>1, <1>2, InitAgreement, AgreementStep, BooksStep, PTL DEF Spec
=============================================================================
