--------------------------- MODULE TradingDay_proofs ---------------------------
(***************************************************************************)
(* TradingDay for any list of instruments, any quotes and any number of      *)
(* trades and faults: the breaker follows the loss and bounds what a day can  *)
(* lose, the capital is respected, one message is posted, and the square-off  *)
(* reaches every instrument its tick knows of.                              *)
(***************************************************************************)
EXTENDS TradingDay, FiniteSetTheorems, WellFoundedInduction, TLAPS

-----------------------------------------------------------------------------
(* Types, and where a tick may stand. *)

Labels == {"down", "next", "fill", "sell", "settle", "add", "limit", "save",
           "tracker", "post", "set"}

Phases == {"IDLE", "ENTERING", "OPEN", "EXITING", "COOLDOWN"}

PosType == [phase : Phases, bought : 0..Highest, entry : 0..Highest,
            exit : 0..Highest, sold : 0..Highest]

TickType == [pc : Labels, at : 0..Len(Order) + 1, picks : SUBSET Dynamic, past : BOOLEAN,
             cur : 0..TopQuote, read : Int, clean : BOOLEAN]

Types ==
    /\ past \in BOOLEAN /\ listed \subseteq Dynamic
    /\ pos \in [Instruments -> PosType]
    /\ total \in Int /\ blocked \in BOOLEAN
    /\ posts \in Nat /\ known \in BOOLEAN
    /\ tick \in TickType
    /\ trades \in 0..MaxTrades /\ faults \in 0..MaxFaults

Entering == {"fill"}
Leaving  == {"sell", "settle", "add", "limit", "save"}
Booking  == {"add", "limit", "save"}

\* Where the tick stands tells the phase of the instrument it is at.
Places ==
    /\ tick.pc # "down" => tick.at >= 1 /\ listed \subseteq tick.picks
    /\ tick.pc \in {"down", "tracker", "set"} => ~More
    /\ tick.pc \in Entering \cup Leaving => More /\ Listed
    /\ tick.pc \in Entering => pos[Current].phase = "ENTERING" /\ ~tick.past
    /\ tick.pc \in Leaving => pos[Current].phase = "EXITING"
    /\ tick.pc \in Booking => pos[Current].entry # 0 /\ pos[Current].sold # 0
    /\ tick.pc = "add" => tick.read = total

\* What is known of a position in each phase.
Premiums ==
    \A i \in Instruments :
        /\ pos[i].phase = "ENTERING" => pos[i].bought # 0
        /\ pos[i].phase = "OPEN" => pos[i].entry # 0
        /\ pos[i].phase = "COOLDOWN" => pos[i].entry # 0 /\ pos[i].sold # 0

PassInv == Types /\ Places /\ Premiums

LEMMA Constants ==
  /\ Len(Order) \in Nat /\ Order \in [1..Len(Order) -> Instruments]
  /\ MaxTrades \in Nat /\ MaxFaults \in Nat /\ HalfSpread \in Nat /\ Risk \in Nat
  /\ TopQuote \in Nat \ {0} /\ Highest \in Nat \ {0} /\ TopQuote <= Highest
  /\ LossLimit \in Int /\ LossLimit < 0 /\ Dynamic \subseteq Instruments
  /\ TopCharge \in Nat /\ Swing \in Nat \ {0}
<1>1. Len(Order) \in Nat /\ Order \in [1..Len(Order) -> Instruments]
  BY DayAssumption
<1>2. \A c \in {CapitalRs, HalfSpread, Risk, TopCharge, MaxTrades, MaxFaults} : c \in Nat
  BY DayAssumption
<1>3. TopQuote \in Nat \ {0} /\ DailyLoss \in Nat \ {0} /\ Dynamic \subseteq Instruments
  BY DayAssumption
<1>4. /\ HalfSpread \in Nat /\ Risk \in Nat /\ MaxTrades \in Nat /\ MaxFaults \in Nat
      /\ TopCharge \in Nat
  BY <1>2, Zenon
<1>5. Highest \in Nat \ {0} /\ TopQuote <= Highest
  BY <1>3, <1>4 DEF Highest
<1>6. LossLimit \in Int /\ LossLimit < 0
  BY <1>3 DEF LossLimit
<1>7. Swing \in Nat \ {0}
  BY <1>4, <1>5 DEF Swing
<1>8. QED BY <1>1, <1>3, <1>4, <1>5, <1>6, <1>7

\* What a trade with both premiums is charged.
LEMMA ChargeType ==
  ASSUME NEW b \in 0..Highest, NEW q \in 0..Highest
  PROVE  Charges[<<b, q>>] \in 0..TopCharge
<1>1. Charges \in [(0..Highest) \X (0..Highest) -> 0..TopCharge]
  BY DayAssumption
<1>2. <<b, q>> \in (0..Highest) \X (0..Highest)
  OBVIOUS
<1>3. QED BY <1>1, <1>2

\* One trade moves the P&L by one price and its charges at most.
LEMMA ProfitType ==
  ASSUME NEW i \in Instruments, Types
  PROVE  /\ Profit(i) \in Int /\ Profit(i) \in -Swing..Swing
         /\ Profit(i) >= pos[i].sold - pos[i].entry - TopCharge
<1>1. pos[i].entry \in 0..Highest /\ pos[i].sold \in 0..Highest
  BY DEF Types, PosType
<1>2. PICK c \in 0..TopCharge : c = Charges[<<pos[i].entry, pos[i].sold>>]
  BY <1>1, ChargeType
<1>3. PICK b \in 0..Highest, q \in 0..Highest : b = pos[i].entry /\ q = pos[i].sold
  BY <1>1
<1>4. Profit(i) = q - b - c
  BY <1>2, <1>3 DEF Profit
<1>5. Swing = Highest + TopCharge /\ Highest \in Nat /\ TopCharge \in Nat
  BY Constants DEF Swing
<1>6. QED BY <1>3, <1>4, <1>5

\* The greater of two numbers.
LEMMA MaxOfTwo ==
  ASSUME NEW a \in Int, NEW b \in Int
  PROVE  Max({a, b}) = IF a >= b THEN a ELSE b
<1>1. \E x \in {a, b} : \A y \in {a, b} : x >= y
  OBVIOUS
<1>2. Max({a, b}) \in {a, b} /\ \A y \in {a, b} : Max({a, b}) >= y
  BY <1>1 DEF Max
<1>3. QED BY <1>2

\* Every sale brings something, and no more than the highest price.
LEMMA SaleType ==
  ASSUME NEW q \in 0..TopQuote
  PROVE  SaleAt(q) \in 1..Highest
  BY Constants, MaxOfTwo DEF SaleAt, Highest

LEMMA CurrentType == ASSUME More PROVE Current \in Instruments
  BY Constants DEF More, Current

LEMMA InitPass == Init => PassInv
<1> SUFFICES ASSUME Init PROVE PassInv
  OBVIOUS
<1>1. NoPosition \in PosType
  BY Constants DEF NoPosition, PosType, Phases
<1>2. NoTick \in TickType
  BY Constants DEF NoTick, TickType, Labels
<1>3. past \in BOOLEAN /\ blocked \in BOOLEAN /\ known \in BOOLEAN
  BY Zenon DEF Init
<1>4. Types
  BY <1>1, <1>2, <1>3, Constants DEF Init, Types
<1>5. Places
  BY <1>2, Constants DEF Init, Places, NoTick, More, Entering, Leaving, Booking
<1>6. Premiums
  BY DEF Init, Premiums, NoPosition
<1>7. QED BY <1>4, <1>5, <1>6 DEF PassInv

-----------------------------------------------------------------------------
(* Steps keep the types. *)

\* What the instruments may be quoted at.
LEMMA QuoteType ==
  ASSUME NEW i \in Instruments, NEW q \in Quotes[i]
  PROVE  q \in 1..TopQuote /\ q \in 0..TopQuote
<1>1. q \in 1..TopQuote
  BY DayAssumption
<1>2. QED BY <1>1, Constants

LEMMA GotoType ==
  ASSUME tick \in TickType, NEW label \in Labels, Goto(label)
  PROVE  /\ tick' \in TickType /\ tick'.pc = label
         /\ UNCHANGED <<tick.at, tick.picks, tick.past, tick.cur, tick.read, tick.clean>>
  BY DEF Goto, TickType

LEMMA OnwardType ==
  ASSUME tick \in TickType, More, NEW cur \in 0..TopQuote, Onward(cur)
  PROVE  /\ tick' \in TickType /\ tick'.pc = "next" /\ tick'.at = tick.at + 1
         /\ UNCHANGED <<tick.picks, tick.past, tick.read, tick.clean>>
<1>1. tick.at + 1 \in 0..Len(Order) + 1
  BY Constants DEF More
<1>2. QED BY <1>1 DEF Onward, TickType, Labels

LEMMA PositionType ==
  ASSUME pos \in [Instruments -> PosType], More, NEW p \in PosType,
         pos' = [pos EXCEPT ![Current] = p]
  PROVE  /\ pos' \in [Instruments -> PosType] /\ pos'[Current] = p
         /\ \A i \in Instruments : i # Current => pos'[i] = pos[i]
  BY CurrentType

\* Positions change in the instrument the tick is at, to another position.
LEMMA PositionStep ==
  ASSUME PassInv, [Next]_vars
  PROVE  \/ UNCHANGED pos
         \/ More /\ \E p \in PosType : pos' = [pos EXCEPT ![Current] = p]
<1> DEFINE Moved == More /\ \E p \in PosType : pos' = [pos EXCEPT ![Current] = p]
<1> USE DEF PassInv
<1>1. /\ pos \in [Instruments -> PosType] /\ tick \in TickType
      /\ \A i \in Instruments : pos[i] \in PosType
  BY DEF Types
<1>2. CASE TryEnter
  <2>1. PICK q \in Quotes[Current] :
          pos' = [pos EXCEPT ![Current] =
                       [NoPosition EXCEPT !.phase = "ENTERING", !.bought = q + HalfSpread]]
    BY <1>2 DEF TryEnter
  <2>2. More /\ Current \in Instruments
    BY <1>2, CurrentType DEF TryEnter, Visits
  <2>3. q + HalfSpread \in 0..Highest
    BY <2>2, QuoteType, Constants DEF Highest
  <2>4. [NoPosition EXCEPT !.phase = "ENTERING", !.bought = q + HalfSpread] \in PosType
    <3>1. NoPosition \in PosType
      BY Constants DEF NoPosition, PosType, Phases
    <3>2. QED BY <2>3, <3>1 DEF PosType, Phases
  <2>5. QED BY <2>1, <2>2, <2>4
<1>3. CASE CheckEntryFill
  <2>1. More /\ Current \in Instruments
    BY <1>3, CurrentType DEF CheckEntryFill, At, Visits, Places, Entering
  <2>2. pos' = [pos EXCEPT ![Current] = [pos[Current] EXCEPT !.phase = "OPEN",
                                                     !.entry = pos[Current].bought]]
    BY <1>1, <1>3, <2>1 DEF CheckEntryFill, PosType
  <2>3. [pos[Current] EXCEPT !.phase = "OPEN", !.entry = pos[Current].bought] \in PosType
    BY <1>1, <2>1 DEF PosType, Phases
  <2>4. QED BY <2>1, <2>2, <2>3
<1>4. CASE StopHit
  <2>1. More /\ Current \in Instruments
    BY <1>4, CurrentType DEF StopHit, Visits
  <2>2. PICK q \in Quotes[Current] :
          pos' = [pos EXCEPT ![Current].phase = "EXITING", ![Current].exit = SaleAt(q),
                             ![Current].sold = SaleAt(q)]
    BY <1>4 DEF StopHit
  <2>3. SaleAt(q) \in 0..Highest
    BY <2>1, QuoteType, SaleType
  <2>4. pos' = [pos EXCEPT ![Current] = [pos[Current] EXCEPT !.phase = "EXITING",
                               !.exit = SaleAt(q), !.sold = SaleAt(q)]]
    BY <1>1, <2>1, <2>2 DEF PosType
  <2>5. [pos[Current] EXCEPT !.phase = "EXITING", !.exit = SaleAt(q), !.sold = SaleAt(q)]
           \in PosType
    BY <1>1, <2>1, <2>3 DEF PosType, Phases
  <2>6. QED BY <2>1, <2>4, <2>5
<1>5. CASE Squareoff
  <2>1. More /\ Current \in Instruments
    BY <1>5, CurrentType DEF Squareoff, Visits
  <2>2. PICK q \in Quotes[Current] \cup {0} :
          pos' = [pos EXCEPT ![Current].phase = "EXITING", ![Current].exit = q]
    BY <1>5 DEF Squareoff
  <2>3. q \in 0..Highest
    BY <2>1, QuoteType, Constants
  <2>4. pos' = [pos EXCEPT ![Current] = [pos[Current] EXCEPT !.phase = "EXITING", !.exit = q]]
    BY <1>1, <2>1, <2>2 DEF PosType
  <2>5. [pos[Current] EXCEPT !.phase = "EXITING", !.exit = q] \in PosType
    BY <1>1, <2>1, <2>3 DEF PosType, Phases
  <2>6. QED BY <2>1, <2>4, <2>5
<1>6. CASE SellAtMarket
  <2>1. More /\ Current \in Instruments
    BY <1>6, CurrentType DEF SellAtMarket, At, Places, Leaving
  <2>2. SaleAt(tick.cur) \in 0..Highest
    BY <1>1, SaleType DEF TickType
  <2>3. pos' = [pos EXCEPT ![Current] = [pos[Current] EXCEPT !.sold = SaleAt(tick.cur)]]
    BY <1>1, <1>6, <2>1 DEF SellAtMarket, PosType
  <2>4. [pos[Current] EXCEPT !.sold = SaleAt(tick.cur)] \in PosType
    BY <1>1, <2>1, <2>2 DEF PosType
  <2>5. QED BY <2>1, <2>3, <2>4
<1>7. CASE SettleGet
  <2>1. More /\ Current \in Instruments
    BY <1>7, CurrentType DEF SettleGet, At, Places, Leaving
  <2>2. pos' = [pos EXCEPT ![Current] = [pos[Current] EXCEPT !.exit = pos[Current].sold]]
    BY <1>1, <1>7, <2>1 DEF SettleGet, PosType
  <2>3. [pos[Current] EXCEPT !.exit = pos[Current].sold] \in PosType
    BY <1>1, <2>1 DEF PosType
  <2>4. QED BY <2>1, <2>2, <2>3
<1>8. CASE SaveCooldown
  <2>1. More /\ Current \in Instruments
    BY <1>8, CurrentType DEF SaveCooldown, At, Places, Leaving
  <2>2. pos' = [pos EXCEPT ![Current] = [pos[Current] EXCEPT !.phase = "COOLDOWN"]]
    BY <1>1, <1>8, <2>1 DEF SaveCooldown, PosType
  <2>3. [pos[Current] EXCEPT !.phase = "COOLDOWN"] \in PosType
    BY <1>1, <2>1 DEF PosType, Phases
  <2>4. QED BY <2>1, <2>2, <2>3
<1>9. CASE CooldownElapses
  <2>1. More /\ NoPosition \in PosType
    BY <1>9, Constants DEF CooldownElapses, Visits, NoPosition, PosType, Phases
  <2>2. QED BY <1>9, <2>1 DEF CooldownElapses
<1>10. QED BY <1>2, <1>3, <1>4, <1>5, <1>6, <1>7, <1>8, <1>9 DEF Next, vars, StartTick, LoopEnds,
              NothingToDo, Hold, SellRaises, ResumeExit, SettleWaits, SettleAdd, CheckLimit,
              TrackerEdits, TrackerPosts, PostFails, TrackerSetsId, TickDies, PassRaises,
              SquareoffTime, DropPick

\* The tick: started, ended, at the next instrument, or at another label.
LEMMA TickStep == PassInv /\ [Next]_vars => tick' \in TickType
<1> SUFFICES ASSUME PassInv, [Next]_vars PROVE tick' \in TickType
  OBVIOUS
<1> USE DEF PassInv
<1>1. tick \in TickType /\ listed \subseteq Dynamic /\ tick.cur \in 0..TopQuote
  BY DEF Types, TickType
<1>2. NoTick \in TickType
  BY Constants DEF NoTick, TickType, Labels
<1>3. CASE StartTick
  <2>1. past \in BOOLEAN
    BY Zenon DEF Types
  <2>2. tick' = [NoTick EXCEPT !.pc = "next", !.past = past, !.at = 1, !.picks = listed]
    BY <1>3 DEF StartTick
  <2>3. 1 \in 0..Len(Order) + 1 /\ listed \in SUBSET Dynamic
    BY <1>1, Constants
  <2>4. QED BY <1>2, <2>1, <2>2, <2>3 DEF TickType, Labels
<1>4. CASE LoopEnds \/ TrackerPosts \/ SellAtMarket \/ SettleAdd \/ CheckLimit
  <2>1. CASE LoopEnds
    <3>1. tick' = [tick EXCEPT !.pc = "tracker", !.cur = 0] /\ 0 \in 0..TopQuote
      BY <2>1, Constants DEF LoopEnds
    <3>2. QED BY <1>1, <3>1 DEF TickType, Labels
  <2>2. CASE TrackerPosts \/ SellAtMarket \/ SettleAdd \/ CheckLimit
    BY <1>1, <2>2, GotoType DEF TrackerPosts, SellAtMarket, SettleAdd, CheckLimit, Labels
  <2>3. QED BY <1>4, <2>1, <2>2
<1>5. CASE TrackerEdits \/ PostFails \/ TrackerSetsId \/ TickDies
  BY <1>2, <1>5 DEF TrackerEdits, PostFails, TrackerSetsId, TickDies
<1>6. CASE NothingToDo \/ SettleWaits \/ SaveCooldown \/ CooldownElapses
  <2>1. More
    BY <1>6 DEF NothingToDo, SettleWaits, SaveCooldown, CooldownElapses, At, Visits, Places,
                Leaving
  <2>2. \E q \in (IF Current \in Instruments THEN Quotes[Current] ELSE {}) \cup {tick.cur} :
           Onward(q)
    BY <1>6, <2>1, CurrentType DEF NothingToDo, SettleWaits, SaveCooldown, CooldownElapses,
       PriceAfter
  <2>3. QED BY <1>1, <2>1, <2>2, QuoteType, OnwardType
<1>7. CASE SellRaises
  <2>1. More /\ Onward(0) /\ 0 \in 0..TopQuote
    BY <1>7, Constants DEF SellRaises, At, Places, Leaving
  <2>2. QED BY <1>1, <2>1, OnwardType
<1>8. CASE CheckEntryFill \/ Hold
  <2>1. More /\ Current \in Instruments
    BY <1>8, CurrentType DEF CheckEntryFill, Hold, At, Visits, Places, Entering
  <2>2. \E q \in Quotes[Current] \cup {tick.cur} : Onward(q)
    BY <1>8 DEF CheckEntryFill, Hold
  <2>3. QED BY <1>1, <2>1, <2>2, QuoteType, OnwardType
<1>9. CASE TryEnter \/ StopHit \/ ResumeExit
  <2>1. More /\ Current \in Instruments
    BY <1>9, CurrentType DEF TryEnter, StopHit, ResumeExit, Visits
  <2>2. PICK q \in Quotes[Current] \cup {tick.cur}, label \in {"fill", "settle"} :
           tick' = [tick EXCEPT !.pc = label, !.cur = q]
    BY <1>9 DEF TryEnter, StopHit, ResumeExit
  <2>3. q \in 0..TopQuote
    BY <1>1, <2>1, QuoteType
  <2>4. QED BY <1>1, <2>2, <2>3 DEF TickType, Labels
<1>10. CASE Squareoff
  <2>1. More /\ Current \in Instruments
    BY <1>10, CurrentType DEF Squareoff, Visits
  <2>2. PICK q \in Quotes[Current] \cup {0} :
           tick' = [tick EXCEPT !.pc = "sell", !.cur = IF q = 0 THEN @ ELSE q]
    BY <1>10 DEF Squareoff
  <2>3. q \in 0..TopQuote
    BY <2>1, QuoteType, Constants
  <2>4. QED BY <1>1, <2>2, <2>3 DEF TickType, Labels
<1>11. CASE SettleGet
  <2>1. total \in Int
    BY DEF Types
  <2>2. QED BY <1>1, <1>11, <2>1 DEF SettleGet, TickType, Labels
<1>12. CASE PassRaises
  <2>1. tick.at + 1 \in 0..Len(Order) + 1
    BY <1>12, Constants DEF PassRaises, More
  <2>2. Current \in Instruments /\ PriceSoFar \subseteq Quotes[Current] \cup {tick.cur}
    BY <1>12, CurrentType DEF PassRaises, PriceSoFar
  <2>3. PICK q \in PriceSoFar : Skip(q)
    BY <1>12 DEF PassRaises
  <2>4. q \in 0..TopQuote
    BY <1>1, <2>2, <2>3, QuoteType
  <2>5. QED BY <1>1, <2>1, <2>3, <2>4 DEF Skip, TickType, Labels
<1>13. CASE SquareoffTime \/ DropPick \/ UNCHANGED vars
  BY <1>1, <1>13 DEF SquareoffTime, DropPick, vars
<1>14. QED BY <1>3, <1>4, <1>5, <1>6, <1>7, <1>8, <1>9, <1>10, <1>11, <1>12, <1>13 DEF Next

LEMMA TypesStep == PassInv /\ [Next]_vars => Types'
<1> SUFFICES ASSUME PassInv, [Next]_vars PROVE Types'
  OBVIOUS
<1> USE DEF PassInv
<1>1. pos' \in [Instruments -> PosType]
  BY PositionStep, PositionType DEF Types
<1>2. tick' \in TickType
  BY TickStep
<1>3. past' \in BOOLEAN
  <2>1. past' = past \/ past' = TRUE
    BY DEF Next, vars, day, StartTick, LoopEnds, NothingToDo, TryEnter, CheckEntryFill, Hold,
       StopHit, Squareoff, SellAtMarket, SellRaises, ResumeExit, SettleGet, SettleWaits, SettleAdd,
       CheckLimit, SaveCooldown, CooldownElapses, TrackerEdits, TrackerPosts, PostFails,
       TrackerSetsId, TickDies, PassRaises, SquareoffTime, DropPick
  <2>2. QED BY <2>1, Zenon DEF Types
<1>4. blocked' \in BOOLEAN
  <2>1. CASE CheckLimit
    BY <2>1, Zenon DEF CheckLimit
  <2>2. CASE ~CheckLimit
    <3>1. blocked' = blocked
      BY <2>2 DEF Next, vars, StartTick, LoopEnds, NothingToDo, TryEnter, CheckEntryFill, Hold,
         StopHit, Squareoff, SellAtMarket, SellRaises, ResumeExit, SettleGet, SettleWaits,
         SettleAdd, SaveCooldown, CooldownElapses, TrackerEdits, TrackerPosts, PostFails,
         TrackerSetsId, TickDies, PassRaises, SquareoffTime, DropPick
    <3>2. QED BY <3>1, Zenon DEF Types
  <2>3. QED BY <2>1, <2>2
<1>5. known' \in BOOLEAN
  <2>1. known' = known \/ known' = TRUE
    BY DEF Next, vars, message, StartTick, LoopEnds, NothingToDo, TryEnter, CheckEntryFill, Hold,
       StopHit, Squareoff, SellAtMarket, SellRaises, ResumeExit, SettleGet, SettleWaits, SettleAdd,
       CheckLimit, SaveCooldown, CooldownElapses, TrackerEdits, TrackerPosts, PostFails,
       TrackerSetsId, TickDies, PassRaises, SquareoffTime, DropPick
  <2>2. QED BY <2>1, Zenon DEF Types
<1>6. listed' \subseteq Dynamic /\ posts' \in Nat
  <2>1. listed' = listed \/ \E i \in listed : listed' = listed \ {i}
    BY DEF Next, vars, day, StartTick, LoopEnds, NothingToDo, TryEnter, CheckEntryFill, Hold,
       StopHit, Squareoff, SellAtMarket, SellRaises, ResumeExit, SettleGet, SettleWaits, SettleAdd,
       CheckLimit, SaveCooldown, CooldownElapses, TrackerEdits, TrackerPosts, PostFails,
       TrackerSetsId, TickDies, PassRaises, SquareoffTime, DropPick
  <2>2. posts' = posts \/ posts' = posts + 1
    BY DEF Next, vars, message, StartTick, LoopEnds, NothingToDo, TryEnter, CheckEntryFill, Hold,
       StopHit, Squareoff, SellAtMarket, SellRaises, ResumeExit, SettleGet, SettleWaits, SettleAdd,
       CheckLimit, SaveCooldown, CooldownElapses, TrackerEdits, TrackerPosts, PostFails,
       TrackerSetsId, TickDies, PassRaises, SquareoffTime, DropPick
  <2>3. QED BY <2>1, <2>2 DEF Types
<1>7. trades' \in 0..MaxTrades /\ faults' \in 0..MaxFaults
  <2>1. trades' = trades \/ (trades < MaxTrades /\ trades' = trades + 1)
    BY DEF Next, vars, StartTick, LoopEnds, NothingToDo, TryEnter, CheckEntryFill, Hold,
       StopHit, Squareoff, SellAtMarket, SellRaises, ResumeExit, SettleGet, SettleWaits, SettleAdd,
       CheckLimit, SaveCooldown, CooldownElapses, TrackerEdits, TrackerPosts, PostFails,
       TrackerSetsId, TickDies, PassRaises, SquareoffTime, DropPick
  <2>2. faults' = faults \/ (faults < MaxFaults /\ faults' = faults + 1)
    BY DEF Next, vars, StartTick, LoopEnds, NothingToDo, TryEnter, CheckEntryFill, Hold,
       StopHit, Squareoff, SellAtMarket, SellRaises, ResumeExit, SettleGet, SettleWaits, SettleAdd,
       CheckLimit, SaveCooldown, CooldownElapses, TrackerEdits, TrackerPosts, PostFails,
       TrackerSetsId, TickDies, PassRaises, SquareoffTime, DropPick
  <2>3. QED BY <2>1, <2>2, Constants DEF Types
<1>8. total' \in Int
  <2>1. CASE SettleAdd
    <3>1. Current \in Instruments
      BY <2>1, CurrentType DEF SettleAdd, At, Places, Leaving
    <3>2. Profit(Current) \in Int
      BY <3>1, ProfitType
    <3>3. QED BY <2>1, <3>2 DEF SettleAdd, Types, TickType
  <2>2. CASE ~SettleAdd
    <3>1. total' = total
      BY <2>2 DEF Next, vars, StartTick, LoopEnds, NothingToDo, TryEnter, CheckEntryFill, Hold,
         StopHit, Squareoff, SellAtMarket, SellRaises, ResumeExit, SettleGet, SettleWaits,
         CheckLimit, SaveCooldown, CooldownElapses, TrackerEdits, TrackerPosts, PostFails,
         TrackerSetsId, TickDies, PassRaises, SquareoffTime, DropPick
    <3>2. QED BY <3>1 DEF Types
  <2>3. QED BY <2>1, <2>2
<1>9. QED BY <1>1, <1>2, <1>3, <1>4, <1>5, <1>6, <1>7, <1>8 DEF Types

\* Within an instrument the tick keeps its place, its picks and its clock.
LEMMA SamePlace ==
  ASSUME UNCHANGED <<tick.at, tick.picks>>
  PROVE  (More' <=> More) /\ Current' = Current /\ (Listed' <=> Listed)
  BY DEF More, Current, Listed

LEMMA PlacesStep == PassInv /\ [Next]_vars => Places'
<1> SUFFICES ASSUME PassInv, [Next]_vars PROVE Places'
  OBVIOUS
<1> USE DEF PassInv, Entering, Leaving, Booking
<1>1. /\ pos \in [Instruments -> PosType] /\ tick \in TickType
      /\ \A i \in Instruments : pos[i] \in PosType
      /\ tick.at \in Nat /\ tick.cur \in 0..TopQuote
  BY Constants DEF Types, TickType
<1>2. CASE StartTick
  BY <1>1, <1>2 DEF StartTick, NoTick, Places, day
<1>3. CASE LoopEnds \/ TrackerPosts
  <2>1. UNCHANGED <<tick.at, tick.picks, listed>> /\ ~More /\ tick.pc # "down"
        /\ tick'.pc \in {"tracker", "set"}
    BY <1>1, <1>3, GotoType DEF LoopEnds, TrackerPosts, Labels, Places, At, TickType, day
  <2>2. QED BY <2>1, SamePlace DEF Places
<1>4. CASE TrackerEdits \/ PostFails \/ TrackerSetsId \/ TickDies
  <2>1. tick' = NoTick
    BY <1>4 DEF TrackerEdits, PostFails, TrackerSetsId, TickDies
  <2>2. QED BY <2>1 DEF Places, NoTick, More
<1>5. CASE NothingToDo \/ SettleWaits \/ SaveCooldown \/ CooldownElapses \/ SellRaises
           \/ CheckEntryFill \/ Hold
  <2>1. More /\ listed' = listed /\ tick.pc # "down"
    BY <1>5 DEF NothingToDo, SettleWaits, SaveCooldown, CooldownElapses, SellRaises,
                CheckEntryFill, Hold, At, Visits, Places, day
  <2>2. \E q \in (IF Current \in Instruments THEN Quotes[Current] ELSE {}) \cup {tick.cur, 0} :
           Onward(q)
    BY <1>5, <2>1, CurrentType DEF NothingToDo, SettleWaits, SaveCooldown, CooldownElapses,
       SellRaises, CheckEntryFill, Hold, PriceAfter
  <2>3. tick'.pc = "next" /\ tick'.at = tick.at + 1 /\ tick'.picks = tick.picks
    BY <1>1, <2>2 DEF Onward, TickType
  <2>4. QED BY <1>1, <2>1, <2>3 DEF Places
<1>6. CASE TryEnter
  <2>1. /\ UNCHANGED <<tick.at, tick.picks, tick.past, listed>> /\ tick'.pc = "fill"
        /\ tick.pc = "next" /\ More /\ Listed /\ ~tick.past
    BY <1>1, <1>6 DEF TryEnter, TickType, At, Visits, EntryAllowed, day
  <2>2. pos'[Current].phase = "ENTERING"
    BY <1>1, <1>6, <2>1, CurrentType DEF TryEnter, NoPosition
  <2>3. QED BY <2>1, <2>2, SamePlace DEF Places
<1>7. CASE StopHit \/ ResumeExit
  <2>1. /\ UNCHANGED <<tick.at, tick.picks, listed>> /\ tick'.pc = "settle"
        /\ tick.pc = "next" /\ More /\ Listed
    BY <1>1, <1>7 DEF StopHit, ResumeExit, TickType, At, Visits, day
  <2>2. pos'[Current].phase = "EXITING"
    <3>1. CASE ResumeExit
      BY <3>1 DEF ResumeExit, Visits
    <3>2. CASE StopHit
      <4>1. PICK q \in Quotes[Current] :
              pos' = [pos EXCEPT ![Current].phase = "EXITING", ![Current].exit = SaleAt(q),
                                 ![Current].sold = SaleAt(q)]
        BY <3>2 DEF StopHit
      <4>2. QED BY <1>1, <2>1, <4>1, CurrentType DEF PosType
    <3>3. QED BY <1>7, <3>1, <3>2
  <2>3. QED BY <2>1, <2>2, SamePlace DEF Places
<1>8. CASE Squareoff
  <2>1. /\ UNCHANGED <<tick.at, tick.picks, listed>> /\ tick'.pc = "sell"
        /\ tick.pc = "next" /\ More /\ Listed
    BY <1>1, <1>8 DEF Squareoff, TickType, At, Visits, day
  <2>2. pos'[Current].phase = "EXITING"
    BY <1>1, <1>8, <2>1, CurrentType DEF Squareoff, PosType
  <2>3. QED BY <2>1, <2>2, SamePlace DEF Places
<1>9. CASE SellAtMarket
  <2>1. /\ UNCHANGED <<tick.at, tick.picks, listed>> /\ tick'.pc = "settle"
        /\ tick.pc = "sell" /\ More /\ Listed /\ pos[Current].phase = "EXITING"
    BY <1>1, <1>9, GotoType DEF SellAtMarket, Labels, At, Places, day
  <2>2. pos'[Current].phase = "EXITING"
    BY <1>1, <1>9, <2>1, CurrentType DEF SellAtMarket, PosType
  <2>3. QED BY <2>1, <2>2, SamePlace DEF Places
<1>10. CASE SettleGet
  <2>1. /\ UNCHANGED <<tick.at, tick.picks, listed>> /\ tick'.pc = "add" /\ tick'.read = total
        /\ tick.pc = "settle" /\ More /\ Listed /\ pos[Current].phase = "EXITING"
        /\ total' = total
    BY <1>1, <1>10 DEF SettleGet, TickType, At, Places, day
  <2>2. pos'[Current].phase = "EXITING" /\ pos'[Current].sold # 0 /\ pos'[Current].entry # 0
    BY <1>1, <1>10, <2>1, CurrentType DEF SettleGet, PosType
  <2>3. QED BY <2>1, <2>2, SamePlace DEF Places
<1>11. CASE SettleAdd \/ CheckLimit
  <2>1. /\ UNCHANGED <<tick.at, tick.picks, listed, pos>> /\ tick'.pc \in {"limit", "save"}
        /\ tick.pc \in {"add", "limit"}
    BY <1>1, <1>11, GotoType DEF SettleAdd, CheckLimit, Labels, At, day
  <2>2. QED BY <2>1, SamePlace DEF Places
<1>12. CASE PassRaises
  <2>1. tick'.pc = "next" /\ tick'.at = tick.at + 1 /\ tick'.picks = tick.picks /\ More
        /\ listed' = listed
    BY <1>1, <1>12 DEF PassRaises, Skip, TickType, day
  <2>2. QED BY <1>1, <2>1 DEF Places
<1>13. CASE SquareoffTime \/ DropPick \/ UNCHANGED vars
  <2>1. UNCHANGED <<tick, pos, total>> /\ listed' \subseteq listed
    BY <1>13 DEF SquareoffTime, DropPick, vars
  <2>2. (More' <=> More) /\ Current' = Current /\ (Listed' <=> Listed)
    BY <2>1, SamePlace
  <2>3. QED BY <2>1, <2>2 DEF Places
<1>14. QED BY <1>2, <1>3, <1>4, <1>5, <1>6, <1>7, <1>8, <1>9, <1>10, <1>11, <1>12, <1>13 DEF Next

\* The course of a position: how each action may change it.
Course(i) ==
    \/ /\ TryEnter /\ pos[i].phase = "IDLE"
       /\ pos'[i].phase = "ENTERING" /\ pos'[i].bought # 0 /\ pos'[i].entry = 0
    \/ /\ CheckEntryFill /\ ~tick.past /\ pos[i].phase = "ENTERING"
       /\ pos'[i].phase = "OPEN" /\ pos'[i].entry = pos[i].bought
       /\ pos'[i].bought = pos[i].bought
    \/ /\ \/ /\ StopHit /\ ~tick.past /\ pos[i].phase = "OPEN" /\ pos'[i].phase = "EXITING"
          \/ /\ Squareoff /\ pos[i].phase \in SquaredOff /\ pos'[i].phase = "EXITING"
          \/ /\ SellAtMarket \/ SettleGet
             /\ pos[i].phase = "EXITING" /\ pos'[i].phase = "EXITING"
          \/ /\ SaveCooldown /\ pos[i].phase = "EXITING" /\ pos'[i].phase = "COOLDOWN"
             /\ pos'[i].entry # 0 /\ pos'[i].sold # 0
       /\ pos'[i].bought = pos[i].bought /\ pos'[i].entry = pos[i].entry
    \/ /\ CooldownElapses /\ ~tick.past /\ pos[i].phase = "COOLDOWN" /\ pos'[i].phase = "IDLE"
       /\ pos'[i].bought = 0 /\ pos'[i].entry = 0

LEMMA CourseStep ==
  ASSUME PassInv, [Next]_vars
  PROVE  \/ UNCHANGED pos
         \/ /\ More /\ Current \in Instruments /\ Course(Current)
            /\ \A i \in Instruments : i # Current => pos'[i] = pos[i]
<1> USE DEF PassInv
<1>1. /\ pos \in [Instruments -> PosType]
      /\ \A i \in Instruments : pos[i] \in PosType
  BY DEF Types
<1>2. CASE UNCHANGED pos
  BY <1>2
<1>3. ASSUME More, NEW p \in PosType, pos' = [pos EXCEPT ![Current] = p] 
      PROVE  \A i \in Instruments : i # Current => pos'[i] = pos[i]
  BY <1>1, <1>3, PositionType
<1>4. More /\ Current \in Instruments =>
         /\ TryEnter => Course(Current)
         /\ CheckEntryFill => Course(Current)
  <2> SUFFICES ASSUME More, Current \in Instruments
               PROVE  (TryEnter => Course(Current)) /\ (CheckEntryFill => Course(Current))
    OBVIOUS
  <2>1. ASSUME TryEnter PROVE Course(Current)
    <3>1. PICK q \in Quotes[Current] :
            pos' = [pos EXCEPT ![Current] =
                         [NoPosition EXCEPT !.phase = "ENTERING", !.bought = q + HalfSpread]]
      BY <2>1 DEF TryEnter
    <3>2. q + HalfSpread # 0
      BY QuoteType, Constants
    <3>3. pos'[Current].phase = "ENTERING" /\ pos'[Current].bought # 0 /\ pos'[Current].entry = 0
      BY <1>1, <3>1, <3>2 DEF NoPosition
    <3>4. pos[Current].phase = "IDLE"
      BY <2>1 DEF TryEnter, Visits
    <3>5. QED BY <2>1, <3>3, <3>4 DEF Course
  <2>2. ASSUME CheckEntryFill PROVE Course(Current)
    <3>1. pos[Current].phase = "ENTERING" /\ ~tick.past
      BY <2>2 DEF CheckEntryFill, Visits, At, Places, Entering
    <3>2. /\ pos'[Current].phase = "OPEN" /\ pos'[Current].entry = pos[Current].bought
          /\ pos'[Current].bought = pos[Current].bought
      BY <1>1, <2>2 DEF CheckEntryFill, PosType
    <3>3. QED BY <2>2, <3>1, <3>2 DEF Course
  <2>3. QED BY <2>1, <2>2
<1>5. More /\ Current \in Instruments =>
         /\ StopHit => Course(Current)
         /\ Squareoff => Course(Current)
  <2> SUFFICES ASSUME More, Current \in Instruments
               PROVE  (StopHit => Course(Current)) /\ (Squareoff => Course(Current))
    OBVIOUS
  <2>1. ASSUME StopHit PROVE Course(Current)
    <3>1. PICK q \in Quotes[Current] :
            pos' = [pos EXCEPT ![Current].phase = "EXITING", ![Current].exit = SaleAt(q),
                               ![Current].sold = SaleAt(q)]
      BY <2>1 DEF StopHit
    <3>2. /\ pos'[Current].phase = "EXITING"
          /\ pos'[Current].bought = pos[Current].bought /\ pos'[Current].entry = pos[Current].entry
      BY <1>1, <3>1 DEF PosType
    <3>3. pos[Current].phase = "OPEN" /\ ~tick.past
      BY <2>1 DEF StopHit, Visits
    <3>4. QED BY <2>1, <3>2, <3>3 DEF Course
  <2>2. ASSUME Squareoff PROVE Course(Current)
    <3>1. PICK q \in Quotes[Current] \cup {0} :
            pos' = [pos EXCEPT ![Current].phase = "EXITING", ![Current].exit = q]
      BY <2>2 DEF Squareoff
    <3>2. /\ pos'[Current].phase = "EXITING"
          /\ pos'[Current].bought = pos[Current].bought /\ pos'[Current].entry = pos[Current].entry
      BY <1>1, <3>1 DEF PosType
    <3>3. pos[Current].phase \in SquaredOff
      BY <2>2 DEF Squareoff, Visits
    <3>4. QED BY <2>2, <3>2, <3>3 DEF Course
  <2>3. QED BY <2>1, <2>2
<1>6. More /\ Current \in Instruments =>
         /\ SellAtMarket \/ SettleGet => Course(Current)
         /\ SaveCooldown => Course(Current)
         /\ CooldownElapses => Course(Current)
  <2> SUFFICES ASSUME More, Current \in Instruments
               PROVE  /\ SellAtMarket \/ SettleGet => Course(Current)
                      /\ SaveCooldown => Course(Current)
                      /\ CooldownElapses => Course(Current)
    OBVIOUS
  <2>1. ASSUME SellAtMarket \/ SettleGet PROVE Course(Current)
    <3>1. pos[Current].phase = "EXITING"
      BY <2>1 DEF SellAtMarket, SettleGet, At, Places, Leaving
    <3>2. /\ pos'[Current].phase = pos[Current].phase
          /\ pos'[Current].bought = pos[Current].bought /\ pos'[Current].entry = pos[Current].entry
      BY <1>1, <2>1 DEF SellAtMarket, SettleGet, PosType
    <3>3. QED BY <2>1, <3>1, <3>2 DEF Course
  <2>2. ASSUME SaveCooldown PROVE Course(Current)
    <3>1. pos[Current].phase = "EXITING" /\ pos[Current].entry # 0 /\ pos[Current].sold # 0
      BY <2>2 DEF SaveCooldown, At, Places, Leaving, Booking
    <3>2. /\ pos'[Current].phase = "COOLDOWN" /\ pos'[Current].entry = pos[Current].entry
          /\ pos'[Current].sold = pos[Current].sold /\ pos'[Current].bought = pos[Current].bought
      BY <1>1, <2>2 DEF SaveCooldown, PosType
    <3>3. QED BY <2>2, <3>1, <3>2 DEF Course
  <2>3. ASSUME CooldownElapses PROVE Course(Current)
    <3>1. pos[Current].phase = "COOLDOWN" /\ ~tick.past
      BY <2>3 DEF CooldownElapses, Visits
    <3>2. pos'[Current].phase = "IDLE" /\ pos'[Current].bought = 0 /\ pos'[Current].entry = 0
      BY <1>1, <2>3 DEF CooldownElapses, NoPosition
    <3>3. QED BY <2>3, <3>1, <3>2 DEF Course
  <2>4. QED BY <2>1, <2>2, <2>3
<1>7. \/ UNCHANGED pos
      \/ TryEnter \/ CheckEntryFill \/ StopHit \/ Squareoff \/ SellAtMarket \/ SettleGet
      \/ SaveCooldown \/ CooldownElapses
  BY DEF Next, vars, StartTick, LoopEnds, NothingToDo, Hold, SellRaises, ResumeExit, SettleWaits,
     SettleAdd, CheckLimit, TrackerEdits, TrackerPosts, PostFails, TrackerSetsId, TickDies,
     PassRaises, SquareoffTime, DropPick
<1>8. QED BY <1>2, <1>3, <1>4, <1>5, <1>6, <1>7, PositionStep, CurrentType

LEMMA PremiumsStep == PassInv /\ [Next]_vars => Premiums'
<1> SUFFICES ASSUME PassInv, [Next]_vars, NEW i \in Instruments
             PROVE  /\ pos'[i].phase = "ENTERING" => pos'[i].bought # 0
                    /\ pos'[i].phase = "OPEN" => pos'[i].entry # 0
                    /\ pos'[i].phase = "COOLDOWN" => pos'[i].entry # 0 /\ pos'[i].sold # 0
  BY DEF Premiums
<1>1. CASE pos'[i] = pos[i]
  BY <1>1 DEF PassInv, Premiums
<1>2. CASE pos'[i] # pos[i]
  BY <1>2, CourseStep DEF Course, PassInv, Premiums
<1>3. QED BY <1>1, <1>2

LEMMA PassStep == PassInv /\ [Next]_vars => PassInv'
  BY TypesStep, PlacesStep, PremiumsStep DEF PassInv

-----------------------------------------------------------------------------
(* The message. *)

\* While no message is known, and none is about to be, each one posted so far
\* cost a fault.
PostsCounted ==
    /\ posts <= 1 + faults
    /\ ~known /\ tick.pc # "set" => posts <= faults

LEMMA PostsStep == PassInv /\ PostsCounted /\ [Next]_vars => PostsCounted'
<1> SUFFICES ASSUME PassInv, PostsCounted, [Next]_vars PROVE PostsCounted'
  OBVIOUS
<1>1. posts \in Nat /\ faults \in Nat /\ faults' \in Nat /\ tick \in TickType
  <2>1. Types' BY TypesStep
  <2>2. QED BY <2>1, Constants DEF PassInv, Types
<1>2. CASE TrackerPosts
  <2>1. tick'.pc = "set" /\ tick.pc = "tracker" /\ ~known
    BY <1>1, <1>2, GotoType DEF TrackerPosts, Labels, At
  <2>2. QED BY <1>1, <1>2, <2>1 DEF TrackerPosts, PostsCounted
<1>3. CASE TrackerSetsId
  BY <1>3 DEF TrackerSetsId, PostsCounted
<1>4. CASE TickDies \/ PassRaises
  BY <1>1, <1>4 DEF TickDies, PassRaises, PostsCounted, message
<1>5. CASE UNCHANGED <<posts, known, faults>> /\ tick.pc # "set"
  BY <1>5 DEF PostsCounted
<1>6. CASE UNCHANGED <<posts, known, faults, tick>>
  BY <1>6 DEF PostsCounted
<1>7. ASSUME tick.pc = "set", Next
      PROVE  TrackerSetsId \/ TickDies \/ PassRaises \/ SquareoffTime \/ DropPick
  BY <1>7 DEF Next, At, Visits, StartTick, LoopEnds, NothingToDo, TryEnter, CheckEntryFill,
     Hold, StopHit, Squareoff, SellAtMarket, SellRaises, ResumeExit, SettleGet, SettleWaits,
     SettleAdd, CheckLimit, SaveCooldown, CooldownElapses, TrackerEdits, TrackerPosts, PostFails
<1>8. CASE SquareoffTime \/ DropPick \/ UNCHANGED vars
  BY <1>6, <1>8 DEF SquareoffTime, DropPick, vars, message
<1>9. \/ UNCHANGED <<posts, known, faults>>
      \/ TrackerPosts \/ TrackerSetsId \/ TickDies \/ PassRaises
  BY DEF Next, vars, message, StartTick, LoopEnds, NothingToDo, TryEnter, CheckEntryFill,
     Hold, StopHit, Squareoff, SellAtMarket, SellRaises, ResumeExit, SettleGet, SettleWaits,
     SettleAdd, CheckLimit, SaveCooldown, CooldownElapses, TrackerEdits, PostFails,
     SquareoffTime, DropPick
<1>10. QED BY <1>2, <1>3, <1>4, <1>5, <1>7, <1>8, <1>9

\* One Discord message a day: a second one takes a tick that died between
\* creating the first and keeping its id.
THEOREM OneMessageADay == Spec => []OneMessage
<1>1. Init => PostsCounted
  BY Constants DEF Init, PostsCounted
<1>2. PostsCounted => OneMessage
  BY DEF PostsCounted, OneMessage
<1>3. QED BY <1>1, <1>2, InitPass, PassStep, PostsStep, PTL DEF Spec

-----------------------------------------------------------------------------
(* The breaker. *)

\* A day at its limit is blocked by the time the trade in settlement leaves EXITING.
Blocking ==
    /\ BreakerFollowsLoss
    /\ tick.pc = "save" => (total <= LossLimit => blocked)

LEMMA BlockingStep == PassInv /\ Blocking /\ [Next]_vars => Blocking'
<1> SUFFICES ASSUME PassInv, Blocking, [Next]_vars PROVE Blocking'
  OBVIOUS
<1> USE DEF Blocking, BreakerFollowsLoss
<1>1. tick \in TickType /\ LossLimit' = LossLimit
  BY DEF PassInv, Types, LossLimit
<1>2. CASE SettleAdd
  <2>1. /\ UNCHANGED <<pos, blocked>> /\ tick'.pc = "limit" /\ tick.pc = "add"
    BY <1>1, <1>2, GotoType DEF SettleAdd, Labels, At
  <2>2. Current \in Instruments /\ pos[Current].phase = "EXITING"
    BY <2>1, CurrentType DEF PassInv, Places, Leaving
  <2>3. QED BY <2>1, <2>2
<1>3. CASE CheckLimit
  <2>1. UNCHANGED <<pos, total>> /\ blocked' = (blocked \/ total <= LossLimit)
    BY <1>3 DEF CheckLimit
  <2>2. total <= LossLimit => blocked'
    BY <2>1, Zenon
  <2>3. QED BY <1>1, <2>1, <2>2
<1>4. CASE SaveCooldown
  <2>1. UNCHANGED <<total, blocked>> /\ tick.pc = "save"
    BY <1>4 DEF SaveCooldown, At
  <2>2. QED BY <1>1, <2>1
<1>5. CASE ~SettleAdd /\ ~CheckLimit /\ ~SaveCooldown
  <2>1. UNCHANGED <<total, blocked>>
    BY <1>5 DEF Next, vars, StartTick, LoopEnds, NothingToDo, TryEnter, CheckEntryFill, Hold,
       StopHit, Squareoff, SellAtMarket, SellRaises, ResumeExit, SettleGet, SettleWaits,
       CooldownElapses, TrackerEdits, TrackerPosts, PostFails, TrackerSetsId, TickDies,
       PassRaises, SquareoffTime, DropPick
  <2>2. \A i \in Instruments : pos[i].phase = "EXITING" => pos'[i].phase = "EXITING"
    BY <1>5, CourseStep DEF Course, SquaredOff
  <2>3. tick'.pc = "save" => tick.pc = "save"
    <3>1. CASE StartTick \/ PassRaises
      BY <1>1, <3>1 DEF StartTick, PassRaises, Skip, NoTick, TickType
    <3>6. CASE TrackerEdits \/ PostFails \/ TrackerSetsId \/ TickDies
      BY <3>6 DEF TrackerEdits, PostFails, TrackerSetsId, TickDies, NoTick
    <3>2. CASE NothingToDo \/ CheckEntryFill \/ Hold \/ SellRaises \/ SettleWaits
               \/ CooldownElapses
      BY <1>1, <3>2 DEF NothingToDo, CheckEntryFill, Hold, SellRaises, SettleWaits,
         CooldownElapses, Onward, TickType
    <3>3. CASE LoopEnds \/ SellAtMarket \/ TrackerPosts
      BY <1>1, <3>3 DEF LoopEnds, SellAtMarket, TrackerPosts, Goto, TickType
    <3>4. CASE TryEnter \/ StopHit \/ Squareoff \/ ResumeExit \/ SettleGet
      BY <1>1, <3>4 DEF TryEnter, StopHit, Squareoff, ResumeExit, SettleGet, TickType
    <3>5. CASE SquareoffTime \/ DropPick \/ UNCHANGED vars
      BY <3>5 DEF SquareoffTime, DropPick, vars
    <3>7. QED BY <1>5, <3>1, <3>2, <3>3, <3>4, <3>5, <3>6 DEF Next
  <2>4. QED BY <1>1, <2>1, <2>2, <2>3
<1>6. QED BY <1>2, <1>3, <1>4, <1>5

\* Wherever a tick dies, a day at or below its loss limit is blocked, or some trade
\* is still EXITING, and looks at the limit when it settles.
THEOREM BreakerHolds == Spec => []BreakerFollowsLoss
<1>1. Init => Blocking
  BY Constants DEF Init, Blocking, BreakerFollowsLoss, NoTick
<1>2. Blocking => BreakerFollowsLoss
  BY DEF Blocking
<1>3. QED BY <1>1, <1>2, InitPass, PassStep, BlockingStep, PTL DEF Spec

-----------------------------------------------------------------------------
(* The square-off. *)

\* What a clean tick after 15:10 has left unsold is still ahead of it, or no
\* longer on the list.
Ahead(i) == \E k \in 1..Len(Order) : k >= tick.at /\ Order[k] = i

Swept ==
    tick.pc # "down" /\ tick.past /\ tick.clean =>
        \A i \in Instruments : Unsold(i) => i \in Dynamic \ listed \/ Ahead(i)

LEMMA SweptStep == PassInv /\ Swept /\ [Next]_vars => Swept'
<1> SUFFICES ASSUME PassInv, Swept, [Next]_vars,
                    tick'.pc # "down", tick'.past, tick'.clean,
                    NEW i \in Instruments, Unsold(i)'
             PROVE  i \in Dynamic \ listed' \/ Ahead(i)'
  BY DEF Swept
<1>1. tick \in TickType /\ tick.at \in Nat
  BY Constants DEF PassInv, Types, TickType
<1>2. CASE StartTick
  <2>1. tick'.at = 1
    BY <1>2 DEF StartTick, NoTick
  <2>2. PICK k \in 1..Len(Order) : Order[k] = i
    BY DEF Instruments
  <2>3. QED BY <2>1, <2>2, Constants DEF Ahead
<1>3. CASE TrackerEdits \/ PostFails \/ TrackerSetsId \/ TickDies
  BY <1>3 DEF TrackerEdits, PostFails, TrackerSetsId, TickDies, NoTick
<1>4. CASE PassRaises
  BY <1>1, <1>4 DEF PassRaises, Skip, TickType
<1>5. ASSUME tick.pc # "down", tick.past, tick.clean, listed' \subseteq listed,
             UNCHANGED tick.at
      PROVE  i \in Dynamic \ listed' \/ Ahead(i)'
  <2>1. Unsold(i)
    BY <1>5, CourseStep DEF Course, Unsold, SquaredOff, TryEnter, EntryAllowed
  <2>2. QED BY <1>5, <2>1 DEF Swept, Ahead
<1>6. ASSUME tick.pc # "down", tick.past, tick.clean, listed' = listed,
             tick'.at = tick.at + 1, More,
             i = Current => i \in Dynamic \ listed
      PROVE  i \in Dynamic \ listed' \/ Ahead(i)'
  <2>1. CASE i = Current
    BY <1>6, <2>1
  <2>2. CASE i # Current
    <3>1. Unsold(i)
      BY <1>6, <2>2, CourseStep DEF Unsold
    <3>2. ASSUME NEW k \in 1..Len(Order), k >= tick.at, Order[k] = i PROVE Ahead(i)'
      <4>1. k # tick.at
        BY <2>2, <3>2 DEF Current
      <4>2. k >= tick.at + 1
        BY <1>1, <3>2, <4>1
      <4>3. QED BY <1>6, <3>2, <4>2 DEF Ahead
    <3>3. QED BY <1>6, <3>1, <3>2 DEF Swept, Ahead
  <2>3. QED BY <2>1, <2>2
<1>7. CASE NothingToDo
  <2>1. /\ More /\ tick.pc = "next" /\ tick.past /\ tick.clean /\ listed' = listed
        /\ tick'.at = tick.at + 1 /\ pos' = pos
    BY <1>1, <1>7 DEF NothingToDo, At, Onward, TickType, day
  <2>2. CASE Listed
    BY <1>6, <1>7, <2>1, <2>2 DEF NothingToDo, Unsold, SquaredOff
  <2>3. CASE ~Listed
    BY <1>6, <2>1, <2>3 DEF Listed, PassInv, Places
  <2>4. QED BY <2>2, <2>3
<1>8. CASE SettleWaits \/ SellRaises \/ SaveCooldown
  <2>1. /\ tick.pc \in Leaving /\ tick.past /\ tick.clean /\ listed' = listed
        /\ tick'.at = tick.at + 1
    BY <1>1, <1>8 DEF SettleWaits, SellRaises, SaveCooldown, At, Onward, TickType, day, Leaving
  <2>2. More /\ tick.pc # "down" /\ pos[Current].phase = "EXITING"
    BY <2>1 DEF PassInv, Places, Leaving
  <2>3. i = Current => pos'[i].phase \in {"EXITING", "COOLDOWN"}
    BY <1>8, <2>2, CourseStep DEF Course, SquaredOff
  <2>4. QED BY <1>6, <2>1, <2>2, <2>3 DEF Unsold
<1>9. CASE CheckEntryFill \/ Hold \/ CooldownElapses \/ TryEnter
  <2>1. ~tick.past
    BY <1>9 DEF CheckEntryFill, Hold, CooldownElapses, TryEnter, EntryAllowed, At, PassInv,
                Places, Entering
  <2>2. tick'.past = tick.past
    BY <1>1, <1>9 DEF CheckEntryFill, Hold, CooldownElapses, TryEnter, Onward, TickType
  <2>3. QED BY <2>1, <2>2
<1>10. CASE LoopEnds \/ StopHit \/ Squareoff \/ SellAtMarket \/ ResumeExit \/ SettleGet
            \/ SettleAdd \/ CheckLimit \/ TrackerPosts
  <2>1. UNCHANGED <<tick.at, tick.past, tick.clean, listed>> /\ tick.pc # "down"
    BY <1>1, <1>10 DEF LoopEnds, StopHit, Squareoff, SellAtMarket, ResumeExit, SettleGet,
       SettleAdd, CheckLimit, TrackerPosts, Goto, At, Visits, TickType, day
  <2>2. QED BY <1>5, <2>1
<1>11. CASE SquareoffTime \/ DropPick \/ UNCHANGED vars
  BY <1>5, <1>11 DEF SquareoffTime, DropPick, vars
<1>12. QED BY <1>2, <1>3, <1>4, <1>7, <1>8, <1>9, <1>10, <1>11 DEF Next

\* After 15:10 a tick in which no pass raises sells whatever is OPEN or ENTERING
\* and still on its list; what a pick takes with it when it leaves is all that
\* can stay behind.
THEOREM SquareoffReaches == Spec => []SquareoffReachesListed
<1>1. Init => Swept
  BY DEF Init, Swept, NoTick
<1>2. PassInv /\ Swept => SquareoffReachesListed
  <2> SUFFICES ASSUME PassInv, Swept, AfterSquareoff, NEW i \in Instruments, Unsold(i)
               PROVE  i \in Dynamic \ listed
    BY DEF SquareoffReachesListed
  <2>1. ~More /\ tick.at >= 1 /\ tick.at \in Nat
    BY Constants DEF AfterSquareoff, At, PassInv, Places, Types, TickType
  <2>2. ~Ahead(i)
    BY <2>1, Constants DEF Ahead, More
  <2>3. QED BY <2>2 DEF AfterSquareoff, At, Swept
<1>3. QED BY <1>1, <1>2, InitPass, PassStep, SweptStep, PTL DEF Spec

-----------------------------------------------------------------------------
(* How far the day's P&L can move. *)

Unsettled == {i \in Instruments : pos[i].phase \in {"ENTERING", "OPEN", "EXITING"}}

\* The settlements so far: one per trade that is no longer held, one for the
\* trade that is being booked, and one more per fault, which may book it again.
Settlements ==
    trades + faults - Cardinality(Unsettled) + IF tick.pc \in {"limit", "save"} THEN 1 ELSE 0

TotalBounded == total \in -(Settlements * Swing)..Settlements * Swing

LEMMA InstrumentsFinite ==
  ASSUME NEW S \in SUBSET Instruments
  PROVE  IsFiniteSet(S) /\ Cardinality(S) \in Nat
<1>1. IsFiniteSet(1..Len(Order))
  BY Constants, FS_Interval
<1>2. Order \in Surjection(1..Len(Order), Instruments)
  BY Constants DEF Surjection, Instruments
<1>3. IsFiniteSet(Instruments)
  BY <1>1, <1>2, FS_Surjection
<1>4. QED BY <1>3, FS_Subset, FS_CardinalityType

\* A number of settlements gains one, and the total moves by one result.
LEMMA OneMoreSettlement ==
  ASSUME NEW n \in Int, NEW h \in Nat, NEW x \in -(n * h)..n * h, NEW d \in -h..h
  PROVE  x + d \in -((n + 1) * h)..(n + 1) * h
<1>1. (n + 1) * h = n * h + h
  OBVIOUS
<1>2. QED BY <1>1

LEMMA MoreSettlements ==
  ASSUME NEW n \in Int, NEW m \in Int, n <= m, NEW h \in Nat, NEW x \in -(n * h)..n * h
  PROVE  x \in -(m * h)..m * h
<1>1. n * h <= m * h
  OBVIOUS
<1>2. n * h \in Int /\ m * h \in Int
  OBVIOUS
<1>3. QED BY <1>1, <1>2

LEMMA TotalStep == PassInv /\ TotalBounded /\ [Next]_vars => TotalBounded'
<1> SUFFICES ASSUME PassInv, TotalBounded, [Next]_vars PROVE TotalBounded'
  OBVIOUS
<1> DEFINE n == Settlements
           held == Cardinality(Unsettled)
<1>0. Unsettled \in SUBSET Instruments /\ Unsettled' \in SUBSET Instruments
  BY DEF Unsettled
<1>1. /\ n \in Int /\ held \in Nat /\ Swing \in Nat /\ trades \in Nat /\ faults \in Nat
      /\ tick \in TickType /\ total \in Int
      /\ Swing' = Swing
  BY <1>0, InstrumentsFinite, Constants DEF PassInv, Types, Settlements, Swing, Highest
<1>2. held' \in Nat
  BY <1>0, InstrumentsFinite
<1>3. ASSUME total' = total, Settlements' \in Int, n <= Settlements' PROVE TotalBounded'
  <2>1. total \in -(n * Swing)..n * Swing
    BY DEF TotalBounded
  <2>2. total \in -(Settlements' * Swing)..Settlements' * Swing
    BY <1>1, <1>3, <2>1, MoreSettlements
  <2>3. QED BY <1>1, <1>3, <2>2 DEF TotalBounded
<1>4. ASSUME UNCHANGED <<total, trades>>, Unsettled' = Unsettled, faults' \in Nat,
             \/ faults' = faults /\ (tick.pc \in {"limit", "save"} => tick'.pc \in {"limit", "save"})
             \/ faults' = faults + 1
      PROVE  TotalBounded'
  BY <1>1, <1>3, <1>4 DEF Settlements
\* All but an entry and a settlement's end leave the set of held positions.
<1>5. CASE ~TryEnter /\ ~SaveCooldown /\ ~SettleAdd
  <2>1. UNCHANGED <<total, trades>>
    BY <1>5 DEF Next, vars, StartTick, LoopEnds, NothingToDo, CheckEntryFill, Hold,
       StopHit, Squareoff, SellAtMarket, SellRaises, ResumeExit, SettleGet, SettleWaits,
       CheckLimit, CooldownElapses, TrackerEdits, TrackerPosts, PostFails, TrackerSetsId, TickDies,
       PassRaises, SquareoffTime, DropPick
  <2>2. Unsettled' = Unsettled
    <3>1. \A i \in Instruments : pos'[i].phase \in {"ENTERING", "OPEN", "EXITING"}
                                  <=> pos[i].phase \in {"ENTERING", "OPEN", "EXITING"}
      BY <1>5, CourseStep DEF Course, SquaredOff
    <3>2. QED BY <3>1 DEF Unsettled
  <2>3. faults' = faults \/ faults' = faults + 1
    BY DEF Next, vars, StartTick, LoopEnds, NothingToDo, TryEnter, CheckEntryFill, Hold,
       StopHit, Squareoff, SellAtMarket, SellRaises, ResumeExit, SettleGet, SettleWaits, SettleAdd,
       CheckLimit, SaveCooldown, CooldownElapses, TrackerEdits, TrackerPosts, PostFails,
       TrackerSetsId, TickDies, PassRaises, SquareoffTime, DropPick
  <2>4. ASSUME faults' = faults, tick.pc \in {"limit", "save"}
        PROVE  tick'.pc \in {"limit", "save"}
    <3>1. \/ CheckLimit \/ UNCHANGED tick
          \/ TickDies \/ PassRaises
      BY <1>5, <2>4 DEF Next, vars, At, Visits, StartTick, LoopEnds, NothingToDo, CheckEntryFill,
         Hold, StopHit, Squareoff, SellAtMarket, SellRaises, ResumeExit, SettleGet, SettleWaits,
         CooldownElapses, TrackerEdits, TrackerPosts, PostFails, TrackerSetsId, SquareoffTime,
         DropPick
    <3>2. ~TickDies /\ ~PassRaises
      BY <1>1, <2>4 DEF TickDies, PassRaises
    <3>3. CASE CheckLimit
      BY <1>1, <3>3 DEF CheckLimit, Goto, TickType
    <3>4. QED BY <2>4, <3>1, <3>2, <3>3
  <2>5. QED BY <1>1, <1>4, <2>1, <2>2, <2>3, <2>4
<1>6. CASE TryEnter
  <2>1. /\ total' = total /\ trades' = trades + 1 /\ faults' = faults /\ tick.pc = "next"
        /\ tick'.pc = "fill"
    BY <1>1, <1>6 DEF TryEnter, Visits, At, TickType
  <2>2. More /\ Current \in Instruments /\ pos[Current].phase = "IDLE"
    BY <1>6, CurrentType DEF TryEnter, Visits
  <2>3. Unsettled' = Unsettled \cup {Current}
    <3>1. pos'[Current].phase = "ENTERING"
             /\ \A i \in Instruments : i # Current => pos'[i] = pos[i]
      BY <1>6, <2>2 DEF TryEnter, NoPosition, PassInv, Types
    <3>2. QED BY <2>2, <3>1 DEF Unsettled
  <2>4. held' = held + 1
    <3>1. Current \notin Unsettled
      BY <2>2 DEF Unsettled
    <3>2. QED BY <1>0, <2>3, <3>1, InstrumentsFinite, FS_AddElement
  <2>5. QED BY <1>1, <1>3, <2>1, <2>4 DEF Settlements
<1>7. CASE SaveCooldown
  <2>1. /\ UNCHANGED <<total, trades, faults>> /\ tick.pc = "save" /\ tick'.pc = "next"
    BY <1>1, <1>7 DEF SaveCooldown, At, Onward, TickType
  <2>2. More /\ Current \in Instruments /\ pos[Current].phase = "EXITING"
    BY <2>1, CurrentType DEF PassInv, Places, Leaving
  <2>3. pos' = [pos EXCEPT ![Current].phase = "COOLDOWN"] /\ pos \in [Instruments -> PosType]
    BY <1>7 DEF SaveCooldown, PassInv, Types
  <2>4. Unsettled' = Unsettled \ {Current}
    <3>1. pos'[Current].phase = "COOLDOWN"
             /\ \A i \in Instruments : i # Current => pos'[i] = pos[i]
      BY <2>2, <2>3 DEF PosType
    <3>2. QED BY <2>2, <3>1 DEF Unsettled
  <2>5. held' = held - 1
    <3>1. Current \in Unsettled
      BY <2>2 DEF Unsettled
    <3>2. QED BY <1>0, <2>4, <3>1, InstrumentsFinite, FS_RemoveElement
  <2>6. QED BY <1>1, <1>3, <2>1, <2>5 DEF Settlements
<1>8. CASE SettleAdd
  <2>1. /\ UNCHANGED <<pos, trades, faults>> /\ tick.pc = "add" /\ tick'.pc = "limit"
        /\ total' = tick.read + Profit(Current)
    BY <1>1, <1>8, GotoType DEF SettleAdd, At, Labels
  <2>2. Current \in Instruments /\ tick.read = total
    BY <2>1, CurrentType DEF PassInv, Places, Leaving
  <2>3. Profit(Current) \in -Swing..Swing
    BY <2>2, ProfitType DEF PassInv
  <2>4. Settlements' = n + 1
    <3>1. held' = held
      BY <2>1 DEF Unsettled
    <3>2. QED BY <1>1, <2>1, <3>1 DEF Settlements
  <2>5. total' \in -((n + 1) * Swing)..(n + 1) * Swing
    <3>1. total \in -(n * Swing)..n * Swing
      BY DEF TotalBounded
    <3>2. QED BY <1>1, <2>1, <2>2, <2>3, <3>1, OneMoreSettlement
  <2>6. QED BY <1>1, <2>4, <2>5 DEF TotalBounded
<1>9. QED BY <1>5, <1>6, <1>7, <1>8

LEMMA TotalType == PassInv /\ TotalBounded => total \in Amounts
<1> SUFFICES ASSUME PassInv, TotalBounded PROVE total \in Amounts
  OBVIOUS
<1>1. /\ Unsettled \in SUBSET Instruments
      /\ tick.pc \in {"limit", "save"} => Unsettled # {}
  BY CurrentType DEF Unsettled, PassInv, Places, Leaving
<1>2. tick.pc \in {"limit", "save"} => Cardinality(Unsettled) # 0
  BY <1>1, InstrumentsFinite, FS_EmptySet
<1>3. /\ Cardinality(Unsettled) \in Nat /\ trades \in 0..MaxTrades /\ faults \in 0..MaxFaults
      /\ MaxTrades \in Nat /\ MaxFaults \in Nat
  BY <1>1, InstrumentsFinite, Constants DEF PassInv, Types
<1>4. Settlements \in Int /\ Settlements <= MaxTrades + MaxFaults
  BY <1>2, <1>3 DEF Settlements
<1>5. total \in -((MaxTrades + MaxFaults) * Swing)..(MaxTrades + MaxFaults) * Swing
  BY <1>3, <1>4, MoreSettlements, Constants DEF TotalBounded
<1>6. -(MaxTrades + MaxFaults) * Swing = -((MaxTrades + MaxFaults) * Swing)
  BY <1>3, Constants
<1>7. QED BY <1>5, <1>6 DEF Amounts

\* What a tick read of the P&L was once the P&L.
LEMMA ReadStep ==
  ASSUME PassInv, TotalBounded, tick.read \in Amounts, [Next]_vars
  PROVE  tick'.read \in Amounts
<1>1. tick \in TickType /\ total \in Amounts
  BY TotalType DEF PassInv, Types
<1>2. 0 \in Amounts
  <2>1. (MaxTrades + MaxFaults) * Swing \in Nat
    BY Constants
  <2>2. -(MaxTrades + MaxFaults) * Swing = -((MaxTrades + MaxFaults) * Swing)
    BY Constants
  <2>3. QED BY <2>1, <2>2 DEF Amounts
<1>3. CASE StartTick
  BY <1>2, <1>3 DEF StartTick, NoTick
<1>4. CASE TrackerEdits \/ PostFails \/ TrackerSetsId \/ TickDies
  BY <1>2, <1>4 DEF TrackerEdits, PostFails, TrackerSetsId, TickDies, NoTick
<1>5. CASE SettleGet
  BY <1>1, <1>5 DEF SettleGet, TickType
<1>6. CASE NothingToDo \/ CheckEntryFill \/ Hold \/ SellRaises \/ SettleWaits \/ SaveCooldown
           \/ CooldownElapses
  BY <1>1, <1>6 DEF NothingToDo, CheckEntryFill, Hold, SellRaises, SettleWaits, SaveCooldown,
     CooldownElapses, Onward, TickType
<1>7. CASE LoopEnds \/ SellAtMarket \/ SettleAdd \/ CheckLimit \/ TrackerPosts
  BY <1>1, <1>7 DEF LoopEnds, SellAtMarket, SettleAdd, CheckLimit, TrackerPosts, Goto, TickType
<1>8. CASE TryEnter \/ StopHit \/ Squareoff \/ ResumeExit \/ PassRaises
  BY <1>1, <1>8 DEF TryEnter, StopHit, Squareoff, ResumeExit, PassRaises, Skip, TickType
<1>9. CASE SquareoffTime \/ DropPick \/ UNCHANGED vars
  BY <1>9 DEF SquareoffTime, DropPick, vars
<1>10. QED BY <1>3, <1>4, <1>5, <1>6, <1>7, <1>8, <1>9 DEF Next

DayInv == PassInv /\ TotalBounded /\ tick.read \in Amounts

LEMMA InitDay == Init => DayInv
<1> SUFFICES ASSUME Init PROVE DayInv
  OBVIOUS
<1>1. Unsettled = {}
  BY DEF Init, Unsettled, NoPosition
<1>2. Cardinality(Unsettled) = 0
  BY <1>1, FS_EmptySet
<1>3. Settlements = 0
  BY <1>2 DEF Init, Settlements, NoTick
<1>4. total = 0 /\ tick.read = 0
  BY DEF Init, NoTick
<1>5. TotalBounded
  BY <1>3, <1>4, Constants DEF TotalBounded
<1>6. QED BY <1>4, <1>5, InitPass, TotalType DEF DayInv

LEMMA DayStep == DayInv /\ [Next]_vars => DayInv'
<1> SUFFICES ASSUME DayInv, [Next]_vars PROVE DayInv'
  OBVIOUS
<1>1. Amounts' = Amounts
  BY DEF Amounts, Swing, Highest
<1>2. QED BY <1>1, PassStep, TotalStep, ReadStep DEF DayInv

\* The type invariant: no trade is settled without its premium and its sale, and
\* the day's P&L moves by at most one price and one charge for each trade, and each
\* fault.
THEOREM TypeCorrect == Spec => []TypeOK
<1>1. DayInv => TypeOK
  <2> SUFFICES ASSUME DayInv PROVE TypeOK
    OBVIOUS
  <2>1. past \in BOOLEAN /\ blocked \in BOOLEAN /\ known \in BOOLEAN
    BY Zenon DEF DayInv, PassInv, Types
  <2>2. tick.past \in BOOLEAN /\ tick.clean \in BOOLEAN
    BY DEF DayInv, PassInv, Types, TickType
  <2>3. /\ tick.pc \in {"down", "next", "fill", "sell", "settle", "add", "limit", "save",
                         "tracker", "post", "set"}
        /\ tick.at \in 0..Len(Order) + 1 /\ tick.picks \subseteq Dynamic
        /\ tick.cur \in 0..TopQuote
    BY DEF DayInv, PassInv, Types, TickType, Labels
  <2>4. pos \in [Instruments -> [phase : {"IDLE", "ENTERING", "OPEN", "EXITING", "COOLDOWN"},
                                bought : 0..Highest, entry : 0..Highest,
                                exit : 0..Highest, sold : 0..Highest]]
    BY DEF DayInv, PassInv, Types, PosType, Phases
  <2>5. \A i \in Instruments :
          /\ pos[i].phase = "OPEN" => pos[i].entry # 0
          /\ pos[i].phase = "COOLDOWN" => pos[i].entry # 0 /\ pos[i].sold # 0
    BY DEF DayInv, PassInv, Premiums
  <2>6. /\ listed \subseteq Dynamic /\ posts \in Nat
        /\ trades \in 0..MaxTrades /\ faults \in 0..MaxFaults
    BY DEF DayInv, PassInv, Types
  <2>7. total \in Amounts /\ tick.read \in Amounts
    BY TotalType DEF DayInv
  <2>8. QED BY <2>1, <2>2, <2>3, <2>4, <2>5, <2>6, <2>7 DEF TypeOK
<1>2. QED BY <1>1, InitDay, DayStep, PTL DEF Spec

-----------------------------------------------------------------------------
(* Sums.  A sum is the number of units of a set, so that what the library    *)
(* proves of finite sets is what is needed here: no recursion, no induction. *)

LEMMA UnitsOf ==
  ASSUME NEW S, NEW f, NEW u
  PROVE  u \in Units(S, f) <=> \E i \in S : \E n \in 1..f[i] : u = <<i, n>>
<1>1. u \in Units(S, f) <=> \E i \in S : u \in {i} \X (1..f[i])
  BY Zenon DEF Units
<1>2. \A i, T : u \in {i} \X T <=> \E n \in T : u = <<i, n>>
  OBVIOUS
<1>3. \A i \in S : u \in {i} \X (1..f[i]) <=> \E n \in 1..f[i] : u = <<i, n>>
  BY <1>2
<1>4. QED BY <1>1, <1>3, Zenon

LEMMA SumType ==
  ASSUME NEW S \in SUBSET Instruments, NEW b \in Nat, NEW f, \A i \in S : f[i] \in 0..b
  PROVE  IsFiniteSet(Units(S, f)) /\ SumOver(S, f) \in Nat
<1>1. Units(S, f) \subseteq S \X (1..b)
  BY UnitsOf
<1>2. IsFiniteSet(S) /\ IsFiniteSet(1..b)
  BY InstrumentsFinite, FS_Interval
<1>3. IsFiniteSet(S \X (1..b))
  BY <1>2, FS_Product
<1>4. QED BY <1>1, <1>3, FS_Subset, FS_CardinalityType DEF SumOver

\* Fewer terms, or smaller ones, sum up to no more.
LEMMA SumMonotone ==
  ASSUME NEW T \in SUBSET Instruments, NEW S \in SUBSET T, NEW b \in Nat, NEW f, NEW g,
         \A i \in T : g[i] \in 0..b, \A i \in S : f[i] \in 0..g[i]
  PROVE  SumOver(S, f) <= SumOver(T, g)
<1>1. Units(S, f) \subseteq Units(T, g)
  BY UnitsOf
<1>2. QED BY <1>1, SumType, FS_Subset DEF SumOver

\* One term.
LEMMA Column ==
  ASSUME NEW c, NEW n \in Nat
  PROVE  IsFiniteSet({c} \X (1..n)) /\ Cardinality({c} \X (1..n)) = n
<1>1. IsFiniteSet(1..n) /\ Cardinality(1..n) = n
  BY FS_Interval
<1>2. IsFiniteSet({c}) /\ Cardinality({c}) = 1
  BY FS_Singleton
<1>3. /\ IsFiniteSet({c} \X (1..n))
      /\ Cardinality({c} \X (1..n)) = Cardinality({c}) * Cardinality(1..n)
  BY <1>1, <1>2, FS_Product
<1>4. QED BY <1>1, <1>2, <1>3

\* One more term.
LEMMA SumOneMore ==
  ASSUME NEW S \in SUBSET Instruments, NEW b \in Nat, NEW f, \A i \in S : f[i] \in 0..b,
         NEW c \in Instruments \ S, f[c] \in 0..b
  PROVE  SumOver(S \cup {c}, f) = SumOver(S, f) + f[c]
<1> DEFINE own == {c} \X (1..f[c])
<1>0. PICK n \in Nat : n = f[c]
  OBVIOUS
<1>1. Units(S \cup {c}, f) = Units(S, f) \cup own
  BY UnitsOf
<1>2. Units(S, f) \cap own = {}
  BY UnitsOf
<1>3. IsFiniteSet(own) /\ Cardinality(own) = f[c]
  BY <1>0, Column
<1>4. IsFiniteSet(Units(S, f)) /\ Cardinality(Units(S, f)) \in Nat
  BY SumType DEF SumOver
<1> HIDE DEF own
<1>5. Cardinality(Units(S, f) \cup own) =
        Cardinality(Units(S, f)) + Cardinality(own) - Cardinality(Units(S, f) \cap own)
  BY <1>3, <1>4, FS_Union
<1>6. Cardinality(Units(S, f) \cap own) = 0
  BY <1>2, FS_EmptySet
<1>7. Cardinality(Units(S \cup {c}, f)) = Cardinality(Units(S, f)) + n
  <2>1. Cardinality(own) = n
    BY <1>0, <1>3
  <2>2. Cardinality(Units(S, f) \cup own) = Cardinality(Units(S, f)) + n
    BY <1>0, <1>4, <1>5, <1>6, <2>1
  <2>3. QED BY <1>1, <2>2, Zenon
<1>8. QED BY <1>0, <1>7 DEF SumOver

\* A sum splits where its terms do: into one part that f bounds and one that
\* counts h for each member of R.
LEMMA SumSplit ==
  ASSUME NEW S \in SUBSET Instruments, NEW R \in SUBSET S, NEW h \in Nat, NEW f, NEW g,
         \A i \in S : f[i] \in 0..h /\ g[i] \in 0..h,
         \A i \in S \ R : f[i] <= g[i]
  PROVE  SumOver(S, f) <= SumOver(S, g) + Cardinality(R) * h
<1> DEFINE rest == R \X (1..h)
<1>1. Units(S, f) \subseteq Units(S, g) \cup rest
  BY UnitsOf
<1>2. IsFiniteSet(R) /\ Cardinality(R) \in Nat /\ IsFiniteSet(1..h) /\ Cardinality(1..h) = h
  BY InstrumentsFinite, FS_Interval
<1>3. IsFiniteSet(rest) /\ Cardinality(rest) = Cardinality(R) * h
  BY <1>2, FS_Product
<1>4. IsFiniteSet(Units(S, f)) /\ IsFiniteSet(Units(S, g))
  BY SumType
<1> HIDE DEF rest
<1>5. /\ IsFiniteSet(Units(S, g) \cup rest)
      /\ Cardinality(Units(S, g) \cup rest) =
           Cardinality(Units(S, g)) + Cardinality(rest) - Cardinality(Units(S, g) \cap rest)
  BY <1>3, <1>4, FS_Union
<1>6. Cardinality(Units(S, f)) <= Cardinality(Units(S, g) \cup rest)
  BY <1>1, <1>5, FS_Subset
<1>7. Cardinality(Units(S, g) \cap rest) \in Nat
  BY <1>4, FS_Intersection, FS_CardinalityType
<1>8. Cardinality(Units(S, f)) \in Nat /\ Cardinality(Units(S, g)) \in Nat
  BY <1>4, FS_CardinalityType
<1>9. Cardinality(R) * h \in Nat
  BY <1>2
<1>10. QED BY <1>3, <1>5, <1>6, <1>7, <1>8, <1>9 DEF SumOver

\* A set of quotes has a least and a greatest one.
LEMMA LeastNumber ==
  ASSUME NEW S \in SUBSET Nat, S # {}
  PROVE  \E x \in S : \A y \in S : x <= y
<1>1. PICK x \in S : \A y \in S : ~(<<y, x>> \in OpToRel(<, Nat))
  BY NatLessThanWellFounded, WFMin
<1>2. \A y \in S : <<y, x>> \in OpToRel(<, Nat) <=> y < x
  BY <1>1 DEF OpToRel
<1>3. ASSUME NEW y \in S PROVE x <= y
  <2>1. ~(y < x)
    BY <1>1, <1>2, Zenon
  <2>2. x \in Nat /\ y \in Nat
    BY <1>1
  <2>3. QED BY <2>1, <2>2
<1>4. QED BY <1>1, <1>3, Zenon

LEMMA QuoteBounds ==
  ASSUME NEW i \in Instruments
  PROVE  /\ Max(Quotes[i]) \in 1..TopQuote /\ Min(Quotes[i]) \in 1..TopQuote
         /\ \A q \in Quotes[i] : Min(Quotes[i]) <= q /\ q <= Max(Quotes[i])
<1> DEFINE S == Quotes[i]
<1>1. S \subseteq 1..TopQuote /\ S # {} /\ TopQuote \in Nat
  BY DayAssumption
<1> HIDE DEF S
<1>2. \E x \in S : \A y \in S : x <= y
  BY <1>1, LeastNumber
<1>3. \E x \in S : \A y \in S : x >= y
  <2> DEFINE T == {TopQuote - x : x \in S}
  <2>1. T \in SUBSET Nat /\ T # {}
    <3>1. \A x \in S : TopQuote - x \in Nat
      BY <1>1
    <3>2. QED BY <1>1, <3>1
  <2>2. PICK t \in T : \A y \in T : t <= y
    BY <2>1, LeastNumber
  <2>3. PICK x \in S : t = TopQuote - x
    BY <2>2
  <2>4. ASSUME NEW y \in S PROVE x >= y
    <3>1. t <= TopQuote - y
      BY <2>2
    <3>2. QED BY <1>1, <2>3, <3>1
  <2>5. QED BY <2>4
<1>4. Max(S) \in S /\ \A y \in S : Max(S) >= y
  BY <1>3, Zenon DEF Max
<1>5. Min(S) \in S /\ \A y \in S : Min(S) <= y
  BY <1>2, Zenon DEF Min
<1>6. QED BY <1>1, <1>4, <1>5 DEF S

-----------------------------------------------------------------------------
(* The capital. *)

\* Options paid for whose premium the state does not show, and never will
\* again unless a later tick finds the fill.
Unrecorded ==
    {i \in Instruments : /\ pos[i].phase \in {"ENTERING", "EXITING"} /\ pos[i].entry = 0
                         /\ ~(At("fill") /\ i = Current)}

\* A premium that is shown is the one that was paid, and only a fault hides one.
PremiumsKnown ==
    /\ \A i \in Instruments : pos[i].entry \in {0, pos[i].bought}
    /\ Cardinality(Unrecorded) <= faults

LEMMA FillNext ==
  ASSUME PassInv, [Next]_vars, At("fill")
  PROVE  CheckEntryFill \/ TickDies \/ PassRaises \/ UNCHANGED <<tick, pos>>
  BY DEF Next, vars, At, Visits, StartTick, LoopEnds, NothingToDo, TryEnter, Hold,
     StopHit, Squareoff, SellAtMarket, SellRaises, ResumeExit, SettleGet, SettleWaits, SettleAdd,
     CheckLimit, SaveCooldown, CooldownElapses, TrackerEdits, TrackerPosts, PostFails,
     TrackerSetsId, SquareoffTime, DropPick

LEMMA UnrecordedStep ==
  ASSUME PassInv, [Next]_vars
  PROVE  \/ faults' = faults /\ Unrecorded' \subseteq Unrecorded
         \/ faults' = faults + 1 /\ Unrecorded' \subseteq Unrecorded \cup {Current}
<1>1. tick \in TickType
  BY DEF PassInv, Types
<1>2. CASE TickDies \/ PassRaises
  <2>1. pos' = pos /\ faults' = faults + 1
    BY <1>2 DEF TickDies, PassRaises
  <2>2. QED BY <2>1 DEF Unrecorded
<1>3. CASE ~TickDies /\ ~PassRaises
  <2>1. faults' = faults
    BY <1>3 DEF Next, vars, StartTick, LoopEnds, NothingToDo, TryEnter, CheckEntryFill, Hold,
       StopHit, Squareoff, SellAtMarket, SellRaises, ResumeExit, SettleGet, SettleWaits, SettleAdd,
       CheckLimit, SaveCooldown, CooldownElapses, TrackerEdits, TrackerPosts, PostFails,
       TrackerSetsId, SquareoffTime, DropPick
  <2>2. ASSUME NEW i \in Instruments, i \in Unrecorded' PROVE i \in Unrecorded
    <3>1. CASE UNCHANGED <<tick, pos>>
      BY <2>2, <3>1 DEF Unrecorded, At, Current
    <3>2. CASE CheckEntryFill
      <4>1. pos \in [Instruments -> PosType] /\ Current \in Instruments
        BY <3>2, CurrentType DEF CheckEntryFill, At, Visits, PassInv, Types, Places, Entering
      <4>2. /\ pos'[Current].phase = "OPEN"
            /\ \A j \in Instruments : j # Current => pos'[j] = pos[j]
        BY <3>2, <4>1 DEF CheckEntryFill, PosType
      <4>3. QED BY <2>2, <4>2 DEF Unrecorded
    <3>3. CASE ~At("fill")
      <4>1. CASE pos'[i] = pos[i]
        BY <2>2, <3>3, <4>1 DEF Unrecorded
      <4>2. CASE pos'[i] # pos[i]
        <5>1. i = Current /\ Course(Current)
          BY <4>2, CourseStep
        <5>2. pos'[i].phase \in {"ENTERING", "EXITING"} /\ pos'[i].entry = 0
              /\ ~(At("fill")' /\ i = Current')
          BY <2>2 DEF Unrecorded
        <5>3. TryEnter => At("fill")' /\ Current' = Current
          BY <1>1 DEF TryEnter, At, Current, TickType
        <5>4. pos[i].phase = "OPEN" => pos[i].entry # 0
          BY DEF PassInv, Premiums
        <5>5. pos[i].phase \in {"ENTERING", "EXITING"} /\ pos[i].entry = 0
          BY <5>1, <5>2, <5>3, <5>4 DEF Course, SquaredOff
        <5>6. QED BY <3>3, <5>5 DEF Unrecorded
      <4>3. QED BY <4>1, <4>2
    <3>4. QED BY <1>3, <3>1, <3>2, <3>3, FillNext
  <2>3. QED BY <2>1, <2>2 DEF Unrecorded
<1>4. QED BY <1>2, <1>3

LEMMA PremiumsKnownStep == PassInv /\ PremiumsKnown /\ [Next]_vars => PremiumsKnown'
<1> SUFFICES ASSUME PassInv, PremiumsKnown, [Next]_vars PROVE PremiumsKnown'
  OBVIOUS
<1>1. ASSUME NEW i \in Instruments PROVE pos'[i].entry \in {0, pos'[i].bought}
  <2>1. pos[i].entry \in {0, pos[i].bought}
    BY DEF PremiumsKnown
  <2>2. QED BY <2>1, CourseStep DEF Course
<1>2. Cardinality(Unrecorded') <= faults'
  <2>1. /\ Unrecorded \in SUBSET Instruments /\ Unrecorded' \in SUBSET Instruments
        /\ faults \in Nat
    BY Constants DEF Unrecorded, PassInv, Types
  <2>2. /\ IsFiniteSet(Unrecorded) /\ Cardinality(Unrecorded) \in Nat
        /\ Cardinality(Unrecorded') \in Nat /\ Cardinality(Unrecorded) <= faults
    BY <2>1, InstrumentsFinite DEF PremiumsKnown
  <2>3. CASE faults' = faults /\ Unrecorded' \subseteq Unrecorded
    BY <2>1, <2>2, <2>3, FS_Subset
  <2>4. CASE faults' = faults + 1 /\ Unrecorded' \subseteq Unrecorded \cup {Current}
    <3>1. /\ IsFiniteSet(Unrecorded \cup {Current})
          /\ Cardinality(Unrecorded \cup {Current}) \in
                {Cardinality(Unrecorded), Cardinality(Unrecorded) + 1}
      BY <2>2, FS_AddElement
    <3>2. Cardinality(Unrecorded') <= Cardinality(Unrecorded \cup {Current})
      BY <2>4, <3>1, FS_Subset
    <3>3. QED BY <2>1, <2>2, <2>4, <3>1, <3>2
  <2>5. QED BY <2>3, <2>4, UnrecordedStep
<1>3. QED BY <1>1, <1>2 DEF PremiumsKnown

\* An entry that the recorded premiums leave room for.
LEMMA EntryFits ==
  ASSUME PassInv, PremiumsKnown, TryEnter
  PROVE  SumOver(Instruments, Spent') <= CapitalRs + HalfSpread + faults * Highest
<1> DEFINE S == Instruments \ {Current}
           E == [i \in Instruments |-> pos[i].entry]
           F == Spent'
<1>1. PICK q \in Quotes[Current] :
        /\ Affordable(q)
        /\ pos' = [pos EXCEPT ![Current] =
                     [NoPosition EXCEPT !.phase = "ENTERING", !.bought = q + HalfSpread]]
  BY DEF TryEnter
<1>2. /\ More /\ Current \in Instruments /\ pos[Current].phase = "IDLE" /\ ~At("fill")
      /\ pos \in [Instruments -> PosType] /\ \A i \in Instruments : pos[i] \in PosType
  BY CurrentType DEF TryEnter, Visits, At, PassInv, Types
<1>3. q \in Nat /\ q + HalfSpread \in 0..Highest /\ HalfSpread \in Nat /\ Highest \in Nat
      /\ CapitalRs \in Nat /\ faults \in Nat
  <2>1. CapitalRs \in Nat
    BY DayAssumption, Zenon
  <2>2. QED BY <1>2, <2>1, QuoteType, Constants DEF Highest, PassInv, Types
<1>4. F[Current] = q + HalfSpread
  BY <1>1, <1>2 DEF Spent, NoPosition
<1>5. ASSUME NEW i \in Instruments, i # Current
      PROVE  F[i] = IF pos[i].phase \in {"ENTERING", "OPEN", "EXITING"} THEN pos[i].bought ELSE 0
  BY <1>1, <1>2, <1>5 DEF Spent
<1>6. \A i \in Instruments : F[i] \in 0..Highest
  <2>1. ASSUME NEW i \in Instruments PROVE F[i] \in 0..Highest
    BY <1>2, <1>3, <1>4, <1>5 DEF PosType
  <2>2. QED BY <2>1
<1>7. \A i \in Instruments : E[i] \in 0..Highest
  BY <1>2 DEF PosType
<1>8. Unrecorded \in SUBSET S
  BY <1>2 DEF Unrecorded
<1>9. ASSUME NEW i \in S \ Unrecorded PROVE F[i] <= E[i]
  <2>1. pos[i].entry \in {0, pos[i].bought} /\ pos[i].entry \in 0..Highest
    BY <1>2 DEF PremiumsKnown, PosType
  <2>2. pos[i].phase \in {"ENTERING", "OPEN", "EXITING"} => pos[i].entry # 0
    BY <1>2 DEF Unrecorded, PassInv, Premiums
  <2>3. QED BY <1>5, <2>1, <2>2
<1>10. Committed = SumOver(Instruments, E)
  BY DEF Committed
<1> HIDE DEF S, E, F
<1>11. S \in SUBSET Instruments /\ Instruments = S \cup {Current} /\ Current \in Instruments \ S
  BY <1>2 DEF S
<1>12. SumOver(Instruments, F) = SumOver(S, F) + (q + HalfSpread)
  BY <1>3, <1>4, <1>6, <1>11, SumOneMore
<1>13. SumOver(S, F) <= SumOver(S, E) + Cardinality(Unrecorded) * Highest
  BY <1>3, <1>6, <1>7, <1>8, <1>9, <1>11, SumSplit
<1>14. SumOver(S, E) <= SumOver(Instruments, E)
  BY <1>3, <1>7, <1>11, SumMonotone
<1>15. SumOver(S, E) \in Nat /\ SumOver(Instruments, E) \in Nat /\ SumOver(S, F) \in Nat
  BY <1>3, <1>6, <1>7, <1>11, SumType
<1>16. Cardinality(Unrecorded) \in Nat /\ Cardinality(Unrecorded) <= faults
  BY <1>8, <1>11, InstrumentsFinite DEF PremiumsKnown
<1>17. Cardinality(Unrecorded) * Highest <= faults * Highest
       /\ Cardinality(Unrecorded) * Highest \in Nat /\ faults * Highest \in Nat
  BY <1>3, <1>16
<1>18. q <= CapitalRs - SumOver(Instruments, E)
  BY <1>1, <1>10 DEF Affordable
<1>19. SumOver(Instruments, F) <= CapitalRs + HalfSpread + faults * Highest
  BY <1>3, <1>12, <1>13, <1>14, <1>15, <1>17, <1>18
<1>20. QED BY <1>19 DEF F

LEMMA FaultsCost ==
  ASSUME NEW n \in Nat, NEW h \in Nat, NEW m \in {n, n + 1}
  PROVE  n * h <= m * h /\ n * h \in Int /\ m * h \in Int
<1>1. (n + 1) * h = n * h + h /\ n * h \in Nat
  OBVIOUS
<1>2. m * h \in {n * h, n * h + h}
  BY <1>1
<1>3. QED BY <1>1, <1>2

LEMMA CapitalStep ==
  PassInv /\ PremiumsKnown /\ CapitalRespected /\ [Next]_vars => CapitalRespected'
<1> SUFFICES ASSUME PassInv, PremiumsKnown, CapitalRespected, [Next]_vars
             PROVE  CapitalRespected'
  OBVIOUS
<1>1. /\ faults \in Nat /\ CapitalRs \in Nat /\ HalfSpread \in Nat /\ Highest \in Nat
      /\ faults' \in {faults, faults + 1}
  <2>1. CapitalRs \in Nat
    BY DayAssumption, Zenon
  <2>2. QED BY <2>1, UnrecordedStep, Constants DEF PassInv, Types
<1>2. faults * Highest <= faults' * Highest /\ faults * Highest \in Int /\ faults' * Highest \in Int
  <2>1. PICK n \in Nat, h \in Nat, m \in Nat :
          n = faults /\ h = Highest /\ m = faults' /\ m \in {n, n + 1}
    BY <1>1
  <2>2. n * h <= m * h /\ n * h \in Int /\ m * h \in Int
    BY <2>1, FaultsCost
  <2>3. n = faults /\ h = Highest /\ m = faults'
    BY <2>1
  <2>4. QED BY <2>2, <2>3, Zenon
<1>3. ASSUME SumOver(Instruments, Spent') \in Int,
             SumOver(Instruments, Spent') <= CapitalRs + HalfSpread + faults * Highest
      PROVE  CapitalRespected'
  <2>1. SumOver(Instruments, Spent') <= CapitalRs + HalfSpread + faults' * Highest
    BY <1>1, <1>2, <1>3
  <2>2. Highest' = Highest /\ SumOver(Instruments, Spent)' = SumOver(Instruments, Spent')
    BY DEF Highest, SumOver, Units
  <2>3. QED BY <2>1, <2>2 DEF CapitalRespected
<1>4. \A i \in Instruments : Spent[i] \in 0..Highest /\ Spent'[i] \in 0..Highest
  <2>1. \A i \in Instruments : pos[i] \in PosType /\ pos'[i] \in PosType
    BY TypesStep DEF PassInv, Types
  <2>2. QED BY <1>1, <2>1 DEF Spent, PosType
<1>5. SumOver(Instruments, Spent) \in Nat /\ SumOver(Instruments, Spent') \in Nat
  BY <1>1, <1>4, SumType
<1>6. CASE TryEnter
  BY <1>3, <1>5, <1>6, EntryFits
<1>7. CASE ~TryEnter
  <2>1. ASSUME NEW i \in Instruments PROVE Spent'[i] \in 0..Spent[i]
    <3>1. pos'[i] = pos[i] \/ Course(i)
      BY CourseStep
    <3>2. Spent'[i] = Spent[i] \/ Spent'[i] = 0
      BY <1>7, <3>1 DEF Course, SquaredOff, Spent
    <3>3. QED BY <1>4, <3>2
  <2>2. SumOver(Instruments, Spent') <= SumOver(Instruments, Spent)
    BY <1>1, <1>4, <2>1, SumMonotone
  <2>3. SumOver(Instruments, Spent') <= CapitalRs + HalfSpread + faults * Highest
    BY <1>1, <1>2, <1>5, <2>2 DEF CapitalRespected
  <2>4. QED BY <1>3, <1>5, <2>3
<1>8. QED BY <1>6, <1>7

LEMMA InitCapital == Init => PremiumsKnown /\ CapitalRespected
<1> SUFFICES ASSUME Init PROVE PremiumsKnown /\ CapitalRespected
  OBVIOUS
<1>1. \A i \in Instruments : pos[i] = NoPosition
  BY DEF Init
<1>2. Unrecorded = {}
  BY <1>1 DEF Unrecorded, NoPosition
<1>3. Cardinality(Unrecorded) = 0
  BY <1>2, FS_EmptySet
<1>4. \A i \in Instruments : Spent[i] = 0
  BY <1>1 DEF Spent, NoPosition
<1>5. Units(Instruments, Spent) = {}
  BY <1>4, UnitsOf
<1>6. SumOver(Instruments, Spent) = 0
  BY <1>5, FS_EmptySet DEF SumOver
<1>7. CapitalRs \in Nat
  BY DayAssumption, Zenon
<1>8. 0 <= CapitalRs + HalfSpread + faults * Highest
  BY <1>7, Constants DEF Init
<1>9. QED BY <1>1, <1>3, <1>6, <1>8 DEF PremiumsKnown, CapitalRespected, NoPosition, Init

\* What is paid for the options held at one time fits the capital, up to the
\* spread of the last purchase and one price for each fault that kept a premium
\* from being recorded, for any sizes of the list, the capital and the quotes.
THEOREM CapitalHolds == Spec => []CapitalRespected
  BY InitPass, PassStep, InitCapital, PremiumsKnownStep, CapitalStep, PTL DEF Spec

-----------------------------------------------------------------------------
(* The day's loss. *)

\* The trades whose result is not in the P&L yet.
Running ==
    {i \in Instruments : /\ pos[i].phase \in {"ENTERING", "OPEN", "EXITING"}
                         /\ ~(tick.pc \in {"limit", "save"} /\ i = Current)}

\* A tick knows of 15:10 only when it is, and sells at the market only then.
Clock ==
    /\ tick.past => past
    /\ tick.pc = "sell" => tick.past

\* Until then every price is one of the instrument's own quotes.
OwnPrices ==
    \A i \in Instruments :
        /\ pos[i].bought # 0 => pos[i].bought <= Max(Quotes[i]) + HalfSpread
        /\ pos[i].sold # 0 => pos[i].sold >= Min(Quotes[i]) - HalfSpread

\* The loss limit is not reached, or known to be, or about to be looked at.  A fault
\* may end this, and until the next settlement entries go on.
Guarded == total > LossLimit \/ blocked \/ tick.pc = "limit"

\* The limit was not reached when the running trades were entered, so all that has
\* come on top of it is one worst trade for each of the others, once more for each
\* fault.  Where nothing guards the limit a fault has paid for the others already.
LossCounted ==
    total > LossLimit - faults * AllAtWorst
            - IF Guarded THEN SumOver(Instruments \ Running, WorstTrade) ELSE 0

LossInv == Clock /\ (~past => OwnPrices /\ LossCounted)

LEMMA ClockStep == PassInv /\ Clock /\ [Next]_vars => Clock'
<1> SUFFICES ASSUME PassInv, Clock, [Next]_vars PROVE Clock'
  OBVIOUS
<1>1. tick \in TickType
  BY DEF PassInv, Types
<1>2. past => past'
  BY DEF Next, vars, day, StartTick, LoopEnds, NothingToDo, TryEnter, CheckEntryFill, Hold,
     StopHit, Squareoff, SellAtMarket, SellRaises, ResumeExit, SettleGet, SettleWaits, SettleAdd,
     CheckLimit, SaveCooldown, CooldownElapses, TrackerEdits, TrackerPosts, PostFails,
     TrackerSetsId, TickDies, PassRaises, SquareoffTime, DropPick
<1>3. CASE StartTick
  <2>1. tick'.past = past /\ tick'.pc = "next" /\ past' = past
    BY <1>3 DEF StartTick, NoTick, day
  <2>2. QED BY <2>1 DEF Clock
<1>4. CASE TrackerEdits \/ PostFails \/ TrackerSetsId \/ TickDies
  <2>1. tick' = NoTick
    BY <1>4 DEF TrackerEdits, PostFails, TrackerSetsId, TickDies
  <2>2. QED BY <2>1 DEF Clock, NoTick
<1>5. CASE Squareoff
  <2>1. tick'.past = tick.past /\ tick.past
    BY <1>1, <1>5 DEF Squareoff, TickType
  <2>2. QED BY <1>2, <2>1 DEF Clock
<1>6. ASSUME tick'.past = tick.past, tick'.pc # "sell" PROVE Clock'
  BY <1>2, <1>6 DEF Clock
<1>7. CASE NothingToDo \/ CheckEntryFill \/ Hold \/ SellRaises \/ SettleWaits
           \/ SaveCooldown \/ CooldownElapses
  BY <1>1, <1>6, <1>7 DEF NothingToDo, CheckEntryFill, Hold, SellRaises, SettleWaits,
     SaveCooldown, CooldownElapses, Onward, TickType
<1>8. CASE LoopEnds \/ SellAtMarket \/ SettleAdd \/ CheckLimit \/ TrackerPosts
  BY <1>1, <1>6, <1>8 DEF LoopEnds, SellAtMarket, SettleAdd, CheckLimit, TrackerPosts, Goto,
     TickType
<1>9. CASE TryEnter \/ StopHit \/ ResumeExit \/ SettleGet \/ PassRaises
  BY <1>1, <1>6, <1>9 DEF TryEnter, StopHit, ResumeExit, SettleGet, PassRaises, Skip, TickType
<1>10. CASE SquareoffTime \/ DropPick \/ UNCHANGED vars
  BY <1>2, <1>10 DEF SquareoffTime, DropPick, vars, Clock
<1>11. QED BY <1>3, <1>4, <1>5, <1>7, <1>8, <1>9, <1>10 DEF Next

LEMMA OwnPricesStep ==
  ASSUME PassInv, Clock, OwnPrices, [Next]_vars, ~past
  PROVE  OwnPrices'
<1> SUFFICES ASSUME NEW i \in Instruments
             PROVE  /\ pos'[i].bought # 0 => pos'[i].bought <= Max(Quotes[i]) + HalfSpread
                    /\ pos'[i].sold # 0 => pos'[i].sold >= Min(Quotes[i]) - HalfSpread
  BY DEF OwnPrices
<1>1. /\ pos \in [Instruments -> PosType] /\ pos[i] \in PosType
      /\ HalfSpread \in Nat /\ Max(Quotes[i]) \in Int /\ Min(Quotes[i]) \in Int
  BY QuoteBounds, Constants DEF PassInv, Types
<1>2. CASE pos'[i].bought = pos[i].bought /\ pos'[i].sold = pos[i].sold
  BY <1>2 DEF OwnPrices
<1>3. CASE pos'[i] # pos[i]
  <2>1. i = Current /\ Course(i)
    BY <1>3, CourseStep
  <2>2. CASE TryEnter
    <3>1. PICK q \in Quotes[i] :
            pos' = [pos EXCEPT ![i] =
                         [NoPosition EXCEPT !.phase = "ENTERING", !.bought = q + HalfSpread]]
      BY <2>1, <2>2 DEF TryEnter
    <3>2. pos'[i].bought = q + HalfSpread /\ pos'[i].sold = 0
      BY <1>1, <3>1 DEF NoPosition
    <3>3. q <= Max(Quotes[i]) /\ q \in Int
      BY <3>1, QuoteBounds, QuoteType
    <3>4. QED BY <1>1, <3>2, <3>3
  <2>3. CASE StopHit
    <3>1. PICK q \in Quotes[i] :
            pos' = [pos EXCEPT ![i].phase = "EXITING", ![i].exit = SaleAt(q),
                               ![i].sold = SaleAt(q)]
      BY <2>1, <2>3 DEF StopHit
    <3>2. pos'[i].bought = pos[i].bought /\ pos'[i].sold = SaleAt(q)
      BY <1>1, <3>1 DEF PosType
    <3>3. q >= Min(Quotes[i]) /\ q \in Int
      BY <3>1, QuoteBounds, QuoteType
    <3>4. SaleAt(q) >= q - HalfSpread /\ SaleAt(q) \in Int
      BY <1>1, <3>3, MaxOfTwo DEF SaleAt
    <3>5. QED BY <1>1, <3>2, <3>3, <3>4 DEF OwnPrices
  <2>4. CASE Squareoff \/ SellAtMarket
    BY <2>4 DEF Squareoff, SellAtMarket, At, Clock
  <2>5. CASE CheckEntryFill \/ SettleGet \/ SaveCooldown
    <3>1. pos'[i].bought = pos[i].bought /\ pos'[i].sold = pos[i].sold
      BY <1>1, <2>1, <2>5 DEF CheckEntryFill, SettleGet, SaveCooldown, PosType
    <3>2. QED BY <1>2, <3>1
  <2>6. CASE CooldownElapses
    <3>1. pos'[i] = NoPosition
      BY <1>1, <2>1, <2>6 DEF CooldownElapses
    <3>2. QED BY <3>1 DEF NoPosition
  <2>7. QED BY <2>1, <2>2, <2>3, <2>4, <2>5, <2>6 DEF Course
<1>4. QED BY <1>2, <1>3

\* The worst trade of an instrument, as a number.
LEMMA WorstType ==
  ASSUME NEW i \in Instruments
  PROVE  /\ WorstTrade[i] = Max(Quotes[i]) - Min(Quotes[i]) + 2 * HalfSpread + TopCharge
         /\ WorstTrade[i] \in 0..(TopQuote + 2 * HalfSpread + TopCharge)
<1>1. WorstTrade[i] = Max(Quotes[i]) - Min(Quotes[i]) + 2 * HalfSpread + TopCharge
  BY DEF WorstTrade
<1>2. PICK q \in Quotes[i] : TRUE
  BY DayAssumption
<1>3. Min(Quotes[i]) <= Max(Quotes[i])
  BY <1>2, QuoteType, QuoteBounds
<1>4. QED BY <1>1, <1>3, QuoteBounds, Constants

\* What the others may have lost.
LEMMA WorstSum ==
  ASSUME NEW T \in SUBSET Instruments, NEW S \in SUBSET T
  PROVE  /\ SumOver(S, WorstTrade) \in Nat /\ SumOver(T, WorstTrade) \in Nat
         /\ SumOver(S, WorstTrade) <= SumOver(T, WorstTrade)
<1> DEFINE b == TopQuote + 2 * HalfSpread + TopCharge
<1>1. b \in Nat
  BY Constants
<1>2. \A i \in T : WorstTrade[i] \in 0..b
  BY WorstType
<1>3. \A i \in S : WorstTrade[i] \in 0..b /\ WorstTrade[i] \in 0..WorstTrade[i]
  BY <1>1, <1>2
<1> HIDE DEF b
<1>4. SumOver(S, WorstTrade) \in Nat
  BY <1>1, <1>3, SumType
<1>5. SumOver(T, WorstTrade) \in Nat
  BY <1>1, <1>2, SumType
<1>6. QED BY <1>1, <1>2, <1>3, <1>4, <1>5, SumMonotone

LEMMA BookingNext ==
  ASSUME PassInv, [Next]_vars, tick.pc \in {"limit", "save"}, faults' = faults
  PROVE  CheckLimit \/ SaveCooldown \/ UNCHANGED <<tick, pos>>
<1>1. ~TickDies /\ ~PassRaises
  BY Constants DEF TickDies, PassRaises, PassInv, Types
<1>2. QED
  BY <1>1 DEF Next, vars, At, Visits, StartTick, LoopEnds, NothingToDo, TryEnter, CheckEntryFill,
     Hold, StopHit, Squareoff, SellAtMarket, SellRaises, ResumeExit, SettleGet, SettleWaits,
     SettleAdd, CooldownElapses, TrackerEdits, TrackerPosts, PostFails, TrackerSetsId,
     SquareoffTime, DropPick

\* Only an entry makes a trade run, without faults.
LEMMA RunningStep ==
  ASSUME PassInv, [Next]_vars, faults' = faults, ~TryEnter
  PROVE  Running' \subseteq Running
<1> SUFFICES ASSUME NEW i \in Instruments, i \in Running' PROVE i \in Running
  BY DEF Running
<1>1. pos[i].phase \in {"ENTERING", "OPEN", "EXITING"}
  BY CourseStep DEF Course, SquaredOff, Running
<1>2. CASE tick.pc \notin {"limit", "save"}
  BY <1>1, <1>2 DEF Running
<1>3. CASE tick.pc \in {"limit", "save"}
  <2>1. tick \in TickType
    BY DEF PassInv, Types
  <2>2. CASE CheckLimit
    BY <1>1, <2>1, <2>2 DEF CheckLimit, Goto, TickType, Current, Running
  <2>3. CASE SaveCooldown
    <3>1. pos[Current].phase = "EXITING" /\ Current \in Instruments
      BY <1>3, CurrentType DEF PassInv, Places, Leaving
    <3>2. pos'[Current].phase = "COOLDOWN"
      BY <2>3, <3>1 DEF SaveCooldown, PassInv, Types, PosType
    <3>3. i # Current
      BY <3>2 DEF Running
    <3>4. QED BY <1>1, <3>3 DEF Running
  <2>4. CASE UNCHANGED <<tick, pos>>
    BY <2>4 DEF Running, Current
  <2>5. QED BY <1>3, <2>2, <2>3, <2>4, BookingNext
<1>4. QED BY <1>2, <1>3

\* What all instruments may lose, as a number.
LEMMA AllAtWorstType ==
  /\ AllAtWorst \in Nat
  /\ \A S \in SUBSET Instruments : SumOver(S, WorstTrade) \in 0..AllAtWorst
<1>1. ASSUME NEW S \in SUBSET Instruments PROVE SumOver(S, WorstTrade) \in 0..AllAtWorst
  BY WorstSum DEF AllAtWorst
<1>2. AllAtWorst \in Nat
  BY WorstSum DEF AllAtWorst
<1>3. QED BY <1>1, <1>2

\* A settlement adds one result, and no result is worse than the worst trade.
LEMMA SettlementCounted ==
  ASSUME PassInv, PremiumsKnown, OwnPrices, LossCounted, SettleAdd
  PROVE  total' > LossLimit - faults * AllAtWorst - SumOver((Instruments \ Running)', WorstTrade)
<1> DEFINE S == Instruments \ Running
           W == WorstTrade
           b == TopQuote + 2 * HalfSpread + TopCharge
<1>1. /\ tick.pc = "add" /\ UNCHANGED <<tick.at, pos>> /\ tick'.pc = "limit"
      /\ total' = tick.read + Profit(Current)
  BY GotoType DEF SettleAdd, At, Labels, PassInv, Types
<1>2. /\ Current \in Instruments /\ tick.read = total /\ pos[Current].phase = "EXITING"
      /\ pos[Current].entry # 0 /\ pos[Current].sold # 0
      /\ pos[Current] \in PosType /\ total \in Int
  BY <1>1, CurrentType DEF PassInv, Places, Leaving, Booking, Types
<1>3. Instruments \ Running' = S \cup {Current} /\ Current \in Instruments \ S
  <2>1. Current' = Current
    BY <1>1 DEF Current
  <2>2. Running' = Running \ {Current} /\ Current \in Running
    BY <1>1, <1>2, <2>1 DEF Running
  <2>3. QED BY <1>2, <2>2
<1>4. b \in Nat /\ \A i \in Instruments : W[i] \in 0..b
  BY WorstType, Constants
<1>5. Profit(Current) >= -W[Current]
  <2>1. /\ pos[Current].entry = pos[Current].bought
        /\ pos[Current].bought <= Max(Quotes[Current]) + HalfSpread
        /\ pos[Current].sold >= Min(Quotes[Current]) - HalfSpread
    BY <1>2 DEF PremiumsKnown, OwnPrices
  <2>2. /\ Max(Quotes[Current]) \in Int /\ Min(Quotes[Current]) \in Int /\ HalfSpread \in Int
        /\ pos[Current].sold \in Int /\ pos[Current].bought \in Int
    BY <1>2, QuoteBounds, Constants DEF PosType
  <2>3. W[Current] = Max(Quotes[Current]) - Min(Quotes[Current]) + 2 * HalfSpread + TopCharge
    BY <1>2, WorstType
  <2>4. /\ Profit(Current) >= pos[Current].sold - pos[Current].entry - TopCharge
        /\ Profit(Current) \in Int /\ TopCharge \in Nat
    BY <1>2, ProfitType, Constants DEF PassInv
  <2>5. QED BY <2>1, <2>2, <2>3, <2>4
<1>6. Profit(Current) \in Int
  BY <1>2, ProfitType DEF PassInv
<1>7. S \in SUBSET Instruments /\ (Instruments \ Running)' = Instruments \ Running'
  OBVIOUS
<1>8. PICK k \in Int : k = LossLimit - faults * AllAtWorst
  BY AllAtWorstType, Constants DEF PassInv, Types
<1> HIDE DEF W, b
<1>9. total > k - SumOver(S, W)
  <2>1. total > k - IF Guarded THEN SumOver(S, W) ELSE 0
    BY <1>8 DEF LossCounted, W
  <2>2. SumOver(S, W) \in Nat
    BY <1>4, <1>7, SumType
  <2>3. QED BY <1>2, <1>8, <2>1, <2>2
<1> HIDE DEF S
<1>10. SumOver(S \cup {Current}, W) = SumOver(S, W) + W[Current]
  BY <1>3, <1>4, <1>7, SumOneMore
<1>11. SumOver(S, W) \in Nat /\ W[Current] \in Int
  BY <1>2, <1>4, <1>7, SumType
<1>12. total' > k - SumOver(S \cup {Current}, W)
  <2>1. PICK d \in Int : d = Profit(Current)
    BY <1>6
  <2>2. total' = total + d
    BY <1>1, <1>2, <2>1
  <2>3. d >= -W[Current]
    BY <1>5, <2>1
  <2>4. PICK w \in Int, x \in Int : w = W[Current] /\ x = SumOver(S, W)
    BY <1>11
  <2>5. total + d > k - (x + w)
    BY <1>2, <1>9, <2>3, <2>4
  <2>6. QED BY <1>10, <2>2, <2>4, <2>5
<1>13. QED BY <1>3, <1>7, <1>8, <1>12 DEF W

\* Only a fault leaves the limit unguarded.
LEMMA GuardedStep ==
  ASSUME PassInv, Guarded, [Next]_vars, faults' = faults, ~SettleAdd
  PROVE  Guarded' \/ (TryEnter /\ total > LossLimit)
<1>1. total' = total /\ LossLimit' = LossLimit
  BY DEF LossLimit, Next, vars, StartTick, LoopEnds, NothingToDo, TryEnter, CheckEntryFill, Hold,
     StopHit, Squareoff, SellAtMarket, SellRaises, ResumeExit, SettleGet, SettleWaits,
     CheckLimit, SaveCooldown, CooldownElapses, TrackerEdits, TrackerPosts, PostFails,
     TrackerSetsId, TickDies, PassRaises, SquareoffTime, DropPick
<1>2. CASE total > LossLimit
  BY <1>1, <1>2 DEF Guarded
<1>3. CASE CheckLimit
  <2>1. blocked' = (blocked \/ total <= LossLimit)
    BY <1>3 DEF CheckLimit
  <2>2. total <= LossLimit \/ total > LossLimit
    BY Constants DEF PassInv, Types
  <2>3. CASE total <= LossLimit
    <3>1. blocked'
      BY <2>1, <2>3, Zenon
    <3>2. QED BY <3>1 DEF Guarded
  <2>4. QED BY <1>2, <2>2, <2>3
<1>4. CASE ~CheckLimit /\ total <= LossLimit
  <2>1. blocked' = blocked
    BY <1>4 DEF Next, vars, StartTick, LoopEnds, NothingToDo, TryEnter, CheckEntryFill, Hold,
       StopHit, Squareoff, SellAtMarket, SellRaises, ResumeExit, SettleGet, SettleWaits,
       SettleAdd, SaveCooldown, CooldownElapses, TrackerEdits, TrackerPosts, PostFails,
       TrackerSetsId, TickDies, PassRaises, SquareoffTime, DropPick
  <2>2. tick.pc = "limit" => tick' = tick
    BY <1>4, BookingNext DEF SaveCooldown, At
  <2>3. blocked \/ tick.pc = "limit"
    BY <1>4, Constants DEF Guarded, PassInv, Types
  <2>4. CASE blocked
    BY <2>1, <2>4 DEF Guarded
  <2>5. CASE tick.pc = "limit"
    BY <2>2, <2>5 DEF Guarded
  <2>6. QED BY <2>3, <2>4, <2>5
<1>5. total > LossLimit \/ total <= LossLimit
  BY Constants DEF PassInv, Types
<1>6. QED BY <1>2, <1>3, <1>4, <1>5

LEMMA LossCountedStep ==
  ASSUME PassInv, PremiumsKnown, OwnPrices, LossCounted, [Next]_vars
  PROVE  LossCounted'
<1> DEFINE S == Instruments \ Running
           T == (Instruments \ Running)'
<1>1. /\ tick \in TickType /\ total \in Int /\ LossLimit' = LossLimit /\ LossLimit \in Int
      /\ total' \in Int /\ faults \in Nat /\ faults' \in {faults, faults + 1}
  BY TypesStep, UnrecordedStep, Constants DEF PassInv, Types, LossLimit
<1>2. /\ S \in SUBSET Instruments /\ T \in SUBSET Instruments
      /\ T = Instruments \ Running' /\ AllAtWorst \in Nat
      /\ SumOver(S, WorstTrade) \in 0..AllAtWorst /\ SumOver(T, WorstTrade) \in 0..AllAtWorst
  BY AllAtWorstType
<1>3. /\ SumOver(Instruments \ Running, WorstTrade)' = SumOver(T, WorstTrade)
      /\ AllAtWorst' = AllAtWorst
  BY DEF SumOver, Units, WorstTrade, AllAtWorst
<1>4. PICK s \in Nat, t \in Nat, k \in Int :
         /\ s = SumOver(S, WorstTrade) /\ t = SumOver(T, WorstTrade)
         /\ k = LossLimit - faults * AllAtWorst
         /\ s <= AllAtWorst
  BY <1>1, <1>2
<1>5. total > k - IF Guarded THEN s ELSE 0
  BY <1>4 DEF LossCounted
<1>6. LossCounted' <=>
         total' > LossLimit - faults' * AllAtWorst - IF Guarded' THEN t ELSE 0
  BY <1>1, <1>3, <1>4 DEF LossCounted
<1> HIDE DEF S, T
<1>7. CASE faults' = faults + 1
  <2>1. total' = total
    <3>1. faults' = faults \/ TickDies \/ PassRaises
      BY DEF Next, vars, StartTick, LoopEnds, NothingToDo, TryEnter, CheckEntryFill,
         Hold, StopHit, Squareoff, SellAtMarket, SellRaises, ResumeExit, SettleGet, SettleWaits,
         SettleAdd, CheckLimit, SaveCooldown, CooldownElapses, TrackerEdits, TrackerPosts,
         PostFails, TrackerSetsId, SquareoffTime, DropPick
    <3>2. faults' # faults
      BY <1>1, <1>7
    <3>3. QED BY <3>1, <3>2 DEF TickDies, PassRaises
  <2>2. faults' * AllAtWorst = faults * AllAtWorst + AllAtWorst
    BY <1>1, <1>2, <1>7
  <2>3. PICK a \in Nat, m \in Int, n \in Int :
           a = AllAtWorst /\ m = faults * AllAtWorst /\ n = faults' * AllAtWorst
    <3>1. faults * AllAtWorst \in Int
      BY <1>1, <1>2
    <3>2. faults' * AllAtWorst \in Int
      BY <1>2, <2>2, <3>1
    <3>3. QED BY <1>2, <3>1, <3>2, Zenon
  <2>4. n = m + a /\ k = LossLimit - m /\ s <= a
    BY <1>4, <2>2, <2>3
  <2>5. total > LossLimit - n
    BY <1>1, <1>4, <1>5, <2>4
  <2>6. total' > LossLimit - n - IF Guarded' THEN t ELSE 0
    BY <1>1, <1>4, <2>1, <2>5
  <2>7. QED BY <1>6, <2>3, <2>6
<1>8. CASE faults' = faults /\ SettleAdd
  <2>1. tick'.pc = "limit"
    BY <1>1, <1>8, GotoType DEF SettleAdd, Labels
  <2>2. total' > LossLimit - faults * AllAtWorst - t
    BY <1>4, <1>8, SettlementCounted DEF T
  <2>3. Guarded'
    BY <2>1 DEF Guarded
  <2>4. QED BY <1>6, <1>8, <2>2, <2>3
<1>9. CASE faults' = faults /\ ~SettleAdd
  <2>1. total' = total
    BY <1>9 DEF Next, vars, StartTick, LoopEnds, NothingToDo, TryEnter, CheckEntryFill, Hold,
       StopHit, Squareoff, SellAtMarket, SellRaises, ResumeExit, SettleGet, SettleWaits,
       CheckLimit, SaveCooldown, CooldownElapses, TrackerEdits, TrackerPosts, PostFails,
       TrackerSetsId, TickDies, PassRaises, SquareoffTime, DropPick
  <2>2. faults * AllAtWorst \in Nat
    BY <1>1, <1>2
  <2>3. CASE total > LossLimit
    BY <1>1, <1>4, <1>6, <1>9, <2>1, <2>2, <2>3
  <2>4. CASE total <= LossLimit /\ TryEnter
    <3>1. ~Guarded
      BY <1>1, <2>4 DEF TryEnter, Visits, At, EntryAllowed, Guarded
    <3>2. QED BY <1>1, <1>4, <1>5, <1>6, <1>9, <2>1, <3>1
  <2>5. CASE total <= LossLimit /\ ~TryEnter
    <3>1. s <= t
      <4>1. S \in SUBSET T
        BY <1>2, <1>9, <2>5, RunningStep DEF S
      <4>2. QED BY <1>2, <1>4, <4>1, WorstSum
    <3>2. Guarded => Guarded'
      BY <1>9, <2>5, GuardedStep
    <3>3. QED BY <1>1, <1>4, <1>5, <1>6, <1>9, <2>1, <3>1, <3>2
  <2>6. QED BY <1>1, <2>3, <2>4, <2>5
<1>10. QED BY <1>1, <1>7, <1>8, <1>9

LEMMA LossStep == PassInv /\ PremiumsKnown /\ LossInv /\ [Next]_vars => LossInv'
<1> SUFFICES ASSUME PassInv, PremiumsKnown, LossInv, [Next]_vars PROVE LossInv'
  OBVIOUS
<1>1. ~past' => ~past
  BY DEF Next, vars, day, StartTick, LoopEnds, NothingToDo, TryEnter, CheckEntryFill, Hold,
     StopHit, Squareoff, SellAtMarket, SellRaises, ResumeExit, SettleGet, SettleWaits, SettleAdd,
     CheckLimit, SaveCooldown, CooldownElapses, TrackerEdits, TrackerPosts, PostFails,
     TrackerSetsId, TickDies, PassRaises, SquareoffTime, DropPick
<1>2. Clock'
  BY ClockStep DEF LossInv
<1>3. ~past' => OwnPrices'
  BY <1>1, OwnPricesStep DEF LossInv
<1>4. ~past' => LossCounted'
  BY <1>1, LossCountedStep DEF LossInv
<1>5. QED BY <1>2, <1>3, <1>4 DEF LossInv

LEMMA InitLoss == Init => LossInv
<1> SUFFICES ASSUME Init PROVE LossInv
  OBVIOUS
<1>1. \A i \in Instruments : pos[i] = NoPosition
  BY DEF Init
<1>2. Clock
  BY DEF Init, Clock, NoTick
<1>3. OwnPrices
  BY <1>1 DEF OwnPrices, NoPosition
<1>4. SumOver(Instruments \ Running, WorstTrade) \in Nat /\ AllAtWorst \in Nat
  BY WorstSum, AllAtWorstType
<1>5. total = 0 /\ faults = 0 /\ faults * AllAtWorst = 0
  BY <1>4 DEF Init
<1>6. LossCounted
  BY <1>4, <1>5, Constants DEF LossCounted
<1>7. QED BY <1>2, <1>3, <1>6 DEF LossInv

\* What the breaker is worth: before 15:10 the day loses at most the limit and the
\* worst trade of every instrument, and those once more for each fault, whatever
\* the quotes and the charges are and however often an instrument is traded.
THEOREM LossIsBounded == Spec => []DayLossBounded
<1>1. PassInv /\ LossInv => DayLossBounded
  <2> SUFFICES ASSUME PassInv, LossInv, ~past
               PROVE  total > LossLimit - (1 + faults) * AllAtWorst
    BY DEF DayLossBounded
  <2>1. PICK s \in 0..AllAtWorst : s = SumOver(Instruments \ Running, WorstTrade)
    BY AllAtWorstType
  <2>2. total > LossLimit - faults * AllAtWorst - IF Guarded THEN s ELSE 0
    BY <2>1 DEF LossInv, LossCounted
  <2>3. total \in Int /\ LossLimit \in Int /\ faults \in Nat /\ AllAtWorst \in Nat
    BY AllAtWorstType, Constants DEF PassInv, Types
  <2>4. (1 + faults) * AllAtWorst = faults * AllAtWorst + AllAtWorst
    BY <2>3
  <2>5. faults * AllAtWorst \in Int
    BY <2>3
  <2>6. QED BY <2>1, <2>2, <2>3, <2>4, <2>5
<1>2. QED BY <1>1, InitPass, PassStep, InitCapital, PremiumsKnownStep, InitLoss, LossStep, PTL
        DEF Spec
=============================================================================
