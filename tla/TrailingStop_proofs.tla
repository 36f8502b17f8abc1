-------------------------- MODULE TrailingStop_proofs --------------------------
(***************************************************************************)
(* TrailingStop for any prices, any risks and any number of passes that die: *)
(* the stop at the broker backs the stage on record, the best quote stays    *)
(* locked in, and only a fault can loosen the stop.                         *)
(***************************************************************************)
EXTENDS TrailingStop, TLAPS

-----------------------------------------------------------------------------
(* Prices: what rounding, the rungs and the final stop return. *)

\* A rounded price is in whole paise, and half a paisa away at most.
LEMMA RoundedPrice ==
  ASSUME NEW x \in Nat, NEW r \in Rounded(x)
  PROVE  /\ r \in Nat /\ r % Paisa = 0
         /\ 2 * (r - x) <= Paisa /\ 2 * (x - r) <= Paisa
  BY DEF Rounded, Paisa

\* Rounding does not go below a price in whole paise.
LEMMA RoundedAbove ==
  ASSUME NEW x \in Nat, NEW r \in Rounded(x), NEW floor \in Nat,
         floor % Paisa = 0, x >= floor
  PROVE  r >= floor
  BY RoundedPrice DEF Paisa

\* The tenths of T that are passed are no more than the gain.
LEMMA WholeParts ==
  ASSUME NEW x \in Nat, NEW d \in Nat \ {0}
  PROVE  x \div d \in Nat /\ d * (x \div d) <= x
  OBVIOUS

LEMMA RungType ==
  ASSUME NEW gain \in Int, NEW t \in Nat \ {0}, t % Paisa = 0
  PROVE  /\ t \div 20 \in Nat \ {0} /\ 20 * (t \div 20) = t
         /\ 2 * gain >= t => Rung(gain, t) \in Nat /\ Rung(gain, t) < gain
<1> DEFINE u == t \div 20
<1>1. u \in Nat \ {0} /\ 20 * u = t
  BY DEF Paisa
<1> HIDE DEF u
<1>2. ASSUME 2 * gain >= t PROVE Rung(gain, t) \in Nat /\ Rung(gain, t) < gain
  <2>1. gain >= 10 * u
    BY <1>1, <1>2
  <2>2. CASE gain < 18 * u
    <3>1. Rung(gain, t) = 5 * u
      BY <2>2 DEF Rung, u
    <3>2. QED BY <1>1, <2>1, <3>1
  <2>3. CASE gain >= 18 * u /\ gain < 20 * u
    <3>1. Rung(gain, t) = 12 * u
      BY <1>1, <2>3 DEF Rung, u
    <3>2. QED BY <1>1, <2>3, <3>1
  <2>4. CASE gain >= 20 * u
    <3> DEFINE tenths == (gain - 20 * u) \div (2 * u)
    <3>1. Rung(gain, t) = 18 * u + (2 * u) * tenths
      BY <1>1, <2>4 DEF Rung, u
    <3>2. gain - 20 * u \in Nat /\ 2 * u \in Nat \ {0}
      BY <1>1, <2>4
    <3>3. tenths \in Nat /\ (2 * u) * tenths <= gain - 20 * u
      BY <3>2, WholeParts
    <3> HIDE DEF tenths
    <3>4. (2 * u) * tenths \in Nat
      BY <3>2, <3>3
    <3>5. QED BY <1>1, <2>4, <3>1, <3>3, <3>4
  <2>5. QED BY <1>1, <2>2, <2>3, <2>4
<1>3. QED BY <1>1, <1>2 DEF u

\* The final stop is not below the stop so far, nor below the rung of the
\* quote; a stop that moves up stays below the quote.
LEMMA FinalStop ==
  ASSUME NEW entry \in Nat, NEW t \in Nat, t % Paisa = 0, NEW ltp \in Nat,
         NEW reversing \in BOOLEAN, NEW prior \in Nat
  PROVE  LET final == FinalSL(entry, t, ltp, reversing, prior)
         IN  /\ final \in Nat /\ final >= prior
             /\ final > prior => final < ltp
             /\ t > 0 /\ 2 * (ltp - entry) >= t => final >= entry + Rung(ltp - entry, t)
<1> DEFINE final == FinalSL(entry, t, ltp, reversing, prior)
           ladder == LadderSL(entry, t, ltp, prior)
<1>1. CASE t = 0
  BY <1>1 DEF FinalSL
<1>2. CASE t # 0
  <2>1. /\ t \div 20 \in Nat \ {0}
        /\ 2 * (ltp - entry) >= t =>
              Rung(ltp - entry, t) \in Nat /\ Rung(ltp - entry, t) < ltp - entry
    BY <1>2, RungType
  <2>2. /\ ladder \in Nat /\ ladder >= prior
        /\ ladder > prior => ladder < ltp
        /\ 2 * (ltp - entry) >= t => ladder >= entry + Rung(ltp - entry, t)
    BY <2>1 DEF LadderSL, Max2
  <2> HIDE DEF ladder
  <2>3. final = ladder \/ (final = Max2(ltp - t \div 20, ladder))
    BY <1>2 DEF FinalSL, ladder
  <2>4. final >= ladder /\ final \in Nat /\ (final > ladder => final < ltp)
    BY <2>1, <2>2, <2>3 DEF Max2
  <2> HIDE DEF final
  <2>5. /\ final \in Nat /\ final >= prior
        /\ final > prior => final < ltp
        /\ 2 * (ltp - entry) >= t => final >= entry + Rung(ltp - entry, t)
    <3>1. 2 * (ltp - entry) >= t => entry + Rung(ltp - entry, t) \in Int
      BY <2>1
    <3>2. QED BY <2>2, <2>4, <3>1
  <2>6. QED BY <2>5 DEF final
<1>3. QED BY <1>1, <1>2

\* What an entry at this price opens with.
LEMMA InitialPrices ==
  ASSUME NEW fill \in Fills, NEW risk \in Risks
  PROVE  fill \in Nat \ {0} /\ InitialStop(fill, risk) \in Nat /\ TargetT(risk) \in Nat
<1>1. fill \in Nat \ {0} /\ risk \in Nat
  BY PriceAssumption
<1>2. InitialStop(fill, risk) \in Nat
  BY <1>1 DEF InitialStop, Max2, Paisa
<1>3. TargetT(risk) \in Nat
  BY <1>1 DEF TargetT
<1>4. QED BY <1>1, <1>2, <1>3

-----------------------------------------------------------------------------
(* The inductive invariant. *)

\* A pass that manages the position finds it OPEN; prices on record are in
\* whole paise where the code rounds them.
PricesOnRecord ==
    /\ pc \in {"reconcile", "modify", "save"} => pos.phase = "OPEN"
    /\ pos.phase = "OPEN" => pos.entry > 0
    /\ pos.t % Paisa = 0 /\ pos.stage % Paisa = 0

\* The stage is the recorded stop, rounded, and the trigger at the broker is
\* half a paisa below that stop at most.
StageNearTrigger ==
    pos.phase = "OPEN" =>
        /\ 2 * (pos.stage - pos.sl) <= Paisa /\ 2 * (pos.sl - pos.stage) <= Paisa
        /\ 2 * (pos.sl - stop.trigger) <= Paisa

\* What a pass is about to send, or to save, is computed from the stage still
\* on record, and what it saves has been sent.
ProposalFromStage ==
    /\ pc \in {"modify", "save"} =>
          mem.final = FinalSL(pos.entry, pos.t, mem.ltp, mem.reversing, pos.stage)
    /\ pc = "save" => 2 * (mem.final - stop.trigger) <= Paisa

\* Until a pass dies the trigger is the stop on record, or the one about to be.
SentIsSaved ==
    faults = 0 /\ pos.phase = "OPEN" =>
        stop.trigger = IF pc = "save" THEN mem.final ELSE pos.sl

StopInv == TypeOK /\ PricesOnRecord /\ StageNearTrigger /\ ProposalFromStage
                  /\ SentIsSaved /\ PeakLockedIn

LEMMA InitStop == Init => StopInv
<1> SUFFICES ASSUME Init PROVE StopInv
  OBVIOUS
<1>1. live \in BOOLEAN
  BY PriceAssumption, Zenon DEF Init
<1>2. mem \in Memory /\ pos \in Position /\ stop \in Stop
  BY DEF Init, NoMemory, Memory, Nothing, Position, Phases, Stop
<1>3. TypeOK
  BY <1>1, <1>2, PriceAssumption DEF Init, TypeOK
<1>4. PricesOnRecord /\ StageNearTrigger /\ ProposalFromStage /\ SentIsSaved /\ PeakLockedIn
  BY DEF Init, Nothing, PricesOnRecord, StageNearTrigger, ProposalFromStage, SentIsSaved,
     PeakLockedIn, Paisa
<1>5. QED BY <1>3, <1>4 DEF StopInv

\* What a pass proposes: FinalStop, for the position on record.
LEMMA Proposal ==
  ASSUME StopInv
  PROVE  LET final == FinalSL(pos.entry, pos.t, mem.ltp, mem.reversing, pos.stage)
         IN  /\ final \in Nat /\ final >= pos.stage
             /\ final > pos.stage => final < mem.ltp
             /\ pos.t > 0 /\ 2 * (mem.ltp - pos.entry) >= pos.t =>
                   final >= pos.entry + Rung(mem.ltp - pos.entry, pos.t)
<1>1. /\ pos.entry \in Nat /\ pos.t \in Nat /\ pos.stage \in Nat /\ mem.ltp \in Nat
      /\ pos.t % Paisa = 0
  BY DEF StopInv, TypeOK, Position, Memory, PricesOnRecord
<1>2. mem.reversing \in BOOLEAN
  BY DEF StopInv, TypeOK, Memory
<1>3. QED BY <1>1, <1>2, FinalStop

\* The stage that Save puts on record: not below the one so far, nor more than
\* half a paisa off the stop it rounds.
LEMMA SavedStage ==
  ASSUME StopInv, pc = "save", NEW r \in Rounded(mem.final)
  PROVE  /\ r \in Nat /\ r % Paisa = 0 /\ r >= pos.stage
         /\ 2 * (r - mem.final) <= Paisa /\ 2 * (mem.final - r) <= Paisa
<1>1. mem.final \in Nat /\ mem.final >= pos.stage
  BY Proposal DEF StopInv, ProposalFromStage
<1>2. pos.stage \in Nat /\ pos.stage % Paisa = 0
  BY DEF StopInv, TypeOK, Position, PricesOnRecord
<1>3. QED BY <1>1, <1>2, RoundedPrice, RoundedAbove

LEMMA TypeStep == StopInv /\ [Next]_vars => TypeOK'
<1> SUFFICES ASSUME StopInv, [Next]_vars PROVE TypeOK'
  OBVIOUS
<1>1. TypeOK
  BY DEF StopInv
<1>2. live' = live
  BY DEF Next, vars, Open, BeginPass, ExitStopped, Propose, Modify, ModifyRefused, Save, Settle,
     Forget, PassDies, ExchangeFills
<1>3. live' \in BOOLEAN
  BY <1>1, <1>2, Zenon DEF TypeOK
<1>4. NoMemory \in Memory /\ Nothing \in Position
  BY DEF NoMemory, Memory, Nothing, Position, Phases
<1>5. ASSUME pos' \in Position, stop' \in Stop, mem' \in Memory,
             pc' \in {"idle", "reconcile", "modify", "save", "settle"},
             peak' \in Nat, faults' \in 0..MaxFaults
      PROVE  TypeOK'
  BY <1>3, <1>5 DEF TypeOK
<1>6. /\ pos \in Position /\ stop \in Stop /\ mem \in Memory /\ peak \in Nat
      /\ faults \in 0..MaxFaults
  BY <1>1 DEF TypeOK
<1>7. ASSUME NEW fill \in Fills, NEW risk \in Risks, Open(fill, risk) PROVE TypeOK'
  <2>1. PICK sl \in Rounded(InitialStop(fill, risk)), t \in Rounded(TargetT(risk)) :
           /\ pos' = [phase |-> "OPEN", entry |-> fill, t |-> t, stage |-> sl, sl |-> sl]
           /\ stop' = [trigger |-> sl, status |-> "OPEN"]
    BY <1>7 DEF Open
  <2>2. fill \in Nat /\ sl \in Nat /\ t \in Nat
    BY InitialPrices, RoundedPrice
  <2>3. pos' \in Position /\ stop' \in Stop
    BY <2>1, <2>2 DEF Position, Phases, Stop
  <2>4. QED BY <1>5, <1>6, <1>7, <2>3 DEF Open, Step
<1>8. ASSUME NEW ltp \in Ltps, NEW reversing \in BOOLEAN, BeginPass(ltp, reversing) PROVE TypeOK'
  <2>1. ltp \in Nat
    BY PriceAssumption
  <2>2. mem' \in Memory
    BY <1>8, <2>1 DEF BeginPass, Memory
  <2>3. stop' \in Stop
    BY <1>6, <1>8 DEF BeginPass, Stop
  <2>4. QED BY <1>5, <1>6, <1>8, <2>2, <2>3 DEF BeginPass
<1>9. CASE ExitStopped \/ Settle
  <2>1. pos' \in Position
    BY <1>6, <1>9 DEF ExitStopped, Settle, Position, Phases
  <2>2. QED BY <1>4, <1>5, <1>6, <1>9, <2>1 DEF ExitStopped, Settle, Step
<1>10. CASE Propose
  <2>1. FinalSL(pos.entry, pos.t, mem.ltp, mem.reversing, pos.stage) \in Nat
    BY Proposal
  <2>2. mem' \in Memory
    BY <1>6, <1>10, <2>1 DEF Propose, Memory
  <2>3. QED BY <1>5, <1>6, <1>10, <2>2 DEF Propose
<1>11. CASE Modify
  <2>1. stop' \in Stop
    BY <1>6, <1>11 DEF Modify, Stop, Memory
  <2>2. QED BY <1>5, <1>6, <1>11, <2>1 DEF Modify, Step
<1>12. CASE Save
  <2>1. PICK r \in Rounded(mem.final) :
          pos' = [pos EXCEPT !.stage = r, !.sl = mem.final,
                             !.phase = IF mem.ltp <= mem.final THEN "EXITING" ELSE @]
    BY <1>12 DEF Save
  <2>2. r \in Nat /\ mem.final \in Nat /\ mem.ltp \in Nat
    BY <1>6, <1>12, SavedStage DEF Save, Memory
  <2>3. pos' \in Position
    BY <1>6, <2>1, <2>2 DEF Position, Phases
  <2>4. peak' \in Nat
    BY <1>6, <1>12, <2>2 DEF Save, Max2
  <2>5. mem' \in Memory
    BY <1>4, <1>6, <1>12 DEF Save
  <2>6. QED BY <1>5, <1>6, <1>12, <2>3, <2>4, <2>5 DEF Save
<1>13. CASE ModifyRefused \/ Forget
  BY <1>4, <1>5, <1>6, <1>13 DEF ModifyRefused, Forget, Step, TypeOK
<1>14. CASE PassDies
  <2>1. faults' \in 0..MaxFaults
    BY <1>6, <1>14, PriceAssumption DEF PassDies
  <2>2. QED BY <1>4, <1>5, <1>6, <1>14, <2>1 DEF PassDies
<1>15. CASE ExchangeFills
  <2>1. stop' \in Stop
    BY <1>6, <1>15 DEF ExchangeFills, Stop
  <2>2. QED BY <1>1, <1>5, <1>6, <1>15, <2>1 DEF ExchangeFills, TypeOK
<1>16. CASE UNCHANGED vars
  BY <1>1, <1>5, <1>6, <1>16 DEF vars, TypeOK
<1>17. QED BY <1>7, <1>8, <1>9, <1>10, <1>11, <1>12, <1>13, <1>14, <1>15, <1>16 DEF Next

\* The rest of the invariant.
Rest == PricesOnRecord /\ StageNearTrigger /\ ProposalFromStage /\ SentIsSaved /\ PeakLockedIn

\* Steps that change neither the prices on record nor the trigger, and end the
\* pass or leave it where it is.
LEMMA QuietStep ==
  ASSUME StopInv, UNCHANGED <<peak, stop.trigger>>,
         UNCHANGED <<pos.entry, pos.t, pos.stage, pos.sl>>,
         pos'.phase = pos.phase \/ pos'.phase \in {"EXITING", "COOLDOWN"},
         \/ UNCHANGED <<pc, mem, faults, pos.phase>>
         \/ pc' \in {"idle", "settle"} /\ pc # "save" /\ faults' = faults
         \/ pc' = "idle" /\ faults' > 0
         \/ pc = "idle" /\ pc' = "reconcile" /\ pos'.phase = "OPEN" /\ faults' = faults
  PROVE  Rest'
<1> USE DEF StopInv
<1>1. PricesOnRecord'
  BY DEF PricesOnRecord
<1>2. StageNearTrigger'
  BY DEF StageNearTrigger
<1>3. ProposalFromStage'
  BY DEF ProposalFromStage
<1>4. SentIsSaved'
  BY DEF SentIsSaved
<1>5. PeakLockedIn'
  BY DEF PeakLockedIn
<1>6. QED BY <1>1, <1>2, <1>3, <1>4, <1>5 DEF Rest

LEMMA RestStep == StopInv /\ [Next]_vars => Rest'
<1> SUFFICES ASSUME StopInv, [Next]_vars PROVE Rest'
  OBVIOUS
<1>1. /\ pos \in Position /\ stop \in Stop /\ mem \in Memory /\ peak \in Nat
      /\ faults \in Nat /\ MaxFaults \in Nat
  BY PriceAssumption DEF StopInv, TypeOK
<1>2. TypeOK'
  BY TypeStep
<1>3. ASSUME NEW fill \in Fills, NEW risk \in Risks, Open(fill, risk) PROVE Rest'
  <2>1. PICK sl \in Rounded(InitialStop(fill, risk)), t \in Rounded(TargetT(risk)) :
           /\ pos' = [phase |-> "OPEN", entry |-> fill, t |-> t, stage |-> sl, sl |-> sl]
           /\ stop' = [trigger |-> sl, status |-> "OPEN"]
    BY <1>3 DEF Open
  <2>2. /\ fill \in Nat \ {0} /\ sl \in Nat /\ sl % Paisa = 0
        /\ t \in Nat /\ t % Paisa = 0
    BY InitialPrices, RoundedPrice
  <2>3. pc' = "idle" /\ peak' = 0
    BY <1>3 DEF Open, Step
  <2>4. QED BY <2>1, <2>2, <2>3 DEF Rest, PricesOnRecord, StageNearTrigger, ProposalFromStage,
               SentIsSaved, PeakLockedIn, Paisa
<1>4. ASSUME NEW ltp \in Ltps, NEW reversing \in BOOLEAN, BeginPass(ltp, reversing) PROVE Rest'
  <2>1. stop'.trigger = stop.trigger
    BY <1>1, <1>4 DEF BeginPass, Stop
  <2>2. QED BY <1>4, <2>1, QuietStep DEF BeginPass
<1>5. CASE ExitStopped \/ Settle
  <2>1. /\ UNCHANGED <<pos.entry, pos.t, pos.stage, pos.sl>>
        /\ pos'.phase = pos.phase \/ pos'.phase \in {"EXITING", "COOLDOWN"}
    BY <1>1, <1>5 DEF ExitStopped, Settle, Position
  <2>2. QED BY <1>5, <2>1, QuietStep DEF ExitStopped, Settle, Step
<1>6. CASE Propose
  <2>1. /\ UNCHANGED <<pos, stop, peak, faults>> /\ pos.phase = "OPEN"
        /\ mem' = [mem EXCEPT !.final =
                     FinalSL(pos.entry, pos.t, mem.ltp, mem.reversing, pos.stage)]
        /\ pc' = IF mem'.final # pos.sl THEN "modify" ELSE "save"
    BY <1>1, <1>6 DEF Propose, Memory, StopInv, PricesOnRecord
  <2>2. /\ mem'.ltp = mem.ltp /\ mem'.reversing = mem.reversing
        /\ mem'.final = FinalSL(pos.entry, pos.t, mem.ltp, mem.reversing, pos.stage)
    BY <1>1, <2>1 DEF Memory
  <2>3. pc' = "save" => mem'.final = pos.sl
    BY <2>1
  <2>4. PricesOnRecord' /\ StageNearTrigger' /\ PeakLockedIn'
    BY <2>1 DEF StopInv, PricesOnRecord, StageNearTrigger, PeakLockedIn
  <2>5. ProposalFromStage'
    BY <2>1, <2>2, <2>3 DEF StopInv, StageNearTrigger, ProposalFromStage
  <2>6. SentIsSaved'
    BY <1>6, <2>1, <2>3 DEF StopInv, SentIsSaved, Propose
  <2>7. QED BY <2>4, <2>5, <2>6 DEF Rest
<1>7. CASE Modify
  <2>1. /\ UNCHANGED <<pos, mem, peak, faults>> /\ pc = "modify" /\ pc' = "save"
        /\ stop'.trigger = mem.final
    BY <1>1, <1>7 DEF Modify, Step, Stop
  <2>2. mem.final \in Nat /\ mem.final >= pos.stage
    BY <2>1, Proposal DEF StopInv, ProposalFromStage
  <2>3. pos.stage \in Nat /\ pos.sl \in Nat
    BY <1>1 DEF Position
  <2>4. StageNearTrigger'
    BY <2>1, <2>2, <2>3 DEF StopInv, StageNearTrigger, Paisa
  <2>5. PricesOnRecord' /\ PeakLockedIn' /\ SentIsSaved'
    BY <2>1 DEF StopInv, PricesOnRecord, PeakLockedIn, SentIsSaved
  <2>6. ProposalFromStage'
    BY <2>1, <2>2 DEF StopInv, ProposalFromStage, Paisa
  <2>7. QED BY <2>4, <2>5, <2>6 DEF Rest
<1>8. CASE Save
  <2>1. PICK r \in Rounded(mem.final) :
          pos' = [pos EXCEPT !.stage = r, !.sl = mem.final,
                             !.phase = IF mem.ltp <= mem.final THEN "EXITING" ELSE @]
    BY <1>8 DEF Save
  <2>2. /\ r \in Nat /\ r % Paisa = 0 /\ r >= pos.stage
        /\ 2 * (r - mem.final) <= Paisa /\ 2 * (mem.final - r) <= Paisa
    BY <1>8, SavedStage DEF Save
  <2>3. /\ pos'.stage = r /\ pos'.sl = mem.final /\ pos'.entry = pos.entry /\ pos'.t = pos.t
        /\ pos'.phase \in {pos.phase, "EXITING"} /\ pos.phase = "OPEN"
    BY <1>1, <1>8, <2>1 DEF Position, StopInv, PricesOnRecord, Save
  <2>4. /\ UNCHANGED <<stop, faults>> /\ pc = "save" /\ pc' \in {"settle", "idle"}
        /\ pc' = "settle" => pos'.phase = "EXITING"
        /\ peak' = Max2(peak, mem.ltp)
    BY <1>1, <1>8, <2>1 DEF Save, Position
  <2>5. /\ pos.entry \in Nat /\ pos.t \in Nat /\ pos.stage \in Nat /\ mem.ltp \in Nat
        /\ mem.final \in Nat /\ pos.t % Paisa = 0
    BY <1>1 DEF Position, Memory, StopInv, PricesOnRecord
  <2>6. PricesOnRecord'
    BY <2>2, <2>3, <2>4 DEF StopInv, PricesOnRecord
  <2>7. StageNearTrigger' /\ SentIsSaved'
    BY <2>2, <2>3, <2>4 DEF StopInv, StageNearTrigger, ProposalFromStage, SentIsSaved
  <2>8. ProposalFromStage'
    BY <2>4 DEF ProposalFromStage
  <2>9. PeakLockedIn'
    <3> SUFFICES ASSUME pos.t > 0, 2 * (peak' - pos.entry) >= pos.t
                 PROVE  2 * (pos.entry + Rung(peak' - pos.entry, pos.t) - r) <= Paisa
      BY <2>3 DEF PeakLockedIn
    <3>1. CASE peak' = mem.ltp
      <4>1. mem.final >= pos.entry + Rung(mem.ltp - pos.entry, pos.t)
        BY <3>1, <2>4, Proposal DEF StopInv, ProposalFromStage
      <4>2. Rung(mem.ltp - pos.entry, pos.t) \in Nat
        BY <3>1, <2>5, RungType
      <4>3. QED BY <2>2, <2>5, <3>1, <4>1, <4>2 DEF Paisa
    <3>2. CASE peak' = peak
      <4>1. 2 * (pos.entry + Rung(peak - pos.entry, pos.t) - pos.stage) <= Paisa
        BY <2>3, <3>2 DEF StopInv, PeakLockedIn
      <4>2. Rung(peak - pos.entry, pos.t) \in Nat
        BY <1>1, <3>2, <2>5, RungType
      <4>3. QED BY <2>2, <2>5, <3>2, <4>1, <4>2 DEF Paisa
    <3>3. QED BY <1>1, <2>4, <3>1, <3>2 DEF Max2
  <2>10. QED BY <2>6, <2>7, <2>8, <2>9 DEF Rest
<1>9. CASE ModifyRefused
  BY <1>9, QuietStep DEF ModifyRefused, Step
<1>10. CASE Forget
  <2>1. pos' = Nothing /\ pc' = "idle"
    BY <1>10 DEF Forget, Step
  <2>2. QED BY <2>1 DEF Rest, Nothing, PricesOnRecord, StageNearTrigger, ProposalFromStage,
               SentIsSaved, PeakLockedIn, Paisa
<1>11. CASE PassDies
  BY <1>1, <1>11, QuietStep DEF PassDies
<1>12. CASE ExchangeFills
  <2>1. stop'.trigger = stop.trigger
    BY <1>1, <1>12 DEF ExchangeFills, Stop
  <2>2. QED BY <1>12, <2>1, QuietStep DEF ExchangeFills
<1>13. CASE UNCHANGED vars
  BY <1>13, QuietStep DEF vars
<1>14. QED BY <1>3, <1>4, <1>5, <1>6, <1>7, <1>8, <1>9, <1>10, <1>11, <1>12, <1>13 DEF Next

LEMMA StopStep == StopInv /\ [Next]_vars => StopInv'
  BY TypeStep, RestStep DEF StopInv, Rest

LEMMA StopInvHolds == Spec => []StopInv
  BY InitStop, StopStep, PTL DEF Spec

-----------------------------------------------------------------------------
(* What it amounts to. *)

\* The type invariant: above all, no pass proposes a stop that is not a price.
THEOREM TypeCorrect == Spec => []TypeOK
<1>1. StopInv => TypeOK
  BY DEF StopInv
<1>2. QED BY <1>1, StopInvHolds, PTL

\* Whenever a pass dies, the stop at the broker is a paisa below the stage on
\* record at most: half a paisa from the rounding of the stage, half from a
\* later proposal that started from the rounded stage.
THEOREM StopIsBacked == Spec => []StopBacksRecord
<1>1. StopInv => StopBacksRecord
  BY DEF StopInv, StageNearTrigger, StopBacksRecord, TypeOK, Position, Stop, Paisa
<1>2. QED BY <1>1, StopInvHolds, PTL

\* The best quote a pass has managed stays locked in, on every ladder.
THEOREM PeakStaysLocked == Spec => []PeakLockedIn
<1>1. StopInv => PeakLockedIn
  BY DEF StopInv
<1>2. QED BY <1>1, StopInvHolds, PTL

\* No rung, and no tightening, reaches the quote it is computed from.
THEOREM StopStaysBelowQuote == Spec => []TightenedBelowQuote
<1>1. StopInv => TightenedBelowQuote
  BY Proposal DEF StopInv, ProposalFromStage, TightenedBelowQuote
<1>2. QED BY <1>1, StopInvHolds, PTL

\* Only Save writes the stage, and never a lower one: a pass that dies between
\* the broker and Redis costs the position nothing.
THEOREM StageNeverFalls == Spec => StageRatchets
<1> DEFINE Ratchet == pos.phase # "NONE" /\ pos'.phase # "NONE" => pos'.stage >= pos.stage
<1>1. StopInv /\ [Next]_vars => [Ratchet]_vars
  <2> SUFFICES ASSUME StopInv, [Next]_vars PROVE [Ratchet]_vars
    OBVIOUS
  <2>1. pos \in Position /\ pos.stage \in Nat
    BY DEF StopInv, TypeOK, Position
  <2>2. CASE Save
    <3>1. PICK r \in Rounded(mem.final) :
          pos' = [pos EXCEPT !.stage = r, !.sl = mem.final,
                             !.phase = IF mem.ltp <= mem.final THEN "EXITING" ELSE @]
      BY <2>2 DEF Save
    <3>2. r >= pos.stage
      BY <2>2, SavedStage DEF Save
    <3>3. QED BY <2>1, <3>1, <3>2 DEF Position
  <2>3. ASSUME NEW fill \in Fills, NEW risk \in Risks, Open(fill, risk) PROVE Ratchet
    BY <2>3 DEF Open
  <2>4. CASE Forget
    BY <2>4 DEF Forget, Nothing
  <2>5. CASE ExitStopped \/ Settle
    BY <2>1, <2>5 DEF ExitStopped, Settle, Position
  <2>6. ASSUME pos' = pos PROVE Ratchet
    BY <2>1, <2>6
  <2>7. QED BY <2>2, <2>3, <2>4, <2>5, <2>6 DEF Next, vars, BeginPass, Propose, Modify,
               ModifyRefused, PassDies, ExchangeFills
<1>2. QED BY <1>1, StopInvHolds, PTL DEF Spec, StageRatchets

\* "Monotonic ratchet": as long as no pass has died, what the broker holds is
\* what Redis has on record, and rounding is all that can move it back.
THEOREM OnlyFaultsLoosen == Spec => LoosenedOnlyAfterFault
<1> DEFINE Tight == pos.phase = "OPEN" /\ pos'.phase = "OPEN" /\ faults = 0
                        => stop.trigger - stop'.trigger < Paisa
<1>1. StopInv /\ [Next]_vars => [Tight]_vars
  <2> SUFFICES ASSUME StopInv, [Next]_vars PROVE [Tight]_vars
    OBVIOUS
  <2>1. pos \in Position /\ stop \in Stop /\ stop.trigger \in Nat
    BY DEF StopInv, TypeOK, Stop
  <2>2. CASE Modify
    <3>1. stop'.trigger = mem.final /\ pc = "modify"
      BY <2>1, <2>2 DEF Modify, Step, Stop
    <3>2. mem.final \in Nat /\ mem.final >= pos.stage
      BY <3>1, Proposal DEF StopInv, ProposalFromStage
    <3>3. pos.phase = "OPEN" /\ faults = 0 =>
             stop.trigger = pos.sl /\ 2 * (pos.sl - pos.stage) <= Paisa
      BY <3>1 DEF StopInv, SentIsSaved, StageNearTrigger
    <3>4. pos.sl \in Nat /\ pos.stage \in Nat
      BY <2>1 DEF Position
    <3>5. QED BY <3>1, <3>2, <3>3, <3>4 DEF Paisa
  <2>3. ASSUME NEW fill \in Fills, NEW risk \in Risks, Open(fill, risk) PROVE Tight
    BY <2>3 DEF Open
  <2>4. ASSUME stop'.trigger = stop.trigger PROVE Tight
    BY <2>1, <2>4 DEF Paisa
  <2>5. ASSUME NEW ltp \in Ltps, NEW reversing \in BOOLEAN, BeginPass(ltp, reversing) PROVE Tight
    BY <2>1, <2>4, <2>5 DEF BeginPass, Stop
  <2>6. CASE ExchangeFills
    BY <2>1, <2>4, <2>6 DEF ExchangeFills, Stop
  <2>7. CASE ExitStopped \/ Propose \/ ModifyRefused \/ Save \/ Settle \/ Forget \/ PassDies
    BY <2>4, <2>7 DEF ExitStopped, Propose, ModifyRefused, Save, Settle, Forget, PassDies
  <2>8. QED BY <2>2, <2>3, <2>4, <2>5, <2>6, <2>7 DEF Next, vars
<1>2. QED BY <1>1, StopInvHolds, PTL DEF Spec, LoosenedOnlyAfterFault
=============================================================================
