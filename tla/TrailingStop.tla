----------------------------- MODULE TrailingStop -----------------------------
(***************************************************************************)
(* The protective stop of one OPEN position in prices: the ladder and the   *)
(* RSI tightening of executor/trailing.py, manage_position and _modify_sl   *)
(* of executor/manager.py, and the SL-M order they move at the broker.      *)
(*                                                                         *)
(* The stop is kept three times: `sl_ladder_stage` in Redis, rounded to two *)
(* decimals, `sl_premium` in Redis and the trigger at the broker, both     *)
(* unrounded.  A pass changes the trigger first and writes Redis last.      *)
(*                                                                         *)
(* Prices are integers in twentieths of a paisa: every rung, 0.05*T and     *)
(* 0.7*entry are then exact.  Python's floats are taken to be exact but     *)
(* for round(), which may go either way at half a paisa.                   *)
(***************************************************************************)
EXTENDS Integers

CONSTANTS
    Fills,      \* fill prices of entries, whole paise
    Risks,      \* spot_risk_pts * atm_delta; 0: spot_risk_pts missing
    Ltps,       \* quotes of the option, whole paise
    Modes,      \* subset of {TRUE, FALSE}: live gateway or paper gateway
    MaxFaults   \* bound on the passes that die

Paisa == 20

ASSUME PriceAssumption ==
    /\ \A price \in Fills \cup Ltps : price \in Nat \ {0} /\ price % Paisa = 0
    /\ \A risk \in Risks : risk \in Nat /\ risk % 2 = 0
    /\ Modes \subseteq BOOLEAN /\ MaxFaults \in Nat

VARIABLES
    live,   \* which gateway serves the position
    pos,    \* Redis: the position dict
    stop,   \* the SL-M order
    pc,     \* next call of the running pass, "idle" between passes
    mem,    \* locals of the pass: option_ltp, RSI reversing, final_sl
    peak,   \* highest quote a pass of this position has saved
    faults

vars == <<live, pos, stop, pc, mem, peak, faults>>

Phases   == {"NONE", "OPEN", "EXITING", "COOLDOWN"}
Position == [phase : Phases, entry : Nat, t : Nat, stage : Nat, sl : Nat]
Stop     == [trigger : Nat, status : {"OPEN", "COMPLETE"}]
Memory   == [ltp : Nat, reversing : BOOLEAN, final : Nat]

Nothing  == [phase |-> "NONE", entry |-> 0, t |-> 0, stage |-> 0, sl |-> 0]
NoMemory == [ltp |-> 0, reversing |-> FALSE, final |-> 0]

TypeOK ==
    /\ live \in BOOLEAN
    /\ pos \in Position /\ stop \in Stop /\ mem \in Memory
    /\ pc \in {"idle", "reconcile", "modify", "save", "settle"}
    /\ peak \in Nat /\ faults \in 0..MaxFaults

-----------------------------------------------------------------------------
(* Prices. *)

Max2(a, b) == IF a >= b THEN a ELSE b

\* round(x, 2): the nearest paisa, either one at a tie.
Rounded(x) ==
    LET floor == Paisa * (x \div Paisa)
    IN  {r \in {floor, floor + Paisa} : 2 * (r - x) <= Paisa /\ 2 * (x - r) <= Paisa}

\* Seeded bug: no floor below the initial stop.
InitialStopUnfloored(fill, risk) == IF risk > 0 THEN fill - risk ELSE (7 * fill) \div 10

\* The initial stop and T of check_entry_fill: 1.5 times the risk is T, 0.05
\* the floor of the stop, 70% of the fill the stop if no risk is known.
InitialStop(fill, risk) == IF risk > 0 THEN Max2(fill - risk, 5 * Paisa)
                                       ELSE (7 * fill) \div 10
TargetT(risk) == (3 * risk) \div 2

\* Seeded bug: each rung locks in what the next one should.
RungTooHigh(gain, t) ==
    LET u == t \div 20
    IN  CASE gain < 18 * u -> 5 * u
          [] gain >= 18 * u /\ gain < 20 * u -> 12 * u
          [] OTHER -> 20 * u + 2 * u * ((gain - 20 * u) \div (2 * u))

\* The part of T that a gain of at least T/2 locks in: 25%, 60% from 90% on,
\* 90% from T on and 10% more for each further tenth of T.
Rung(gain, t) ==
    LET u == t \div 20
    IN  CASE gain < 18 * u -> 5 * u
          [] gain >= 18 * u /\ gain < 20 * u -> 12 * u
          [] OTHER -> 18 * u + 2 * u * ((gain - 20 * u) \div (2 * u))

\* Seeded bug: the rung is taken without looking at the stop so far.
LadderForgetful(entry, t, ltp, prior) ==
    IF 2 * (ltp - entry) < t THEN prior ELSE entry + Rung(ltp - entry, t)

\* compute_ladder_sl, always called with "CE".
LadderSL(entry, t, ltp, prior) ==
    IF 2 * (ltp - entry) < t THEN prior
                             ELSE Max2(entry + Rung(ltp - entry, t), prior)

\* Seeded bug: a reversal replaces the ladder instead of tightening it.
FinalReplacesLadder(entry, t, ltp, reversing, prior) ==
    IF t = 0 THEN prior
    ELSE IF reversing /\ 10 * (ltp - entry) >= 7 * t THEN ltp - t \div 20
         ELSE LadderSL(entry, t, ltp, prior)

\* compute_ai_adjusted_sl and compute_final_sl: an RSI falling twice in a row
\* tightens the stop to ltp - 0.05*T once 70% of T are gained.
FinalSL(entry, t, ltp, reversing, prior) ==
    LET ladder == LadderSL(entry, t, ltp, prior)
    IN  IF t = 0 THEN prior
        ELSE IF reversing /\ 10 * (ltp - entry) >= 7 * t
             THEN Max2(ltp - t \div 20, ladder)
             ELSE ladder

-----------------------------------------------------------------------------
Init ==
    /\ live \in Modes
    /\ pos = Nothing /\ stop = [trigger |-> 0, status |-> "COMPLETE"]
    /\ pc = "idle" /\ mem = NoMemory /\ peak = 0 /\ faults = 0

Step(from, to) == pc = from /\ pc' = to

\* check_entry_fill: the stop is sent and the position saved as OPEN.
Open(fill, risk) ==
    /\ Step("idle", "idle") /\ pos.phase = "NONE"
    /\ \E sl \in Rounded(InitialStop(fill, risk)), t \in Rounded(TargetT(risk)) :
          /\ pos' = [phase |-> "OPEN", entry |-> fill, t |-> t, stage |-> sl, sl |-> sl]
          /\ stop' = [trigger |-> sl, status |-> "OPEN"]
    /\ peak' = 0
    /\ UNCHANGED <<live, mem, faults>>

\* A pass gets a quote; process_tick fills the paper stop it touches.
BeginPass(ltp, reversing) ==
    /\ pc = "idle" /\ pos.phase \in {"OPEN", "EXITING"}
    /\ pc' = IF pos.phase = "OPEN" THEN "reconcile" ELSE "settle"
    /\ mem' = [ltp |-> ltp, reversing |-> reversing, final |-> 0]
    /\ stop' = IF ~live /\ ltp <= stop.trigger
               THEN [stop EXCEPT !.status = "COMPLETE"] ELSE stop
    /\ UNCHANGED <<live, pos, peak, faults>>

\* reconcile found the stop filled: _exit saves EXITING.
ExitStopped ==
    /\ Step("reconcile", "settle") /\ stop.status = "COMPLETE"
    /\ pos' = [pos EXCEPT !.phase = "EXITING"]
    /\ UNCHANGED <<live, stop, mem, peak, faults>>

\* manage_position up to its first call: modify_order if the new stop differs
\* from the unrounded one on record, however little.
Propose ==
    /\ pc = "reconcile" /\ stop.status = "OPEN"
    /\ LET final == FinalSL(pos.entry, pos.t, mem.ltp, mem.reversing, pos.stage)
       IN  /\ mem' = [mem EXCEPT !.final = final]
           /\ pc' = IF final # pos.sl THEN "modify" ELSE "save"
    /\ UNCHANGED <<live, pos, stop, peak, faults>>

\* _modify_sl.
Modify ==
    /\ Step("modify", "save") /\ stop.status = "OPEN"
    /\ stop' = [stop EXCEPT !.trigger = mem.final]
    /\ UNCHANGED <<live, pos, mem, peak, faults>>

\* The exchange filled the stop meanwhile: modify_order raises.
ModifyRefused ==
    /\ Step("modify", "idle") /\ stop.status # "OPEN"
    /\ mem' = NoMemory
    /\ UNCHANGED <<live, pos, stop, peak, faults>>

\* The end of manage_position: the position is saved, as EXITING with reason
\* sl_hit if the quote is not above the stop ("belt-and-suspenders").
Save ==
    /\ pc = "save"
    /\ \E r \in Rounded(mem.final) :
          pos' = [pos EXCEPT !.stage = r, !.sl = mem.final,
                             !.phase = IF mem.ltp <= mem.final THEN "EXITING" ELSE @]
    /\ pc' = IF mem.ltp <= mem.final THEN "settle" ELSE "idle"
    /\ mem' = IF mem.ltp <= mem.final THEN mem ELSE NoMemory
    /\ peak' = Max2(peak, mem.ltp)
    /\ UNCHANGED <<live, stop, faults>>

\* check_exit_complete: an sl_hit exit sends no order, it waits for the stop.
Settle ==
    /\ Step("settle", "idle")
    /\ pos' = IF stop.status = "COMPLETE" THEN [pos EXCEPT !.phase = "COOLDOWN"] ELSE pos
    /\ mem' = NoMemory
    /\ UNCHANGED <<live, stop, peak, faults>>

\* check_cooldown_elapsed.
Forget ==
    /\ Step("idle", "idle") /\ pos.phase = "COOLDOWN"
    /\ pos' = Nothing
    /\ UNCHANGED <<live, stop, mem, peak, faults>>

\* Seeded bug: a modify_order that fails is only logged, as cancel_order does.
PassDiesOrSwallows ==
    /\ pc # "idle" /\ faults < MaxFaults /\ faults' = faults + 1
    /\ \/ pc # "modify" /\ pc' = "idle" /\ mem' = NoMemory
       \/ pc = "modify" /\ pc' = "save" /\ UNCHANGED mem
    /\ UNCHANGED <<live, pos, stop, peak>>

\* The tick is cancelled, or its next call raises.
PassDies ==
    /\ pc # "idle" /\ faults < MaxFaults
    /\ pc' = "idle" /\ mem' = NoMemory /\ faults' = faults + 1
    /\ UNCHANGED <<live, pos, stop, peak>>

\* The exchange sees prices between the quotes and may trigger the stop.
ExchangeFills ==
    /\ live /\ stop.status = "OPEN"
    /\ stop' = [stop EXCEPT !.status = "COMPLETE"]
    /\ UNCHANGED <<live, pos, pc, mem, peak, faults>>

Next ==
    \/ \E fill \in Fills, risk \in Risks : Open(fill, risk)
    \/ \E ltp \in Ltps, reversing \in BOOLEAN : BeginPass(ltp, reversing)
    \/ ExitStopped \/ Propose \/ Modify \/ ModifyRefused \/ Save \/ Settle
    \/ Forget \/ PassDies \/ ExchangeFills

Spec == Init /\ [][Next]_vars

-----------------------------------------------------------------------------
(* Safety. *)

\* The broker's stop is never looser than the stage on record, but for a paisa
\* of rounding, whenever a pass dies: modify_order runs before save_position,
\* no pass proposes less than the stage, and a pass that finds its proposal on
\* record need not send it again.
StopBacksRecord == pos.phase = "OPEN" => pos.stage - stop.trigger <= Paisa

\* The highest quote any pass has managed stays locked in by its rung, within
\* half a paisa, however many passes die or are refused after it.
PeakLockedIn ==
    pos.phase = "OPEN" /\ pos.t > 0 /\ 2 * (peak - pos.entry) >= pos.t =>
        2 * (pos.entry + Rung(peak - pos.entry, pos.t) - pos.stage) <= Paisa

\* A stop that is tightened stays below the quote it is tightened for: a
\* winning position is never stopped out by its own next rung.
TightenedBelowQuote ==
    pc = "modify" /\ mem.final > pos.stage => mem.final < mem.ltp

\* Over the life of a position the stage on record never falls, also when a
\* pass dies between the broker and Redis and the next one starts from the old
\* stage.
StageRatchets ==
    [][pos.phase # "NONE" /\ pos'.phase # "NONE" => pos'.stage >= pos.stage]_vars

\* "Monotonic ratchet: SL only ever moves toward profit"
\* (fno-auto-executor-spec-v1.md:236): as long as no pass has died the trigger
\* at the broker does not fall by a paisa or more while the position is OPEN.
\* Only a stop that Redis does not know of is ever moved back.
LoosenedOnlyAfterFault ==
    [][pos.phase = "OPEN" /\ pos'.phase = "OPEN" /\ faults = 0
          => stop.trigger - stop'.trigger < Paisa]_vars
=============================================================================
