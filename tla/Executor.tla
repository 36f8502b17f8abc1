------------------------------- MODULE Executor -------------------------------
(***************************************************************************)
(* One instrument of the executor, as the cron ticks drive it              *)
(* (executor/run.py, executor/manager.py, executor/state.py).              *)
(*                                                                         *)
(* Nothing survives a tick but Redis and the broker's book, and a tick may *)
(* be cancelled between any two of its calls: the workflow sets            *)
(* cancel-in-progress, so the next dispatch kills a tick that is still in  *)
(* its sub-loop.  `pc` is therefore the next Redis or broker call of the   *)
(* tick, "down" between ticks, and `mem` the local variables that call     *)
(* needs.  One action is one such call together with the local computation *)
(* up to the next one.                                                     *)
(*                                                                         *)
(* Prices are left out: whether a fill, a rung of the ladder or the        *)
(* belt-and-suspenders comparison happens is chosen freely.                *)
(***************************************************************************)
EXTENDS OrderBook

CONSTANTS
    NoTrade,        \* no intent, no trade
    FillAttempts,   \* config.ENTRY_FILL_RETRY_ATTEMPTS
    SubPasses,      \* config.TRACKER_SUBLOOPS, passes per tick
    MaxFaults,      \* bound on cancelled ticks, raising calls, lost replies
    Rejects,        \* the exchange may reject an order
    ExternalCloses, \* the position may be closed by hand
    SquareoffToday  \* the behaviour reaches 15:10

ASSUME ExecutorAssumption ==
    /\ NoTrade \notin Trades
    /\ FillAttempts \in Nat \ {0} /\ SubPasses \in Nat \ {0} /\ MaxFaults \in Nat
    /\ Rejects \in BOOLEAN /\ ExternalCloses \in BOOLEAN /\ SquareoffToday \in BOOLEAN

VARIABLES
    intent,   \* Redis executor:pending_intent:{instrument}
    pos,      \* Redis executor:position:{instrument}
    booked,   \* how often each trade's P&L was added to the day's total
    notion,   \* how often each trade was posted to Notion
    closed,   \* how often each trade was pushed to the closed-today list
    blocked,  \* Redis daily-loss breaker key
    written,  \* intents the signal process has written so far
    afterSO,  \* the clock is past SQUAREOFF_IST
    pc, mem,  \* the running tick
    faults    \* faults so far

book   == orders
redis  == <<intent, pos, blocked>>
ledger == <<booked, notion, closed>>
env    == <<written, afterSO>>
vars   == <<orders, intent, pos, booked, notion, closed, blocked, written,
            afterSO, pc, mem, faults>>

Phases == {"IDLE", "ENTERING", "OPEN", "EXITING", "COOLDOWN"}

\* The position dict; entry, sl and exit are order ids.  Phase IDLE stands for
\* the absent key.
Position == [phase : Phases, trade : Trades \cup {NoTrade},
             entry : Nat, sl : Nat, exit : Nat,
             slFilled : BOOLEAN, flatExt : BOOLEAN, journaled : BOOLEAN]

NoPosition == [phase |-> "IDLE", trade |-> NoTrade, entry |-> 0, sl |-> 0,
               exit |-> 0, slFilled |-> FALSE, flatExt |-> FALSE,
               journaled |-> FALSE]

\* state.fresh_position_from_intent plus the entry order try_enter records.
FreshPosition(t, oid) ==
    [NoPosition EXCEPT !.phase = "ENTERING", !.trade = t, !.entry = oid]

Labels == {"down", "status", "positions", "route", "gate", "take", "drop",
           "enter", "saveEntry", "fill", "placeSL", "saveOpen", "cancelSL",
           "sell", "saveExit", "settle", "limit", "cooldown", "journal",
           "append", "flag", "done"}

\* Locals of the tick: the intent loaded by _run_idle, the id the last
\* place_order returned, whether an option LTP > 0 was fetched in this pass,
\* past_squareoff, the pass number, the entry-fill checks left, and the stop
\* status reconcile has read.
Memory == [intent : Trades \cup {NoTrade}, oid : Nat, quote : BOOLEAN,
           pastSO : BOOLEAN, pass : Nat, left : Nat, seen : BOOLEAN]

NoMemory == [intent |-> NoTrade, oid |-> 0, quote |-> FALSE, pastSO |-> FALSE,
             pass |-> 0, left |-> 0, seen |-> FALSE]

TypeOK ==
    /\ BookTypeOK
    /\ intent \in Trades \cup {NoTrade}
    /\ pos \in Position
    /\ booked \in [Trades -> Nat] /\ notion \in [Trades -> Nat]
    /\ closed \in [Trades -> Nat]
    /\ blocked \in BOOLEAN
    /\ written \in SUBSET Trades
    /\ afterSO \in BOOLEAN
    /\ pc \in Labels /\ mem \in Memory /\ faults \in Nat

Zero == [t \in Trades |-> 0]

Init ==
    /\ orders = <<>>
    /\ intent = NoTrade /\ pos = NoPosition /\ blocked = FALSE
    /\ booked = Zero /\ notion = Zero /\ closed = Zero
    /\ written = {} /\ afterSO = FALSE
    /\ pc = "down" /\ mem = NoMemory /\ faults = 0

Step(from, to) == pc = from /\ pc' = to
Symbol         == SymbolOf[pos.trade]

-----------------------------------------------------------------------------
(* The beginning of a pass: quote, paper fills, reload, reconcile. *)

\* PaperGateway.process_tick: with an LTP at hand the paper book fills those
\* resting orders of the position's symbol whose price the LTP touches.  MARKET
\* orders are not looked at.
PaperTick(quote) ==
    IF ~Live /\ quote
    THEN \E F \in SUBSET {o \in Resting(Symbol) : orders[o].kind # "MKT"} :
            SetStatus(F, "COMPLETE")
    ELSE UNCHANGED orders

\* Only OPEN and ENTERING positions are reconciled.
AfterLoad == IF pos.phase \in {"OPEN", "ENTERING"} THEN "status" ELSE "route"

\* A tick starts: past_squareoff is computed once, then this instrument's
\* first pass begins.  Without a position there is no symbol to quote.
TickStart(quote) ==
    /\ Step("down", AfterLoad)
    /\ quote => pos.phase # "IDLE"
    /\ mem' = [NoMemory EXCEPT !.quote = quote, !.pastSO = afterSO]
    /\ PaperTick(quote)
    /\ UNCHANGED <<redis, ledger, env, faults>>

\* One more pass over an instrument that is still OPEN.  A quote request that
\* raises skips the pass, a quote of 0 still reconciles.
SubloopPass(quote) ==
    /\ pc = "done"
    /\ pos.phase = "OPEN" /\ ~mem.pastSO /\ ~afterSO
    /\ mem.pass + 1 < SubPasses
    /\ pc' \in {"status"} \cup (IF quote THEN {} ELSE {"done"})
    /\ mem' = [NoMemory EXCEPT !.quote = quote, !.pass = mem.pass + 1]
    /\ PaperTick(quote)
    /\ UNCHANGED <<redis, ledger, env, faults>>

\* No pass left, nothing OPEN, 15:10 passed or the job budget spent.
TickEnd ==
    /\ Step("done", "down")
    /\ mem' = NoMemory
    /\ UNCHANGED <<book, redis, ledger, env, faults>>

\* Seeded bug: the reconciled paper position is not saved.
ReadStopStatusUnsaved ==
    /\ pc = "status"
    /\ pc' = IF Live THEN "positions" ELSE "route"
    /\ mem' = [mem EXCEPT !.seen = Live /\ IsComplete(pos.sl)]
    /\ UNCHANGED <<book, redis, ledger, env, faults>>

\* reconcile, first read: the status of the stop.  The paper gateway reads
\* nothing else and the position is saved; the live one goes on.
ReadStopStatus ==
    /\ pc = "status"
    /\ \/ /\ Live
          /\ pc' = "positions"
          /\ mem' = [mem EXCEPT !.seen = IsComplete(pos.sl)]
          /\ UNCHANGED pos
       \/ /\ ~Live
          /\ pc' = "route"
          /\ pos' = [pos EXCEPT !.slFilled = @ \/ IsComplete(pos.sl)]
          /\ UNCHANGED mem
    /\ UNCHANGED <<book, intent, blocked, ledger, env, faults>>

\* reconcile, second read (live): the net position, at a later moment.
ReadPositions ==
    /\ Step("positions", "route")
    /\ pos' = [pos EXCEPT !.slFilled = @ \/ mem.seen,
                          !.flatExt = @ \/ (pos.phase = "OPEN" /\ Net(Symbol) = 0)]
    /\ mem' = [mem EXCEPT !.seen = FALSE]
    /\ UNCHANGED <<book, intent, blocked, ledger, env, faults>>

-----------------------------------------------------------------------------
(* Phase routing. *)

\* Seeded bug: the broker is called before EXITING is on record.
BeginExitUnsaved(reason) ==
    /\ pc' = IF reason = "sl_hit" THEN "settle"
             ELSE IF pos.sl # 0 THEN "cancelSL" ELSE "sell"
    /\ UNCHANGED <<book, redis, ledger, env, mem, faults>>

\* _exit up to its first save: EXITING is on record before any broker call.
\* Both callers come from OPEN or ENTERING, so the phase test in front of the
\* market sell always holds.
BeginExit(reason) ==
    /\ pos' = [pos EXCEPT !.phase = "EXITING"]
    /\ pc' = IF reason = "sl_hit" THEN "settle"
             ELSE IF pos.sl # 0 THEN "cancelSL" ELSE "sell"
    /\ UNCHANGED <<book, intent, blocked, ledger, env, mem, faults>>

\* force_squareoff of an OPEN or ENTERING position.
Squareoff ==
    /\ pc = "route" /\ mem.pastSO /\ pos.phase \in {"OPEN", "ENTERING"}
    /\ BeginExit("hard_squareoff")

\* Past 15:10 every other phase is left alone, EXITING included.
NothingToDo ==
    /\ Step("route", "done") /\ mem.pastSO
    /\ pos.phase \notin {"OPEN", "ENTERING"}
    /\ UNCHANGED <<book, redis, ledger, env, mem, faults>>

Routed(phase) == pc = "route" /\ ~mem.pastSO /\ pos.phase = phase

\* manage_position: a stop seen filled, then a position seen flat, then the
\* ladder, whose SL the LTP may already have reached ("belt").
Manage ==
    /\ Routed("OPEN") /\ mem.quote
    /\ \/ pos.slFilled /\ BeginExit("sl_hit")
       \/ ~pos.slFilled /\ pos.flatExt /\ BeginExit("flat_external")
       \/ ~pos.slFilled /\ ~pos.flatExt /\ BeginExit("sl_hit")

\* The stop is trailed or kept and the position saved, or there is no quote.
Hold ==
    /\ Routed("OPEN")
    /\ mem.quote => ~pos.slFilled /\ ~pos.flatExt
    /\ pc' = "done"
    /\ UNCHANGED <<book, redis, ledger, env, mem, faults>>

\* Seeded bug: only the tick that sent the entry looks at its fill.
RouteEnteringIgnored ==
    /\ Routed("ENTERING") /\ pc' = "done"
    /\ UNCHANGED <<book, redis, ledger, env, mem, faults>>

RouteEntering ==
    /\ Routed("ENTERING")
    /\ pc' = "fill"
    /\ mem' = [mem EXCEPT !.left = 1]
    /\ UNCHANGED <<book, redis, ledger, env, faults>>

\* Seeded bug: an EXITING position is sold again on every tick.
RouteExitingResells ==
    /\ Routed("EXITING") /\ pc' = "sell"
    /\ UNCHANGED <<book, redis, ledger, env, mem, faults>>

RouteExiting ==
    /\ Routed("EXITING")
    /\ pc' = "settle"
    /\ UNCHANGED <<book, redis, ledger, env, mem, faults>>

\* Seeded bug: COOLDOWN ticks call _journal_if_cooldown as well.
RouteCooldownJournals ==
    /\ Routed("COOLDOWN") /\ pc' = "journal"
    /\ UNCHANGED <<book, redis, ledger, env, mem, faults>>

\* check_cooldown_elapsed: after 15 minutes the position is deleted.
RouteCooldown ==
    /\ Routed("COOLDOWN")
    /\ pc' = "done"
    /\ pos' \in {pos, NoPosition}
    /\ UNCHANGED <<book, intent, blocked, ledger, env, mem, faults>>

\* _run_idle: load the pending intent.
RouteIdle ==
    /\ Routed("IDLE")
    /\ mem' = [mem EXCEPT !.intent = intent]
    /\ pc' = IF intent = NoTrade THEN "done" ELSE "gate"
    /\ UNCHANGED <<book, redis, ledger, env, faults>>

-----------------------------------------------------------------------------
(* Entry. *)

\* gates.check_all: the breaker and the clock must allow an entry; the checks
\* that are not modelled here (kill switch, cooldown, freshness, tradability)
\* may refuse any intent.
GatePass ==
    /\ Step("gate", "take")
    /\ ~blocked /\ ~afterSO
    /\ UNCHANGED <<book, redis, ledger, env, mem, faults>>

GateFail ==
    /\ Step("gate", "done")
    /\ intent' = NoTrade
    /\ mem' = [mem EXCEPT !.intent = NoTrade]
    /\ UNCHANGED <<book, pos, blocked, ledger, env, faults>>

\* consume_intent, the GET.
TakeIntent ==
    /\ pc = "take"
    /\ pc' = IF intent = NoTrade THEN "done" ELSE "drop"
    /\ UNCHANGED <<book, redis, ledger, env, mem, faults>>

\* Seeded bug: the intent is left in Redis.
DropIntentForgotten ==
    /\ Step("drop", "enter")
    /\ UNCHANGED <<book, redis, ledger, env, mem, faults>>

\* consume_intent, the DELETE: whatever the key holds by now is gone, and
\* _run_idle goes on with the copy it loaded before the gate.
DropIntent ==
    /\ Step("drop", "enter")
    /\ intent' = NoTrade
    /\ UNCHANGED <<book, pos, blocked, ledger, env, mem, faults>>

\* No entry LTP, or compute_qty returns 0.
AbortEntry ==
    /\ Step("enter", "done")
    /\ mem' = [mem EXCEPT !.intent = NoTrade]
    /\ UNCHANGED <<book, redis, ledger, env, faults>>

\* try_enter: a marketable LIMIT, which the paper book fills at once.
PlaceEntry ==
    /\ Step("enter", "saveEntry")
    /\ Place("BUY", mem.intent, IF Live THEN "OPEN" ELSE "COMPLETE")
    /\ mem' = [mem EXCEPT !.oid = NewId]
    /\ UNCHANGED <<redis, ledger, env, faults>>

SaveEntry ==
    /\ Step("saveEntry", "fill")
    /\ pos' = FreshPosition(mem.intent, mem.oid)
    /\ mem' = [mem EXCEPT !.intent = NoTrade, !.oid = 0, !.left = FillAttempts]
    /\ UNCHANGED <<book, intent, blocked, ledger, env, faults>>

\* Seeded bug: the stop is sent whatever the status of the entry.
EntryFilledUnchecked ==
    /\ Step("fill", "placeSL")
    /\ mem' = [mem EXCEPT !.left = 0]
    /\ UNCHANGED <<book, redis, ledger, env, faults>>

\* Seeded bug: the fill is checked without bound.
EntryWaitsUnbounded ==
    /\ Step("fill", "fill") /\ ~IsComplete(pos.entry)
    /\ mem' = [mem EXCEPT !.left = @ - 1]
    /\ UNCHANGED <<book, redis, ledger, env, faults>>

\* check_entry_fill: anything but COMPLETE means waiting, for the next check
\* of _run_idle's bounded retry or for the next tick.
EntryFilled ==
    /\ Step("fill", "placeSL")
    /\ IsComplete(pos.entry)
    /\ mem' = [mem EXCEPT !.left = 0]
    /\ UNCHANGED <<book, redis, ledger, env, faults>>

EntryWaits ==
    /\ pc = "fill" /\ ~IsComplete(pos.entry)
    /\ pc' = IF mem.left > 1 THEN "fill" ELSE "done"
    /\ mem' = [mem EXCEPT !.left = @ - 1]
    /\ UNCHANGED <<book, redis, ledger, env, faults>>

PlaceStop ==
    /\ Step("placeSL", "saveOpen")
    /\ Place("SLM", pos.trade, "OPEN")
    /\ mem' = [mem EXCEPT !.oid = NewId]
    /\ UNCHANGED <<redis, ledger, env, faults>>

\* Seeded bug: the id of the stop is not recorded.
SaveOpenWithoutStop ==
    /\ Step("saveOpen", "done")
    /\ pos' = [pos EXCEPT !.phase = "OPEN"]
    /\ mem' = [mem EXCEPT !.oid = 0]
    /\ UNCHANGED <<book, intent, blocked, ledger, env, faults>>

\* Seeded bug: the id of the stop is saved, the phase is not.
SaveOpenInPhase ==
    /\ Step("saveOpen", "done")
    /\ pos' = [pos EXCEPT !.sl = mem.oid]
    /\ mem' = [mem EXCEPT !.oid = 0]
    /\ UNCHANGED <<book, intent, blocked, ledger, env, faults>>

SaveOpen ==
    /\ Step("saveOpen", "done")
    /\ pos' = [pos EXCEPT !.phase = "OPEN", !.sl = mem.oid]
    /\ mem' = [mem EXCEPT !.oid = 0]
    /\ UNCHANGED <<book, intent, blocked, ledger, env, faults>>

-----------------------------------------------------------------------------
(* Exit. *)

CancelStop ==
    /\ Step("cancelSL", "sell")
    /\ Cancel(pos.sl)
    /\ UNCHANGED <<redis, ledger, env, mem, faults>>

\* The market sell.  The paper book fills it at the last LTP it was given; if
\* no instrument of this tick was quoted yet it stores the order, then raises.
PlaceExit ==
    /\ pc = "sell"
    /\ \/ /\ Place("MKT", pos.trade, IF Live THEN "OPEN" ELSE "COMPLETE")
          /\ mem' = [mem EXCEPT !.oid = NewId]
          /\ pc' = "saveExit"
       \/ /\ ~Live /\ ~mem.quote
          /\ Place("MKT", pos.trade, "OPEN")
          /\ pc' = "done"
          /\ UNCHANGED mem
    /\ UNCHANGED <<redis, ledger, env, faults>>

SaveExit ==
    /\ Step("saveExit", "settle")
    /\ pos' = [pos EXCEPT !.exit = mem.oid]
    /\ mem' = [mem EXCEPT !.oid = 0]
    /\ UNCHANGED <<book, intent, blocked, ledger, env, faults>>

\* check_exit_complete: not flat means waiting; a position squared off while
\* ENTERING has no entry premium, so net_pnl raises; otherwise the P&L is
\* added to the day's total.
SettleWaits ==
    /\ Step("settle", "done")
    /\ ~IsFlat(Symbol) \/ pos.sl = 0
    /\ UNCHANGED <<book, redis, ledger, env, mem, faults>>

\* Seeded bug: the fill of the exit is taken for granted.
SettleBooksEarly ==
    /\ Step("settle", "limit") /\ pos.sl # 0
    /\ booked' = [booked EXCEPT ![pos.trade] = @ + 1]
    /\ UNCHANGED <<book, redis, notion, closed, env, mem, faults>>

\* Seeded bug: only a trade with an exit order is booked.
SettleBooksOrdersOnly ==
    /\ Step("settle", "limit")
    /\ IsFlat(Symbol) /\ pos.sl # 0
    /\ booked' = [booked EXCEPT ![pos.trade] = IF pos.exit # 0 THEN @ + 1 ELSE @]
    /\ UNCHANGED <<book, redis, notion, closed, env, mem, faults>>

SettleBooks ==
    /\ Step("settle", "limit")
    /\ IsFlat(Symbol) /\ pos.sl # 0
    /\ booked' = [booked EXCEPT ![pos.trade] = @ + 1]
    /\ UNCHANGED <<book, redis, notion, closed, env, mem, faults>>

\* The day's total may have reached the loss limit.
CheckLimit ==
    /\ Step("limit", "cooldown")
    /\ blocked' \in {blocked, TRUE}
    /\ UNCHANGED <<book, intent, pos, ledger, env, mem, faults>>

\* Seeded bug: the pass ends without a call of _journal_if_cooldown.
SaveCooldownOnly ==
    /\ Step("cooldown", "done")
    /\ pos' = [pos EXCEPT !.phase = "COOLDOWN"]
    /\ UNCHANGED <<book, intent, blocked, ledger, env, mem, faults>>

SaveCooldown ==
    /\ Step("cooldown", "journal")
    /\ pos' = [pos EXCEPT !.phase = "COOLDOWN"]
    /\ UNCHANGED <<book, intent, blocked, ledger, env, mem, faults>>

\* _journal_if_cooldown: the Notion post (whose failure is only logged), the
\* closed-today list, the flag.
JournalDue == pos.phase = "COOLDOWN" /\ ~pos.journaled

PostNotion ==
    /\ pc = "journal"
    /\ pc' = IF JournalDue THEN "append" ELSE "done"
    /\ notion' = IF JournalDue THEN [notion EXCEPT ![pos.trade] = @ + 1] ELSE notion
    /\ UNCHANGED <<book, redis, booked, closed, env, mem, faults>>

AppendClosed ==
    /\ Step("append", "flag")
    /\ closed' = [closed EXCEPT ![pos.trade] = @ + 1]
    /\ UNCHANGED <<book, redis, booked, notion, env, mem, faults>>

\* Seeded bug: the flag is set on the copy loaded before COOLDOWN.
FlagJournaledStale ==
    /\ Step("flag", "done")
    /\ pos' = [pos EXCEPT !.phase = "EXITING", !.journaled = TRUE]
    /\ UNCHANGED <<book, intent, blocked, ledger, env, mem, faults>>

FlagJournaled ==
    /\ Step("flag", "done")
    /\ pos' = [pos EXCEPT !.journaled = TRUE]
    /\ UNCHANGED <<book, intent, blocked, ledger, env, mem, faults>>

-----------------------------------------------------------------------------
(* Faults.  All of them share the bound MaxFaults. *)

\* What is left of the tick's locals when the rest of a pass is given up.
GivenUp == [NoMemory EXCEPT !.pastSO = mem.pastSO, !.pass = mem.pass]

Fault == faults < MaxFaults /\ faults' = faults + 1

\* The run is cancelled, or killed by its time limit.
Crash ==
    /\ Fault /\ pc # "down"
    /\ pc' = "down" /\ mem' = NoMemory
    /\ UNCHANGED <<book, redis, ledger, env>>

\* The next Redis or broker call raises and the per-instrument handler goes on.
CallRaises ==
    /\ Fault /\ pc \notin {"down", "done"}
    /\ pc' = "done"
    /\ mem' = GivenUp
    /\ UNCHANGED <<book, redis, ledger, env>>

\* place_order reached the book but its caller never learns the id: a live
\* reply is lost, or the tick dies right after the call, or between the two
\* writes of a paper order that fills at once.
ReplyLost ==
    /\ Fault
    /\ \/ pc = "enter"   /\ Place("BUY", mem.intent, "OPEN")
       \/ pc = "placeSL" /\ Place("SLM", pos.trade, "OPEN")
       \/ pc = "sell"    /\ Place("MKT", pos.trade, "OPEN")
    /\ \/ pc' = "down" /\ mem' = NoMemory
       \/ pc' = "done" /\ mem' = GivenUp
    /\ UNCHANGED <<redis, ledger, env>>

\* Live calls whose failure is swallowed: a status answered as UNKNOWN, a
\* cancel that did not happen.
CallSwallowed ==
    /\ Fault /\ Live
    /\ \/ pc = "status" /\ pc' = "positions" /\ UNCHANGED mem
       \/ /\ pc = "fill" /\ pc' = IF mem.left > 1 THEN "fill" ELSE "done"
          /\ mem' = [mem EXCEPT !.left = @ - 1]
       \/ pc = "cancelSL" /\ pc' = "sell" /\ UNCHANGED mem
    /\ UNCHANGED <<book, redis, ledger, env>>

-----------------------------------------------------------------------------
(* The world outside. *)

\* The signal process overwrites the pending intent with a new signal.
WriteIntent ==
    /\ \E t \in Trades \ written :
          intent' = t /\ written' = written \cup {t}
    /\ UNCHANGED <<book, pos, blocked, ledger, afterSO, pc, mem, faults>>

\* The intent key reaches its time to live.
ExpireIntent ==
    /\ intent # NoTrade /\ intent' = NoTrade
    /\ UNCHANGED <<book, pos, blocked, ledger, env, pc, mem, faults>>

\* 15:10.  The gate lets nothing pass after NO_NEW_ENTRY, 25 minutes earlier,
\* and a tick lives two minutes: none is between its gate and its entry now.
PassSquareoff ==
    /\ SquareoffToday /\ ~afterSO /\ afterSO' = TRUE
    /\ pc \notin {"take", "drop", "enter", "saveEntry"}
    /\ UNCHANGED <<book, redis, ledger, written, pc, mem, faults>>

\* The exchange fills or rejects a live order at any moment.
ExchangeActs ==
    /\ Live
    /\ \E o \in Ids, s \in {"COMPLETE"} \cup (IF Rejects THEN {"REJECTED"} ELSE {}) :
          orders[o].status = "OPEN" /\ SetStatus({o}, s)
    /\ UNCHANGED <<redis, ledger, env, pc, mem, faults>>

\* The user sells the position in Kite.
ExternalClose ==
    /\ Live /\ ExternalCloses
    /\ \E t \in Trades : Net(SymbolOf[t]) > 0 /\ Place("EXT", t, "COMPLETE")
    /\ UNCHANGED <<redis, ledger, env, pc, mem, faults>>

-----------------------------------------------------------------------------
PassStep  == \/ \E q \in BOOLEAN : TickStart(q) \/ SubloopPass(q)
             \/ TickEnd \/ ReadStopStatus \/ ReadPositions
RouteStep == \/ Squareoff \/ NothingToDo \/ Manage \/ Hold \/ RouteEntering
             \/ RouteExiting \/ RouteCooldown \/ RouteIdle
EntryStep == \/ GatePass \/ GateFail \/ TakeIntent \/ DropIntent \/ AbortEntry
             \/ PlaceEntry \/ SaveEntry \/ EntryFilled \/ EntryWaits
             \/ PlaceStop \/ SaveOpen
ExitStep  == \/ CancelStop \/ PlaceExit \/ SaveExit \/ SettleWaits
             \/ SettleBooks \/ CheckLimit \/ SaveCooldown \/ PostNotion
             \/ AppendClosed \/ FlagJournaled
FaultStep == Crash \/ CallRaises \/ ReplyLost \/ CallSwallowed
WorldStep == \/ WriteIntent \/ ExpireIntent \/ PassSquareoff \/ ExchangeActs
             \/ ExternalClose

TickStep == PassStep \/ RouteStep \/ EntryStep \/ ExitStep
Next     == TickStep \/ FaultStep \/ WorldStep

Spec == Init /\ [][Next]_vars

\* A running tick goes on, the scheduler keeps dispatching ticks, and ticks
\* that get a quote for the position's symbol keep coming.  Nothing is assumed
\* of the exchange or of the signal process, and no liveness property asks for
\* anything after 15:10, when dispatching stops.
FairSpec == Spec /\ WF_vars(TickStep) /\ SF_vars(TickStart(TRUE))

-----------------------------------------------------------------------------
(* Safety. *)

\* An intent is bought at most once, however often ticks die between
\* consuming it, placing the order and saving the position: consume_intent
\* deletes the key before try_enter runs.
OneEntryPerIntent ==
    \A t \in Trades : \A o1, o2 \in Of("BUY", t) : o1 = o2

\* A position is sold at the market at most once: _exit saves EXITING before
\* it calls the broker, and an EXITING position is only ever settled.
OneExitPerTrade ==
    \A t \in Trades : \A o1, o2 \in Of("MKT", t) : o1 = o2

\* An OPEN position was bought, and its sl_order_id names a stop of the same
\* trade that the executor has not cancelled.
OpenIsBacked ==
    pos.phase = "OPEN" =>
        /\ pos.entry \in Of("BUY", pos.trade) /\ IsComplete(pos.entry)
        /\ pos.sl \in Of("SLM", pos.trade) /\ orders[pos.sl].status # "CANCELLED"

\* A stop is only ever sent for an entry that has filled: no SL-M rests in the
\* book for something that was not bought.
StopsFollowFills ==
    \A o \in Ids : orders[o].kind = "SLM" =>
        \E b \in Of("BUY", orders[o].trade) : IsComplete(b)

\* A trade in COOLDOWN was added to the day's P&L, and a trade is journaled
\* only after that.
CooldownIsBooked ==
    /\ pos.phase = "COOLDOWN" => booked[pos.trade] > 0
    /\ \A t \in Trades : notion[t] + closed[t] > 0 => booked[t] > 0

\* No trade is posted to Notion or listed as closed twice.
JournaledAtMostOnce == \A t \in Trades : notion[t] <= 1 /\ closed[t] <= 1

\* Only the tick that records COOLDOWN journals the trade (run.py:377 and 381, no
\* later tick does): one that was booked and has left the executor's hands without
\* a post to Notion or a line among the closed trades is the price of a fault.
Unjournaled == {t \in Trades : booked[t] > 0 /\ (notion[t] = 0 \/ closed[t] = 0)}
JournalHands ==
    IF pos.phase = "EXITING" \/ pc \in {"journal", "append"} THEN {pos.trade} ELSE {}
JournalGapsPaidFor == Cardinality(Unjournaled \ JournalHands) <= faults

\* The P&L of a trade goes into the day's total again only where a fault came
\* between booking it and recording COOLDOWN (settle_and_cooldown).
BookingsPaidFor == \A t \in Trades : booked[t] <= 1 + faults

\* Until a call fails or 15:10 comes, the account never owes an option.
NeverShort == faults = 0 /\ ~afterSO => \A s \in Symbols : Net(s) >= 0

\* One instrument holds one position, and one more at most for each call that
\* has failed: a trade is over for the broker before the next signal is bought,
\* and a buy nobody recorded costs a fault.
OnePosition == \A s \in Symbols : Net(s) <= 1 + faults

\* A trade gets one stop; each further one was sent because a fault came
\* between sending the stop and recording it (check_entry_fill).
Stops        == {o \in Ids : orders[o].kind = "SLM"}
Protected    == {orders[o].trade : o \in Stops}
StopsPaidFor == Cardinality(Stops) <= Cardinality(Protected) + faults

\* The account owes a unit of s only for a trade whose market sell filled beside
\* its stop or without its entry, for a sale by hand, or for a fault.
SoldTo(t) == \E o \in Of("MKT", t) : IsComplete(o)
Oversold(s) ==
    {t \in Trades : /\ SymbolOf[t] = s /\ SoldTo(t)
                    /\ \/ \E o \in Of("SLM", t) : IsComplete(o)
                       \/ \A o \in Of("BUY", t) : ~IsComplete(o)}
ByHand(s) == {o \in Book(s) : orders[o].kind = "EXT"}

ShortIsAccountedFor ==
    \A s \in Symbols :
        Net(s) + Cardinality(Oversold(s)) + Cardinality(ByHand(s)) + faults >= 0

\* Once the executor calls an instrument IDLE or in COOLDOWN, no order of it
\* is left to fill (no call has failed, 15:10 has not come).
NothingLeftResting ==
    faults = 0 /\ ~afterSO /\ pos.phase \in {"IDLE", "COOLDOWN"} /\ pc # "saveEntry" =>
        \A o \in Ids : orders[o].status # "OPEN"

\* Only the square-off sells at the market what was never bought: every other
\* exit starts from OPEN, which a filled entry is needed for.
UnboughtSoldAtSquareoffOnly ==
    \A t \in Trades : Of("MKT", t) # {} /\ (\A o \in Of("BUY", t) : ~IsComplete(o)) => afterSO

-----------------------------------------------------------------------------
(* Liveness. *)

\* A filled entry does not stay without a decision: a later tick gives the
\* position its stop, unless 15:10 comes first, when dispatching ends.
FilledEntryIsPickedUp ==
    (pos.phase = "ENTERING" /\ IsComplete(pos.entry)) ~> (pos.phase # "ENTERING" \/ afterSO)

\* A position whose stop has filled is settled before 15:10, unless an order
\* of another trade holds the symbol's net position up.
FilledStopSettles ==
    (/\ pos.phase = "OPEN" /\ IsComplete(pos.sl)
     /\ \A o \in Ids : orders[o].trade = pos.trade)
        ~> (pos.phase \in {"COOLDOWN", "IDLE"} \/ afterSO)
=============================================================================
