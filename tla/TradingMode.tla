------------------------------ MODULE TradingMode ------------------------------
(***************************************************************************)
(* Paper or live, and how many lots: the preamble of main() in run.py, the   *)
(* mode override and the lot multiplier of state.py, sizing.py and the       *)
(* margins cache of kite_client.py, and one position over the two books it   *)
(* may be traded in.                                                        *)
(*                                                                         *)
(* Ticks overlap in the preamble, which is what SET NX is there for; the     *)
(* concurrency group lets one at a time trade.  `pc` is the next call of a   *)
(* tick, and a tick may end before any of them.                             *)
(***************************************************************************)
EXTENDS Integers

CONSTANTS
    Ticks,       \* the processes that may overlap
    Cash,        \* what the broker may report as available
    CapitalRs,   \* config.CAPITAL_RS
    Threshold,   \* config.LOT_MULTIPLIER_CAPITAL_THRESHOLD
    LotCost,     \* entry_ltp * lot_size
    MaxNet       \* bound on what either book may hold or owe

ASSUME ModeAssumption ==
    /\ Cash \subseteq Nat \ {0} /\ Cash # {}
    /\ CapitalRs \in Nat /\ Threshold \in Nat /\ LotCost \in Nat /\ MaxNet \in Nat

VARIABLES
    override,   \* Redis executor:paper_mode_override, "none" when absent
    variable,   \* the GitHub variable PAPER_MODE
    past,       \* the clock is past SQUAREOFF_IST
    multiplier, \* Redis executor:lot_multiplier:{date}, 0 when absent
    pos,        \* the position
    entry, stop, exit,  \* the last order of each kind and the book it is in
    book,       \* net lots held in each book
    tick,       \* per process: where it is and its locals
    careless,   \* history: the mode changed while a tick ran or a position was held
    mishap      \* history: an order was not recorded, not cancelled, or sold what
                \* was not held

Modes  == {"paper", "live"}
Held   == {"ENTERING", "OPEN", "EXITING"}
Phases == {"IDLE", "COOLDOWN"} \cup Held

Preparing == {"multiplier", "margins", "store", "reread", "ready"}
Passing   == {"stop", "positions", "route", "enter", "saveEntry", "fill", "placeStop",
              "saveOpen", "cancel", "sell", "settle", "cooldown", "done"}

\* home is the book a position was bought in; only the properties know of it.
Position == [phase : Phases, home : Modes, qty : 0..2, hasStop : BOOLEAN,
             stopFilled : BOOLEAN, flat : BOOLEAN]
Order    == [status : {"none", "open", "filled", "cancelled"}, home : Modes, qty : 0..2]
Tick     == [pc : {"down"} \cup Preparing \cup Passing, mode : Modes, config : Modes,
             lots : 0..2, past : BOOLEAN, seen : BOOLEAN]

NoPosition == [phase |-> "IDLE", home |-> "paper", qty |-> 0, hasStop |-> FALSE,
               stopFilled |-> FALSE, flat |-> FALSE]
NoOrder == [status |-> "none", home |-> "paper", qty |-> 0]
Down    == [pc |-> "down", mode |-> "paper", config |-> "paper", lots |-> 0,
            past |-> FALSE, seen |-> FALSE]

TypeOK ==
    /\ override \in Modes \cup {"none"} /\ variable \in Modes /\ past \in BOOLEAN
    /\ multiplier \in 0..2
    /\ pos \in Position /\ entry \in Order /\ stop \in Order /\ exit \in Order
    /\ book \in [Modes -> -MaxNet..MaxNet]
    /\ tick \in [Ticks -> Tick]
    /\ careless \in BOOLEAN /\ mishap \in BOOLEAN
    /\ \A t \in Ticks : tick[t].pc \in Passing => tick[t].lots # 0

Init ==
    /\ override \in Modes \cup {"none"} /\ variable \in Modes /\ past = FALSE
    /\ multiplier = 0
    /\ pos = NoPosition /\ entry = NoOrder /\ stop = NoOrder /\ exit = NoOrder
    /\ book = [m \in Modes |-> 0]
    /\ tick = [t \in Ticks |-> Down]
    /\ careless = FALSE /\ mishap = FALSE

settings == <<override, variable, past, careless>>
orders   == <<entry, stop, exit, book>>
trade    == <<pos, orders, mishap>>
vars     == <<settings, multiplier, trade, tick>>

At(t, label) == tick[t].pc = label
Goto(t, label, lots) == tick' = [tick EXCEPT ![t].pc = label, ![t].lots = lots]
Step(t, from, to) == At(t, from) /\ tick' = [tick EXCEPT ![t].pc = to]

-----------------------------------------------------------------------------
(* The preamble. *)

\* The concurrency group.
NoneTrades == \A t \in Ticks : tick[t].pc \notin Passing

Resolved == IF override = "none" THEN variable ELSE override

\* The override wins over the environment; paper mode trades one lot.
StartTick(t) ==
    /\ At(t, "down") /\ NoneTrades
    /\ tick' = [tick EXCEPT ![t] =
                  [Down EXCEPT !.pc = IF Resolved = "paper" THEN "ready" ELSE "multiplier",
                               !.mode = Resolved, !.config = variable,
                               !.lots = IF Resolved = "paper" THEN 1 ELSE 0]]
    /\ UNCHANGED <<settings, multiplier, trade>>

GetMultiplier(t) ==
    /\ At(t, "multiplier")
    /\ Goto(t, IF multiplier = 0 THEN "margins" ELSE "ready", multiplier)
    /\ UNCHANGED <<settings, multiplier, trade>>

Decide(funds) == IF funds >= Threshold THEN 2 ELSE 1

\* The margins are cached for a minute and may move from one read to the next.
GetMargins(t) ==
    /\ At(t, "margins")
    /\ \E funds \in Cash : Goto(t, "store", Decide(funds))
    /\ UNCHANGED <<settings, multiplier, trade>>

\* Seeded bug: without the capital the tick goes on.
MarginsFailIgnored(t) ==
    /\ At(t, "margins")
    /\ Goto(t, "ready", 0)
    /\ UNCHANGED <<settings, multiplier, trade>>

\* The broker does not answer: no trading this tick, and no management either.
MarginsFail(t) ==
    /\ At(t, "margins")
    /\ tick' = [tick EXCEPT ![t] = Down]
    /\ UNCHANGED <<settings, multiplier, trade>>

\* Seeded bug: a plain SET.
StoreMultiplierAlways(t) ==
    /\ At(t, "store")
    /\ multiplier' = tick[t].lots
    /\ Goto(t, "ready", tick[t].lots)
    /\ UNCHANGED <<settings, trade>>

\* SET NX: the first tick decides for the day.
StoreMultiplier(t) ==
    /\ At(t, "store")
    /\ multiplier' = IF multiplier = 0 THEN tick[t].lots ELSE multiplier
    /\ Goto(t, IF multiplier = 0 THEN "ready" ELSE "reread", tick[t].lots)
    /\ UNCHANGED <<settings, trade>>

RereadMultiplier(t) ==
    /\ At(t, "reread")
    /\ Goto(t, "ready", multiplier)
    /\ UNCHANGED <<settings, multiplier, trade>>

\* Finished, cancelled, out of its time, or a call raised.  An order just sent is
\* then on no record.
EndTick(t) ==
    /\ ~At(t, "down")
    /\ tick' = [tick EXCEPT ![t] = Down]
    /\ mishap' = (mishap \/ At(t, "saveEntry") \/ At(t, "saveOpen"))
    /\ UNCHANGED <<settings, multiplier, pos, orders>>

-----------------------------------------------------------------------------
(* The beginning of a pass, through the gateway of the tick. *)

\* The order o fills and moves its book by n lots.
Fills(o, n) ==
    /\ book[o.home] + n \in -MaxNet..MaxNet     \* bound
    /\ book' = [book EXCEPT ![o.home] = @ + n]

\* A stop sells, at the exchange by itself, in the paper book in a paper pass.
StopFills ==
    /\ stop.status = "open"
    /\ stop' = [stop EXCEPT !.status = "filled"]
    /\ Fills(stop, -stop.qty)

\* process_tick, when there is a quote.
PaperTick(t) ==
    \/ tick[t].mode = "paper" /\ stop.home = "paper" /\ StopFills
    \/ UNCHANGED <<stop, book>>

\* Only an OPEN position has something to reconcile.
AfterLoad == IF pos.phase = "OPEN" THEN "stop" ELSE "route"

\* past_squareoff is computed once, the multiplier being known.
BeginPass(t) ==
    /\ At(t, "ready") /\ NoneTrades
    /\ ~mishap                                                  \* bound
    /\ tick' = [tick EXCEPT ![t].pc = AfterLoad, ![t].past = past]
    /\ PaperTick(t)
    /\ UNCHANGED <<settings, multiplier, pos, entry, exit, mishap>>

\* The sub-loop.
NextPass(t) ==
    /\ Step(t, "done", "stop") /\ pos.phase = "OPEN" /\ ~tick[t].past /\ ~past
    /\ PaperTick(t)
    /\ UNCHANGED <<settings, multiplier, pos, entry, exit, mishap>>

\* reconcile, first read: each gateway knows its own orders only.  A live status
\* request that fails answers UNKNOWN.
SeesStopFilled(t) == tick[t].mode = stop.home /\ stop.status = "filled"

ReadStop(t) ==
    \/ /\ tick[t].mode = "paper" /\ Step(t, "stop", "route")
       /\ pos' = [pos EXCEPT !.stopFilled = @ \/ SeesStopFilled(t)]
       /\ UNCHANGED <<settings, multiplier, orders, mishap>>
    \/ /\ tick[t].mode = "live" /\ At(t, "stop")
       /\ \E seen \in {FALSE, SeesStopFilled(t)} :
             tick' = [tick EXCEPT ![t].pc = "positions", ![t].seen = seen]
       /\ UNCHANGED <<settings, multiplier, trade>>

\* Second read, live only and at a later moment: the positions.
ReadPositions(t) ==
    /\ At(t, "positions")
    /\ tick' = [tick EXCEPT ![t].pc = "route", ![t].seen = FALSE]
    /\ pos' = [pos EXCEPT !.stopFilled = @ \/ tick[t].seen,
                          !.flat = @ \/ book["live"] = 0]
    /\ UNCHANGED <<settings, multiplier, orders, mishap>>

-----------------------------------------------------------------------------
(* Phase routing. *)

Routed(t, phase) == At(t, "route") /\ pos.phase = phase

\* _exit: EXITING is saved before the broker is called.
BeginExit(t, label) ==
    /\ tick' = [tick EXCEPT ![t].pc = label]
    /\ pos' = [pos EXCEPT !.phase = "EXITING"]
    /\ UNCHANGED <<settings, multiplier, orders, mishap>>

\* The square-off looks neither at the entry nor at sl_filled.
Squareoff(t) ==
    /\ tick[t].past
    /\ \/ Routed(t, "OPEN") /\ BeginExit(t, "cancel")
       \/ Routed(t, "ENTERING") /\ BeginExit(t, "sell")

\* manage_position: a stop seen filled, a position seen flat, a quote at the stop,
\* which is then expected to fill.
Manage(t) ==
    /\ Routed(t, "OPEN") /\ ~tick[t].past
    /\ \/ ~pos.stopFilled /\ pos.flat /\ BeginExit(t, "cancel")
       \/ pos.stopFilled /\ BeginExit(t, "settle")
       \/ ~pos.stopFilled /\ ~pos.flat /\ BeginExit(t, "settle")

\* Nothing to do: no quote, no exit, no intent, not long enough in COOLDOWN; after
\* 15:10 all but ENTERING and OPEN.
Hold(t) ==
    /\ pos.phase \in {"IDLE", "COOLDOWN", IF tick[t].past THEN "EXITING" ELSE "OPEN"}
    /\ Step(t, "route", "done")
    /\ UNCHANGED <<settings, multiplier, trade>>

\* An entry that waits, an exit to be settled.
Resume(t) ==
    /\ ~tick[t].past
    /\ \/ Routed(t, "ENTERING") /\ Step(t, "route", "fill")
       \/ Routed(t, "EXITING") /\ Step(t, "route", "settle")
    /\ UNCHANGED <<settings, multiplier, trade>>

CooldownElapses(t) ==
    /\ Routed(t, "COOLDOWN") /\ ~tick[t].past /\ Step(t, "route", "done")
    /\ pos' = NoPosition
    /\ UNCHANGED <<settings, multiplier, orders, mishap>>

-----------------------------------------------------------------------------
(* Entry. *)

\* compute_qty looks the capital up under config.PAPER_MODE, whatever the gateway.
SizeEntry(t) ==
    /\ Routed(t, "IDLE") /\ ~tick[t].past /\ Step(t, "route", "enter")
    /\ \E capital \in IF tick[t].config = "paper" THEN {CapitalRs} ELSE Cash :
          LotCost * tick[t].lots <= capital
    /\ UNCHANGED <<settings, multiplier, trade>>

Sent(t, status, qty) == [status |-> status, home |-> tick[t].mode, qty |-> qty]

\* A marketable LIMIT: the paper book fills it at once, the exchange when it does.
PlaceEntry(t) ==
    /\ Step(t, "enter", "saveEntry")
    /\ "open" \notin {entry.status, stop.status, exit.status}   \* bound: one of each
    /\ stop' = NoOrder /\ exit' = NoOrder
    /\ \/ /\ tick[t].mode = "live" /\ entry' = Sent(t, "open", tick[t].lots)
          /\ UNCHANGED book
       \/ /\ tick[t].mode = "paper" /\ entry' = Sent(t, "filled", tick[t].lots)
          /\ Fills(entry', tick[t].lots)
    /\ UNCHANGED <<settings, multiplier, pos, mishap>>

SaveEntry(t) ==
    /\ Step(t, "saveEntry", "fill")
    /\ pos' = [NoPosition EXCEPT !.phase = "ENTERING", !.home = tick[t].mode,
                                 !.qty = tick[t].lots]
    /\ UNCHANGED <<settings, multiplier, orders, mishap>>

\* check_entry_fill, through a gateway that may not know the order.
EntryFilled(t) ==
    /\ Step(t, "fill", "placeStop")
    /\ entry.status = "filled" /\ entry.home = tick[t].mode
    /\ UNCHANGED <<settings, multiplier, trade>>

EntryWaits(t) ==
    /\ Step(t, "fill", "done")
    /\ UNCHANGED <<settings, multiplier, trade>>

PlaceStop(t) ==
    /\ Step(t, "placeStop", "saveOpen")
    /\ stop.status # "open"                                     \* bound: one of each
    /\ stop' = Sent(t, "open", pos.qty)
    /\ UNCHANGED <<settings, multiplier, pos, entry, exit, book, mishap>>

SaveOpen(t) ==
    /\ Step(t, "saveOpen", "done")
    /\ pos' = [pos EXCEPT !.phase = "OPEN", !.hasStop = TRUE]
    /\ UNCHANGED <<settings, multiplier, orders, mishap>>

-----------------------------------------------------------------------------
(* Exit. *)

\* A gateway cancels what it knows and what has not filled.
CancelStop(t) ==
    /\ Step(t, "cancel", "sell")
    /\ stop' = IF stop.home = tick[t].mode /\ stop.status = "open"
               THEN [stop EXCEPT !.status = "cancelled"] ELSE stop
    /\ UNCHANGED <<settings, multiplier, pos, entry, exit, book, mishap>>

\* The live gateway swallows a cancel that fails.
CancelFails(t) ==
    /\ tick[t].mode = "live" /\ Step(t, "cancel", "sell")
    /\ mishap' = TRUE
    /\ UNCHANGED <<settings, multiplier, pos, orders>>

\* The position has been bought and its stop has not sold it.
StillHeld == entry.status = "filled" /\ stop.status # "filled"

\* The market sell.
PlaceExit(t) ==
    /\ Step(t, "sell", "settle")
    /\ exit.status # "open"                                     \* bound: one of each
    /\ mishap' = (mishap \/ ~StillHeld)
    /\ \/ /\ tick[t].mode = "live" /\ exit' = Sent(t, "open", pos.qty)
          /\ UNCHANGED book
       \/ /\ tick[t].mode = "paper" /\ exit' = Sent(t, "filled", pos.qty)
          /\ Fills(exit', -pos.qty)
    /\ UNCHANGED <<settings, multiplier, pos, entry, stop>>

\* Seeded bug: the exit is taken for complete without a look at the book.
IsFlatAssumed(m) == TRUE

\* get_open_positions: a negative net position is none in the paper book.
IsFlat(m) == IF m = "paper" THEN book[m] <= 0 ELSE book[m] = 0

\* check_exit_complete: net_pnl raises for a position without an entry premium,
\* which is recorded with the stop.
SeesFlat(t) ==
    /\ Step(t, "settle", "cooldown")
    /\ IsFlat(tick[t].mode) /\ pos.hasStop
    /\ UNCHANGED <<settings, multiplier, trade>>

\* Nobody looks again at the trade, nor at those of its orders that are over.
Forget(o) == IF o.status = "open" THEN o ELSE NoOrder

SaveCooldown(t) ==
    /\ Step(t, "cooldown", "done")
    /\ pos' = [NoPosition EXCEPT !.phase = "COOLDOWN"]
    /\ entry' = Forget(entry) /\ stop' = Forget(stop) /\ exit' = Forget(exit)
    /\ UNCHANGED <<settings, multiplier, book, mishap>>

-----------------------------------------------------------------------------
(* The world outside. *)

\* The exchange fills live orders at any moment.
ExchangeFills ==
    /\ \/ /\ entry.status = "open" /\ entry' = [entry EXCEPT !.status = "filled"]
          /\ Fills(entry, entry.qty)
          /\ UNCHANGED <<stop, exit>>
       \/ stop.home = "live" /\ StopFills /\ UNCHANGED <<entry, exit>>
       \/ /\ exit.status = "open" /\ exit' = [exit EXCEPT !.status = "filled"]
          /\ Fills(exit, -exit.qty)
          /\ UNCHANGED <<entry, stop>>
    /\ UNCHANGED <<settings, multiplier, pos, mishap, tick>>

\* 15:10.
SquareoffTime ==
    /\ ~past /\ past' = TRUE
    /\ UNCHANGED <<override, variable, careless, multiplier, trade, tick>>

Quiet == (\A t \in Ticks : At(t, "down")) /\ pos.phase \notin Held

ChangeMode ==
    /\ ~careless                                                \* bound
    /\ \/ override' \in (Modes \cup {"none"}) \ {override} /\ UNCHANGED variable
       \/ variable' \in Modes \ {variable} /\ UNCHANGED override
    /\ careless' = (careless \/ (~Quiet /\ Resolved' # Resolved))
    /\ UNCHANGED <<past, multiplier, trade, tick>>

Preamble(t) ==
    \/ StartTick(t) \/ GetMultiplier(t) \/ GetMargins(t) \/ MarginsFail(t)
    \/ StoreMultiplier(t) \/ RereadMultiplier(t)

Pass(t) ==
    \/ BeginPass(t) \/ NextPass(t) \/ ReadStop(t) \/ ReadPositions(t)
    \/ Squareoff(t) \/ Manage(t) \/ Hold(t) \/ Resume(t) \/ CooldownElapses(t)
    \/ SizeEntry(t) \/ PlaceEntry(t) \/ SaveEntry(t) \/ EntryFilled(t) \/ EntryWaits(t)
    \/ PlaceStop(t) \/ SaveOpen(t)
    \/ CancelStop(t) \/ CancelFails(t) \/ PlaceExit(t) \/ SeesFlat(t) \/ SaveCooldown(t)

World == ExchangeFills \/ SquareoffTime \/ ChangeMode

Next == (\E t \in Ticks : Preamble(t) \/ EndTick(t) \/ Pass(t)) \/ World

Spec == Init /\ [][Next]_vars

-----------------------------------------------------------------------------
(* Safety. *)

Lots(m) == IF m = "live" THEN multiplier ELSE 1

\* The multiplier is decided "exactly once per day" and "reused for every
\* instrument and every remaining tick" (claude_change_spec.md:94): ticks that
\* race for the decision trade the same number of lots, and so does every
\* position; paper mode always trades one.
MultiplierAgrees ==
    /\ \A t \in Ticks : tick[t].pc \in Passing => tick[t].lots = Lots(tick[t].mode)
    /\ pos.phase \in Held => pos.qty = Lots(pos.home)

\* Only two things set a book apart from the position on record: a mode that is
\* switched while a tick runs or something is held, and one of three mishaps: an
\* order whose id was not saved, a stop whose cancel failed, a market sell beside a
\* filled stop or without a filled entry.  Otherwise each position is bought,
\* protected and sold in one book, and neither book holds anything else.
Expected(m) ==
    IF pos.phase \in Held /\ pos.home = m /\ StillHeld /\ exit.status # "filled"
    THEN pos.qty ELSE 0

BooksFollowPosition ==
    ~careless /\ ~mishap /\ (\A t \in Ticks : ~At(t, "saveEntry")) =>
        \A m \in Modes : book[m] = Expected(m)

\* charges.py:67, "Every position is a long option premium": mishaps aside, nothing
\* is sold in the live account that was not bought there.
LiveNeverShort == ~mishap => book["live"] >= 0
=============================================================================
