------------------------------ MODULE TradingDay ------------------------------
(***************************************************************************)
(* What the instruments of a tick share: the order of the loop in run.py, the *)
(* paper gateway's _current_ltp, the capital (sizing.compute_qty), the day's *)
(* P&L with its loss limit, and the consolidated Discord message.            *)
(*                                                                         *)
(* Paper mode, one lot of one unit each.  Stops do not trail (TrailingStop),  *)
(* the calls within an entry or an exit are one step (Executor), passes of   *)
(* the sub-loop are left to the next tick.  What a trade is charged is any    *)
(* function of its two premiums.                                             *)
(***************************************************************************)
EXTENDS Integers, Sequences, FiniteSetsExt

CONSTANTS
    Order,      \* config.INDICES + config.STOCKS + the dynamic picks
    Dynamic,    \* the instruments that are dynamic picks
    Quotes,     \* what each option may trade at, per instrument
    TopQuote,   \* no option trades higher
    CapitalRs,  \* config.CAPITAL_RS
    HalfSpread, \* config.PAPER_SPREAD / 2
    Risk,       \* spot_risk_pts * atm_delta
    Charges,    \* what charges.net_pnl deducts, by premium paid and received
    TopCharge,  \* no trade is charged more
    DailyLoss,  \* config.DAILY_LOSS_PCT of the capital
    MaxTrades,  \* bound on the entries of the day
    MaxFaults   \* bound on the ticks that die and the passes that raise

Instruments == {Order[k] : k \in 1..Len(Order)}

Highest == TopQuote + HalfSpread

ASSUME DayAssumption ==
    /\ Order \in Seq(Instruments) /\ Dynamic \subseteq Instruments
    /\ \A i \in Instruments : Quotes[i] \subseteq 1..TopQuote /\ Quotes[i] # {}
    /\ DailyLoss \in Nat \ {0} /\ TopQuote \in Nat \ {0}
    /\ \A c \in {CapitalRs, HalfSpread, Risk, TopCharge, MaxTrades, MaxFaults} : c \in Nat
    /\ Charges \in [(0..Highest) \X (0..Highest) -> 0..TopCharge]

VARIABLES
    past,     \* it is 15:10
    listed,   \* Redis stock:dynamic_universe: the picks that can be read
    pos,      \* Redis executor:position:{instrument}, with the fills of its orders
    total,    \* Redis executor:daily_pnl:{date}
    blocked,  \* Redis executor:entries_blocked:{date}
    posts,    \* messages created on Discord
    known,    \* Redis executor:discord_msg_id:{date} is set
    tick,     \* the running tick
    trades,   \* entries so far
    faults

vars == <<past, listed, pos, total, blocked, posts, known, tick, trades, faults>>
day  == <<past, listed>>
\* What no pass over an instrument changes.
message == <<posts, known>>

NoPosition == [phase |-> "IDLE", bought |-> 0, entry |-> 0, exit |-> 0, sold |-> 0]
\* at: the place in Order; picks: the dynamic picks the tick knows; cur:
\* _current_ltp of the gateway, 0 before set_current_ltp; clean: no pass raised.
NoTick == [pc |-> "down", at |-> 0, picks |-> {}, past |-> FALSE, cur |-> 0, read |-> 0,
           clean |-> TRUE]

\* The most that one settlement adds or takes.
Swing   == Highest + TopCharge
Amounts == -(MaxTrades + MaxFaults) * Swing .. (MaxTrades + MaxFaults) * Swing

TypeOK ==
    /\ past \in BOOLEAN /\ listed \subseteq Dynamic
    /\ pos \in [Instruments -> [phase : {"IDLE", "ENTERING", "OPEN", "EXITING", "COOLDOWN"},
                                bought : 0..Highest, entry : 0..Highest,
                                exit : 0..Highest, sold : 0..Highest]]
    /\ \A i \in Instruments :
          /\ pos[i].phase = "OPEN" => pos[i].entry # 0
          /\ pos[i].phase = "COOLDOWN" => pos[i].entry # 0 /\ pos[i].sold # 0
    /\ total \in Amounts /\ blocked \in BOOLEAN
    /\ posts \in Nat /\ known \in BOOLEAN
    /\ tick.pc \in {"down", "next", "fill", "sell", "settle", "add", "limit", "save",
                    "tracker", "post", "set"}
    /\ tick.at \in 0..Len(Order) + 1 /\ tick.picks \subseteq Dynamic
    /\ tick.cur \in 0..TopQuote /\ tick.read \in Amounts
    /\ tick.past \in BOOLEAN /\ tick.clean \in BOOLEAN
    /\ trades \in 0..MaxTrades /\ faults \in 0..MaxFaults

Init ==
    /\ past = FALSE /\ listed = Dynamic
    /\ pos = [i \in Instruments |-> NoPosition]
    /\ total = 0 /\ blocked = FALSE /\ posts = 0 /\ known = FALSE
    /\ tick = NoTick /\ trades = 0 /\ faults = 0

-----------------------------------------------------------------------------
(* The loop of main(). *)

At(label)   == tick.pc = label
More        == tick.at \in 1..Len(Order)
Current     == Order[tick.at]
Goto(label) == tick' = [tick EXCEPT !.pc = label]
\* On to the next instrument, with the quote the gateway holds by now.
Onward(cur) == tick' = [tick EXCEPT !.pc = "next", !.at = @ + 1, !.cur = cur]
Skip(cur)   == tick' = [tick EXCEPT !.pc = "next", !.at = @ + 1, !.cur = cur, !.clean = FALSE]
Listed      == Current \in Dynamic => Current \in tick.picks
Visits(phases) == At("next") /\ More /\ Listed /\ pos[Current].phase \in phases

\* Today's picks and the clock are read once, here.
StartTick ==
    /\ At("down")
    /\ tick' = [NoTick EXCEPT !.pc = "next", !.past = past, !.at = 1, !.picks = listed]
    /\ UNCHANGED <<day, pos, total, blocked, message, trades, faults>>

\* Nothing is sold any more: the gateway's price is forgotten.
LoopEnds ==
    /\ At("next") /\ ~More
    /\ tick' = [tick EXCEPT !.pc = "tracker", !.cur = 0]
    /\ UNCHANGED <<day, pos, total, blocked, message, trades, faults>>

\* Seeded bug: only OPEN positions are squared off.
SquaredOffOpenOnly == {"OPEN"}

\* The phases of the square-off guard.
SquaredOff == {"ENTERING", "OPEN"}

-----------------------------------------------------------------------------
(* Entry. *)

\* The sum of f over S, counted: i contributes f[i] units.
Units(S, f)   == UNION {{i} \X (1..f[i]) : i \in S}
SumOver(S, f) == Cardinality(Units(S, f))

\* state.committed_premium: a position without entry premium counts nothing, one
\* in COOLDOWN still counts.
Committed == SumOver(Instruments, [i \in Instruments |-> pos[i].entry])

\* Seeded bug: the whole capital is taken for what is left of it.
AffordableAlone(price) == price <= CapitalRs

Affordable(price) == price <= CapitalRs - Committed

\* Seeded bug: the breaker is not consulted.
EntryAllowedAlways == ~tick.past

EntryAllowed == ~tick.past /\ ~blocked

\* What the gateway may hold as the price after a visit that changes nothing else:
\* a quote of the position, of an option that was too dear, or what it held.
PriceMoves(q) ==
    \/ pos[Current].phase \in {"COOLDOWN", "EXITING"}
    \/ pos[Current].phase = "IDLE" /\ EntryAllowed /\ ~Affordable(q)

PriceAfter == {tick.cur} \cup {q \in Quotes[Current] : PriceMoves(q)}

\* Not among the picks of the tick; idle without an intent, refused or too dear;
\* cooling down; no quote for an open position; after 15:10 all but ENTERING and
\* OPEN.
NothingToDo ==
    /\ At("next") /\ More
    /\ Listed => IF tick.past THEN pos[Current].phase \notin SquaredOff
                 ELSE pos[Current].phase \in {"IDLE", "COOLDOWN", "OPEN"}
    /\ \E q \in IF Listed THEN PriceAfter ELSE {tick.cur} : Onward(q)
    /\ UNCHANGED <<day, pos, total, blocked, message, trades, faults>>

\* try_enter: the marketable LIMIT fills in the paper book at once, the position
\* is ENTERING without a premium.
TryEnter ==
    /\ Visits({"IDLE"}) /\ EntryAllowed
    /\ trades < MaxTrades /\ trades' = trades + 1
    /\ \E q \in Quotes[Current] :
          /\ Affordable(q)
          /\ pos' = [pos EXCEPT ![Current] =
                       [NoPosition EXCEPT !.phase = "ENTERING", !.bought = q + HalfSpread]]
          /\ tick' = [tick EXCEPT !.pc = "fill", !.cur = q]
    /\ UNCHANGED <<day, total, blocked, message, faults>>

\* check_entry_fill, in the same tick or a later one.
CheckEntryFill ==
    /\ At("fill") \/ (Visits({"ENTERING"}) /\ ~tick.past)
    /\ pos' = [pos EXCEPT ![Current].phase = "OPEN", ![Current].entry = pos[Current].bought]
    /\ IF At("fill") THEN Onward(tick.cur)
       ELSE \E q \in Quotes[Current] \cup {tick.cur} : Onward(q)
    /\ UNCHANGED <<day, total, blocked, message, trades, faults>>

-----------------------------------------------------------------------------
(* Exit and settlement. *)

HitsStop(i, q) == pos[i].entry # 0 /\ q <= Max({pos[i].entry - Risk, 1})

\* What a sale at this quote brings: half the spread less, and 0.05 at least.
SaleAt(q) == Max({q - HalfSpread, 1})

\* An OPEN position is quoted above its stop.
Hold ==
    /\ Visits({"OPEN"}) /\ ~tick.past
    /\ \E q \in Quotes[Current] : ~HitsStop(Current, q) /\ Onward(q)
    /\ UNCHANGED <<day, pos, total, blocked, message, trades, faults>>

\* process_tick fills the stop, reconcile sees it, _exit("sl_hit").
StopHit ==
    /\ Visits({"OPEN"}) /\ ~tick.past
    /\ \E q \in Quotes[Current] :
          /\ HitsStop(Current, q)
          /\ pos' = [pos EXCEPT ![Current].phase = "EXITING", ![Current].exit = SaleAt(q),
                                ![Current].sold = SaleAt(q)]
          /\ tick' = [tick EXCEPT !.pc = "settle", !.cur = q]
    /\ UNCHANGED <<day, total, blocked, message, trades, faults>>

\* force_squareoff, with or without a quote of this instrument: EXITING is
\* saved, the stop cancelled.  It sells even if the stop has filled, at the
\* price that is booked.
Squareoff ==
    /\ Visits(SquaredOff) /\ tick.past
    /\ \E q \in Quotes[Current] \cup {0} :
          /\ pos' = [pos EXCEPT ![Current].phase = "EXITING", ![Current].exit = q]
          /\ tick' = [tick EXCEPT !.pc = "sell", !.cur = IF q = 0 THEN @ ELSE q]
    /\ UNCHANGED <<day, total, blocked, message, trades, faults>>

\* The MARKET sell of _exit fills at what the gateway holds as the price.
SellAtMarket ==
    /\ At("sell") /\ tick.cur # 0
    /\ pos' = [pos EXCEPT ![Current].sold = SaleAt(tick.cur)]
    /\ Goto("settle")
    /\ UNCHANGED <<day, total, blocked, message, trades, faults>>

\* No instrument of this tick had a quote yet: the gateway raises.
SellRaises ==
    /\ At("sell") /\ tick.cur = 0
    /\ Onward(0)
    /\ UNCHANGED <<day, pos, total, blocked, message, trades, faults>>

\* A later tick finds EXITING.
ResumeExit ==
    /\ Visits({"EXITING"}) /\ ~tick.past
    /\ \E q \in Quotes[Current] \cup {tick.cur} :
          tick' = [tick EXCEPT !.pc = "settle", !.cur = q]
    /\ UNCHANGED <<day, pos, total, blocked, message, trades, faults>>

\* Seeded bug: a missing entry premium counts as zero.
SettleGetAnyway ==
    /\ At("settle") /\ pos[Current].sold # 0
    /\ pos' = [pos EXCEPT ![Current].exit = pos[Current].sold]
    /\ tick' = [tick EXCEPT !.pc = "add", !.read = total]
    /\ UNCHANGED <<day, total, blocked, message, trades, faults>>

\* check_exit_complete: flat, the fill of the market sell is the exit price,
\* GET of the day's P&L, ...
SettleGet ==
    /\ At("settle") /\ pos[Current].sold # 0 /\ pos[Current].entry # 0
    /\ pos' = [pos EXCEPT ![Current].exit = pos[Current].sold]
    /\ tick' = [tick EXCEPT !.pc = "add", !.read = total]
    /\ UNCHANGED <<day, total, blocked, message, trades, faults>>

\* Not flat, or squared off before its entry premium was known: net_pnl raises.
SettleWaits ==
    /\ At("settle") /\ (pos[Current].sold = 0 \/ pos[Current].entry = 0)
    /\ Onward(tick.cur)
    /\ UNCHANGED <<day, pos, total, blocked, message, trades, faults>>

\* charges.net_pnl: brokerage and taxes are deducted from what the sale brought
\* over what the purchase cost.
Profit(i) == pos[i].sold - pos[i].entry - Charges[<<pos[i].entry, pos[i].sold>>]

\* ... SET of the sum, ...
SettleAdd ==
    /\ At("add")
    /\ total' = tick.read + Profit(Current)
    /\ Goto("limit")
    /\ UNCHANGED <<day, pos, blocked, message, trades, faults>>

\* sizing.get_daily_loss_limit.
LossLimit == -DailyLoss

\* Seeded bug: COOLDOWN is saved before the loss limit is looked at.
CheckLimitLater ==
    /\ At("limit")
    /\ pos' = [pos EXCEPT ![Current].phase = "COOLDOWN"]
    /\ Goto("save")
    /\ UNCHANGED <<day, total, blocked, message, trades, faults>>

\* ... the breaker, ...
CheckLimit ==
    /\ At("limit")
    /\ blocked' = (blocked \/ total <= LossLimit)
    /\ Goto("save")
    /\ UNCHANGED <<day, pos, total, message, trades, faults>>

\* ... and COOLDOWN.
SaveCooldown ==
    /\ At("save")
    /\ pos' = [pos EXCEPT ![Current].phase = "COOLDOWN"]
    /\ Onward(tick.cur)
    /\ UNCHANGED <<day, total, blocked, message, trades, faults>>

CooldownElapses ==
    /\ Visits({"COOLDOWN"}) /\ ~tick.past
    /\ pos' = [pos EXCEPT ![Current] = NoPosition]
    /\ \E q \in PriceAfter : Onward(q)
    /\ UNCHANGED <<day, total, blocked, message, trades, faults>>

-----------------------------------------------------------------------------
(* journal.update_consolidated_tracker, at the end of the tick. *)

\* A position without entry premium cannot be formatted: the update raises.
Unprintable == \E i \in Instruments : pos[i].phase # "IDLE" /\ pos[i].entry = 0

\* PATCH the known message, or give up.
TrackerEdits ==
    /\ At("tracker") /\ (known \/ Unprintable)
    /\ tick' = NoTick
    /\ UNCHANGED <<day, pos, total, blocked, message, trades, faults>>

TrackerPosts ==
    /\ At("tracker") /\ ~known /\ ~Unprintable
    /\ posts' = posts + 1 /\ Goto("set")
    /\ UNCHANGED <<day, pos, total, blocked, known, trades, faults>>

\* Discord refuses: the next tick tries again.
PostFails ==
    /\ At("tracker") /\ ~known /\ ~Unprintable
    /\ tick' = NoTick
    /\ UNCHANGED <<day, pos, total, blocked, message, trades, faults>>

\* Seeded bug: the id of the message is not kept.
TrackerForgetsId ==
    /\ At("set") /\ posts < 3
    /\ tick' = NoTick
    /\ UNCHANGED <<day, pos, total, blocked, message, trades, faults>>

TrackerSetsId ==
    /\ At("set")
    /\ known' = TRUE /\ tick' = NoTick
    /\ UNCHANGED <<day, pos, total, blocked, posts, trades, faults>>

-----------------------------------------------------------------------------
(* Faults and the world outside. *)

\* Cancelled, or out of its two minutes.
TickDies ==
    /\ ~At("down") /\ faults < MaxFaults
    /\ faults' = faults + 1 /\ tick' = NoTick
    /\ UNCHANGED <<day, pos, total, blocked, message, trades>>

\* A call raises before or after the gateway took the quote, ...
PriceSoFar == {tick.cur} \cup (IF At("next") THEN Quotes[Current] ELSE {})

\* ... and the loop goes on with the next instrument.
PassRaises ==
    /\ More /\ Listed /\ faults < MaxFaults
    /\ faults' = faults + 1
    /\ \E q \in PriceSoFar : Skip(q)
    /\ UNCHANGED <<day, pos, total, blocked, message, trades>>

SquareoffTime ==
    /\ ~past /\ past' = TRUE
    /\ UNCHANGED <<listed, pos, total, blocked, message, tick, trades, faults>>

\* The universe is rewritten, expires or can no longer be parsed.
DropPick ==
    /\ \E i \in listed : listed' = listed \ {i}
    /\ UNCHANGED <<past, pos, total, blocked, message, tick, trades, faults>>

Next ==
    \/ StartTick \/ LoopEnds \/ NothingToDo
    \/ TryEnter \/ CheckEntryFill \/ Hold \/ StopHit
    \/ Squareoff \/ SellAtMarket \/ SellRaises \/ ResumeExit
    \/ SettleGet \/ SettleWaits \/ SettleAdd \/ CheckLimit \/ SaveCooldown \/ CooldownElapses
    \/ TrackerEdits \/ TrackerPosts \/ PostFails \/ TrackerSetsId
    \/ TickDies \/ PassRaises \/ SquareoffTime \/ DropPick

Spec == Init /\ [][Next]_vars

-----------------------------------------------------------------------------
(* Safety. *)

Spent == [i \in Instruments |->
             IF pos[i].phase \in {"ENTERING", "OPEN", "EXITING"} THEN pos[i].bought ELSE 0]

\* sizing.py:67: what is paid for the options held at one time fits the capital,
\* up to the spread of the last purchase; a purchase whose tick died before its
\* premium was recorded escapes the sum, once per fault.
CapitalRespected ==
    SumOver(Instruments, Spent) <= CapitalRs + HalfSpread + faults * Highest

\* manager.py:309: a day's P&L at or below the limit stops the entries, or some
\* trade is still EXITING and looks at the limit when it settles.  So it is when the
\* tick dies in the settlement: the trade stays EXITING and settles again.
BreakerFollowsLoss ==
    total <= LossLimit => blocked \/ \E i \in Instruments : pos[i].phase = "EXITING"

\* What the breaker is worth: before 15:10 the day loses at most the limit and the
\* worst of the positions that are open when it trips, charges included.  A tick
\* that dies between adding the P&L and looking at the limit leaves the breaker off
\* until the next settlement: each fault may cost as much once more.
WorstTrade ==
    [i \in Instruments |-> Max(Quotes[i]) - Min(Quotes[i]) + 2 * HalfSpread + TopCharge]
AllAtWorst == SumOver(Instruments, WorstTrade)
DayLossBounded == ~past => total > LossLimit - (1 + faults) * AllAtWorst

\* journal.py:213, "the single consolidated Discord message": a second one only
\* after a tick that died between creating it and keeping its id.
OneMessage == posts <= 1 + faults

\* When the loop of a tick after 15:10 ends and no pass raised, no instrument it
\* visits is left OPEN or ENTERING (run.py:352).
Unsold(i) == pos[i].phase \in {"ENTERING", "OPEN"}
AfterSquareoff == At("tracker") /\ tick.past /\ tick.clean
SquareoffReachesListed ==
    AfterSquareoff => \A i \in Instruments : Unsold(i) => i \in Dynamic \ listed

-----------------------------------------------------------------------------
(* What the repository says and the code does not do. *)

\* manager.py:352, "Hard square-off at 15:10 IST - unconditional", and state.py:240:
\* a position is self-sufficient whatever the universe contains later.
SquareoffReachesAll == AfterSquareoff => \A i \in Instruments : ~Unsold(i)

\* paper.py:40: the price is set "once per instrument [...] before any order
\* operations for that instrument".
SoldAtOwnPrice ==
    \A i \in Instruments : pos[i].sold # 0 => pos[i].sold + HalfSpread \in Quotes[i]
=============================================================================
