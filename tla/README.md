# Verification of the F&O auto-executor

TLA+ specifications of `src/executor`, checked with TLC, with theorems proved by
TLAPS. The executor is a stateless program that a cron service starts every
minute. Each tick reads its state from Redis, talks to a broker (a simulated one
in paper mode, Kite Connect in live mode), moves every instrument one or more
steps along `IDLE -> ENTERING -> OPEN -> EXITING -> COOLDOWN -> IDLE`, and exits.
The next dispatch cancels a tick that still runs
(`.github/workflows/executor.yml:22-24`), so a tick may end between any two calls.

## 1. Inventory

| Part | State | Operations | Hard behaviour | What makes it correct |
|---|---|---|---|---|
| Trade state machine (`manager.py`) | position dict | `try_enter`, `check_entry_fill`, `manage_position`, `_exit`, `check_exit_complete`, `check_cooldown_elapsed`, `force_squareoff` | a call to the broker and the save that records it are two steps; a tick may die between them | one buy per intent, one sell per trade, OPEN has a filled entry and a stop, booking before COOLDOWN |
| Tick driver (`run.py`, workflow) | nothing persistent; `past_squareoff`, list of OPEN instruments | first pass, sub-loop of up to 4 passes, phase routing, exception isolation | cancellation, stale locals, 15:10 passing during a tick | every phase is picked up again by a later tick |
| Paper gateway (`gateway/paper.py`) | one JSON value with all orders; `_current_ltp` | place, modify, cancel, status, positions, `process_tick`, `reconcile` | two writes per filled order; one LTP shared by all instruments; read-modify-write | never short; nothing rests once a trade is over |
| Live gateway (`gateway/kite_live.py`) | the exchange's book | the same interface | fills and rejections at any moment, two reads in `reconcile`, swallowed failures, lost replies | an exit sells what is held |
| Redis keys (`state.py`) | position, pending intent, last signal, open index, daily P&L, breaker flag, closed-today list, mode override, multiplier, kill switch | GET/SET/DELETE helpers | `consume_intent` is a GET and a DELETE, `update_daily_pnl` a GET and a SET | an intent is used once, a P&L counted once |
| Entry gates (`gates.py`) | none | `check_all` | what was read is stale when the entry is sent | no entry past the clock, the breaker, the switch |
| Mode and multiplier (`run.py`, `state.py`, `kite_client.py`) | override, variable, multiplier of the day, margins cache | preamble of `main` | racing ticks; a switch with a position open | one multiplier a day; a position stays in one book, mishaps named |
| Dynamic universe (`state.py`) | `stock:dynamic_universe` (written elsewhere) | `get_dynamic_instruments` | read anew by every tick | no open position is forgotten |
| Sizing (`sizing.py`) | cached margins | `compute_qty`, `decide_lot_multiplier`, `get_daily_loss_limit` | positions without premium count as zero | committed premium stays within capital |
| Trailing stop (`trailing.py`, `manager.py`) | `sl_ladder_stage`, `sl_premium`, the trigger at the broker | ladder, RSI tightening, `_modify_sl` | three copies of one price, rounded differently; a pass may die between moving the stop and saving it | the broker's stop backs the record, gains stay locked in |
| Journal (`journal.py`) | Discord message id | Notion post, consolidated tracker | failures are only logged; only the tick that saves COOLDOWN journals | one row per trade, a fault for each one missing, one message per day |
| Charges (`charges.py`) | none | `net_pnl` | the P&L the breaker sees is net of them | the daily loss stays bounded, charges included |
| Indicators, authentication, calendar, instruments | - | formulas, lookups | - | - |

Interaction: `run.py` calls the gateway's `reconcile`, routes by phase to
`manager.py`, which calls the gateway and saves through `state.py`; the signal
process writes the pending intent beside it; the exchange moves live orders on
its own; resting paper orders move only inside `process_tick`.

## 2. Modules

| Module | What it is |
|---|---|
| `OrderBook` | the broker's book of one instrument: orders as a sequence (an id is an index, 0 is `None`), the operators both gateways share |
| `Executor` | one instrument driven by ticks, faults and the outside world; extends `OrderBook` |
| `ExecutorInvariant` | the inductive strengthenings: `IInv` of the safety properties, `AccountInv` of the accounts in either mode, `PaperInv` of those of the paper book |
| `TradeLifecycle` | the abstract specification: stages of a trade and its three ledgers |
| `ExecutorRefinement` | the mapping under which `Executor` implements `TradeLifecycle` |
| `ExecutorClaims` | sentences of the repository that `Executor` does not keep |
| `TrailingStop` | one position in prices: ladder, tightening, the stop at the broker and its two records |
| `EntryGate` | from intent to entry in minutes: what each check reads, and when |
| `TradingMode` | the preamble of a tick, where two ticks overlap, and one position, call by call, over two books |
| `TradingDay` | several instruments in one tick: shared price, capital, P&L, breaker, Discord message, universe |
| `MC...` | instances for TLC |
| `OrderBook_proofs` | what placing, filling and cancelling an order does to a symbol's net position |
| `Executor_proofs` | the parts of `IInv`, and what follows from them |
| `ExecutorAccounts_proofs` | `AccountInv`, `PaperInv` and what follows from them for the account at the broker |
| `ExecutorRefinement_proofs` | `Executor` implements `TradeLifecycle`, and keeps what that promises |
| `TrailingStop_proofs`, `EntryGate_proofs`, `TradingMode_proofs`, `TradingDay_proofs` | the invariants and theorems of these modules |

`Executor` has every interleaving of one instrument and no numbers. The other four
each take up what it leaves free: `TrailingStop` the
prices, `EntryGate` the gate, `TradingMode` the constant `Live`, `TradingDay` the
other instruments. They share no variables with it. `TradingMode` also has one call a
step; the other three collapse what `Executor` has shown, and say so where they do.

### Executor

`pc` is the next Redis or broker call of the running tick (`down` between ticks)
and `mem` the locals that call needs. One action is one call with the
computation up to the next one, so a `Crash` may come between any two calls that
matter, and everything outside Redis and the broker's book is forgotten by it.

* `TickStart`, `SubloopPass`, `ReadStopStatus`, `ReadPositions`: quote,
  `process_tick`, reload and `reconcile` (`run.py:307-348`, `248-281`). The live
  `reconcile` makes two reads, hence two actions.
* `Squareoff`, `NothingToDo`, `Manage`, `Hold`, `Route*`: the square-off guard and the
  phase routing (`run.py:350-384`). Which branch of `manage_position` fires
  depends on prices and is free, within the order of its returns.
* `GatePass` to `SaveOpen`: `_run_idle`, `consume_intent` (GET and DELETE apart),
  `try_enter`, the bounded fill check, `check_entry_fill`.
* `BeginExit` to `FlagJournaled`: `_exit` (EXITING saved first),
  `check_exit_complete`, `_journal_if_cooldown` with its three writes.
* `Crash`, `CallRaises`, `ReplyLost`, `CallSwallowed`: the four ways a call fails.
  `ReplyLost` also covers a paper order that is stored but dies before its
  second write.
* `WriteIntent`, `ExpireIntent`, `PassSquareoff`, `ExchangeActs`, `ExternalClose`: the world.

Abstractions: every order is one unit, so a partial fill of a live entry looks
like an order that is still open. A modify that raises ends the pass like
`CallRaises`. The two early returns of `check_entry_fill` on a missing price or
quantity are unreachable (entries are LIMIT orders, `try_enter` saves the quantity
with the order id). A tick that passed its gate ends before 15:10: the gate
closes at 14:45 and the job lives two minutes.

### TrailingStop

Prices are integers in twentieths of a paisa, so that every rung, `0.05*T` and
`0.7*entry` are exact; `round(x, 2)` may go either way at half a paisa. A pass is
`BeginPass` (quote, RSI, paper fills), `ExitStopped` or `Propose` (reconcile and
`compute_final_sl`), `Modify` or `ModifyRefused` (`_modify_sl`), `Save`, `Settle`. `Modify`
comes before `Save`, as in the code: a pass that dies in between leaves the broker's
stop ahead of Redis.

### EntryGate

`CheckPasses` and `CheckFails` walk `gates.check_all`; `Take`, `Drop`, `Stamp` are the
three calls `consume_intent` and `discard_intent` have in common; `Enter` and
`SavePosition` are `try_enter`. Signals, the switch, the breaker and the clock
move between any two of them. An intent is its timestamp. `MinutePasses` does not let
a tick outlive `timeout-minutes`.

### TradingMode

`StartTick` to `RereadMultiplier` are lines 131-161 of `run.py`, one call each. Ticks
overlap here, which is what `SET NX` is for; from `BeginPass` on one trades, as the
concurrency group has it. The margins are cached for a minute and may differ from one
read to the next, so each read is any member of `Cash`.

A pass goes through the gateway of its tick, and each gateway knows its own orders only
(`home`). Every call is a step: `ReadStop` and `ReadPositions` are the two reads of the
live `reconcile`; `Squareoff` and `Manage` are the routing, the first blind to the
entry and to `sl_filled`; `PlaceEntry`, `SaveEntry`, `EntryFilled`, `PlaceStop`, `SaveOpen` the
entry; `BeginExit`, `CancelStop` or `CancelFails`, `PlaceExit`, `SeesFlat`, `SaveCooldown` the exit.
`EndTick` may come between any two of them, the exchange may fill a live order between any two,
15:10 may pass, and the mode may be switched.

Two histories are there for the properties: `careless`, the mode in force changed while a tick ran
or something was held; `mishap`, an order whose id was not saved, a cancel that failed, or a
market sell beside a filled stop or without a filled entry. The position also
remembers which book it was bought in (`home`); the code's does not. Rejections and
sales by hand are in `Executor`.

### TradingDay

A tick visits the places `at` of `Order`, a pick only if it is among the `picks` that could
be read; `cur` is `_current_ltp` and carries over from one instrument to the next. Every visit
with a quote sets it, those that change nothing else included (COOLDOWN, EXITING, an
option too dear, a pass that raises); it is forgotten when the loop ends. Entry,
stop, square-off and settlement work on premiums, every sale brings at least one
(`paper.py:111`, `283`: the floor of 0.05), `SettleGet`, `SettleAdd`, `CheckLimit`,
`SaveCooldown` are apart because a tick may die between them. The tracker comes last.
A lot is one unit, a stop does not trail. What a trade is charged
(`charges.net_pnl`) is any function `Charges` of its two premiums up to `TopCharge`; the instance has brokerage for
every trade and taxes for the dear ones. A sum over
instruments is the number of units of a set (`Units`, `SumOver`): the same number as a
recursive sum, and one that can be proved about without induction.

Operators with a comment "Seeded bug" are not part of a specification. Each is a
faulty form of the definition after it; substituting it makes the property it
endangers fail.

## 3. Runs

Deadlock is checked everywhere.

| Run | Instance | Shows |
|---|---|---|
| `paper` | `Executor`, paper, 2 signals on one strike, 2 faults, 15:10, fair | one buy, one sell, OPEN is backed, booking before COOLDOWN, journal at most once, one booking and one position, and one more per fault, a fault for each trade missing from the journal, `TradeLifecycle`; without a fault and before 15:10 never short and nothing left resting, with the inductive `PaperInv` behind them; filled stops are settled |
| `live` | `Executor`, live, 1 signal, 2 faults, rejections, sales by hand, 15:10, fair | types, `IInv` (stops follow fills among it), only the square-off sells the unbought, each repeated stop is a fault and each unit owed is explained, with the inductive `AccountInv`; filled entries are picked up |
| `trailing_stop` | 2 fills, 3 risks, 11 quotes, both gateways, 2 faults | the broker's stop backs the record, the stage ratchets, the best quote stays locked in, a stop is below the quote it is tightened for, and is moved back only after a fault |
| `entry_gate` | 9 minutes: window 2-7, time to live 2, cooldowns 4, job 1, 1 fault | how late an entry can be, the cooldown after an entered signal, refused is refused, the kill switch |
| `trading_mode` | 2 ticks, balances below and at the threshold, live fills at any moment, 15:10, ticks ending anywhere | racing ticks agree on the multiplier; the books follow the position but for a careless switch or a mishap |
| `trading_day` | 3 instruments, 2 quotes each, 5 entries, 1 fault, 15:10 | capital, breaker, bound of the daily loss, one message, what the square-off reaches |

Bounds, and why they are enough. `Executor`: 2 fill attempts (3 in the code) and
2 passes (4): the second already repeats the first. Two signals let an
orphan of the first meet the second, on one strike because that is the harder
case for the net position. Two faults let a second tick die while repairing
after the first. One signal in `live`: the theorems
are for any number, and two would meet each other only through orphans and the net position,
which `paper` has. `TrailingStop`: the risks make `T` 0.91, 0.92 or 0.94 after
rounding, so that rungs fall on halves and quarters of a paisa; the quotes lie below the stop, between
stop and entry, and around each of the rungs from 50% to 120%; the cheap fill needs the floor
0.05; behaviours are unbounded. `EntryGate`: the window holds two cooldowns, so a
second and a third signal may come, and ends before the day does. `TradingMode`: two processes
race for one key, and one position goes through any number of trades. The position has one order
of each kind open, net positions stay within `MaxNet`, no tick begins a pass after a mishap, and
the mode is not switched again after a careless switch: what follows either is
`Executor`'s subject or a claim's, and `BooksFollowPosition` promises nothing there.
`TradingDay`: the capital pays for any two options and for the third only at its lower
quote, so it does run out; two stops trip the breaker; quotes differ
between instruments, so a foreign price shows.

The abstract `TradeLifecycle` is checked as a PROPERTY: each step of `Executor` moves
a trade along its stages or leaves them alone (`paper`; the theorem is about both modes).

Fairness (`FairSpec`): a running tick goes on and new ticks are dispatched
(`WF_vars(TickStep)`; cron-job.org dispatches one per minute until 15:10), and ticks
that obtain a quote for the position keep coming (`SF_vars(TickStart(TRUE))`).
Nothing is assumed of the exchange or the signal process. The
liveness properties ask for nothing after 15:10. `FilledStopSettles` is stated
for a position with no order of another trade beside it: an orphan keeps the symbol's net
position above zero and the exit waiting.

### Conditions in the properties

What holds only under a condition says so in its formula. `NeverShort` and
`NothingLeftResting` are about days without faults: after a fault
an orphaned order may remain. `OnePosition`, `StopsPaidFor` and `BookingsPaidFor` allow one
unit, stop or booking more for each fault, `ShortIsAccountedFor` a unit owed for each fault, each sale by
hand and each trade that was sold beside its stop or without its entry, `JournalGapsPaidFor` one trade missing from Notion or
from the closed trades for each fault. `BooksFollowPosition` asks for careful switching and for no
mishap; the mishaps happen without any switch, one of them in `claim_reconcile_race`, and
the property says that besides them nothing sets a book apart from the position. `LiveNeverShort`
asks for no mishap. `BreakerFollowsLoss` lets a day at its limit wait for any
trade that is EXITING, since each looks at the limit when it settles. `SquareoffReachesListed` exempts picks that have left
the universe. `CapitalRespected` allows one premium per fault, `DayLossBounded` (before 15:10)
the worst trade of every instrument once more per fault, `OneMessage` one message
per fault, `LoosenedOnlyAfterFault` a stop that moves back.

### Claims the code does not keep

Each run refutes one sentence of the repository, without any fault.

| Run | Property | What happens |
|---|---|---|
| `claim_reconcile_race` | `NeverShort` | live: the stop fills between the two reads of `reconcile`; the position is "flat externally" and is sold again |
| `claim_unfilled_entry_sold` | `SellsWhatWasBought` | live: an ENTERING position is sold at 15:10 although its entry did not fill |
| `claim_rejected_stop` | `RejectedStopIsReplaced` | live: a rejected stop leaves the position OPEN and unprotected |
| `claim_mode_switch` | `LiveNeverShort` | the override switches to live while a paper position is held: the next live tick sells it in the live account, at the square-off (the run) or before it as "flat externally" |
| `claim_dropped_pick` | `SquareoffReachesAll` | a pick leaves the universe while its position is open: 15:10 does not reach it |
| `claim_sold_at_foreign_price` | `SoldAtOwnPrice` | paper: without a quote at 15:10 an option is sold at the price of another one |

More consequences are visible in the models but have no run:

* the square-off does not look at `sl_filled` and sells after the stop has
  (`manager.py:260`; the reason `NeverShort` stops at 15:10);
* if no instrument of the tick has a quote at 15:10 the paper sell raises after
  EXITING is saved, and no later tick touches the position (`run.py:352`);
* a tick cancelled between buying and saving leaves an orphan, and the next
  signal is bought beside it (`manager.py:89`);
* the P&L of a trade is added again when the tick dies between `manager.py:307` and
  `318` (the abstract `Settle` may therefore repeat);
* a trade whose tick dies after COOLDOWN is saved and before the journal is written is never
  journaled: only the tick that records COOLDOWN does it (`run.py:383-384`; `JournalGapsPaidFor`
  counts them);
* an ENTERING position that is squared off has no entry premium, so that its settlement raises
  and it stays EXITING (`manager.py:302`);
* one ENTERING position delays the tracker of all, because its missing premium
  cannot be printed (`journal.py:176`);
* when the margins cannot be read the tick ends, and positions go unmanaged but for
  their stops at the broker (`run.py:153`);
* a tick that dies between `manager.py:373` and `227` leaves a tighter stop at the broker
  than Redis knows of; when the quote has fallen back the next tick moves it down again;
* a tick that dies between `manager.py:307` and `313` leaves the breaker off though the limit is
  reached, and entries of the other instruments go on until a trade settles;
* under the override `live` with the variable `paper`, live entries are sized with
  `CAPITAL_RS` (`manager.py:64`, `sizing.py:72`), against `sizing.py:4-6`, `config.py:13-14` and
  `README.md:147`, by which live capital is the available margins; the tracker's headline
  follows the variable too (`journal.py:221`).

## 4. Proofs

All invariants, action properties and the refinement that the passing runs check are
theorems, for every value of the constants that satisfies the named assumptions
(`BookAssumption`, `ExecutorAssumption`, `PriceAssumption`, `GateAssumption`,
`ModeAssumption`, `DayAssumption`; TLC evaluates each on its runs):

| Module | Theorem | Statement |
|---|---|---|
| `Executor_proofs` | `TypeCorrect` | `Spec => []TypeOK` |
| | `NeverBuysTwice` | `Spec => []OneEntryPerIntent` |
| | `NeverSellsTwice` | `Spec => []OneExitPerTrade` |
| | `OpenPositionsAreBacked` | `Spec => []OpenIsBacked` |
| | `StopsComeAfterFills` | `Spec => []StopsFollowFills` |
| | `OnlyBoughtIsSold` | `Spec => []UnboughtSoldAtSquareoffOnly` |
| | `CooldownFollowsBooking` | `Spec => []CooldownIsBooked` |
| | `NeverJournaledTwice` | `Spec => []JournaledAtMostOnce` |
| | `InvariantHolds` | `Spec => []IInv` |
| `ExecutorRefinement_proofs` | `LifecycleHolds` | `Spec => ImplementsLifecycle` |
| | `TradesOnlyAdvance` | `Spec => Lifecycle!OnlyForward` |
| `ExecutorAccounts_proofs` | `AccountsHold` | `Spec => []AccountInv` |
| | `HoldsOnePosition` | `Spec => []OnePosition` |
| | `BookingsCostFaults` | `Spec => []BookingsPaidFor` |
| | `JournalGapsCostFaults` | `Spec => []JournalGapsPaidFor` |
| | `StopsCostFaults` | `Spec => []StopsPaidFor` |
| | `ShortsAreExplained` | `Spec => []ShortIsAccountedFor` |
| | `PaperAccountsHold` | `Spec => []PaperInv` |
| | `PaperNeverShort` | `Spec => [](~Live => NeverShort)` |
| | `PaperNothingResting` | `Spec => [](~Live => NothingLeftResting)` |
| `TrailingStop_proofs` | `TypeCorrect` | `Spec => []TypeOK` |
| | `StopIsBacked` | `Spec => []StopBacksRecord` |
| | `PeakStaysLocked` | `Spec => []PeakLockedIn` |
| | `StopStaysBelowQuote` | `Spec => []TightenedBelowQuote` |
| | `StageNeverFalls` | `Spec => StageRatchets` |
| | `OnlyFaultsLoosen` | `Spec => LoosenedOnlyAfterFault` |
| `EntryGate_proofs` | `TypeCorrect` | `Spec => []TypeOK` |
| | `EntriesInTime` | `Spec => []EntriesAreTimely` |
| | `KillSwitchWorks` | `Spec => KillSwitchStops` |
| | `CooldownHolds` | `Spec => []CooldownRespected` |
| | `RefusalsHold` | `Spec => []RefusedStaysRefused` |
| `TradingMode_proofs` | `TypeCorrect` | `Spec => []TypeOK` |
| | `OneMultiplierADay` | `Spec => []MultiplierAgrees` |
| | `OneBookPerPosition` | `Spec => []BooksFollowPosition` |
| `TradingDay_proofs` | `TypeCorrect` | `Spec => []TypeOK` |
| | `CapitalHolds` | `Spec => []CapitalRespected` |
| | `BreakerHolds` | `Spec => []BreakerFollowsLoss` |
| | `LossIsBounded` | `Spec => []DayLossBounded` |
| | `OneMessageADay` | `Spec => []OneMessage` |
| | `SquareoffReaches` | `Spec => []SquareoffReachesListed` |

`StopsComeAfterFills` is about a part of `IInv`, which the run `live` checks as a whole. Hardly
any of these properties is inductive by itself; what each needs follows.

### Executor

`IInv` adds what a step relies on.

* `ControlInv`: which phase is on record at each `pc`; proved together with the types.
* `EntryInv`: a bought intent is gone from Redis and cannot come back; the intent
  in hand is unbought. Without it nothing excludes a second buy after `DropIntent`.
* `ExitInv`: no market sell exists while the position is ENTERING or OPEN, or where
  one is about to be sent. It holds because EXITING is saved before the broker is called.
* `StopInv`: the entry is COMPLETE before its stop is sent, and stops are cancelled
  only under EXITING.
* `SettleInv`: booking, COOLDOWN, the post, the list: each presupposes the one before.
* `SquareoffInv`: whoever is about to sell holds a filled entry or was told that
  15:10 has passed.

Each part is proved from the parts before it, one lemma per group of actions.
Shared frame lemmas say which orders a step sends (`NoneSent`, `Sent`), what it may
do to existing orders (`OrdersKept`), and what a step outside a concern leaves
alone. No part mentions a fault, which is why the bound on faults disappears.

The refinement is a step simulation from `IInv`. `StageOf` maps only the trade the
position carries to its phase, all others to what their bookings say. So a step
either keeps phase, trade and ledgers (`NotSeen`: the life cycle stutters), moves the
carried trade alone (`MovesCarried`), or adds to one ledger. Eight actions are seen,
one lemma each; `IInv` supplies the guard the abstract step asks for, such as
"not yet posted".

`TradesOnlyAdvance` uses the refinement the other way. `OnlyForward` is about
`TradeLifecycle` alone: no stage is left backwards, the P&L is booked only while EXITING, the
journal written only in COOLDOWN, and a trade that is over never changes. `StepsForward` proves it of
the eight abstract actions, and every executor keeps it.

### The account, in either mode

`AccountInv` needs no mode, no clock and no day without faults. Each part is an
inequality that a step may disturb on both sides at once:

* `ClaimsCounted`: what is bought of a symbol, or may still be, is sold, held by the trade
  in hand, or cost a fault. It grows only at `PlaceEntry`, where nothing is in hand, and
  gives up the trade in hand only at `SettleBooks`, where the symbol was found flat.
  There `OrphansPaidFor` is needed: a flat symbol may have open buys, and each of
  those was lost by a fault.
* `EntryKnown`: a trade with a stop on record was bought, so a trade that is over leaves no open
  buy behind, faults aside.
* `StopsCounted`: stops are at most the trades that have one and the faults. The trade whose stop
  is being sent is left out of the first number (`Unsaved`), because whether the stop that `PlaceStop` sends is
  its first depends on ticks that died.
* `BookingsCounted`: the trade in hand was booked only by ticks that died before COOLDOWN was on
  record, or by this one.
* `JournalCounted`: `journaled` is only set once the trade has been written down, so the tick that
  records COOLDOWN always goes on to journal it. A trade leaves those hands unjournaled
  only through a fault (`JournalStep`).

Nothing bounds sales from above as strictly: live, before 15:10 and without any fault, a
trade may be sold twice (`claim_reconcile_race`). So the account may owe, and
`ShortsAreExplained` says for what. Its proof counts. Every sale is a repeated stop, a sale by hand, the market
sell of a trade in `Oversold`, or one of the rest; the rest is mapped injectively to bought
entries (`CoveredCounted`: a first stop or a market sell, never both, of a bought trade), repeated
stops are faults (`StopsPaidFor`), and a trade has one market sell (`OneExitPerTrade`).

### The paper account

`NeverShort` and `NothingLeftResting` need exact numbers. `PaperInv`
keeps them: every unit held of a symbol has exactly one stop resting against it,
or is the entry whose stop is about to be sent (`Balance`); a symbol holds nothing
unless the executor has a trade of it in its hands, and then one unit (`Flatness`);
every entry has filled (`EntriesFilled`); nothing reaches the market sell before 15:10
(`PaperPath`, since only the live gateway reports a position as closed by hand). The
step from one order more or one fill to the net position is in `OrderBook_proofs`.

These theorems are about paper mode, and the properties themselves are about days
without faults: with a lost reply an orphan remains, and in live mode `NeverShort` is
what `claim_reconcile_race` refutes. Any number of trades may share a symbol.

### TrailingStop

The lemmas about the operators come first: what `Rounded` may return, that the rungs
rise with the gain and stay below it, what `FinalSL` keeps of the stage. `StopInv` then
ties the three copies of the stop: the stage is the recorded stop rounded, so within half a
paisa (`StageNearTrigger`); the trigger is at most half a paisa below the recorded stop,
because a proposal on record need not be sent again; a proposal is always
computed from the stage that is still on record (`ProposalFromStage`); until a pass
dies the trigger is the recorded stop or the one about to be (`SentIsSaved`). A
paisa in all is what `StopBacksRecord` states.

### EntryGate

A tick past a check carries what the check saw. `Budgeted` bounds the age of
the tick, `KillRead` says the switch was off when the tick began or was set since,
`TimeRead` the same of the clock and the intent; the bounds follow at `Enter`. For the
cooldown, `OrderInv` orders the signals: entered ones are older than whatever may still
be bought and no younger than the last one stamped, so whoever passed the check is a
cooldown away from each of them. `RefusedGone` says where a refused intent can still be.

The proof corrected the property. It used to ask for a cooldown between any two
entries, in the order of the entries; two entries of one minute break that when
the cooldown is no longer than the time to live and the job together. The property is
now about signals in their order, which is what the code compares, and holds for
every cooldown.

### TradingMode

`AgreementInv` needs neither careful switching nor a day without mishaps: `Knows(t)` says
what a tick knows of the multiplier where it stands (what it stores is not 0, what it
rereads or trades is stored), `OneTrades` that at most one tick is past the preamble, `Awaits` that
an entry being followed up is on record as ENTERING, `SizeAgrees` that a held position has the
lots of its book; the multiplier never changes once it is set.

`BooksInv` has two layers. While the switching is careful, `OneMode` holds: every running tick, the
held position and its orders go by the mode in force. While there is no mishap either, each order on
record is the trade's own (`OrdersMatch`), what is on record of the position agrees with them
(`PositionMatches`), a tick in mid-sequence stands where its orders say (`Stands`), and the book
is what these orders add up to (`Owed`). A step that would break the second layer is one of
the mishaps, and the proof goes through every other.

### TradingDay

`PassInv` says where a tick may stand and what it then knows (`Places`), and what is known of
a position in each phase (`Premiums`). `Course` lists how each action may change a
position; the other invariants are proved from it, not from the actions again.

* Types: the P&L has moved at most once for each trade that is no longer held, for each
  fault (a settlement may be repeated) and for the trade being booked (`Settlements`).
* The breaker: between `SettleAdd` and `CheckLimit` the trade is EXITING.
* The message: each posted one is known, about to be, or cost a fault (`PostsCounted`).
* The square-off: what a clean tick leaves unsold is `Ahead` of it, or off the list.
* The capital: `PremiumsKnown` says a shown premium is the one paid, and that at most
  one position per fault hides its premium (`Unrecorded`). At `TryEnter` the sum of what
  was spent then exceeds the committed sum by at most one price for each of these.
* The loss: the limit is `Guarded` while it is not reached, or the breaker is set, or the tick is
  about to look. The P&L is then above the limit, less one worst trade, charges included
  (`TopCharge`), for each instrument that is not `Running`. An entry asks for a P&L above
  the limit, so it may take its instrument out of that sum; a settlement puts it back, at no
  more than its worst trade, because before 15:10 every price is one of the instrument's own
  quotes (`OwnPrices`). A tick that dies between `manager.py:307` and `313` leaves the limit
  reached and unguarded, and entries go on until the next settlement. Such a fault
  pays for the sum of all instruments at once, so `LossCounted` holds across it.

Sums are cardinalities, so four lemmas serve both: `SumMonotone`, `SumOneMore`, `SumSplit` and
`WorstSum`. The types also brought to light that a sale is floored in the code
(`SaleAt`); without the floor a price could be negative, and 0 reads as "not sold".
`TopQuote`, which no option exceeds, exists to state bounds; its value is free.

### Only model-checked

* Liveness (`FilledEntryIsPickedUp`, `FilledStopSettles`): it needs fairness and `ENABLED`,
  which the prover does not handle.
* That the claims of the table above fail: a counterexample is a run, not a theorem.

## 5. Not modelled, and the plan

Not modelled:

* Indicators, authentication, instruments and the calendar, and the rates of the charges: formulas,
  tables and lookups without state of their own.
* Two ticks overlapping in the paper store (`paper.py:101`) or in the P&L total
  (`state.py:303`): the concurrency group cancels a tick before it starts the next.
  `TradingMode` lets ticks overlap, because `set_lot_multiplier_if_absent` is written for it.
* Partial fills, start-up failures, the job budget of the sub-loop, the texts of
  the journal, the open-instrument index apart from the positions.

Worth doing next:

1. `Executor` live: a condition on the exchange (no stop fills between the two reads of
   `reconcile`, or after the last look at it) under which `Oversold` is empty.
2. Partial fills of live entries.
