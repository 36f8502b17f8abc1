-------------------------- MODULE ExecutorInvariant --------------------------
(***************************************************************************)
(* The inductive strengthenings of Executor's properties.                  *)
(*                                                                         *)
(* IInv: each part says what a step of the tick may rely on because of     *)
(* what was written to Redis or sent to the broker before it; none         *)
(* mentions a fault, which is why they survive all of them.                *)
(*                                                                         *)
(* AccountInv counts orders and bookings against the faults that may have  *)
(* cost them, in either mode.  PaperInv is exact, for the paper gateway on *)
(* days without faults.                                                    *)
(***************************************************************************)
EXTENDS Executor

EntryLabels == {"gate", "take", "drop", "enter", "saveEntry"}
FillLabels  == {"fill", "placeSL", "saveOpen"}
ExitLabels  == {"cancelSL", "sell", "saveExit", "settle", "limit", "cooldown"}

\* The phase on record at each step of the tick: routing and the steps after it
\* agree, and only an absent position has no trade.
ControlInv ==
    /\ pos.phase = "IDLE" => pos = NoPosition
    /\ pos.phase # "IDLE" => pos.trade \in Trades
    /\ pc \in EntryLabels => pos.phase = "IDLE" /\ mem.intent \in Trades
    /\ pc \in FillLabels => pos.phase = "ENTERING"
    /\ pc \in ExitLabels => pos.phase = "EXITING"
    /\ pc \in {"journal", "append", "flag"} => pos.phase = "COOLDOWN"
    /\ pc \in {"status", "positions"} => pos.phase \in {"OPEN", "ENTERING"}
    /\ pc = "fill" => mem.left > 0
    /\ pc = "limit" => pos.sl # 0

\* A bought intent is gone from Redis; the intent in hand is not bought yet,
\* and once consumed it cannot come back.
EntryInv ==
    /\ OneEntryPerIntent
    /\ intent # NoTrade => intent \in written
    /\ \A t \in Trades : Of("BUY", t) # {} => t \in written /\ t # intent
    /\ pc \in EntryLabels => mem.intent \in written
    /\ pc \in {"gate", "take", "drop", "enter"} => Of("BUY", mem.intent) = {}
    /\ pc = "enter" => intent # mem.intent
    /\ pc = "saveEntry" => mem.oid \in Of("BUY", mem.intent)
    /\ pos.phase # "IDLE" => pos.entry \in Of("BUY", pos.trade)

\* A market sell exists only after EXITING was saved for a bought trade, and
\* none exists yet where one is about to be sent.
ExitInv ==
    /\ OneExitPerTrade
    /\ \A t \in Trades : Of("MKT", t) # {} => Of("BUY", t) # {}
    /\ pos.phase \in {"ENTERING", "OPEN"} => Of("MKT", pos.trade) = {}
    /\ pc \in {"cancelSL", "sell"} => Of("MKT", pos.trade) = {}
    /\ pc = "saveEntry" => Of("MKT", mem.intent) = {}

\* The entry is COMPLETE before its stop is sent, and a stop is cancelled only
\* under EXITING.
StopInv ==
    /\ OpenIsBacked
    /\ StopsFollowFills
    /\ pc \in {"placeSL", "saveOpen"} => IsComplete(pos.entry)
    /\ pc = "saveOpen" => /\ mem.oid \in Of("SLM", pos.trade)
                          /\ orders[mem.oid].status # "CANCELLED"

\* Booking comes before COOLDOWN is on record, COOLDOWN before the journal,
\* and a trade that is not bought yet has no entry in any ledger.
SettleInv ==
    /\ CooldownIsBooked
    /\ JournaledAtMostOnce
    /\ pc \in {"limit", "cooldown"} => booked[pos.trade] > 0
    /\ \A t \in Trades : booked[t] > 0 => Of("BUY", t) # {}
    /\ pc = "saveEntry" => booked[mem.intent] = 0
    /\ pos.phase \in {"ENTERING", "OPEN", "EXITING"} =>
           notion[pos.trade] = 0 /\ closed[pos.trade] = 0
    /\ pc = "journal" => notion[pos.trade] = 0 /\ closed[pos.trade] = 0
    /\ pc = "append" => notion[pos.trade] = 1 /\ closed[pos.trade] = 0

\* Whoever sells holds a filled entry or was told that 15:10 has passed.
SquareoffInv ==
    /\ UnboughtSoldAtSquareoffOnly
    /\ mem.pastSO => afterSO
    /\ pc \in {"cancelSL", "sell"} => IsComplete(pos.entry) \/ afterSO

IInv == TypeOK /\ ControlInv /\ EntryInv /\ ExitInv /\ StopInv /\ SettleInv /\ SquareoffInv

-----------------------------------------------------------------------------
(* The accounts, in either mode and whatever fails. *)

\* The executor may have a unit of s in its hands: it was bought and has not
\* been found flat.
Held(s) ==
    \/ pc = "saveEntry" /\ SymbolOf[mem.intent] = s
    \/ /\ pos.phase \in {"ENTERING", "OPEN", "EXITING"} /\ Symbol = s
       /\ pc \notin {"limit", "cooldown"}

\* Bought units of s and those an open buy may still bring.
Claimed(s) == {o \in Book(s) : orders[o].kind = "BUY"
                             /\ orders[o].status \in {"OPEN", "COMPLETE"}}

\* Open buys that neither the position nor the tick about to save it knows of.
Orphans == {o \in Ids : /\ orders[o].kind = "BUY" /\ orders[o].status = "OPEN"
                        /\ o # pos.entry
                        /\ pc = "saveEntry" => o # mem.oid}

\* A trade whose stops, if any, were sent by ticks that did not record them.
Unsaved == IF pos.phase = "ENTERING" /\ pc # "saveOpen" THEN {pos.trade} ELSE {}

\* Whoever has a stop on record, or is past the settlement, was bought.
EntryKnown ==
    pos.sl # 0 \/ pos.phase = "COOLDOWN" \/ pc = "cooldown" => IsComplete(pos.entry)

OrphansPaidFor == Cardinality(Orphans) <= faults

StopsCounted ==
    /\ pc = "saveEntry" => Of("SLM", mem.intent) = {}
    /\ Cardinality(Stops) <= Cardinality(Protected \ Unsaved) + faults

\* What may ever be held of s, less what is sold, is the trade in hand or a
\* fault.
ClaimsCounted ==
    \A s \in Symbols :
        Cardinality(Claimed(s)) <=
            Cardinality(Sold(s)) + faults + IF Held(s) THEN 1 ELSE 0

\* The trade in hand has been booked by nothing but this pass and ticks that
\* died before COOLDOWN was on record.
BookingsCounted ==
    \A t \in Trades :
        booked[t] <= faults + IF \/ pos.trade # t \/ pos.phase = "COOLDOWN"
                                \/ pc \in {"limit", "cooldown"}
                             THEN 1 ELSE 0

\* The flag is only set once the trade has been journaled, so that the tick that
\* records COOLDOWN always finds it absent.
JournalCounted ==
    /\ pos.journaled => pos.phase = "COOLDOWN" /\ pc # "journal"
    /\ JournalGapsPaidFor

AccountInv ==
    /\ EntryKnown /\ OrphansPaidFor /\ StopsCounted /\ ClaimsCounted
    /\ BookingsCounted /\ JournalCounted

-----------------------------------------------------------------------------
(* The accounts of the paper book, on days without faults. *)

\* A unit of s is bought whose stop has not been sent yet.
AwaitsStop(s) ==
    \/ pc = "saveEntry" /\ SymbolOf[mem.intent] = s
    \/ pos.phase = "ENTERING" /\ pc # "saveOpen" /\ Symbol = s

\* Only the live gateway asks for positions, so before 15:10 nothing is ever
\* sold at the market.
PaperPath ==
    /\ ~pos.flatExt /\ pc # "positions"
    /\ pc \in {"cancelSL", "sell", "saveExit"} => afterSO

EntriesFilled == \A o \in Ids : orders[o].kind = "BUY" => IsComplete(o)

\* Nothing is left of a symbol whose trade is settled, and one unit at most
\* of the one that is traded.
Flatness == \A s \in Symbols : Net(s) <= IF Held(s) THEN 1 ELSE 0

\* Every unit has exactly one stop resting against it, or is about to get it.
Balance ==
    \A s \in Symbols :
        Net(s) = Cardinality(Resting(s)) + IF AwaitsStop(s) THEN 1 ELSE 0

PaperInv ==
    ~Live => /\ PaperPath
             /\ faults = 0 => EntriesFilled /\ Flatness
             /\ faults = 0 /\ ~afterSO => Balance
=============================================================================
