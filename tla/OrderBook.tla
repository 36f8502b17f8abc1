------------------------------ MODULE OrderBook ------------------------------
(***************************************************************************)
(* The broker's order book for ONE instrument, as the executor's gateways  *)
(* see it: executor/gateway/paper.py (orders kept in Redis, filled by the  *)
(* executor's own process_tick) and executor/gateway/kite_live.py (orders  *)
(* kept by Zerodha, filled by the exchange at any moment).                 *)
(*                                                                         *)
(* A trade is what one signal intent leads to; every order is one unit of  *)
(* the trade's symbol (the lot size and the multiplier are fixed for a     *)
(* trade, so quantities only ever differ by that common factor).  An order *)
(* id is the order's index in the book; 0 stands for Python's None.        *)
(***************************************************************************)
EXTENDS Integers, Sequences, FiniteSets

CONSTANTS
    Trades,     \* the signals of the day, one potential trade each
    Symbols,    \* option trading symbols
    SymbolOf,   \* the symbol a trade buys; two trades may share one
    Live        \* TRUE: KiteLiveGateway, FALSE: PaperGateway

ASSUME BookAssumption ==
    /\ SymbolOf \in [Trades -> Symbols]
    /\ Live \in BOOLEAN

VARIABLE orders

Kinds    == {"BUY",   \* marketable LIMIT entry
             "SLM",   \* protective SL-M sell
             "MKT",   \* MARKET sell of an exit
             "EXT"}   \* a sale made by hand, outside the executor
Statuses == {"OPEN", "COMPLETE", "CANCELLED", "REJECTED"}
Order    == [kind : Kinds, trade : Trades, status : Statuses]

Ids     == DOMAIN orders
NewId   == Len(orders) + 1
Book(s) == {o \in Ids : SymbolOf[orders[o].trade] = s}
Of(kind, t) == {o \in Ids : orders[o].kind = kind /\ orders[o].trade = t}

BookTypeOK == orders \in Seq(Order)

-----------------------------------------------------------------------------
(* The calls of the gateway interface. *)

\* place_order: the broker appends an order; `status` is what it has become
\* by the time the call returns.
Place(kind, t, status) ==
    orders' = Append(orders, [kind |-> kind, trade |-> t, status |-> status])

\* Fills, rejections: the orders in S move to `status`.
SetStatus(S, status) ==
    orders' = [o \in Ids |-> IF o \in S THEN [orders[o] EXCEPT !.status = status]
                                        ELSE orders[o]]

\* cancel_order: idempotent, an order that is no longer OPEN keeps its status.
Cancel(o) == SetStatus({x \in {o} : orders[x].status = "OPEN"}, "CANCELLED")

IsComplete(o) == o \in Ids /\ orders[o].status = "COMPLETE"

\* Quantity bought less quantity sold of symbol s.
Done(s)   == {o \in Book(s) : orders[o].status = "COMPLETE"}
Bought(s) == {o \in Done(s) : orders[o].kind = "BUY"}
Sold(s)   == Done(s) \ Bought(s)
Net(s)    == Cardinality(Bought(s)) - Cardinality(Sold(s))

\* The orders of symbol s that may still fill.
Resting(s) == {o \in Book(s) : orders[o].status = "OPEN"}

\* What check_exit_complete and reconcile conclude from get_open_positions:
\* the paper gateway drops a net quantity <= 0 from its answer, the live one
\* reports every quantity that is not 0, short positions included.
IsFlat(s) == IF Live THEN Net(s) = 0 ELSE Net(s) <= 0
=============================================================================
