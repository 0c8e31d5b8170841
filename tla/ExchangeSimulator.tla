-------------------------- MODULE ExchangeSimulator -------------------------
(***************************************************************************)
(* hft::ExchangeSimulator (src/src/core/simulator.{hpp,cpp}) when several  *)
(* threads submit, cancel and modify orders of one symbol.  (The HTTP      *)
(* server of main.cpp does the first two; no route of it modifies.)        *)
(* submit_order asks the RiskManager first, under the risk manager's own   *)
(* mutex, and takes mtx_ only then; it books the fills after add_order has *)
(* returned, one on_fill at a time.                                        *)
(*                                                                         *)
(* The symbol's book is OrderBook.  Whether the rate limit throttles an    *)
(* order is left open here (RateLimiter models it).  mtx_ is taken not to  *)
(* keep a waiting thread out for ever.                                     *)
(***************************************************************************)
EXTENDS Orders, RiskChecks, FiniteSetsExt, Functions

CONSTANTS
    NoOrder,
    Clients,        \* threads of the server
    NoClient,
    RiskLimits      \* limits_

ASSUME ClientsAssumption == IsFiniteSet(Clients) /\ NoClient \notin Clients
ASSUME IdsAssumption == IsFiniteSet(OrderIds) /\ OrderIds = 1 .. Cardinality(OrderIds)
ASSUME NoOrderAssumption == NoOrder \notin OrderIds
ASSUME RiskLimitsAssumption == RiskLimits \in Limits /\ RiskLimits.enabled

VARIABLES
    order, book, orders, incoming, trades, notified, amended,   \* books_[symbol], order_store_
    issued,     \* ids next_order_id() has handed out: 1 for 1001, 2 for 1002, ...
    call,       \* what each client's submit_order call is doing
    holder,     \* the client that holds mtx_
    unbooked,   \* trades add_order returned that on_fill has not seen
    net,        \* risk_.positions_[symbol].net_qty
    totals,     \* total_orders_, total_trades_, total_rejects_
    flow        \* history: what the incoming orders bought less what they sold

Book == INSTANCE OrderBook

bookVars == <<order, book, orders, incoming, trades, notified, amended>>
vars == <<order, book, orders, incoming, trades, notified, amended,
          issued, call, holder, unbooked, net, totals, flow>>

Outside == [at |-> "outside"]

Init ==
    /\ Book!Init
    /\ issued = {}
    /\ call = [c \in Clients |-> Outside]
    /\ holder = NoClient
    /\ unbooked = << >>
    /\ net = 0 /\ flow = 0
    /\ totals = [orders |-> 0, trades |-> 0, rejects |-> 0]

\* What the handler passes on unchecked: a quantity may be zero, a symbol unknown.
Requested == Submittable \cup {[o EXCEPT !.qty = 0] : o \in Submittable}

Toward(side, qty) == IF side = "BUY" THEN qty ELSE -qty
-----------------------------------------------------------------------------
(* submit_order.                                                           *)

\* check_order, under the risk manager's mutex only.  The position of an
\* unknown symbol is flat.
Submit(c, id, o, known, market, throttled) ==
    /\ call[c] = Outside
    /\ id = Cardinality(issued) + 1
    /\ issued' = issued \cup {id}
    /\ IF Objection(RiskLimits, o, market, IF known THEN net ELSE 0) = "NONE" /\ ~throttled
       THEN /\ call' = [call EXCEPT ![c] = [at |-> "approved", id |-> id, order |-> o,
                                            known |-> known]]
            /\ totals' = [totals EXCEPT !.orders = @ + 1]
       ELSE /\ totals' = [totals EXCEPT !.orders = @ + 1, !.rejects = @ + 1]
            /\ UNCHANGED call
    /\ UNCHANGED <<bookVars, holder, unbooked, net, flow>>

\* Mutant of RejectUnknown: the rejection is not counted.
RejectUnknownUncounted(c) ==
    /\ call[c].at = "approved" /\ ~call[c].known
    /\ holder = NoClient
    /\ call' = [call EXCEPT ![c] = Outside]
    /\ UNCHANGED <<bookVars, issued, holder, unbooked, net, totals, flow>>

\* There is no book for the symbol.
RejectUnknown(c) ==
    /\ call[c].at = "approved" /\ ~call[c].known
    /\ holder = NoClient
    /\ call' = [call EXCEPT ![c] = Outside]
    /\ totals' = [totals EXCEPT !.rejects = @ + 1]
    /\ UNCHANGED <<bookVars, issued, holder, unbooked, net, flow>>

\* Mutant of Enter: no lock_guard.
EnterUnlocked(c) ==
    /\ call[c].at = "approved" /\ call[c].known
    /\ holder' = c
    /\ Book!AddOrder(call[c].id, call[c].order)
    /\ call' = [call EXCEPT ![c].at = IF incoming' = NoOrder THEN "booking" ELSE "matching"]
    /\ UNCHANGED <<issued, unbooked, net, totals, flow>>

\* Take mtx_ and call add_order; a FOK order may be over at once.
Enter(c) ==
    /\ call[c].at = "approved" /\ call[c].known
    /\ holder = NoClient
    /\ holder' = c
    /\ Book!AddOrder(call[c].id, call[c].order)
    /\ call' = [call EXCEPT ![c].at = IF incoming' = NoOrder THEN "booking" ELSE "matching"]
    /\ UNCHANGED <<issued, unbooked, net, totals, flow>>

\* One trade, with its callback.
Match(c) ==
    /\ holder = c /\ call[c].at = "matching"
    /\ Book!Fill
    /\ totals' = [totals EXCEPT !.trades = @ + 1]
    /\ flow' = flow + Toward(order[incoming].side, order'[incoming].filled_qty
                                                       - order[incoming].filled_qty)
    /\ UNCHANGED <<issued, call, holder, unbooked, net>>

\* add_order returns its trades.
Return(c) ==
    /\ holder = c /\ call[c].at = "matching"
    /\ Book!EndOfCall
    /\ unbooked' = trades
    /\ call' = [call EXCEPT ![c].at = "booking"]
    /\ UNCHANGED <<issued, holder, net, totals, flow>>

BuyOrder(t) == IF order[t.taker].side = "BUY" THEN t.taker ELSE t.resting

\* Mutant of FillSide: the two sides of the comparison are exchanged.
FillSideOfMaker(t, id) == IF BuyOrder(t) = id THEN "SELL" ELSE "BUY"

FillSide(t, id) == IF BuyOrder(t) = id THEN "BUY" ELSE "SELL"

\* on_fill for the next trade: the incoming order's side of it, and no other.
OnFill(c) ==
    /\ holder = c /\ call[c].at = "booking"
    /\ unbooked # << >>
    /\ net' = net + Toward(FillSide(Head(unbooked), call[c].id), Head(unbooked).qty)
    /\ unbooked' = Tail(unbooked)
    /\ UNCHANGED <<bookVars, issued, call, holder, totals, flow>>

\* Release mtx_ and answer.
Answer(c) ==
    /\ holder = c /\ call[c].at = "booking"
    /\ unbooked = << >>
    /\ holder' = NoClient
    /\ call' = [call EXCEPT ![c] = Outside]
    /\ UNCHANGED <<bookVars, issued, unbooked, net, totals, flow>>
-----------------------------------------------------------------------------
(* cancel_order and modify_order hold mtx_ throughout and touch the book   *)
(* only; the position does not know of them.                               *)

Cancel(id) ==
    /\ holder = NoClient
    /\ Book!CancelOrder(id)
    /\ UNCHANGED <<issued, call, holder, unbooked, net, totals, flow>>

Modify(id, price, qty) ==
    /\ holder = NoClient
    /\ Book!ModifyOrder(id, price, qty)
    /\ UNCHANGED <<issued, call, holder, unbooked, net, totals, flow>>

Proceed(c) ==
    RejectUnknown(c) \/ Enter(c) \/ Match(c) \/ Return(c) \/ OnFill(c) \/ Answer(c)

Next ==
    \/ \E c \in Clients, id \in OrderIds, o \in Requested, known, throttled \in BOOLEAN,
          market \in {0} \cup Prices : Submit(c, id, o, known, market, throttled)
    \/ \E c \in Clients : Proceed(c)
    \/ \E id \in OrderIds : Cancel(id)
    \/ \E id \in OrderIds, price \in Prices, qty \in 1 .. MaxQty : Modify(id, price, qty)

\* A server thread runs its handler to the end.
Spec == Init /\ [][Next]_vars /\ \A c \in Clients : WF_vars(Proceed(c))
-----------------------------------------------------------------------------
\* Types; and whoever is inside add_order, or booking what it returned, is
\* alone there and holds mtx_.
TypeOK ==
    /\ issued \subseteq OrderIds
    /\ holder \in Clients \cup {NoClient}
    /\ \A c \in Clients :
          /\ call[c].at \in {"outside", "approved", "matching", "booking"}
          /\ call[c].at \in {"matching", "booking"} <=> holder = c
          /\ call[c] # Outside => call[c].id \in issued
          /\ call[c].at = "matching" => incoming = call[c].id
    /\ holder = NoClient => incoming = NoOrder /\ unbooked = << >>
    /\ net \in Int /\ flow \in Int
    /\ totals \in [orders : Nat, trades : Nat, rejects : Nat]

Total(ts) == SumFunctionOnSet([i \in DOMAIN ts |-> ts[i].qty], DOMAIN ts)

\* What the client's call may still add to the position on a side.
Outstanding(c, side) ==
    IF call[c] = Outside \/ ~call[c].known \/ call[c].order.side # side THEN 0
    ELSE IF call[c].at = "booking" THEN Total(unbooked)
    ELSE call[c].order.qty

Exposure(side) ==
    Toward(side, net) + SumFunctionOnSet([c \in Clients |-> Outstanding(c, side)], Clients)

\* How far the position check holds when threads race from check_order to
\* on_fill: the position and all that is under way on its side stay within
\* the limit plus one largest order for each thread but one.
ExposureBounded ==
    \A side \in Side :
        Exposure(side) <= RiskLimits.max_position
                              + (Cardinality(Clients) - 1) * RiskLimits.max_order_qty

\* README.md, "Position Limit: |projected_pos| > max_position" is rejected:
\* no approved order takes the position beyond its limit.
PositionWithinLimit == Absolute(net) <= RiskLimits.max_position

\* Every fill of an incoming order reaches the position once, with the right
\* sign, whatever ran between the trade and its booking.
FillsBookedOnce ==
    LET pending == IF holder = NoClient THEN 0
                   ELSE Toward(call[holder].order.side, Total(trades) + Total(unbooked))
    IN  net + pending = flow

\* Each order submitted is rejected, under way or in the order store, once;
\* and nobody sells what nobody buys.
NothingLost ==
    LET Bought(side) == {id \in OrderIds : order[id].side = side}
        Volume(side) == SumFunctionOnSet([id \in Bought(side) |-> order[id].filled_qty],
                                         Bought(side))
    IN  /\ totals.orders = Cardinality(issued)
        /\ totals.orders = totals.rejects
                              + Cardinality({c \in Clients : call[c].at = "approved"})
                              + Cardinality({id \in OrderIds : order[id] # Blank})
        /\ Volume("BUY") = Volume("SELL")

\* Every submit_order call returns.
SubmitReturns == \A c \in Clients : call[c] # Outside ~> call[c] = Outside
=============================================================================
