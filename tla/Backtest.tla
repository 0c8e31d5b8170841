------------------------------- MODULE Backtest ------------------------------
(***************************************************************************)
(* hft::Backtester (src/src/core/simulator.{hpp,cpp}) running one of the   *)
(* three strategies of src/src/strategy/strategy.hpp over the ticks of one *)
(* symbol, in a simulator of its own whose book starts empty.  One thread: *)
(* on_tick asks the strategy for signals, process_signals carries them out *)
(* one by one.  The book is PriceTimePriority, which OrderBook implements. *)
(*                                                                         *)
(* What a strategy computes from its window of prices (a moving average    *)
(* crossover, a z-score) is a reading of the tick, "low", "near" or "high",*)
(* or "none" when it is neither: any reading may come with any price.      *)
(* Whether check_order approves an order (its rate, its notional value) is *)
(* left open.  The statistics of the result are left out.                  *)
(***************************************************************************)
EXTENDS Orders, FiniteSets, Sequences

CONSTANTS
    NoOrder,
    Qty,            \* qty_ of the strategy
    HalfSpread,     \* half the market maker's spread, in ticks
    Window          \* ticks a strategy needs before it trades

ASSUME QtyAssumption == Qty \in 1 .. MaxQty /\ NoOrder \notin OrderIds
ASSUME IdsAssumption == IsFiniteSet(OrderIds)
ASSUME WindowAssumption == HalfSpread \in Nat /\ Window \in Nat \ {0}

VARIABLES
    order, queue,   \* sim_'s book
    strategy,       \* which strategy runs
    seen,           \* ticks in its window, up to Window: prices_, buf_
    engaged,        \* Momentum's long_, MeanReversion's in_trade_
    quotes,         \* MarketMaking's bid_id_ and ask_id_, by side
    signals,        \* the signals process_signals has not carried out yet
    live,           \* keys of live_orders
    issued,         \* ids taken from next_order_id()
    result          \* orders_submitted, orders_rejected, orders_filled

vars == <<order, queue, strategy, seen, engaged, quotes, signals, live, issued, result>>

Book == INSTANCE PriceTimePriority

Strategies == {"MarketMaking", "Momentum", "MeanReversion"}
Readings == {"low", "near", "high", "none"}

NoQuotes == [s \in Side |-> NoOrder]

Init ==
    /\ Book!Init
    /\ strategy \in Strategies
    /\ seen = 0 /\ engaged = FALSE
    /\ quotes = NoQuotes
    /\ signals = << >> /\ live = {} /\ issued = {}
    /\ result = [submitted |-> 0, rejected |-> 0, filled |-> 0]
-----------------------------------------------------------------------------
(* The strategies' on_tick.                                                *)

Place(side, type, price) == [action |-> side, type |-> type, price |-> price]
CancelAll == [action |-> "CANCEL_ALL"]
Cancel(id) == [action |-> "CANCEL", id |-> id]

Quoted(side) == {p \in Prices : queue[side][p] # << >>}
OneSided == \E s \in Side : Quoted(s) = {}
Best(side) == CHOOSE p \in Quoted(side) : \A q \in Quoted(side) : ~Better(side, q, p)

\* snapshot.mid()
Mid == IF OneSided THEN 0 ELSE (Best("BUY") + Best("SELL")) \div 2

\* MarketMaking, in a two-sided book only, cancels what it has quoted and
\* quotes again around the mid price.
MakerSignals ==
    IF OneSided THEN << >>
    ELSE LET outstanding == SelectSeq(<<quotes["BUY"], quotes["SELL"]>>, LAMBDA id : id # NoOrder)
         IN  [i \in DOMAIN outstanding |-> Cancel(outstanding[i])]
                 \o << Place("BUY", "LIMIT", Mid - HalfSpread),
                       Place("SELL", "LIMIT", Mid + HalfSpread) >>

\* Momentum buys at the market on an upward crossover, and sells when it turns.
MomentumSignals(reading) ==
    CASE reading = "high" /\ ~engaged -> << Place("BUY", "MARKET", 0) >>
      [] reading = "low" /\ engaged -> << Place("SELL", "MARKET", 0) >>
      [] OTHER -> << >>

\* Mutant of ReversionSignals: in_trade_ is not tested before an entry.
ReversionSignalsAgain(reading, bid, ask) ==
    CASE reading = "low" -> << Place("BUY", "LIMIT", ask) >>
      [] reading = "high" -> << Place("SELL", "LIMIT", bid) >>
      [] reading = "near" /\ engaged -> << CancelAll >>
      [] OTHER -> << >>

\* MeanReversion enters at the touch and leaves by cancelling everything.
ReversionSignals(reading, bid, ask) ==
    CASE reading = "low" /\ ~engaged -> << Place("BUY", "LIMIT", ask) >>
      [] reading = "high" /\ ~engaged -> << Place("SELL", "LIMIT", bid) >>
      [] reading = "near" /\ engaged -> << CancelAll >>
      [] OTHER -> << >>

\* Mutant of Buffered: pop_front forgotten.
BufferedWhole(n) == n + 1

\* push_back, and pop_front when the window is full (Momentum's is longer than
\* what it needs to trade).
Buffered(n) == IF n < Window THEN n + 1 ELSE n

SignalsOf(n, reading, bid, ask) ==
    CASE strategy = "MarketMaking" -> MakerSignals
      [] strategy = "Momentum" ->
             IF n < Window THEN << >> ELSE MomentumSignals(reading)
      [] strategy = "MeanReversion" ->
             IF n < Window THEN << >> ELSE ReversionSignals(reading, bid, ask)

\* Each signal of Momentum and MeanReversion turns its flag over; the market
\* maker forgets the quotes it cancels.
Tick(reading, bid, ask) ==
    /\ signals = << >>
    /\ bid <= ask
    /\ seen' = IF strategy = "MarketMaking" THEN seen ELSE Buffered(seen)
    /\ signals' = SignalsOf(seen', reading, bid, ask)
    /\ IF strategy = "MarketMaking"
       THEN /\ quotes' = IF signals' = << >> THEN quotes ELSE NoQuotes
            /\ UNCHANGED engaged
       ELSE /\ engaged' = IF signals' = << >> THEN engaged ELSE ~engaged
            /\ UNCHANGED quotes
    /\ UNCHANGED <<order, queue, strategy, live, issued, result>>
-----------------------------------------------------------------------------
(* process_signals.                                                        *)

Signal == Head(signals)

\* The order process_signals builds, keeps, and looks at again afterwards:
\* submit_order matches a copy of it.
Built == [side |-> Signal.action, type |-> Signal.type, price |-> Signal.price,
          qty |-> Qty, filled_qty |-> 0, status |-> "PENDING"]

\* Mutant of Tracked: the test is inverted.
TrackedWhenDone(id) == IF IsDone(Built) THEN live \cup {id} ELSE live

Tracked(id) == IF ~IsDone(Built) THEN live \cup {id} ELSE live

\* MarketMaking's on_order_update; the other strategies have none.
Updated(id) ==
    CASE strategy = "MarketMaking" /\ Built.status \in Done ->
             [s \in Side |-> IF quotes[s] = id THEN NoOrder ELSE quotes[s]]
      [] strategy = "MarketMaking" /\ Built.status = "NEW" ->
             [quotes EXCEPT ![Built.side] = id]
      [] OTHER -> quotes

\* A BUY or SELL signal: submit_order rejects the order, or matches it.
Submit(id, approved) ==
    /\ signals # << >> /\ Signal.action \in Side
    /\ id \notin issued
    /\ issued' = issued \cup {id}
    /\ IF approved
       THEN LET entered == [order EXCEPT ![id] = [Built EXCEPT !.status = "NEW"]]
                after == Book!MatchedOrders(entered, queue, id)
                met == {y \in OrderIds \ {id} : after[y] # entered[y]}
            IN  /\ order' = after
                /\ queue' = Book!MatchedQueue(entered, queue, id)
                /\ live' = Tracked(id)
                /\ quotes' = Updated(id)
                /\ result' = [result EXCEPT !.submitted = @ + 1, !.filled = @ + Cardinality(met)]
       ELSE /\ result' = [result EXCEPT !.submitted = @ + 1, !.rejected = @ + 1]
            /\ UNCHANGED <<order, queue, live, quotes>>
    /\ signals' = Tail(signals)
    /\ UNCHANGED <<strategy, seen, engaged>>

\* The orders a CANCEL or a CANCEL_ALL signal still has to cancel.
Targets == IF Signal.action = "CANCEL" THEN {Signal.id} ELSE live

\* Mutant of Withdraw: live_orders is cleared, and nothing is cancelled.
WithdrawForgetting ==
    /\ signals # << >> /\ Signal.action \in {"CANCEL", "CANCEL_ALL"}
    /\ live' = live \ Targets
    /\ signals' = Tail(signals)
    /\ UNCHANGED <<order, queue, strategy, seen, engaged, quotes, issued, result>>

\* Cancel the targets, in the hash table's order; one that is not in the book
\* is only forgotten.
Withdraw ==
    /\ signals # << >> /\ Signal.action \in {"CANCEL", "CANCEL_ALL"}
    /\ \/ \E id \in Targets : Book!Cancel(id) /\ live' = live \ {id} /\ UNCHANGED signals
       \/ /\ \A id \in Targets : ~Book!Resting(id)
          /\ live' = live \ Targets
          /\ signals' = Tail(signals)
          /\ UNCHANGED <<order, queue>>
    /\ UNCHANGED <<strategy, seen, engaged, quotes, issued, result>>

Next ==
    \/ \E reading \in Readings, bid, ask \in Prices : Tick(reading, bid, ask)
    \/ \E id \in OrderIds, approved \in BOOLEAN : Submit(id, approved)
    \/ Withdraw

Spec == Init /\ [][Next]_vars
-----------------------------------------------------------------------------
\* Types; the window is bounded and every tracked order was submitted.
TypeOK ==
    /\ strategy \in Strategies
    /\ seen \in 0 .. Window /\ engaged \in BOOLEAN
    /\ quotes \in [Side -> OrderIds \cup {NoOrder}]
    /\ Len(signals) <= 4
    /\ issued \subseteq OrderIds
    /\ live \subseteq {id \in issued : order[id] # Blank}
    /\ result \in [submitted : Nat, rejected : Nat, filled : Nat]
    /\ result.submitted = Cardinality(issued)
    /\ result.submitted = result.rejected + Cardinality({id \in OrderIds : order[id] # Blank})

\* No backtest trades, with any strategy and any ticks: the simulator has no
\* other participant, so an order could only meet one of the strategy's own,
\* and MeanReversion never has two in the book on different sides
\* (Backtester::run, process_signals, the strategies' on_tick).
NeverTrades == result.filled = 0 /\ \A id \in OrderIds : order[id].filled_qty = 0

\* Every order resting in the book is in live_orders, although nothing tells
\* process_signals what became of an order: CANCEL_ALL reaches them all.
LiveCoversBook == \A id \in OrderIds : Book!Resting(id) => id \in live

\* When MeanReversion believes to be out of its trade, nothing of it is left in the
\* book to be filled behind its back.
OutMeansOut ==
    strategy = "MeanReversion" /\ ~engaged /\ signals = << >> =>
        \A id \in OrderIds : ~Book!Resting(id)

NoQueues == [s \in Side |-> [p \in Prices |-> << >>]]

\* The book holds the order id and nothing else.
Alone(id) ==
    queue = [s \in Side |-> [p \in Prices |->
                IF s = order[id].side /\ p = order[id].price THEN << id >> ELSE << >>]]

\* The book of MeanReversion holds one order at most, those of the others none.
OneAtMost ==
    \/ queue = NoQueues
    \/ strategy = "MeanReversion" /\ \E id \in live : order[id].price \in Prices /\ Alone(id)

\* What a strategy may ask for: an entry only into an empty book, and a
\* MeanReversion that is out has only its cancellations to come.
SignalsFit ==
    \/ signals = << >> /\ (~engaged => queue = NoQueues)
    \/ /\ strategy = "Momentum"
       /\ \E side \in Side : signals = << Place(side, "MARKET", 0) >>
    \/ /\ strategy = "MeanReversion" /\ engaged /\ queue = NoQueues
       /\ \E side \in Side, price \in Prices : signals = << Place(side, "LIMIT", price) >>
    \/ strategy = "MeanReversion" /\ ~engaged /\ signals = << CancelAll >>

\* An order exists once its id was taken.
OrdersFit ==
    /\ order \in [OrderIds -> [side : Side, type : OrderType, price : Prices \cup {0},
                                qty : 0 .. MaxQty, filled_qty : {0}, status : OrderStatus]]
    /\ \A id \in OrderIds : order[id].status = "PENDING" => order[id] = Blank
    /\ \A id \in OrderIds : order[id] # Blank => id \in issued

\* The inductive invariant of the proofs.
BInv == TypeOK /\ NeverTrades /\ OrdersFit /\ OneAtMost /\ SignalsFit
=============================================================================
