---------------------------- MODULE EngineSession ---------------------------
(***************************************************************************)
(* The commands of src/src/engine_cli.cpp over its globals: the simulator, *)
(* g_limits, the tick feed and the two logs.  One thread reads a line,     *)
(* carries it out and prints the reply, so a command is one step.  A       *)
(* session lasts until `reset`, which replaces the simulator: its order    *)
(* ids start again.                                                        *)
(*                                                                         *)
(* Each symbol has queues of its own, in which an order is matched in one  *)
(* step (Matching: what PriceTimePriority promises of a book); ids, risk   *)
(* limits and counters are shared.  There is no command that amends an     *)
(* order.  Commands that only print, and `backtest`, which has a simulator *)
(* of its own, change nothing here.                                        *)
(***************************************************************************)
EXTENDS Matching, RiskChecks

CONSTANTS
    Symbols,        \* the symbols init_sim adds
    Unlisted,       \* any other symbol
    Inputs,         \* the orders that `order` commands ask for
    DefaultLimits,  \* g_limits as main sets them
    LimitInputs,    \* bodies of risk_limits: a number for each field, or Bad
    Bad,            \* a field that does not parse
    Feed,           \* g_tick_feed: the symbol and last_price of each tick
    StepInputs,     \* the n of feed_step commands
    MaxStep,        \* 200: ticks of a feed_step at most
    MaxLog          \* 500: entries of a log at most

ASSUME IdsAssumption == IsFiniteSet(OrderIds) /\ OrderIds = 1 .. Cardinality(OrderIds)
ASSUME SymbolsAssumption == Unlisted \notin Symbols
\* Of the requests, those with a quantity of 0 or less do not reach a book.
ASSUME InputsAssumption ==
    Inputs \subseteq [side : Side, type : OrderType, price : Prices \cup {0}, qty : Int,
                      filled_qty : {0}, status : {"PENDING"}]
ASSUME FeedAssumption == /\ Feed \in Seq([symbol : Symbols, last_price : Int]) /\ Len(Feed) > 0
                         /\ StepInputs \subseteq Int
                         /\ MaxStep \in Nat \ {0} /\ MaxLog \in Nat \ {0}
ASSUME LimitsAssumption ==
    /\ DefaultLimits \in Limits
    /\ \A body \in LimitInputs :
          \A f \in {"max_order_qty", "max_position", "max_notional", "max_orders_per_sec"} : body[f] \in Int \cup {Bad}

VARIABLES
    g_sim,      \* the simulator, see Fresh
    g_limits, g_feed_idx, g_trade_log, g_order_log,
    reply,      \* what the last command printed
    agreed,     \* history: the limits of the last risk_limits that answered ok
    mixed,      \* history: the session started with limits that nobody agreed to
    loosest,    \* history: the largest max_position in force in the session
    lapped      \* history: the feed has wrapped around in the session

vars == <<g_sim, g_limits, g_feed_idx, g_trade_log, g_order_log,
          reply, agreed, mixed, loosest, lapped>>

NoReply == [to |-> "other"]

\* init_sim: a simulator with the limits of g_limits, its books empty.
Fresh(lim) ==
    [limits  |-> lim,                           \* risk_.limits_
     last_id |-> 0,                             \* next_oid_, counted from 1000
     order   |-> [id \in OrderIds |-> Blank],   \* order_store_
     queue   |-> [s \in Symbols |-> NoQueues],  \* books_
     traded  |-> [s \in Symbols |-> 0],         \* each book's next_trade_id_ - 1
     net     |-> [s \in Symbols |-> 0],         \* positions_[symbol].net_qty
     totals  |-> [orders |-> 0, trades |-> 0, rejects |-> 0],
     marks   |-> [s \in Symbols |-> 0]]         \* market_prices_, 0 for none

Init ==
    /\ g_sim = Fresh(DefaultLimits)
    /\ g_limits = DefaultLimits /\ agreed = DefaultLimits
    /\ g_feed_idx = 0 /\ lapped = FALSE
    /\ g_trade_log = << >> /\ g_order_log = << >>
    /\ reply = NoReply
    /\ mixed = FALSE /\ loosest = DefaultLimits.max_position
-----------------------------------------------------------------------------
(* order.                                                                  *)

\* Mutant of Logged: the oldest entry stays in a full log.
LoggedFirst(log, entries) ==
    LET all == log \o entries IN SubSeq(all, 1, Min({MaxLog, Len(all)}))

\* push_back, and pop_front from a log that is too long, for each entry.
Logged(log, entries) ==
    LET all == log \o entries IN SubSeq(all, Max({1, Len(all) - MaxLog + 1}), Len(all))

Toward(side, qty) == IF side = "BUY" THEN qty ELSE -qty

\* The resting orders that trade, best first.
Makers(s, before, after, id) ==
    LET ids == {y \in OrderIds \ {id} : after[y] # before[y]}
    IN  CHOOSE r \in [1 .. Cardinality(ids) -> ids] :
            \A i, j \in DOMAIN r : i < j => Precedes(before, g_sim.queue[s], r[i], r[j])

Trades(s, before, after, id) ==
    LET makers == Makers(s, before, after, id)
    IN  [i \in DOMAIN makers |->
            [symbol |-> s, trade_id |-> g_sim.traded[s] + i, maker |-> makers[i],
             qty |-> after[makers[i]].filled_qty - before[makers[i]].filled_qty]]

Volume(trades) == SumFunction([i \in DOMAIN trades |-> trades[i].qty])

Entry(id, o) == [id |-> id, filled_qty |-> o.filled_qty, status |-> o.status]

\* What the order callback is given: the new order; after each trade its two
\* orders; and the order once more if what is left of it is not kept.
Updates(trades, before, after, id) ==
    LET filled == [i \in DOMAIN trades |-> Volume(SubSeq(trades, 1, i))]
        taker == [i \in DOMAIN trades |->
                    [id |-> id, filled_qty |-> filled[i],
                     status |-> IF filled[i] = before[id].qty THEN "FILLED" ELSE "PARTIALLY_FILLED"]]
        maker == [i \in DOMAIN trades |-> Entry(trades[i].maker, after[trades[i].maker])]
    IN  <<Entry(id, before[id])>>
            \o [i \in 1 .. 2 * Len(trades) |->
                   IF i % 2 = 1 THEN maker[(i + 1) \div 2] ELSE taker[i \div 2]]
            \o IF after[id].status \in {"CANCELLED", "EXPIRED"} THEN <<Entry(id, after[id])>> ELSE << >>

\* The reply prints the order the handler built, not the copy that was matched.
Shown(o, id) == [id |-> id, filled_qty |-> 0, status |-> "PENDING"]

\* submit_order turns the order down; it is counted, and forgotten.
Reject(s, o, market, throttled) ==
    LET id == g_sim.last_id + 1
    IN  /\ id \in OrderIds
        /\ \/ s = Unlisted \/ throttled
           \/ s \in Symbols /\ Objection(g_sim.limits, o, market, g_sim.net[s]) # "NONE"
        /\ g_sim' = [g_sim EXCEPT !.last_id = id, !.totals.orders = @ + 1, !.totals.rejects = @ + 1]
        /\ reply' = [to |-> "order", approved |-> FALSE, order |-> Shown(o, id), qty |-> 0]
        /\ UNCHANGED <<g_limits, g_feed_idx, g_trade_log, g_order_log, agreed, mixed, loosest, lapped>>

\* submit_order matches the order and books what it traded.
Accept(s, o, market) ==
    LET id == g_sim.last_id + 1
        before == [g_sim.order EXCEPT ![id] = [o EXCEPT !.status = "NEW"]]
        after == MatchedOrders(before, g_sim.queue[s], id)
        trades == Trades(s, before, after, id)
    IN  /\ id \in OrderIds
        /\ Objection(g_sim.limits, o, market, g_sim.net[s]) = "NONE"
        /\ g_sim' = [g_sim EXCEPT !.last_id = id, !.order = after,
                        !.queue[s] = MatchedQueue(before, @, id),
                        !.traded[s] = @ + Len(trades),
                        !.net[s] = @ + Toward(o.side, Volume(trades)),
                        !.totals.orders = @ + 1, !.totals.trades = @ + Len(trades)]
        /\ g_trade_log' = Logged(g_trade_log, trades)
        /\ g_order_log' = Logged(g_order_log, Updates(trades, before, after, id))
        /\ reply' = [to |-> "order", approved |-> TRUE, order |-> Shown(o, id), qty |-> Volume(trades)]
        /\ UNCHANGED <<g_limits, g_feed_idx, agreed, mixed, loosest, lapped>>

\* The price or the quantity does not parse: the id is used up all the same.
OrderUnreadable ==
    /\ g_sim.last_id + 1 \in OrderIds
    /\ g_sim' = [g_sim EXCEPT !.last_id = @ + 1]
    /\ reply' = NoReply
    /\ UNCHANGED <<g_limits, g_feed_idx, g_trade_log, g_order_log, agreed, mixed, loosest, lapped>>
-----------------------------------------------------------------------------
(* cancel.                                                                 *)

Resting(s, id) == s \in Symbols /\ Queued(g_sim.order, g_sim.queue[s], id)

\* Mutant of Cancel: the order is looked up without its symbol, and then taken
\* off the queue of the symbol given.
CancelAnySymbol(s, id) ==
    /\ IF \E t \in Symbols : Resting(t, id)
       THEN g_sim' = [g_sim EXCEPT !.order[id].status = "CANCELLED",
                                   !.queue = [t \in Symbols |-> IF t = s THEN Unqueued(@[s], id) ELSE @[t]]]
       ELSE UNCHANGED g_sim
    /\ g_order_log' = IF g_sim' = g_sim THEN g_order_log
                      ELSE Logged(g_order_log, <<Entry(id, g_sim'.order[id])>>)
    /\ reply' = [to |-> "cancel", id |-> id, cancelled |-> g_sim' # g_sim]
    /\ UNCHANGED <<g_limits, g_feed_idx, g_trade_log, agreed, mixed, loosest, lapped>>

\* An order of this session that rests in the book of that symbol.
Cancel(s, id) ==
    /\ IF Resting(s, id)
       THEN /\ g_sim' = [g_sim EXCEPT !.order[id].status = "CANCELLED",
                                      !.queue[s] = Unqueued(@, id)]
            /\ g_order_log' = Logged(g_order_log, <<Entry(id, g_sim'.order[id])>>)
       ELSE UNCHANGED <<g_sim, g_order_log>>
    /\ reply' = [to |-> "cancel", id |-> id, cancelled |-> Resting(s, id)]
    /\ UNCHANGED <<g_limits, g_feed_idx, g_trade_log, agreed, mixed, loosest, lapped>>
-----------------------------------------------------------------------------
(* feed_step.                                                              *)

\* Mutant of At: the index is one too far when the feed starts again.
AtSecond(i) == IF i < Len(Feed) THEN i + 1 ELSE ((i + 1) % Len(Feed)) + 1

\* The tick that the i-th turn of the loop takes: the feed starts again when
\* its end is reached.
At(i) == (i % Len(Feed)) + 1

\* The prices after the ticks of the given turns.
Marked(turns) ==
    [s \in Symbols |->
        LET own == {i \in turns : Feed[At(i)].symbol = s}
        IN  IF own = {} THEN g_sim.marks[s] ELSE Feed[At(Max(own))].last_price]

\* Each tick goes through the simulator's on_tick; the index may be left at
\* the feed's size.
FeedStep(n) ==
    LET count == Max({1, Min({n, MaxStep})})
        turns == g_feed_idx .. g_feed_idx + count - 1
    IN  /\ g_sim' = [g_sim EXCEPT !.marks = Marked(turns)]
        /\ g_feed_idx' = At(g_feed_idx + count - 1)
        /\ lapped' = (lapped \/ g_feed_idx + count > Len(Feed))
        /\ reply' = NoReply
        /\ UNCHANGED <<g_limits, g_trade_log, g_order_log, agreed, mixed, loosest>>
-----------------------------------------------------------------------------
(* risk_limits and reset.                                                  *)

Fields == <<"max_order_qty", "max_position", "max_notional", "max_orders_per_sec">>

\* g_limits is assigned field by field, up to the first that does not parse.
Assigned(body) ==
    [f \in DOMAIN g_limits |->
        IF \E i \in DOMAIN Fields : Fields[i] = f /\ \A j \in 1 .. i : body[Fields[j]] # Bad
        THEN body[f] ELSE g_limits[f]]

\* Mutant of SetLimits: the simulator is told whatever was parsed.
SetLimitsAnyway(body) ==
    LET ok == \A i \in DOMAIN Fields : body[Fields[i]] # Bad
    IN  /\ g_limits' = Assigned(body)
        /\ g_sim' = [g_sim EXCEPT !.limits = g_limits']
        /\ agreed' = IF ok THEN g_limits' ELSE agreed
        /\ mixed' = IF ok THEN FALSE ELSE mixed
        /\ loosest' = Max({loosest, g_sim'.limits.max_position})
        /\ reply' = NoReply
        /\ UNCHANGED <<g_feed_idx, g_trade_log, g_order_log, lapped>>

\* risk_limits: the running simulator is told only when all has been parsed.
SetLimits(body) ==
    LET ok == \A i \in DOMAIN Fields : body[Fields[i]] # Bad
    IN  /\ g_limits' = Assigned(body)
        /\ g_sim' = IF ok THEN [g_sim EXCEPT !.limits = g_limits'] ELSE g_sim
        /\ agreed' = IF ok THEN g_limits' ELSE agreed
        /\ mixed' = IF ok THEN FALSE ELSE mixed
        /\ loosest' = Max({loosest, g_sim'.limits.max_position})
        /\ reply' = NoReply
        /\ UNCHANGED <<g_feed_idx, g_trade_log, g_order_log, lapped>>

\* reset: clear the logs, init_sim, init_feed.  g_limits stays.
Reset ==
    /\ g_sim' = Fresh(g_limits)
    /\ g_trade_log' = << >> /\ g_order_log' = << >>
    /\ g_feed_idx' = 0 /\ lapped' = FALSE
    /\ mixed' = (g_limits # agreed)
    /\ loosest' = g_limits.max_position
    /\ reply' = NoReply
    /\ UNCHANGED <<g_limits, agreed>>

Next ==
    \/ \E s \in Symbols \cup {Unlisted}, o \in Inputs, market \in {0} \cup Prices,
          throttled \in BOOLEAN : Reject(s, o, market, throttled)
    \/ \E s \in Symbols, o \in Inputs, market \in {0} \cup Prices : Accept(s, o, market)
    \/ OrderUnreadable
    \/ \E s \in Symbols \cup {Unlisted}, id \in OrderIds : Cancel(s, id)
    \/ \E n \in StepInputs : FeedStep(n)
    \/ \E body \in LimitInputs : SetLimits(body)
    \/ Reset

Spec == Init /\ [][Next]_vars
-----------------------------------------------------------------------------
(* Properties.                                                             *)

Later(log, i) == {j \in DOMAIN log : j > i}

\* What `trades` and `orders` answer is the end of this session's history: the
\* trade log holds the newest trades, without a gap in any book's trade ids,
\* and the newest entry of an order is the order as it is now.  Nothing of
\* the session before a reset is left, although its order ids come again.
LogsAreRecent ==
    /\ Len(g_trade_log) = Min({g_sim.totals.trades, MaxLog})
    /\ \A i \in DOMAIN g_trade_log :
          LET t == g_trade_log[i]
          IN  t.trade_id = g_sim.traded[t.symbol]
                 - Cardinality({j \in Later(g_trade_log, i) : g_trade_log[j].symbol = t.symbol})
    /\ \A i \in DOMAIN g_order_log :
          LET e == g_order_log[i]
          IN  (\A j \in Later(g_order_log, i) : g_order_log[j].id # e.id)
                 => e = Entry(e.id, g_sim.order[e.id])

\* One command at a time, the position stays within the limits that were in
\* force (the HTTP server, whose orders overlap, cannot promise it): an order
\* is checked as if it filled whole, and what rests changes no position.
PositionWithinLimits == \A s \in Symbols : Absolute(g_sim.net[s]) <= loosest

\* The simulator's limits are those of the last risk_limits that answered ok.
\* The only exception is a session that started after a refused risk_limits:
\* reset applies the fields that were assigned before the bad one.
LimitsExplained == g_sim.limits = agreed \/ mixed

\* A symbol's market price is its last tick before the feed index, or, once
\* the feed has started again, its last tick of the lap before.
MarksFollowFeed ==
    \A s \in Symbols :
        LET ticks(n) == {i \in 1 .. n : Feed[i].symbol = s}
            seen == IF ticks(g_feed_idx) = {} /\ lapped THEN ticks(Len(Feed)) ELSE ticks(g_feed_idx)
        IN  g_sim.marks[s] = IF seen = {} THEN 0 ELSE Feed[Max(seen)].last_price

\* The trades of a reply add up to what the order has been filled, and an
\* order reported as cancelled is, and rests in no book.
RepliesTruthful ==
    /\ reply.to = "order" /\ reply.approved => reply.qty = g_sim.order[reply.order.id].filled_qty
    /\ reply.to = "cancel" /\ reply.cancelled =>
          /\ g_sim.order[reply.id].status = "CANCELLED"
          /\ \A s \in Symbols : ~Resting(s, reply.id)
=============================================================================
