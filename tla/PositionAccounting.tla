------------------------- MODULE PositionAccounting -------------------------
(***************************************************************************)
(* The profit and loss bookkeeping of hft::RiskManager for one symbol:     *)
(* on_fill and update_market_price (src/src/risk/risk_manager.cpp).  Each  *)
(* runs under the risk manager's mutex, so each is one step.  The books of *)
(* two symbols share nothing.  The names of the specification are its own, *)
(* so that a module can extend it and RateLimiter, the class's other half. *)
(***************************************************************************)
EXTENDS Ratios, Sequences

CONSTANTS
    FillPrices,     \* prices of fills and of market data
    FillQtys,       \* quantities of fills
    MaxFills,       \* bound: fills in a behaviour
    MaxMarks        \* bound: market data updates in a behaviour

ASSUME FillsAssumption == FillPrices \subseteq Nat \ {0} /\ FillQtys \subseteq Nat \ {0}
ASSUME AccountsBounds == MaxFills \in Nat /\ MaxMarks \in Nat

VARIABLES
    position,   \* positions_[symbol]
    market,     \* market_prices_[symbol]; 0 when there is none yet
    fills,      \* fills so far
    marks,      \* market data updates so far
    cash,       \* history: what sales brought in less what purchases cost
    mark        \* history: the price the position should be valued at

accounts == <<position, market, fills, marks, cash, mark>>

Sign(n) == IF n < 0 THEN -1 ELSE IF n > 0 THEN 1 ELSE 0
Signed(side, qty) == IF side = "BUY" THEN qty ELSE -qty

Flat == [net_qty |-> 0, avg_price |-> Whole(0),
         realized_pnl |-> Whole(0), unrealized_pnl |-> Whole(0)]

AccountsInit ==
    /\ position = Flat
    /\ market = 0 /\ mark = 0
    /\ fills = 0 /\ marks = 0 /\ cash = 0

\* A fill on the side of the position, or from flat, averages into the price.
Adding(pos, side) == Sign(pos.net_qty) \in {0, Signed(side, 1)}

Increased(pos, side, qty, px) ==
    LET net == pos.net_qty + Signed(side, qty)
        cost == Plus(Times(pos.avg_price, Magnitude(pos.net_qty)), Whole(px * qty))
    IN  [pos EXCEPT !.net_qty = net, !.avg_price = Over(cost, Magnitude(net))]

\* Mutant of Reduced: a position that flips keeps its old price.
ReducedKeepingPrice(pos, side, qty, px) ==
    LET closing == Min({qty, Magnitude(pos.net_qty)})
        net == pos.net_qty + Signed(side, qty)
        gain == Times(Minus(Whole(px), pos.avg_price), closing * Sign(pos.net_qty))
    IN  [pos EXCEPT !.net_qty = net,
                    !.realized_pnl = Plus(@, gain),
                    !.avg_price = IF net = 0 THEN Whole(0) ELSE @]

\* A fill against the position realizes on the part it closes; what is left
\* of it opens a position the other way round at the fill's price.
Reduced(pos, side, qty, px) ==
    LET closing == Min({qty, Magnitude(pos.net_qty)})
        net == pos.net_qty + Signed(side, qty)
        gain == Times(Minus(Whole(px), pos.avg_price), closing * Sign(pos.net_qty))
    IN  [pos EXCEPT !.net_qty = net,
                    !.realized_pnl = Plus(@, gain),
                    !.avg_price = IF net = 0 THEN Whole(0)
                                  ELSE IF qty > closing THEN Whole(px) ELSE @]

\* Mutant of Valued: the value of a closed position is left as it was.
ValuedWhenOpen(pos, px) ==
    IF pos.net_qty = 0 THEN pos
    ELSE [pos EXCEPT !.unrealized_pnl = Times(Minus(Whole(px), pos.avg_price), pos.net_qty)]

Valued(pos, px) ==
    [pos EXCEPT !.unrealized_pnl =
        IF pos.net_qty = 0 THEN Whole(0)
        ELSE Times(Minus(Whole(px), pos.avg_price), pos.net_qty)]

OnFill(side, qty, px) ==
    /\ fills < MaxFills
    /\ LET moved == IF Adding(position, side) THEN Increased(position, side, qty, px)
                                              ELSE Reduced(position, side, qty, px)
       IN  position' = Valued(moved, IF market # 0 THEN market ELSE px)
    /\ fills' = fills + 1
    /\ cash' = cash - Signed(side, qty) * px
    /\ mark' = IF market # 0 THEN market ELSE px
    /\ UNCHANGED <<market, marks>>

\* positions_ has no entry before the first fill, but valuing a flat
\* position changes nothing.
UpdateMarketPrice(px) ==
    /\ marks < MaxMarks
    /\ market' = px
    /\ position' = Valued(position, px)
    /\ marks' = marks + 1
    /\ mark' = px
    /\ UNCHANGED <<fills, cash>>

AccountsNext ==
    \/ \E side \in {"BUY", "SELL"}, qty \in FillQtys, px \in FillPrices : OnFill(side, qty, px)
    \/ \E px \in FillPrices : UpdateMarketPrice(px)

AccountsSpec == AccountsInit /\ [][AccountsNext]_accounts
-----------------------------------------------------------------------------
\* The realized profit is exactly the money that changed hands, with the open
\* position carried at its average price: no fill sequence, with any mix of
\* adding, closing and flipping, creates or loses money (on_fill).
RealizedIsCashFlow ==
    position.realized_pnl = Plus(Whole(cash), Times(position.avg_price, position.net_qty))

\* realized + unrealized, which total_pnl reports, is what selling out at the
\* latest price would leave, whichever of on_fill and update_market_price
\* came last.
PnlIsMarkToMarket ==
    Plus(position.realized_pnl, position.unrealized_pnl) = Whole(cash + mark * position.net_qty)
=============================================================================
