----------------------------- MODULE OrderBook ------------------------------
(***************************************************************************)
(* hft::OrderBook (src/src/core/order_book.{hpp,cpp}): the limit order     *)
(* book of one symbol.  add_order is split into its loop iterations, one   *)
(* Fill per make_trade, so that the book between two trades of a sweep is  *)
(* a state of the model.  (The callbacks inside an iteration run before    *)
(* total_qty is lowered and the filled order popped; this program's        *)
(* callbacks do not read the book.)  No other call starts in between: the  *)
(* owner (ExchangeSimulator) holds its mutex, or the process has one       *)
(* thread.                                                                 *)
(*                                                                         *)
(* The caller's part of the contract is in the inputs: ids are never       *)
(* reused (next_order_id) and quantities are positive (check_order).       *)
(***************************************************************************)
EXTENDS Orders, SequencesExt

CONSTANT NoOrder    \* no add_order call is running

ASSUME NoOrderAssumption == NoOrder \notin OrderIds

VARIABLES
    order,      \* the Order objects, by id; Blank when not submitted yet
    book,       \* bids_ and asks_: side -> price -> PriceLevel
    orders,     \* the keys of the orders_ index
    incoming,   \* the order add_order is matching, or NoOrder
    trades,     \* the trades of the running add_order call, in order
    notified,   \* what order_cb_ was last told about each order
    amended     \* history: ids modify_order was applied to

vars == <<order, book, orders, incoming, trades, notified, amended>>

Level == [orders : Seq(OrderIds), total_qty : Int]
EmptyLevel == [orders |-> <<>>, total_qty |-> 0]
Notice(o) == [status |-> o.status, filled_qty |-> o.filled_qty]

Init ==
    /\ order = [id \in OrderIds |-> Blank]
    /\ book = [s \in Side |-> << >>]
    /\ orders = {}
    /\ incoming = NoOrder
    /\ trades = << >>
    /\ notified = [id \in OrderIds |-> Notice(Blank)]
    /\ amended = {}
-----------------------------------------------------------------------------
(* Price levels.                                                           *)

\* Store a level under its price, or erase the key when the level is empty.
SetLevel(b, side, p, level) ==
    [b EXCEPT ![side] =
        IF level.orders = << >> THEN Restrict(@, DOMAIN @ \ {p})
        ELSE [q \in DOMAIN @ \cup {p} |-> IF q = p THEN level ELSE @[q]]]

\* Mutant of AddToBook: push_front instead of push_back.
AddToBookFront(b, id, o) ==
    LET level == IF o.price \in DOMAIN b[o.side] THEN b[o.side][o.price] ELSE EmptyLevel
    IN  SetLevel(b, o.side, o.price,
                 [orders |-> << id >> \o level.orders,
                  total_qty |-> level.total_qty + Remaining(o)])

AddToBook(b, id, o) ==
    LET level == IF o.price \in DOMAIN b[o.side] THEN b[o.side][o.price] ELSE EmptyLevel
    IN  SetLevel(b, o.side, o.price,
                 [orders |-> Append(level.orders, id),
                  total_qty |-> level.total_qty + Remaining(o)])

Position(queue, id) == CHOOSE i \in DOMAIN queue : queue[i] = id

\* Mutant of RemoveFromBook: the original quantity is taken off the total.
RemoveFromBookWhole(b, id, o) ==
    IF o.price \notin DOMAIN b[o.side] THEN b
    ELSE LET level == b[o.side][o.price]
         IN  SetLevel(b, o.side, o.price,
                      [orders |-> RemoveAt(level.orders, Position(level.orders, id)),
                       total_qty |-> level.total_qty - o.qty])

RemoveFromBook(b, id, o) ==
    IF o.price \notin DOMAIN b[o.side] THEN b
    ELSE LET level == b[o.side][o.price]
         IN  SetLevel(b, o.side, o.price,
                      [orders |-> RemoveAt(level.orders, Position(level.orders, id)),
                       total_qty |-> level.total_qty - Remaining(o)])

\* Mutant of Requeued: the price is changed before the order is removed.
RequeuedLate(b, id, o, moved) == AddToBook(RemoveFromBook(b, id, moved), id, moved)

\* modify_order's two calls: o leaves its level, then moved joins one.
Requeued(b, id, o, moved) == AddToBook(RemoveFromBook(b, id, o), id, moved)

\* Mutant of IsBest: asks_.begin() and bids_.rbegin() exchanged.
IsWorst(side, p) ==
    p \in DOMAIN book[side] /\ \A q \in DOMAIN book[side] : ~Better(side, p, q)

IsBest(side, p) ==
    p \in DOMAIN book[side] /\ \A q \in DOMAIN book[side] : ~Better(side, q, p)

\* The prices of one side in the order snapshot walks its map: best first.
Ranked(prices, side) ==
    CHOOSE r \in [1 .. Cardinality(prices) -> prices] :
        \A i, j \in DOMAIN r : i < j => Better(side, r[i], r[j])

\* What snapshot shows of the first levels of ranked.
Shown(side, depth, ranked) ==
    [i \in 1 .. Min({depth, Len(ranked)}) |->
        [price |-> ranked[i],
         qty |-> book[side][ranked[i]].total_qty,
         order_count |-> Len(book[side][ranked[i]].orders)]]

\* Mutant of Snapshot: both maps walked from begin().
SnapshotAscending(side, depth) == Shown(side, depth, Ranked(DOMAIN book[side], "SELL"))

\* snapshot(depth): the depth best levels of a side, best first.
Snapshot(side, depth) == Shown(side, depth, Ranked(DOMAIN book[side], side))
-----------------------------------------------------------------------------
(* Matching.                                                               *)

\* Mutant of Filled: earlier fills are forgotten in the status.
FilledAtOnce(o, qty) ==
    [o EXCEPT !.filled_qty = @ + qty,
              !.status = IF o.qty = qty THEN "FILLED" ELSE "PARTIALLY_FILLED"]

\* make_trade's effect on one of the two orders.
Filled(o, qty) ==
    [o EXCEPT !.filled_qty = @ + qty,
              !.status = IF Remaining(o) = qty THEN "FILLED" ELSE "PARTIALLY_FILLED"]

\* The loop compares prices for LIMIT and IOC only: a FOK order relies on
\* the availability check made before the loop.
MayTakeLevel(o, p) == o.type \in {"LIMIT", "IOC"} => Reaches(o.side, o.price, p)

\* Mutant of FillQty: std::min forgotten.
FillQtyUnclamped(taker, resting) == Remaining(taker)

FillQty(taker, resting) ==
    IF Remaining(taker) < Remaining(resting) THEN Remaining(taker) ELSE Remaining(resting)

\* What try_match's FOK pre-check adds up: the cached totals of the levels
\* within the limit.
Available(o) ==
    LET other == book[Opposite(o.side)]
        within == {p \in DOMAIN other : Reaches(o.side, o.price, p)}
    IN  SumFunctionOnSet([p \in within |-> other[p].total_qty], within)

\* Mutant of Killed: any quantity on offer is enough.
KilledIfNothing(o) == o.type = "FOK" /\ Available(o) = 0

Killed(o) == o.type = "FOK" /\ Available(o) < o.qty

\* add_order up to the first loop iteration.  A FOK order that cannot be
\* filled at once expires here and the call returns.
AddOrder(id, o) ==
    /\ incoming = NoOrder
    /\ order[id] = Blank
    /\ LET entered == IF Killed(o) THEN [o EXCEPT !.status = "EXPIRED"] ELSE o
       IN  /\ order' = [order EXCEPT ![id] = entered]
           /\ notified' = [notified EXCEPT ![id] = Notice(entered)]
           /\ incoming' = IF Killed(o) THEN NoOrder ELSE id
    /\ UNCHANGED <<book, orders, trades, amended>>

\* One iteration of the inner loop: trade with the oldest order of the best
\* opposite level, at the resting order's price.
FillAt(p) ==
    LET taker == order[incoming]
        other == Opposite(taker.side)
        level == book[other][p]
        rid == Head(level.orders)
        qty == FillQty(taker, order[rid])
        taken == Filled(taker, qty)
        resting == Filled(order[rid], qty)
    IN  /\ order' = [order EXCEPT ![incoming] = taken, ![rid] = resting]
        /\ trades' = Append(trades, [taker |-> incoming, resting |-> rid,
                                     price |-> order[rid].price, qty |-> qty])
        /\ notified' = [notified EXCEPT ![rid] = Notice(resting), ![incoming] = Notice(taken)]
        /\ book' = SetLevel(book, other, p,
                            [orders |-> IF IsDone(resting) THEN Tail(level.orders)
                                                           ELSE level.orders,
                             total_qty |-> level.total_qty - qty])
        /\ orders' = IF IsDone(resting) THEN orders \ {rid} ELSE orders

CanFillAt(p) ==
    /\ Remaining(order[incoming]) > 0
    /\ IsBest(Opposite(order[incoming].side), p)
    /\ MayTakeLevel(order[incoming], p)

Fill ==
    /\ incoming # NoOrder
    /\ \E p \in DOMAIN book[Opposite(order[incoming].side)] : CanFillAt(p) /\ FillAt(p)
    /\ UNCHANGED <<incoming, amended>>

\* Mutant of MatchingOver: the loop ends with the order's quantity only.
MatchingOverWhenFilled == incoming # NoOrder /\ Remaining(order[incoming]) = 0

\* The loop's exits: filled, no level left, or the best one is out of reach.
MatchingOver ==
    /\ incoming # NoOrder
    /\ LET o == order[incoming] other == Opposite(o.side)
       IN  \/ Remaining(o) = 0
           \/ DOMAIN book[other] = {}
           \/ \E p \in DOMAIN book[other] : IsBest(other, p) /\ ~MayTakeLevel(o, p)

Return == incoming' = NoOrder /\ trades' = << >> /\ UNCHANGED amended

\* A LIMIT order that is not filled rests at the tail of its level.
Rest ==
    LET o == order[incoming]
    IN  /\ MatchingOver
        /\ o.type = "LIMIT" /\ ~IsDone(o)
        /\ book' = AddToBook(book, incoming, o)
        /\ orders' = orders \cup {incoming}
        /\ Return
        /\ UNCHANGED <<order, notified>>

\* Mutant of Discard: order_cb_ is not called.
DiscardSilently ==
    LET o == order[incoming]
        closed == [o EXCEPT !.status = IF o.type = "MARKET" THEN "CANCELLED" ELSE "EXPIRED"]
    IN  /\ MatchingOver
        /\ o.type \in {"MARKET", "IOC"} /\ Remaining(o) > 0
        /\ order' = [order EXCEPT ![incoming] = closed]
        /\ Return
        /\ UNCHANGED <<book, orders, notified>>

\* Mutant of Discard: the remaining quantity is not tested.
DiscardAlways ==
    LET o == order[incoming]
        closed == [o EXCEPT !.status = IF o.type = "MARKET" THEN "CANCELLED" ELSE "EXPIRED"]
    IN  /\ MatchingOver
        /\ o.type \in {"MARKET", "IOC"}
        /\ order' = [order EXCEPT ![incoming] = closed]
        /\ notified' = [notified EXCEPT ![incoming] = Notice(closed)]
        /\ Return
        /\ UNCHANGED <<book, orders>>

\* What a MARKET order could not get is cancelled, an IOC order's rest expires.
Discard ==
    LET o == order[incoming]
        closed == [o EXCEPT !.status = IF o.type = "MARKET" THEN "CANCELLED" ELSE "EXPIRED"]
    IN  /\ MatchingOver
        /\ o.type \in {"MARKET", "IOC"} /\ Remaining(o) > 0
        /\ order' = [order EXCEPT ![incoming] = closed]
        /\ notified' = [notified EXCEPT ![incoming] = Notice(closed)]
        /\ Return
        /\ UNCHANGED <<book, orders>>

\* Nothing is left to do: the order is filled (or is a FOK, whatever is left of it).
Complete ==
    /\ MatchingOver
    /\ \/ order[incoming].type = "FOK"
       \/ order[incoming].type = "LIMIT" /\ IsDone(order[incoming])
       \/ Remaining(order[incoming]) = 0
    /\ Return
    /\ UNCHANGED <<order, book, orders, notified>>
-----------------------------------------------------------------------------
(* Cancel and modify.  Both answer false, and change nothing, for an id    *)
(* the index does not hold.  (remove_from_book would leave the index alone *)
(* if it found no level; BookWellFormed says there always is one.)         *)

CancelOrder(id) ==
    /\ incoming = NoOrder
    /\ id \in orders
    /\ LET closed == [order[id] EXCEPT !.status = "CANCELLED"]
       IN  /\ book' = RemoveFromBook(book, id, order[id])
           /\ order' = [order EXCEPT ![id] = closed]
           /\ notified' = [notified EXCEPT ![id] = Notice(closed)]
    /\ orders' = orders \ {id}
    /\ UNCHANGED <<incoming, trades, amended>>

Moved(o, price, qty) == [o EXCEPT !.price = price, !.qty = qty]

\* The order moves to the tail of the level at its new price.  It is not
\* matched there, its status stays, and order_cb_ is not called.
ModifyOrder(id, price, qty) ==
    /\ incoming = NoOrder
    /\ id \in orders
    /\ qty > order[id].filled_qty
    /\ LET moved == Moved(order[id], price, qty)
       IN  /\ book' = Requeued(book, id, order[id], moved)
           /\ order' = [order EXCEPT ![id] = moved]
    /\ amended' = amended \cup {id}
    /\ UNCHANGED <<orders, incoming, trades, notified>>

EndOfCall == Rest \/ Discard \/ Complete

Next ==
    \/ \E id \in OrderIds, o \in Submittable : AddOrder(id, o)
    \/ Fill
    \/ EndOfCall
    \/ \E id \in OrderIds : CancelOrder(id)
    \/ \E id \in OrderIds, price \in Prices, qty \in 1 .. MaxQty : ModifyOrder(id, price, qty)

Spec == Init /\ [][Next]_vars
-----------------------------------------------------------------------------
(* Correctness.                                                            *)

Queued(side, p) == ToSet(book[side][p].orders)
Idle == incoming = NoOrder

\* Every variable keeps its type; the book has two sides, whose keys are prices.
TypeOK ==
    /\ order \in [OrderIds -> Order]
    /\ DOMAIN book = Side
    /\ \A s \in Side : DOMAIN book[s] \subseteq Prices
                      /\ \A p \in DOMAIN book[s] : book[s][p] \in Level
    /\ orders \subseteq OrderIds
    /\ incoming \in OrderIds \cup {NoOrder}
    /\ trades \in Seq([taker : OrderIds, resting : OrderIds,
                       price : Prices, qty : 0 .. MaxQty])
    /\ notified \in [OrderIds -> [status : OrderStatus, filled_qty : 0 .. MaxQty]]
    /\ amended \subseteq OrderIds

\* No level is empty: best_bid, best_ask and the snapshot never show a price
\* at which nothing can be traded.
NoEmptyLevel == \A s \in Side : \A p \in DOMAIN book[s] : book[s][p].orders # << >>

\* An id queued at a level is an open LIMIT order of that side and price,
\* with something left to fill, and the index knows it.
QueuedAreOpen ==
    \A s \in Side : \A p \in DOMAIN book[s] : \A i \in DOMAIN book[s][p].orders :
        LET id == book[s][p].orders[i] IN
        /\ id \in orders
        /\ order[id].side = s /\ order[id].price = p
        /\ order[id].type = "LIMIT"
        /\ order[id].status \in {"NEW", "PARTIALLY_FILLED"}
        /\ Remaining(order[id]) > 0

\* No id is queued twice at one level.
QueuesDistinct ==
    \A s \in Side : \A p \in DOMAIN book[s] :
        \A i, j \in DOMAIN book[s][p].orders :
            book[s][p].orders[i] = book[s][p].orders[j] => i = j

\* The index holds no id that is missing from the level of its side and price.
IndexedAreQueued ==
    \A id \in orders :
        /\ order[id].price \in DOMAIN book[order[id].side]
        /\ \E i \in DOMAIN book[order[id].side][order[id].price].orders :
               book[order[id].side][order[id].price].orders[i] = id

\* orders_, bids_ and asks_ agree (add_to_book, remove_from_book, the pop in
\* try_match): an order is in the index exactly when it is queued, once, at
\* its own side and price, and then it is open.
BookWellFormed == NoEmptyLevel /\ QueuedAreOpen /\ QueuesDistinct /\ IndexedAreQueued

\* The cached total_qty of a level, which snapshots show and the FOK check
\* trusts, is what its orders have left, between two trades of a sweep too.
LevelTotals ==
    \A s \in Side : \A p \in DOMAIN book[s] :
        book[s][p].total_qty =
            SumFunctionOnSet([id \in Queued(s, p) |-> Remaining(order[id])], Queued(s, p))

\* o's status says how much of o is filled.
Agrees(o) ==
    /\ o.filled_qty <= o.qty
    /\ o.status = "FILLED" <=> o.qty > 0 /\ o.filled_qty = o.qty
    /\ o.status = "PARTIALLY_FILLED" => o.filled_qty > 0
    /\ o.status \in {"PENDING", "NEW"} => o.filled_qty = 0

\* Status and filled quantity of every order agree, between two trades of a
\* sweep too: what is done by its status (is_done) has nothing to
\* fill, or was closed with some left, and no amendment shrinks an order to
\* what it has already traded.
StatusAgrees == \A id \in OrderIds : Agrees(order[id])

\* The book is crossed only by amendments: when a bid is at or above an ask,
\* modify_order moved one of the two (add_order matches before it rests).
Uncrossed ==
    \A b, a \in orders :
        order[b].side = "BUY" /\ order[a].side = "SELL" /\ order[b].price >= order[a].price
            => b \in amended \/ a \in amended

\* The order being matched is not in the book yet, and is filled when it says so.
IncomingApart ==
    incoming # NoOrder =>
        /\ incoming \in OrderIds \ orders
        /\ order[incoming].status \in {"NEW", "PARTIALLY_FILLED", "FILLED"}
        /\ order[incoming].status = "FILLED" <=> Remaining(order[incoming]) = 0
        /\ order[incoming].type # "MARKET" => order[incoming].price \in Prices

\* The inductive invariant of the proofs: the parts need each other.  A level
\* is well-formed after a fill because the order that trades is not queued
\* itself (IncomingApart), and because an order is popped exactly when it is
\* filled (StatusAgrees).
IInv == TypeOK /\ StatusAgrees /\ BookWellFormed /\ IncomingApart /\ Uncrossed

\* A FOK order ends filled or untouched and expired, and never rests.
FokAllOrNothing ==
    \A id \in OrderIds :
        order[id].type = "FOK" /\ id # incoming =>
            /\ \/ order[id].status = "FILLED" /\ Remaining(order[id]) = 0
               \/ order[id].status = "EXPIRED" /\ order[id].filled_qty = 0
            /\ id \notin orders

\* While a FOK order is being matched, the levels within its limit can fill it:
\* try_match's loop has no price check of its own for it, and needs none.
FokCovered ==
    incoming # NoOrder /\ order[incoming].type = "FOK" =>
        Remaining(order[incoming]) <= Available(order[incoming])

\* The inductive invariant behind LevelTotals and FokAllOrNothing: a FOK order is
\* filled because it stays covered, and stays covered because the totals that the
\* pre-check added up are exact.
TotalsInv == IInv /\ LevelTotals /\ FokCovered /\ FokAllOrNothing

\* Between calls, order_cb_ was told the status and filled quantity of every order.
ObserversUpToDate == Idle => \A id \in OrderIds : notified[id] = Notice(order[id])

\* A LIMIT order that is open, other than the one being matched, is in the index.
OpenAreIndexed ==
    \A id \in OrderIds :
        order[id].type = "LIMIT" /\ order[id].status \in {"NEW", "PARTIALLY_FILLED"}
            => id \in orders \/ id = incoming

\* A snapshot shows what a reader of the orders would add up: each level the
\* open quantity and number of orders at its price, and no open order
\* outside it at a better price than one shown.
TruthfulTo(s, depth) ==
    LET shown == Snapshot(s, depth)
        open == {id \in OrderIds : order[id].side = s /\ order[id].type = "LIMIT"
                    /\ order[id].status \in {"NEW", "PARTIALLY_FILLED"}}
    IN  /\ \A i \in DOMAIN shown :
               LET at == {id \in open : order[id].price = shown[i].price}
               IN  /\ shown[i].order_count = Cardinality(at)
                   /\ shown[i].qty =
                         SumFunctionOnSet([id \in at |-> Remaining(order[id])], at)
                   /\ \A id \in open : Better(s, order[id].price, shown[i].price) =>
                          \E j \in 1 .. i - 1 : shown[j].price = order[id].price
        /\ open # {} => shown # << >>

\* Between calls, snapshots of either side are truthful (snapshot, and the
\* totals and the index it relies on).
SnapshotTruthful == Idle => \A s \in Side, depth \in 1 .. 2 : TruthfulTo(s, depth)

\* What an order_cb_ client was told is final stays so: no later call changes
\* the status or the fill of a done order.
DoneIsFinal ==
    [][\A id \in OrderIds : IsDone(order[id]) => order'[id] = order[id]]_vars
=============================================================================
