-------------------------- MODULE PriceTimePriority -------------------------
(***************************************************************************)
(* What the order book promises, with every call atomic and no matching    *)
(* loop, cached totals or index: add_order has the outcome of Matching.    *)
(***************************************************************************)
EXTENDS Matching

VARIABLES
    order,  \* the orders, by id
    queue   \* side -> price -> resting ids, the oldest first

Init ==
    /\ order = [id \in OrderIds |-> Blank]
    /\ queue = NoQueues

Resting(id) == Queued(order, queue, id)

Without(id) == Unqueued(queue, id)

\* What was asked, without what became of it.
Request(o) == [o EXCEPT !.filled_qty = 0, !.status = "NEW"]

\* Matching decides the fill and the status of an order, never its request.
Add(id, o) ==
    /\ order[id] = Blank
    /\ Request(order'[id]) = o
    /\ LET entered == [order EXCEPT ![id] = o]
       IN  /\ order' = MatchedOrders(entered, queue, id)
           /\ queue' = MatchedQueue(entered, queue, id)

Cancel(id) ==
    /\ Resting(id)
    /\ order' = [order EXCEPT ![id].status = "CANCELLED"]
    /\ queue' = Without(id)

\* An amended order loses its place, whatever was amended.
Amend(id, price, qty) ==
    /\ Resting(id)
    /\ qty > order[id].filled_qty
    /\ order' = [order EXCEPT ![id].price = price, ![id].qty = qty]
    /\ queue' = [Without(id) EXCEPT ![order[id].side][price] = Append(@, id)]

Next ==
    \E id \in OrderIds :
        \/ \E o \in Submittable : Add(id, o)
        \/ Cancel(id)
        \/ \E price \in Prices, qty \in 1 .. MaxQty : Amend(id, price, qty)

Spec == Init /\ [][Next]_<<order, queue>>
=============================================================================
