------------------------------ MODULE Matching ------------------------------
(***************************************************************************)
(* What matching an order does to the orders and queues of one book, as a  *)
(* function of them: an incoming order takes from each resting order what  *)
(* is left of its demand after everything with priority over it (better    *)
(* price, or same price and earlier in the queue) has been taken.          *)
(* ord gives the order of every id; que the resting ids of each side and   *)
(* price, the oldest first.                                                *)
(***************************************************************************)
EXTENDS Orders, SequencesExt

NoQueues == [s \in Side |-> [p \in Prices |-> << >>]]

\* The opposite orders that o is willing to trade with.
Counterparties(ord, que, o) ==
    UNION {ToSet(que[Opposite(o.side)][p]) :
              p \in {q \in Prices : o.type = "MARKET" \/ Reaches(o.side, o.price, q)}}

OpenQty(ord, ids) == SumFunctionOnSet([id \in ids |-> Remaining(ord[id])], ids)

\* x is served before y, both resting on one side.
Precedes(ord, que, x, y) ==
    \/ Better(ord[x].side, ord[x].price, ord[y].price)
    \/ /\ ord[x].price = ord[y].price
       /\ LET q == que[ord[x].side][ord[x].price]
          IN  \E i, j \in DOMAIN q : i < j /\ q[i] = x /\ q[j] = y

\* What y gives to o: the demand left over by the orders before it, and
\* nothing to a FOK order that cannot be filled whole.
Given(ord, que, o, y) ==
    LET them == Counterparties(ord, que, o)
        ahead == OpenQty(ord, {x \in them : Precedes(ord, que, x, y)})
    IN  IF y \notin them \/ (o.type = "FOK" /\ OpenQty(ord, them) < Remaining(o))
        THEN 0
        ELSE Min({Remaining(ord[y]), Max({0, Remaining(o) - ahead})})

\* The orders after o, submitted as id, has been matched in full.
Take(o, qty) ==
    IF qty = 0 THEN o
    ELSE [o EXCEPT !.filled_qty = @ + qty,
                   !.status = IF Remaining(o) = qty THEN "FILLED" ELSE "PARTIALLY_FILLED"]

Leftover(o) ==
    IF Remaining(o) = 0 \/ o.type = "LIMIT" THEN o
    ELSE [o EXCEPT !.status = IF o.type = "MARKET" THEN "CANCELLED" ELSE "EXPIRED"]

MatchedOrders(ord, que, id) ==
    LET o == ord[id]
        given == [y \in OrderIds |-> IF y = id THEN 0 ELSE Given(ord, que, o, y)]
    IN  [x \in OrderIds |-> IF x = id THEN Leftover(Take(o, SumFunction(given)))
                                      ELSE Take(ord[x], given[x])]

\* A queue is served from its head: the orders that are done leave there.
Unserved(q, ord) ==
    LET served == Max({n \in 0 .. Len(q) : \A i \in 1 .. n : IsDone(ord[q[i]])})
    IN  SubSeq(q, served + 1, Len(q))

\* The queues then: filled orders leave, and what is left of a LIMIT order
\* joins the tail at its price.
MatchedQueue(ord, que, id) ==
    LET after == MatchedOrders(ord, que, id)
        rests == after[id].type = "LIMIT" /\ ~IsDone(after[id])
    IN  [s \in Side |-> [p \in Prices |->
            LET left == Unserved(que[s][p], after)
            IN  IF rests /\ s = after[id].side /\ p = after[id].price
                THEN Append(left, id) ELSE left]]

Queued(ord, que, id) == \E p \in Prices : Contains(que[ord[id].side][p], id)

Unqueued(que, id) == [s \in Side |-> [p \in Prices |-> RemoveFirst(que[s][p], id)]]
=============================================================================
