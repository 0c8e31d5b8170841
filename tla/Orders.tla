------------------------------- MODULE Orders -------------------------------
(***************************************************************************)
(* The order vocabulary of src/src/core/types.hpp, shared by the matching  *)
(* engine and by the specification of what it promises.                    *)
(***************************************************************************)
EXTENDS Integers

CONSTANTS
    OrderIds,   \* ids of the orders a run may submit
    Prices,     \* prices a run uses, in ticks
    MaxQty      \* bound: the largest quantity an order asks for

ASSUME PricesAssumption == Prices \subseteq Int
ASSUME MaxQtyAssumption == MaxQty \in Nat \ {0}

Side == {"BUY", "SELL"}
OrderType == {"LIMIT", "MARKET", "IOC", "FOK"}
\* REJECTED is never assigned: a rejected order does not reach a book.
OrderStatus == {"PENDING", "NEW", "PARTIALLY_FILLED", "FILLED", "CANCELLED", "EXPIRED"}
Done == {"FILLED", "CANCELLED", "EXPIRED"}

Order == [side : Side, type : OrderType, price : Prices \cup {0},
          qty : 0 .. MaxQty, filled_qty : 0 .. MaxQty, status : OrderStatus]

\* A default-constructed Order: the id has not been submitted yet.
Blank == [side |-> "BUY", type |-> "LIMIT", price |-> 0,
          qty |-> 0, filled_qty |-> 0, status |-> "PENDING"]

\* The orders a caller hands to add_order.  A market order's price is never read.
\* (check_order lets an IOC or FOK order through at price 0, which reaches what
\* the lowest of Prices reaches when no order rests there.)
Submittable == {o \in [side : Side, type : OrderType, price : Prices \cup {0},
                       qty : 1 .. MaxQty, filled_qty : {0}, status : {"NEW"}] :
                   o.type = "MARKET" <=> o.price = 0}

Remaining(o) == o.qty - o.filled_qty
IsDone(o) == o.status \in Done
Opposite(side) == IF side = "BUY" THEN "SELL" ELSE "BUY"

\* On the given side of the book a level at p is matched before one at q.
Better(side, p, q) == IF side = "BUY" THEN p > q ELSE p < q

\* An order on the given side with limit price may trade at px.
Reaches(side, price, px) == IF side = "BUY" THEN px <= price ELSE px >= price
=============================================================================
