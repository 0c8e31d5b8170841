-------------------------- MODULE OrderBookRefinement -----------------------
(***************************************************************************)
(* The order book implements PriceTimePriority.  The abstract Add happens  *)
(* when add_order is called: a history variable keeps the outcome promised *)
(* then, and the loop has to arrive at exactly that outcome when the call  *)
(* returns, whatever its iterations, cached totals and early exits do.     *)
(***************************************************************************)
EXTENDS OrderBook

VARIABLE promised   \* history: the outcome promised to the running call

\* The book without its cached totals; an absent level is an empty queue.
Queues == [s \in Side |-> [p \in Prices |->
              IF p \in DOMAIN book[s] THEN book[s][p].orders ELSE << >>]]

NoPromise == [order |-> << >>, queue |-> << >>]

Abstract == INSTANCE PriceTimePriority
    WITH order <- IF Idle THEN order ELSE promised.order,
         queue <- IF Idle THEN Queues ELSE promised.queue

PromisingInit == Init /\ promised = NoPromise

PromisingNext ==
    \/ \E id \in OrderIds, o \in Submittable :
           /\ AddOrder(id, o)
           /\ promised' = IF Idle' THEN NoPromise
                          ELSE [order |-> Abstract!MatchedOrders(order', Queues, id),
                                queue |-> Abstract!MatchedQueue(order', Queues, id)]
    \/ Fill /\ UNCHANGED promised
    \/ EndOfCall /\ promised' = NoPromise
    \/ \E id \in OrderIds : CancelOrder(id) /\ UNCHANGED promised
    \/ \E id \in OrderIds, price \in Prices, qty \in 1 .. MaxQty :
           ModifyOrder(id, price, qty) /\ UNCHANGED promised

PromisingSpec == PromisingInit /\ [][PromisingNext]_<<vars, promised>>

\* The inductive invariant of the proof: matching the rest of the incoming order
\* against the book as it is now still leads to what was promised, and a FOK order
\* in the loop is met by what is on offer.
PromiseKept ==
    ~Idle =>
        LET o == order[incoming]
        IN  /\ promised.order = Abstract!MatchedOrders(order, Queues, incoming)
            /\ promised.queue = Abstract!MatchedQueue(order, Queues, incoming)
            /\ o.type = "FOK" =>
                   Remaining(o) <= Abstract!OpenQty(order, Abstract!Counterparties(order, Queues, o))

\* Price-time priority: add_order, cancel_order and modify_order have the
\* effect the abstract book promises, on every order and every queue.
PriceTimePriorityHolds == Abstract!Spec
=============================================================================
