----------------------- MODULE ExchangeSimulatorProofs -----------------------
(***************************************************************************)
(* Proofs about ExchangeSimulator, for any number of clients, ids, prices  *)
(* and quantities and any limits.                                          *)
(*                                                                         *)
(* The simulator keeps the book's contract, so that everything proved      *)
(* about OrderBook holds of its book (BookSpec).  With that, four          *)
(* invariants follow one another: Served, what the holder of mtx_ is       *)
(* doing; FillsBookedOnce; Counted and Balanced, behind NothingLost; and   *)
(* ExposureBounded, which says how far the position check can be wrong.    *)
(***************************************************************************)
EXTENDS ExchangeSimulator, CollectionTheorems

\* The theorems about the book, for this book.
BP == INSTANCE OrderBookProofs WITH promised <- << >>

\* An order that check_order has approved.
Approved == {o \in Submittable : o.qty <= RiskLimits.max_order_qty}
Call == [at : {"approved", "matching", "booking"}, id : OrderIds, order : Approved, known : BOOLEAN]

\* Every call has an order that the book may be given.
Calls ==
    /\ issued \subseteq OrderIds
    /\ call \in [Clients -> {Outside} \cup Call]
    /\ \A c \in Clients : call[c] # Outside => call[c].id \in issued
-----------------------------------------------------------------------------
(* The book.                                                               *)

\* Book and BP name the same book.
LEMMA SameInit == BP!Init <=> Book!Init
  BY DEF BP!Init, Book!Init, BP!Notice, Book!Notice, BP!Blank, Book!Blank, BP!Side, Book!Side

\* add_order.
LEMMA SameAdd == ASSUME NEW id, NEW o PROVE BP!AddOrder(id, o) <=> Book!AddOrder(id, o)
  BY DEF BP!AddOrder, Book!AddOrder, BP!Notice, Book!Notice, BP!Blank, Book!Blank, BP!Killed, Book!Killed,
         BP!Available, Book!Available, BP!Opposite, Book!Opposite, BP!Reaches, Book!Reaches,
         BP!SumFunctionOnSet, Book!SumFunctionOnSet, BP!FoldFunctionOnSet, Book!FoldFunctionOnSet,
         BP!MapThenFoldSet, Book!MapThenFoldSet

\* One trade.
LEMMA SameFill == BP!Fill <=> Book!Fill
  BY DEF BP!Fill, Book!Fill, BP!CanFillAt, Book!CanFillAt, BP!FillAt, Book!FillAt, BP!Opposite, Book!Opposite,
         BP!Remaining, Book!Remaining, BP!IsBest, Book!IsBest, BP!MayTakeLevel, Book!MayTakeLevel,
         BP!Reaches, Book!Reaches, BP!Better, Book!Better, BP!FillQty, Book!FillQty, BP!Filled, Book!Filled,
         BP!SetLevel, Book!SetLevel, BP!Restrict, Book!Restrict, BP!IsDone, Book!IsDone, BP!Done, Book!Done,
         BP!Notice, Book!Notice

\* The end of add_order.
LEMMA SameEnd == BP!EndOfCall <=> Book!EndOfCall
  BY DEF BP!EndOfCall, Book!EndOfCall, BP!Rest, Book!Rest, BP!Discard, Book!Discard, BP!Complete, Book!Complete,
         BP!MatchingOver, Book!MatchingOver, BP!Return, Book!Return, BP!AddToBook, Book!AddToBook,
         BP!EmptyLevel, Book!EmptyLevel, BP!Opposite, Book!Opposite, BP!Remaining, Book!Remaining,
         BP!IsBest, Book!IsBest, BP!MayTakeLevel, Book!MayTakeLevel, BP!Reaches, Book!Reaches,
         BP!Better, Book!Better, BP!SetLevel, Book!SetLevel, BP!Restrict, Book!Restrict,
         BP!IsDone, Book!IsDone, BP!Done, Book!Done, BP!Notice, Book!Notice

\* cancel_order.
LEMMA SameCancel == ASSUME NEW id PROVE BP!CancelOrder(id) <=> Book!CancelOrder(id)
  BY DEF BP!CancelOrder, Book!CancelOrder, BP!RemoveFromBook, Book!RemoveFromBook, BP!RemoveAt, Book!RemoveAt,
         BP!Position, Book!Position, BP!Remaining, Book!Remaining, BP!SetLevel, Book!SetLevel,
         BP!Restrict, Book!Restrict, BP!Notice, Book!Notice

\* modify_order.
LEMMA SameModify ==
    ASSUME NEW id, NEW price, NEW qty
    PROVE  BP!ModifyOrder(id, price, qty) <=> Book!ModifyOrder(id, price, qty)
  BY DEF BP!ModifyOrder, Book!ModifyOrder, BP!Requeued, Book!Requeued, BP!Moved, Book!Moved,
         BP!AddToBook, Book!AddToBook, BP!EmptyLevel, Book!EmptyLevel, BP!RemoveFromBook, Book!RemoveFromBook,
         BP!RemoveAt, Book!RemoveAt, BP!Position, Book!Position, BP!Remaining, Book!Remaining,
         BP!SetLevel, Book!SetLevel, BP!Restrict, Book!Restrict, BP!Notice, Book!Notice

\* The orders of the book are those of this module.
LEMMA SameOrders == BP!Submittable = Submittable /\ BP!Order = Order /\ BP!Blank = Blank
  BY DEF BP!Submittable, Submittable, BP!Side, BP!OrderType, Side, OrderType, BP!Order, Order,
         BP!OrderStatus, OrderStatus, BP!Blank, Blank
-----------------------------------------------------------------------------
(* submit_order hands the book only what it may be handed.                 *)

\* What check_order approves.
LEMMA ApprovedPasses ==
    ASSUME NEW o \in Requested, NEW market, NEW held, Objection(RiskLimits, o, market, held) = "NONE"
    PROVE  /\ o \in Approved /\ o.qty \in Nat /\ o.side \in Side
           /\ ~(Absolute(Projected(o, held)) > RiskLimits.max_position)
<1> DEFINE checks == Checks(RiskLimits, o, market, held)
           failed == {i \in DOMAIN checks : checks[i].fails}
<1>1. DOMAIN checks = 1 .. 5
  BY DEF Checks
<1>2. IsFiniteSet(failed) /\ failed \subseteq Int
  <2>1. IsFiniteSet(1 .. 5)
    <3> DEFINE n == 5
    <3>1. n \in Nat
      OBVIOUS
    <3> HIDE DEF n
    <3>2. IsFiniteSet(1 .. n)
      BY <3>1, FS_Interval
    <3> QED
      BY <3>2 DEF n
  <2>2. failed \subseteq 1 .. 5
    BY <1>1
  <2> QED
    BY <2>1, <2>2, FS_Subset
<1>3. \A i \in 1 .. 5 : checks[i].reason # "NONE"
  BY DEF Checks
<1>4. failed = {}
  <2> SUFFICES ASSUME failed # {} PROVE FALSE
    OBVIOUS
  <2>1. Min(failed) \in failed
    BY <1>2, MinMax
  <2>2. Objection(RiskLimits, o, market, held) = checks[Min(failed)].reason
    BY DEF Objection
  <2> QED
    BY <1>1, <1>3, <2>1, <2>2
<1>5. ~checks[1].fails /\ ~checks[3].fails /\ ~checks[5].fails
  BY <1>1, <1>4
<1>6. /\ ~(o.qty <= 0) /\ ~(o.qty > RiskLimits.max_order_qty)
      /\ ~(Absolute(Projected(o, held)) > RiskLimits.max_position)
  BY <1>5 DEF Checks
<1>7. o \in Submittable /\ o.side \in Side /\ o.qty \in Nat
  <2>1. ASSUME NEW x \in Submittable, o = [x EXCEPT !.qty = 0] PROVE FALSE
    <3>1. x \in [side : Side, type : OrderType, price : Prices \cup {0},
                  qty : 1 .. MaxQty, filled_qty : {0}, status : {"NEW"}]
      BY DEF Submittable
    <3>2. o.qty = 0
      BY <2>1, <3>1
    <3> QED
      BY <1>6, <3>2
  <2>2. o \in Submittable
    BY <2>1 DEF Requested
  <2> QED
    BY <2>2, MaxQtyAssumption DEF Submittable
<1>8. RiskLimits.max_order_qty \in Int /\ RiskLimits.max_position \in Int
  BY RiskLimitsAssumption DEF Limits
<1> HIDE DEF checks
<1>9. o.qty <= RiskLimits.max_order_qty
  BY <1>6, <1>7, <1>8
<1> QED
  BY <1>6, <1>7, <1>9 DEF Approved

\* So the order takes the position that was read within its limit.
LEMMA ApprovedWithin ==
    ASSUME NEW o \in Requested, NEW market, NEW held \in Int, Objection(RiskLimits, o, market, held) = "NONE"
    PROVE  /\ held + Toward(o.side, o.qty) <= RiskLimits.max_position
           /\ -(held + Toward(o.side, o.qty)) <= RiskLimits.max_position
<1> DEFINE p == held + Toward(o.side, o.qty)
<1>1. o.qty \in Nat /\ ~(Absolute(Projected(o, held)) > RiskLimits.max_position)
  BY ApprovedPasses
<1>2. Projected(o, held) = p /\ p \in Int
  BY <1>1 DEF Projected, Toward
<1> HIDE DEF p
<1>3. p <= RiskLimits.max_position /\ -p <= RiskLimits.max_position
  BY <1>1, <1>2, RiskLimitsAssumption DEF Absolute, Limits
<1> QED
  BY <1>3 DEF p

\* A call begins, or goes on.
LEMMA CallType ==
    /\ Outside.at = "outside"
    /\ \A k \in {Outside} \cup Call : k # Outside <=> k.at \in {"approved", "matching", "booking"}
    /\ \A k \in {Outside} \cup Call : k # Outside <=> k \in Call
    /\ \A k \in Call, p \in {"matching", "booking"} :
          LET g == [k EXCEPT !.at = p]
          IN  g \in Call /\ g.at = p /\ g.id = k.id /\ g.order = k.order /\ g.known = k.known
  BY DEF Outside, Call

\* One client goes on.
Goes(c, k) ==
    /\ call' = [call EXCEPT ![c] = k]
    /\ k \in {Outside} \cup Call
    /\ k # Outside => call[c] # Outside /\ k.id = call[c].id /\ k.order = call[c].order /\ k.known = call[c].known

\* What every step of a client does to its call.
LEMMA EnterGoes ==
    ASSUME Calls, NEW c \in Clients, Enter(c)
    PROVE  /\ call[c] \in Call /\ call[c].at = "approved" /\ call[c].known /\ holder = NoClient /\ holder' = c
           /\ BP!AddOrder(call[c].id, call[c].order)
           /\ \E p \in {"matching", "booking"} :
                 /\ p = IF incoming' = NoOrder THEN "booking" ELSE "matching"
                 /\ Goes(c, [call[c] EXCEPT !.at = p])
           /\ UNCHANGED <<issued, unbooked, net, totals, flow>>
<1>1. /\ call[c].at = "approved" /\ call[c].known /\ holder = NoClient /\ holder' = c
      /\ UNCHANGED <<issued, unbooked, net, totals, flow>>
      /\ Book!AddOrder(call[c].id, call[c].order)
      /\ call' = [call EXCEPT ![c].at = IF incoming' = NoOrder THEN "booking" ELSE "matching"]
  BY DEF Enter
<1>2. call[c] \in Call
  BY <1>1, CallType DEF Calls
<1> DEFINE p == IF incoming' = NoOrder THEN "booking" ELSE "matching"
           k == [call[c] EXCEPT !.at = p]
<1>3. p \in {"matching", "booking"} /\ call' = [call EXCEPT ![c] = k]
  BY <1>1
<1>4. k \in Call /\ k.id = call[c].id /\ k.order = call[c].order /\ k.known = call[c].known
  <2> HIDE DEF p
  <2> QED
    BY <1>2, <1>3, CallType
<1>5. Goes(c, k)
  <2> HIDE DEF k
  <2> QED
    BY <1>2, <1>3, <1>4, CallType DEF Goes
<1> QED
  BY <1>1, <1>2, <1>3, <1>5, SameAdd

\* One trade.
LEMMA MatchGoes ==
    ASSUME NEW c \in Clients, Match(c)
    PROVE  /\ holder = c /\ call[c].at = "matching" /\ BP!Fill
           /\ totals' = [totals EXCEPT !.trades = @ + 1]
           /\ flow' = flow + Toward(order[incoming].side, order'[incoming].filled_qty - order[incoming].filled_qty)
           /\ UNCHANGED <<issued, call, holder, unbooked, net>>
  BY SameFill DEF Match

\* add_order returns.
LEMMA ReturnGoes ==
    ASSUME Calls, NEW c \in Clients, Return(c)
    PROVE  /\ holder = c /\ call[c].at = "matching" /\ call[c] \in Call /\ BP!EndOfCall
           /\ unbooked' = trades
           /\ Goes(c, [call[c] EXCEPT !.at = "booking"])
           /\ UNCHANGED <<issued, holder, net, totals, flow>>
<1>1. /\ holder = c /\ call[c].at = "matching" /\ unbooked' = trades
      /\ UNCHANGED <<issued, holder, net, totals, flow>>
      /\ Book!EndOfCall
      /\ call' = [call EXCEPT ![c] = [call[c] EXCEPT !.at = "booking"]]
  BY DEF Return
<1>2. call[c] \in Call
  BY <1>1, CallType DEF Calls
<1> DEFINE k == [call[c] EXCEPT !.at = "booking"]
<1>3. k \in Call /\ k.id = call[c].id /\ k.order = call[c].order /\ k.known = call[c].known
  BY <1>2, CallType
<1>4. Goes(c, k)
  <2> HIDE DEF k
  <2>1. call' = [call EXCEPT ![c] = k]
    BY <1>1 DEF k
  <2> QED
    BY <1>2, <1>3, <2>1, CallType DEF Goes
<1> QED
  BY <1>1, <1>2, <1>4, SameEnd

\* The book is given only approved orders.
LEMMA CallsGo ==
    ASSUME Calls, NEW c \in Clients, NEW k, Goes(c, k), issued \subseteq issued', issued' \subseteq OrderIds
    PROVE  /\ Calls' /\ call'[c] = k
           /\ \A d \in Clients : d # c => call'[d] = call[d]
<1>1. call' \in [Clients -> {Outside} \cup Call]
  BY DEF Calls, Goes
<1>2. call'[c] = k /\ \A d \in Clients : d # c => call'[d] = call[d]
  BY DEF Calls, Goes
<1>3. \A d \in Clients : call'[d] # Outside => call'[d].id \in issued'
  BY <1>2 DEF Calls, Goes
<1> QED
  BY <1>1, <1>2, <1>3 DEF Calls
\* submit_order, up to check_order's answer: an id is issued, and the order is
\* approved or rejected.
Submits(c, id, o, known, market) ==
    /\ call[c] = Outside /\ id = Cardinality(issued) + 1 /\ issued' = issued \cup {id}
    /\ \/ /\ Objection(RiskLimits, o, market, IF known THEN net ELSE 0) = "NONE" /\ o \in Approved
          /\ call' = [call EXCEPT ![c] = [at |-> "approved", id |-> id, order |-> o, known |-> known]]
          /\ totals' = [totals EXCEPT !.orders = @ + 1]
       \/ call' = call /\ totals' = [totals EXCEPT !.orders = @ + 1, !.rejects = @ + 1]
    /\ UNCHANGED <<bookVars, holder, unbooked, net, flow>>

\* Submit is such a step.
LEMMA SubmitGoes ==
    ASSUME NEW c, NEW id, NEW o \in Requested, NEW known, NEW market, NEW throttled,
           Submit(c, id, o, known, market, throttled)
    PROVE  Submits(c, id, o, known, market)
<1>1. CASE Objection(RiskLimits, o, market, IF known THEN net ELSE 0) = "NONE"
  <2>1. o \in Approved
    BY <1>1, ApprovedPasses
  <2> QED
    BY <1>1, <2>1 DEF Submit, Submits
<1>2. CASE Objection(RiskLimits, o, market, IF known THEN net ELSE 0) # "NONE"
  BY <1>2 DEF Submit, Submits
<1> QED
  BY <1>1, <1>2

\* The record of a call that was approved.
LEMMA NewCall ==
    ASSUME NEW id \in OrderIds, NEW o \in Approved, NEW known \in BOOLEAN
    PROVE  LET k == [at |-> "approved", id |-> id, order |-> o, known |-> known]
           IN  k \in Call /\ k # Outside /\ k.at = "approved" /\ k.id = id /\ k.order = o /\ k.known = known
  BY DEF Call, Outside

\* Calls stays true.
LEMMA CallsStep == Calls /\ [Next]_vars => Calls'
<1> SUFFICES ASSUME Calls, [Next]_vars PROVE Calls'
  OBVIOUS
<1>1. CASE UNCHANGED <<issued, call>>
  BY <1>1 DEF Calls
<1>2. ASSUME NEW c \in Clients, NEW id \in OrderIds, NEW o \in Requested, NEW known \in BOOLEAN, NEW market,
             Submits(c, id, o, known, market)
      PROVE  Calls'
  <2>1. issued' = issued \cup {id}
    BY <1>2 DEF Submits
  <2>2. CASE call' = call
    BY <2>1, <2>2 DEF Calls
  <2>3. CASE call' # call
    <3> DEFINE k == [at |-> "approved", id |-> id, order |-> o, known |-> known]
    <3>1. call' = [call EXCEPT ![c] = k] /\ o \in Approved
      BY <1>2, <2>3 DEF Submits
    <3>2. k \in Call /\ k.id = id
      BY <3>1, NewCall
    <3> HIDE DEF k
    <3>3. call' \in [Clients -> {Outside} \cup Call]
      BY <3>1, <3>2 DEF Calls
    <3>4. call'[c] = k /\ \A d \in Clients : d # c => call'[d] = call[d]
      BY <3>1 DEF Calls
    <3>5. \A d \in Clients : call'[d] # Outside => call'[d].id \in issued'
      BY <2>1, <3>2, <3>4 DEF Calls
    <3> QED
      BY <2>1, <3>3, <3>5 DEF Calls
  <2> QED
    BY <2>2, <2>3
<1>3. ASSUME NEW c \in Clients, NEW k, Goes(c, k), issued' = issued
      PROVE  Calls'
  BY <1>3, CallsGo DEF Calls
<1>4. ASSUME NEW c \in Clients, RejectUnknown(c) \/ Answer(c)
      PROVE  Goes(c, Outside) /\ issued' = issued
  BY <1>4 DEF RejectUnknown, Answer, Goes
<1>5. ASSUME NEW c \in Clients, Proceed(c) PROVE Calls'
  <2>1. CASE Match(c) \/ OnFill(c)
    BY <1>1, <2>1 DEF Match, OnFill
  <2>2. CASE RejectUnknown(c) \/ Answer(c)
    BY <1>3, <1>4, <2>2
  <2>3. CASE Enter(c)
    <3>1. PICK p \in {"matching", "booking"} : Goes(c, [call[c] EXCEPT !.at = p])
      BY <2>3, EnterGoes
    <3> QED
      BY <1>3, <2>3, <3>1, EnterGoes
  <2>4. CASE Return(c)
    BY <1>3, <2>4, ReturnGoes
  <2> QED
    BY <1>5, <2>1, <2>2, <2>3, <2>4 DEF Proceed
<1>6. CASE Next
  BY <1>1, <1>2, <1>5, <1>6, SubmitGoes DEF Next, Cancel, Modify
<1> QED
  BY <1>1, <1>6 DEF vars

\* Every step of the simulator is one of the book, or leaves the book alone.
LEMMA BookStep == Calls /\ [Next]_vars => [BP!Next]_(BP!vars)
<1> SUFFICES ASSUME Calls, [Next]_vars PROVE [BP!Next]_(BP!vars)
  OBVIOUS
<1>1. CASE UNCHANGED bookVars
  BY <1>1 DEF bookVars, BP!vars
<1>2. ASSUME NEW c \in Clients, Proceed(c) PROVE [BP!Next]_(BP!vars)
  <2>1. CASE RejectUnknown(c) \/ OnFill(c) \/ Answer(c)
    BY <1>1, <2>1 DEF RejectUnknown, OnFill, Answer
  <2>2. CASE Enter(c)
    <3>1. call[c] \in Call /\ BP!AddOrder(call[c].id, call[c].order)
      BY <2>2, EnterGoes
    <3>2. call[c].id \in OrderIds /\ call[c].order \in BP!Submittable
      BY <3>1, SameOrders DEF Call, Approved
    <3> QED
      BY <3>1, <3>2 DEF BP!Next
  <2>3. CASE Match(c)
    BY <2>3, MatchGoes DEF BP!Next
  <2>4. CASE Return(c)
    BY <2>4, ReturnGoes DEF BP!Next
  <2> QED
    BY <1>2, <2>1, <2>2, <2>3, <2>4 DEF Proceed
<1>3. ASSUME NEW id \in OrderIds, Cancel(id) PROVE BP!Next
  BY <1>3, SameCancel DEF Cancel, BP!Next
<1>4. ASSUME NEW id \in OrderIds, NEW price \in Prices, NEW qty \in 1 .. MaxQty, Modify(id, price, qty)
      PROVE  BP!Next
  BY <1>4, SameModify DEF Modify, BP!Next
<1>5. CASE Next
  BY <1>1, <1>2, <1>3, <1>4, <1>5 DEF Next, Submit
<1>6. CASE UNCHANGED vars
  BY <1>1, <1>6 DEF vars, bookVars
<1> QED
  BY <1>5, <1>6

\* The simulator keeps the book's contract: whatever its threads do, what
\* they do to the book is what OrderBook allows.
THEOREM BookSpec == Spec => BP!Spec /\ []Calls
<1>1. Init => BP!Init /\ Calls
  BY SameInit DEF Init, Calls
<1> QED
  BY <1>1, CallsStep, BookStep, PTL DEF Spec, BP!Spec

\* So the book is well-formed, and its totals are exact, under concurrent
\* submissions, cancellations and amendments.
THEOREM BookInvariance == Spec => [](BP!IInv /\ BP!LevelTotals)
  BY BookSpec, BP!Invariance, BP!TotalsExact, PricesAssumption, MaxQtyAssumption, NoOrderAssumption, PTL
-----------------------------------------------------------------------------
(* What the simulator sees of its book.                                    *)

Trade == [taker : OrderIds, resting : OrderIds, price : Prices, qty : Nat]

\* The book's types.
LEMMA BookTypes ==
    ASSUME BP!IInv
    PROVE  /\ order \in [OrderIds -> Order] /\ incoming \in OrderIds \cup {NoOrder} /\ trades \in Seq(Trade)
           /\ \A id \in OrderIds :
                 /\ order[id].side \in Side /\ order[id].qty \in Nat /\ order[id].filled_qty \in Nat
                 /\ order[id].filled_qty <= order[id].qty
<1>1. order \in [OrderIds -> Order] /\ incoming \in OrderIds \cup {NoOrder}
  BY SameOrders DEF BP!IInv, BP!TypeOK
<1>2. trades \in Seq(Trade)
  <2> DEFINE T == [taker : OrderIds, resting : OrderIds, price : Prices, qty : 0 .. MaxQty]
  <2>1. trades \in Seq(T)
    BY DEF BP!IInv, BP!TypeOK
  <2>2. T \subseteq Trade
    BY MaxQtyAssumption DEF Trade
  <2> HIDE DEF T
  <2>3. \A i \in 1 .. Len(trades) : trades[i] \in Trade
    BY <2>1, <2>2
  <2> QED
    BY <2>1, <2>3
<1>3. ASSUME NEW id \in OrderIds
      PROVE  /\ order[id].side \in Side /\ order[id].qty \in Nat /\ order[id].filled_qty \in Nat
             /\ order[id].filled_qty <= order[id].qty
  <2>1. order[id] \in Order
    BY <1>1
  <2>2. order[id].filled_qty <= order[id].qty
    BY DEF BP!IInv, BP!StatusAgrees, BP!Agrees
  <2> QED
    BY <2>1, <2>2, MaxQtyAssumption DEF Order
<1> QED
  BY <1>1, <1>2, <1>3

\* The trades after a step.
LEMMA TradesTyped == BP!IInv' => trades' \in Seq(Trade)
<1> SUFFICES ASSUME BP!IInv' PROVE trades' \in Seq(Trade)
  OBVIOUS
<1> DEFINE T == [taker : OrderIds, resting : OrderIds, price : Prices, qty : 0 .. MaxQty]
<1>1. trades' \in Seq(T)
  BY DEF BP!IInv, BP!TypeOK
<1>2. T \subseteq Trade
  BY MaxQtyAssumption DEF Trade
<1> HIDE DEF T
<1>3. \A i \in 1 .. Len(trades') : trades'[i] \in Trade
  BY <1>1, <1>2
<1> QED
  BY <1>1, <1>3

\* No order is filled further, changes its side, appears or disappears.
Unfilled ==
    \A id \in OrderIds :
        /\ order'[id].side = order[id].side /\ order'[id].filled_qty = order[id].filled_qty
        /\ order'[id] = Blank <=> order[id] = Blank

\* The order id was entered, unfilled.
Entered(id, o) ==
    /\ incoming = NoOrder /\ incoming' \in {id, NoOrder} /\ trades' = trades
    /\ order[id] = Blank /\ order'[id] # Blank
    /\ order'[id].side = o.side /\ order'[id].qty = o.qty /\ order'[id].filled_qty = 0
    /\ \A x \in OrderIds : x # id => order'[x] = order[x]

\* The incoming order and rid, on opposite sides, traded qty.
Traded(rid, qty) ==
    /\ incoming \in OrderIds /\ incoming' = incoming /\ rid \in OrderIds /\ rid # incoming /\ qty \in Nat
    /\ order[rid].side = Opposite(order[incoming].side)
    /\ \A id \in {incoming, rid} :
          /\ order'[id].side = order[id].side /\ order'[id].qty = order[id].qty
          /\ order'[id].filled_qty = order[id].filled_qty + qty
          /\ order[id] # Blank /\ order'[id] # Blank
    /\ \A x \in OrderIds : x # incoming /\ x # rid => order'[x] = order[x]
    /\ \E price : trades' = Append(trades, [taker |-> incoming, resting |-> rid, price |-> price, qty |-> qty])

\* A step that does not fill an order leaves the book as the simulator sees it.
Still == incoming' = incoming /\ trades' = trades /\ Unfilled

\* What add_order's beginning does.
LEMMA EnterSeen ==
    ASSUME BP!IInv, Calls, NEW c \in Clients, Enter(c)
    PROVE  Entered(call[c].id, call[c].order)
<1>1. call[c] \in Call /\ BP!AddOrder(call[c].id, call[c].order)
  BY EnterGoes
<1>2. call[c].id \in OrderIds /\ call[c].order \in BP!Submittable
  BY <1>1, SameOrders DEF Call, Approved
<1> DEFINE id == call[c].id
           o == call[c].order
<1> HIDE DEF id, o
<1>3. id \in OrderIds /\ o \in BP!Submittable /\ BP!AddOrder(id, o)
  BY <1>1, <1>2 DEF id, o
<1>4. Entered(id, o)
  BY <1>3, BP!AddSeen, SameOrders, PricesAssumption, MaxQtyAssumption, NoOrderAssumption DEF Entered
<1> QED
  BY <1>4 DEF id, o

\* What one trade does.
LEMMA MatchSeen ==
    ASSUME BP!IInv, BP!Fill
    PROVE  \E rid, qty : Traded(rid, qty)
<1>1. PICK rid, qty : BP!TradesWith(rid, qty)
  BY BP!FillSeen, PricesAssumption, MaxQtyAssumption, NoOrderAssumption
<1>2. \A x : Opposite(x) = BP!Opposite(x)
  BY DEF Opposite, BP!Opposite
<1>3. Traded(rid, qty)
  BY <1>1, <1>2, SameOrders DEF Traded, BP!TradesWith, BP!TradedFor
<1> QED
  BY <1>3

\* What the end of add_order does.
LEMMA ReturnSeen ==
    ASSUME BP!IInv, BP!EndOfCall
    PROVE  incoming \in OrderIds /\ incoming' = NoOrder /\ trades' = << >> /\ Unfilled
  BY BP!EndSeen, SameOrders, PricesAssumption, MaxQtyAssumption, NoOrderAssumption DEF Unfilled, BP!Unfilled

\* What cancel_order does.
LEMMA CancelSeen ==
    ASSUME BP!IInv, NEW id \in OrderIds, Cancel(id)
    PROVE  Still /\ holder = NoClient /\ UNCHANGED <<issued, call, holder, unbooked, net, totals, flow>>
<1>1. /\ BP!CancelOrder(id) /\ holder = NoClient
      /\ UNCHANGED <<issued, call, holder, unbooked, net, totals, flow>>
  BY SameCancel DEF Cancel
<1> QED
  BY <1>1, BP!CancelSeen, SameOrders, PricesAssumption, MaxQtyAssumption, NoOrderAssumption
     DEF Still, Unfilled, BP!Unfilled

\* What modify_order does.
LEMMA ModifySeen ==
    ASSUME BP!IInv, NEW id \in OrderIds, NEW price \in Prices, NEW qty \in 1 .. MaxQty, Modify(id, price, qty)
    PROVE  Still /\ holder = NoClient /\ UNCHANGED <<issued, call, holder, unbooked, net, totals, flow>>
<1>1. /\ BP!ModifyOrder(id, price, qty) /\ holder = NoClient
      /\ UNCHANGED <<issued, call, holder, unbooked, net, totals, flow>>
  BY SameModify DEF Modify
<1> QED
  BY <1>1, BP!ModifySeen, SameOrders, PricesAssumption, MaxQtyAssumption, NoOrderAssumption
     DEF Still, Unfilled, BP!Unfilled
-----------------------------------------------------------------------------
(* Totals of trades.                                                       *)

Quantities(ts) == [i \in DOMAIN ts |-> ts[i].qty]

\* A total is a sum over a sequence.
LEMMA TotalIsSum ==
    ASSUME NEW ts \in Seq(Trade)
    PROVE  Quantities(ts) \in Seq(Nat) /\ Quantities(ts) \in Seq(Int) /\ Total(ts) = SumSeq(Quantities(ts))
           /\ Len(Quantities(ts)) = Len(ts)
<1>1. \A i \in 1 .. Len(ts) : ts[i].qty \in Nat
  <2>1. \A i \in 1 .. Len(ts) : ts[i] \in Trade
    <3> HIDE DEF Trade
    <3> QED
      OBVIOUS
  <2> QED
    BY <2>1 DEF Trade
<1>2. DOMAIN ts = 1 .. Len(ts) /\ Len(ts) \in Nat
  OBVIOUS
<1>3. Quantities(ts) = [i \in 1 .. Len(ts) |-> ts[i].qty]
  BY <1>2 DEF Quantities
<1>4. Quantities(ts) \in Seq(Nat) /\ Quantities(ts) \in Seq(Int) /\ DOMAIN Quantities(ts) = DOMAIN ts
      /\ Len(Quantities(ts)) = Len(ts)
  BY <1>1, <1>2, <1>3
<1> QED
  BY <1>4 DEF Total, SumSeq, Quantities

\* No trades add up to nothing.
LEMMA TotalEmpty == Total(<< >>) = 0
  BY SumEmpty DEF Total

\* A total is a natural number.
LEMMA TotalType == ASSUME NEW ts \in Seq(Trade) PROVE Total(ts) \in Nat
<1>1. IsFiniteSet(DOMAIN ts) /\ \A i \in DOMAIN ts : Quantities(ts)[i] \in Nat
  <2>1. DOMAIN ts = 1 .. Len(ts) /\ Len(ts) \in Nat /\ 1 \in Int
    OBVIOUS
  <2>2. IsFiniteSet(1 .. Len(ts))
    BY <2>1, FS_Interval
  <2>3. Quantities(ts) \in Seq(Nat) /\ Len(Quantities(ts)) = Len(ts)
    BY TotalIsSum
  <2>4. \A i \in 1 .. Len(ts) : Quantities(ts)[i] \in Nat
    BY <2>3
  <2> QED
    BY <2>1, <2>2, <2>4
<1>2. SumFunctionOnSet(Quantities(ts), DOMAIN ts) \in Nat
  BY <1>1, SumNat
<1> QED
  BY <1>2 DEF Total, Quantities

\* One more trade.
LEMMA TotalAppend ==
    ASSUME NEW ts \in Seq(Trade), NEW t \in Trade
    PROVE  Append(ts, t) \in Seq(Trade) /\ Total(Append(ts, t)) = Total(ts) + t.qty
<1> DEFINE more == Append(ts, t)
<1>1. /\ more \in Seq(Trade) /\ Len(more) = Len(ts) + 1 /\ Len(ts) \in Nat /\ more[Len(ts) + 1] = t
      /\ \A i \in 1 .. Len(ts) : more[i] = ts[i]
  <2> HIDE DEF Trade
  <2> QED
    OBVIOUS
<1>2. t.qty \in Int
  BY DEF Trade
<1> HIDE DEF more
<1>3. /\ Quantities(ts) \in Seq(Int) /\ Len(Quantities(ts)) = Len(ts)
      /\ Quantities(more) \in Seq(Int) /\ Len(Quantities(more)) = Len(ts) + 1
  BY <1>1, TotalIsSum
<1>4. \A i \in 1 .. Len(ts) : Quantities(ts)[i] = ts[i].qty
  <2>1. DOMAIN ts = 1 .. Len(ts)
    OBVIOUS
  <2> QED
    BY <2>1 DEF Quantities
<1>5. \A i \in 1 .. Len(ts) + 1 : Quantities(more)[i] = more[i].qty
  <2>1. DOMAIN more = 1 .. Len(ts) + 1
    BY <1>1
  <2> QED
    BY <2>1 DEF Quantities
<1> DEFINE q == Quantities(ts)
           r == Quantities(more)
<1>6. \A i \in 1 .. Len(ts) + 1 : r[i] = IF i <= Len(ts) THEN q[i] ELSE t.qty
  BY <1>1, <1>4, <1>5
<1> HIDE DEF q, r
<1>7. r = Append(q, t.qty)
  <2>1. q \in Seq(Int) /\ Len(q) = Len(ts) /\ r \in Seq(Int) /\ Len(r) = Len(ts) + 1
    BY <1>3 DEF q, r
  <2> QED
    BY <1>1, <1>2, <1>6, <2>1
<1>8. SumSeq(r) = SumSeq(q) + t.qty
  BY <1>2, <1>3, <1>7, SumSeqAppend DEF q
<1> QED
  BY <1>1, <1>8, TotalIsSum DEF q, r, more

\* The first trade, and the others.
LEMMA TotalTail ==
    ASSUME NEW ts \in Seq(Trade), ts # << >>
    PROVE  /\ Head(ts) \in Trade /\ Tail(ts) \in Seq(Trade) /\ Total(ts) = Head(ts).qty + Total(Tail(ts))
           /\ Head(ts) = ts[1] /\ Len(ts) > 0
           /\ \A i \in 1 .. Len(Tail(ts)) : i + 1 \in 1 .. Len(ts) /\ Tail(ts)[i] = ts[i + 1]
<1> DEFINE less == Tail(ts)
<1>1. /\ less \in Seq(Trade) /\ Len(less) = Len(ts) - 1 /\ Len(ts) \in Nat /\ Len(ts) > 0
      /\ \A i \in 1 .. Len(ts) - 1 : i + 1 \in 1 .. Len(ts) /\ less[i] = ts[i + 1]
      /\ Head(ts) = ts[1] /\ Head(ts) \in Trade
  <2> HIDE DEF Trade
  <2> QED
    OBVIOUS
<1> HIDE DEF less
<1>3. /\ Quantities(ts) \in Seq(Int) /\ Len(Quantities(ts)) = Len(ts)
      /\ Quantities(less) \in Seq(Int) /\ Len(Quantities(less)) = Len(ts) - 1
  BY <1>1, TotalIsSum
<1>4. \A i \in 1 .. Len(ts) : Quantities(ts)[i] = ts[i].qty
  <2>1. DOMAIN ts = 1 .. Len(ts)
    OBVIOUS
  <2> QED
    BY <2>1 DEF Quantities
<1>5. \A i \in 1 .. Len(ts) - 1 : Quantities(less)[i] = less[i].qty
  <2>1. DOMAIN less = 1 .. Len(ts) - 1
    BY <1>1
  <2> QED
    BY <2>1 DEF Quantities
<1> DEFINE q == Quantities(ts)
           r == Quantities(less)
<1>6. q[1] = Head(ts).qty /\ \A i \in 1 .. Len(ts) - 1 : r[i] = q[i + 1]
  BY <1>1, <1>4, <1>5
<1> HIDE DEF q, r
<1>7. q \in Seq(Int) /\ Len(q) = Len(ts) /\ r \in Seq(Int) /\ Len(r) = Len(ts) - 1
  BY <1>3 DEF q, r
<1>8. q # << >> /\ r = Tail(q) /\ Head(q) = q[1]
  <2>1. q # << >> /\ Head(q) = q[1]
    BY <1>1, <1>7
  <2>2. /\ Tail(q) \in Seq(Int) /\ Len(Tail(q)) = Len(q) - 1
        /\ \A i \in 1 .. Len(q) - 1 : Tail(q)[i] = q[i + 1]
    BY <1>7, <2>1
  <2>3. r = [i \in 1 .. Len(ts) - 1 |-> q[i + 1]]
    BY <1>6, <1>7
  <2>4. Tail(q) = [i \in 1 .. Len(ts) - 1 |-> q[i + 1]]
    <3> DEFINE u == Tail(q)
               n == Len(ts) - 1
    <3>1. u \in Seq(Int) /\ Len(u) = n /\ \A i \in 1 .. n : u[i] = q[i + 1]
      BY <1>7, <2>2
    <3> HIDE DEF u, n
    <3>2. u = [i \in 1 .. n |-> q[i + 1]]
      BY <3>1
    <3> QED
      BY <3>2 DEF u, n
  <2> QED
    BY <2>1, <2>3, <2>4
<1>9. SumSeq(q) = Head(ts).qty + SumSeq(r)
  BY <1>6, <1>7, <1>8, SumSeqTail
<1> QED
  BY <1>1, <1>9, TotalIsSum DEF q, r, less
-----------------------------------------------------------------------------
(* What the holder of mtx_ is doing.                                       *)

Totals == [orders : Nat, trades : Nat, rejects : Nat]

\* The client's order is being matched: the trades so far are its fills.
Matched(c) ==
    /\ incoming = call[c].id /\ call[c].known /\ unbooked = << >>
    /\ order[incoming].side = call[c].order.side /\ order[incoming].qty = call[c].order.qty
    /\ Total(trades) = order[incoming].filled_qty
    /\ \A i \in 1 .. Len(trades) : trades[i].taker = call[c].id /\ trades[i].resting # call[c].id

\* The client's trades are being booked.
Booked(c) ==
    /\ incoming = NoOrder /\ call[c].known
    /\ order[call[c].id].side = call[c].order.side
    /\ Total(unbooked) <= call[c].order.qty
    /\ \A i \in 1 .. Len(unbooked) : unbooked[i].taker = call[c].id /\ unbooked[i].resting # call[c].id

\* The mutex protects the book and what on_fill has yet to see.
Served ==
    /\ holder \in Clients \cup {NoClient} /\ unbooked \in Seq(Trade) /\ net \in Int /\ flow \in Int
    /\ totals \in Totals
    /\ \A c \in Clients : call[c].at \in {"matching", "booking"} <=> holder = c
    /\ incoming = NoOrder => trades = << >>
    /\ holder = NoClient => incoming = NoOrder /\ unbooked = << >>
    /\ \A c \in Clients : call[c].at = "matching" => Matched(c)
    /\ \A c \in Clients : call[c].at = "booking" => Booked(c)

SInv == BP!IInv /\ Calls /\ Served /\ FillsBookedOnce

\* Quantities with their sign.
LEMMA TowardSum ==
    ASSUME NEW side \in Side, NEW a \in Int, NEW b \in Int
    PROVE  /\ Toward(side, a) \in Int /\ Toward(side, 0) = 0
           /\ Toward(side, a + b) = Toward(side, a) + Toward(side, b)
<1>1. CASE side = "BUY"
  BY <1>1 DEF Toward
<1>2. CASE side = "SELL"
  <2>1. \A n : Toward(side, n) = -n
    BY <1>2 DEF Toward
  <2> QED
    BY <2>1
<1> QED
  BY <1>1, <1>2 DEF Side

\* The client's step and another client's state.
LEMMA OthersAway ==
    ASSUME Served, NEW c \in Clients, holder \in {c, NoClient}, NEW d \in Clients, d # c
    PROVE  call[d].at \notin {"matching", "booking"}
  BY ClientsAssumption DEF Served

\* What is pending.
LEMMA BookedOnce ==
    ASSUME net \in Int
    PROVE  /\ holder = NoClient => (FillsBookedOnce <=> net = flow)
           /\ holder # NoClient =>
                 (FillsBookedOnce
                     <=> net + Toward(call[holder].order.side, Total(trades) + Total(unbooked)) = flow)
<1>1. CASE holder = NoClient
  <2>1. FillsBookedOnce <=> net + 0 = flow
    BY <1>1 DEF FillsBookedOnce
  <2>2. net + 0 = net
    OBVIOUS
  <2> QED
    BY <1>1, <2>1, <2>2
<1>2. CASE holder # NoClient
  BY <1>2 DEF FillsBookedOnce
<1> QED
  BY <1>1, <1>2
\* A step that leaves the book, the mutex and the booking alone.
Aside ==
    /\ UNCHANGED <<holder, unbooked, net, flow, incoming, trades>>
    /\ totals' \in Totals
    /\ \A id \in OrderIds : order'[id].side = order[id].side /\ order'[id].filled_qty = order[id].filled_qty
    /\ holder # NoClient => order' = order
    /\ \A c \in Clients :
          \/ call'[c] = call[c]
          \/ call[c].at \notin {"matching", "booking"} /\ call'[c].at \notin {"matching", "booking"}

\* Such a step keeps Served.
LEMMA AsideServes == SInv /\ Aside => Served' /\ FillsBookedOnce'
<1> SUFFICES ASSUME SInv, Aside PROVE Served' /\ FillsBookedOnce'
  OBVIOUS
<1>1. UNCHANGED <<holder, unbooked, net, flow, incoming, trades>> /\ totals' \in Totals
  BY DEF Aside
<1>2. \A c \in Clients : call[c].at \in {"matching", "booking"} => holder = c
  BY DEF SInv, Served
<1>3. \A c \in Clients : call'[c].at \in {"matching", "booking"} =>
          call'[c] = call[c] /\ holder = c /\ order' = order
  BY <1>2, ClientsAssumption DEF Aside
<1>4. \A c \in Clients : call'[c].at \in {"matching", "booking"} <=> holder' = c
  <2>1. \A c \in Clients : holder = c => call'[c] = call[c]
    BY DEF SInv, Served, Aside
  <2> QED
    BY <1>1, <1>3, <2>1 DEF SInv, Served
<1>5. ASSUME NEW c \in Clients, call'[c].at = "matching" PROVE Matched(c)'
  BY <1>1, <1>3, <1>5 DEF SInv, Served, Matched
<1>6. ASSUME NEW c \in Clients, call'[c].at = "booking" PROVE Booked(c)'
  BY <1>1, <1>3, <1>6 DEF SInv, Served, Booked
<1>7. Served'
  BY <1>1, <1>4, <1>5, <1>6 DEF SInv, Served
<1>8. FillsBookedOnce'
  <2>1. net \in Int /\ net' \in Int /\ (holder # NoClient => holder \in Clients)
    BY <1>1 DEF SInv, Served
  <2>2. CASE holder = NoClient
    BY <1>1, <2>1, <2>2, BookedOnce DEF SInv, FillsBookedOnce
  <2>3. CASE holder # NoClient
    <3>1. call'[holder] = call[holder]
      BY <2>1, <2>3 DEF SInv, Served, Aside
    <3> QED
      BY <1>1, <3>1 DEF SInv, FillsBookedOnce
  <2> QED
    BY <2>2, <2>3
<1> QED
  BY <1>7, <1>8

\* A submission, up to check_order's answer.
LEMMA SubmitAside ==
    ASSUME SInv, NEW c \in Clients, NEW id \in OrderIds, NEW o \in Requested, NEW known \in BOOLEAN, NEW market,
           Submits(c, id, o, known, market)
    PROVE  Aside
<1>1. UNCHANGED <<holder, unbooked, net, flow, incoming, trades, order>>
  BY DEF Submits, bookVars
<1>2. totals' \in Totals
  <2>1. totals \in Totals
    BY DEF SInv, Served
  <2>2. \/ totals' = [totals EXCEPT !.orders = @ + 1]
        \/ totals' = [totals EXCEPT !.orders = @ + 1, !.rejects = @ + 1]
    BY DEF Submits
  <2>3. CASE totals' = [totals EXCEPT !.orders = @ + 1]
    BY <2>1, <2>3 DEF Totals
  <2>4. CASE totals' = [totals EXCEPT !.orders = @ + 1, !.rejects = @ + 1]
    <3> DEFINE one == [totals EXCEPT !.orders = @ + 1]
               two == [one EXCEPT !.rejects = @ + 1]
    <3>1. one \in Totals
      BY <2>1 DEF Totals
    <3> HIDE DEF one
    <3>2. two \in Totals
      BY <3>1 DEF Totals
    <3>3. totals' = two
      BY <2>1, <2>4 DEF one, Totals
    <3> QED
      BY <3>2, <3>3
  <2> QED
    BY <2>2, <2>3, <2>4
<1>3. ASSUME NEW d \in Clients
      PROVE  \/ call'[d] = call[d]
             \/ call[d].at \notin {"matching", "booking"} /\ call'[d].at \notin {"matching", "booking"}
  <2>1. CASE call' = call
    BY <2>1
  <2>2. CASE call' # call
    <3> DEFINE k == [at |-> "approved", id |-> id, order |-> o, known |-> known]
    <3>1. call' = [call EXCEPT ![c] = k] /\ call[c] = Outside
      BY <2>2 DEF Submits
    <3>2. k.at \notin {"matching", "booking"} /\ Outside.at \notin {"matching", "booking"}
      BY CallType
    <3> HIDE DEF k
    <3> QED
      BY <3>1, <3>2 DEF SInv, Calls
  <2> QED
    BY <2>1, <2>2
<1> QED
  BY <1>1, <1>2, <1>3 DEF Aside

\* A rejection of an unknown symbol.
LEMMA RejectAside == ASSUME SInv, NEW c \in Clients, RejectUnknown(c) PROVE Aside
<1>1. UNCHANGED <<holder, unbooked, net, flow, incoming, trades, order>>
  BY DEF RejectUnknown, bookVars
<1>2. totals' \in Totals
  <2>1. totals \in Totals
    BY DEF SInv, Served
  <2> QED
    BY <2>1 DEF RejectUnknown, Totals
<1>3. call' = [call EXCEPT ![c] = Outside] /\ call[c].at = "approved"
  BY DEF RejectUnknown
<1>4. \A d \in Clients :
         \/ call'[d] = call[d]
         \/ call[d].at \notin {"matching", "booking"} /\ call'[d].at \notin {"matching", "booking"}
  BY <1>3, CallType DEF SInv, Calls
<1> QED
  BY <1>1, <1>2, <1>4 DEF Aside

\* A cancellation or an amendment.
LEMMA StillAside ==
    ASSUME SInv, Still, holder = NoClient, UNCHANGED <<call, holder, unbooked, net, totals, flow>>
    PROVE  Aside
<1>1. totals' \in Totals
  BY DEF SInv, Served
<1> QED
  BY <1>1 DEF Aside, Still, Unfilled
\* Served in the next state, when only c's call has changed and c has or had the mutex.
LEMMA ServesNext ==
    ASSUME SInv, NEW c \in Clients, holder \in {c, NoClient}, holder' \in {c, NoClient},
           \A d \in Clients : d # c => call'[d] = call[d],
           call'[c].at \in {"matching", "booking"} <=> holder' = c,
           unbooked' \in Seq(Trade), net' \in Int, flow' \in Int, totals' \in Totals,
           incoming' = NoOrder => trades' = << >>,
           holder' = NoClient => incoming' = NoOrder /\ unbooked' = << >>,
           call'[c].at = "matching" => Matched(c)',
           call'[c].at = "booking" => Booked(c)'
    PROVE  Served'
<1>1. \A d \in Clients : d # c => call'[d].at \notin {"matching", "booking"}
  BY OthersAway DEF SInv
<1>2. \A d \in Clients : call'[d].at \in {"matching", "booking"} <=> holder' = d
  BY <1>1, ClientsAssumption
<1>3. \A d \in Clients : call'[d].at = "matching" => Matched(d)'
  BY <1>1
<1>4. \A d \in Clients : call'[d].at = "booking" => Booked(d)'
  BY <1>1
<1> QED
  BY <1>2, <1>3, <1>4 DEF Served

\* mtx_ is taken and the order is entered.
LEMMA EnterServes ==
    ASSUME SInv, BP!IInv', NEW c \in Clients, Enter(c)
    PROVE  Served' /\ FillsBookedOnce'
<1>1. /\ call[c] \in Call /\ call[c].at = "approved" /\ call[c].known /\ holder = NoClient /\ holder' = c
      /\ UNCHANGED <<issued, unbooked, net, totals, flow>>
  BY EnterGoes DEF SInv
<1>2. PICK p \in {"matching", "booking"} :
         p = (IF incoming' = NoOrder THEN "booking" ELSE "matching") /\ Goes(c, [call[c] EXCEPT !.at = p])
  BY EnterGoes DEF SInv
<1> DEFINE k == [call[c] EXCEPT !.at = p]
           id == call[c].id
<1>3. k.at = p /\ k.id = id /\ k.order = call[c].order /\ k.known = call[c].known
  BY <1>1, CallType
<1>4. call'[c] = k /\ \A d \in Clients : d # c => call'[d] = call[d]
  BY <1>1, <1>2, CallsGo DEF SInv, Calls
<1>5. Entered(id, call[c].order) /\ id \in OrderIds
  BY <1>1, EnterSeen DEF SInv, Call
<1> HIDE DEF k, id
<1>6. trades = << >> /\ trades' = << >> /\ unbooked = << >> /\ unbooked' = << >>
  BY <1>1, <1>5 DEF SInv, Served, Entered
<1>7. call[c].order.qty \in Nat
  BY <1>1, MaxQtyAssumption DEF Call, Approved, Submittable
<1>8. Len(trades') = 0 /\ Len(unbooked') = 0 /\ Total(trades') = 0 /\ Total(unbooked') = 0
  BY <1>6, TotalEmpty
<1>9. call'[c].at = p /\ call'[c].id = id /\ call'[c].order = call[c].order /\ call'[c].known
  BY <1>1, <1>3, <1>4
<1>10. ASSUME p = "matching" PROVE Matched(c)'
  <2>1. incoming' = id
    BY <1>2, <1>5, <1>10 DEF Entered
  <2>2. /\ order'[id].side = call[c].order.side /\ order'[id].qty = call[c].order.qty
        /\ order'[id].filled_qty = 0
    BY <1>5 DEF Entered
  <2> QED
    BY <1>6, <1>8, <1>9, <2>1, <2>2 DEF Matched
<1>11. ASSUME p = "booking" PROVE Booked(c)'
  <2>1. incoming' = NoOrder
    BY <1>2, <1>11
  <2>2. order'[id].side = call[c].order.side
    BY <1>5 DEF Entered
  <2> QED
    BY <1>7, <1>8, <1>9, <2>1, <2>2 DEF Booked
<1>12. Served'
  BY <1>1, <1>2, <1>3, <1>4, <1>6, <1>10, <1>11, ClientsAssumption, ServesNext DEF SInv, Served
<1>13. FillsBookedOnce'
  <2>1. net' \in Int /\ net = flow
    BY <1>1, BookedOnce DEF SInv, Served
  <2>2. call'[c].order.side \in Side
    BY <1>1, <1>3, <1>4 DEF Call, Approved, Submittable
  <2>3. Toward(call'[c].order.side, Total(trades') + Total(unbooked')) = 0
    BY <1>6, <2>2, TotalEmpty, TowardSum
  <2> QED
    BY <1>1, <2>1, <2>3, ClientsAssumption DEF FillsBookedOnce
<1> QED
  BY <1>12, <1>13

\* A trade adds to what is pending what it adds to the flow.
LEMMA MatchServes ==
    ASSUME SInv, BP!IInv', NEW c \in Clients, Match(c)
    PROVE  Served' /\ FillsBookedOnce'
<1> DEFINE id == call[c].id
           side == order[incoming].side
<1>1. /\ holder = c /\ holder' = c /\ call[c].at = "matching" /\ BP!Fill
      /\ totals' = [totals EXCEPT !.trades = @ + 1]
      /\ flow' = flow + Toward(side, order'[incoming].filled_qty - order[incoming].filled_qty)
      /\ UNCHANGED <<issued, call, unbooked, net>>
  BY MatchGoes
<1>2. PICK rid, qty : Traded(rid, qty)
  BY <1>1, MatchSeen DEF SInv
<1>3. /\ Matched(c) /\ incoming = id /\ incoming' = id /\ id \in OrderIds
      /\ unbooked = << >> /\ unbooked' = << >>
  BY <1>1, <1>2 DEF SInv, Served, Matched, Traded
<1>4. PICK price : trades' = Append(trades, [taker |-> incoming, resting |-> rid, price |-> price, qty |-> qty])
  BY <1>2 DEF Traded
<1> DEFINE t == [taker |-> incoming, resting |-> rid, price |-> price, qty |-> qty]
<1>5. t.taker = id /\ t.resting = rid /\ t.qty = qty
  BY <1>3
<1> HIDE DEF t
<1>6. trades \in Seq(Trade) /\ trades' \in Seq(Trade) /\ trades' = Append(trades, t)
  BY <1>4, BookTypes, TradesTyped DEF SInv, t
<1>7. /\ Len(trades') = Len(trades) + 1 /\ Len(trades) \in Nat /\ trades'[Len(trades) + 1] = t
      /\ \A i \in 1 .. Len(trades) : trades'[i] = trades[i]
  <2> HIDE DEF Trade
  <2> QED
    BY <1>6
<1>8. t \in Trade
  <2>1. trades'[Len(trades) + 1] \in Trade
    <3> HIDE DEF Trade
    <3> QED
      BY <1>6, <1>7
  <2> QED
    BY <1>7, <2>1
<1>9. Total(trades') = Total(trades) + qty
  BY <1>5, <1>6, <1>8, TotalAppend
<1>10. /\ qty \in Nat /\ order[id].filled_qty \in Nat /\ order'[id].filled_qty = order[id].filled_qty + qty
       /\ order'[id].side = order[id].side /\ order'[id].qty = order[id].qty /\ rid # id
  BY <1>2, <1>3, BookTypes DEF SInv, Traded
<1>11. \A i \in 1 .. Len(trades') : trades'[i].taker = id /\ trades'[i].resting # id
  <2>1. ASSUME NEW i \in 1 .. Len(trades') PROVE i \in 1 .. Len(trades) \/ i = Len(trades) + 1
    BY <1>7
  <2> QED
    BY <1>3, <1>5, <1>7, <1>10, <2>1 DEF Matched
<1>12. Matched(c)'
  BY <1>1, <1>3, <1>9, <1>10, <1>11 DEF Matched
<1>13. totals' \in Totals
  BY <1>1 DEF SInv, Served, Totals
<1>14. side \in Side /\ side = call[c].order.side /\ Total(trades) \in Nat
  BY <1>3, <1>6, BookTypes, TotalType DEF SInv, Matched
<1>15. flow' = flow + Toward(side, qty)
  BY <1>1, <1>3, <1>10
<1>16. Toward(side, qty) \in Int /\ Toward(side, Total(trades) + qty) = Toward(side, Total(trades)) + Toward(side, qty)
       /\ Toward(side, Total(trades)) \in Int
  <2> DEFINE a == Total(trades)
  <2>1. a \in Int /\ qty \in Int
    BY <1>10, <1>14
  <2> HIDE DEF a, side
  <2>2. Toward(side, a + qty) = Toward(side, a) + Toward(side, qty) /\ Toward(side, a) \in Int
    BY <1>14, <2>1, TowardSum
  <2>3. Toward(side, qty) \in Int
    BY <1>14, <2>1, TowardSum
  <2> QED
    BY <2>2, <2>3 DEF a
<1>17. Served'
  <2>1. net' \in Int /\ flow' \in Int /\ unbooked' \in Seq(Trade)
    BY <1>1, <1>15, <1>16 DEF SInv, Served
  <2>2. incoming' # NoOrder
    BY <1>3, NoOrderAssumption
  <2>3. holder' # NoClient
    BY <1>1, ClientsAssumption
  <2> HIDE DEF side, id
  <2> QED
    BY <1>1, <1>12, <1>13, <2>1, <2>2, <2>3, ServesNext DEF SInv
<1>18. FillsBookedOnce'
  <2>1. net \in Int /\ flow \in Int
    BY DEF SInv, Served
  <2>2. net + Toward(side, Total(trades) + 0) = flow
    BY <1>1, <1>3, <1>14, <2>1, BookedOnce, ClientsAssumption, TotalEmpty DEF SInv
  <2>3. net + Toward(side, Total(trades')) = flow'
    <3>1. Total(trades) + 0 = Total(trades)
      BY <1>14
    <3> DEFINE a == Toward(side, Total(trades))
               b == Toward(side, qty)
    <3>2. net + a = flow
      BY <2>2, <3>1
    <3>3. Toward(side, Total(trades')) = a + b /\ flow' = flow + b /\ a \in Int /\ b \in Int
      <4>1. Toward(side, Total(trades')) = Toward(side, Total(trades) + qty)
        BY <1>9
      <4> HIDE DEF side
      <4> QED
        BY <4>1, <1>15, <1>16
    <3> DEFINE z == Toward(side, Total(trades'))
    <3>4. z = a + b
      BY <3>3
    <3> HIDE DEF a, b, z
    <3>5. net + z = flow'
      BY <2>1, <3>2, <3>3, <3>4
    <3> QED
      BY <3>5 DEF z
  <2>4. Total(trades') + Total(unbooked') = Total(trades')
    <3>1. Total(unbooked') = 0
      BY <1>3, TotalEmpty
    <3>2. Total(trades') \in Nat
      BY <1>6, TotalType
    <3> QED
      BY <3>1, <3>2
  <2> QED
    BY <1>1, <1>14, <2>3, <2>4, ClientsAssumption DEF FillsBookedOnce
<1> QED
  BY <1>17, <1>18
\* The fills that add_order returns are the order's, and no more than it asked for.
LEMMA ReturnServes ==
    ASSUME SInv, NEW c \in Clients, Return(c)
    PROVE  Served' /\ FillsBookedOnce'
<1> DEFINE id == call[c].id
           side == call[c].order.side
<1>1. /\ holder = c /\ holder' = c /\ call[c].at = "matching" /\ call[c] \in Call /\ unbooked' = trades
      /\ BP!EndOfCall /\ Goes(c, [call[c] EXCEPT !.at = "booking"])
      /\ UNCHANGED <<issued, net, totals, flow>>
  BY ReturnGoes DEF SInv
<1> DEFINE k == [call[c] EXCEPT !.at = "booking"]
<1>2. k.at = "booking" /\ k.id = id /\ k.order = call[c].order /\ k.known = call[c].known
  BY <1>1, CallType
<1>3. call'[c] = k /\ \A d \in Clients : d # c => call'[d] = call[d]
  BY <1>1, CallsGo DEF SInv, Calls
<1> HIDE DEF k
<1>4. call'[c].at = "booking" /\ call'[c].id = id /\ call'[c].order = call[c].order /\ call'[c].known = call[c].known
  BY <1>2, <1>3
<1>5. incoming' = NoOrder /\ trades' = << >> /\ Unfilled
  BY <1>1, ReturnSeen DEF SInv
<1>6. Matched(c) /\ incoming = id /\ id \in OrderIds /\ unbooked = << >>
  BY <1>1, ReturnSeen DEF SInv, Served, Matched
<1>7. trades \in Seq(Trade) /\ order[id].filled_qty <= order[id].qty /\ side \in Side
  BY <1>6, BookTypes DEF SInv, Matched
<1>8. Booked(c)'
  <2>1. order'[id].side = side
    BY <1>5, <1>6 DEF Unfilled, Matched
  <2>2. Total(unbooked') <= call[c].order.qty
    BY <1>1, <1>6, <1>7 DEF Matched
  <2>3. \A i \in 1 .. Len(unbooked') : unbooked'[i].taker = id /\ unbooked'[i].resting # id
    BY <1>1, <1>6 DEF Matched
  <2> QED
    BY <1>4, <1>5, <1>6, <2>1, <2>2, <2>3 DEF Booked, Matched
<1>9. Served'
  <2>1. net' \in Int /\ flow' \in Int /\ totals' \in Totals /\ unbooked' \in Seq(Trade)
    BY <1>1, <1>7 DEF SInv, Served
  <2>2. holder' # NoClient
    BY <1>1, ClientsAssumption
  <2> HIDE DEF id, side
  <2> QED
    BY <1>1, <1>3, <1>4, <1>5, <1>8, <2>1, <2>2, ServesNext
<1>10. FillsBookedOnce'
  <2>1. Total(trades') = 0 /\ Total(unbooked) = 0 /\ Total(trades) \in Nat
    BY <1>5, <1>6, <1>7, TotalEmpty, TotalType
  <2>2. Total(trades') + Total(unbooked') = Total(trades) + Total(unbooked)
    BY <1>1, <2>1
  <2>3. net + Toward(side, Total(trades) + Total(unbooked)) = flow
    BY <1>1, ClientsAssumption DEF SInv, FillsBookedOnce
  <2>4. net' + Toward(call'[c].order.side, Total(trades') + Total(unbooked')) = flow'
    BY <1>1, <1>4, <2>2, <2>3
  <2> QED
    BY <1>1, <2>4, ClientsAssumption DEF FillsBookedOnce
<1> QED
  BY <1>9, <1>10

\* on_fill credits the incoming order's side.
LEMMA RightSide ==
    ASSUME NEW c \in Clients, Booked(c), NEW t, t.taker = call[c].id, t.resting # call[c].id,
           call[c].order.side \in Side
    PROVE  FillSide(t, call[c].id) = call[c].order.side
  BY DEF Booked, FillSide, BuyOrder, Side

\* What on_fill takes from the trades it has not seen is what the position gains.
LEMMA OnFillServes ==
    ASSUME SInv, NEW c \in Clients, OnFill(c)
    PROVE  /\ Served' /\ FillsBookedOnce' /\ call[c].order.side \in Side
           /\ \E q \in Nat : /\ net' = net + Toward(call[c].order.side, q)
                             /\ Total(unbooked') \in Nat /\ Total(unbooked) = q + Total(unbooked')
<1> DEFINE id == call[c].id
           side == call[c].order.side
           t == Head(unbooked)
<1>1. /\ holder = c /\ holder' = c /\ call[c].at = "booking" /\ call' = call
      /\ unbooked # << >> /\ unbooked' = Tail(unbooked) /\ net' = net + Toward(FillSide(t, id), t.qty)
      /\ UNCHANGED <<order, incoming, trades, totals, flow>>
  BY DEF OnFill, bookVars
<1>2. Booked(c) /\ unbooked \in Seq(Trade) /\ net \in Int /\ flow \in Int /\ totals \in Totals
  BY <1>1 DEF SInv, Served
<1>3. /\ t \in Trade /\ unbooked' \in Seq(Trade) /\ Total(unbooked) = t.qty + Total(unbooked')
      /\ t = unbooked[1] /\ Len(unbooked) > 0
      /\ \A i \in 1 .. Len(unbooked') : i + 1 \in 1 .. Len(unbooked) /\ unbooked'[i] = unbooked[i + 1]
  BY <1>1, <1>2, TotalTail
<1>4. t.qty \in Nat /\ Total(unbooked') \in Nat /\ Total(unbooked) \in Nat
  BY <1>2, <1>3, TotalType DEF Trade
<1>5. call[c] \in Call /\ side \in Side
  <2>1. call[c] \in Call
    BY <1>1, CallType DEF SInv, Calls
  <2> QED
    BY <2>1 DEF Call, Approved, Submittable
<1>6. FillSide(t, id) = side
  <2>1. 1 \in 1 .. Len(unbooked)
    <3>1. Len(unbooked) \in Nat
      BY <1>2
    <3> QED
      BY <1>3, <3>1
  <2>2. t.taker = id /\ t.resting # id
    BY <1>2, <1>3, <2>1 DEF Booked
  <2> HIDE DEF t
  <2> QED
    BY <1>2, <1>5, <2>2, RightSide
<1> HIDE DEF t
<1>7. net' = net + Toward(side, t.qty) /\ Toward(side, t.qty) \in Int /\ net' \in Int
  BY <1>1, <1>2, <1>4, <1>5, <1>6, TowardSum
<1>8. Booked(c)'
  <2>1. Total(unbooked') <= call[c].order.qty
    <3>1. call[c].order.qty \in Nat
      BY <1>5, MaxQtyAssumption DEF Call, Approved, Submittable
    <3>2. Total(unbooked) <= call[c].order.qty
      BY <1>2 DEF Booked
    <3> QED
      BY <1>3, <1>4, <3>1, <3>2
  <2>2. \A i \in 1 .. Len(unbooked') : unbooked'[i].taker = id /\ unbooked'[i].resting # id
    BY <1>2, <1>3 DEF Booked
  <2> QED
    BY <1>1, <1>2, <2>1, <2>2 DEF Booked
<1>9. Served'
  <2>1. holder' # NoClient
    BY <1>1, ClientsAssumption
  <2>2. incoming' = NoOrder => trades' = << >>
    BY <1>1 DEF SInv, Served
  <2> HIDE DEF id, side
  <2> QED
    BY <1>1, <1>2, <1>3, <1>7, <1>8, <2>1, <2>2, ServesNext
<1>10. FillsBookedOnce'
  <2>1. Total(trades) = 0 /\ trades' = trades
    BY <1>1, <1>2, TotalEmpty DEF SInv, Served, Booked
  <2>2. net + Toward(side, Total(trades) + Total(unbooked)) = flow
    BY <1>1, ClientsAssumption DEF SInv, FillsBookedOnce
  <2> DEFINE u == Total(unbooked')
             q == t.qty
             a == Toward(side, q)
             b == Toward(side, u)
             z == Toward(side, Total(trades) + Total(unbooked))
             y == Toward(side, Total(trades') + Total(unbooked'))
  <2>3. Total(trades) + Total(unbooked) = q + u /\ Total(trades') + Total(unbooked') = u
    BY <1>3, <1>4, <2>1
  <2>4. z = Toward(side, q + u) /\ y = b
    BY <2>3
  <2>5. u \in Int /\ q \in Int
    BY <1>4
  <2> HIDE DEF u, q, side
  <2>6. Toward(side, q + u) = a + b /\ a \in Int /\ b \in Int
    BY <1>5, <2>5, TowardSum
  <2>7. net' = net + a /\ net + z = flow /\ flow' = flow
    BY <1>1, <1>7, <2>2 DEF q, side
  <2> HIDE DEF a, b, y, z
  <2>8. net' + y = flow'
    BY <1>2, <2>4, <2>6, <2>7
  <2> QED
    BY <1>1, <2>8, ClientsAssumption DEF FillsBookedOnce, y, side
<1> QED
  BY <1>3, <1>4, <1>5, <1>7, <1>9, <1>10

\* The call returns with nothing left to book.
LEMMA AnswerServes ==
    ASSUME SInv, NEW c \in Clients, Answer(c)
    PROVE  Served' /\ FillsBookedOnce'
<1>1. /\ holder = c /\ holder' = NoClient /\ call[c].at = "booking" /\ unbooked = << >>
      /\ call' = [call EXCEPT ![c] = Outside]
      /\ UNCHANGED <<order, incoming, trades, unbooked, net, totals, flow>>
  BY DEF Answer, bookVars
<1>2. Booked(c) /\ unbooked \in Seq(Trade) /\ net \in Int /\ flow \in Int /\ totals \in Totals
  BY <1>1 DEF SInv, Served
<1>3. call'[c] = Outside /\ \A d \in Clients : d # c => call'[d] = call[d]
  BY <1>1 DEF SInv, Calls
<1>4. call'[c].at \notin {"matching", "booking"} /\ holder' # c
  BY <1>1, <1>3, CallType, ClientsAssumption
<1>5. incoming = NoOrder /\ trades = << >>
  BY <1>2 DEF SInv, Served, Booked
<1>6. Served'
  BY <1>1, <1>2, <1>3, <1>4, <1>5, ServesNext
<1>7. FillsBookedOnce'
  <2>1. net + Toward(call[c].order.side, Total(trades) + Total(unbooked)) = flow
    BY <1>1, ClientsAssumption DEF SInv, FillsBookedOnce
  <2>2. call[c].order.side \in Side
    <3>1. call[c] \in Call
      BY <1>1, CallType DEF SInv, Calls
    <3> QED
      BY <3>1 DEF Call, Approved, Submittable
  <2>3. Total(trades) + Total(unbooked) = 0
    BY <1>1, <1>5, TotalEmpty
  <2>4. Toward(call[c].order.side, Total(trades) + Total(unbooked)) = 0
    BY <2>2, <2>3, TowardSum
  <2>5. net' = flow'
    BY <1>1, <1>2, <2>1, <2>4
  <2>6. net' \in Int
    BY <1>1, <1>2
  <2> QED
    BY <1>1, <2>5, <2>6 DEF FillsBookedOnce
<1> QED
  BY <1>6, <1>7
\* A client's step keeps the mutex's promise and the booking's.
LEMMA ProceedServes ==
    ASSUME SInv, BP!IInv', NEW c \in Clients, Proceed(c)
    PROVE  Served' /\ FillsBookedOnce'
<1>1. CASE RejectUnknown(c)
  BY <1>1, RejectAside, AsideServes
<1>2. CASE Enter(c)
  BY <1>2, EnterServes
<1>3. CASE Match(c)
  BY <1>3, MatchServes
<1>4. CASE Return(c)
  BY <1>4, ReturnServes
<1>5. CASE OnFill(c)
  BY <1>5, OnFillServes
<1>6. CASE Answer(c)
  BY <1>6, AnswerServes
<1> QED
  BY <1>1, <1>2, <1>3, <1>4, <1>5, <1>6 DEF Proceed

\* Every step does.
LEMMA ServedStep == SInv /\ [Next]_vars /\ BP!IInv' /\ Calls' => SInv'
<1> SUFFICES ASSUME SInv, [Next]_vars, BP!IInv', Calls' PROVE Served' /\ FillsBookedOnce'
  BY DEF SInv
<1>1. ASSUME NEW c \in Clients, NEW id \in OrderIds, NEW o \in Requested, NEW known \in BOOLEAN,
             NEW throttled \in BOOLEAN, NEW market \in {0} \cup Prices, Submit(c, id, o, known, market, throttled)
      PROVE  Aside
  BY <1>1, SubmitGoes, SubmitAside
<1>2. ASSUME NEW c \in Clients, Proceed(c) PROVE Served' /\ FillsBookedOnce'
  BY <1>2, ProceedServes
<1>3. ASSUME NEW id \in OrderIds, Cancel(id) PROVE Aside
  BY <1>3, CancelSeen, StillAside DEF SInv
<1>4. ASSUME NEW id \in OrderIds, NEW price \in Prices, NEW qty \in 1 .. MaxQty, Modify(id, price, qty)
      PROVE  Aside
  BY <1>4, ModifySeen, StillAside DEF SInv
<1>5. CASE UNCHANGED vars
  <2>1. Aside
    BY <1>5 DEF Aside, vars, SInv, Served
  <2> QED
    BY <2>1, AsideServes
<1>6. CASE Next
  BY <1>1, <1>2, <1>3, <1>4, <1>6, AsideServes DEF Next
<1> QED
  BY <1>5, <1>6

\* Nothing is under way at first.
LEMMA ServedInit == Init /\ BP!IInv /\ Calls => SInv
<1> SUFFICES ASSUME Init, BP!IInv, Calls PROVE Served /\ FillsBookedOnce
  BY DEF SInv
<1>1. /\ call = [c \in Clients |-> Outside] /\ holder = NoClient /\ unbooked = << >> /\ net = 0 /\ flow = 0
      /\ totals = [orders |-> 0, trades |-> 0, rejects |-> 0] /\ incoming = NoOrder /\ trades = << >>
  BY DEF Init, Book!Init
<1>2. \A c \in Clients : call[c].at \notin {"matching", "booking"} /\ holder # c
  BY <1>1, CallType, ClientsAssumption
<1>3. Served
  BY <1>1, <1>2 DEF Served, Totals
<1>4. FillsBookedOnce
  BY <1>1 DEF FillsBookedOnce
<1> QED
  BY <1>3, <1>4

\* Mutual exclusion around the book, and exact booking, hold for good.
THEOREM ServedInvariance == Spec => []SInv
<1>1. SInv /\ [Next]_vars /\ (BP!IInv /\ BP!LevelTotals)' /\ Calls' => SInv'
  BY ServedStep
<1>2. Init /\ (BP!IInv /\ BP!LevelTotals) /\ Calls => SInv
  BY ServedInit
<1> QED
  BY <1>1, <1>2, BookSpec, BookInvariance, PTL DEF Spec

\* TypeOK: whoever is inside add_order, or booking what it returned, is alone
\* there and holds mtx_, and the book is matching the holder's order.
THEOREM TypeCorrect == Spec => []TypeOK
<1>1. SInv => TypeOK
  <2> SUFFICES ASSUME SInv PROVE TypeOK
    OBVIOUS
  <2>1. ASSUME NEW c \in Clients
        PROVE  /\ call[c].at \in {"outside", "approved", "matching", "booking"}
               /\ call[c].at \in {"matching", "booking"} <=> holder = c
               /\ call[c] # Outside => call[c].id \in issued
               /\ call[c].at = "matching" => incoming = call[c].id
    <3>1. call[c] \in {Outside} \cup Call
      BY DEF SInv, Calls
    <3>2. call[c].at \in {"outside", "approved", "matching", "booking"}
      BY <3>1, CallType
    <3> QED
      BY <3>2 DEF SInv, Calls, Served, Matched
  <2> QED
    BY <2>1 DEF SInv, Calls, Served, Totals, TypeOK
<1> QED
  BY <1>1, ServedInvariance, PTL

\* FillsBookedOnce: every fill of an incoming order reaches the position once
\* and with the right sign, whatever other threads do between the trade and
\* on_fill.
THEOREM BookingExact == Spec => []FillsBookedOnce
<1>1. SInv => FillsBookedOnce
  BY DEF SInv
<1> QED
  BY <1>1, ServedInvariance, PTL
-----------------------------------------------------------------------------
(* How far the position check holds.  The position it reads is the         *)
(* booked one, and a fill moves from Outstanding to the position.          *)

\* What a call in state k may still add to the position, when u is unbooked.
Adds(k, u, side) ==
    IF k = Outside \/ ~k.known \/ k.order.side # side THEN 0
    ELSE IF k.at = "booking" THEN Total(u)
    ELSE k.order.qty

\* Calls cl and unbooked trades u as they are after a step of the simulator.
Fits(cl, u) ==
    /\ cl \in [Clients -> {Outside} \cup Call] /\ u \in Seq(Trade)
    /\ \A c \in Clients : cl[c].at = "booking" => Total(u) <= cl[c].order.qty

\* SInv gives that.
LEMMA SInvFits == SInv => Fits(call, unbooked) /\ net \in Int
  BY DEF SInv, Calls, Served, Booked, Fits

\* And after a step.
LEMMA SInvFitsNext == SInv' => Fits(call', unbooked') /\ net' \in Int
  BY DEF SInv, Calls, Served, Booked, Fits

\* One client adds no more than its order, which check_order limited.
LEMMA AddsType ==
    ASSUME NEW cl, NEW u, Fits(cl, u), NEW c \in Clients, NEW side \in Side
    PROVE  /\ Adds(cl[c], u, side) \in Nat
           /\ cl[c] # Outside => Adds(cl[c], u, side) <= cl[c].order.qty
           /\ 0 <= RiskLimits.max_order_qty => Adds(cl[c], u, side) <= RiskLimits.max_order_qty
<1> DEFINE k == cl[c]
<1>1. k \in {Outside} \cup Call /\ (k.at = "booking" => Total(u) <= k.order.qty) /\ Total(u) \in Nat
  BY TotalType DEF Fits
<1>2. RiskLimits.max_order_qty \in Int
  BY RiskLimitsAssumption DEF Limits
<1>3. CASE k = Outside
  <2>1. Adds(k, u, side) = 0
    BY <1>3 DEF Adds
  <2> QED
    BY <1>2, <1>3, <2>1
<1>4. CASE k # Outside
  <2>1. k \in Call
    BY <1>1, <1>4
  <2>2. k.order.qty \in Nat /\ k.order.qty <= RiskLimits.max_order_qty
    BY <2>1, MaxQtyAssumption DEF Call, Approved, Submittable
  <2>3. Adds(k, u, side) \in {0, k.order.qty} \/ (k.at = "booking" /\ Adds(k, u, side) = Total(u))
    BY DEF Adds
  <2>4. Adds(k, u, side) \in Nat /\ Adds(k, u, side) <= k.order.qty
    <3> DEFINE a == Adds(k, u, side)
               q == k.order.qty
               t == Total(u)
    <3>1. /\ q \in Nat /\ t \in Nat /\ (k.at = "booking" => t <= q)
          /\ (a \in {0, q} \/ (k.at = "booking" /\ a = t))
      BY <1>1, <2>2, <2>3
    <3> HIDE DEF a, q, t
    <3>2. a \in Nat /\ a <= q
      BY <3>1
    <3> QED
      BY <3>2 DEF a, q
  <2> QED
    BY <1>2, <1>4, <2>2, <2>4
<1> QED
  BY <1>3, <1>4

\* The exposure, in these terms.
Exposed(cl, u, n, side) == Toward(side, n) + SumFunctionOnSet([c \in Clients |-> Adds(cl[c], u, side)], Clients)

\* Exposure is that.
LEMMA ExposureIs ==
    ASSUME NEW side
    PROVE  Exposure(side) = Exposed(call, unbooked, net, side)
  BY DEF Exposure, Exposed, Outstanding, Adds

\* And after a step.
LEMMA ExposureIsNext ==
    ASSUME NEW side
    PROVE  Exposure(side)' = Exposed(call', unbooked', net', side)
  BY DEF Exposure, Exposed, Outstanding, Adds, Total

\* Exposure is an integer.
LEMMA ExposedType ==
    ASSUME NEW cl, NEW u, Fits(cl, u), NEW n \in Int, NEW side \in Side
    PROVE  /\ Exposed(cl, u, n, side) \in Int /\ Toward(side, n) \in Int
           /\ SumFunctionOnSet([c \in Clients |-> Adds(cl[c], u, side)], Clients) \in Int
<1> DEFINE f == [c \in Clients |-> Adds(cl[c], u, side)]
<1>1. \A c \in Clients : f[c] \in Int
  BY AddsType
<1> HIDE DEF f
<1>2. SumFunctionOnSet(f, Clients) \in Int
  BY <1>1, SumType, ClientsAssumption
<1>3. Toward(side, n) \in Int
  BY TowardSum
<1> QED
  BY <1>2, <1>3 DEF Exposed, f

\* If no summand grows, the exposure does not.
LEMMA ExposedFalls ==
    ASSUME NEW cl, NEW u, Fits(cl, u), NEW n \in Int, NEW kl, NEW v, Fits(kl, v), NEW m \in Int, NEW side \in Side,
           Toward(side, m) <= Toward(side, n),
           \A c \in Clients : Adds(kl[c], v, side) <= Adds(cl[c], u, side)
    PROVE  Exposed(kl, v, m, side) <= Exposed(cl, u, n, side)
<1> DEFINE f == [c \in Clients |-> Adds(cl[c], u, side)]
           g == [c \in Clients |-> Adds(kl[c], v, side)]
<1>1. \A c \in Clients : g[c] \in Int /\ f[c] \in Int /\ g[c] <= f[c]
  BY AddsType
<1>2. Toward(side, m) \in Int /\ Toward(side, n) \in Int
  BY TowardSum
<1> HIDE DEF f, g
<1>3. SumFunctionOnSet(g, Clients) <= SumFunctionOnSet(f, Clients)
  BY <1>1, SumMonotone, ClientsAssumption
<1>4. SumFunctionOnSet(g, Clients) \in Int /\ SumFunctionOnSet(f, Clients) \in Int
  BY <1>1, SumType, ClientsAssumption
<1>5. Toward(side, m) + SumFunctionOnSet(g, Clients) <= Toward(side, n) + SumFunctionOnSet(f, Clients)
  BY <1>2, <1>3, <1>4
<1> QED
  BY <1>5 DEF Exposed, f, g

\* A trade that is booked moves from one summand to another.
LEMMA ExposedMoves ==
    ASSUME NEW cl, NEW u, Fits(cl, u), NEW n \in Int, NEW v, Fits(cl, v), NEW side \in Side, NEW q \in Nat,
           NEW c \in Clients, Adds(cl[c], u, side) = q + Adds(cl[c], v, side),
           \A d \in Clients : d # c => Adds(cl[d], v, side) = Adds(cl[d], u, side)
    PROVE  Exposed(cl, v, n + Toward(side, q), side) <= Exposed(cl, u, n, side)
<1> DEFINE f == [d \in Clients |-> Adds(cl[d], u, side)]
           g == [d \in Clients |-> Adds(cl[d], v, side)]
<1>1. /\ \A d \in Clients : f[d] \in Int /\ g[d] \in Int
      /\ \A d \in Clients \ {c} : f[d] = g[d]
      /\ f[c] = q + g[c]
  BY AddsType
<1> HIDE DEF f, g
<1>2. SumFunctionOnSet(g, Clients) = SumFunctionOnSet(f, Clients) - f[c] + g[c]
  BY <1>1, SumUpdate, ClientsAssumption
<1>3. SumFunctionOnSet(f, Clients) \in Int
  BY <1>1, SumType, ClientsAssumption
<1>4. SumFunctionOnSet(g, Clients) = SumFunctionOnSet(f, Clients) - q
  BY <1>1, <1>2, <1>3
<1>5. Toward(side, n + Toward(side, q)) = Toward(side, n) + q /\ Toward(side, n) \in Int
  <2>1. CASE side = "BUY"
    BY <2>1 DEF Toward
  <2>2. CASE side = "SELL"
    <3>1. \A x : Toward(side, x) = -x
      BY <2>2 DEF Toward
    <3> HIDE DEF Toward
    <3>2. Toward(side, q) = -q /\ Toward(side, n) = -n /\ Toward(side, n + Toward(side, q)) = -(n + Toward(side, q))
      BY <3>1
    <3> QED
      BY <3>2
  <2> QED
    BY <2>1, <2>2 DEF Side
<1>6. Toward(side, n + Toward(side, q)) + SumFunctionOnSet(g, Clients)
          = Toward(side, n) + SumFunctionOnSet(f, Clients)
  BY <1>3, <1>4, <1>5
<1>7. Toward(side, n) + SumFunctionOnSet(f, Clients) \in Int
  BY <1>3, <1>5
<1>8. Exposed(cl, v, n + Toward(side, q), side) = Exposed(cl, u, n, side) /\ Exposed(cl, u, n, side) \in Int
  BY <1>6, <1>7 DEF Exposed, f, g
<1> QED
  BY <1>8
Limit == RiskLimits.max_position + (Cardinality(Clients) - 1) * RiskLimits.max_order_qty

\* An order that the position check lets through fits in with the largest
\* orders of all other clients.
LEMMA ExposedAtEntry ==
    ASSUME NEW cl, NEW u, Fits(cl, u), NEW n \in Int, NEW side \in Side, NEW c \in Clients,
           0 <= RiskLimits.max_order_qty,
           Toward(side, n) + Adds(cl[c], u, side) <= RiskLimits.max_position
    PROVE  Exposed(cl, u, n, side) <= Limit
<1> DEFINE f == [d \in Clients |-> Adds(cl[d], u, side)]
           m == RiskLimits.max_order_qty
           Others == Clients \ {c}
<1>1. m \in Int /\ RiskLimits.max_position \in Int
  BY RiskLimitsAssumption DEF Limits
<1>2. \A d \in Clients : f[d] \in Int /\ f[d] <= m
  BY AddsType
<1>3. f[c] = Adds(cl[c], u, side) /\ Toward(side, n) \in Int
  BY TowardSum
<1>4. IsFiniteSet(Clients) /\ IsFiniteSet(Others) /\ Cardinality(Others) = Cardinality(Clients) - 1
  BY ClientsAssumption, FS_RemoveElement
<1> HIDE DEF f
<1>5. SumFunctionOnSet(f, Clients) = f[c] + SumFunctionOnSet(f, Others)
  BY <1>2, <1>4, SumRemove
<1> HIDE DEF m, Others
<1>6. SumFunctionOnSet(f, Others) <= Cardinality(Others) * m /\ SumFunctionOnSet(f, Others) \in Int
  BY <1>1, <1>2, <1>4, SumBound, SumType DEF Others
<1> DEFINE k == Cardinality(Others) * m
<1>7. k \in Int
  <2>1. Cardinality(Others) \in Nat
    BY <1>4, FS_CardinalityType
  <2> QED
    BY <1>1, <2>1
<1>8. Limit = RiskLimits.max_position + k
  BY <1>4 DEF Limit, m
<1>9. Exposed(cl, u, n, side) = Toward(side, n) + SumFunctionOnSet(f, Clients)
  BY DEF Exposed, f
<1>10. f[c] \in Int /\ Toward(side, n) + f[c] <= RiskLimits.max_position /\ SumFunctionOnSet(f, Others) <= k
  BY <1>2, <1>3, <1>6
<1> HIDE DEF k
<1> QED
  BY <1>1, <1>3, <1>5, <1>6, <1>7, <1>8, <1>9, <1>10

\* Steps of one client that leave the position alone, and do not add to what
\* its call may still add to it.
LEMMA ClientFalls ==
    ASSUME SInv, SInv', NEW c \in Clients, holder \in {c, NoClient}, net' = net,
           \A d \in Clients : d # c => call'[d] = call[d], NEW side \in Side,
           Adds(call'[c], unbooked', side) <= Adds(call[c], unbooked, side)
    PROVE  Exposed(call', unbooked', net', side) <= Exposed(call, unbooked, net, side)
<1>1. Fits(call, unbooked) /\ net \in Int /\ Fits(call', unbooked') /\ net' \in Int
  BY SInvFits, SInvFitsNext
<1>2. ASSUME NEW d \in Clients PROVE Adds(call'[d], unbooked', side) <= Adds(call[d], unbooked, side)
  <2>1. CASE d = c
    BY <2>1
  <2>2. CASE d # c
    <3>1. call[d].at # "booking" /\ call'[d] = call[d]
      BY <2>2, OthersAway DEF SInv
    <3>2. Adds(call'[d], unbooked', side) = Adds(call[d], unbooked, side)
      BY <3>1 DEF Adds
    <3>3. Adds(call[d], unbooked, side) \in Nat
      BY <1>1, AddsType
    <3> QED
      BY <3>2, <3>3
  <2> QED
    BY <2>1, <2>2
<1>3. Toward(side, net) \in Int
  BY <1>1, TowardSum
<1>4. Toward(side, net') <= Toward(side, net)
  BY <1>3
<1> QED
  BY <1>1, <1>2, <1>4, ExposedFalls

\* A client's call goes on, before it books anything.
LEMMA GoesFalls ==
    ASSUME SInv, SInv', NEW c \in Clients, NEW k, Goes(c, k), call[c].at # "booking", net' = net,
           issued' = issued, holder \in {c, NoClient}, NEW side \in Side
    PROVE  Exposed(call', unbooked', net', side) <= Exposed(call, unbooked, net, side)
<1>1. call'[c] = k /\ \A d \in Clients : d # c => call'[d] = call[d]
  BY CallsGo DEF SInv, Calls
<1>2. Fits(call, unbooked) /\ Fits(call', unbooked')
  BY SInvFits, SInvFitsNext
<1>3. Adds(call[c], unbooked, side) \in Nat
  BY <1>2, AddsType
<1>4. CASE k = Outside
  <2>1. Adds(call'[c], unbooked', side) = 0
    BY <1>1, <1>4 DEF Adds
  <2> QED
    BY <1>1, <1>3, <2>1, ClientFalls
<1>5. CASE k # Outside
  <2>1. call[c] # Outside /\ k.order = call[c].order /\ k.known = call[c].known
    BY <1>5 DEF Goes
  <2>2. Adds(k, unbooked', side) <= k.order.qty /\ Adds(k, unbooked', side) \in Nat
    BY <1>1, <1>2, <1>5, AddsType
  <2>3. CASE ~k.known \/ k.order.side # side
    <3>1. Adds(k, unbooked', side) = 0
      BY <2>3 DEF Adds
    <3> QED
      BY <1>1, <1>3, <3>1, ClientFalls
  <2>4. CASE k.known /\ k.order.side = side
    <3>1. Adds(call[c], unbooked, side) = k.order.qty
      BY <2>1, <2>4 DEF Adds
    <3>2. Adds(call'[c], unbooked', side) <= Adds(call[c], unbooked, side)
      BY <1>1, <2>2, <3>1
    <3> QED
      BY <1>1, <3>2, ClientFalls
  <2> QED
    BY <2>3, <2>4
<1> QED
  BY <1>4, <1>5

\* on_fill.
LEMMA OnFillExposed ==
    ASSUME SInv, SInv', NEW c \in Clients, OnFill(c), NEW side \in Side
    PROVE  Exposed(call', unbooked', net', side) <= Exposed(call, unbooked, net, side)
<1>1. holder = c /\ call[c].at = "booking" /\ call' = call
  BY DEF OnFill
<1>2. Fits(call, unbooked) /\ net \in Int /\ Fits(call, unbooked') /\ net' \in Int
  BY <1>1, SInvFits, SInvFitsNext
<1>3. PICK q \in Nat : /\ net' = net + Toward(call[c].order.side, q)
                       /\ Total(unbooked') \in Nat /\ Total(unbooked) = q + Total(unbooked')
  BY OnFillServes
<1>4. call[c].known /\ call[c] # Outside /\ call[c].order.side \in Side
  BY <1>1, CallType, OnFillServes DEF SInv, Served, Booked
<1>5. ASSUME NEW d \in Clients, d # c
      PROVE  Adds(call[d], unbooked', side) = Adds(call[d], unbooked, side)
  BY <1>1, <1>5, OthersAway DEF Adds, SInv
<1>6. CASE call[c].order.side = side
  <2>1. Adds(call[c], unbooked, side) = Total(unbooked) /\ Adds(call[c], unbooked', side) = Total(unbooked')
    BY <1>1, <1>4, <1>6 DEF Adds
  <2>2. Exposed(call, unbooked', net + Toward(side, q), side) <= Exposed(call, unbooked, net, side)
    BY <1>2, <1>3, <1>5, <2>1, ExposedMoves
  <2> QED
    BY <1>1, <1>3, <1>6, <2>2
<1>7. CASE call[c].order.side # side
  <2>1. Adds(call[c], unbooked, side) = 0 /\ Adds(call[c], unbooked', side) = 0
    BY <1>7 DEF Adds
  <2>2. \A d \in Clients : Adds(call[d], unbooked', side) <= Adds(call[d], unbooked, side)
    <3>1. \A d \in Clients : Adds(call[d], unbooked, side) \in Nat
      BY <1>2, AddsType
    <3> QED
      BY <1>5, <2>1, <3>1
  <2>3. Toward(side, net') <= Toward(side, net)
    <3>1. CASE side = "BUY"
      BY <1>2, <1>3, <1>4, <1>7, <3>1 DEF Toward, Side
    <3>2. CASE side = "SELL"
      <4>1. net' = net + q
        BY <1>3, <1>4, <1>7, <3>2 DEF Toward, Side
      <4>2. \A x : Toward(side, x) = -x
        BY <3>2 DEF Toward
      <4>3. Toward(side, net') = -(net + q) /\ Toward(side, net) = -net
        BY <4>1, <4>2
      <4> QED
        BY <1>2, <4>3
    <3> QED
      BY <3>1, <3>2 DEF Side
  <2> QED
    BY <1>1, <1>2, <2>2, <2>3, ExposedFalls
<1> QED
  BY <1>6, <1>7
\* A submission.
LEMMA SubmitExposed ==
    ASSUME SInv, SInv', NEW c \in Clients, NEW id \in OrderIds, NEW o \in Requested, NEW known \in BOOLEAN, NEW market,
           Submits(c, id, o, known, market), NEW side \in Side, 0 <= RiskLimits.max_order_qty,
           Exposed(call, unbooked, net, side) <= Limit
    PROVE  Exposed(call', unbooked', net', side) <= Limit
<1>1. unbooked' = unbooked /\ net' = net
  BY DEF Submits
<1>2. Fits(call, unbooked) /\ net \in Int /\ Fits(call', unbooked)
  BY <1>1, SInvFits, SInvFitsNext
<1>3. CASE call' = call
  BY <1>1, <1>3
<1>4. CASE call' # call
  <2> DEFINE k == [at |-> "approved", id |-> id, order |-> o, known |-> known]
  <2>1. /\ call' = [call EXCEPT ![c] = k] /\ call[c] = Outside /\ o \in Approved
        /\ Objection(RiskLimits, o, market, IF known THEN net ELSE 0) = "NONE"
    BY <1>4 DEF Submits
  <2>2. k # Outside /\ k.at = "approved" /\ k.order = o /\ k.known = known
    BY <2>1, NewCall
  <2> HIDE DEF k
  <2>3. call'[c] = k /\ \A d \in Clients : d # c => call'[d] = call[d]
    BY <2>1 DEF SInv, Calls
  <2>4. CASE ~known \/ o.side # side
    <3>1. Adds(call'[c], unbooked, side) = 0 /\ Adds(call[c], unbooked, side) = 0
      BY <2>1, <2>2, <2>3, <2>4 DEF Adds
    <3>2. \A d \in Clients : Adds(call'[d], unbooked, side) <= Adds(call[d], unbooked, side)
      <4>1. \A d \in Clients : Adds(call[d], unbooked, side) \in Nat
        BY <1>2, AddsType
      <4> QED
        BY <2>3, <3>1, <4>1
    <3>3. Toward(side, net) \in Int /\ Toward(side, net) <= Toward(side, net)
      BY <1>2, TowardSum
    <3>4. Exposed(call', unbooked, net, side) <= Exposed(call, unbooked, net, side)
      BY <1>2, <3>2, <3>3, ExposedFalls
    <3>5. Exposed(call', unbooked, net, side) \in Int /\ Exposed(call, unbooked, net, side) \in Int /\ Limit \in Int
      <4>1. Limit \in Int
        <5>1. Cardinality(Clients) \in Nat
          BY ClientsAssumption, FS_CardinalityType
        <5> QED
          BY <5>1, RiskLimitsAssumption DEF Limit, Limits
      <4> QED
        BY <1>2, <4>1, ExposedType
    <3> QED
      BY <1>1, <3>4, <3>5
  <2>5. CASE known /\ o.side = side
    <3>1. Adds(call'[c], unbooked, side) = o.qty
      BY <2>2, <2>3, <2>5 DEF Adds
    <3>2. Objection(RiskLimits, o, market, net) = "NONE"
      BY <2>1, <2>5
    <3>3. /\ net + Toward(side, o.qty) <= RiskLimits.max_position
          /\ -(net + Toward(side, o.qty)) <= RiskLimits.max_position
      BY <1>2, <2>5, <3>2, ApprovedWithin
    <3>4. o.qty \in Nat
      BY <3>2, ApprovedPasses
    <3>5. Toward(side, net) + o.qty <= RiskLimits.max_position
      <4>1. CASE side = "BUY"
        BY <3>3, <4>1 DEF Toward
      <4>2. CASE side = "SELL"
        <5>1. Toward(side, net) = -net /\ Toward(side, o.qty) = -o.qty
          BY <4>2 DEF Toward
        <5> DEFINE q == o.qty
                   x == RiskLimits.max_position
        <5>2. q \in Int /\ x \in Int /\ -(net + (-q)) <= x
          BY <3>3, <3>4, <5>1, RiskLimitsAssumption DEF Limits
        <5> HIDE DEF q, x
        <5>3. -net + q <= x
          BY <1>2, <5>2
        <5> QED
          BY <5>1, <5>3 DEF q, x
      <4> QED
        BY <4>1, <4>2 DEF Side
    <3> QED
      BY <1>1, <1>2, <3>1, <3>5, ExposedAtEntry
  <2> QED
    BY <2>4, <2>5
<1> QED
  BY <1>3, <1>4

\* The next state's exposure is no larger than this one's, or within the limit.
LEMMA ExposureStep ==
    ASSUME SInv, SInv', [Next]_vars, NEW side \in Side, 0 <= RiskLimits.max_order_qty,
           Exposed(call, unbooked, net, side) <= Limit
    PROVE  Exposed(call', unbooked', net', side) <= Limit
<1> DEFINE Falls == Exposed(call', unbooked', net', side) <= Exposed(call, unbooked, net, side)
<1>1. Exposed(call', unbooked', net', side) \in Int /\ Exposed(call, unbooked, net, side) \in Int /\ Limit \in Int
  <2>1. Cardinality(Clients) \in Nat
    BY ClientsAssumption, FS_CardinalityType
  <2>2. Limit \in Int
    BY <2>1, RiskLimitsAssumption DEF Limit, Limits
  <2> QED
    BY <2>2, SInvFits, SInvFitsNext, ExposedType
<1>2. CASE UNCHANGED <<call, unbooked, net>>
  BY <1>2
<1>3. ASSUME NEW c \in Clients, Proceed(c) PROVE Falls \/ UNCHANGED <<call, unbooked, net>>
  <2>1. CASE RejectUnknown(c)
    <3>1. /\ Goes(c, Outside) /\ call[c].at # "booking" /\ net' = net /\ issued' = issued
          /\ holder \in {c, NoClient}
      BY <2>1 DEF RejectUnknown, Goes
    <3> QED
      BY <3>1, GoesFalls
  <2>2. CASE Enter(c)
    <3>1. PICK p \in {"matching", "booking"} : Goes(c, [call[c] EXCEPT !.at = p])
      BY <2>2, EnterGoes DEF SInv
    <3>2. call[c].at # "booking" /\ net' = net /\ issued' = issued /\ holder \in {c, NoClient}
      BY <2>2 DEF Enter
    <3> QED
      BY <3>1, <3>2, GoesFalls
  <2>3. CASE Match(c)
    BY <2>3 DEF Match
  <2>4. CASE Return(c)
    <3>1. Goes(c, [call[c] EXCEPT !.at = "booking"])
      BY <2>4, ReturnGoes DEF SInv
    <3>2. call[c].at # "booking" /\ net' = net /\ issued' = issued /\ holder \in {c, NoClient}
      BY <2>4 DEF Return
    <3> QED
      BY <3>1, <3>2, GoesFalls
  <2>5. CASE OnFill(c)
    BY <2>5, OnFillExposed
  <2>6. CASE Answer(c)
    <3>1. /\ holder = c /\ net' = net /\ call' = [call EXCEPT ![c] = Outside]
      BY <2>6 DEF Answer
    <3>2. call'[c] = Outside /\ \A d \in Clients : d # c => call'[d] = call[d]
      BY <3>1 DEF SInv, Calls
    <3>3. Adds(call'[c], unbooked', side) = 0
      BY <3>2 DEF Adds
    <3>4. Adds(call[c], unbooked, side) \in Nat
      BY SInvFits, AddsType
    <3>5. Adds(call'[c], unbooked', side) <= Adds(call[c], unbooked, side)
      BY <3>3, <3>4
    <3> QED
      BY <3>1, <3>2, <3>5, ClientFalls
  <2> QED
    BY <1>3, <2>1, <2>2, <2>3, <2>4, <2>5, <2>6 DEF Proceed
<1>4. CASE Falls
  <2> DEFINE a == Exposed(call', unbooked', net', side)
             b == Exposed(call, unbooked, net, side)
  <2>1. a \in Int /\ b \in Int /\ Limit \in Int /\ a <= b /\ b <= Limit
    BY <1>1, <1>4
  <2> HIDE DEF a, b
  <2>2. a <= Limit
    BY <2>1
  <2> QED
    BY <2>2 DEF a
<1> HIDE DEF Falls
<1>5. ASSUME NEW id \in OrderIds, Cancel(id) PROVE UNCHANGED <<call, unbooked, net>>
  BY <1>5 DEF Cancel
<1>6. ASSUME NEW id \in OrderIds, NEW price \in Prices, NEW qty \in 1 .. MaxQty, Modify(id, price, qty)
      PROVE  UNCHANGED <<call, unbooked, net>>
  BY <1>6 DEF Modify
<1>7. CASE Next
  BY <1>2, <1>3, <1>4, <1>5, <1>6, <1>7, SubmitGoes, SubmitExposed DEF Next
<1> QED
  BY <1>2, <1>7 DEF vars

\* ExposureBounded: threads that race from check_order to on_fill can take the
\* position beyond max_position, by one largest order for each thread but one
\* and no more.  (With a negative limit every order is rejected, and the bound
\* means nothing.)
THEOREM ExposureStaysBounded ==
    ASSUME Clients # {}, 0 <= RiskLimits.max_order_qty, 0 <= RiskLimits.max_position
    PROVE  Spec => []ExposureBounded
<1> DEFINE EInv == \A side \in Side : Exposed(call, unbooked, net, side) <= Limit
<1>1. Init /\ SInv => EInv
  <2> SUFFICES ASSUME Init, SInv, NEW side \in Side PROVE Exposed(call, unbooked, net, side) <= Limit
    OBVIOUS
  <2>1. net = 0 /\ Fits(call, unbooked) /\ \A c \in Clients : call[c] = Outside
    BY SInvFits DEF Init
  <2>2. PICK c : c \in Clients
    OBVIOUS
  <2>3. Adds(call[c], unbooked, side) = 0 /\ Toward(side, net) = 0
    BY <2>1, <2>2, TowardSum DEF Adds
  <2>4. Toward(side, net) + Adds(call[c], unbooked, side) <= RiskLimits.max_position
    BY <2>3
  <2> QED
    BY <2>1, <2>2, <2>4, ExposedAtEntry
<1>2. EInv /\ SInv /\ SInv' /\ [Next]_vars => EInv'
  <2> SUFFICES ASSUME EInv, SInv, SInv', [Next]_vars, NEW side \in Side
               PROVE  (Exposed(call, unbooked, net, side) <= Limit)'
    OBVIOUS
  <2>1. Exposed(call', unbooked', net', side) <= Limit
    BY ExposureStep
  <2> QED
    BY <2>1 DEF Exposed, Limit, Adds, Total
<1>3. EInv => ExposureBounded
  BY ExposureIs DEF ExposureBounded, Limit
<1> QED
  BY <1>1, <1>2, <1>3, ServedInvariance, PTL DEF Spec
-----------------------------------------------------------------------------
(* Counting the orders submitted.                                          *)

Waiting == {c \in Clients : call[c].at = "approved"}
Stored == {id \in OrderIds : order[id] # Blank}

\* An id is issued once; an order waits for mtx_ under an id whose order is
\* not stored yet.
Numbered ==
    /\ issued = 1 .. Cardinality(issued)
    /\ Stored \subseteq issued
    /\ \A c \in Waiting : order[call[c].id] = Blank
    /\ \A c, d \in Clients : call[c] # Outside /\ call[d] # Outside /\ call[c].id = call[d].id => c = d

Counted ==
    /\ totals.orders = Cardinality(issued)
    /\ totals.orders = totals.rejects + Cardinality(Waiting) + Cardinality(Stored)

CInv == Numbered /\ Counted

\* The sets are finite.
LEMMA CountsFinite ==
    /\ IsFiniteSet(Waiting) /\ IsFiniteSet(Stored) /\ Cardinality(Waiting) \in Nat /\ Cardinality(Stored) \in Nat
    /\ \A S : S \subseteq OrderIds => IsFiniteSet(S) /\ Cardinality(S) \in Nat
  BY FS_Subset, FS_CardinalityType, ClientsAssumption, IdsAssumption DEF Waiting, Stored

\* No id is issued, no order is stored and nobody begins or stops waiting.
Uncounted ==
    /\ issued' = issued
    /\ totals'.orders = totals.orders /\ totals'.rejects = totals.rejects
    /\ \A id \in OrderIds : order'[id] = Blank <=> order[id] = Blank
    /\ \A c \in Clients :
          /\ call'[c].at = "approved" <=> call[c].at = "approved"
          /\ call'[c] # Outside => call[c] # Outside /\ call'[c].id = call[c].id

\* Such a step changes no count.
LEMMA UncountedKeeps ==
    ASSUME Calls, CInv, Uncounted
    PROVE  CInv'
<1>1. Waiting' = Waiting /\ Stored' = Stored
  BY DEF Uncounted, Waiting, Stored
<1>2. Counted'
  BY <1>1 DEF CInv, Counted, Uncounted
<1>3. \A c \in Waiting' : order'[call'[c].id] = Blank
  <2> SUFFICES ASSUME NEW c \in Waiting' PROVE order'[call'[c].id] = Blank
    OBVIOUS
  <2>1. c \in Clients /\ call[c].at = "approved" /\ call'[c].at = "approved" /\ c \in Waiting
    BY <1>1 DEF Waiting, Uncounted
  <2>2. call'[c] # Outside /\ call[c] # Outside
    BY <2>1, CallType
  <2>3. call'[c].id = call[c].id /\ call[c].id \in OrderIds
    BY <2>1, <2>2 DEF Uncounted, Calls
  <2> QED
    BY <2>1, <2>3 DEF CInv, Numbered, Uncounted
<1>4. \A c, d \in Clients : call'[c] # Outside /\ call'[d] # Outside /\ call'[c].id = call'[d].id => c = d
  BY DEF CInv, Numbered, Uncounted
<1>5. issued' = 1 .. Cardinality(issued') /\ Stored' \subseteq issued'
  BY <1>1 DEF CInv, Numbered, Uncounted
<1> QED
  BY <1>2, <1>3, <1>4, <1>5 DEF CInv, Numbered

\* A new id.
LEMMA NextId ==
    ASSUME issued \subseteq OrderIds, issued = 1 .. Cardinality(issued)
    PROVE  LET id == Cardinality(issued) + 1
           IN  /\ id \notin issued /\ Cardinality(issued \cup {id}) = Cardinality(issued) + 1
               /\ issued \cup {id} = 1 .. Cardinality(issued \cup {id})
<1> DEFINE n == Cardinality(issued)
<1>1. IsFiniteSet(issued) /\ n \in Nat
  BY CountsFinite
<1>2. n + 1 \notin issued
  BY <1>1
<1>3. Cardinality(issued \cup {n + 1}) = n + 1
  BY <1>1, <1>2, FS_AddElement
<1>4. issued \cup {n + 1} = 1 .. n + 1
  <2> HIDE DEF n
  <2>1. issued = 1 .. n
    BY DEF n
  <2>2. 1 .. n + 1 = (1 .. n) \cup {n + 1}
    BY <1>1
  <2> QED
    BY <2>1, <2>2
<1> QED
  BY <1>2, <1>3, <1>4

\* A submission is counted, as an order and as what becomes of it.
LEMMA SubmitCounted ==
    ASSUME SInv, CInv, NEW c \in Clients, NEW id \in OrderIds, NEW o \in Requested, NEW known \in BOOLEAN, NEW market,
           Submits(c, id, o, known, market)
    PROVE  CInv'
<1>1. /\ call[c] = Outside /\ id = Cardinality(issued) + 1 /\ issued' = issued \cup {id}
      /\ order' = order /\ Stored' = Stored
  BY DEF Submits, bookVars, Stored
<1>2. issued \subseteq OrderIds /\ issued = 1 .. Cardinality(issued) /\ Stored \subseteq issued
  BY DEF SInv, Calls, CInv, Numbered
<1>3. id \notin issued /\ Cardinality(issued') = Cardinality(issued) + 1 /\ issued' = 1 .. Cardinality(issued')
  BY <1>1, <1>2, NextId
<1>4. /\ totals.orders \in Nat /\ totals.rejects \in Nat /\ totals \in Totals
      /\ Cardinality(issued) \in Nat /\ Cardinality(Waiting) \in Nat /\ Cardinality(Stored) \in Nat
  BY <1>2, CountsFinite DEF SInv, Served, Totals
<1>5. Stored' \subseteq issued' /\ order[id] = Blank
  BY <1>1, <1>2, <1>3 DEF Stored
<1>6. CASE call' = call
  <2>1. Waiting' = Waiting
    BY <1>6 DEF Waiting
  <2>2. \/ totals' = [totals EXCEPT !.orders = @ + 1, !.rejects = @ + 1]
        \/ call' = [call EXCEPT ![c] = [at |-> "approved", id |-> id, order |-> o, known |-> known]] /\ o \in Approved
    BY DEF Submits
  <2>3. totals' = [totals EXCEPT !.orders = @ + 1, !.rejects = @ + 1]
    <3> DEFINE k == [at |-> "approved", id |-> id, order |-> o, known |-> known]
    <3>1. o \in Approved => k # Outside
      BY NewCall
    <3> HIDE DEF k
    <3>2. call' = [call EXCEPT ![c] = k] => call'[c] = k
      BY DEF SInv, Calls
    <3> QED
      BY <1>1, <1>6, <2>2, <3>1, <3>2 DEF k
  <2>4. totals'.orders = totals.orders + 1 /\ totals'.rejects = totals.rejects + 1
    BY <1>4, <2>3 DEF Totals
  <2>5. Counted'
    BY <1>1, <1>3, <1>4, <2>1, <2>4 DEF CInv, Counted
  <2>6. Numbered'
    BY <1>1, <1>3, <1>5, <1>6, <2>1 DEF CInv, Numbered
  <2> QED
    BY <2>5, <2>6 DEF CInv
<1>7. CASE call' # call
  <2> DEFINE k == [at |-> "approved", id |-> id, order |-> o, known |-> known]
  <2>1. call' = [call EXCEPT ![c] = k] /\ o \in Approved /\ totals' = [totals EXCEPT !.orders = @ + 1]
    BY <1>7 DEF Submits
  <2>2. k # Outside /\ k.at = "approved" /\ k.id = id
    BY <2>1, NewCall
  <2> HIDE DEF k
  <2>3. call'[c] = k /\ \A d \in Clients : d # c => call'[d] = call[d]
    BY <2>1 DEF SInv, Calls
  <2>4. c \notin Waiting /\ Waiting' = Waiting \cup {c}
    BY <1>1, <2>2, <2>3, CallType DEF Waiting
  <2>5. Cardinality(Waiting') = Cardinality(Waiting) + 1
    BY <2>4, CountsFinite, FS_AddElement
  <2>6. totals'.orders = totals.orders + 1 /\ totals'.rejects = totals.rejects
    BY <1>4, <2>1 DEF Totals
  <2>7. Counted'
    BY <1>1, <1>3, <1>4, <2>5, <2>6 DEF CInv, Counted
  <2>8. \A d \in Waiting' : order'[call'[d].id] = Blank
    BY <1>1, <1>5, <2>2, <2>3, <2>4 DEF CInv, Numbered, Waiting
  <2>9. \A d \in Clients : d # c /\ call[d] # Outside => call[d].id # id
    BY <1>3 DEF SInv, Calls
  <2>10. \A d, e \in Clients : call'[d] # Outside /\ call'[e] # Outside /\ call'[d].id = call'[e].id => d = e
    <3> SUFFICES ASSUME NEW d \in Clients, NEW e \in Clients, call'[d] # Outside, call'[e] # Outside,
                        call'[d].id = call'[e].id, d # e
                 PROVE  FALSE
      OBVIOUS
    <3>1. CASE d # c /\ e # c
      BY <2>3, <3>1 DEF CInv, Numbered
    <3>2. CASE d = c
      BY <2>2, <2>3, <2>9, <3>2
    <3>3. CASE e = c
      BY <2>2, <2>3, <2>9, <3>3
    <3> QED
      BY <3>1, <3>2, <3>3
  <2> QED
    BY <1>3, <1>5, <2>7, <2>8, <2>10 DEF CInv, Numbered
<1> QED
  BY <1>6, <1>7
\* A rejected order stops waiting and is counted among the rejected.
LEMMA RejectCounted ==
    ASSUME SInv, CInv, NEW c \in Clients, RejectUnknown(c)
    PROVE  CInv'
<1>1. /\ call[c].at = "approved" /\ issued' = issued /\ order' = order
      /\ call' = [call EXCEPT ![c] = Outside] /\ totals' = [totals EXCEPT !.rejects = @ + 1]
  BY DEF RejectUnknown, bookVars
<1>2. call'[c] = Outside /\ \A d \in Clients : d # c => call'[d] = call[d]
  BY <1>1 DEF SInv, Calls
<1>3. c \in Waiting /\ Waiting' = Waiting \ {c} /\ Stored' = Stored
  BY <1>1, <1>2, CallType DEF Waiting, Stored
<1>4. Cardinality(Waiting') = Cardinality(Waiting) - 1
  BY <1>3, CountsFinite, FS_RemoveElement
<1>5. totals'.orders = totals.orders /\ totals'.rejects = totals.rejects + 1 /\ totals.rejects \in Nat
  BY <1>1 DEF SInv, Served, Totals
<1>6. Counted'
  <2> DEFINE w == Cardinality(Waiting)
             n == Cardinality(Stored)
  <2>1. w \in Nat /\ n \in Nat
    BY CountsFinite
  <2>2. totals.orders = Cardinality(issued) /\ totals.orders = totals.rejects + w + n
    BY DEF CInv, Counted
  <2>3. Cardinality(Waiting') = w - 1 /\ Cardinality(Stored') = n
    BY <1>3, <1>4
  <2> HIDE DEF w, n
  <2>4. totals.rejects + w + n = (totals.rejects + 1) + (w - 1) + n
    BY <1>5, <2>1
  <2>5. totals'.orders = totals'.rejects + (w - 1) + n
    BY <1>5, <2>2, <2>4
  <2> QED
    BY <1>1, <1>5, <2>2, <2>3, <2>5 DEF Counted
<1>7. Numbered'
  <2>1. \A d \in Waiting' : order'[call'[d].id] = Blank
    BY <1>1, <1>2, <1>3 DEF CInv, Numbered, Waiting
  <2>2. \A d, e \in Clients : call'[d] # Outside /\ call'[e] # Outside /\ call'[d].id = call'[e].id => d = e
    BY <1>2 DEF CInv, Numbered
  <2> QED
    BY <1>1, <1>3, <2>1, <2>2 DEF CInv, Numbered
<1> QED
  BY <1>6, <1>7 DEF CInv

\* An order that add_order takes stops waiting and is stored.
LEMMA EnterCounted ==
    ASSUME SInv, CInv, NEW c \in Clients, Enter(c)
    PROVE  CInv'
<1>1. call[c] \in Call /\ call[c].at = "approved" /\ issued' = issued /\ totals' = totals
  BY EnterGoes DEF SInv
<1>2. PICK p \in {"matching", "booking"} : Goes(c, [call[c] EXCEPT !.at = p])
  BY EnterGoes DEF SInv
<1> DEFINE id == call[c].id
           k == [call[c] EXCEPT !.at = p]
<1>3. k.at = p /\ k.id = id
  BY <1>1, CallType
<1>4. call'[c] = k /\ \A d \in Clients : d # c => call'[d] = call[d]
  BY <1>1, <1>2, CallsGo DEF SInv, Calls
<1>5. Entered(id, call[c].order) /\ id \in OrderIds /\ call[c] # Outside /\ id \in issued
  BY <1>1, EnterSeen, CallType DEF SInv, Call, Calls
<1> HIDE DEF k
<1>6. c \in Waiting /\ Waiting' = Waiting \ {c}
  BY <1>1, <1>3, <1>4 DEF Waiting
<1>7. id \notin Stored /\ Stored' = Stored \cup {id}
  BY <1>5 DEF Entered, Stored
<1>8. Cardinality(Waiting') = Cardinality(Waiting) - 1 /\ Cardinality(Stored') = Cardinality(Stored) + 1
  BY <1>6, <1>7, CountsFinite, FS_RemoveElement, FS_AddElement
<1>9. Counted'
  <2> DEFINE w == Cardinality(Waiting)
             n == Cardinality(Stored)
  <2>1. w \in Nat /\ n \in Nat /\ totals.rejects \in Nat
    BY CountsFinite DEF SInv, Served, Totals
  <2>2. totals.orders = Cardinality(issued) /\ totals.orders = totals.rejects + w + n
    BY DEF CInv, Counted
  <2>3. Cardinality(Waiting') = w - 1 /\ Cardinality(Stored') = n + 1
    BY <1>8
  <2> HIDE DEF w, n
  <2>4. totals.rejects + w + n = totals.rejects + (w - 1) + (n + 1)
    BY <2>1
  <2>5. totals'.orders = totals'.rejects + (w - 1) + (n + 1)
    BY <1>1, <2>2, <2>4
  <2> QED
    BY <1>1, <2>2, <2>3, <2>5 DEF Counted
<1>10. \A d \in Waiting' : order'[call'[d].id] = Blank
  <2> SUFFICES ASSUME NEW d \in Waiting' PROVE order'[call'[d].id] = Blank
    OBVIOUS
  <2>1. d \in Waiting /\ d # c /\ d \in Clients /\ call[d].at = "approved"
    BY <1>6 DEF Waiting
  <2>2. call[d] # Outside /\ call[d].id \in OrderIds
    BY <2>1, CallType DEF SInv, Calls
  <2>3. call[d].id # id
    BY <1>5, <2>1, <2>2 DEF CInv, Numbered
  <2> QED
    BY <1>4, <1>5, <2>1, <2>2, <2>3 DEF CInv, Numbered, Entered
<1>11. \A d, e \in Clients : call'[d] # Outside /\ call'[e] # Outside /\ call'[d].id = call'[e].id => d = e
  <2>1. \A d \in Clients : call'[d] # Outside => call[d] # Outside /\ call'[d].id = call[d].id
    BY <1>3, <1>4, <1>5
  <2> QED
    BY <2>1 DEF CInv, Numbered
<1> QED
  BY <1>1, <1>5, <1>7, <1>9, <1>10, <1>11 DEF CInv, Numbered

\* The other steps of a client change no count.
LEMMA OthersUncounted ==
    ASSUME SInv, NEW c \in Clients, Match(c) \/ Return(c) \/ OnFill(c) \/ Answer(c)
    PROVE  Uncounted
<1>1. CASE Match(c)
  <2>1. /\ BP!Fill /\ totals' = [totals EXCEPT !.trades = @ + 1] /\ issued' = issued /\ call' = call
    BY <1>1, MatchGoes
  <2>2. PICK rid, qty : Traded(rid, qty)
    BY <2>1, MatchSeen DEF SInv
  <2>3. \A id \in OrderIds : order'[id] = Blank <=> order[id] = Blank
    BY <2>2 DEF Traded
  <2>4. totals'.orders = totals.orders /\ totals'.rejects = totals.rejects
    BY <2>1 DEF SInv, Served, Totals
  <2> QED
    BY <2>1, <2>3, <2>4 DEF Uncounted
<1>2. CASE Return(c)
  <2>1. /\ call[c].at = "matching" /\ call[c] \in Call /\ BP!EndOfCall /\ Goes(c, [call[c] EXCEPT !.at = "booking"])
        /\ issued' = issued /\ totals' = totals
    BY <1>2, ReturnGoes DEF SInv
  <2> DEFINE k == [call[c] EXCEPT !.at = "booking"]
  <2>2. k.at = "booking" /\ k.id = call[c].id /\ call[c] # Outside
    BY <2>1, CallType
  <2>3. call'[c] = k /\ \A d \in Clients : d # c => call'[d] = call[d]
    BY <2>1, CallsGo DEF SInv, Calls
  <2> HIDE DEF k
  <2>4. \A id \in OrderIds : order'[id] = Blank <=> order[id] = Blank
    BY <2>1, ReturnSeen DEF SInv, Unfilled
  <2> QED
    BY <2>1, <2>2, <2>3, <2>4 DEF Uncounted
<1>3. CASE OnFill(c)
  BY <1>3 DEF OnFill, Uncounted, bookVars
<1>4. CASE Answer(c)
  <2>1. /\ call[c].at = "booking" /\ call' = [call EXCEPT ![c] = Outside]
        /\ issued' = issued /\ totals' = totals /\ order' = order
    BY <1>4 DEF Answer, bookVars
  <2>2. call'[c] = Outside /\ \A d \in Clients : d # c => call'[d] = call[d]
    BY <2>1 DEF SInv, Calls
  <2> QED
    BY <2>1, <2>2, CallType DEF Uncounted
<1> QED
  BY <1>1, <1>2, <1>3, <1>4

\* The counts stay right.
LEMMA CountedStep == SInv /\ CInv /\ [Next]_vars => CInv'
<1> SUFFICES ASSUME SInv, CInv, [Next]_vars PROVE CInv'
  OBVIOUS
<1>1. ASSUME Uncounted PROVE CInv'
  BY <1>1, UncountedKeeps DEF SInv
<1>2. ASSUME NEW c \in Clients, Proceed(c) PROVE CInv'
  BY <1>1, <1>2, RejectCounted, EnterCounted, OthersUncounted DEF Proceed
<1>3. ASSUME NEW id \in OrderIds, Cancel(id) PROVE Uncounted
  BY <1>3, CancelSeen DEF SInv, Still, Unfilled, Uncounted
<1>4. ASSUME NEW id \in OrderIds, NEW price \in Prices, NEW qty \in 1 .. MaxQty, Modify(id, price, qty)
      PROVE  Uncounted
  BY <1>4, ModifySeen DEF SInv, Still, Unfilled, Uncounted
<1>5. CASE UNCHANGED vars
  BY <1>1, <1>5 DEF Uncounted, vars
<1>6. CASE Next
  BY <1>1, <1>2, <1>3, <1>4, <1>6, SubmitGoes, SubmitCounted DEF Next
<1> QED
  BY <1>5, <1>6

\* Nothing is counted at first.
LEMMA CountedInit == Init => CInv
<1> SUFFICES ASSUME Init PROVE CInv
  OBVIOUS
<1>1. /\ issued = {} /\ call = [c \in Clients |-> Outside] /\ totals = [orders |-> 0, trades |-> 0, rejects |-> 0]
      /\ order = [id \in OrderIds |-> Blank]
  BY SameInit, SameOrders DEF Init, BP!Init
<1>2. Waiting = {} /\ Stored = {}
  BY <1>1, CallType DEF Waiting, Stored
<1>3. Cardinality({}) = 0 /\ 1 .. 0 = {}
  BY FS_EmptySet
<1> QED
  BY <1>1, <1>2, <1>3 DEF CInv, Numbered, Counted
-----------------------------------------------------------------------------
(* What is bought is sold.                                                 *)

\* What the order o adds to the volume of a side.
Share(o, side) == IF o.side = side THEN o.filled_qty ELSE 0
VolumeOf(book_orders, side) == SumFunctionOnSet([id \in OrderIds |-> Share(book_orders[id], side)], OrderIds)

Balanced == VolumeOf(order, "BUY") = VolumeOf(order, "SELL")

\* The volume of a side is what NothingLost adds up.
LEMMA VolumeIs ==
    ASSUME SInv, NEW side
    PROVE  LET Bought == {id \in OrderIds : order[id].side = side}
           IN  SumFunctionOnSet([id \in Bought |-> order[id].filled_qty], Bought) = VolumeOf(order, side)
<1> DEFINE Bought == {id \in OrderIds : order[id].side = side}
           f == [id \in Bought |-> order[id].filled_qty]
           g == [id \in OrderIds |-> Share(order[id], side)]
<1>1. \A id \in Bought : g[id] = f[id] /\ f[id] \in Int
  <2>1. \A id \in OrderIds : order[id].filled_qty \in Nat
    BY BookTypes DEF SInv
  <2>2. ASSUME NEW id \in Bought PROVE g[id] = order[id].filled_qty /\ f[id] = order[id].filled_qty
    BY DEF Share
  <2> HIDE DEF f, g
  <2>3. ASSUME NEW id \in Bought PROVE g[id] = f[id] /\ f[id] \in Int
    <3>1. order[id].filled_qty \in Int
      BY <2>1
    <3> QED
      BY <2>2, <3>1
  <2> QED
    BY <2>3
<1>2. \A id \in OrderIds \ Bought : g[id] = 0
  BY DEF Share
<1>3. Bought \subseteq OrderIds /\ IsFiniteSet(OrderIds)
  BY IdsAssumption
<1> HIDE DEF f, g, Bought
<1>4. SumFunctionOnSet(g, OrderIds) = SumFunctionOnSet(f, Bought)
  BY <1>1, <1>2, <1>3, SumSelect
<1> QED
  BY <1>4 DEF f, g, Bought, VolumeOf

\* Shares that stay leave the volume.
LEMMA SharesStay ==
    ASSUME NEW o, NEW p, NEW side, \A id \in OrderIds : Share(p[id], side) = Share(o[id], side)
    PROVE  VolumeOf(p, side) = VolumeOf(o, side)
<1>1. [id \in OrderIds |-> Share(p[id], side)] = [id \in OrderIds |-> Share(o[id], side)]
  OBVIOUS
<1> QED
  BY <1>1 DEF VolumeOf

\* From o to p, the share of order x grows by qty.
Grows(o, p, side, x, qty) ==
    /\ x \in OrderIds /\ qty \in Nat /\ \A id \in OrderIds : Share(o[id], side) \in Nat
    /\ Share(p[x], side) = Share(o[x], side) + qty
    /\ \A id \in OrderIds : id # x => Share(p[id], side) = Share(o[id], side)

\* So does the volume.
LEMMA ShareGrows ==
    ASSUME NEW o, NEW p, NEW side, NEW x, NEW qty, Grows(o, p, side, x, qty)
    PROVE  VolumeOf(p, side) = VolumeOf(o, side) + qty
<1> DEFINE f == [id \in OrderIds |-> Share(o[id], side)]
           g == [id \in OrderIds |-> Share(p[id], side)]
<1>1. /\ \A id \in OrderIds : f[id] \in Int /\ g[id] \in Int
      /\ \A id \in OrderIds \ {x} : f[id] = g[id]
      /\ g[x] = f[x] + qty /\ x \in OrderIds /\ qty \in Nat
  BY DEF Grows
<1> HIDE DEF f, g
<1>2. SumFunctionOnSet(g, OrderIds) = SumFunctionOnSet(f, OrderIds) - f[x] + g[x]
  BY <1>1, SumUpdate, IdsAssumption
<1>3. SumFunctionOnSet(f, OrderIds) \in Int
  BY <1>1, SumType, IdsAssumption
<1>4. SumFunctionOnSet(g, OrderIds) = SumFunctionOnSet(f, OrderIds) + qty
  BY <1>1, <1>2, <1>3
<1> QED
  BY <1>4 DEF VolumeOf, f, g

\* No step of the book fills an order but a trade.
LEMMA UnfilledBalanced == ASSUME Balanced, Unfilled PROVE Balanced'
<1>1. \A id \in OrderIds : \A side : Share(order'[id], side) = Share(order[id], side)
  BY DEF Unfilled, Share
<1>2. VolumeOf(order', "BUY") = VolumeOf(order, "BUY") /\ VolumeOf(order', "SELL") = VolumeOf(order, "SELL")
  BY <1>1, SharesStay
<1>3. VolumeOf(order', "BUY") = VolumeOf(order', "SELL")
  BY <1>2 DEF Balanced
<1> QED
  BY <1>3 DEF Balanced, VolumeOf, Share

\* A new order has traded nothing.
LEMMA EnterBalanced == ASSUME Balanced, NEW id \in OrderIds, NEW o, Entered(id, o) PROVE Balanced'
<1>1. order[id].filled_qty = 0 /\ order'[id].filled_qty = 0 /\ \A x \in OrderIds : x # id => order'[x] = order[x]
  BY DEF Entered, Blank
<1>2. \A x \in OrderIds : \A side : Share(order'[x], side) = Share(order[x], side)
  BY <1>1 DEF Share
<1>3. VolumeOf(order', "BUY") = VolumeOf(order, "BUY") /\ VolumeOf(order', "SELL") = VolumeOf(order, "SELL")
  BY <1>2, SharesStay
<1>4. VolumeOf(order', "BUY") = VolumeOf(order', "SELL")
  BY <1>3 DEF Balanced
<1> QED
  BY <1>4 DEF Balanced, VolumeOf, Share

\* A trade fills an order on each side.
LEMMA TradeBalanced == ASSUME SInv, Balanced, NEW rid, NEW qty, Traded(rid, qty) PROVE Balanced'
<1> DEFINE s == order[incoming].side
           r == order[rid].side
<1>1. /\ incoming \in OrderIds /\ rid \in OrderIds /\ rid # incoming /\ qty \in Nat /\ s \in Side
      /\ r = Opposite(s)
  BY BookTypes DEF SInv, Traded
<1>2. \A id \in OrderIds : \A side : Share(order[id], side) \in Nat
  BY BookTypes DEF SInv, Share
<1>3. \A id \in OrderIds : order[id].filled_qty \in Nat
  BY BookTypes DEF SInv
<1>4. s # r /\ {s, r} = Side
  BY <1>1 DEF Side, Opposite
<1>5. /\ order'[incoming].side = s /\ order'[incoming].filled_qty = order[incoming].filled_qty + qty
      /\ order'[rid].side = r /\ order'[rid].filled_qty = order[rid].filled_qty + qty
      /\ \A x \in OrderIds : x # incoming /\ x # rid => order'[x] = order[x]
  BY DEF Traded
<1> HIDE DEF s, r
<1>6. Share(order'[incoming], s) = Share(order[incoming], s) + qty /\ Share(order'[incoming], r) = Share(order[incoming], r)
  BY <1>4, <1>5 DEF Share, s
<1>7. Share(order'[rid], r) = Share(order[rid], r) + qty /\ Share(order'[rid], s) = Share(order[rid], s)
  BY <1>4, <1>5 DEF Share, r
<1>8. VolumeOf(order', s) = VolumeOf(order, s) + qty
  <2>1. \A id \in OrderIds : id # incoming => Share(order'[id], s) = Share(order[id], s)
    BY <1>5, <1>7
  <2>2. \A id \in OrderIds : Share(order[id], s) \in Nat
    BY <1>2
  <2>3. Grows(order, order', s, incoming, qty)
    BY <1>1, <1>6, <2>1, <2>2 DEF Grows
  <2> QED
    BY <2>3, ShareGrows
<1>9. VolumeOf(order', r) = VolumeOf(order, r) + qty
  <2>1. \A id \in OrderIds : id # rid => Share(order'[id], r) = Share(order[id], r)
    BY <1>5, <1>6
  <2>2. \A id \in OrderIds : Share(order[id], r) \in Nat
    BY <1>2
  <2>3. Grows(order, order', r, rid, qty)
    BY <1>1, <1>7, <2>1, <2>2 DEF Grows
  <2> QED
    BY <2>3, ShareGrows
<1>10. VolumeOf(order', "BUY") = VolumeOf(order, "BUY") + qty /\ VolumeOf(order', "SELL") = VolumeOf(order, "SELL") + qty
  BY <1>4, <1>8, <1>9 DEF Side
<1>11. VolumeOf(order', "BUY") = VolumeOf(order', "SELL")
  BY <1>10 DEF Balanced
<1> QED
  BY <1>11 DEF Balanced, VolumeOf, Share

\* Both sides stay even.
LEMMA BalancedStep == SInv /\ Balanced /\ [Next]_vars => Balanced'
<1> SUFFICES ASSUME SInv, Balanced, [Next]_vars PROVE Balanced'
  OBVIOUS
<1>1. CASE order' = order
  BY <1>1, UnfilledBalanced DEF Unfilled
<1>2. ASSUME NEW c \in Clients, Proceed(c) PROVE Balanced'
  <2>1. CASE RejectUnknown(c) \/ OnFill(c) \/ Answer(c)
    BY <1>1, <2>1 DEF RejectUnknown, OnFill, Answer, bookVars
  <2>2. CASE Enter(c)
    <3>1. Entered(call[c].id, call[c].order) /\ call[c] \in Call
      BY <2>2, EnterSeen, EnterGoes DEF SInv
    <3>2. call[c].id \in OrderIds
      BY <3>1 DEF Call
    <3> QED
      BY <3>1, <3>2, EnterBalanced
  <2>3. CASE Match(c)
    BY <2>3, MatchGoes, MatchSeen, TradeBalanced DEF SInv
  <2>4. CASE Return(c)
    BY <2>4, ReturnGoes, ReturnSeen, UnfilledBalanced DEF SInv
  <2> QED
    BY <1>2, <2>1, <2>2, <2>3, <2>4 DEF Proceed
<1>3. ASSUME NEW id \in OrderIds, Cancel(id) PROVE Balanced'
  BY <1>3, CancelSeen, UnfilledBalanced DEF SInv, Still
<1>4. ASSUME NEW id \in OrderIds, NEW price \in Prices, NEW qty \in 1 .. MaxQty, Modify(id, price, qty)
      PROVE  Balanced'
  BY <1>4, ModifySeen, UnfilledBalanced DEF SInv, Still
<1>5. CASE Next
  BY <1>1, <1>2, <1>3, <1>4, <1>5 DEF Next, Submit, bookVars
<1> QED
  BY <1>1, <1>5 DEF vars

\* NothingLost: an order submitted is rejected, waiting for mtx_ or stored, and
\* counted once as that; what is bought is sold.
THEOREM NothingIsLost == Spec => []NothingLost
<1>1. Init => CInv /\ Balanced
  <2> SUFFICES ASSUME Init PROVE Balanced
    BY CountedInit
  <2>1. order = [id \in OrderIds |-> Blank]
    BY SameInit, SameOrders DEF Init, BP!Init
  <2>2. \A id \in OrderIds : Share(order[id], "BUY") = Share(order[id], "SELL")
    BY <2>1 DEF Share, Blank
  <2> QED
    BY <2>2 DEF Balanced, VolumeOf
<1>2. SInv /\ CInv /\ Balanced => NothingLost
  BY VolumeIs DEF CInv, Counted, Balanced, NothingLost, Waiting, Stored
<1> QED
  BY <1>1, <1>2, CountedStep, BalancedStep, ServedInvariance, PTL DEF Spec
=============================================================================
