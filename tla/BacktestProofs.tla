---------------------------- MODULE BacktestProofs --------------------------
(***************************************************************************)
(* Proofs about Backtest, for any finite set of ids, any prices and        *)
(* windows, and any reading of the ticks.                                  *)
(*                                                                         *)
(* BInv is inductive.  Its heart is that a strategy submits only into an   *)
(* empty book: MarketMaking never quotes, Momentum never rests, and        *)
(* MeanReversion enters only when it is out of its trade, after everything *)
(* live was cancelled.  The first lemmas say what the abstract book does   *)
(* with an order that finds it empty.                                      *)
(***************************************************************************)
EXTENDS Backtest, CollectionTheorems

\* Nothing is taken from an empty queue.
LEMMA EmptyUnserved == ASSUME NEW ord PROVE Book!Unserved(<< >>, ord) = << >>
<1> DEFINE S == {n \in 0 .. Len(<< >>) : \A i \in 1 .. n : IsDone(ord[<< >>[i]])}
<1>1. S = {0}
  OBVIOUS
<1>2. Book!Max(S) = 0
  BY <1>1 DEF Book!Max
<1>3. SubSeq(<< >>, 0 + 1, Len(<< >>)) = << >>
  OBVIOUS
<1> QED
  BY <1>2, <1>3 DEF Book!Unserved

\* In an empty book nobody trades with an order.
LEMMA NobodyThere ==
    ASSUME NEW ord, NEW o, o.side \in Side, NEW y
    PROVE  Book!Given(ord, NoQueues, o, y) = 0
<1>1. Opposite(o.side) \in Side
  BY DEF Opposite, Side
<1>2. \A p \in Prices : NoQueues[Opposite(o.side)][p] = << >>
  BY <1>1 DEF NoQueues
<1>3. Book!ToSet(<< >>) = {}
  BY DEF Book!ToSet
<1>4. Book!Counterparties(ord, NoQueues, o) = {}
  <2>1. \A p \in Prices : Book!ToSet(NoQueues[Book!Opposite(o.side)][p]) = {}
    BY <1>2, <1>3 DEF Opposite, Book!Opposite
  <2> HIDE DEF NoQueues
  <2> QED
    BY <2>1 DEF Book!Counterparties
<1> QED
  BY <1>4 DEF Book!Given

\* Queues are compared level by level.
LEMMA SameQueues ==
    ASSUME NEW T, NEW f \in [Side -> [Prices -> T]], NEW g \in [Side -> [Prices -> T]],
           \A s \in Side, p \in Prices : f[s][p] = g[s][p]
    PROVE  f = g
<1>1. ASSUME NEW s \in Side PROVE f[s] = g[s]
  BY <1>1
<1> QED
  BY <1>1

\* The book that holds id alone, at the place of o.
OnlyOrder(id, o) ==
    [s \in Side |-> [p \in Prices |-> IF s = o.side /\ p = o.price THEN << id >> ELSE << >>]]

\* An order that finds an empty book does not trade: it rests there alone, or
\* is closed and leaves the book empty.
LEMMA MatchedAlone ==
    ASSUME NEW ord, NEW id \in OrderIds, DOMAIN ord = OrderIds, ord[id].side \in Side
    PROVE  LET closed == Book!Leftover(ord[id])
               rests == closed.type = "LIMIT" /\ ~IsDone(closed)
           IN  /\ Book!MatchedOrders(ord, NoQueues, id) =
                      [x \in OrderIds |-> IF x = id THEN closed ELSE ord[x]]
               /\ Book!MatchedQueue(ord, NoQueues, id) =
                      IF rests THEN OnlyOrder(id, closed) ELSE NoQueues
<1> DEFINE o == ord[id]
           given == [y \in OrderIds |-> IF y = id THEN 0 ELSE Book!Given(ord, NoQueues, o, y)]
           closed == Book!Leftover(ord[id])
           after == [x \in OrderIds |-> IF x = id THEN closed ELSE ord[x]]
           rests == closed.type = "LIMIT" /\ ~IsDone(closed)
<1>1. \A y \in OrderIds : given[y] = 0
  BY NobodyThere
<1>2. Book!SumFunction(given) = SumFunctionOnSet(given, OrderIds)
  BY DEF Book!SumFunction, Book!FoldFunction, Book!SumFunctionOnSet, SumFunctionOnSet,
         Book!FoldFunctionOnSet, FoldFunctionOnSet, Book!MapThenFoldSet, MapThenFoldSet
<1>3. SumFunctionOnSet(given, OrderIds) = 0
  BY <1>1, SumZero, IdsAssumption
<1>4. Book!MatchedOrders(ord, NoQueues, id) =
          [x \in OrderIds |-> IF x = id THEN Book!Leftover(Book!Take(ord[id], Book!SumFunction(given)))
                                        ELSE Book!Take(ord[x], given[x])]
  BY DEF Book!MatchedOrders
<1> HIDE DEF given, closed
<1>5. Book!MatchedOrders(ord, NoQueues, id) = after
  <2>1. Book!Take(ord[id], 0) = ord[id]
    BY DEF Book!Take
  <2>2. \A x \in OrderIds : Book!Take(ord[x], given[x]) = ord[x]
    BY <1>1 DEF Book!Take
  <2> QED
    BY <1>2, <1>3, <1>4, <2>1, <2>2 DEF closed
<1>6. after[id] = closed
  OBVIOUS
<1> HIDE DEF after
<1> DEFINE QueuesAfter(a) ==
               [s \in Side |-> [p \in Prices |->
                   IF (a[id].type = "LIMIT" /\ ~IsDone(a[id])) /\ s = a[id].side /\ p = a[id].price
                   THEN Append(Book!Unserved(NoQueues[s][p], a), id)
                   ELSE Book!Unserved(NoQueues[s][p], a)]]
<1>7. Book!MatchedQueue(ord, NoQueues, id) = QueuesAfter(after)
  <2>1. Book!MatchedQueue(ord, NoQueues, id) = QueuesAfter(Book!MatchedOrders(ord, NoQueues, id))
    BY DEF Book!MatchedQueue, Book!Side, Side, Book!IsDone, IsDone, Book!Done, Done
  <2> HIDE DEF QueuesAfter
  <2> QED
    BY <1>5, <2>1
<1>8. \A s \in Side, p \in Prices : Book!Unserved(NoQueues[s][p], after) = << >>
  BY EmptyUnserved DEF NoQueues
<1>9. Append(<< >>, id) = << id >>
  OBVIOUS
<1>10. QueuesAfter(after) \in [Side -> [Prices -> {<< >>, << id >>}]]
  BY <1>8, <1>9
<1>11. CASE rests
  <2>1. OnlyOrder(id, closed) \in [Side -> [Prices -> {<< >>, << id >>}]]
    BY DEF OnlyOrder
  <2>2. \A s \in Side, p \in Prices : QueuesAfter(after)[s][p] = OnlyOrder(id, closed)[s][p]
    BY <1>6, <1>8, <1>9, <1>11 DEF OnlyOrder
  <2> HIDE DEF QueuesAfter
  <2>3. QueuesAfter(after) = OnlyOrder(id, closed)
    BY <1>10, <2>1, <2>2, SameQueues
  <2> QED
    BY <1>5, <1>7, <1>11, <2>3 DEF closed, after
<1>12. CASE ~rests
  <2>1. NoQueues \in [Side -> [Prices -> {<< >>, << id >>}]]
    BY DEF NoQueues
  <2>2. \A s \in Side, p \in Prices : QueuesAfter(after)[s][p] = NoQueues[s][p]
    BY <1>6, <1>8, <1>12 DEF NoQueues
  <2> HIDE DEF QueuesAfter
  <2>3. QueuesAfter(after) = NoQueues
    BY <1>10, <2>1, <2>2, SameQueues
  <2> QED
    BY <1>5, <1>7, <1>12, <2>3 DEF closed, after
<1> QED
  BY <1>11, <1>12
-----------------------------------------------------------------------------
(* The invariant.                                                          *)

\* The ids whose orders exist.
Known == {id \in OrderIds : order[id] # Blank}

\* A backtest starts with an empty book.
LEMMA Started == Init => BInv
<1> SUFFICES ASSUME Init PROVE BInv
  OBVIOUS
<1>1. order = [id \in OrderIds |-> Blank] /\ queue = NoQueues
  BY DEF Init, Book!Init, Book!NoQueues, Book!Blank, Blank, Book!Side, Side, NoQueues
<1>2. Known = {}
  BY <1>1 DEF Known
<1>3. Cardinality({}) = 0 /\ Cardinality(Known) = 0
  BY <1>2, FS_EmptySet
<1>4. /\ result = [submitted |-> 0, rejected |-> 0, filled |-> 0]
      /\ signals = << >> /\ Len(signals) = 0 /\ issued = {} /\ live = {}
      /\ strategy \in Strategies /\ seen = 0 /\ engaged = FALSE
      /\ quotes \in [Side -> OrderIds \cup {NoOrder}]
  BY DEF Init, NoQuotes
<1>5. TypeOK
  <2>1. result.submitted = 0 /\ result.rejected = 0 /\ result \in [submitted : Nat, rejected : Nat, filled : Nat]
    BY <1>4
  <2>2. result.submitted = Cardinality(issued)
    BY <1>3, <1>4, <2>1
  <2>3. result.submitted = result.rejected + Cardinality({id \in OrderIds : order[id] # Blank})
    BY <1>3, <2>1 DEF Known
  <2>4. live \subseteq {id \in issued : order[id] # Blank} /\ issued \subseteq OrderIds
    BY <1>4
  <2>5. seen \in 0 .. Window
    BY <1>4, WindowAssumption
  <2>6. engaged \in BOOLEAN
    BY <1>4
  <2>7. Len(signals) <= 4
    BY <1>4
  <2> QED
    BY <1>4, <2>1, <2>2, <2>3, <2>4, <2>5, <2>6, <2>7 DEF TypeOK
<1>6. NeverTrades /\ OrdersFit
  BY <1>1, <1>4, MaxQtyAssumption DEF NeverTrades, OrdersFit, Blank, Side, OrderType, OrderStatus
<1> QED
  BY <1>1, <1>4, <1>5, <1>6 DEF BInv, OneAtMost, SignalsFit

\* The market maker quotes in a two-sided book only, and nobody else is there
\* to make one.
LEMMA NothingQuoted == ASSUME queue = NoQueues PROVE MakerSignals = << >>
<1>1. "BUY" \in Side /\ Quoted("BUY") = {}
  BY DEF Quoted, NoQueues, Side
<1> QED
  BY <1>1 DEF MakerSignals, OneSided

\* A tick leaves signals that fit: an entry only when the strategy was out.
LEMMA TickStep ==
    ASSUME BInv, NEW reading \in Readings, NEW bid \in Prices, NEW ask \in Prices,
           Tick(reading, bid, ask)
    PROVE  BInv'
<1>1. /\ signals = << >> /\ order' = order /\ queue' = queue /\ strategy' = strategy
      /\ live' = live /\ issued' = issued /\ result' = result
      /\ signals' = SignalsOf(seen', reading, bid, ask)
  BY DEF Tick
<1>2. NeverTrades' /\ OrdersFit'
  BY <1>1 DEF BInv, NeverTrades, OrdersFit
<1>3. OneAtMost'
  BY <1>1 DEF BInv, OneAtMost, Alone
<1>4. seen' \in 0 .. Window
  BY WindowAssumption DEF Tick, Buffered, BInv, TypeOK
<1>5. ~engaged => queue = NoQueues
  BY <1>1 DEF BInv, SignalsFit, Place, CancelAll
<1>6. CASE strategy = "MarketMaking"
  <2>1. queue = NoQueues
    BY <1>6 DEF BInv, OneAtMost
  <2>2. signals' = << >>
    BY <1>1, <1>6, <2>1, NothingQuoted DEF SignalsOf
  <2>3. quotes' = quotes /\ engaged' = engaged
    BY <1>6, <2>2 DEF Tick
  <2>4. Len(signals') <= 4
    BY <2>2
  <2>5. TypeOK'
    BY <1>1, <1>4, <2>3, <2>4 DEF BInv, TypeOK
  <2> QED
    BY <1>1, <1>2, <1>3, <2>1, <2>2, <2>5 DEF BInv, SignalsFit
<1>7. CASE strategy # "MarketMaking"
  <2>1. quotes' = quotes /\ engaged' = IF signals' = << >> THEN engaged ELSE ~engaged
    BY <1>7 DEF Tick
  <2>2. engaged \in BOOLEAN /\ strategy \in {"Momentum", "MeanReversion"}
    BY <1>7 DEF BInv, TypeOK, Strategies
  <2>3. CASE signals' = << >>
    <3>1. engaged' = engaged /\ Len(signals') <= 4
      BY <2>1, <2>3
    <3>2. TypeOK'
      BY <1>1, <1>4, <2>1, <3>1 DEF BInv, TypeOK
    <3> QED
      BY <1>1, <1>2, <1>3, <1>5, <2>3, <3>1, <3>2 DEF BInv, SignalsFit
  <2>4. CASE signals' # << >>
    <3>1. engaged' = ~engaged
      BY <2>1, <2>4
    <3>2. CASE strategy = "Momentum"
      <4>1. signals' = MomentumSignals(reading)
        BY <1>1, <2>4, <3>2 DEF SignalsOf
      <4>2. PICK side \in Side : signals' = << Place(side, "MARKET", 0) >>
        BY <2>4, <4>1 DEF MomentumSignals, Side
      <4>3. Len(signals') <= 4
        BY <4>2
      <4>4. TypeOK'
        BY <1>1, <1>4, <2>1, <2>2, <3>1, <4>3 DEF BInv, TypeOK
      <4>5. SignalsFit'
        BY <1>1, <3>2, <4>2 DEF SignalsFit, Place
      <4> QED
        BY <1>2, <1>3, <4>4, <4>5 DEF BInv
    <3>3. CASE strategy = "MeanReversion"
      <4>1. signals' = ReversionSignals(reading, bid, ask)
        BY <1>1, <2>4, <3>3 DEF SignalsOf
      <4>2. \/ ~engaged /\ \E side \in Side, price \in Prices : signals' = << Place(side, "LIMIT", price) >>
            \/ engaged /\ signals' = << CancelAll >>
        BY <2>4, <4>1 DEF ReversionSignals, Side
      <4>3. Len(signals') <= 4
        BY <4>2
      <4>4. TypeOK'
        BY <1>1, <1>4, <2>1, <2>2, <3>1, <4>3 DEF BInv, TypeOK
      <4>5. SignalsFit'
        BY <1>1, <1>5, <2>2, <3>1, <3>3, <4>2 DEF SignalsFit, Place, CancelAll
      <4> QED
        BY <1>2, <1>3, <4>4, <4>5 DEF BInv
    <3> QED
      BY <2>2, <3>2, <3>3
  <2> QED
    BY <2>3, <2>4
<1> QED
  BY <1>6, <1>7
\* One order more exists, and one id more was taken.
LEMMA OneMore ==
    ASSUME TypeOK, NEW id \in OrderIds, id \notin issued, order[id] = Blank
    PROVE  /\ Cardinality(issued \cup {id}) = Cardinality(issued) + 1
           /\ Cardinality(Known \cup {id}) = Cardinality(Known) + 1
           /\ Cardinality(Known) \in Nat
<1>1. IsFiniteSet(issued) /\ IsFiniteSet(Known)
  BY IdsAssumption, FS_Subset DEF TypeOK, Known
<1>2. id \notin Known
  BY DEF Known
<1> QED
  BY <1>1, <1>2, FS_AddElement, FS_CardinalityType

\* What process_signals submits: one order, into an empty book.
LEMMA SignalTaken ==
    ASSUME BInv, signals # << >>, Signal.action \in Side
    PROVE  /\ queue = NoQueues /\ strategy # "MarketMaking" /\ Tail(signals) = << >>
           /\ Signal.action \in Side
           /\ \/ Signal.type = "MARKET" /\ Signal.price = 0 /\ strategy = "Momentum"
              \/ /\ Signal.type = "LIMIT" /\ Signal.price \in Prices
                 /\ strategy = "MeanReversion" /\ engaged
<1>1. CASE strategy = "Momentum" /\ \E side \in Side : signals = << Place(side, "MARKET", 0) >>
  <2>1. PICK side \in Side : signals = << Place(side, "MARKET", 0) >>
    BY <1>1
  <2>2. Signal = Place(side, "MARKET", 0) /\ Tail(signals) = << >>
    BY <2>1 DEF Signal
  <2>3. queue = NoQueues
    BY <1>1 DEF BInv, OneAtMost
  <2> QED
    BY <1>1, <2>2, <2>3 DEF Place
<1>2. CASE /\ strategy = "MeanReversion" /\ engaged /\ queue = NoQueues
           /\ \E side \in Side, price \in Prices : signals = << Place(side, "LIMIT", price) >>
  <2>1. PICK side \in Side, price \in Prices : signals = << Place(side, "LIMIT", price) >>
    BY <1>2
  <2>2. Signal = Place(side, "LIMIT", price) /\ Tail(signals) = << >>
    BY <2>1 DEF Signal
  <2> QED
    BY <1>2, <2>2 DEF Place
<1>3. CASE signals = << CancelAll >>
  <2>1. Signal.action = "CANCEL_ALL"
    BY <1>3 DEF Signal, CancelAll
  <2> QED
    BY <2>1 DEF Side
<1> QED
  BY <1>1, <1>2, <1>3 DEF BInv, SignalsFit

\* An order is submitted into an empty book, where it meets nobody: a market
\* order is cancelled, a limit order rests alone.
LEMMA SubmitStep ==
    ASSUME BInv, NEW id \in OrderIds, NEW approved \in BOOLEAN, Submit(id, approved)
    PROVE  BInv'
<1>1. /\ signals # << >> /\ Signal.action \in Side /\ id \notin issued
      /\ issued' = issued \cup {id} /\ signals' = Tail(signals)
      /\ strategy' = strategy /\ seen' = seen /\ engaged' = engaged
  BY DEF Submit
<1>2. /\ queue = NoQueues /\ strategy # "MarketMaking" /\ signals' = << >>
      /\ \/ Signal.type = "MARKET" /\ Signal.price = 0 /\ strategy = "Momentum"
         \/ /\ Signal.type = "LIMIT" /\ Signal.price \in Prices
            /\ strategy = "MeanReversion" /\ engaged
  BY <1>1, SignalTaken
<1>3. TypeOK /\ NeverTrades /\ OrdersFit /\ order[id] = Blank
  BY <1>1 DEF BInv, OrdersFit
<1>4. /\ Cardinality(issued') = Cardinality(issued) + 1
      /\ Cardinality(Known \cup {id}) = Cardinality(Known) + 1
      /\ Cardinality(Known) \in Nat
  BY <1>1, <1>3, OneMore
<1>5. /\ result \in [submitted : Nat, rejected : Nat, filled : {0}]
      /\ result.submitted = Cardinality(issued)
      /\ result.submitted = result.rejected + Cardinality(Known)
  BY <1>3 DEF TypeOK, NeverTrades, Known
<1>6. Len(signals') <= 4 /\ issued' \subseteq OrderIds
  BY <1>1, <1>2, <1>3 DEF TypeOK
<1>7. CASE ~approved
  <2>1. /\ result' = [result EXCEPT !.submitted = @ + 1, !.rejected = @ + 1]
        /\ order' = order /\ queue' = queue /\ live' = live /\ quotes' = quotes
    BY <1>7 DEF Submit
  <2>2. /\ result' \in [submitted : Nat, rejected : Nat, filled : {0}]
        /\ result'.submitted = Cardinality(issued')
        /\ result'.submitted = result'.rejected + Cardinality(Known)
    <3>1. result.submitted \in Nat /\ result.rejected \in Nat /\ result.filled = 0
      BY <1>5
    <3>2. result' = [submitted |-> result.submitted + 1, rejected |-> result.rejected + 1, filled |-> 0]
      BY <1>5, <2>1, <3>1
    <3> QED
      BY <1>4, <1>5, <3>1, <3>2
  <2>3. Known' = Known
    BY <2>1 DEF Known
  <2>4. live' \subseteq {x \in issued' : order'[x] # Blank}
    BY <1>1, <1>3, <2>1 DEF TypeOK
  <2>5. TypeOK'
    BY <1>1, <1>3, <1>6, <2>1, <2>2, <2>3, <2>4 DEF TypeOK, Known
  <2>6. NeverTrades' /\ OrdersFit' /\ OneAtMost'
    BY <1>1, <1>2, <1>3, <2>1, <2>2 DEF NeverTrades, OrdersFit, OneAtMost
  <2>7. SignalsFit'
    BY <1>2, <2>1 DEF SignalsFit
  <2> QED
    BY <2>5, <2>6, <2>7 DEF BInv
<1>8. CASE approved
  <2> DEFINE entered == [order EXCEPT ![id] = [Built EXCEPT !.status = "NEW"]]
             after == Book!MatchedOrders(entered, queue, id)
             met == {y \in OrderIds \ {id} : after[y] # entered[y]}
             closed == Book!Leftover(entered[id])
  <2>1. /\ order' = after
        /\ queue' = Book!MatchedQueue(entered, queue, id)
        /\ live' = Tracked(id)
        /\ quotes' = Updated(id)
        /\ result' = [result EXCEPT !.submitted = @ + 1, !.filled = @ + Cardinality(met)]
    BY <1>8 DEF Submit
  <2>2. live' = live \cup {id} /\ quotes' = quotes
    BY <1>2, <2>1 DEF Tracked, Updated, Built, IsDone, Done
  <2>3. entered[id] = [side |-> Signal.action, type |-> Signal.type, price |-> Signal.price,
                       qty |-> Qty, filled_qty |-> 0, status |-> "NEW"]
    BY <1>3 DEF Built, OrdersFit
  <2>4. DOMAIN entered = OrderIds /\ \A y \in OrderIds \ {id} : entered[y] = order[y]
    BY <1>3 DEF OrdersFit
  <2>5. \/ /\ Signal.type = "MARKET"
           /\ closed = [entered[id] EXCEPT !.status = "CANCELLED"]
        \/ Signal.type = "LIMIT" /\ closed = entered[id]
    BY <1>2, <2>3, QtyAssumption DEF Book!Leftover, Book!Remaining
  <2> HIDE DEF entered
  <2>6. /\ after = [x \in OrderIds |-> IF x = id THEN closed ELSE entered[x]]
        /\ queue' = IF closed.type = "LIMIT" /\ ~IsDone(closed) THEN OnlyOrder(id, closed) ELSE NoQueues
    BY <1>1, <1>2, <2>1, <2>3, <2>4, MatchedAlone
  <2>7. order'[id] = closed /\ \A y \in OrderIds \ {id} : order'[y] = order[y] /\ after[y] = entered[y]
    BY <2>1, <2>4, <2>6
  <2> HIDE DEF after
  <2>8. Cardinality(met) = 0
    <3>1. met = {}
      BY <2>7
    <3> QED
      BY <3>1, FS_EmptySet
  <2>9. /\ closed \in [side : Side, type : OrderType, price : Prices \cup {0}, qty : 0 .. MaxQty,
                       filled_qty : {0}, status : {"NEW", "CANCELLED"}]
        /\ closed.status = "NEW" <=> closed.type = "LIMIT"
        /\ closed.type = "LIMIT" => closed.price \in Prices /\ strategy = "MeanReversion" /\ engaged
    BY <1>1, <1>2, <2>3, <2>5, QtyAssumption DEF OrderType
  <2> HIDE DEF closed, met
  <2>10. closed # Blank
    BY <2>9 DEF Blank
  <2>11. Known' = Known \cup {id}
    BY <2>7, <2>10 DEF Known
  <2>12. /\ result' \in [submitted : Nat, rejected : Nat, filled : {0}]
         /\ result'.submitted = Cardinality(issued')
         /\ result'.submitted = result'.rejected + Cardinality(Known')
    <3>1. result.submitted \in Nat /\ result.rejected \in Nat /\ result.filled = 0
      BY <1>5
    <3>2. result' = [submitted |-> result.submitted + 1, rejected |-> result.rejected, filled |-> 0]
      <4>1. result' = [result EXCEPT !.submitted = @ + 1, !.filled = @ + Cardinality(met)]
        BY <2>1
      <4>2. result.filled + Cardinality(met) = 0
        BY <2>8, <3>1
      <4>3. result' = [result EXCEPT !.submitted = result.submitted + 1, !.filled = 0]
        BY <4>1, <4>2
      <4> QED
        BY <1>5, <3>1, <4>3
    <3> QED
      BY <1>4, <1>5, <2>11, <3>1, <3>2
  <2>13. live' \subseteq {x \in issued' : order'[x] # Blank}
    BY <1>1, <1>3, <2>2, <2>7, <2>10 DEF TypeOK
  <2>14. TypeOK'
    BY <1>1, <1>3, <1>6, <2>2, <2>12, <2>13 DEF TypeOK, Known
  <2>15. NeverTrades'
    BY <1>3, <2>7, <2>9, <2>12 DEF NeverTrades
  <2>16. order' \in [OrderIds -> [side : Side, type : OrderType, price : Prices \cup {0},
                                  qty : 0 .. MaxQty, filled_qty : {0}, status : OrderStatus]]
    <3>1. order' = [x \in OrderIds |-> IF x = id THEN closed ELSE order[x]]
      BY <2>1, <2>4, <2>6
    <3>2. closed \in [side : Side, type : OrderType, price : Prices \cup {0},
                      qty : 0 .. MaxQty, filled_qty : {0}, status : OrderStatus]
      BY <2>9 DEF OrderStatus
    <3> QED
      BY <1>3, <3>1, <3>2 DEF OrdersFit
  <2>17. OrdersFit'
    BY <1>1, <1>3, <2>7, <2>9, <2>16 DEF OrdersFit
  <2>18. OneAtMost'
    <3>1. CASE closed.type = "LIMIT"
      <4>1. queue' = OnlyOrder(id, closed)
        BY <2>6, <2>9, <3>1 DEF IsDone, Done
      <4>2. id \in live' /\ order'[id].price \in Prices /\ Alone(id)'
        BY <2>2, <2>7, <2>9, <3>1, <4>1 DEF Alone, OnlyOrder
      <4> QED
        BY <1>1, <2>9, <3>1, <4>2 DEF OneAtMost
    <3>2. CASE closed.type # "LIMIT"
      BY <2>6, <3>2 DEF OneAtMost
    <3> QED
      BY <3>1, <3>2
  <2>19. SignalsFit'
    BY <1>1, <1>2, <2>6, <2>9 DEF SignalsFit
  <2> QED
    BY <2>14, <2>15, <2>17, <2>18, <2>19 DEF BInv
<1> QED
  BY <1>7, <1>8
-----------------------------------------------------------------------------
(* Cancelling.                                                             *)

\* Taking its only element out of a queue leaves it empty.
LEMMA OnlyRemoved ==
    ASSUME NEW id
    PROVE  Book!RemoveFirst(<< id >>, id) = << >> /\ Book!RemoveFirst(<< >>, id) = << >>
<1> DEFINE I == {i \in 1 .. Len(<< id >>) : << id >>[i] = id}
<1>1. I = {1}
  OBVIOUS
<1>2. Book!RemoveFirst(<< id >>, id) =
          IF \E i \in 1 .. Len(<< id >>) : << id >>[i] = id
          THEN Book!RemoveAt(<< id >>, IF I # {} THEN Book!Min(I) ELSE 0) ELSE << id >>
  BY DEF Book!RemoveFirst, Book!SelectInSeq
<1>3. Book!Min({1}) = 1
  BY DEF Book!Min
<1>4. Book!RemoveAt(<< id >>, 1) = << >>
  BY DEF Book!RemoveAt
<1>5. \E i \in 1 .. Len(<< id >>) : << id >>[i] = id
  BY <1>1
<1>6. Book!RemoveFirst(<< id >>, id) = << >>
  <2> HIDE DEF I
  <2> QED
    BY <1>1, <1>2, <1>3, <1>4, <1>5
<1>7. Book!RemoveFirst(<< >>, id) = << >>
  BY DEF Book!RemoveFirst
<1> QED
  BY <1>6, <1>7

\* Alone, an order is resting, no other is, and without it the book is empty.
LEMMA AloneResting ==
    ASSUME OrdersFit, NEW x \in OrderIds, order[x].price \in Prices, Alone(x), NEW id \in OrderIds
    PROVE  /\ Book!Resting(x)
           /\ Book!Resting(id) => id = x
           /\ Book!Without(x) = NoQueues
<1>1. order[x].side \in Side /\ order[id].side \in Side
  BY DEF OrdersFit
<1>2. \A s \in Side, p \in Prices :
          queue[s][p] = IF s = order[x].side /\ p = order[x].price THEN << x >> ELSE << >>
  BY DEF Alone
<1>3. Book!Resting(x)
  <2>1. queue[order[x].side][order[x].price] = << x >>
    BY <1>1, <1>2
  <2>2. Book!Contains(<< x >>, x)
    BY DEF Book!Contains
  <2> QED
    BY <2>1, <2>2 DEF Book!Resting, Book!Queued
<1>4. ASSUME Book!Resting(id) PROVE id = x
  <2>1. PICK p \in Prices : Book!Contains(queue[order[id].side][p], id)
    BY <1>4 DEF Book!Resting, Book!Queued
  <2>2. queue[order[id].side][p] = << x >> \/ queue[order[id].side][p] = << >>
    BY <1>1, <1>2
  <2>3. ~Book!Contains(<< >>, id)
    BY DEF Book!Contains
  <2>4. Book!Contains(<< x >>, id) => id = x
    BY DEF Book!Contains
  <2> QED
    BY <2>1, <2>2, <2>3, <2>4
<1>5. Book!Without(x) = NoQueues
  <2> DEFINE without == [s \in Side |-> [p \in Prices |-> Book!RemoveFirst(queue[s][p], x)]]
  <2>1. Book!Without(x) = without
    BY DEF Book!Without, Book!Unqueued, Book!Side, Side
  <2>2. \A s \in Side, p \in Prices : Book!RemoveFirst(queue[s][p], x) = << >>
    BY <1>2, OnlyRemoved
  <2>3. without \in [Side -> [Prices -> {<< >>}]] /\ \A s \in Side, p \in Prices : without[s][p] = << >>
    BY <2>2
  <2>4. NoQueues \in [Side -> [Prices -> {<< >>}]] /\ \A s \in Side, p \in Prices : NoQueues[s][p] = << >>
    BY DEF NoQueues
  <2> HIDE DEF without
  <2>5. \A s \in Side, p \in Prices : without[s][p] = NoQueues[s][p]
    BY <2>3, <2>4
  <2>6. without = NoQueues
    BY <2>3, <2>4, <2>5, SameQueues
  <2> QED
    BY <2>1, <2>6
<1> QED
  BY <1>3, <1>4, <1>5

\* Nothing rests in an empty book.
LEMMA NoneResting == ASSUME queue = NoQueues, OrdersFit, NEW id \in OrderIds PROVE ~Book!Resting(id)
<1>1. order[id].side \in Side
  BY DEF OrdersFit
<1>2. \A p \in Prices : queue[order[id].side][p] = << >>
  BY <1>1 DEF NoQueues
<1>3. ~Book!Contains(<< >>, id)
  BY DEF Book!Contains
<1> QED
  BY <1>2, <1>3 DEF Book!Resting, Book!Queued

\* A CANCEL_ALL signal cancels what rests, and is over when nothing does.
LEMMA WithdrawStep == ASSUME BInv, Withdraw PROVE BInv'
<1>1. /\ signals # << >> /\ Signal.action \in {"CANCEL", "CANCEL_ALL"}
      /\ strategy' = strategy /\ seen' = seen /\ engaged' = engaged /\ quotes' = quotes
      /\ issued' = issued /\ result' = result
  BY DEF Withdraw
<1>2. TypeOK /\ NeverTrades /\ OrdersFit /\ OneAtMost
  BY DEF BInv
<1>3. strategy = "MeanReversion" /\ ~engaged /\ signals = << CancelAll >>
  <2>1. ASSUME NEW side \in Side, NEW type, NEW price, signals = << Place(side, type, price) >>
        PROVE  FALSE
    <3>1. Signal.action = side
      BY <2>1 DEF Signal, Place
    <3> QED
      BY <1>1, <3>1 DEF Side
  <2> QED
    BY <1>1, <2>1 DEF BInv, SignalsFit
<1>4. Targets = live /\ live \subseteq OrderIds
  BY <1>2, <1>3 DEF Targets, Signal, CancelAll, TypeOK
<1>5. ASSUME NEW id \in Targets, Book!Cancel(id), live' = live \ {id}, signals' = signals
      PROVE  BInv'
  <2>1. /\ id \in OrderIds /\ Book!Resting(id)
        /\ order' = [order EXCEPT ![id].status = "CANCELLED"] /\ queue' = Book!Without(id)
    BY <1>4, <1>5 DEF Book!Cancel
  <2>2. PICK x \in live : order[x].price \in Prices /\ Alone(x)
    BY <1>2, <2>1, NoneResting DEF OneAtMost
  <2>3. queue' = NoQueues
    BY <1>2, <1>4, <2>1, <2>2, AloneResting
  <2>4. order[id] # Blank
    BY <1>2, <1>4, <1>5 DEF TypeOK
  <2>5. /\ DOMAIN order' = OrderIds
        /\ \A y \in OrderIds \ {id} : order'[y] = order[y]
        /\ order'[id] = [order[id] EXCEPT !.status = "CANCELLED"]
    BY <1>2, <2>1 DEF OrdersFit
  <2>6. /\ order'[id] \in [side : Side, type : OrderType, price : Prices \cup {0},
                           qty : 0 .. MaxQty, filled_qty : {0}, status : OrderStatus]
        /\ order'[id].status = "CANCELLED"
    BY <1>2, <2>1, <2>5 DEF OrdersFit, OrderStatus
  <2>7. order'[id] # Blank
    BY <2>6 DEF Blank
  <2>8. Known' = Known
    BY <2>4, <2>5, <2>7 DEF Known
  <2>9. live' \subseteq {y \in issued' : order'[y] # Blank}
    BY <1>1, <1>2, <1>5, <2>1, <2>5, <2>7 DEF TypeOK
  <2>10. TypeOK'
    BY <1>1, <1>2, <1>5, <2>8, <2>9 DEF TypeOK, Known
  <2>11. NeverTrades'
    BY <1>1, <1>2, <2>5, <2>6 DEF NeverTrades
  <2>12. OrdersFit'
    <3>1. order' \in [OrderIds -> [side : Side, type : OrderType, price : Prices \cup {0},
                                   qty : 0 .. MaxQty, filled_qty : {0}, status : OrderStatus]]
      BY <1>2, <2>1, <2>5, <2>6 DEF OrdersFit
    <3> QED
      BY <1>1, <1>2, <2>4, <2>5, <2>6, <3>1 DEF OrdersFit
  <2>13. OneAtMost' /\ SignalsFit'
    BY <1>1, <1>3, <1>5, <2>3 DEF OneAtMost, SignalsFit
  <2> QED
    BY <2>10, <2>11, <2>12, <2>13 DEF BInv
<1>6. ASSUME \A id \in Targets : ~Book!Resting(id), live' = live \ Targets, signals' = Tail(signals),
             order' = order, queue' = queue
      PROVE  BInv'
  <2>1. queue = NoQueues
    BY <1>2, <1>4, <1>6, AloneResting DEF OneAtMost
  <2>2. signals' = << >> /\ Len(signals') <= 4
    BY <1>3, <1>6
  <2>3. Known' = Known /\ live' \subseteq {y \in issued' : order'[y] # Blank}
    BY <1>1, <1>2, <1>6 DEF Known, TypeOK
  <2>4. TypeOK'
    BY <1>1, <1>2, <2>2, <2>3 DEF TypeOK, Known
  <2>5. NeverTrades' /\ OrdersFit'
    BY <1>1, <1>2, <1>6 DEF NeverTrades, OrdersFit
  <2>6. OneAtMost' /\ SignalsFit'
    BY <1>6, <2>1, <2>2 DEF OneAtMost, SignalsFit
  <2> QED
    BY <2>4, <2>5, <2>6 DEF BInv
<1>7. \/ \E id \in Targets : Book!Cancel(id) /\ live' = live \ {id} /\ signals' = signals
      \/ /\ \A id \in Targets : ~Book!Resting(id)
         /\ live' = live \ Targets /\ signals' = Tail(signals)
         /\ order' = order /\ queue' = queue
  BY DEF Withdraw
<1> QED
  BY <1>5, <1>6, <1>7

-----------------------------------------------------------------------------
(* The theorems.                                                           *)

\* The inductive invariant: a strategy submits only into an empty book
\* (Backtester::run, process_signals, the strategies' on_tick).
THEOREM Invariance == Spec => []BInv
<1>1. BInv /\ UNCHANGED vars => BInv'
  <2> SUFFICES ASSUME BInv, UNCHANGED vars PROVE BInv'
    OBVIOUS
  <2>1. /\ order' = order /\ queue' = queue /\ strategy' = strategy /\ seen' = seen
        /\ engaged' = engaged /\ quotes' = quotes /\ signals' = signals /\ live' = live
        /\ issued' = issued /\ result' = result
    BY DEF vars
  <2>2. TypeOK' /\ NeverTrades' /\ OrdersFit'
    BY <2>1 DEF BInv, TypeOK, NeverTrades, OrdersFit
  <2>3. OneAtMost' /\ SignalsFit'
    BY <2>1 DEF BInv, OneAtMost, SignalsFit, Alone
  <2> QED
    BY <2>2, <2>3 DEF BInv
<1>2. BInv /\ [Next]_vars => BInv'
  BY <1>1, TickStep, SubmitStep, WithdrawStep DEF Next
<1> QED
  BY <1>2, Started, PTL DEF Spec

\* Every variable keeps its type, the window its bound, and the counts of the
\* result say how many ids were taken and how many orders exist.
THEOREM TypeCorrect == Spec => []TypeOK
<1>1. BInv => TypeOK
  BY DEF BInv
<1> QED
  BY <1>1, Invariance, PTL

\* No backtest trades, whatever the ticks and however long (Backtester::run):
\* an order finds the book empty.
THEOREM NobodyTrades == Spec => []NeverTrades
<1>1. BInv => NeverTrades
  BY DEF BInv
<1> QED
  BY <1>1, Invariance, PTL

\* CANCEL_ALL reaches every order that rests (process_signals, live_orders).
THEOREM EverythingTracked == Spec => []LiveCoversBook
<1>1. BInv => LiveCoversBook
  <2> SUFFICES ASSUME BInv, NEW id \in OrderIds, Book!Resting(id) PROVE id \in live
    BY DEF LiveCoversBook
  <2>1. OrdersFit /\ OneAtMost /\ live \subseteq OrderIds
    BY DEF BInv, TypeOK
  <2>2. PICK x \in live : order[x].price \in Prices /\ Alone(x)
    BY <2>1, NoneResting DEF OneAtMost
  <2>3. id = x
    BY <2>1, <2>2, AloneResting
  <2> QED
    BY <2>3
<1> QED
  BY <1>1, Invariance, PTL

\* A MeanReversion that believes to be out of its trade left nothing in the book.
THEOREM NothingLeftBehind == Spec => []OutMeansOut
<1>1. BInv => OutMeansOut
  <2> SUFFICES ASSUME BInv, strategy = "MeanReversion", ~engaged, signals = << >>, NEW id \in OrderIds
               PROVE  ~Book!Resting(id)
    BY DEF OutMeansOut
  <2>1. queue = NoQueues /\ OrdersFit
    BY DEF BInv, SignalsFit, Place, CancelAll
  <2> QED
    BY <2>1, NoneResting
<1> QED
  BY <1>1, Invariance, PTL
=============================================================================
