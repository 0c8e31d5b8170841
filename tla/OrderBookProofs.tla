--------------------------- MODULE OrderBookProofs --------------------------
(***************************************************************************)
(* Proofs about OrderBook for any ids, prices and quantities.              *)
(*                                                                         *)
(* IInv is inductive.  Its hard part is BookWellFormed: every action that  *)
(* changes the book does so through SetLevel, so the first lemmas say what *)
(* SetLevel and the removal of one queue element do, and the next ones     *)
(* (DropOne, AddOne, Retotal, RemoveOne) what one order leaving, joining   *)
(* or trading does to a well-formed book.  One lemma per action follows.   *)
(* The second part, about the cached totals and the FOK pre-check that     *)
(* trusts them, has a header of its own, as have the third, on snapshots,  *)
(* and the fourth, on price-time priority.                                 *)
(***************************************************************************)
EXTENDS OrderBookRefinement, CollectionTheorems, TLAPS

BookType(b) ==
    /\ DOMAIN b = Side
    /\ \A s \in Side : DOMAIN b[s] \subseteq Prices
                      /\ \A p \in DOMAIN b[s] : b[s][p] \in Level

\* c is b with the level at (s, p) replaced, or erased when it is empty.
Replaced(b, s, p, level, c) ==
    /\ BookType(c)
    /\ \A t \in Side : t # s => c[t] = b[t]
    /\ level.orders = << >> =>
          /\ DOMAIN c[s] = DOMAIN b[s] \ {p}
          /\ \A q \in DOMAIN c[s] : c[s][q] = b[s][q]
    /\ level.orders # << >> =>
          /\ DOMAIN c[s] = DOMAIN b[s] \cup {p}
          /\ c[s][p] = level
          /\ \A q \in DOMAIN b[s] : q # p => c[s][q] = b[s][q]

\* SetLevel touches one price of one side, and drops the price when its queue is empty.
LEMMA SetLevelReplaces ==
    ASSUME NEW b, BookType(b), NEW s \in Side, NEW p \in Prices, NEW level \in Level
    PROVE  Replaced(b, s, p, level, SetLevel(b, s, p, level))
<1> DEFINE c == SetLevel(b, s, p, level)
           row == IF level.orders = << >> THEN Restrict(b[s], DOMAIN b[s] \ {p})
                                          ELSE [q \in DOMAIN b[s] \cup {p} |-> IF q = p THEN level ELSE b[s][q]]
<1>1. c = [t \in Side |-> IF t = s THEN row ELSE b[t]]
  BY DEF SetLevel, BookType
<1>2. CASE level.orders = << >>
  <2>1. row = [q \in DOMAIN b[s] \ {p} |-> b[s][q]]
    BY <1>2 DEF Restrict
  <2> QED
    BY <1>1, <1>2, <2>1 DEF BookType, Replaced
<1>3. CASE level.orders # << >>
  <2>1. row = [q \in DOMAIN b[s] \cup {p} |-> IF q = p THEN level ELSE b[s][q]]
    BY <1>3
  <2> HIDE DEF row
  <2>2. /\ DOMAIN row = DOMAIN b[s] \cup {p}
        /\ row[p] = level
        /\ \A q \in DOMAIN b[s] : q # p => row[q] = b[s][q]
    BY <2>1
  <2>3. c[s] = row /\ \A t \in Side : t # s => c[t] = b[t]
    BY <1>1
  <2>4. BookType(c)
    BY <1>1, <2>2 DEF BookType
  <2> QED
    BY <1>3, <2>2, <2>3, <2>4 DEF Replaced
<1> QED
  BY <1>2, <1>3

-----------------------------------------------------------------------------
(* BookWellFormed of any book, orders and index.                           *)

Open(o, s, p) ==
    /\ o.side = s /\ o.price = p /\ o.type = "LIMIT"
    /\ o.status \in {"NEW", "PARTIALLY_FILLED"}
    /\ Remaining(o) > 0

Queue(b, s, p) == b[s][p].orders

WellFormed(b, ord, idx) ==
    /\ \A s \in Side : \A p \in DOMAIN b[s] : Queue(b, s, p) # << >>
    /\ \A s \in Side : \A p \in DOMAIN b[s] : \A i \in DOMAIN Queue(b, s, p) :
          Queue(b, s, p)[i] \in idx /\ Open(ord[Queue(b, s, p)[i]], s, p)
    /\ \A s \in Side : \A p \in DOMAIN b[s] : \A i, j \in DOMAIN Queue(b, s, p) :
          Queue(b, s, p)[i] = Queue(b, s, p)[j] => i = j
    /\ \A id \in idx :
          /\ ord[id].price \in DOMAIN b[ord[id].side]
          /\ \E i \in DOMAIN Queue(b, ord[id].side, ord[id].price) :
                Queue(b, ord[id].side, ord[id].price)[i] = id

\* BookWellFormed is WellFormed of the current state.
LEMMA WellFormedIsBookWellFormed == BookWellFormed <=> WellFormed(book, order, orders)
  BY DEF BookWellFormed, NoEmptyLevel, QueuedAreOpen, QueuesDistinct, IndexedAreQueued,
         WellFormed, Open, Queue

\* A well-formed book stays so while its orders stay open on their side and price.
LEMMA OrdersFrame ==
    ASSUME NEW b, NEW ord, NEW new, NEW idx, WellFormed(b, ord, idx),
           \A id \in idx : /\ ord[id].side \in Side
                           /\ new[id].side = ord[id].side /\ new[id].price = ord[id].price
                           /\ Open(new[id], ord[id].side, ord[id].price)
    PROVE  WellFormed(b, new, idx)
  BY DEF WellFormed, Open, Queue

\* One id leaves one queue.
LEMMA DropOne ==
    ASSUME NEW b, BookType(b), NEW ord, NEW idx, WellFormed(b, ord, idx),
           \A id \in idx : ord[id].side \in Side,
           NEW s \in Side, NEW p \in DOMAIN b[s], NEW i \in DOMAIN Queue(b, s, p),
           NEW level \in Level, Dropped(Queue(b, s, p), i, level.orders)
    PROVE  WellFormed(SetLevel(b, s, p, level), ord, idx \ {Queue(b, s, p)[i]})
<1> DEFINE q == Queue(b, s, p)
           c == SetLevel(b, s, p, level)
           id0 == q[i]
<1>1. q \in Seq(OrderIds) /\ p \in Prices /\ i \in 1 .. Len(q) /\ level.orders \in Seq(OrderIds)
  BY DEF BookType, Level, Queue
<1>2. Replaced(b, s, p, level, c)
  BY <1>1, SetLevelReplaces
<1> HIDE DEF c
<1>3. /\ BookType(c)
      /\ \A t \in Side : t # s => c[t] = b[t]
      /\ level.orders = << >> => /\ DOMAIN c[s] = DOMAIN b[s] \ {p}
                                /\ \A r \in DOMAIN c[s] : c[s][r] = b[s][r]
      /\ level.orders # << >> => /\ DOMAIN c[s] = DOMAIN b[s] \cup {p}
                                /\ c[s][p] = level
                                /\ \A r \in DOMAIN b[s] : r # p => c[s][r] = b[s][r]
  BY <1>2 DEF Replaced
<1>4. \A j, k \in DOMAIN q : q[j] = q[k] => j = k
  BY DEF WellFormed
<1>5. \A j \in DOMAIN level.orders : \E k \in DOMAIN q : k # i /\ level.orders[j] = q[k]
  BY <1>1, DroppedElements
<1>6. \A k \in DOMAIN q : k # i => \E j \in DOMAIN level.orders : level.orders[j] = q[k]
  BY <1>1, DroppedElements
<1>7. \A j, k \in DOMAIN level.orders : level.orders[j] = level.orders[k] => j = k
  BY <1>1, <1>4, DroppedElements
<1>8. \A k \in DOMAIN q : k # i => q[k] # id0
  BY DEF WellFormed
<1>9. \A t \in Side : \A r \in DOMAIN c[t] : r \in DOMAIN b[t] /\ (<<t, r>> # <<s, p>> => c[t][r] = b[t][r])
  BY <1>3
<1>10. p \in DOMAIN c[s] => level.orders # << >> /\ c[s][p] = level
  BY <1>3
<1>11. \A t \in Side : \A r \in DOMAIN b[t] : <<t, r>> # <<s, p>> => r \in DOMAIN c[t] /\ c[t][r] = b[t][r]
  BY <1>3
<1>12. \A t \in Side : \A r \in DOMAIN c[t] : Queue(c, t, r) # << >>
  BY <1>9, <1>10 DEF WellFormed, Queue
<1>13. \A t \in Side : \A r \in DOMAIN c[t] : \A j \in DOMAIN Queue(c, t, r) :
           Queue(c, t, r)[j] \in idx \ {id0} /\ Open(ord[Queue(c, t, r)[j]], t, r)
  <2> SUFFICES ASSUME NEW t \in Side, NEW r \in DOMAIN c[t], NEW j \in DOMAIN Queue(c, t, r)
               PROVE  Queue(c, t, r)[j] \in idx \ {id0} /\ Open(ord[Queue(c, t, r)[j]], t, r)
    OBVIOUS
  <2>1. CASE t = s /\ r = p
    <3>1. Queue(c, t, r) = level.orders
      BY <1>10, <2>1 DEF Queue
    <3>2. PICK k \in DOMAIN q : k # i /\ level.orders[j] = q[k]
      BY <1>5, <3>1
    <3>3. q[k] \in idx /\ Open(ord[q[k]], s, p) /\ q[k] # id0
      BY <1>8, <3>2 DEF WellFormed
    <3> QED
      BY <2>1, <3>1, <3>2, <3>3
  <2>2. CASE ~(t = s /\ r = p)
    <3>1. r \in DOMAIN b[t] /\ Queue(c, t, r) = Queue(b, t, r)
      BY <1>9, <2>2 DEF Queue
    <3>2. Queue(b, t, r)[j] \in idx /\ Open(ord[Queue(b, t, r)[j]], t, r)
      BY <3>1 DEF WellFormed
    <3>3. Open(ord[id0], s, p)
      BY DEF WellFormed
    <3>4. Queue(b, t, r)[j] # id0
      BY <2>2, <3>2, <3>3 DEF Open
    <3> QED
      BY <3>1, <3>2, <3>4
  <2> QED
    BY <2>1, <2>2
<1>14. \A t \in Side : \A r \in DOMAIN c[t] : \A j, k \in DOMAIN Queue(c, t, r) :
           Queue(c, t, r)[j] = Queue(c, t, r)[k] => j = k
  BY <1>7, <1>9, <1>10 DEF WellFormed, Queue
<1>15. \A id \in idx \ {id0} :
          /\ ord[id].price \in DOMAIN c[ord[id].side]
          /\ \E j \in DOMAIN Queue(c, ord[id].side, ord[id].price) :
                Queue(c, ord[id].side, ord[id].price)[j] = id
  <2> SUFFICES ASSUME NEW id \in idx, id # id0
               PROVE  /\ ord[id].price \in DOMAIN c[ord[id].side]
                      /\ \E j \in DOMAIN Queue(c, ord[id].side, ord[id].price) :
                            Queue(c, ord[id].side, ord[id].price)[j] = id
    OBVIOUS
  <2> DEFINE t == ord[id].side
             r == ord[id].price
  <2>1. t \in Side /\ r \in DOMAIN b[t]
    BY DEF WellFormed
  <2>2. PICK k \in DOMAIN Queue(b, t, r) : Queue(b, t, r)[k] = id
    BY DEF WellFormed
  <2>3. CASE t = s /\ r = p
    <3>1. k \in DOMAIN q /\ k # i /\ q[k] = id
      BY <2>2, <2>3
    <3>2. PICK j \in DOMAIN level.orders : level.orders[j] = id
      BY <1>6, <3>1
    <3>3. level.orders # << >>
      BY <1>1, <3>2
    <3>4. p \in DOMAIN c[s] /\ c[s][p] = level
      BY <1>3, <3>3
    <3> QED
      BY <2>3, <3>2, <3>4 DEF Queue
  <2>4. CASE ~(t = s /\ r = p)
    BY <1>11, <2>1, <2>2, <2>4 DEF Queue
  <2> QED
    BY <2>3, <2>4
<1> QED
  BY <1>12, <1>13, <1>14, <1>15 DEF WellFormed, c

\* One id joins the tail of the queue of its side and price.
LEMMA AddOne ==
    ASSUME NEW b, BookType(b), NEW ord, NEW idx, WellFormed(b, ord, idx),
           \A x \in idx : ord[x].side \in Side,
           NEW id \in OrderIds, id \notin idx, ord[id] \in Order,
           ord[id].price \in Prices, Open(ord[id], ord[id].side, ord[id].price)
    PROVE  /\ BookType(AddToBook(b, id, ord[id]))
           /\ WellFormed(AddToBook(b, id, ord[id]), ord, idx \cup {id})
<1> DEFINE o == ord[id]
           s == o.side
           p == o.price
           old == IF p \in DOMAIN b[s] THEN b[s][p] ELSE EmptyLevel
           level == [orders |-> Append(old.orders, id), total_qty |-> old.total_qty + Remaining(o)]
           c == AddToBook(b, id, o)
           q == old.orders
           n == Len(q)
<1>1. s \in Side /\ p \in Prices /\ Remaining(o) \in Int
  BY DEF Order, Remaining
<1>2. old \in Level
  BY <1>1 DEF BookType, Level, EmptyLevel
<1>3. q \in Seq(OrderIds) /\ old.total_qty \in Int
  BY <1>2 DEF Level
<1>4. c = SetLevel(b, s, p, level)
  BY DEF AddToBook
<1> HIDE DEF old
<1>5. /\ level.orders \in Seq(OrderIds)
      /\ DOMAIN level.orders = 1 .. n + 1 /\ DOMAIN q = 1 .. n /\ n \in Nat
      /\ level.orders[n + 1] = id
      /\ \A j \in 1 .. n : level.orders[j] = q[j]
      /\ level.orders # << >>
  BY <1>3
<1>6. level \in Level
  BY <1>1, <1>3, <1>5 DEF Level
<1>7. Replaced(b, s, p, level, c)
  BY <1>1, <1>4, <1>6, SetLevelReplaces
<1>8. /\ \A j \in 1 .. n : q[j] \in idx /\ Open(ord[q[j]], s, p)
      /\ \A j, k \in 1 .. n : q[j] = q[k] => j = k
  <2>1. CASE p \in DOMAIN b[s]
    <3>1. q = Queue(b, s, p)
      BY <2>1 DEF old, Queue
    <3> QED
      BY <1>1, <1>5, <2>1, <3>1 DEF WellFormed
  <2>2. CASE p \notin DOMAIN b[s]
    <3>1. q = << >>
      BY <2>2 DEF old, EmptyLevel
    <3>2. n = 0
      BY <3>1
    <3> QED
      BY <3>2
  <2> QED
    BY <2>1, <2>2
<1> DEFINE lq == level.orders
<1> HIDE DEF level, c, q, n
<1>10. /\ BookType(c)
       /\ \A t \in Side : t # s => c[t] = b[t]
       /\ DOMAIN c[s] = DOMAIN b[s] \cup {p}
       /\ Queue(c, s, p) = lq
       /\ \A r \in DOMAIN b[s] : r # p => Queue(c, s, r) = Queue(b, s, r)
  BY <1>5, <1>7 DEF Replaced, Queue
<1>11. \A t \in Side : \A r \in DOMAIN c[t] :
          <<t, r>> # <<s, p>> => r \in DOMAIN b[t] /\ Queue(c, t, r) = Queue(b, t, r)
  BY <1>10 DEF Queue
<1>12. \A j \in DOMAIN lq : /\ lq[j] \in idx \cup {id} /\ Open(ord[lq[j]], s, p)
  BY <1>5, <1>8
<1>13. \A j, k \in DOMAIN lq : lq[j] = lq[k] => j = k
  <2>1. \A j \in 1 .. n : lq[j] # id
    BY <1>5, <1>8
  <2>2. \A j \in DOMAIN lq : j \in 1 .. n \/ j = n + 1
    BY <1>5
  <2> QED
    BY <1>5, <1>8, <2>1, <2>2
<1>14. \A t \in Side : \A r \in DOMAIN c[t] : Queue(c, t, r) # << >>
  BY <1>5, <1>10, <1>11 DEF WellFormed
<1>15. \A t \in Side : \A r \in DOMAIN c[t] : \A i \in DOMAIN Queue(c, t, r) :
          Queue(c, t, r)[i] \in idx \cup {id} /\ Open(ord[Queue(c, t, r)[i]], t, r)
  BY <1>10, <1>11, <1>12 DEF WellFormed
<1>16. \A t \in Side : \A r \in DOMAIN c[t] : \A i, j \in DOMAIN Queue(c, t, r) :
          Queue(c, t, r)[i] = Queue(c, t, r)[j] => i = j
  BY <1>10, <1>11, <1>13 DEF WellFormed
<1>17. ASSUME NEW x \in idx \cup {id}
       PROVE  /\ ord[x].price \in DOMAIN c[ord[x].side]
              /\ \E i \in DOMAIN Queue(c, ord[x].side, ord[x].price) :
                    Queue(c, ord[x].side, ord[x].price)[i] = x
  <2>1. CASE x = id
    <3>1. n + 1 \in DOMAIN lq /\ lq[n + 1] = id
      BY <1>5
    <3> QED
      BY <1>10, <2>1, <3>1
  <2>2. CASE x \in idx
    <3> DEFINE t == ord[x].side
               r == ord[x].price
    <3>1. t \in Side /\ r \in DOMAIN b[t]
      BY <2>2 DEF WellFormed
    <3>2. PICK i \in DOMAIN Queue(b, t, r) : Queue(b, t, r)[i] = x
      BY <2>2 DEF WellFormed
    <3>3. CASE t = s /\ r = p
      <4>1. q = Queue(b, t, r)
        BY <3>1, <3>3 DEF q, old, Queue
      <4>2. i \in DOMAIN lq /\ lq[i] = x
        BY <1>5, <3>2, <4>1
      <4> QED
        BY <1>10, <3>3, <4>2
    <3>4. CASE ~(t = s /\ r = p)
      <4>1. r \in DOMAIN c[t] /\ Queue(c, t, r) = Queue(b, t, r)
        BY <1>10, <3>1, <3>4 DEF Queue
      <4> QED
        BY <3>2, <4>1
    <3> QED
      BY <3>3, <3>4
  <2> QED
    BY <2>1, <2>2
<1> QED
  BY <1>10, <1>14, <1>15, <1>16, <1>17 DEF WellFormed, c

\* The level keeps its queue, whatever its total becomes.
LEMMA Retotal ==
    ASSUME NEW b, BookType(b), NEW ord, NEW idx, WellFormed(b, ord, idx),
           \A id \in idx : ord[id].side \in Side,
           NEW s \in Side, NEW p \in DOMAIN b[s], NEW level \in Level,
           level.orders = Queue(b, s, p)
    PROVE  WellFormed(SetLevel(b, s, p, level), ord, idx)
<1> DEFINE c == SetLevel(b, s, p, level)
<1>1. p \in Prices /\ level.orders # << >>
  BY DEF BookType, WellFormed
<1>2. Replaced(b, s, p, level, c)
  BY <1>1, SetLevelReplaces
<1> HIDE DEF c
<1>3. /\ \A t \in Side : DOMAIN c[t] = DOMAIN b[t]
      /\ \A t \in Side : \A r \in DOMAIN b[t] : Queue(c, t, r) = Queue(b, t, r)
  BY <1>1, <1>2 DEF Replaced, Queue
<1>4. \A x \in idx : ord[x].price \in DOMAIN b[ord[x].side] /\ ord[x].side \in Side
  BY DEF WellFormed
<1> QED
  BY <1>3, <1>4 DEF WellFormed, c

\* remove_from_book takes an indexed id out of its level.
LEMMA RemoveOne ==
    ASSUME NEW b, BookType(b), NEW ord, NEW idx, WellFormed(b, ord, idx),
           \A x \in idx : ord[x].side \in Side /\ Remaining(ord[x]) \in Int,
           NEW id \in idx
    PROVE  /\ BookType(RemoveFromBook(b, id, ord[id]))
           /\ WellFormed(RemoveFromBook(b, id, ord[id]), ord, idx \ {id})
<1> DEFINE s == ord[id].side
           p == ord[id].price
           q == Queue(b, s, p)
           i == Position(q, id)
           level == [orders |-> RemoveAt(q, i), total_qty |-> b[s][p].total_qty - Remaining(ord[id])]
<1>1. s \in Side /\ p \in DOMAIN b[s] /\ \E k \in DOMAIN q : q[k] = id
  BY DEF WellFormed
<1>2. i \in DOMAIN q /\ q[i] = id
  BY <1>1 DEF Position
<1>3. q \in Seq(OrderIds) /\ b[s][p].total_qty \in Int /\ p \in Prices
  BY <1>1 DEF BookType, Level, Queue
<1>4. i \in 1 .. Len(q)
  BY <1>2, <1>3
<1>5. RemoveFromBook(b, id, ord[id]) = SetLevel(b, s, p, level)
  BY <1>1 DEF RemoveFromBook, Queue
<1> HIDE DEF q, i
<1>6. RemoveAt(q, i) \in Seq(OrderIds) /\ Dropped(q, i, RemoveAt(q, i))
  BY <1>3, <1>4, RemoveAtValue DEF Dropped
<1>7. level \in Level /\ Dropped(q, i, level.orders)
  BY <1>3, <1>6 DEF Level
<1> HIDE DEF level
<1>8. WellFormed(SetLevel(b, s, p, level), ord, idx \ {q[i]})
  BY <1>1, <1>2, <1>7, DropOne DEF q
<1>9. Replaced(b, s, p, level, SetLevel(b, s, p, level))
  BY <1>1, <1>3, <1>7, SetLevelReplaces
<1> QED
  BY <1>2, <1>5, <1>8, <1>9 DEF Replaced

-----------------------------------------------------------------------------
(* IInv is inductive.                                                      *)

\* The empty book satisfies the invariant.
LEMMA InitEstablishes == Init => IInv
<1> SUFFICES ASSUME Init PROVE IInv
  OBVIOUS
<1> USE DEF Init
<1>1. Blank \in Order
  BY MaxQtyAssumption DEF Blank, Order, Side, OrderType, OrderStatus
<1>2. TypeOK
  BY <1>1, MaxQtyAssumption DEF TypeOK, Notice, Blank, OrderStatus
<1>3. StatusAgrees /\ BookWellFormed /\ IncomingApart /\ Uncrossed
  BY DEF StatusAgrees, Agrees, Blank, BookWellFormed, NoEmptyLevel, QueuedAreOpen, QueuesDistinct,
         IndexedAreQueued, IncomingApart, Uncrossed
<1> QED
  BY <1>2, <1>3 DEF IInv

\* What the step proofs use of the invariant.
LEMMA InvFacts ==
    ASSUME IInv
    PROVE  /\ BookType(book) /\ WellFormed(book, order, orders)
           /\ orders \subseteq OrderIds
           /\ \A id \in OrderIds : /\ order[id] \in Order /\ order[id].side \in Side
                                   /\ Remaining(order[id]) \in Nat
                                   /\ Remaining(order[id]) <= order[id].qty
           /\ \A id \in orders : /\ Open(order[id], order[id].side, order[id].price)
                                /\ order[id].price \in Prices
<1>1. BookType(book) /\ WellFormed(book, order, orders) /\ orders \subseteq OrderIds
  BY WellFormedIsBookWellFormed DEF IInv, TypeOK, BookType
<1>2. ASSUME NEW id \in OrderIds
      PROVE  /\ order[id] \in Order /\ order[id].side \in Side
             /\ Remaining(order[id]) \in Nat /\ Remaining(order[id]) <= order[id].qty
  BY DEF IInv, TypeOK, StatusAgrees, Agrees, Order, Remaining
<1>3. ASSUME NEW id \in orders
      PROVE  Open(order[id], order[id].side, order[id].price) /\ order[id].price \in Prices
  <2>1. /\ order[id].side \in Side /\ order[id].price \in DOMAIN book[order[id].side]
        /\ \E i \in DOMAIN Queue(book, order[id].side, order[id].price) :
              Queue(book, order[id].side, order[id].price)[i] = id
    BY <1>1, <1>2 DEF WellFormed
  <2> QED
    BY <1>1, <2>1 DEF WellFormed, BookType
<1> QED
  BY <1>1, <1>2, <1>3

\* IInv in the next state, from its parts.
LEMMA InvFromParts ==
    ASSUME TypeOK', StatusAgrees', WellFormed(book', order', orders'),
           IncomingApart', Uncrossed'
    PROVE  IInv'
  BY DEF IInv, WellFormed, Open, Queue, BookWellFormed, NoEmptyLevel, QueuedAreOpen,
         QueuesDistinct, IndexedAreQueued

\* add_order up to the loop keeps the invariant: a new id is in no queue.
LEMMA AddOrderStep ==
    ASSUME IInv, NEW id \in OrderIds, NEW o \in Submittable, AddOrder(id, o)
    PROVE  IInv'
<1> DEFINE entered == IF Killed(o) THEN [o EXCEPT !.status = "EXPIRED"] ELSE o
<1>1. /\ incoming = NoOrder /\ order[id] = Blank
      /\ order' = [order EXCEPT ![id] = entered]
      /\ notified' = [notified EXCEPT ![id] = Notice(entered)]
      /\ incoming' = IF Killed(o) THEN NoOrder ELSE id
      /\ UNCHANGED <<book, orders, trades, amended>>
  BY DEF AddOrder
<1>2. /\ entered \in Order /\ entered.filled_qty = 0 /\ entered.qty > 0
      /\ entered.type # "MARKET" => entered.price \in Prices
      /\ Agrees(entered)
      /\ ~Killed(o) => entered = o /\ o.status = "NEW"
  BY MaxQtyAssumption DEF Submittable, Order, OrderStatus, Agrees
<1> HIDE DEF entered
<1>3. id \notin orders
  BY <1>1, InvFacts DEF Open, Blank
<1>4. TypeOK'
  BY <1>1, <1>2 DEF IInv, TypeOK, Notice, Order
<1>5. StatusAgrees'
  BY <1>1, <1>2 DEF IInv, TypeOK, StatusAgrees, Order
<1>6. \A x \in orders : order'[x] = order[x]
  BY <1>1, <1>3, InvFacts DEF IInv, TypeOK
<1>7. WellFormed(book', order', orders')
  BY <1>1, <1>6, InvFacts, OrdersFrame
<1>8. IncomingApart'
  BY <1>1, <1>2, <1>3 DEF IncomingApart, IInv, TypeOK, Remaining, Order
<1>9. Uncrossed'
  BY <1>1, <1>6 DEF IInv, Uncrossed
<1> QED
  BY <1>4, <1>5, <1>7, <1>8, <1>9, InvFromParts

\* cancel_order takes the id out of its queue and of the index.
LEMMA CancelOrderStep ==
    ASSUME IInv, NEW id \in OrderIds, CancelOrder(id)
    PROVE  IInv'
<1> DEFINE closed == [order[id] EXCEPT !.status = "CANCELLED"]
<1>1. /\ incoming = NoOrder /\ id \in orders
      /\ book' = RemoveFromBook(book, id, order[id])
      /\ order' = [order EXCEPT ![id] = closed]
      /\ notified' = [notified EXCEPT ![id] = Notice(closed)]
      /\ orders' = orders \ {id}
      /\ UNCHANGED <<incoming, trades, amended>>
  BY DEF CancelOrder
<1>2. BookType(book') /\ WellFormed(book', order, orders')
  BY <1>1, InvFacts, RemoveOne
<1>3. closed \in Order /\ Agrees(closed)
  BY <1>1, InvFacts DEF IInv, StatusAgrees, Agrees, Open, Order, OrderStatus
<1> HIDE DEF closed
<1>4. \A x \in orders' : order'[x] = order[x] /\ x \in orders
  BY <1>1 DEF IInv, TypeOK
<1>5. TypeOK'
  BY <1>1, <1>2, <1>3 DEF IInv, TypeOK, BookType, Notice, Order
<1>6. StatusAgrees'
  BY <1>1, <1>3 DEF IInv, TypeOK, StatusAgrees
<1>7. WellFormed(book', order', orders')
  BY <1>2, <1>4, InvFacts, OrdersFrame
<1>8. IncomingApart' /\ Uncrossed'
  BY <1>1, <1>4 DEF IInv, IncomingApart, Uncrossed
<1> QED
  BY <1>5, <1>6, <1>7, <1>8, InvFromParts

\* make_trade on an order that has qty left.
LEMMA FilledValue ==
    ASSUME NEW o \in Order, Agrees(o), NEW qty \in Nat, qty > 0, qty <= Remaining(o)
    PROVE  LET f == Filled(o, qty) IN
           /\ f \in Order /\ Agrees(f)
           /\ f.side = o.side /\ f.type = o.type /\ f.price = o.price
           /\ f.status \in {"FILLED", "PARTIALLY_FILLED"}
           /\ f.status = "FILLED" <=> Remaining(f) = 0
<1> DEFINE more == [o EXCEPT !.filled_qty = o.filled_qty + qty]
           status == IF Remaining(o) = qty THEN "FILLED" ELSE "PARTIALLY_FILLED"
           f == [more EXCEPT !.status = status]
<1>1. f = Filled(o, qty)
  BY DEF Filled
<1>0. o.filled_qty + qty > 0 /\ o.filled_qty + qty \in 0 .. MaxQty /\ o.filled_qty + qty <= o.qty
  <2>1. o.filled_qty \in 0 .. MaxQty /\ o.qty \in 0 .. MaxQty
    BY DEF Order
  <2> QED
    BY <2>1, MaxQtyAssumption DEF Remaining
<1>2. /\ more \in Order /\ more.filled_qty = o.filled_qty + qty /\ more.qty = o.qty
      /\ more.side = o.side /\ more.type = o.type /\ more.price = o.price
      /\ more.filled_qty <= more.qty
  BY <1>0 DEF Order
<1>3. status \in OrderStatus /\ status \in {"FILLED", "PARTIALLY_FILLED"}
  BY DEF OrderStatus
<1> HIDE DEF more, status
<1>4. /\ f \in Order /\ f.filled_qty = more.filled_qty /\ f.qty = more.qty
      /\ f.side = more.side /\ f.type = more.type /\ f.price = more.price
      /\ f.status = status
  BY <1>2, <1>3 DEF Order
<1> HIDE DEF f
<1>5. f.status = "FILLED" <=> Remaining(f) = 0
  BY <1>2, <1>4 DEF Remaining, Order, status
<1>6. f.filled_qty > 0 /\ f.filled_qty <= f.qty
  BY <1>0, <1>2, <1>4 DEF Order
<1>7. Agrees(f)
  BY <1>3, <1>4, <1>5, <1>6 DEF Agrees, Remaining, Order
<1> QED
  BY <1>1, <1>2, <1>3, <1>4, <1>5, <1>7

\* An amended order.
LEMMA MovedValue ==
    ASSUME NEW o \in Order, Agrees(o), o.status # "FILLED",
           NEW price \in Prices, NEW qty \in 1 .. MaxQty, qty > o.filled_qty
    PROVE  LET m == Moved(o, price, qty) IN
           /\ m \in Order /\ m.side = o.side /\ m.type = o.type /\ m.status = o.status
           /\ m.price = price /\ Agrees(m) /\ Remaining(m) > 0
<1> DEFINE at == [o EXCEPT !.price = price]
<1>1. /\ at \in Order /\ at.side = o.side /\ at.type = o.type /\ at.status = o.status
      /\ at.price = price /\ at.filled_qty = o.filled_qty
  BY DEF Order
<1>2. qty \in 0 .. MaxQty /\ o.filled_qty \in Int
  BY MaxQtyAssumption DEF Order
<1> DEFINE m == [at EXCEPT !.qty = qty]
<1>3. m = Moved(o, price, qty)
  BY DEF Moved
<1> HIDE DEF at
<1>4. /\ m \in Order /\ m.side = at.side /\ m.type = at.type /\ m.status = at.status
      /\ m.price = at.price /\ m.filled_qty = at.filled_qty /\ m.qty = qty
  BY <1>1, <1>2 DEF Order
<1> HIDE DEF m
<1>5. Agrees(m) /\ Remaining(m) > 0
  BY <1>1, <1>2, <1>4 DEF Remaining, Agrees
<1> QED
  BY <1>1, <1>3, <1>4, <1>5

\* modify_order removes and re-adds: the book is well-formed in between and after.
LEMMA ModifyOrderStep ==
    ASSUME IInv, NEW id \in OrderIds, NEW price \in Prices, NEW qty \in 1 .. MaxQty,
           ModifyOrder(id, price, qty)
    PROVE  IInv'
<1> DEFINE moved == Moved(order[id], price, qty)
           b == RemoveFromBook(book, id, order[id])
<1>1. /\ incoming = NoOrder /\ id \in orders /\ qty > order[id].filled_qty
      /\ book' = AddToBook(b, id, moved)
      /\ order' = [order EXCEPT ![id] = moved]
      /\ amended' = amended \cup {id}
      /\ UNCHANGED <<orders, incoming, trades, notified>>
  BY DEF ModifyOrder, Requeued
<1>2. BookType(b) /\ WellFormed(b, order, orders \ {id})
  <2>1. \A x \in orders : order[x].side \in Side /\ Remaining(order[x]) \in Int
    BY InvFacts
  <2> QED
    BY <1>1, <2>1, InvFacts, RemoveOne
<1>3. /\ moved \in Order /\ moved.side \in Side /\ moved.price \in Prices
      /\ Open(moved, moved.side, moved.price)
      /\ Agrees(moved)
  <2>1. order[id] \in Order /\ Open(order[id], order[id].side, order[id].price)
        /\ order[id].side \in Side
    BY <1>1, InvFacts
  <2>2. /\ moved \in Order /\ moved.side = order[id].side /\ moved.type = order[id].type
        /\ moved.status = order[id].status /\ moved.price = price
        /\ Agrees(moved) /\ Remaining(moved) > 0
    <3>1. /\ order[id] \in Order /\ qty > order[id].filled_qty
          /\ order[id].status # "FILLED" /\ Agrees(order[id])
      BY <1>1, <2>1, InvFacts DEF Open, IInv, StatusAgrees
    <3> QED
      BY <3>1, MovedValue
  <2> HIDE DEF moved
  <2> QED
    BY <2>1, <2>2 DEF Open
<1> HIDE DEF moved, b
<1>4. /\ order'[id] = moved
      /\ \A x \in OrderIds : x # id => order'[x] = order[x]
      /\ order' \in [OrderIds -> Order]
  BY <1>1, <1>3 DEF IInv, TypeOK
<1>5. WellFormed(b, order', orders \ {id})
  BY <1>2, <1>4, InvFacts, OrdersFrame
<1>6. \A x \in orders \ {id} : order'[x].side \in Side
  BY <1>4, InvFacts
<1>7. BookType(book') /\ WellFormed(book', order', (orders \ {id}) \cup {id})
  <2>1. /\ id \notin orders \ {id} /\ order'[id] \in Order /\ order'[id].price \in Prices
        /\ Open(order'[id], order'[id].side, order'[id].price)
        /\ book' = AddToBook(b, id, order'[id])
    BY <1>1, <1>3, <1>4
  <2> QED
    BY <1>2, <1>5, <1>6, <2>1, AddOne
<1>8. (orders \ {id}) \cup {id} = orders'
  BY <1>1
<1>9. TypeOK'
  BY <1>1, <1>4, <1>7 DEF IInv, TypeOK, BookType
<1>10. StatusAgrees'
  BY <1>3, <1>4 DEF IInv, StatusAgrees
<1>11. IncomingApart'
  BY <1>1 DEF IInv, IncomingApart
<1>12. Uncrossed'
  BY <1>1, <1>4 DEF IInv, TypeOK, Uncrossed
<1> QED
  BY <1>7, <1>8, <1>9, <1>10, <1>11, <1>12, InvFromParts

\* One loop iteration: the front order of the best level shrinks or leaves.
LEMMA FillStep ==
    ASSUME IInv, Fill
    PROVE  IInv'
<1> DEFINE taker == order[incoming]
           other == Opposite(taker.side)
<1>1. PICK p \in DOMAIN book[other] : CanFillAt(p) /\ FillAt(p)
  BY DEF Fill
<1> DEFINE level == book[other][p]
           rid == Head(level.orders)
           qty == FillQty(taker, order[rid])
           taken == Filled(taker, qty)
           resting == Filled(order[rid], qty)
           left == [orders |-> IF IsDone(resting) THEN Tail(level.orders) ELSE level.orders,
                    total_qty |-> level.total_qty - qty]
<1>2. /\ incoming # NoOrder /\ incoming' = incoming /\ amended' = amended
      /\ Remaining(taker) > 0
  BY <1>1 DEF Fill, CanFillAt
<1>3. /\ order' = [order EXCEPT ![incoming] = taken, ![rid] = resting]
      /\ trades' = Append(trades, [taker |-> incoming, resting |-> rid,
                                  price |-> order[rid].price, qty |-> qty])
      /\ notified' = [notified EXCEPT ![rid] = Notice(resting), ![incoming] = Notice(taken)]
      /\ book' = SetLevel(book, other, p, left)
      /\ orders' = IF IsDone(resting) THEN orders \ {rid} ELSE orders
  BY <1>1 DEF FillAt
<1>4. /\ incoming \in OrderIds /\ incoming \notin orders /\ taker \in Order
      /\ other \in Side
  BY <1>2, InvFacts DEF IInv, IncomingApart, Opposite, Side
<1>5. /\ level \in Level /\ level.orders \in Seq(OrderIds) /\ level.orders # << >>
      /\ level.orders = Queue(book, other, p)
  BY <1>4, InvFacts DEF BookType, Level, WellFormed, Queue
<1>6. /\ 1 \in DOMAIN level.orders /\ rid = level.orders[1]
  BY <1>5
<1>7. rid \in orders /\ Open(order[rid], other, p)
  BY <1>4, <1>5, <1>6, InvFacts DEF WellFormed
<1>8. rid \in OrderIds /\ order[rid] \in Order /\ rid # incoming
  BY <1>4, <1>7, InvFacts
<1> HIDE DEF taker, other, level, rid
<1>9. /\ qty \in Nat /\ qty > 0 /\ qty <= Remaining(taker) /\ qty <= Remaining(order[rid])
  BY <1>2, <1>4, <1>7, <1>8 DEF FillQty, Open, Remaining, Order
<1> HIDE DEF qty
<1>10. Agrees(taker) /\ Agrees(order[rid])
  BY <1>4, <1>8 DEF IInv, StatusAgrees, taker
<1>12. /\ taken \in Order /\ Agrees(taken)
       /\ taken.side = taker.side /\ taken.type = taker.type /\ taken.price = taker.price
       /\ taken.status \in {"FILLED", "PARTIALLY_FILLED"}
       /\ taken.status = "FILLED" <=> Remaining(taken) = 0
  BY <1>4, <1>9, <1>10, FilledValue
<1>13. /\ resting \in Order /\ Agrees(resting)
       /\ resting.side = order[rid].side /\ resting.type = order[rid].type
       /\ resting.price = order[rid].price
       /\ resting.status \in {"FILLED", "PARTIALLY_FILLED"}
       /\ resting.status = "FILLED" <=> Remaining(resting) = 0
  BY <1>8, <1>9, <1>10, FilledValue
<1> HIDE DEF taken, resting
<1>11. ~IsDone(resting) => Open(resting, other, p)
  <2>1. Remaining(resting) \in Nat
    BY <1>13 DEF Agrees, Order, Remaining
  <2> QED
    BY <1>7, <1>13, <2>1 DEF IsDone, Done, Open
<1>14. /\ order' \in [OrderIds -> Order]
       /\ order'[incoming] = taken /\ order'[rid] = resting
       /\ \A x \in OrderIds : x # incoming /\ x # rid => order'[x] = order[x]
  BY <1>3, <1>4, <1>8, <1>12, <1>13 DEF IInv, TypeOK, taker
<1>15. p \in Prices /\ order[rid].price = p
  BY <1>4, <1>7, InvFacts DEF BookType, Open
<1>16. left \in Level
  BY <1>5, <1>9 DEF Level
<1>17. BookType(book')
  BY <1>3, <1>4, <1>15, <1>16, InvFacts, SetLevelReplaces DEF Replaced
<1>18. WellFormed(book', order', orders')
  <2>1. CASE IsDone(resting)
    <3>1. Dropped(level.orders, 1, left.orders)
      BY <1>5, <2>1 DEF Dropped
    <3>2. WellFormed(book', order, orders')
      BY <1>3, <1>4, <1>5, <1>6, <1>16, <2>1, <3>1, InvFacts, DropOne
    <3>3. \A x \in orders' : order'[x] = order[x] /\ x \in orders
      BY <1>3, <1>4, <1>14, <2>1, InvFacts
    <3> QED
      BY <3>2, <3>3, InvFacts, OrdersFrame
  <2>2. CASE ~IsDone(resting)
    <3>1. WellFormed(book', order, orders')
      BY <1>3, <1>4, <1>5, <1>16, <2>2, InvFacts, Retotal
    <3>2. \A x \in orders' : /\ x \in orders
                             /\ order'[x].side = order[x].side /\ order'[x].price = order[x].price
                             /\ Open(order'[x], order[x].side, order[x].price)
      BY <1>3, <1>4, <1>7, <1>11, <1>13, <1>14, <2>2, InvFacts DEF Open
    <3> QED
      BY <3>1, <3>2, InvFacts, OrdersFrame
  <2> QED
    BY <2>1, <2>2
<1>19. TypeOK'
  <2>1. notified' \in [OrderIds -> [status : OrderStatus, filled_qty : 0 .. MaxQty]]
    BY <1>3, <1>4, <1>8, <1>12, <1>13 DEF IInv, TypeOK, Notice, Order
  <2>2. qty \in 0 .. MaxQty
    <3>1. taker.qty \in 0 .. MaxQty /\ taker.filled_qty \in 0 .. MaxQty
      BY <1>4 DEF Order
    <3> QED
      BY <1>9, <3>1, MaxQtyAssumption DEF Remaining
  <2>3. trades' \in Seq([taker : OrderIds, resting : OrderIds, price : Prices, qty : 0 .. MaxQty])
    BY <1>3, <1>4, <1>8, <1>15, <2>2 DEF IInv, TypeOK
  <2> QED
    BY <1>2, <1>3, <1>14, <1>17, <2>1, <2>3 DEF IInv, TypeOK, BookType
<1>20. StatusAgrees'
  BY <1>12, <1>13, <1>14 DEF IInv, StatusAgrees
<1>21. IncomingApart'
  BY <1>2, <1>3, <1>4, <1>12, <1>14 DEF IInv, IncomingApart, taker
<1>22. Uncrossed'
  BY <1>2, <1>3, <1>4, <1>7, <1>13, <1>14, InvFacts DEF IInv, Uncrossed
<1> QED
  BY <1>18, <1>19, <1>20, <1>21, <1>22, InvFromParts

\* A LIMIT order rests only where no opposite order is within its limit.
LEMMA RestStep ==
    ASSUME IInv, Rest
    PROVE  IInv'
<1> DEFINE o == order[incoming]
           other == Opposite(o.side)
<1>1. /\ incoming # NoOrder /\ o.type = "LIMIT" /\ ~IsDone(o)
      /\ book' = AddToBook(book, incoming, o)
      /\ orders' = orders \cup {incoming}
      /\ incoming' = NoOrder /\ trades' = << >>
      /\ UNCHANGED <<amended, order, notified>>
  BY DEF Rest, Return, MatchingOver
<1>2. /\ incoming \in OrderIds /\ incoming \notin orders
      /\ o.status \in {"NEW", "PARTIALLY_FILLED"} /\ Remaining(o) # 0
      /\ o.price \in Prices
  BY <1>1 DEF IInv, IncomingApart, IsDone, Done
<1>3. o \in Order /\ o.side \in Side /\ other \in Side /\ Remaining(o) \in Nat
  BY <1>2, InvFacts DEF Opposite, Side
<1>4. Open(o, o.side, o.price)
  BY <1>1, <1>2, <1>3 DEF Open
<1>5. BookType(book') /\ WellFormed(book', order', orders')
  BY <1>1, <1>2, <1>3, <1>4, InvFacts, AddOne
<1>6. TypeOK'
  BY <1>1, <1>2, <1>5 DEF IInv, TypeOK, BookType
<1>7. StatusAgrees' /\ IncomingApart'
  BY <1>1 DEF IInv, StatusAgrees, IncomingApart
<1>8. \A x \in orders : order[x].side = other => ~Reaches(o.side, o.price, order[x].price)
  <2>1. \/ DOMAIN book[other] = {}
        \/ \E p \in DOMAIN book[other] : IsBest(other, p) /\ ~MayTakeLevel(o, p)
    BY <1>2 DEF Rest, MatchingOver
  <2> SUFFICES ASSUME NEW x \in orders, order[x].side = other
               PROVE  ~Reaches(o.side, o.price, order[x].price)
    OBVIOUS
  <2>2. order[x].price \in DOMAIN book[other]
    BY InvFacts DEF WellFormed
  <2>3. PICK p \in DOMAIN book[other] : IsBest(other, p) /\ ~MayTakeLevel(o, p)
    BY <2>1, <2>2
  <2>4. ~Reaches(o.side, o.price, p) /\ ~Better(other, order[x].price, p)
    BY <1>1, <2>2, <2>3 DEF MayTakeLevel, IsBest
  <2>5. p \in Int /\ order[x].price \in Int /\ o.price \in Int
    BY <1>2, <1>3, InvFacts, PricesAssumption DEF BookType
  <2> QED
    BY <1>3, <2>4, <2>5 DEF Reaches, Better, Opposite, Side
<1>9. Uncrossed'
  <2> SUFFICES ASSUME NEW bid \in orders \cup {incoming}, NEW ask \in orders \cup {incoming},
                      order[bid].side = "BUY", order[ask].side = "SELL",
                      order[bid].price >= order[ask].price
               PROVE  bid \in amended \/ ask \in amended
    BY <1>1 DEF Uncrossed
  <2>1. CASE bid \in orders /\ ask \in orders
    BY <2>1 DEF IInv, Uncrossed
  <2>2. CASE bid = incoming
    BY <1>8, <2>2 DEF Opposite, Reaches
  <2>3. CASE ask = incoming
    BY <1>8, <2>3 DEF Opposite, Reaches
  <2> QED
    BY <2>1, <2>2, <2>3
<1> QED
  BY <1>5, <1>6, <1>7, <1>9, InvFromParts

\* A MARKET or IOC remainder is closed without touching the book.
LEMMA DiscardStep ==
    ASSUME IInv, Discard
    PROVE  IInv'
<1> DEFINE o == order[incoming]
           status == IF o.type = "MARKET" THEN "CANCELLED" ELSE "EXPIRED"
           closed == [o EXCEPT !.status = status]
<1>1. /\ incoming # NoOrder
      /\ order' = [order EXCEPT ![incoming] = closed]
      /\ notified' = [notified EXCEPT ![incoming] = Notice(closed)]
      /\ incoming' = NoOrder /\ trades' = << >>
      /\ UNCHANGED <<amended, book, orders>>
  BY DEF Discard, Return, MatchingOver
<1>2. incoming \in OrderIds /\ incoming \notin orders /\ o \in Order
  BY <1>1, InvFacts DEF IInv, IncomingApart
<1>3. status \in OrderStatus
  BY DEF OrderStatus
<1> HIDE DEF status
<1>4. closed \in Order /\ Agrees(closed)
  <2>1. Agrees(o) /\ Remaining(o) > 0
    BY <1>2 DEF IInv, StatusAgrees, Discard
  <2> QED
    BY <1>2, <1>3, <2>1 DEF Order, Agrees, status, Remaining
<1> HIDE DEF closed
<1>5. TypeOK'
  BY <1>1, <1>2, <1>4 DEF IInv, TypeOK, Notice, Order
<1>6. StatusAgrees'
  BY <1>1, <1>4 DEF IInv, TypeOK, StatusAgrees
<1>7. \A x \in orders : order'[x] = order[x]
  BY <1>1, <1>2 DEF IInv, TypeOK
<1>8. WellFormed(book', order', orders')
  BY <1>1, <1>7, InvFacts, OrdersFrame
<1>9. IncomingApart' /\ Uncrossed'
  BY <1>1, <1>7 DEF IInv, IncomingApart, Uncrossed
<1> QED
  BY <1>5, <1>6, <1>8, <1>9, InvFromParts

\* An add_order call that is done returns.
LEMMA CompleteStep ==
    ASSUME IInv, Complete
    PROVE  IInv'
<1>1. /\ incoming' = NoOrder /\ trades' = << >>
      /\ UNCHANGED <<amended, order, book, orders, notified>>
  BY DEF Complete, Return
<1>2. TypeOK' /\ StatusAgrees' /\ IncomingApart' /\ Uncrossed'
  BY <1>1 DEF IInv, TypeOK, StatusAgrees, IncomingApart, Uncrossed
<1>3. WellFormed(book', order', orders')
  BY <1>1, InvFacts
<1> QED
  BY <1>2, <1>3, InvFromParts

\* The invariant holds in every reachable state of the book.
THEOREM Invariance == Spec => []IInv
<1>1. Init => IInv
  BY InitEstablishes
<1>2. IInv /\ [Next]_vars => IInv'
  <2> SUFFICES ASSUME IInv, [Next]_vars PROVE IInv'
    OBVIOUS
  <2>1. ASSUME NEW id \in OrderIds, NEW o \in Submittable, AddOrder(id, o) PROVE IInv'
    BY <2>1, AddOrderStep
  <2>2. CASE Fill
    BY <2>2, FillStep
  <2>3. CASE Rest
    BY <2>3, RestStep
  <2>4. CASE Discard
    BY <2>4, DiscardStep
  <2>5. CASE Complete
    BY <2>5, CompleteStep
  <2>6. ASSUME NEW id \in OrderIds, CancelOrder(id) PROVE IInv'
    BY <2>6, CancelOrderStep
  <2>7. ASSUME NEW id \in OrderIds, NEW price \in Prices, NEW qty \in 1 .. MaxQty,
               ModifyOrder(id, price, qty)
        PROVE  IInv'
    BY <2>7, ModifyOrderStep
  <2>8. CASE UNCHANGED vars
    <3>1. TypeOK'
      BY <2>8 DEF vars, IInv, TypeOK
    <3>2. StatusAgrees' /\ IncomingApart' /\ Uncrossed'
      BY <2>8 DEF vars, IInv, StatusAgrees, IncomingApart, Uncrossed
    <3>3. NoEmptyLevel' /\ QueuesDistinct'
      BY <2>8 DEF vars, IInv, BookWellFormed, NoEmptyLevel, QueuesDistinct
    <3>4. QueuedAreOpen' /\ IndexedAreQueued'
      BY <2>8 DEF vars, IInv, BookWellFormed, QueuedAreOpen, IndexedAreQueued
    <3> QED
      BY <3>1, <3>2, <3>3, <3>4 DEF IInv, BookWellFormed
  <2> QED
    BY <2>1, <2>2, <2>3, <2>4, <2>5, <2>6, <2>7, <2>8 DEF Next, EndOfCall
<1> QED
  BY <1>1, <1>2, PTL DEF Spec

-----------------------------------------------------------------------------
(* The theorems.                                                           *)

\* Types hold in every reachable state, for any ids, prices and quantities.
THEOREM TypeCorrect == Spec => []TypeOK
  BY Invariance, PTL DEF IInv

\* An order's status always says how much of it is filled (make_trade,
\* cancel_order, modify_order), for any ids, prices and quantities.
THEOREM StatusTruthful == Spec => []StatusAgrees
  BY Invariance, PTL DEF IInv

\* The index and the two sides of the book always describe the same open
\* orders (add_to_book, remove_from_book, try_match).
THEOREM BookConsistent == Spec => []BookWellFormed
  BY Invariance, PTL DEF IInv

\* Two resting orders cross only if modify_order moved one of them.
THEOREM NeverCrossed == Spec => []Uncrossed
  BY Invariance, PTL DEF IInv

\* No call changes an order that is done.
THEOREM DoneStaysDone == Spec => DoneIsFinal
<1>1. IInv /\ [Next]_vars => [\A id \in OrderIds : IsDone(order[id]) => order'[id] = order[id]]_vars
  <2> SUFFICES ASSUME IInv, Next, NEW id \in OrderIds, IsDone(order[id])
               PROVE  order'[id] = order[id]
    OBVIOUS
  <2>1. id \notin orders
    BY InvFacts DEF Open, IsDone, Done
  <2>2. incoming # NoOrder /\ Remaining(order[incoming]) # 0 => id # incoming
    BY DEF IInv, IncomingApart, IsDone, Done
  <2>3. order = [x \in OrderIds |-> order[x]]
    BY DEF IInv, TypeOK
  <2>4. ASSUME NEW x \in OrderIds, NEW o \in Submittable, AddOrder(x, o) PROVE order'[id] = order[id]
    <3>1. order[x] = Blank
      BY <2>4 DEF AddOrder
    <3>2. x # id
      BY <3>1 DEF Blank, IsDone, Done
    <3> QED
      BY <2>3, <2>4, <3>2 DEF AddOrder
  <2>5. CASE Fill
    <3> DEFINE other == Opposite(order[incoming].side)
    <3>1. PICK p \in DOMAIN book[other] : CanFillAt(p) /\ FillAt(p)
      BY <2>5 DEF Fill
    <3>2. incoming # NoOrder /\ incoming \in OrderIds /\ other \in Side
      BY <2>5 DEF Fill, IInv, IncomingApart, Opposite, Side
    <3> DEFINE queue == Queue(book, other, p)
    <3>3. queue \in Seq(OrderIds) /\ queue # << >>
      BY <3>2, InvFacts DEF BookType, Level, WellFormed, Queue
    <3>4. 1 \in DOMAIN queue /\ Head(queue) = queue[1]
      BY <3>3
    <3>5. Head(queue) \in orders
      BY <3>2, <3>4, InvFacts DEF WellFormed
    <3>6. id # incoming /\ id # Head(queue)
      BY <2>1, <2>2, <3>1, <3>2, <3>5, InvFacts DEF CanFillAt
    <3> QED
      BY <2>3, <3>1, <3>6 DEF FillAt, Queue
  <2>6. CASE Rest \/ Complete
    BY <2>6 DEF Rest, Complete
  <2>7. CASE Discard
    <3>1. incoming # NoOrder /\ incoming \in OrderIds /\ Remaining(order[incoming]) > 0
      BY <2>7 DEF Discard, MatchingOver, IInv, IncomingApart
    <3>2. id # incoming
      BY <2>2, <3>1, InvFacts
    <3> QED
      BY <2>3, <2>7, <3>2 DEF Discard
  <2>8. ASSUME NEW x \in OrderIds, CancelOrder(x) PROVE order'[id] = order[id]
    BY <2>1, <2>3, <2>8 DEF CancelOrder
  <2>9. ASSUME NEW x \in OrderIds, NEW price \in Prices, NEW qty \in 1 .. MaxQty,
               ModifyOrder(x, price, qty)
        PROVE  order'[id] = order[id]
    BY <2>1, <2>3, <2>9 DEF ModifyOrder
  <2> QED
    BY <2>4, <2>5, <2>6, <2>7, <2>8, <2>9 DEF Next, EndOfCall
<1> QED
  BY <1>1, Invariance, PTL DEF Spec, DoneIsFinal

\* What order_cb_ was last told about every order, in the middle of a call too.
Told == \A id \in OrderIds : notified[id] = Notice(order[id])

\* A step that tells of the one order it changes keeps Told.
LEMMA OneTold ==
    ASSUME IInv, Told, NEW id \in OrderIds, NEW o, order' = [order EXCEPT ![id] = o],
           notified' = [notified EXCEPT ![id] = Notice(o)]
    PROVE  Told'
<1>1. /\ order'[id] = o /\ notified'[id] = Notice(o)
      /\ \A x \in OrderIds : x # id => order'[x] = order[x] /\ notified'[x] = notified[x]
  BY DEF IInv, TypeOK
<1> QED
  BY <1>1 DEF Told, Notice

\* Observers know the status and filled quantity of every order, whichever way
\* its call ended (notify_order, in add_order, try_match and cancel_order).
THEOREM ObserversTold == Spec => []ObserversUpToDate
<1>1. Init => Told
  BY DEF Init, Told
<1>2. ASSUME IInv, Told, Next PROVE Told'
  <2>1. ASSUME NEW id \in OrderIds, NEW o \in Submittable, AddOrder(id, o) PROVE Told'
    BY <1>2, <2>1, OneTold DEF AddOrder
  <2>2. CASE Fill
    <3> DEFINE other == Opposite(order[incoming].side)
    <3>1. PICK p \in DOMAIN book[other] : CanFillAt(p) /\ FillAt(p)
      BY <2>2 DEF Fill
    <3>2. incoming \in OrderIds /\ incoming \notin orders /\ other \in Side
      BY <1>2, <2>2, <3>1, InvFacts DEF Fill, CanFillAt, IInv, IncomingApart, Opposite, Side
    <3> DEFINE queue == Queue(book, other, p)
               rid == Head(queue)
               taken == Filled(order[incoming], FillQty(order[incoming], order[rid]))
               resting == Filled(order[rid], FillQty(order[incoming], order[rid]))
    <3>3. queue \in Seq(OrderIds) /\ queue # << >>
      BY <1>2, <3>2, InvFacts DEF BookType, Level, WellFormed, Queue
    <3>4. 1 \in DOMAIN queue /\ rid = queue[1]
      BY <3>3
    <3>5. rid \in orders /\ rid \in OrderIds
      BY <1>2, <3>2, <3>4, InvFacts DEF WellFormed
    <3>6. rid # incoming
      BY <3>2, <3>5
    <3>7. /\ order' = [order EXCEPT ![incoming] = taken, ![rid] = resting]
          /\ notified' = [notified EXCEPT ![rid] = Notice(resting), ![incoming] = Notice(taken)]
      BY <3>1 DEF FillAt, Queue
    <3> HIDE DEF taken, resting, rid
    <3>8. /\ order'[rid] = resting /\ order'[incoming] = taken
          /\ notified'[rid] = Notice(resting) /\ notified'[incoming] = Notice(taken)
          /\ \A x \in OrderIds \ {rid, incoming} : order'[x] = order[x] /\ notified'[x] = notified[x]
      BY <1>2, <3>2, <3>5, <3>6, <3>7 DEF IInv, TypeOK
    <3> QED
      BY <1>2, <3>8 DEF Told, Notice
  <2>3. CASE Rest \/ Complete
    BY <1>2, <2>3 DEF Rest, Complete, Told, Notice
  <2>4. CASE Discard
    <3>1. incoming \in OrderIds
      BY <1>2, <2>4 DEF Discard, MatchingOver, IInv, IncomingApart
    <3> QED
      BY <1>2, <2>4, <3>1, OneTold DEF Discard
  <2>5. ASSUME NEW id \in OrderIds, CancelOrder(id) PROVE Told'
    BY <1>2, <2>5, OneTold DEF CancelOrder
  <2>6. ASSUME NEW id \in OrderIds, NEW price \in Prices, NEW qty \in 1 .. MaxQty,
               ModifyOrder(id, price, qty)
        PROVE  Told'
    <3> DEFINE moved == Moved(order[id], price, qty)
    <3>1. order[id] \in Order
      BY <1>2, InvFacts
    <3>2. Notice(moved) = Notice(order[id])
      BY <3>1 DEF Moved, Notice, Order
    <3>3. order' = [order EXCEPT ![id] = moved] /\ notified' = notified
      BY <2>6 DEF ModifyOrder
    <3> HIDE DEF moved
    <3> QED
      BY <1>2, <3>2, <3>3 DEF Told, IInv, TypeOK, Notice
  <2> QED
    BY <1>2, <2>1, <2>2, <2>3, <2>4, <2>5, <2>6 DEF Next, EndOfCall
<1>3. IInv /\ Told /\ UNCHANGED vars => Told'
  BY DEF vars, Told, Notice
<1>4. Told => ObserversUpToDate
  BY DEF Told, ObserversUpToDate
<1> QED
  BY <1>1, <1>2, <1>3, <1>4, Invariance, PTL DEF Spec
-----------------------------------------------------------------------------
(* The cached level totals, and the FOK pre-check that trusts them.        *)
(*                                                                         *)
(* Totals is LevelTotals of any book and orders; the lemmas follow what    *)
(* one order joining, leaving or trading does to the total of its level,   *)
(* through the sums of CollectionTheorems.  The prices need not be         *)
(* finitely many, but the levels are: DepthFinite is part of the           *)
(* invariant.                                                              *)

\* What the orders of S have left.
Left(ord, S) == SumFunctionOnSet([id \in S |-> Remaining(ord[id])], S)

\* Orders with the same left have the same left together.
LEMMA LeftSame ==
    ASSUME NEW ord, NEW new, NEW S, IsFiniteSet(S),
           \A id \in S : Remaining(ord[id]) = Remaining(new[id])
    PROVE  Left(ord, S) = Left(new, S)
<1> DEFINE f == [id \in S |-> Remaining(ord[id])]
           g == [id \in S |-> Remaining(new[id])]
<1>1. f = g
  OBVIOUS
<1> QED
  BY <1>1 DEF Left

\* Without one order, a set has less left by what that order has left.
LEMMA LeftRemove ==
    ASSUME NEW ord, NEW S, IsFiniteSet(S), \A id \in S : Remaining(ord[id]) \in Int, NEW x \in S
    PROVE  /\ Left(ord, S \ {x}) = Left(ord, S) - Remaining(ord[x])
           /\ Left(ord, S) \in Int
<1> DEFINE f == [id \in S |-> Remaining(ord[id])]
           g == [id \in S \ {x} |-> Remaining(ord[id])]
<1>1. IsFiniteSet(S \ {x})
  BY FS_RemoveElement
<1>2. \A id \in S : f[id] \in Int
  OBVIOUS
<1>3. f[x] = Remaining(ord[x]) /\ \A id \in S \ {x} : f[id] = g[id]
  OBVIOUS
<1> HIDE DEF f, g
<1>4. SumFunctionOnSet(f, S) = f[x] + SumFunctionOnSet(f, S \ {x})
  BY <1>2, SumRemove
<1>5. SumFunctionOnSet(f, S \ {x}) = SumFunctionOnSet(g, S \ {x})
  BY <1>1, <1>3, SumEqual
<1>6. SumFunctionOnSet(f, S \ {x}) \in Int /\ SumFunctionOnSet(f, S) \in Int
  BY <1>1, <1>2, SumType
<1>7. Left(ord, S) = SumFunctionOnSet(f, S) /\ Left(ord, S \ {x}) = SumFunctionOnSet(g, S \ {x})
  BY DEF Left, f, g
<1> QED
  BY <1>2, <1>3, <1>4, <1>5, <1>6, <1>7

\* No orders have nothing left.
LEMMA LeftEmpty == ASSUME NEW ord PROVE Left(ord, {}) = 0
  BY SumEmpty DEF Left

\* The elements of a queue are finitely many.
LEMMA QueueFinite ==
    ASSUME NEW S, NEW q \in Seq(S)
    PROVE  IsFiniteSet(ToSet(q)) /\ ToSet(q) \subseteq S
  BY ElementsFinite DEF ToSet

\* An id that joins a queue.
LEMMA JoinedElements ==
    ASSUME NEW S, NEW q \in Seq(S), NEW id \in S
    PROVE  ToSet(Append(q, id)) = ToSet(q) \cup {id}
<1>1. /\ DOMAIN q = 1 .. Len(q) /\ Len(q) \in Nat
      /\ DOMAIN Append(q, id) = 1 .. Len(q) + 1
      /\ \A j \in 1 .. Len(q) : Append(q, id)[j] = q[j]
      /\ Append(q, id)[Len(q) + 1] = id
  OBVIOUS
<1>2. \A j \in 1 .. Len(q) + 1 : j \in 1 .. Len(q) \/ j = Len(q) + 1
  BY <1>1
<1> HIDE DEF ToSet
<1> QED
  BY <1>1, <1>2 DEF ToSet

\* An id that left a queue of distinct ids.
LEMMA LeftElements ==
    ASSUME NEW S, NEW q \in Seq(S), NEW i \in 1 .. Len(q), NEW r \in Seq(S), Dropped(q, i, r),
           \A j, k \in DOMAIN q : q[j] = q[k] => j = k
    PROVE  ToSet(r) = ToSet(q) \ {q[i]}
<1>1. DOMAIN q = 1 .. Len(q)
  OBVIOUS
<1>2. \A j \in DOMAIN r : \E k \in DOMAIN q : k # i /\ r[j] = q[k]
  BY DroppedElements
<1>3. \A k \in DOMAIN q : k # i => \E j \in DOMAIN r : r[j] = q[k]
  BY DroppedElements
<1> QED
  BY <1>1, <1>2, <1>3 DEF ToSet
-----------------------------------------------------------------------------
(* LevelTotals of any book and orders.                                     *)

Totals(b, ord) ==
    \A s \in Side : \A p \in DOMAIN b[s] :
        b[s][p].total_qty = Left(ord, ToSet(Queue(b, s, p)))

DepthFinite(b) == \A s \in Side : IsFiniteSet(DOMAIN b[s])

\* LevelTotals speaks of the current book and orders.
LEMMA TotalsIsLevelTotals == LevelTotals <=> Totals(book, order)
  BY DEF LevelTotals, Totals, Left, Queued, Queue

\* One level is replaced, and the orders of the others have the same left.
LEMMA TotalsReplaced ==
    ASSUME NEW b, BookType(b), NEW ord, NEW new, Totals(b, ord), DepthFinite(b),
           NEW s \in Side, NEW p \in Prices, NEW level \in Level,
           level.orders # << >> => level.total_qty = Left(new, ToSet(level.orders)),
           \A t \in Side : \A r \in DOMAIN b[t] : <<t, r>> # <<s, p>> =>
               \A i \in DOMAIN Queue(b, t, r) :
                   Remaining(new[Queue(b, t, r)[i]]) = Remaining(ord[Queue(b, t, r)[i]])
    PROVE  Totals(SetLevel(b, s, p, level), new) /\ DepthFinite(SetLevel(b, s, p, level))
<1> DEFINE c == SetLevel(b, s, p, level)
<1>1. Replaced(b, s, p, level, c)
  BY SetLevelReplaces
<1> HIDE DEF c
<1>2. /\ \A t \in Side : t # s => c[t] = b[t]
      /\ level.orders = << >> =>
            /\ DOMAIN c[s] = DOMAIN b[s] \ {p}
            /\ \A q \in DOMAIN c[s] : c[s][q] = b[s][q]
      /\ level.orders # << >> =>
            /\ DOMAIN c[s] = DOMAIN b[s] \cup {p}
            /\ c[s][p] = level
            /\ \A q \in DOMAIN b[s] : q # p => c[s][q] = b[s][q]
  BY <1>1 DEF Replaced
<1>3. DepthFinite(c)
  <2>1. /\ \A t \in Side : IsFiniteSet(DOMAIN b[t])
        /\ IsFiniteSet(DOMAIN b[s] \ {p}) /\ IsFiniteSet(DOMAIN b[s] \cup {p})
    BY FS_RemoveElement, FS_AddElement DEF DepthFinite
  <2>2. IsFiniteSet(DOMAIN c[s])
    BY <1>2, <2>1
  <2>3. \A t \in Side : t # s => DOMAIN c[t] = DOMAIN b[t]
    BY <1>2
  <2> QED
    BY <2>1, <2>2, <2>3 DEF DepthFinite
<1>4. ASSUME NEW t \in Side, NEW r \in DOMAIN c[t]
      PROVE  c[t][r].total_qty = Left(new, ToSet(Queue(c, t, r)))
  <2>1. CASE t = s /\ r = p
    <3>1. level.orders # << >> /\ c[t][r] = level
      BY <1>2, <2>1
    <3> QED
      BY <3>1 DEF Queue
  <2>2. CASE ~(t = s /\ r = p)
    <3>1. r \in DOMAIN b[t] /\ c[t][r] = b[t][r]
      BY <1>2, <2>2
    <3> DEFINE q == Queue(b, t, r)
    <3>2. q \in Seq(OrderIds)
      BY <3>1 DEF BookType, Level, Queue
    <3>3. \A i \in DOMAIN q : Remaining(new[q[i]]) = Remaining(ord[q[i]])
      BY <2>2, <3>1
    <3>4. Queue(c, t, r) = q
      BY <3>1 DEF Queue
    <3>5. c[t][r].total_qty = Left(ord, ToSet(q))
      BY <3>1 DEF Totals
    <3> HIDE DEF q
    <3>6. \A id \in ToSet(q) : Remaining(ord[id]) = Remaining(new[id])
      BY <3>3 DEF ToSet
    <3>7. Left(ord, ToSet(q)) = Left(new, ToSet(q))
      BY <3>2, <3>6, QueueFinite, LeftSame
    <3> QED
      BY <3>4, <3>5, <3>7
  <2> QED
    BY <2>1, <2>2
<1> QED
  BY <1>3, <1>4 DEF Totals, c

\* add_to_book adds what the order has left to the total of its level.
LEMMA AddTotals ==
    ASSUME NEW b, BookType(b), NEW ord, NEW idx, WellFormed(b, ord, idx), Totals(b, ord), DepthFinite(b),
           idx \subseteq OrderIds, \A x \in idx : Remaining(ord[x]) \in Int,
           NEW id \in OrderIds, id \notin idx, ord[id] \in Order, ord[id].price \in Prices
    PROVE  Totals(AddToBook(b, id, ord[id]), ord) /\ DepthFinite(AddToBook(b, id, ord[id]))
<1> DEFINE s == ord[id].side
           p == ord[id].price
           old == IF p \in DOMAIN b[s] THEN b[s][p] ELSE EmptyLevel
           level == [orders |-> Append(old.orders, id), total_qty |-> old.total_qty + Remaining(ord[id])]
<1>1. s \in Side /\ p \in Prices /\ Remaining(ord[id]) \in Int
  BY DEF Order, Remaining
<1>2. old \in Level
  BY <1>1 DEF BookType, Level, EmptyLevel
<1>3. AddToBook(b, id, ord[id]) = SetLevel(b, s, p, level)
  BY DEF AddToBook
<1>4. /\ \A x \in ToSet(old.orders) : x \in idx
      /\ old.total_qty = Left(ord, ToSet(old.orders))
  <2>1. CASE p \in DOMAIN b[s]
    <3>1. old = b[s][p] /\ old.orders = Queue(b, s, p)
      BY <2>1 DEF Queue
    <3> HIDE DEF old
    <3> QED
      BY <1>1, <2>1, <3>1 DEF WellFormed, Totals, ToSet
  <2>2. CASE p \notin DOMAIN b[s]
    <3>1. old.orders = << >> /\ old.total_qty = 0
      BY <2>2 DEF EmptyLevel
    <3> HIDE DEF old
    <3>2. ToSet(old.orders) = {}
      BY <3>1 DEF ToSet
    <3> QED
      BY <3>1, <3>2, LeftEmpty
  <2> QED
    BY <2>1, <2>2
<1>5. old.orders \in Seq(OrderIds) /\ old.total_qty \in Int
  BY <1>2 DEF Level
<1> HIDE DEF old
<1> DEFINE S == ToSet(old.orders)
<1>6. ToSet(level.orders) = S \cup {id} /\ IsFiniteSet(S \cup {id}) /\ id \notin S
  BY <1>4, <1>5, JoinedElements, QueueFinite, FS_AddElement
<1>7. level \in Level
  BY <1>1, <1>5 DEF Level
<1>8. level.total_qty = Left(ord, ToSet(level.orders))
  <2>1. \A x \in S \cup {id} : Remaining(ord[x]) \in Int
    BY <1>1, <1>4
  <2>2. (S \cup {id}) \ {id} = S
    BY <1>6
  <2> HIDE DEF S
  <2>3. /\ Left(ord, (S \cup {id}) \ {id}) = Left(ord, S \cup {id}) - Remaining(ord[id])
        /\ Left(ord, S \cup {id}) \in Int
    BY <1>6, <2>1, LeftRemove
  <2>4. Left(ord, S) = Left(ord, S \cup {id}) - Remaining(ord[id])
    BY <2>2, <2>3
  <2>5. old.total_qty = Left(ord, S)
    BY <1>4 DEF S
  <2>6. level.total_qty = old.total_qty + Remaining(ord[id])
    OBVIOUS
  <2>7. Left(ord, ToSet(level.orders)) = Left(ord, S \cup {id})
    BY <1>6
  <2> HIDE DEF level
  <2> QED
    BY <1>1, <2>3, <2>4, <2>5, <2>6, <2>7
<1> HIDE DEF level
<1>9. Totals(SetLevel(b, s, p, level), ord) /\ DepthFinite(SetLevel(b, s, p, level))
  BY <1>1, <1>7, <1>8, TotalsReplaced
<1> QED
  BY <1>3, <1>9

\* remove_from_book takes what the order has left off the total of its level.
LEMMA RemoveTotals ==
    ASSUME NEW b, BookType(b), NEW ord, NEW idx, WellFormed(b, ord, idx), Totals(b, ord), DepthFinite(b),
           \A x \in idx : ord[x].side \in Side /\ Remaining(ord[x]) \in Int,
           NEW id \in idx
    PROVE  /\ Totals(RemoveFromBook(b, id, ord[id]), ord)
           /\ DepthFinite(RemoveFromBook(b, id, ord[id]))
<1> DEFINE s == ord[id].side
           p == ord[id].price
           q == Queue(b, s, p)
           i == Position(q, id)
           level == [orders |-> RemoveAt(q, i), total_qty |-> b[s][p].total_qty - Remaining(ord[id])]
<1>1. s \in Side /\ p \in DOMAIN b[s] /\ \E k \in DOMAIN q : q[k] = id
  BY DEF WellFormed
<1>2. i \in DOMAIN q /\ q[i] = id
  BY <1>1 DEF Position
<1>3. q \in Seq(OrderIds) /\ b[s][p].total_qty \in Int /\ p \in Prices
  BY <1>1 DEF BookType, Level, Queue
<1>4. i \in 1 .. Len(q)
  BY <1>2, <1>3
<1>5. RemoveFromBook(b, id, ord[id]) = SetLevel(b, s, p, level)
  BY <1>1 DEF RemoveFromBook, Queue
<1>6. /\ \A j, k \in DOMAIN q : q[j] = q[k] => j = k
      /\ \A x \in ToSet(q) : x \in idx
      /\ b[s][p].total_qty = Left(ord, ToSet(q))
  BY <1>1 DEF WellFormed, Totals, ToSet
<1> HIDE DEF q, i
<1>7. RemoveAt(q, i) \in Seq(OrderIds) /\ Dropped(q, i, RemoveAt(q, i))
  BY <1>3, <1>4, RemoveAtValue DEF Dropped
<1>8. level \in Level
  BY <1>1, <1>3, <1>7 DEF Level
<1>9. ToSet(RemoveAt(q, i)) = ToSet(q) \ {id}
  BY <1>2, <1>3, <1>4, <1>6, <1>7, LeftElements
<1>10. Left(ord, ToSet(q) \ {id}) = Left(ord, ToSet(q)) - Remaining(ord[id])
  <2>1. id \in ToSet(q)
    BY <1>2 DEF ToSet
  <2>2. \A x \in ToSet(q) : Remaining(ord[x]) \in Int
    BY <1>6
  <2> QED
    BY <1>3, <2>1, <2>2, QueueFinite, LeftRemove
<1>11. level.total_qty = Left(ord, ToSet(level.orders))
  BY <1>6, <1>9, <1>10
<1> HIDE DEF level
<1>12. Totals(SetLevel(b, s, p, level), ord) /\ DepthFinite(SetLevel(b, s, p, level))
  BY <1>1, <1>3, <1>8, <1>11, TotalsReplaced
<1> QED
  BY <1>5, <1>12

\* Totals does not depend on orders that are in no queue.
LEMMA TotalsFrame ==
    ASSUME NEW b, BookType(b), NEW ord, NEW new, NEW idx, WellFormed(b, ord, idx), Totals(b, ord),
           \A x \in idx : Remaining(new[x]) = Remaining(ord[x])
    PROVE  Totals(b, new)
<1> SUFFICES ASSUME NEW s \in Side, NEW p \in DOMAIN b[s]
             PROVE  b[s][p].total_qty = Left(new, ToSet(Queue(b, s, p)))
  BY DEF Totals
<1> DEFINE q == Queue(b, s, p)
<1>1. q \in Seq(OrderIds)
  BY DEF BookType, Level, Queue
<1>2. \A x \in ToSet(q) : Remaining(ord[x]) = Remaining(new[x])
  BY DEF WellFormed, ToSet
<1>3. b[s][p].total_qty = Left(ord, ToSet(q))
  BY DEF Totals
<1> HIDE DEF q
<1>4. Left(ord, ToSet(q)) = Left(new, ToSet(q))
  BY <1>1, <1>2, QueueFinite, LeftSame
<1> QED
  BY <1>3, <1>4 DEF q

\* make_trade with the front order of a level: rid trades qty and is popped when
\* it has nothing left; any other order that changed is in no queue.
LEMMA TradeTotals ==
    ASSUME NEW b, BookType(b), NEW ord, NEW new, NEW idx, WellFormed(b, ord, idx), Totals(b, ord),
           DepthFinite(b), \A x \in idx : ord[x].side \in Side /\ Remaining(ord[x]) \in Int,
           NEW s \in Side, NEW p \in DOMAIN b[s], NEW rid, rid = Queue(b, s, p)[1],
           NEW qty \in Int, Remaining(new[rid]) = Remaining(ord[rid]) - qty,
           \A x \in idx : x # rid => Remaining(new[x]) = Remaining(ord[x]),
           NEW level \in Level, level.total_qty = b[s][p].total_qty - qty,
           \/ Dropped(Queue(b, s, p), 1, level.orders) /\ Remaining(new[rid]) = 0
           \/ level.orders = Queue(b, s, p)
    PROVE  /\ Totals(SetLevel(b, s, p, level), new) /\ DepthFinite(SetLevel(b, s, p, level))
           /\ level.total_qty = Left(new, ToSet(level.orders))
<1> DEFINE q == Queue(b, s, p)
<1>1. /\ q \in Seq(OrderIds) /\ q # << >> /\ p \in Prices /\ b[s][p].total_qty \in Int
      /\ level.orders \in Seq(OrderIds)
  BY DEF BookType, Level, WellFormed, Queue
<1>2. /\ \A j, k \in DOMAIN q : q[j] = q[k] => j = k
      /\ \A x \in ToSet(q) : x \in idx /\ Open(ord[x], s, p)
      /\ b[s][p].total_qty = Left(ord, ToSet(q))
  BY DEF WellFormed, Totals, ToSet
<1>3. 1 \in 1 .. Len(q) /\ rid = q[1] /\ rid \in ToSet(q)
  BY <1>1 DEF ToSet
<1>4. \A t \in Side : \A r \in DOMAIN b[t] : <<t, r>> # <<s, p>> =>
          \A i \in DOMAIN Queue(b, t, r) :
              Remaining(new[Queue(b, t, r)[i]]) = Remaining(ord[Queue(b, t, r)[i]])
  <2> SUFFICES ASSUME NEW t \in Side, NEW r \in DOMAIN b[t], <<t, r>> # <<s, p>>,
                      NEW i \in DOMAIN Queue(b, t, r)
               PROVE  Remaining(new[Queue(b, t, r)[i]]) = Remaining(ord[Queue(b, t, r)[i]])
    OBVIOUS
  <2>1. Queue(b, t, r)[i] \in idx /\ Open(ord[Queue(b, t, r)[i]], t, r)
    BY DEF WellFormed
  <2>2. Queue(b, t, r)[i] # rid
    BY <1>2, <1>3, <2>1 DEF Open
  <2> QED
    BY <2>1, <2>2
<1> HIDE DEF q
<1> DEFINE S == ToSet(q)
<1>5. IsFiniteSet(S) /\ rid \in S /\ \A x \in S : x \in idx
  BY <1>1, <1>2, <1>3, QueueFinite
<1> HIDE DEF S
<1> DEFINE rest == S \ {rid}
<1>6. /\ \A x \in S : Remaining(ord[x]) \in Int /\ Remaining(new[x]) \in Int
      /\ \A x \in rest : Remaining(ord[x]) = Remaining(new[x])
      /\ IsFiniteSet(rest)
  BY <1>5, FS_RemoveElement
<1>7. /\ Left(ord, rest) = Left(ord, S) - Remaining(ord[rid]) /\ Left(ord, S) \in Int
      /\ Left(new, rest) = Left(new, S) - Remaining(new[rid]) /\ Left(new, S) \in Int
  BY <1>5, <1>6, LeftRemove
<1> HIDE DEF rest
<1>8. Left(ord, rest) = Left(new, rest)
  BY <1>6, LeftSame
<1>9. Remaining(ord[rid]) \in Int /\ Remaining(new[rid]) \in Int
  BY <1>5, <1>6
<1>10. level.total_qty = Left(new, ToSet(level.orders))
  <2>1. level.total_qty = Left(ord, S) - qty
    BY <1>2 DEF S
  <2>2. CASE Dropped(q, 1, level.orders) /\ Remaining(new[rid]) = 0
    <3>1. ToSet(level.orders) = rest
      BY <1>1, <1>2, <1>3, <2>2, LeftElements DEF S, rest
    <3>2. Left(new, rest) = Left(ord, S) - qty
      BY <1>7, <1>8, <1>9, <2>2
    <3> QED
      BY <2>1, <3>1, <3>2
  <2>3. CASE level.orders = q
    <3>1. Left(new, S) = Left(ord, S) - qty
      <4> DEFINE x == Remaining(ord[rid])
                 y == Remaining(new[rid])
                 l == Left(ord, S)
                 m == Left(new, S)
      <4>1. /\ x \in Int /\ y \in Int /\ l \in Int /\ m \in Int
            /\ y = x - qty /\ l - x = m - y
        BY <1>7, <1>8, <1>9
      <4> HIDE DEF x, y, l, m
      <4>2. m = l - qty
        BY <4>1
      <4> QED
        BY <4>2 DEF l, m
    <3>2. ToSet(level.orders) = S
      BY <2>3 DEF S
    <3> QED
      BY <2>1, <3>1, <3>2
  <2> QED
    BY <2>2, <2>3 DEF q
<1> QED
  BY <1>1, <1>4, <1>10, TotalsReplaced
-----------------------------------------------------------------------------
(* The FOK pre-check.                                                      *)

\* The levels of b that o may trade with, and what their totals add up to.
Within(b, o) == {p \in DOMAIN b[Opposite(o.side)] : Reaches(o.side, o.price, p)}
Offered(b, o) ==
    SumFunctionOnSet([p \in Within(b, o) |-> b[Opposite(o.side)][p].total_qty], Within(b, o))

\* What the FOK pre-check adds up is what the current book offers.
LEMMA OfferedIsAvailable == ASSUME NEW o PROVE Available(o) = Offered(book, o)
  BY DEF Available, Offered, Within

\* What a book offers an order is a natural number.
LEMMA OfferedType ==
    ASSUME NEW b, BookType(b), DepthFinite(b), NEW o, o.side \in Side
    PROVE  IsFiniteSet(Within(b, o)) /\ Offered(b, o) \in Int
<1>1. Opposite(o.side) \in Side
  BY DEF Opposite, Side
<1>2. IsFiniteSet(Within(b, o))
  BY <1>1, FS_Subset DEF DepthFinite, Within
<1> DEFINE f == [p \in Within(b, o) |-> b[Opposite(o.side)][p].total_qty]
<1>3. \A p \in Within(b, o) : f[p] \in Int
  BY <1>1 DEF BookType, Level, Within
<1> HIDE DEF f
<1>4. SumFunctionOnSet(f, Within(b, o)) \in Int
  BY <1>2, <1>3, SumType
<1> QED
  BY <1>2, <1>4 DEF Offered, f

\* A trade of qty at one of those levels takes qty off the offer, whether the
\* level stays or goes.
LEMMA OfferedLowered ==
    ASSUME NEW b, BookType(b), DepthFinite(b), NEW o, NEW o2, o.side \in Side,
           o2.side = o.side, o2.price = o.price,
           NEW p \in Within(b, o), NEW qty \in Int, NEW level \in Level,
           level.total_qty = b[Opposite(o.side)][p].total_qty - qty,
           level.orders = << >> => level.total_qty = 0
    PROVE  Offered(SetLevel(b, Opposite(o.side), p, level), o2) = Offered(b, o) - qty
<1> DEFINE s == Opposite(o.side)
           c == SetLevel(b, s, p, level)
           W == Within(b, o)
           V == Within(c, o2)
           f == [r \in W |-> b[s][r].total_qty]
           g == [r \in V |-> c[s][r].total_qty]
<1>1. s \in Side /\ p \in Prices /\ p \in DOMAIN b[s]
  BY DEF Opposite, Side, Within, BookType
<1>2. Replaced(b, s, p, level, c)
  BY <1>1, SetLevelReplaces
<1>3. /\ BookType(c)
      /\ level.orders = << >> =>
            /\ DOMAIN c[s] = DOMAIN b[s] \ {p}
            /\ \A q \in DOMAIN c[s] : c[s][q] = b[s][q]
      /\ level.orders # << >> =>
            /\ DOMAIN c[s] = DOMAIN b[s]
            /\ c[s][p] = level
            /\ \A q \in DOMAIN b[s] : q # p => c[s][q] = b[s][q]
  BY <1>1, <1>2 DEF Replaced
<1> HIDE DEF c
<1>4. IsFiniteSet(W)
  BY OfferedType
<1>5. W = {r \in DOMAIN b[s] : Reaches(o.side, o.price, r)} /\ p \in W
  BY DEF Within
<1>6. V = {r \in DOMAIN c[s] : Reaches(o.side, o.price, r)}
  BY DEF Within
<1>7. Offered(b, o) = SumFunctionOnSet(f, W) /\ Offered(c, o2) = SumFunctionOnSet(g, V)
  BY DEF Offered
<1>8. \A r \in W : f[r] = b[s][r].total_qty /\ f[r] \in Int
  BY <1>1, <1>5 DEF BookType, Level
<1>9. \A r \in V : g[r] = c[s][r].total_qty
  OBVIOUS
<1>10. level.total_qty = f[p] - qty
  BY <1>5
<1> HIDE DEF f, g, W, V
<1>11. CASE level.orders = << >>
  <2>1. V = W \ {p}
    BY <1>3, <1>5, <1>6, <1>11
  <2>2. \A r \in W \ {p} : f[r] = g[r]
    BY <1>3, <1>5, <1>6, <1>8, <1>9, <1>11, <2>1
  <2>3. IsFiniteSet(W \ {p})
    BY <1>4, FS_RemoveElement
  <2>4. SumFunctionOnSet(f, W \ {p}) = SumFunctionOnSet(g, W \ {p})
    BY <2>2, <2>3, SumEqual
  <2>5. SumFunctionOnSet(f, W) = f[p] + SumFunctionOnSet(f, W \ {p})
    BY <1>4, <1>5, <1>8, SumRemove
  <2>6. SumFunctionOnSet(f, W \ {p}) \in Int
    BY <1>8, <2>3, SumType
  <2>7. f[p] \in Int /\ f[p] - qty = 0
    BY <1>5, <1>8, <1>10, <1>11
  <2>8. SumFunctionOnSet(g, V) = SumFunctionOnSet(f, W) - qty
    BY <2>1, <2>4, <2>5, <2>6, <2>7
  <2> QED
    BY <1>7, <2>8 DEF c
<1>12. CASE level.orders # << >>
  <2>1. V = W
    BY <1>3, <1>5, <1>6, <1>12
  <2>2. \A r \in W \ {p} : f[r] = g[r]
    BY <1>3, <1>5, <1>8, <1>9, <1>12, <2>1
  <2>3. g[p] = f[p] - qty /\ f[p] \in Int /\ g[p] \in Int
    BY <1>3, <1>5, <1>8, <1>9, <1>10, <1>12, <2>1
  <2>4. \A r \in W : f[r] \in Int /\ g[r] \in Int
    BY <1>8, <2>2, <2>3
  <2>5. SumFunctionOnSet(g, W) = SumFunctionOnSet(f, W) - f[p] + g[p]
    BY <1>4, <1>5, <2>2, <2>4, SumUpdate
  <2>6. SumFunctionOnSet(f, W) \in Int
    BY <1>4, <1>8, SumType
  <2>7. SumFunctionOnSet(g, V) = SumFunctionOnSet(f, W) - qty
    BY <2>1, <2>3, <2>5, <2>6
  <2> QED
    BY <1>7, <2>7 DEF c
<1> QED
  BY <1>11, <1>12
-----------------------------------------------------------------------------
(* TotalsInv is inductive, next to IInv.                                   *)

\* make_trade takes what was traded off what is left.
LEMMA FilledLeft ==
    ASSUME NEW o \in Order, NEW qty \in Int
    PROVE  Remaining(Filled(o, qty)) = Remaining(o) - qty
<1> DEFINE more == [o EXCEPT !.filled_qty = o.filled_qty + qty]
           status == IF Remaining(o) = qty THEN "FILLED" ELSE "PARTIALLY_FILLED"
           f == [more EXCEPT !.status = status]
<1>1. f = Filled(o, qty)
  BY DEF Filled
<1>2. more.filled_qty = o.filled_qty + qty /\ more.qty = o.qty
  BY DEF Order
<1>3. f.filled_qty = more.filled_qty /\ f.qty = more.qty
  BY DEF Order
<1>4. o.filled_qty \in Int /\ o.qty \in Int
  BY MaxQtyAssumption DEF Order
<1> HIDE DEF f, more
<1> QED
  BY <1>1, <1>2, <1>3, <1>4 DEF Remaining

\* What one Fill does: rid, at the front of the best opposite level p, trades qty
\* with the incoming order, and level replaces p's.
FillsWith(p, rid, qty, level) ==
    LET taker == order[incoming] other == Opposite(taker.side)
    IN  /\ incoming \in OrderIds /\ incoming \notin orders /\ incoming' = incoming
        /\ other \in Side /\ p \in DOMAIN book[other] /\ IsBest(other, p)
        /\ rid = Queue(book, other, p)[1] /\ rid \in orders /\ rid # incoming
        /\ qty \in Nat /\ Remaining(taker) > 0
        /\ order'[incoming].side = taker.side /\ order'[incoming].type = taker.type
        /\ order'[incoming].price = taker.price
        /\ Remaining(order'[incoming]) = Remaining(taker) - qty
        /\ Remaining(order'[rid]) = Remaining(order[rid]) - qty
        /\ order'[rid].type = "LIMIT"
        /\ \A x \in OrderIds : x # incoming /\ x # rid => order'[x] = order[x]
        /\ book' = SetLevel(book, other, p, level) /\ level \in Level
        /\ level.total_qty = book[other][p].total_qty - qty
        /\ \/ Dropped(Queue(book, other, p), 1, level.orders) /\ Remaining(order'[rid]) = 0
           \/ level.orders = Queue(book, other, p)
        /\ orders' \subseteq orders

\* What a step of make_trade does to both orders and to the resting level.
LEMMA FillFacts ==
    ASSUME IInv, Fill
    PROVE  \E p, rid, qty, level : FillsWith(p, rid, qty, level)
<1> DEFINE taker == order[incoming]
           other == Opposite(taker.side)
<1>1. PICK p \in DOMAIN book[other] : CanFillAt(p) /\ FillAt(p)
  BY DEF Fill
<1> DEFINE level == book[other][p]
           rid == Head(level.orders)
           qty == FillQty(taker, order[rid])
           taken == Filled(taker, qty)
           resting == Filled(order[rid], qty)
           left == [orders |-> IF IsDone(resting) THEN Tail(level.orders) ELSE level.orders,
                    total_qty |-> level.total_qty - qty]
<1>2. incoming # NoOrder /\ incoming' = incoming /\ Remaining(taker) > 0 /\ IsBest(other, p)
  BY <1>1 DEF Fill, CanFillAt
<1>3. /\ order' = [order EXCEPT ![incoming] = taken, ![rid] = resting]
      /\ book' = SetLevel(book, other, p, left)
      /\ orders' = IF IsDone(resting) THEN orders \ {rid} ELSE orders
  BY <1>1 DEF FillAt
<1>4. incoming \in OrderIds /\ incoming \notin orders /\ taker \in Order /\ other \in Side
  BY <1>2, InvFacts DEF IInv, IncomingApart, Opposite, Side
<1>5. /\ level \in Level /\ level.orders \in Seq(OrderIds) /\ level.orders # << >>
      /\ level.orders = Queue(book, other, p)
  BY <1>4, InvFacts DEF BookType, Level, WellFormed, Queue
<1>6. /\ 1 \in DOMAIN level.orders /\ rid = level.orders[1]
  BY <1>5
<1>7. rid \in orders /\ Open(order[rid], other, p)
  BY <1>4, <1>5, <1>6, InvFacts DEF WellFormed
<1>8. rid \in OrderIds /\ order[rid] \in Order /\ rid # incoming
  BY <1>4, <1>7, InvFacts
<1> HIDE DEF taker, other, level, rid
<1>9. /\ qty \in Nat /\ qty > 0 /\ qty <= Remaining(taker) /\ qty <= Remaining(order[rid])
  BY <1>2, <1>4, <1>7, <1>8 DEF FillQty, Open, Remaining, Order
<1> HIDE DEF qty
<1>10. Agrees(taker) /\ Agrees(order[rid])
  BY <1>4, <1>8 DEF IInv, StatusAgrees, taker
<1>11. /\ taken.side = taker.side /\ taken.type = taker.type /\ taken.price = taker.price
       /\ Remaining(taken) = Remaining(taker) - qty
  BY <1>4, <1>9, <1>10, FilledValue, FilledLeft
<1>12. /\ resting.type = "LIMIT" /\ Remaining(resting) = Remaining(order[rid]) - qty
  BY <1>7, <1>8, <1>9, <1>10, FilledValue, FilledLeft DEF Open
<1>13. IsDone(resting) => Remaining(resting) = 0
  BY <1>8, <1>9, <1>10, FilledValue DEF IsDone, Done
<1> HIDE DEF taken, resting
<1>14. /\ order'[incoming] = taken /\ order'[rid] = resting
       /\ \A x \in OrderIds : x # incoming /\ x # rid => order'[x] = order[x]
  BY <1>3, <1>4, <1>8 DEF IInv, TypeOK
<1>15. /\ left \in Level /\ left.total_qty = level.total_qty - qty
       /\ \/ Dropped(level.orders, 1, left.orders) /\ Remaining(resting) = 0
          \/ left.orders = level.orders
  <2>1. level.total_qty \in Int
    BY <1>5 DEF Level
  <2>2. CASE IsDone(resting)
    BY <1>5, <1>9, <1>13, <2>1, <2>2 DEF Level, Dropped
  <2>3. CASE ~IsDone(resting)
    BY <1>5, <1>9, <2>1, <2>3 DEF Level
  <2> QED
    BY <2>2, <2>3
<1> HIDE DEF left
<1>16. /\ Queue(book, other, p)[1] = rid /\ orders' \subseteq orders
       /\ left.total_qty = book[other][p].total_qty - qty
       /\ \/ Dropped(Queue(book, other, p), 1, left.orders) /\ Remaining(order'[rid]) = 0
          \/ left.orders = Queue(book, other, p)
  BY <1>3, <1>5, <1>6, <1>14, <1>15 DEF level
<1>17. /\ order'[incoming].side = taker.side /\ order'[incoming].type = taker.type
       /\ order'[incoming].price = taker.price
       /\ Remaining(order'[incoming]) = Remaining(taker) - qty
       /\ Remaining(order'[rid]) = Remaining(order[rid]) - qty
       /\ order'[rid].type = "LIMIT"
  BY <1>11, <1>12, <1>14
<1>18. FillsWith(p, rid, qty, left)
  BY <1>2, <1>3, <1>4, <1>7, <1>8, <1>9, <1>14, <1>15, <1>16, <1>17 DEF FillsWith, taker, other
<1> QED
  BY <1>18

\* Exact totals stay exact in every step.
LEMMA TotalsStep ==
    ASSUME IInv, Totals(book, order), DepthFinite(book), Next
    PROVE  Totals(book', order') /\ DepthFinite(book')
<1>0. \A x \in orders : order[x].side \in Side /\ Remaining(order[x]) \in Int
  BY InvFacts
<1>00. order = [x \in OrderIds |-> order[x]]
  BY DEF IInv, TypeOK
<1>1. ASSUME NEW id \in OrderIds, NEW o \in Submittable, AddOrder(id, o)
      PROVE  Totals(book', order') /\ DepthFinite(book')
  <2>1. book' = book /\ order[id] = Blank /\ \A x \in OrderIds : x # id => order'[x] = order[x]
    BY <1>1, <1>00 DEF AddOrder
  <2>2. \A x \in orders : order'[x] = order[x]
    BY <2>1, InvFacts DEF Open, Blank
  <2>3. Totals(book, order')
    BY <2>2, InvFacts, TotalsFrame
  <2> QED
    BY <2>1, <2>3
<1>2. CASE Fill
  <2>1. PICK p, rid, qty, level : FillsWith(p, rid, qty, level)
    BY <1>2, FillFacts
  <2> DEFINE s == Opposite(order[incoming].side)
  <2>2. /\ s \in Side /\ p \in DOMAIN book[s] /\ rid = Queue(book, s, p)[1] /\ qty \in Int
        /\ Remaining(order'[rid]) = Remaining(order[rid]) - qty
        /\ book' = SetLevel(book, s, p, level) /\ level \in Level
        /\ level.total_qty = book[s][p].total_qty - qty
        /\ \/ Dropped(Queue(book, s, p), 1, level.orders) /\ Remaining(order'[rid]) = 0
           \/ level.orders = Queue(book, s, p)
    BY <2>1 DEF FillsWith
  <2>3. \A x \in orders : x # rid => Remaining(order'[x]) = Remaining(order[x])
    BY <2>1, InvFacts DEF FillsWith
  <2> HIDE DEF s
  <2>4. Totals(SetLevel(book, s, p, level), order') /\ DepthFinite(SetLevel(book, s, p, level))
    BY <1>0, <2>2, <2>3, InvFacts, TradeTotals
  <2> QED
    BY <2>2, <2>4
<1>3. CASE Rest
  <2> DEFINE o == order[incoming]
  <2>1. /\ incoming # NoOrder /\ o.type = "LIMIT" /\ book' = AddToBook(book, incoming, o)
        /\ order' = order
    BY <1>3 DEF Rest, MatchingOver
  <2>2. incoming \in OrderIds /\ incoming \notin orders /\ o \in Order /\ o.price \in Prices
    BY <2>1, InvFacts DEF IInv, IncomingApart
  <2>3. Totals(AddToBook(book, incoming, o), order) /\ DepthFinite(AddToBook(book, incoming, o))
    BY <1>0, <2>2, InvFacts, AddTotals
  <2> QED
    BY <2>1, <2>3
<1>4. CASE Discard
  <2>1. book' = book /\ incoming \in OrderIds /\ incoming \notin orders
    BY <1>4 DEF Discard, MatchingOver, IInv, IncomingApart
  <2>2. \A x \in orders : order'[x] = order[x]
    BY <1>4, <1>00, <2>1, InvFacts DEF Discard
  <2>3. Totals(book, order')
    BY <2>2, InvFacts, TotalsFrame
  <2> QED
    BY <2>1, <2>3
<1>5. CASE Complete
  BY <1>5 DEF Complete
<1>6. ASSUME NEW id \in OrderIds, CancelOrder(id)
      PROVE  Totals(book', order') /\ DepthFinite(book')
  <2> DEFINE b == RemoveFromBook(book, id, order[id])
  <2>1. id \in orders /\ book' = b /\ \A x \in OrderIds : x # id => order'[x] = order[x]
    BY <1>6, <1>00 DEF CancelOrder
  <2>2. Totals(b, order) /\ DepthFinite(b) /\ BookType(b) /\ WellFormed(b, order, orders \ {id})
    BY <1>0, <2>1, InvFacts, RemoveTotals, RemoveOne
  <2> HIDE DEF b
  <2>3. \A x \in orders \ {id} : Remaining(order'[x]) = Remaining(order[x])
    BY <2>1, InvFacts
  <2>4. Totals(b, order')
    BY <2>2, <2>3, TotalsFrame
  <2> QED
    BY <2>1, <2>2, <2>4
<1>7. ASSUME NEW id \in OrderIds, NEW price \in Prices, NEW qty \in 1 .. MaxQty,
             ModifyOrder(id, price, qty)
      PROVE  Totals(book', order') /\ DepthFinite(book')
  <2> DEFINE moved == Moved(order[id], price, qty)
             b == RemoveFromBook(book, id, order[id])
  <2>1. /\ id \in orders /\ qty > order[id].filled_qty
        /\ book' = AddToBook(b, id, moved) /\ order' = [order EXCEPT ![id] = moved]
    BY <1>7 DEF ModifyOrder, Requeued
  <2>2. Totals(b, order) /\ DepthFinite(b) /\ BookType(b) /\ WellFormed(b, order, orders \ {id})
    BY <1>0, <2>1, InvFacts, RemoveTotals, RemoveOne
  <2>3. moved \in Order /\ moved.price \in Prices
    <3>1. /\ order[id] \in Order /\ order[id].status # "FILLED" /\ Agrees(order[id])
      BY <2>1, InvFacts DEF Open, IInv, StatusAgrees
    <3> QED
      BY <2>1, <3>1, MovedValue
  <2> HIDE DEF b, moved
  <2>4. order'[id] = moved /\ \A x \in OrderIds : x # id => order'[x] = order[x]
    BY <1>00, <2>1
  <2>5. \A x \in orders \ {id} : order'[x] = order[x]
    BY <2>4, InvFacts
  <2>6. Totals(b, order')
    BY <2>2, <2>5, TotalsFrame
  <2>7. WellFormed(b, order', orders \ {id})
    BY <2>2, <2>5, InvFacts, OrdersFrame
  <2>8. \A x \in orders \ {id} : Remaining(order'[x]) \in Int
    BY <1>0, <2>5
  <2>9. orders \ {id} \subseteq OrderIds /\ id \notin orders \ {id}
    BY InvFacts
  <2>10. /\ Totals(AddToBook(b, id, order'[id]), order')
         /\ DepthFinite(AddToBook(b, id, order'[id]))
    BY <2>2, <2>3, <2>4, <2>6, <2>7, <2>8, <2>9, AddTotals
  <2> QED
    BY <2>1, <2>4, <2>10
<1> QED
  BY <1>1, <1>2, <1>3, <1>4, <1>5, <1>6, <1>7 DEF Next, EndOfCall

\* A FOK order that is let in is covered, and every trade takes as much off the
\* offer as off the order, because the best level is within its limit.
LEMMA CoveredStep ==
    ASSUME IInv, Totals(book, order), DepthFinite(book), FokCovered, Next
    PROVE  FokCovered'
<1>00. order = [x \in OrderIds |-> order[x]]
  BY DEF IInv, TypeOK
<1>1. ASSUME NEW id \in OrderIds, NEW o \in Submittable, AddOrder(id, o)
      PROVE  FokCovered'
  <2>1. /\ order' = [order EXCEPT ![id] = IF Killed(o) THEN [o EXCEPT !.status = "EXPIRED"] ELSE o]
        /\ incoming' = IF Killed(o) THEN NoOrder ELSE id
        /\ book' = book
    BY <1>1 DEF AddOrder
  <2> SUFFICES ASSUME incoming' # NoOrder, order'[incoming'].type = "FOK"
               PROVE  Remaining(order'[incoming']) <= Offered(book', order'[incoming'])
    BY DEF FokCovered, Available, Offered, Within
  <2>2. ~Killed(o) /\ incoming' = id /\ order'[id] = o
    BY <1>00, <2>1
  <2>3. o.side \in Side /\ o.filled_qty = 0 /\ o.qty \in Int
    BY MaxQtyAssumption DEF Submittable
  <2>4. Offered(book, o) \in Int /\ ~(Offered(book, o) < o.qty)
    BY <2>2, <2>3, InvFacts, OfferedType, OfferedIsAvailable DEF Killed
  <2> QED
    BY <2>1, <2>2, <2>3, <2>4 DEF Remaining
<1>2. CASE Fill
  <2>1. PICK p, rid, qty, level : FillsWith(p, rid, qty, level)
    BY <1>2, FillFacts
  <2> DEFINE o == order[incoming]
             o2 == order'[incoming]
             s == Opposite(o.side)
  <2> SUFFICES ASSUME o.type = "FOK" PROVE Remaining(o2) <= Offered(book', o2)
    BY <2>1 DEF FokCovered, Available, Offered, Within, FillsWith
  <2>2. /\ incoming \in OrderIds /\ s \in Side /\ p \in DOMAIN book[s] /\ IsBest(s, p)
        /\ rid = Queue(book, s, p)[1] /\ qty \in Int /\ Remaining(o) > 0
        /\ o2.side = o.side /\ o2.price = o.price
        /\ Remaining(o2) = Remaining(o) - qty
        /\ Remaining(order'[rid]) = Remaining(order[rid]) - qty
        /\ book' = SetLevel(book, s, p, level) /\ level \in Level
        /\ level.total_qty = book[s][p].total_qty - qty
        /\ \/ Dropped(Queue(book, s, p), 1, level.orders) /\ Remaining(order'[rid]) = 0
           \/ level.orders = Queue(book, s, p)
    BY <2>1 DEF FillsWith
  <2>3. o.side \in Side /\ Remaining(o) \in Nat
    BY <2>2, InvFacts
  <2>4. Offered(book, o) \in Int /\ Remaining(o) <= Offered(book, o)
    <3>1. Remaining(o) <= Available(o)
      BY <2>2, NoOrderAssumption DEF FokCovered
    <3> QED
      BY <2>3, <3>1, InvFacts, OfferedType, OfferedIsAvailable
  <2>5. PICK r \in DOMAIN book[s] : Reaches(o.side, o.price, r)
    <3>1. Within(book, o) # {}
      <4>1. ASSUME Within(book, o) = {} PROVE Offered(book, o) = 0
        BY <4>1, SumEmpty DEF Offered
      <4> QED
        BY <2>2, <2>3, <2>4, <4>1
    <3> QED
      BY <3>1 DEF Within
  <2>6. p \in Within(book, o)
    <3>1. ~Better(s, r, p)
      BY <2>2 DEF IsBest
    <3>2. r \in Int /\ p \in Int
      BY <2>2, InvFacts, PricesAssumption DEF BookType
    <3>3. o.price \in Int
      <4>1. o.price \in Prices
        BY <2>2, NoOrderAssumption DEF IInv, IncomingApart
      <4> QED
        BY <4>1, PricesAssumption
    <3>4. Reaches(o.side, o.price, p)
      BY <2>3, <2>5, <3>1, <3>2, <3>3 DEF Better, Reaches, Opposite, Side
    <3> QED
      BY <2>2, <3>4 DEF Within
  <2>7. level.orders = << >> => level.total_qty = 0
    <3>1. level.total_qty = Left(order', ToSet(level.orders))
      <4>1. \A x \in orders : order[x].side \in Side /\ Remaining(order[x]) \in Int
        BY InvFacts
      <4>2. \A x \in orders : x # rid => Remaining(order'[x]) = Remaining(order[x])
        BY <2>1, InvFacts DEF FillsWith
      <4> HIDE DEF s
      <4> QED
        BY <2>2, <4>1, <4>2, InvFacts, TradeTotals
    <3>2. ASSUME level.orders = << >> PROVE ToSet(level.orders) = {}
      BY <3>2 DEF ToSet
    <3> QED
      BY <3>1, <3>2, LeftEmpty
  <2>8. Offered(SetLevel(book, s, p, level), o2) = Offered(book, o) - qty
    BY <2>2, <2>3, <2>6, <2>7, InvFacts, OfferedLowered
  <2> HIDE DEF o, o2, s
  <2> QED
    BY <2>2, <2>3, <2>4, <2>8
<1>3. CASE EndOfCall
  BY <1>3 DEF EndOfCall, Rest, Discard, Complete, Return, FokCovered
<1>4. ASSUME NEW id \in OrderIds, CancelOrder(id) PROVE FokCovered'
  BY <1>4 DEF CancelOrder, FokCovered
<1>5. ASSUME NEW id \in OrderIds, NEW price \in Prices, NEW qty \in 1 .. MaxQty,
             ModifyOrder(id, price, qty)
      PROVE  FokCovered'
  BY <1>5 DEF ModifyOrder, FokCovered
<1> QED
  BY <1>1, <1>2, <1>3, <1>4, <1>5 DEF Next

\* A FOK order leaves the loop filled: what covers it is a level it may take.
LEMMA FokStep ==
    ASSUME IInv, DepthFinite(book), FokCovered, FokAllOrNothing, Next
    PROVE  FokAllOrNothing'
<1> DEFINE Ended(o) == \/ o.status = "FILLED" /\ Remaining(o) = 0
                       \/ o.status = "EXPIRED" /\ o.filled_qty = 0
<1> SUFFICES ASSUME NEW id \in OrderIds, order'[id].type = "FOK", id # incoming'
             PROVE  Ended(order'[id]) /\ id \notin orders'
  BY DEF FokAllOrNothing
<1>00. order = [x \in OrderIds |-> order[x]]
  BY DEF IInv, TypeOK
<1>0. order[id].type = "FOK" /\ id # incoming => Ended(order[id]) /\ id \notin orders
  BY DEF FokAllOrNothing
<1>01. \A x \in orders : x \in OrderIds /\ order[x].type = "LIMIT"
  BY InvFacts DEF Open
<1>1. ASSUME NEW x \in OrderIds, NEW o \in Submittable, AddOrder(x, o)
      PROVE  Ended(order'[id]) /\ id \notin orders'
  <2>1. /\ order' = [order EXCEPT ![x] = IF Killed(o) THEN [o EXCEPT !.status = "EXPIRED"] ELSE o]
        /\ incoming' = IF Killed(o) THEN NoOrder ELSE x
        /\ orders' = orders /\ order[x] = Blank /\ incoming = NoOrder
    BY <1>1 DEF AddOrder
  <2>2. CASE id = x
    <3>1. Killed(o) /\ order'[id] = [o EXCEPT !.status = "EXPIRED"]
      BY <1>00, <2>1, <2>2
    <3>2. o.filled_qty = 0
      BY DEF Submittable
    <3>3. order'[id].status = "EXPIRED" /\ order'[id].filled_qty = 0
      BY <3>1, <3>2 DEF Submittable
    <3>4. id \notin orders
      BY <2>1, <2>2, InvFacts DEF Open, Blank
    <3> QED
      BY <2>1, <3>3, <3>4
  <2>3. CASE id # x
    <3>1. order'[id] = order[id]
      BY <1>00, <2>1, <2>3
    <3> QED
      BY <1>0, <2>1, <3>1, NoOrderAssumption
  <2> QED
    BY <2>2, <2>3
<1>2. CASE Fill
  <2>1. PICK p, rid, qty, level : FillsWith(p, rid, qty, level)
    BY <1>2, FillFacts
  <2>2. order'[rid].type = "LIMIT" /\ incoming' = incoming /\ orders' \subseteq orders
    BY <2>1 DEF FillsWith
  <2>3. order'[id] = order[id]
    BY <2>1, <2>2 DEF FillsWith
  <2> QED
    BY <1>0, <2>2, <2>3
<1>3. CASE EndOfCall
  <2> DEFINE o == order[incoming]
             s == Opposite(o.side)
  <2>1. /\ MatchingOver /\ incoming # NoOrder /\ incoming \in OrderIds /\ incoming \notin orders
        /\ o.status = "FILLED" <=> Remaining(o) = 0
        /\ Remaining(o) \in Nat /\ o.side \in Side
    <3>1. MatchingOver /\ incoming # NoOrder
      BY <1>3 DEF EndOfCall, Rest, Discard, Complete, MatchingOver
    <3> QED
      BY <3>1, InvFacts DEF IInv, IncomingApart
  <2>2. o.type = "FOK" => Remaining(o) = 0
    <3> SUFFICES ASSUME o.type = "FOK", Remaining(o) # 0 PROVE FALSE
      OBVIOUS
    <3>1. DOMAIN book[s] = {}
      BY <2>1 DEF MatchingOver, MayTakeLevel
    <3>2. Within(book, o) = {}
      BY <3>1 DEF Within
    <3>3. Offered(book, o) = 0
      BY <3>2, SumEmpty DEF Offered
    <3>4. Remaining(o) <= Available(o)
      BY <2>1 DEF FokCovered
    <3> QED
      BY <2>1, <3>3, <3>4, OfferedIsAvailable
  <2>3. /\ \A x \in OrderIds : x # incoming => order'[x] = order[x]
        /\ order'[incoming].type = o.type
        /\ o.type = "FOK" => order'[incoming] = o /\ orders' = orders
        /\ orders' \subseteq orders \cup {incoming}
    <3>1. CASE Rest
      BY <2>1, <3>1 DEF Rest
    <3>2. CASE Discard
      <4> DEFINE status == IF o.type = "MARKET" THEN "CANCELLED" ELSE "EXPIRED"
                 closed == [o EXCEPT !.status = status]
      <4>1. /\ order' = [order EXCEPT ![incoming] = closed] /\ orders' = orders
            /\ o.type \in {"MARKET", "IOC"}
        BY <3>2 DEF Discard
      <4>2. o \in Order
        BY <2>1, InvFacts
      <4> HIDE DEF status
      <4>3. closed.type = o.type
        BY <4>2 DEF Order
      <4> HIDE DEF closed
      <4>4. order'[incoming] = closed /\ \A x \in OrderIds : x # incoming => order'[x] = order[x]
        BY <1>00, <2>1, <4>1
      <4> QED
        BY <4>1, <4>3, <4>4
    <3>3. CASE Complete
      BY <2>1, <3>3 DEF Complete
    <3> QED
      BY <1>3, <3>1, <3>2, <3>3 DEF EndOfCall
  <2>4. CASE id = incoming
    BY <2>1, <2>2, <2>3, <2>4
  <2>5. CASE id # incoming
    BY <1>0, <2>3, <2>5
  <2> QED
    BY <2>4, <2>5
<1>4. ASSUME NEW x \in OrderIds, CancelOrder(x)
      PROVE  Ended(order'[id]) /\ id \notin orders'
  <2>1. /\ x \in orders /\ incoming = NoOrder /\ orders' = orders \ {x}
        /\ order' = [order EXCEPT ![x] = [order[x] EXCEPT !.status = "CANCELLED"]]
    BY <1>4 DEF CancelOrder
  <2>2. order'[x].type = "LIMIT"
    BY <1>00, <1>01, <2>1, InvFacts DEF Order
  <2>3. order'[id] = order[id]
    BY <1>00, <2>1, <2>2
  <2> QED
    BY <1>0, <2>1, <2>3, NoOrderAssumption
<1>5. ASSUME NEW x \in OrderIds, NEW price \in Prices, NEW qty \in 1 .. MaxQty,
             ModifyOrder(x, price, qty)
      PROVE  Ended(order'[id]) /\ id \notin orders'
  <2>1. /\ x \in orders /\ incoming = NoOrder /\ orders' = orders
        /\ order' = [order EXCEPT ![x] = Moved(order[x], price, qty)]
    BY <1>5 DEF ModifyOrder
  <2>2. order'[x].type = "LIMIT"
    BY <1>00, <1>01, <2>1, InvFacts DEF Order, Moved
  <2>3. order'[id] = order[id]
    BY <1>00, <2>1, <2>2
  <2> QED
    BY <1>0, <2>1, <2>3, NoOrderAssumption
<1> QED
  BY <1>1, <1>2, <1>3, <1>4, <1>5 DEF Next

\* TotalsInv holds in every reachable state, and every side has finitely many levels.
THEOREM TotalsInvariance == Spec => [](TotalsInv /\ DepthFinite(book))
<1>1. Init => TotalsInv /\ DepthFinite(book)
  <2> SUFFICES ASSUME Init PROVE LevelTotals /\ FokCovered /\ FokAllOrNothing /\ DepthFinite(book)
    BY InitEstablishes DEF TotalsInv
  <2>1. \A s \in Side : DOMAIN book[s] = {}
    BY DEF Init
  <2>2. LevelTotals /\ DepthFinite(book)
    BY <2>1, FS_EmptySet DEF LevelTotals, DepthFinite
  <2>3. FokCovered /\ FokAllOrNothing
    BY DEF Init, FokCovered, FokAllOrNothing, Blank
  <2> QED
    BY <2>2, <2>3
<1>2. IInv /\ TotalsInv /\ DepthFinite(book) /\ [Next]_vars /\ IInv'
          => (TotalsInv /\ DepthFinite(book))'
  <2> SUFFICES ASSUME IInv, TotalsInv, DepthFinite(book), [Next]_vars, IInv'
               PROVE  LevelTotals' /\ FokCovered' /\ FokAllOrNothing' /\ DepthFinite(book')
    BY DEF TotalsInv
  <2>1. CASE Next
    <3>1. Totals(book, order)
      BY TotalsIsLevelTotals DEF TotalsInv
    <3>2. Totals(book', order') /\ DepthFinite(book')
      BY <2>1, <3>1, TotalsStep
    <3>3. LevelTotals'
      BY <3>2 DEF LevelTotals, Totals, Left, Queued, Queue
    <3> QED
      BY <2>1, <3>1, <3>2, <3>3, CoveredStep, FokStep DEF TotalsInv
  <2>2. CASE UNCHANGED vars
    BY <2>2 DEF vars, TotalsInv, LevelTotals, FokCovered, FokAllOrNothing, Queued, Available
  <2> QED
    BY <2>1, <2>2
<1> QED
  BY <1>1, <1>2, Invariance, PTL DEF Spec

\* The quantity a level caches (and a snapshot shows, and the FOK check adds up)
\* is what its orders have left, in the middle of a sweep too.
THEOREM TotalsExact == Spec => []LevelTotals
  BY TotalsInvariance, PTL DEF TotalsInv

\* The levels within the limit of a FOK order that is being matched can fill it.
THEOREM FokStaysCovered == Spec => []FokCovered
  BY TotalsInvariance, PTL DEF TotalsInv

\* A FOK order is filled at once or expires untouched, and never rests.
THEOREM FokFilledOrKilled == Spec => []FokAllOrNothing
  BY TotalsInvariance, PTL DEF TotalsInv
-----------------------------------------------------------------------------
(* Snapshots.  The index holds every open order, so with the well-formed   *)
(* book and the exact totals a level is what the orders at its price add   *)
(* up to; and any finite set of prices can be walked best first.           *)

\* Any finite set of prices can be walked from the best one to the worst, each once.
LEMMA RankedPrices ==
    ASSUME NEW S, S \subseteq Int, IsFiniteSet(S), NEW side \in Side
    PROVE  LET r == Ranked(S, side)
           IN  /\ r \in [1 .. Cardinality(S) -> S] /\ Cardinality(S) \in Nat
               /\ \A i, j \in 1 .. Cardinality(S) : i < j => Better(side, r[i], r[j])
               /\ \A p \in S : \E i \in 1 .. Cardinality(S) : r[i] = p
<1> DEFINE n == Cardinality(S)
           ahead(p) == {q \in S : Better(side, q, p)}
           rank == [p \in S |-> Cardinality(ahead(p)) + 1]
           Walks(r) == r \in [1 .. n -> S] /\ \A i, j \in 1 .. n : i < j => Better(side, r[i], r[j])
<1>1. n \in Nat /\ IsFiniteSet(1 .. n) /\ Cardinality(1 .. n) = n
  <2>1. n \in Nat
    BY FS_CardinalityType
  <2> HIDE DEF n
  <2>2. IsFiniteSet(1 .. n) /\ Cardinality(1 .. n) = IF 1 > n THEN 0 ELSE n - 1 + 1
    BY <2>1, FS_Interval
  <2> QED
    BY <2>1, <2>2
<1>2. ASSUME NEW p \in S
      PROVE  /\ ahead(p) \subseteq S \ {p} /\ IsFiniteSet(ahead(p)) /\ Cardinality(ahead(p)) \in 0 .. n - 1
  <2>1. ahead(p) \subseteq S \ {p}
    BY DEF Better
  <2>2. IsFiniteSet(S \ {p}) /\ Cardinality(S \ {p}) = n - 1
    BY FS_RemoveElement
  <2> HIDE DEF ahead, n
  <2>3. IsFiniteSet(ahead(p)) /\ Cardinality(ahead(p)) <= Cardinality(S \ {p})
    BY <2>1, <2>2, FS_Subset
  <2>4. Cardinality(ahead(p)) \in Nat
    BY <2>3, FS_CardinalityType
  <2> QED
    BY <1>1, <2>1, <2>2, <2>3, <2>4
<1>3. ASSUME NEW p \in S, NEW q \in S, Better(side, p, q)
      PROVE  Cardinality(ahead(p)) < Cardinality(ahead(q))
  <2>0. p \in Int /\ q \in Int /\ \A x \in S : x \in Int /\ Better(side, x, p) => Better(side, x, q)
    BY <1>3 DEF Better
  <2>00. ~Better(side, p, p)
    BY <2>0 DEF Better
  <2>1. ahead(p) \subseteq ahead(q) /\ p \in ahead(q) /\ p \notin ahead(p)
    BY <1>3, <2>0, <2>00
  <2> HIDE DEF ahead, n
  <2>2. IsFiniteSet(ahead(q))
    BY <1>2
  <2>3. Cardinality(ahead(p)) <= Cardinality(ahead(q)) /\ Cardinality(ahead(p)) # Cardinality(ahead(q))
    BY <2>1, <2>2, FS_Subset
  <2>4. Cardinality(ahead(p)) \in Int /\ Cardinality(ahead(q)) \in Int
    BY <1>2
  <2> QED
    BY <2>3, <2>4
<1>4. \A p, q \in S : p = q \/ Better(side, p, q) \/ Better(side, q, p)
  BY DEF Better
<1>5. /\ \A p \in S : rank[p] \in 1 .. n
      /\ \A p, q \in S : Better(side, p, q) => rank[p] < rank[q]
  <2> HIDE DEF ahead, n
  <2> QED
    BY <1>1, <1>2, <1>3
<1>6. rank \in [S -> 1 .. n]
  <2>1. rank = [p \in S |-> rank[p]]
    OBVIOUS
  <2> HIDE DEF rank, n
  <2> QED
    BY <1>5, <2>1
<1> HIDE DEF rank, ahead
<1>7. \A p, q \in S : rank[p] = rank[q] => p = q
  <2> HIDE DEF n
  <2> QED
    BY <1>1, <1>4, <1>5
<1>8. \A i \in 1 .. n : \E p \in S : rank[p] = i
  <2> HIDE DEF n
  <2>1. rank \in Injection(S, 1 .. n)
    BY <1>6, <1>7 DEF Injection, IsInjective
  <2>2. rank \in Surjection(S, 1 .. n)
    BY <1>1, <2>1, FS_Injection DEF n
  <2> QED
    BY <2>2 DEF Surjection
<1>9. \E r : Walks(r)
  <2> DEFINE r == [i \in 1 .. n |-> CHOOSE p \in S : rank[p] = i]
  <2> HIDE DEF n
  <2>1. \A i \in 1 .. n : r[i] \in S /\ rank[r[i]] = i
    BY <1>8
  <2>2. r \in [1 .. n -> S]
    BY <2>1
  <2> HIDE DEF r
  <2>3. ASSUME NEW i \in 1 .. n, NEW j \in 1 .. n, i < j PROVE Better(side, r[i], r[j])
    <3>1. r[i] \in S /\ r[j] \in S /\ rank[r[i]] = i /\ rank[r[j]] = j
      BY <2>1
    <3>2. r[i] # r[j]
      BY <1>1, <2>3, <3>1
    <3>3. ~Better(side, r[j], r[i])
      <4>1. Better(side, r[j], r[i]) => rank[r[j]] < rank[r[i]]
        BY <1>5, <3>1
      <4>2. ~(j < i)
        BY <1>1, <2>3
      <4> QED
        BY <3>1, <4>1, <4>2
    <3> QED
      BY <1>4, <3>1, <3>2, <3>3
  <2> QED
    BY <2>2, <2>3
<1>10. Walks(Ranked(S, side))
  <2> DEFINE W(r) == r \in [1 .. n -> S] /\ \A i, j \in DOMAIN r : i < j => Better(side, r[i], r[j])
  <2>1. \A r : W(r) <=> Walks(r)
    OBVIOUS
  <2>2. Ranked(S, side) = CHOOSE r \in [1 .. n -> S] : \A i, j \in DOMAIN r : i < j => Better(side, r[i], r[j])
    BY DEF Ranked
  <2> HIDE DEF n
  <2>3. W(Ranked(S, side))
    BY <1>9, <2>2
  <2> HIDE DEF W, Walks
  <2> QED
    BY <2>1, <2>3
<1> DEFINE r == Ranked(S, side)
<1> HIDE DEF r
<1>11. r \in [1 .. n -> S] /\ \A i, j \in 1 .. n : i < j => Better(side, r[i], r[j])
  BY <1>10 DEF r
<1>12. \A p \in S : \E i \in 1 .. n : r[i] = p
  <2> HIDE DEF n
  <2>1. \A i, j \in 1 .. n : r[i] = r[j] => i = j
    <3> SUFFICES ASSUME NEW i \in 1 .. n, NEW j \in 1 .. n, r[i] = r[j], i # j PROVE FALSE
      OBVIOUS
    <3>1. i < j \/ j < i
      BY <1>1
    <3>2. Better(side, r[i], r[j]) \/ Better(side, r[j], r[i])
      BY <1>11, <3>1
    <3>3. r[i] \in Int
      BY <1>11
    <3> QED
      BY <3>2, <3>3 DEF Better
  <2>2. r \in Injection(1 .. n, S)
    BY <1>11, <2>1 DEF Injection, IsInjective
  <2>3. r \in Surjection(1 .. n, S)
    BY <1>1, <2>2, FS_Injection DEF n
  <2> QED
    BY <2>3 DEF Surjection
<1> QED
  BY <1>1, <1>11, <1>12 DEF r

\* The index holds every open LIMIT order, from the call that rests it to the one
\* that fills or cancels it.
LEMMA OpenStep ==
    ASSUME IInv, OpenAreIndexed, Next
    PROVE  OpenAreIndexed'
<1> DEFINE Unsettled(o) == o.type = "LIMIT" /\ o.status \in {"NEW", "PARTIALLY_FILLED"}
<1>0. order \in [OrderIds -> Order] /\ orders \subseteq OrderIds
  BY DEF IInv, TypeOK
<1>00. \A x \in OrderIds : Unsettled(order[x]) => x \in orders \/ x = incoming
  BY DEF OpenAreIndexed
<1> SUFFICES ASSUME NEW x \in OrderIds, Unsettled(order'[x])
             PROVE  x \in orders' \/ x = incoming'
  BY DEF OpenAreIndexed
<1>1. ASSUME NEW id \in OrderIds, NEW o \in Submittable, AddOrder(id, o)
      PROVE  x \in orders' \/ x = incoming'
  <2>1. /\ incoming = NoOrder /\ orders' = orders
        /\ order' = [order EXCEPT ![id] = IF Killed(o) THEN [o EXCEPT !.status = "EXPIRED"] ELSE o]
        /\ incoming' = IF Killed(o) THEN NoOrder ELSE id
    BY <1>1 DEF AddOrder
  <2>2. CASE x = id
    <3>1. Killed(o) => order'[x].status = "EXPIRED"
      BY <1>0, <2>1, <2>2 DEF Submittable
    <3> QED
      BY <2>1, <2>2, <3>1
  <2>3. CASE x # id
    <3>1. order'[x] = order[x] /\ x # NoOrder
      BY <1>0, <2>1, <2>3, NoOrderAssumption
    <3> QED
      BY <1>00, <2>1, <3>1
  <2> QED
    BY <2>2, <2>3
<1>2. CASE Fill
  <2> DEFINE other == Opposite(order[incoming].side)
  <2>1. PICK p \in DOMAIN book[other] : FillAt(p)
    BY <1>2 DEF Fill
  <2> DEFINE rid == Head(book[other][p].orders)
             qty == FillQty(order[incoming], order[rid])
             taken == Filled(order[incoming], qty)
             resting == Filled(order[rid], qty)
  <2>2. /\ order' = [order EXCEPT ![incoming] = taken, ![rid] = resting]
        /\ orders' = IF IsDone(resting) THEN orders \ {rid} ELSE orders
        /\ incoming' = incoming
    BY <1>2, <2>1 DEF Fill, FillAt
  <2>3. rid \in orders
    <3>1. other \in Side /\ incoming \in OrderIds
      BY <1>2, InvFacts DEF Fill, IInv, IncomingApart, Opposite, Side
    <3>2. /\ book[other][p].orders \in Seq(OrderIds) /\ book[other][p].orders # << >>
          /\ book[other][p].orders = Queue(book, other, p)
      BY <3>1, InvFacts DEF BookType, Level, WellFormed, Queue
    <3>3. 1 \in DOMAIN book[other][p].orders /\ rid = book[other][p].orders[1]
      BY <3>2
    <3> QED
      BY <3>1, <3>2, <3>3, InvFacts DEF WellFormed
  <2> HIDE DEF rid, taken, resting, other
  <2>4. CASE x = incoming
    BY <2>2, <2>4
  <2>5. CASE x = rid
    <3>1. order'[x] = resting
      BY <1>0, <2>2, <2>5
    <3>2. ~IsDone(resting)
      BY <3>1 DEF IsDone, Done
    <3> QED
      BY <2>2, <2>3, <2>5, <3>2
  <2>6. CASE x # incoming /\ x # rid
    <3>1. order'[x] = order[x]
      BY <1>0, <2>2, <2>6
    <3> QED
      BY <1>00, <2>2, <2>6, <3>1
  <2> QED
    BY <2>4, <2>5, <2>6
<1>3. CASE Rest
  BY <1>00, <1>3 DEF Rest, Return
<1>4. CASE Discard
  <2> DEFINE o == order[incoming]
             closed == [o EXCEPT !.status = IF o.type = "MARKET" THEN "CANCELLED" ELSE "EXPIRED"]
  <2>1. incoming \in OrderIds /\ order' = [order EXCEPT ![incoming] = closed] /\ orders' = orders
    BY <1>4 DEF Discard, MatchingOver, IInv, IncomingApart
  <2>2. closed.status \notin {"NEW", "PARTIALLY_FILLED"}
    BY <1>0, <2>1 DEF Order
  <2> HIDE DEF closed
  <2>3. x # incoming /\ order'[x] = order[x]
    BY <1>0, <2>1, <2>2
  <2> QED
    BY <1>00, <2>1, <2>3
<1>5. CASE Complete
  <2>1. order' = order /\ orders' = orders /\ incoming # NoOrder
    BY <1>5 DEF Complete, MatchingOver
  <2>2. ~Unsettled(order[incoming])
    BY <1>5, <2>1 DEF Complete, IsDone, Done, IInv, IncomingApart
  <2> QED
    BY <1>00, <2>1, <2>2
<1>6. ASSUME NEW id \in OrderIds, CancelOrder(id)
      PROVE  x \in orders' \/ x = incoming'
  <2>1. /\ orders' = orders \ {id} /\ incoming' = incoming
        /\ order' = [order EXCEPT ![id] = [order[id] EXCEPT !.status = "CANCELLED"]]
    BY <1>6 DEF CancelOrder
  <2>2. order'[id].status = "CANCELLED"
    BY <1>0, <2>1 DEF Order
  <2>3. x # id /\ order'[x] = order[x]
    BY <1>0, <2>1, <2>2
  <2> QED
    BY <1>00, <2>1, <2>3
<1>7. ASSUME NEW id \in OrderIds, NEW price \in Prices, NEW qty \in 1 .. MaxQty, ModifyOrder(id, price, qty)
      PROVE  x \in orders' \/ x = incoming'
  <2>1. /\ id \in orders /\ orders' = orders /\ incoming' = incoming
        /\ order' = [order EXCEPT ![id] = Moved(order[id], price, qty)]
    BY <1>7 DEF ModifyOrder
  <2>2. CASE x = id
    BY <2>1, <2>2
  <2>3. CASE x # id
    <3>1. order'[x] = order[x]
      BY <1>0, <2>1, <2>3
    <3> QED
      BY <1>00, <2>1, <3>1
  <2> QED
    BY <2>2, <2>3
<1> QED
  BY <1>1, <1>2, <1>3, <1>4, <1>5, <1>6, <1>7 DEF Next, EndOfCall

\* A queue of distinct ids is as long as the set of its elements is large.
LEMMA QueueCounts ==
    ASSUME NEW S, NEW q \in Seq(S), \A i, j \in DOMAIN q : q[i] = q[j] => i = j
    PROVE  Len(q) = Cardinality(ToSet(q))
<1>1. DOMAIN q = 1 .. Len(q) /\ Len(q) \in Nat /\ q = [i \in 1 .. Len(q) |-> q[i]]
  OBVIOUS
<1> DEFINE n == Len(q)
<1> HIDE DEF n
<1>2. IsFiniteSet(1 .. n) /\ Cardinality(1 .. n) = n
  <2>1. n \in Nat
    BY <1>1 DEF n
  <2>2. IsFiniteSet(1 .. n) /\ Cardinality(1 .. n) = IF 1 > n THEN 0 ELSE n - 1 + 1
    BY <2>1, FS_Interval
  <2> QED
    BY <2>1, <2>2
<1>3. /\ q \in [1 .. n -> ToSet(q)]
      /\ \A x \in ToSet(q) : \E i \in 1 .. n : q[i] = x
      /\ \A i, j \in 1 .. n : q[i] = q[j] => i = j
  BY <1>1 DEF n, ToSet
<1>4. q \in Surjection(1 .. n, ToSet(q)) /\ q \in Injection(1 .. n, ToSet(q))
  BY <1>3 DEF Surjection, Injection, IsInjective
<1>5. Cardinality(ToSet(q)) = Cardinality(1 .. n)
  BY <1>2, <1>4, FS_Surjection
<1> QED
  BY <1>2, <1>5 DEF n

\* Between calls the orders queued at a price are those that are open there.
LEMMA QueuedIsOpen ==
    ASSUME IInv, OpenAreIndexed, Idle, NEW s \in Side, NEW p \in DOMAIN book[s]
    PROVE  Queued(s, p) = {id \in OrderIds : /\ order[id].side = s /\ order[id].type = "LIMIT"
                                             /\ order[id].status \in {"NEW", "PARTIALLY_FILLED"}
                                             /\ order[id].price = p}
<1>1. Queued(s, p) = {book[s][p].orders[i] : i \in DOMAIN book[s][p].orders}
  BY DEF Queued, ToSet
<1>2. ASSUME NEW i \in DOMAIN book[s][p].orders
      PROVE  LET id == book[s][p].orders[i]
             IN  /\ id \in OrderIds /\ order[id].side = s /\ order[id].type = "LIMIT"
                 /\ order[id].status \in {"NEW", "PARTIALLY_FILLED"} /\ order[id].price = p
  BY InvFacts DEF WellFormed, Queue, Open
<1>3. ASSUME NEW id \in OrderIds, order[id].side = s, order[id].type = "LIMIT",
             order[id].status \in {"NEW", "PARTIALLY_FILLED"}, order[id].price = p
      PROVE  \E i \in DOMAIN book[s][p].orders : book[s][p].orders[i] = id
  <2>1. id \in orders
    BY <1>3, NoOrderAssumption DEF OpenAreIndexed, Idle
  <2> QED
    BY <1>3, <2>1, InvFacts DEF WellFormed, Queue
<1> QED
  BY <1>1, <1>2, <1>3

\* A snapshot of any depth is truthful.
LEMMA Truthful ==
    ASSUME IInv, LevelTotals, DepthFinite(book), OpenAreIndexed, Idle,
           NEW s \in Side, NEW depth \in Nat \ {0}
    PROVE  TruthfulTo(s, depth)
<1> DEFINE prices == DOMAIN book[s]
           n == Cardinality(prices)
           ranked == Ranked(prices, s)
           shown == Snapshot(s, depth)
           m == Min({depth, n})
           open == {id \in OrderIds : order[id].side = s /\ order[id].type = "LIMIT"
                       /\ order[id].status \in {"NEW", "PARTIALLY_FILLED"}}
<1>1. prices \subseteq Int /\ IsFiniteSet(prices)
  BY InvFacts, PricesAssumption DEF BookType, DepthFinite
<1>2. /\ ranked \in [1 .. n -> prices] /\ n \in Nat
      /\ \A i, j \in 1 .. n : i < j => Better(s, ranked[i], ranked[j])
      /\ \A p \in prices : \E i \in 1 .. n : ranked[i] = p
  <2> HIDE DEF prices
  <2> QED
    BY <1>1, RankedPrices
<1>3. Len(ranked) = n
  <2> HIDE DEF ranked, n
  <2> QED
    BY <1>2
<1>4. /\ DOMAIN shown = 1 .. m
      /\ \A i \in 1 .. m : /\ shown[i].price = ranked[i]
                           /\ shown[i].qty = book[s][ranked[i]].total_qty
                           /\ shown[i].order_count = Len(book[s][ranked[i]].orders)
  <2>1. shown = [i \in 1 .. m |-> [price |-> ranked[i], qty |-> book[s][ranked[i]].total_qty,
                                   order_count |-> Len(book[s][ranked[i]].orders)]]
    BY <1>3 DEF Snapshot, Shown
  <2> HIDE DEF shown, ranked, m
  <2> QED
    BY <2>1
<1>5. m \in Nat /\ m <= n /\ m <= depth /\ (m = n \/ m = depth)
  <2> HIDE DEF n
  <2>1. m = IF depth < n THEN depth ELSE n
    BY <1>2, PairExtrema
  <2> HIDE DEF m
  <2> QED
    BY <1>2, <2>1
<1>6. \A id \in open : order[id].price \in prices
  <2> SUFFICES ASSUME NEW id \in open PROVE order[id].price \in prices
    OBVIOUS
  <2>1. id \in orders
    BY NoOrderAssumption DEF OpenAreIndexed, Idle
  <2> QED
    BY <2>1, InvFacts DEF WellFormed
<1>7. ASSUME NEW p \in prices
      PROVE  LET at == {id \in open : order[id].price = p}
             IN  /\ Len(book[s][p].orders) = Cardinality(at)
                 /\ book[s][p].total_qty = SumFunctionOnSet([id \in at |-> Remaining(order[id])], at)
  <2> DEFINE at == {id \in open : order[id].price = p}
  <2>1. at = Queued(s, p)
    BY QueuedIsOpen
  <2>2. book[s][p].total_qty = SumFunctionOnSet([id \in Queued(s, p) |-> Remaining(order[id])], Queued(s, p))
    BY DEF LevelTotals
  <2>3. /\ book[s][p].orders \in Seq(OrderIds)
        /\ \A i, j \in DOMAIN book[s][p].orders : book[s][p].orders[i] = book[s][p].orders[j] => i = j
    BY InvFacts DEF BookType, Level, WellFormed, Queue
  <2>4. Len(book[s][p].orders) = Cardinality(Queued(s, p))
    BY <2>3, QueueCounts DEF Queued
  <2> HIDE DEF at
  <2>5. [id \in at |-> Remaining(order[id])] = [id \in Queued(s, p) |-> Remaining(order[id])]
    BY <2>1
  <2>6. /\ Len(book[s][p].orders) = Cardinality(at)
        /\ book[s][p].total_qty = SumFunctionOnSet([id \in at |-> Remaining(order[id])], at)
    BY <2>1, <2>2, <2>4, <2>5
  <2> QED
    BY <2>6 DEF at
<1> HIDE DEF prices, ranked, n, m, shown
<1>8. ASSUME NEW i \in 1 .. m
      PROVE  LET at == {id \in open : order[id].price = shown[i].price}
             IN  /\ shown[i].order_count = Cardinality(at)
                 /\ shown[i].qty = SumFunctionOnSet([id \in at |-> Remaining(order[id])], at)
                 /\ \A id \in open : Better(s, order[id].price, shown[i].price) =>
                        \E j \in 1 .. i - 1 : shown[j].price = order[id].price
  <2>1. i \in 1 .. n /\ ranked[i] \in prices
    BY <1>2, <1>5
  <2>2. shown[i].price = ranked[i]
    BY <1>4
  <2>3. LET at == {id \in open : order[id].price = shown[i].price}
        IN  /\ shown[i].order_count = Cardinality(at)
            /\ shown[i].qty = SumFunctionOnSet([id \in at |-> Remaining(order[id])], at)
    <3> DEFINE Correct(p, count, qty) ==
                   LET at == {id \in open : order[id].price = p}
                   IN  count = Cardinality(at)
                       /\ qty = SumFunctionOnSet([id \in at |-> Remaining(order[id])], at)
    <3>1. Correct(ranked[i], Len(book[s][ranked[i]].orders), book[s][ranked[i]].total_qty)
      BY <1>7, <2>1
    <3>2. /\ shown[i].order_count = Len(book[s][ranked[i]].orders)
          /\ shown[i].qty = book[s][ranked[i]].total_qty
      BY <1>4
    <3> HIDE DEF Correct
    <3>3. Correct(shown[i].price, shown[i].order_count, shown[i].qty)
      BY <2>2, <3>1, <3>2
    <3> QED
      BY <3>3 DEF Correct
  <2>4. ASSUME NEW id \in open, Better(s, order[id].price, shown[i].price)
        PROVE  \E j \in 1 .. i - 1 : shown[j].price = order[id].price
    <3>1. PICK j \in 1 .. n : ranked[j] = order[id].price
      BY <1>2, <1>6
    <3>2. ranked[j] \in Int /\ ranked[i] \in Int /\ Better(s, ranked[j], ranked[i])
      BY <1>1, <1>2, <2>1, <2>2, <2>4, <3>1
    <3>3. ~Better(s, ranked[i], ranked[j]) /\ ranked[i] # ranked[j]
      BY <3>2 DEF Better
    <3>4. ~(i < j) /\ i # j
      BY <1>2, <2>1, <3>3
    <3>5. j \in 1 .. i - 1 /\ j \in 1 .. m
      BY <1>2, <1>5, <3>4
    <3> QED
      BY <1>4, <3>1, <3>5
  <2> HIDE DEF open
  <2> QED
    BY <2>3, <2>4
<1>9. open # {} => shown # << >>
  <2> SUFFICES ASSUME NEW id \in open PROVE shown # << >>
    OBVIOUS
  <2>1. 1 \in 1 .. m
    <3>1. n >= 1
      BY <1>2, <1>6
    <3> QED
      BY <1>5, <3>1
  <2>2. 1 \in DOMAIN shown
    BY <1>4, <2>1
  <2> QED
    BY <2>2
<1>10. /\ \A i \in DOMAIN shown :
              LET at == {id \in open : order[id].price = shown[i].price}
              IN  /\ shown[i].order_count = Cardinality(at)
                  /\ shown[i].qty = SumFunctionOnSet([id \in at |-> Remaining(order[id])], at)
                  /\ \A id \in open : Better(s, order[id].price, shown[i].price) =>
                         \E j \in 1 .. i - 1 : shown[j].price = order[id].price
       /\ open # {} => shown # << >>
  <2> HIDE DEF open
  <2> QED
    BY <1>4, <1>8, <1>9
<1> QED
  BY <1>10 DEF TruthfulTo, shown

\* The index loses no open order.
THEOREM NothingUnindexed == Spec => []OpenAreIndexed
<1>1. Init => OpenAreIndexed
  BY DEF Init, OpenAreIndexed, Blank
<1>2. IInv /\ OpenAreIndexed /\ [Next]_vars => OpenAreIndexed'
  <2>1. ASSUME OpenAreIndexed, UNCHANGED vars PROVE OpenAreIndexed'
    BY <2>1 DEF OpenAreIndexed, vars
  <2> QED
    BY <2>1, OpenStep
<1> QED
  BY <1>1, <1>2, Invariance, PTL DEF Spec

\* Snapshots of any depth are truthful between calls.
THEOREM SnapshotsOfAnyDepth == Spec => [](Idle => \A s \in Side, depth \in Nat \ {0} : TruthfulTo(s, depth))
<1>1. TotalsInv /\ DepthFinite(book) /\ OpenAreIndexed
          => (Idle => \A s \in Side, depth \in Nat \ {0} : TruthfulTo(s, depth))
  BY Truthful DEF TotalsInv
<1> QED
  BY <1>1, TotalsInvariance, NothingUnindexed, PTL

\* In particular those that are checked.
THEOREM SnapshotsTrue == Spec => []SnapshotTruthful
<1>1. (Idle => \A s \in Side, depth \in Nat \ {0} : TruthfulTo(s, depth)) => SnapshotTruthful
  BY DEF SnapshotTruthful
<1> QED
  BY <1>1, SnapshotsOfAnyDepth, PTL
-----------------------------------------------------------------------------
(* What a step of the book does to the orders, for the owner of the book.  *)

\* No order is filled further, changes its side, appears or disappears.
Unfilled ==
    \A id \in OrderIds :
        /\ order'[id].side = order[id].side /\ order'[id].filled_qty = order[id].filled_qty
        /\ order'[id] = Blank <=> order[id] = Blank

\* An order that was submitted has a status of its own.
LEMMA NotBlank == ASSUME NEW o, o.status # "PENDING" PROVE o # Blank
  BY DEF Blank

\* The order id is closed or moved, without being filled.
LEMMA OneUnfilled ==
    ASSUME IInv, NEW id \in OrderIds, NEW o, order' = [order EXCEPT ![id] = o],
           o.side = order[id].side, o.filled_qty = order[id].filled_qty, o # Blank, order[id] # Blank
    PROVE  Unfilled
<1>1. order \in [OrderIds -> Order]
  BY DEF IInv, TypeOK
<1>2. order'[id] = o /\ \A x \in OrderIds : x # id => order'[x] = order[x]
  BY <1>1
<1> QED
  BY <1>2 DEF Unfilled

\* add_order: the order is entered under its id, unfilled.
LEMMA AddSeen ==
    ASSUME IInv, NEW id \in OrderIds, NEW o \in Submittable, AddOrder(id, o)
    PROVE  /\ incoming = NoOrder /\ incoming' \in {id, NoOrder} /\ trades' = trades
           /\ order[id] = Blank /\ order'[id] # Blank
           /\ order'[id].side = o.side /\ order'[id].qty = o.qty /\ order'[id].filled_qty = 0
           /\ \A x \in OrderIds : x # id => order'[x] = order[x]
<1> DEFINE entered == IF Killed(o) THEN [o EXCEPT !.status = "EXPIRED"] ELSE o
<1>1. /\ incoming = NoOrder /\ incoming' \in {id, NoOrder} /\ trades' = trades
      /\ order[id] = Blank /\ order' = [order EXCEPT ![id] = entered]
  BY DEF AddOrder
<1>2. /\ entered.side = o.side /\ entered.qty = o.qty /\ entered.filled_qty = 0 /\ entered # Blank
  BY DEF Submittable, Blank
<1>3. order \in [OrderIds -> Order]
  BY DEF IInv, TypeOK
<1> HIDE DEF entered
<1>4. order'[id] = entered /\ \A x \in OrderIds : x # id => order'[x] = order[x]
  BY <1>1, <1>3
<1> QED
  BY <1>1, <1>2, <1>4

\* o becomes f by trading qty.
TradedFor(o, f, qty) ==
    /\ f.side = o.side /\ f.qty = o.qty /\ f.filled_qty = o.filled_qty + qty
    /\ f.filled_qty \in Nat /\ f # Blank

\* make_trade does that.
LEMMA FilledTrades ==
    ASSUME NEW o \in Order, NEW qty \in Nat
    PROVE  TradedFor(o, Filled(o, qty), qty)
<1> DEFINE more == [o EXCEPT !.filled_qty = o.filled_qty + qty]
           status == IF Remaining(o) = qty THEN "FILLED" ELSE "PARTIALLY_FILLED"
           f == [more EXCEPT !.status = status]
<1>1. f = Filled(o, qty)
  BY DEF Filled
<1>2. more.filled_qty = o.filled_qty + qty /\ more.qty = o.qty /\ more.side = o.side /\ o.filled_qty \in Nat
  BY MaxQtyAssumption DEF Order
<1>3. f.filled_qty = more.filled_qty /\ f.qty = more.qty /\ f.side = more.side
  BY DEF Order
<1>4. f.status = status /\ f # Blank
  BY DEF Order, Blank
<1> HIDE DEF f, more
<1> QED
  BY <1>1, <1>2, <1>3, <1>4 DEF TradedFor

\* The incoming order and rid, on opposite sides, trade qty.
TradesWith(rid, qty) ==
    /\ incoming \in OrderIds /\ incoming' = incoming /\ rid \in OrderIds /\ rid # incoming /\ qty \in Nat
    /\ order[rid].side = Opposite(order[incoming].side)
    /\ order[incoming] # Blank /\ order[rid] # Blank
    /\ TradedFor(order[incoming], order'[incoming], qty)
    /\ TradedFor(order[rid], order'[rid], qty)
    /\ \A x \in OrderIds : x # incoming /\ x # rid => order'[x] = order[x]
    /\ \E price : trades' = Append(trades, [taker |-> incoming, resting |-> rid, price |-> price, qty |-> qty])

\* One iteration of try_match's loop is such a trade.
LEMMA FillSeen ==
    ASSUME IInv, Fill
    PROVE  \E rid, qty : TradesWith(rid, qty)
<1> DEFINE taker == order[incoming]
           other == Opposite(taker.side)
<1>1. PICK p \in DOMAIN book[other] : CanFillAt(p) /\ FillAt(p)
  BY DEF Fill
<1> DEFINE level == book[other][p]
           rid == Head(level.orders)
           qty == FillQty(taker, order[rid])
<1>2. incoming # NoOrder /\ incoming' = incoming /\ Remaining(taker) > 0
  BY <1>1 DEF Fill, CanFillAt
<1>3. /\ order' = [order EXCEPT ![incoming] = Filled(taker, qty), ![rid] = Filled(order[rid], qty)]
      /\ trades' = Append(trades, [taker |-> incoming, resting |-> rid, price |-> order[rid].price, qty |-> qty])
  BY <1>1 DEF FillAt
<1>4. /\ incoming \in OrderIds /\ incoming \notin orders /\ taker \in Order /\ other \in Side
      /\ taker.status # "PENDING"
  BY <1>2, InvFacts DEF IInv, IncomingApart, Opposite, Side
<1>5. /\ level.orders \in Seq(OrderIds) /\ level.orders # << >>
      /\ level.orders = Queue(book, other, p)
  BY <1>4, InvFacts DEF BookType, Level, WellFormed, Queue
<1>6. /\ 1 \in DOMAIN level.orders /\ rid = level.orders[1]
  BY <1>5
<1>7. rid \in orders /\ Open(order[rid], other, p)
  BY <1>4, <1>5, <1>6, InvFacts DEF WellFormed
<1>8. rid \in OrderIds /\ order[rid] \in Order /\ rid # incoming /\ order \in [OrderIds -> Order]
  BY <1>4, <1>7, InvFacts DEF IInv, TypeOK
<1>9. order[rid].side = other /\ order[rid] # Blank /\ taker # Blank
  <2>1. order[rid].side = other /\ order[rid].status # "PENDING"
    BY <1>7 DEF Open
  <2>2. taker.status # "PENDING"
    BY <1>4
  <2> QED
    BY <2>1, <2>2, NotBlank
<1> HIDE DEF level, rid
<1>10. qty \in Nat
  BY <1>2, <1>4, <1>7, <1>8 DEF FillQty, Open, Remaining, Order
<1> HIDE DEF qty
<1>11. TradedFor(taker, Filled(taker, qty), qty) /\ TradedFor(order[rid], Filled(order[rid], qty), qty)
  BY <1>4, <1>8, <1>10, FilledTrades
<1>12. /\ order'[incoming] = Filled(taker, qty) /\ order'[rid] = Filled(order[rid], qty)
       /\ \A x \in OrderIds : x # incoming /\ x # rid => order'[x] = order[x]
  BY <1>3, <1>4, <1>8
<1>13. TradesWith(rid, qty)
  BY <1>2, <1>3, <1>4, <1>8, <1>9, <1>10, <1>11, <1>12 DEF TradesWith
<1> QED
  BY <1>13

\* The end of an add_order call fills nothing.
LEMMA EndSeen ==
    ASSUME IInv, EndOfCall
    PROVE  /\ incoming \in OrderIds /\ incoming' = NoOrder /\ trades' = << >> /\ Unfilled
<1>1. incoming \in OrderIds /\ incoming' = NoOrder /\ trades' = << >>
  <2>1. incoming # NoOrder /\ incoming' = NoOrder /\ trades' = << >>
    BY DEF EndOfCall, Rest, Discard, Complete, MatchingOver, Return
  <2>2. incoming \in OrderIds \cup {NoOrder}
    BY DEF IInv, TypeOK
  <2> QED
    BY <2>1, <2>2
<1>2. ASSUME order' = order PROVE Unfilled
  <2>1. \A id : order'[id] = order[id]
    BY <1>2
  <2> QED
    BY <2>1 DEF Unfilled
<1>3. CASE Discard
  <2> DEFINE o == order[incoming]
             closed == [o EXCEPT !.status = IF o.type = "MARKET" THEN "CANCELLED" ELSE "EXPIRED"]
  <2>1. order' = [order EXCEPT ![incoming] = closed]
    BY <1>3 DEF Discard
  <2>2. o \in Order /\ o.status # "PENDING"
    BY <1>1 DEF IInv, TypeOK, IncomingApart, MatchingOver, EndOfCall, Rest, Discard, Complete
  <2>3. closed.side = o.side /\ closed.filled_qty = o.filled_qty /\ closed # Blank /\ o # Blank
    BY <2>2 DEF Order, Blank
  <2> HIDE DEF closed
  <2>4. Unfilled
    BY <1>1, <2>1, <2>3, OneUnfilled
  <2> QED
    BY <1>1, <2>4
<1> QED
  BY <1>1, <1>2, <1>3 DEF EndOfCall, Rest, Complete

\* cancel_order fills nothing.
LEMMA CancelSeen ==
    ASSUME IInv, NEW id \in OrderIds, CancelOrder(id)
    PROVE  incoming = NoOrder /\ incoming' = incoming /\ trades' = trades /\ Unfilled
<1> DEFINE o == order[id]
           closed == [o EXCEPT !.status = "CANCELLED"]
<1>1. /\ incoming = NoOrder /\ incoming' = incoming /\ trades' = trades /\ id \in orders
      /\ order' = [order EXCEPT ![id] = closed]
  BY DEF CancelOrder
<1>2. o \in Order /\ o.status \in {"NEW", "PARTIALLY_FILLED"}
  BY <1>1, InvFacts DEF Open
<1>3. closed.side = o.side /\ closed.filled_qty = o.filled_qty /\ closed # Blank /\ o # Blank
  BY <1>2 DEF Order, Blank
<1> HIDE DEF closed
<1> QED
  BY <1>1, <1>3, OneUnfilled

\* Nor does modify_order.
LEMMA ModifySeen ==
    ASSUME IInv, NEW id \in OrderIds, NEW price \in Prices, NEW qty \in 1 .. MaxQty, ModifyOrder(id, price, qty)
    PROVE  incoming = NoOrder /\ incoming' = incoming /\ trades' = trades /\ Unfilled
<1> DEFINE o == order[id]
           moved == Moved(o, price, qty)
<1>1. /\ incoming = NoOrder /\ incoming' = incoming /\ trades' = trades /\ id \in orders
      /\ order' = [order EXCEPT ![id] = moved]
  BY DEF ModifyOrder
<1>2. o \in Order /\ o.status \in {"NEW", "PARTIALLY_FILLED"}
  BY <1>1, InvFacts DEF Open
<1>3. moved.side = o.side /\ moved.filled_qty = o.filled_qty /\ moved # Blank /\ o # Blank
  <2> DEFINE dearer == [o EXCEPT !.price = price]
             larger == [dearer EXCEPT !.qty = qty]
  <2>1. moved = larger
    BY DEF Moved
  <2>2. dearer.side = o.side /\ dearer.filled_qty = o.filled_qty /\ dearer.status = o.status
    BY <1>2 DEF Order
  <2>3. larger.side = dearer.side /\ larger.filled_qty = dearer.filled_qty /\ larger.status = dearer.status
    BY <1>2 DEF Order
  <2> HIDE DEF moved, dearer, larger
  <2> QED
    BY <1>2, <2>1, <2>2, <2>3, NotBlank
<1> HIDE DEF moved
<1> QED
  BY <1>1, <1>3, OneUnfilled
-----------------------------------------------------------------------------
(***************************************************************************)
(* OrderBook implements PriceTimePriority, for any finite set of ids and   *)
(* any prices and quantities.                                              *)
(*                                                                         *)
(* The promise made when add_order starts is kept by every trade: the      *)
(* oldest order of the best level is the first in priority, so it gives    *)
(* all it can, and what it gives is what every order behind it finds the   *)
(* demand lowered by.                                                      *)
(***************************************************************************)
(* The operators of the abstract book, in the words of the concrete one.   *)

\* An incoming order o may trade with an order that rests at p.
Reached(o, p) == o.type = "MARKET" \/ Reaches(o.side, o.price, p)

\* The queues of any book.
QueuesOf(b) == [s \in Side |-> [p \in Prices |-> IF p \in DOMAIN b[s] THEN b[s][p].orders ELSE << >>]]

\* The queues of the refinement mapping are those of the book.
LEMMA QueuesNow == Queues = QueuesOf(book) /\ Queues' = QueuesOf(book')
  BY DEF Queues, QueuesOf

\* x is in line before y.
Before(ord, que, x, y) ==
    \/ Better(ord[x].side, ord[x].price, ord[y].price)
    \/ /\ ord[x].price = ord[y].price
       /\ LET q == que[ord[x].side][ord[x].price]
          IN  \E i, j \in DOMAIN q : i < j /\ q[i] = x /\ q[j] = y

\* Precedes of the abstract book is Before.
LEMMA PrecedesIsBefore ==
    ASSUME NEW ord, NEW que, NEW x, NEW y
    PROVE  Abstract!Precedes(ord, que, x, y) <=> Before(ord, que, x, y)
  BY DEF Abstract!Precedes, Before, Abstract!Better, Better

\* OpenQty of the abstract book is Left.
LEMMA OpenQtyIsLeft == ASSUME NEW ord, NEW S PROVE Abstract!OpenQty(ord, S) = Left(ord, S)
  BY DEF Abstract!OpenQty, Left, Abstract!Remaining, Remaining, Abstract!SumFunctionOnSet, SumFunctionOnSet,
         Abstract!FoldFunctionOnSet, FoldFunctionOnSet, Abstract!MapThenFoldSet, MapThenFoldSet

\* The resting orders that o may trade with.
Others(que, o) ==
    UNION {ToSet(que[Opposite(o.side)][p]) : p \in {q \in Prices : Reached(o, q)}}

\* Counterparties of the abstract book are the Others.
LEMMA CounterpartiesAreOthers ==
    ASSUME NEW ord, NEW que, NEW o PROVE Abstract!Counterparties(ord, que, o) = Others(que, o)
  BY DEF Abstract!Counterparties, Others, Reached, Abstract!Reaches, Reaches, Abstract!Opposite, Opposite,
         Abstract!ToSet, ToSet

\* The counterparties that are served before y.
Ahead(ord, que, o, y) == {x \in Others(que, o) : Before(ord, que, x, y)}

\* Two values make a finite set.
LEMMA PairFinite == ASSUME NEW x, NEW y PROVE IsFiniteSet({x, y})
<1>1. {x, y} = {x} \cup {y}
  OBVIOUS
<1>2. IsFiniteSet({x})
  BY FS_Singleton
<1> QED
  BY <1>1, <1>2, FS_AddElement

\* What Given says, for an order that is no FOK or is met by what is on offer.
LEMMA GivenValue ==
    ASSUME NEW ord, NEW que, NEW o, NEW y,
           o.type = "FOK" => ~(Left(ord, Others(que, o)) < Remaining(o)),
           Remaining(o) \in Int, Left(ord, Ahead(ord, que, o, y)) \in Int, Remaining(ord[y]) \in Int
    PROVE  LET wanted == Remaining(o) - Left(ord, Ahead(ord, que, o, y))
               rest == IF wanted < 0 THEN 0 ELSE wanted
           IN  Abstract!Given(ord, que, o, y) =
                   IF y \notin Others(que, o) THEN 0
                   ELSE IF rest < Remaining(ord[y]) THEN rest ELSE Remaining(ord[y])
<1> DEFINE wanted == Remaining(o) - Left(ord, Ahead(ord, que, o, y))
           rest == IF wanted < 0 THEN 0 ELSE wanted
           them == Abstract!Counterparties(ord, que, o)
           front == {x \in them : Abstract!Precedes(ord, que, x, y)}
           ahead == Abstract!OpenQty(ord, front)
<1>1. them = Others(que, o)
  BY CounterpartiesAreOthers
<1>2. front = Ahead(ord, que, o, y)
  BY <1>1, PrecedesIsBefore DEF Ahead
<1>3. ahead = Left(ord, Ahead(ord, que, o, y)) /\ Abstract!OpenQty(ord, them) = Left(ord, Others(que, o))
  BY <1>1, <1>2, OpenQtyIsLeft
<1>4. Abstract!Given(ord, que, o, y) =
          IF y \notin them \/ (o.type = "FOK" /\ Abstract!OpenQty(ord, them) < Abstract!Remaining(o)) THEN 0
          ELSE Abstract!Min({Abstract!Remaining(ord[y]), Abstract!Max({0, Abstract!Remaining(o) - ahead})})
  BY DEF Abstract!Given
<1>5. \A S : Abstract!Min(S) = Min(S) /\ Abstract!Max(S) = Max(S)
  BY DEF Abstract!Min, Abstract!Max, Min, Max
<1>6. Abstract!Remaining(o) = Remaining(o) /\ Abstract!Remaining(ord[y]) = Remaining(ord[y])
  BY DEF Abstract!Remaining, Remaining
<1> HIDE DEF them, front, ahead
<1>7. Max({0, wanted}) = rest /\ rest \in Int
  <2>1. wanted \in Int
    OBVIOUS
  <2> HIDE DEF wanted
  <2>2. {0, wanted} \subseteq Int /\ {0, wanted} # {}
    BY <2>1
  <2>4. IsFiniteSet({0, wanted})
    BY PairFinite
  <2>3. Max({0, wanted}) \in {0, wanted} /\ \A z \in {0, wanted} : Max({0, wanted}) >= z
    BY <2>2, <2>4, MinMax
  <2> QED
    BY <2>1, <2>3
<1> HIDE DEF rest
<1>8. Min({Remaining(ord[y]), rest}) = IF rest < Remaining(ord[y]) THEN rest ELSE Remaining(ord[y])
  <2> DEFINE S == {Remaining(ord[y]), rest}
  <2>2. S \subseteq Int /\ S # {} /\ IsFiniteSet(S)
    BY <1>7, PairFinite
  <2>3. Min(S) \in S /\ \A z \in S : Min(S) <= z
    BY <2>2, MinMax
  <2> QED
    BY <1>7, <2>3
<1>9. Abstract!Min({Abstract!Remaining(ord[y]), Abstract!Max({0, Abstract!Remaining(o) - ahead})})
          = Min({Remaining(ord[y]), rest})
  BY <1>3, <1>5, <1>6, <1>7 DEF wanted
<1>10. ~(o.type = "FOK" /\ Abstract!OpenQty(ord, them) < Abstract!Remaining(o))
  BY <1>3, <1>6
<1> QED
  BY <1>1, <1>4, <1>8, <1>9, <1>10 DEF rest, wanted
\* What each order gives to the order id.
Gifts(ord, que, id) == [y \in OrderIds |-> IF y = id THEN 0 ELSE Abstract!Given(ord, que, ord[id], y)]

\* MatchedOrders by what each order gives.
LEMMA MatchedOrdersValue ==
    ASSUME NEW ord, NEW que, NEW id
    PROVE  Abstract!MatchedOrders(ord, que, id) =
               [x \in OrderIds |->
                   IF x = id
                   THEN Abstract!Leftover(Abstract!Take(ord[id], SumFunctionOnSet(Gifts(ord, que, id), OrderIds)))
                   ELSE Abstract!Take(ord[x], Gifts(ord, que, id)[x])]
<1> DEFINE given == [y \in OrderIds |-> IF y = id THEN 0 ELSE Abstract!Given(ord, que, ord[id], y)]
<1>1. given = Gifts(ord, que, id)
  BY DEF Gifts
<1>2. Abstract!SumFunction(given) = SumFunctionOnSet(given, DOMAIN given)
  BY DEF Abstract!SumFunction, Abstract!FoldFunction, Abstract!SumFunctionOnSet, SumFunctionOnSet,
         Abstract!FoldFunctionOnSet, FoldFunctionOnSet, Abstract!MapThenFoldSet, MapThenFoldSet
<1>3. DOMAIN given = OrderIds
  OBVIOUS
<1>4. Abstract!MatchedOrders(ord, que, id) =
          [x \in OrderIds |-> IF x = id THEN Abstract!Leftover(Abstract!Take(ord[id], Abstract!SumFunction(given)))
                                        ELSE Abstract!Take(ord[x], given[x])]
  BY DEF Abstract!MatchedOrders
<1> HIDE DEF given
<1> QED
  BY <1>1, <1>2, <1>3, <1>4

\* The new orders leave their queues from the head, and a LIMIT order joins one.
Rests(after, id) == after[id].type = "LIMIT" /\ ~IsDone(after[id])

\* MatchedQueue by the orders after the call.
LEMMA MatchedQueueValue ==
    ASSUME NEW ord, NEW que, NEW id, NEW after, after = Abstract!MatchedOrders(ord, que, id)
    PROVE  Abstract!MatchedQueue(ord, que, id) =
               [s \in Side |-> [p \in Prices |->
                   IF Rests(after, id) /\ s = after[id].side /\ p = after[id].price
                   THEN Append(Abstract!Unserved(que[s][p], after), id)
                   ELSE Abstract!Unserved(que[s][p], after)]]
  BY DEF Abstract!MatchedQueue, Rests, Abstract!IsDone, IsDone, Abstract!Done, Done, Abstract!Side, Side

\* make_trade's effect on an order is the abstract one.
LEMMA FilledIsTake == ASSUME NEW o, NEW qty, qty # 0 PROVE Filled(o, qty) = Abstract!Take(o, qty)
  BY DEF Filled, Abstract!Take, Abstract!Remaining, Remaining

\* An order that takes nothing stays as it is.
LEMMA TakeNothing == ASSUME NEW o PROVE Abstract!Take(o, 0) = o
  BY DEF Abstract!Take

\* An order whose quantities are any integers.
Wide == [side : Side, type : OrderType, price : Prices \cup {0}, qty : Int, filled_qty : Int, status : OrderStatus]

\* What make_trade does to the fields of an order.
LEMMA FilledWide ==
    ASSUME NEW o \in Wide, NEW n \in Int
    PROVE  LET f == Filled(o, n) IN
           /\ f \in Wide
           /\ f.side = o.side /\ f.type = o.type /\ f.price = o.price /\ f.qty = o.qty
           /\ f.filled_qty = o.filled_qty + n
           /\ f.status = IF Remaining(o) = n THEN "FILLED" ELSE "PARTIALLY_FILLED"
<1> DEFINE more == [o EXCEPT !.filled_qty = o.filled_qty + n]
           status == IF Remaining(o) = n THEN "FILLED" ELSE "PARTIALLY_FILLED"
           f == [more EXCEPT !.status = status]
<1>1. f = Filled(o, n)
  BY DEF Filled
<1>2. /\ more \in Wide /\ more.filled_qty = o.filled_qty + n /\ more.qty = o.qty
      /\ more.side = o.side /\ more.type = o.type /\ more.price = o.price
  BY DEF Wide
<1>3. status \in OrderStatus
  BY DEF OrderStatus
<1> HIDE DEF more, status
<1>4. /\ f \in Wide /\ f.filled_qty = more.filled_qty /\ f.qty = more.qty
      /\ f.side = more.side /\ f.type = more.type /\ f.price = more.price
      /\ f.status = status
  BY <1>2, <1>3 DEF Wide
<1> HIDE DEF f
<1> QED
  BY <1>1, <1>2, <1>4 DEF status

\* An order is its fields.
LEMMA SameFields ==
    ASSUME NEW f \in Wide, NEW g \in Wide, f.side = g.side, f.type = g.type, f.price = g.price,
           f.qty = g.qty, f.filled_qty = g.filled_qty, f.status = g.status
    PROVE  f = g
<1>1. f = [side |-> f.side, type |-> f.type, price |-> f.price, qty |-> f.qty,
           filled_qty |-> f.filled_qty, status |-> f.status]
  BY DEF Wide
<1>2. g = [side |-> g.side, type |-> g.type, price |-> g.price, qty |-> g.qty,
           filled_qty |-> g.filled_qty, status |-> g.status]
  BY DEF Wide
<1> QED
  BY <1>1, <1>2

\* Two trades in a row have the effect of one.
LEMMA TakeTwice ==
    ASSUME NEW o \in Order, NEW a \in Nat, NEW c \in Nat, a > 0
    PROVE  Abstract!Take(Filled(o, a), c) = Abstract!Take(o, a + c)
<1> DEFINE f == Filled(o, a)
           g == Filled(f, c)
           h == Filled(o, a + c)
<1>1. o \in Wide /\ o.filled_qty \in Int /\ o.qty \in Int
  BY MaxQtyAssumption DEF Order, Wide
<1>0. a \in Int /\ c \in Int
  OBVIOUS
<1>2. /\ f \in Wide /\ f.side = o.side /\ f.type = o.type /\ f.price = o.price /\ f.qty = o.qty
      /\ f.filled_qty = o.filled_qty + a
  BY <1>0, <1>1, FilledWide
<1> HIDE DEF f
<1>3. CASE c = 0
  <2>1. Abstract!Take(f, c) = f
    BY <1>3, TakeNothing
  <2>2. a + c = a /\ a # 0
    BY <1>3
  <2> QED
    BY <2>1, <2>2, FilledIsTake DEF f
<1>4. CASE c # 0
  <2>1. /\ g \in Wide /\ g.side = f.side /\ g.type = f.type /\ g.price = f.price /\ g.qty = f.qty
        /\ g.filled_qty = f.filled_qty + c
        /\ g.status = IF Remaining(f) = c THEN "FILLED" ELSE "PARTIALLY_FILLED"
    BY <1>0, <1>2, FilledWide
  <2>2. a + c \in Int /\ a + c # 0
    BY <1>4
  <2>3. /\ h \in Wide /\ h.side = o.side /\ h.type = o.type /\ h.price = o.price /\ h.qty = o.qty
        /\ h.filled_qty = o.filled_qty + (a + c)
        /\ h.status = IF Remaining(o) = a + c THEN "FILLED" ELSE "PARTIALLY_FILLED"
    BY <1>1, <2>2, FilledWide
  <2>4. (Remaining(f) = c) <=> (Remaining(o) = a + c)
    BY <1>1, <1>2 DEF Remaining
  <2> HIDE DEF g, h
  <2>5. g.filled_qty = h.filled_qty /\ g.status = h.status
    BY <1>1, <1>2, <2>1, <2>3, <2>4
  <2>6. g = h
    BY <1>2, <2>1, <2>3, <2>5, SameFields
  <2> QED
    BY <1>4, <2>2, <2>6, FilledIsTake DEF f, g, h
<1> QED
  BY <1>3, <1>4
-----------------------------------------------------------------------------
(* Queues served from the head.                                            *)

\* How many orders at the head are done.
Heads(q, ord) == {n \in 0 .. Len(q) : \A i \in 1 .. n : IsDone(ord[q[i]])}

\* Unserved by the heads of the queue that are done.
LEMMA UnservedValue ==
    ASSUME NEW q, NEW ord
    PROVE  Abstract!Unserved(q, ord) = SubSeq(q, Max(Heads(q, ord)) + 1, Len(q))
  BY DEF Abstract!Unserved, Heads, Abstract!IsDone, IsDone, Abstract!Done, Done, Abstract!Max, Max

\* The longest run of done orders at the head of a queue.
LEMMA HeadsMax ==
    ASSUME NEW S, NEW q \in Seq(S), NEW ord, NEW n \in 0 .. Len(q), n \in Heads(q, ord),
           \A m \in Heads(q, ord) : m <= n
    PROVE  Max(Heads(q, ord)) = n
<1>1. Len(q) \in Nat /\ 0 .. Len(q) \subseteq Int
  OBVIOUS
<1>2. Heads(q, ord) \subseteq 0 .. Len(q) /\ Heads(q, ord) # {}
  BY DEF Heads
<1>3. IsFiniteSet(0 .. Len(q))
  BY <1>1, FS_Interval
<1>4. IsFiniteSet(Heads(q, ord))
  BY <1>2, <1>3, FS_Subset
<1>5. Heads(q, ord) \subseteq Int
  BY <1>1, <1>2
<1>6. Max(Heads(q, ord)) \in Heads(q, ord) /\ \A y \in Heads(q, ord) : Max(Heads(q, ord)) >= y
  BY <1>2, <1>4, <1>5, MinMax
<1> QED
  BY <1>5, <1>6

\* A queue with an unfinished head loses nothing.
LEMMA UnservedSame ==
    ASSUME NEW S, NEW q \in Seq(S), NEW ord, q # << >> => ~IsDone(ord[q[1]])
    PROVE  Abstract!Unserved(q, ord) = q
<1>1. Len(q) \in Nat /\ 0 \in 0 .. Len(q)
  OBVIOUS
<1>2. 0 \in Heads(q, ord)
  BY <1>1 DEF Heads
<1>3. ASSUME NEW m \in Heads(q, ord) PROVE m <= 0
  <2>1. m \in 0 .. Len(q) /\ \A i \in 1 .. m : IsDone(ord[q[i]])
    BY DEF Heads
  <2>2. CASE m > 0
    <3>1. 1 \in 1 .. m /\ q # << >>
      BY <2>1, <2>2
    <3> QED
      BY <2>1, <3>1
  <2> QED
    BY <2>1, <2>2
<1>4. Max(Heads(q, ord)) = 0
  BY <1>1, <1>2, <1>3, HeadsMax
<1>5. SubSeq(q, 1, Len(q)) = q
  OBVIOUS
<1> QED
  BY <1>4, <1>5, UnservedValue

\* A done head may as well have left before.
LEMMA UnservedTail ==
    ASSUME NEW S, NEW q \in Seq(S), NEW ord, q # << >>, IsDone(ord[q[1]])
    PROVE  Abstract!Unserved(q, ord) = Abstract!Unserved(Tail(q), ord)
<1> DEFINE r == Tail(q)
           H == Heads(q, ord)
           T == Heads(r, ord)
           m == Max(T)
<1>1. /\ Len(q) \in Nat /\ Len(q) > 0 /\ Len(r) = Len(q) - 1 /\ r \in Seq(S)
      /\ \A i \in 1 .. Len(q) - 1 : r[i] = q[i + 1]
  OBVIOUS
<1>2. m \in T /\ \A y \in T : m >= y
  <2>1. T \subseteq 0 .. Len(r) /\ 0 \in T
    BY <1>1 DEF Heads
  <2>2. IsFiniteSet(0 .. Len(r)) /\ 0 .. Len(r) \subseteq Int
    BY <1>1, FS_Interval
  <2>3. IsFiniteSet(T) /\ T \subseteq Int /\ T # {}
    BY <2>1, <2>2, FS_Subset
  <2> HIDE DEF T
  <2> QED
    BY <2>3, MinMax
<1>3. m \in 0 .. Len(r) /\ \A i \in 1 .. m : IsDone(ord[r[i]])
  BY <1>2 DEF Heads
<1> HIDE DEF m
<1>4. m + 1 \in 0 .. Len(q) /\ m + 1 \in H
  <2>1. m + 1 \in 0 .. Len(q)
    BY <1>1, <1>3
  <2>2. ASSUME NEW i \in 1 .. m + 1 PROVE IsDone(ord[q[i]])
    <3>1. CASE i = 1
      BY <3>1
    <3>2. CASE i # 1
      <4>1. i - 1 \in 1 .. m /\ i - 1 \in 1 .. Len(q) - 1 /\ i - 1 + 1 = i
        BY <1>1, <1>3, <3>2
      <4>2. r[i - 1] = q[i]
        BY <1>1, <4>1
      <4> QED
        BY <1>3, <4>1, <4>2
    <3> QED
      BY <3>1, <3>2
  <2> QED
    BY <2>1, <2>2 DEF Heads
<1>5. ASSUME NEW n \in H PROVE n <= m + 1
  <2>1. n \in 0 .. Len(q) /\ \A i \in 1 .. n : IsDone(ord[q[i]])
    BY DEF Heads
  <2>2. CASE n > 0
    <3>1. n - 1 \in 0 .. Len(r)
      BY <1>1, <2>1, <2>2
    <3>2. ASSUME NEW i \in 1 .. n - 1 PROVE IsDone(ord[r[i]])
      <4>1. i \in 1 .. Len(q) - 1 /\ i + 1 \in 1 .. n
        BY <1>1, <2>1
      <4> QED
        BY <1>1, <2>1, <4>1
    <3>3. n - 1 \in T
      BY <3>1, <3>2 DEF Heads
    <3>4. m >= n - 1
      BY <1>2, <3>3
    <3> QED
      BY <1>3, <2>1, <3>4
  <2>3. CASE ~(n > 0)
    BY <1>3, <2>1, <2>3
  <2> QED
    BY <2>2, <2>3
<1> HIDE DEF H, T
<1>6. Max(H) = m + 1
  BY <1>4, <1>5, HeadsMax DEF H
<1>7. SubSeq(q, m + 2, Len(q)) = SubSeq(r, m + 1, Len(r))
  <2> DEFINE u == SubSeq(q, m + 2, Len(q))
             v == SubSeq(r, m + 1, Len(r))
             n == Len(q) - 1 - m
  <2>1. n \in Nat /\ m \in Nat
    BY <1>1, <1>3
  <2>2. u \in Seq(S) /\ Len(u) = n /\ \A i \in 1 .. n : u[i] = q[i + m + 1]
    <3>1. m + 2 \in 1 .. Len(q) + 1
      BY <1>1, <1>3
    <3>2. u \in Seq(S)
      BY <1>1, <3>1
    <3>3. Len(u) = n
      <4>1. Len(u) = Len(q) - (m + 2) + 1
        BY <1>1, <3>1
      <4>2. Len(q) - (m + 2) + 1 = n
        BY <1>1, <1>3
      <4> QED
        BY <4>1, <4>2
    <3>4. \A i \in 1 .. n : u[i] = q[i + m + 1]
      BY <1>1, <2>1, <3>1
    <3> QED
      BY <3>2, <3>3, <3>4
  <2>3. v \in Seq(S) /\ Len(v) = n /\ \A i \in 1 .. n : v[i] = r[i + m]
    <3>1. m + 1 \in 1 .. Len(r) + 1
      BY <1>1, <1>3
    <3>2. v \in Seq(S)
      BY <1>1, <3>1
    <3>3. Len(v) = n
      <4>1. Len(v) = Len(r) - (m + 1) + 1
        BY <1>1, <3>1
      <4>2. Len(r) - (m + 1) + 1 = n
        BY <1>1, <1>3
      <4> QED
        BY <4>1, <4>2
    <3>4. \A i \in 1 .. n : v[i] = r[i + m]
      BY <1>1, <2>1, <3>1
    <3> QED
      BY <3>2, <3>3, <3>4
  <2>4. \A i \in 1 .. n : i + m \in 1 .. Len(q) - 1 /\ (i + m) + 1 = i + m + 1
    BY <1>1, <1>3
  <2>5. \A i \in 1 .. n : r[i + m] = q[i + m + 1]
    BY <1>1, <2>4
  <2> HIDE DEF u, v, n
  <2>6. \A i \in 1 .. n : u[i] = v[i]
    BY <2>2, <2>3, <2>5
  <2>7. u = v
    BY <2>1, <2>2, <2>3, <2>6
  <2> QED
    BY <2>7 DEF u, v
<1>8. m + 1 + 1 = m + 2
  BY <1>3
<1> QED
  BY <1>6, <1>7, <1>8, UnservedValue DEF H, m, T
-----------------------------------------------------------------------------
(* The queues of a well-formed book.                                       *)

\* The orders of idx stand in line once, each at its own side and price, and are open.
Lined(que, ord, idx) ==
    /\ \A s \in Side : \A p \in Prices : que[s][p] \in Seq(OrderIds)
    /\ \A s \in Side : \A p \in Prices : \A i \in DOMAIN que[s][p] :
          que[s][p][i] \in idx /\ Open(ord[que[s][p][i]], s, p)
    /\ \A s \in Side : \A p \in Prices : \A i, j \in DOMAIN que[s][p] :
          que[s][p][i] = que[s][p][j] => i = j
    /\ \A id \in idx :
          /\ ord[id].side \in Side /\ ord[id].price \in Prices
          /\ \E i \in DOMAIN que[ord[id].side][ord[id].price] : que[ord[id].side][ord[id].price][i] = id

\* The queues of a well-formed book are such lines.
LEMMA LinedUp ==
    ASSUME NEW b, BookType(b), NEW ord, NEW idx, WellFormed(b, ord, idx),
           \A id \in idx : ord[id].side \in Side
    PROVE  Lined(QueuesOf(b), ord, idx)
<1> DEFINE que == QueuesOf(b)
<1>1. \A s \in Side : \A p \in Prices : que[s][p] = IF p \in DOMAIN b[s] THEN b[s][p].orders ELSE << >>
  BY DEF QueuesOf
<1>2. \A s \in Side : \A p \in DOMAIN b[s] : p \in Prices /\ que[s][p] = Queue(b, s, p)
  BY <1>1 DEF BookType, Queue
<1>3. \A s \in Side : \A p \in Prices : p \notin DOMAIN b[s] => que[s][p] = << >>
  BY <1>1
<1> HIDE DEF que
<1>4. DOMAIN << >> = {} /\ << >> \in Seq(OrderIds)
  OBVIOUS
<1>5. \A s \in Side : \A p \in DOMAIN b[s] : Queue(b, s, p) \in Seq(OrderIds)
  BY DEF BookType, Level, Queue
<1>6. \A s \in Side : \A p \in Prices : que[s][p] \in Seq(OrderIds)
  BY <1>2, <1>3, <1>4, <1>5
<1>7. ASSUME NEW s \in Side, NEW p \in Prices, NEW i \in DOMAIN que[s][p]
      PROVE  p \in DOMAIN b[s] /\ i \in DOMAIN Queue(b, s, p) /\ que[s][p] = Queue(b, s, p)
  BY <1>2, <1>3, <1>4
<1>8. ASSUME NEW id \in idx
      PROVE  /\ ord[id].side \in Side /\ ord[id].price \in Prices
             /\ \E i \in DOMAIN que[ord[id].side][ord[id].price] : que[ord[id].side][ord[id].price][i] = id
  <2>1. ord[id].price \in DOMAIN b[ord[id].side] /\ ord[id].side \in Side
    BY DEF WellFormed
  <2>2. ord[id].price \in Prices /\ que[ord[id].side][ord[id].price] = Queue(b, ord[id].side, ord[id].price)
    BY <1>2, <2>1
  <2> QED
    BY <2>1, <2>2 DEF WellFormed
<1>9. ASSUME NEW s \in Side, NEW p \in Prices, NEW i \in DOMAIN que[s][p]
      PROVE  que[s][p][i] \in idx /\ Open(ord[que[s][p][i]], s, p)
  BY <1>7 DEF WellFormed
<1>10. ASSUME NEW s \in Side, NEW p \in Prices, NEW i \in DOMAIN que[s][p], NEW j \in DOMAIN que[s][p],
              que[s][p][i] = que[s][p][j]
       PROVE  i = j
  BY <1>7, <1>10 DEF WellFormed
<1>11. Lined(que, ord, idx)
  BY <1>6, <1>8, <1>9, <1>10 DEF Lined
<1> QED
  BY <1>11 DEF que

\* What SetLevel does to the queues: one of them is replaced.
LEMMA QueuesSet ==
    ASSUME NEW b, BookType(b), NEW s \in Side, NEW p \in Prices, NEW level \in Level
    PROVE  QueuesOf(SetLevel(b, s, p, level)) =
               [t \in Side |-> [q \in Prices |->
                   IF t = s /\ q = p THEN level.orders ELSE QueuesOf(b)[t][q]]]
<1> DEFINE c == SetLevel(b, s, p, level)
<1>1. Replaced(b, s, p, level, c)
  BY SetLevelReplaces
<1> HIDE DEF c
<1>2. ASSUME NEW t \in Side, NEW q \in Prices
      PROVE  QueuesOf(c)[t][q] = IF t = s /\ q = p THEN level.orders ELSE QueuesOf(b)[t][q]
  <2>1. /\ QueuesOf(c)[t][q] = IF q \in DOMAIN c[t] THEN c[t][q].orders ELSE << >>
        /\ QueuesOf(b)[t][q] = IF q \in DOMAIN b[t] THEN b[t][q].orders ELSE << >>
    BY DEF QueuesOf
  <2>2. CASE t # s
    BY <1>1, <2>1, <2>2 DEF Replaced
  <2>3. CASE t = s /\ level.orders = << >>
    BY <1>1, <2>1, <2>3 DEF Replaced
  <2>4. CASE t = s /\ level.orders # << >>
    BY <1>1, <2>1, <2>4 DEF Replaced
  <2> QED
    BY <2>2, <2>3, <2>4
<1>3. QueuesOf(c) = [t \in Side |-> [q \in Prices |-> QueuesOf(c)[t][q]]]
  BY DEF QueuesOf
<1> HIDE DEF QueuesOf
<1> QED
  BY <1>2, <1>3 DEF c

\* The counterparties of o, by their side and price.
LEMMA OthersByPrice ==
    ASSUME NEW que, NEW ord, NEW idx, Lined(que, ord, idx), NEW o, o.side \in Side
    PROVE  Others(que, o) = {x \in idx : ord[x].side = Opposite(o.side) /\ Reached(o, ord[x].price)}
<1> DEFINE s == Opposite(o.side)
           them == {x \in idx : ord[x].side = s /\ Reached(o, ord[x].price)}
<1>1. s \in Side
  BY DEF Opposite, Side
<1>2. ASSUME NEW x \in Others(que, o) PROVE x \in them
  <2>1. PICK p \in Prices : Reached(o, p) /\ x \in ToSet(que[s][p])
    BY DEF Others
  <2>2. PICK i \in DOMAIN que[s][p] : que[s][p][i] = x
    BY <2>1 DEF ToSet
  <2>3. x \in idx /\ Open(ord[x], s, p)
    BY <1>1, <2>2 DEF Lined
  <2> QED
    BY <2>1, <2>3 DEF Open
<1>3. ASSUME NEW x \in them PROVE x \in Others(que, o)
  <2>1. x \in idx /\ ord[x].side = s /\ Reached(o, ord[x].price)
    OBVIOUS
  <2>2. ord[x].price \in Prices /\ \E i \in DOMAIN que[s][ord[x].price] : que[s][ord[x].price][i] = x
    BY <2>1 DEF Lined
  <2>3. x \in ToSet(que[s][ord[x].price])
    BY <2>2 DEF ToSet
  <2> QED
    BY <2>1, <2>2, <2>3 DEF Others
<1> QED
  BY <1>2, <1>3

\* What orders have left together, when one of them trades qty, and may leave if nothing is left.
LEMMA LeftLowered ==
    ASSUME NEW ord, NEW new, NEW S, IsFiniteSet(S), \A x \in S : Remaining(ord[x]) \in Int,
           NEW r \in S, NEW qty \in Int, Remaining(new[r]) = Remaining(ord[r]) - qty,
           \A x \in S \ {r} : Remaining(new[x]) = Remaining(ord[x]),
           NEW T, T = S \/ (T = S \ {r} /\ Remaining(new[r]) = 0)
    PROVE  Left(new, T) = Left(ord, S) - qty /\ Left(ord, S) \in Int
<1>1. IsFiniteSet(S \ {r})
  BY FS_RemoveElement
<1>2. Left(ord, S \ {r}) = Left(ord, S) - Remaining(ord[r]) /\ Left(ord, S) \in Int
  BY LeftRemove
<1>3. Left(new, S \ {r}) = Left(ord, S \ {r})
  BY <1>1, LeftSame
<1>4. \A x \in S : Remaining(new[x]) \in Int
  OBVIOUS
<1>5. Left(new, S \ {r}) = Left(new, S) - Remaining(new[r]) /\ Left(new, S) \in Int
  BY <1>4, LeftRemove
<1> QED
  BY <1>2, <1>3, <1>5
-----------------------------------------------------------------------------
(* A trade.                                                                *)

\* What one Fill does: rid, at the front of the best opposite level p, trades qty with
\* the incoming order, as much as the two can, and leaves its queue if it is filled.
Trade(p, rid, qty, level) ==
    LET o == order[incoming]
        s == Opposite(o.side)
        q == Queue(book, s, p)
    IN  /\ incoming \in OrderIds /\ incoming \notin orders /\ incoming # NoOrder /\ incoming' = incoming
        /\ s \in Side /\ p \in DOMAIN book[s] /\ IsBest(s, p) /\ MayTakeLevel(o, p) /\ Remaining(o) > 0
        /\ q # << >> /\ rid = q[1] /\ rid \in orders /\ rid \in OrderIds /\ rid # incoming
        /\ qty \in Nat /\ qty > 0 /\ qty = FillQty(o, order[rid])
        /\ order' = [x \in OrderIds |-> IF x = incoming THEN Filled(o, qty)
                                        ELSE IF x = rid THEN Filled(order[rid], qty) ELSE order[x]]
        /\ book' = SetLevel(book, s, p, level) /\ level \in Level
        /\ \/ /\ Remaining(order[rid]) = qty /\ IsDone(Filled(order[rid], qty))
              /\ level.orders = Tail(q) /\ orders' = orders \ {rid}
           \/ /\ Remaining(order[rid]) > qty
              /\ level.orders = q /\ orders' = orders

\* An iteration of the loop is a trade of the incoming order with the first in line.
LEMMA FillTrades ==
    ASSUME IInv, Fill
    PROVE  \E p, rid, qty, level : Trade(p, rid, qty, level)
<1> DEFINE o == order[incoming]
           s == Opposite(o.side)
<1>1. PICK p \in DOMAIN book[s] : CanFillAt(p) /\ FillAt(p)
  BY DEF Fill
<1> DEFINE old == book[s][p]
           rid == Head(old.orders)
           qty == FillQty(o, order[rid])
           taken == Filled(o, qty)
           resting == Filled(order[rid], qty)
           level == [orders |-> IF IsDone(resting) THEN Tail(old.orders) ELSE old.orders,
                     total_qty |-> old.total_qty - qty]
<1>2. /\ incoming # NoOrder /\ incoming' = incoming /\ Remaining(o) > 0 /\ IsBest(s, p) /\ MayTakeLevel(o, p)
  BY <1>1 DEF Fill, CanFillAt
<1>3. /\ order' = [order EXCEPT ![incoming] = taken, ![rid] = resting]
      /\ book' = SetLevel(book, s, p, level)
      /\ orders' = IF IsDone(resting) THEN orders \ {rid} ELSE orders
  BY <1>1 DEF FillAt
<1>4. incoming \in OrderIds /\ incoming \notin orders /\ o \in Order /\ s \in Side
  BY <1>2, InvFacts DEF IInv, IncomingApart, Opposite, Side
<1>5. /\ old \in Level /\ old.orders \in Seq(OrderIds) /\ old.orders # << >>
      /\ old.orders = Queue(book, s, p) /\ old.total_qty \in Int
  BY <1>4, InvFacts DEF BookType, Level, WellFormed, Queue
<1>6. 1 \in DOMAIN old.orders /\ rid = old.orders[1] /\ Tail(old.orders) \in Seq(OrderIds)
  BY <1>5
<1>7. rid \in orders /\ Open(order[rid], s, p)
  BY <1>4, <1>5, <1>6, InvFacts DEF WellFormed
<1>8. rid \in OrderIds /\ order[rid] \in Order /\ rid # incoming /\ order \in [OrderIds -> Order]
  BY <1>4, <1>7, InvFacts DEF IInv, TypeOK
<1> HIDE DEF o, s, old, rid
<1>9. /\ qty \in Nat /\ qty > 0 /\ qty <= Remaining(o) /\ qty <= Remaining(order[rid])
      /\ Remaining(order[rid]) \in Int
  BY <1>2, <1>4, <1>7, <1>8 DEF FillQty, Open, Remaining, Order
<1>10. Agrees(order[rid])
  BY <1>8 DEF IInv, StatusAgrees
<1>11. FillQty(o, order[rid]) = qty
  OBVIOUS
<1> HIDE DEF qty
<1>12. /\ resting.status \in {"FILLED", "PARTIALLY_FILLED"}
       /\ resting.status = "FILLED" <=> Remaining(resting) = 0
       /\ Remaining(resting) = Remaining(order[rid]) - qty
  BY <1>8, <1>9, <1>10, FilledValue, FilledLeft
<1>13. IsDone(resting) <=> Remaining(order[rid]) = qty
  BY <1>9, <1>12 DEF IsDone, Done
<1> HIDE DEF taken, resting
<1>14. order' = [x \in OrderIds |-> IF x = incoming THEN taken ELSE IF x = rid THEN resting ELSE order[x]]
  BY <1>3, <1>4, <1>8
<1>15. level \in Level
  <2>1. old.total_qty - qty \in Int
    BY <1>5, <1>9
  <2> QED
    BY <1>5, <1>6, <2>1 DEF Level
<1>16. level.orders = IF IsDone(resting) THEN Tail(old.orders) ELSE old.orders
  OBVIOUS
<1> HIDE DEF level
<1>17. \/ /\ Remaining(order[rid]) = qty /\ IsDone(resting)
          /\ level.orders = Tail(old.orders) /\ orders' = orders \ {rid}
       \/ /\ Remaining(order[rid]) > qty
          /\ level.orders = old.orders /\ orders' = orders
  <2>1. Remaining(order[rid]) # qty => Remaining(order[rid]) > qty
    BY <1>9
  <2> QED
    BY <1>3, <1>13, <1>16, <2>1
<1>18. Trade(p, rid, qty, level)
  BY <1>1, <1>2, <1>3, <1>4, <1>5, <1>6, <1>7, <1>8, <1>9, <1>11, <1>14, <1>15, <1>17
     DEF Trade, o, s, taken, resting
<1> QED
  BY <1>18
\* What the step proofs use of the invariant, in the next state.
LEMMA NextFacts ==
    ASSUME IInv'
    PROVE  /\ BookType(book') /\ WellFormed(book', order', orders') /\ orders' \subseteq OrderIds
           /\ \A id \in OrderIds : order'[id] \in Order /\ order'[id].side \in Side
                                   /\ Remaining(order'[id]) \in Nat
<1>1. TypeOK' /\ BookWellFormed' /\ StatusAgrees'
  BY DEF IInv
<1>2. BookType(book') /\ orders' \subseteq OrderIds /\ order' \in [OrderIds -> Order]
  BY <1>1 DEF TypeOK, BookType
<1>3. WellFormed(book', order', orders')
  BY <1>1 DEF BookWellFormed, NoEmptyLevel, QueuedAreOpen, QueuesDistinct, IndexedAreQueued,
              WellFormed, Open, Queue
<1>4. ASSUME NEW id \in OrderIds
      PROVE  order'[id] \in Order /\ order'[id].side \in Side /\ Remaining(order'[id]) \in Nat
  <2>1. order'[id] \in Order /\ order'[id].filled_qty <= order'[id].qty
    BY <1>1, <1>2 DEF StatusAgrees, Agrees
  <2> QED
    BY <2>1, MaxQtyAssumption DEF Order, Remaining
<1> QED
  BY <1>2, <1>3, <1>4

\* A trade changes what is filled, and nothing that decides who is served when.
LEMMA TradeKeeps ==
    ASSUME IInv, NEW p, NEW rid, NEW qty, NEW level, Trade(p, rid, qty, level)
    PROVE  /\ \A x \in OrderIds : /\ order'[x].side = order[x].side /\ order'[x].type = order[x].type
                                  /\ order'[x].price = order[x].price
           /\ Remaining(order'[incoming]) = Remaining(order[incoming]) - qty
           /\ Remaining(order'[rid]) = Remaining(order[rid]) - qty
           /\ order'[incoming] = Filled(order[incoming], qty) /\ order'[rid] = Filled(order[rid], qty)
           /\ \A x \in OrderIds : x # incoming /\ x # rid => order'[x] = order[x]
<1>1. /\ incoming \in OrderIds /\ rid \in OrderIds /\ rid # incoming /\ qty \in Int
      /\ order' = [x \in OrderIds |-> IF x = incoming THEN Filled(order[incoming], qty)
                                      ELSE IF x = rid THEN Filled(order[rid], qty) ELSE order[x]]
  BY DEF Trade
<1>2. order'[incoming] = Filled(order[incoming], qty) /\ order'[rid] = Filled(order[rid], qty)
  BY <1>1
<1>3. \A x \in OrderIds : x # incoming /\ x # rid => order'[x] = order[x]
  BY <1>1
<1>4. ASSUME NEW o \in Order
      PROVE  LET f == Filled(o, qty) IN
             f.side = o.side /\ f.type = o.type /\ f.price = o.price /\ Remaining(f) = Remaining(o) - qty
  <2>1. o \in Wide
    BY MaxQtyAssumption DEF Order, Wide
  <2> QED
    BY <1>1, <2>1, FilledWide, FilledLeft
<1>5. order[incoming] \in Order /\ order[rid] \in Order
  BY <1>1, InvFacts
<1>6. /\ \A x \in {incoming, rid} : /\ order'[x].side = order[x].side /\ order'[x].type = order[x].type
                                    /\ order'[x].price = order[x].price
                                    /\ Remaining(order'[x]) = Remaining(order[x]) - qty
  BY <1>2, <1>4, <1>5
<1> QED
  BY <1>2, <1>3, <1>6

\* The lines now and after a step.
LEMMA LinesNow == ASSUME IInv PROVE Lined(QueuesOf(book), order, orders)
  BY InvFacts, LinedUp

\* The same after a step.
LEMMA LinesNext == ASSUME IInv' PROVE Lined(QueuesOf(book'), order', orders')
<1>1. BookType(book') /\ WellFormed(book', order', orders')
  BY NextFacts
<1>2. \A id \in orders' : order'[id].side \in Side
  BY NextFacts
<1> QED
  BY <1>1, <1>2, LinedUp

\* o is no FOK, or is met by what is on offer.
Met(ord, que, o) == o.type = "FOK" => ~(Left(ord, Others(que, o)) < Remaining(o))

\* The level of a trade is within the limit of the incoming order.
LEMMA BestIsReached ==
    ASSUME IInv, NEW p, NEW rid, NEW qty, NEW level, Trade(p, rid, qty, level),
           Met(order, QueuesOf(book), order[incoming])
    PROVE  Reached(order[incoming], p)
<1> DEFINE o == order[incoming]
           s == Opposite(o.side)
           them == Others(QueuesOf(book), o)
<1>1. /\ incoming \in OrderIds /\ incoming # NoOrder /\ s \in Side /\ p \in DOMAIN book[s] /\ IsBest(s, p)
      /\ MayTakeLevel(o, p) /\ Remaining(o) > 0
  BY DEF Trade
<1>2. o \in Order /\ o.side \in Side /\ o.type \in OrderType
  BY <1>1, InvFacts DEF Order
<1>3. CASE o.type # "FOK"
  BY <1>1, <1>2, <1>3 DEF Reached, MayTakeLevel, OrderType
<1>4. CASE o.type = "FOK"
  <2>1. them # {}
    <3>1. ASSUME them = {} PROVE Left(order, them) = 0
      BY <3>1, LeftEmpty
    <3> QED
      BY <1>1, <1>4, <3>1 DEF Met
  <2>2. PICK x \in orders : order[x].side = s /\ Reached(o, order[x].price)
    <3>1. them = {x \in orders : order[x].side = s /\ Reached(o, order[x].price)}
      BY <1>2, LinesNow, OthersByPrice
    <3> QED
      BY <2>1, <3>1
  <2>3. order[x].price \in DOMAIN book[s]
    BY <2>2, InvFacts DEF WellFormed
  <2>4. ~Better(s, order[x].price, p)
    BY <1>1, <2>3 DEF IsBest
  <2>5. order[x].price \in Int /\ p \in Int
    BY <1>1, <2>3, InvFacts, PricesAssumption DEF BookType
  <2>6. o.price \in Int
    <3>1. o.price \in Prices
      BY <1>1, <1>4 DEF IInv, IncomingApart
    <3> QED
      BY <3>1, PricesAssumption
  <2>7. Reaches(o.side, o.price, order[x].price)
    BY <1>4, <2>2 DEF Reached
  <2> HIDE DEF o
  <2>8. Reaches(o.side, o.price, p)
    BY <1>2, <2>4, <2>5, <2>6, <2>7 DEF Better, Reaches, Opposite, Side
  <2> QED
    BY <2>8 DEF Reached, o
<1> QED
  BY <1>3, <1>4
\* The order that trades is first in line.
LEMMA FirstInLine ==
    ASSUME IInv, NEW p, NEW rid, NEW qty, NEW level, Trade(p, rid, qty, level),
           Reached(order[incoming], p)
    PROVE  LET them == Others(QueuesOf(book), order[incoming]) IN
           /\ rid \in them
           /\ \A y \in them : /\ y # rid => Before(order, QueuesOf(book), rid, y)
                              /\ ~Before(order, QueuesOf(book), y, rid)
<1> DEFINE o == order[incoming]
           s == Opposite(o.side)
           que == QueuesOf(book)
           them == Others(que, o)
<1>1. /\ incoming \in OrderIds /\ s \in Side /\ p \in DOMAIN book[s] /\ IsBest(s, p)
      /\ rid \in orders /\ Queue(book, s, p) # << >> /\ rid = Queue(book, s, p)[1]
  BY DEF Trade
<1>2. Lined(que, order, orders) /\ BookType(book) /\ WellFormed(book, order, orders)
  BY LinesNow, InvFacts
<1>3. p \in Prices /\ que[s][p] = Queue(book, s, p)
  BY <1>1, <1>2 DEF QueuesOf, BookType, Queue
<1>4. order[incoming].side \in Side
  BY <1>1, InvFacts
<1>5. them = {x \in orders : order[x].side = s /\ Reached(o, order[x].price)}
  BY <1>2, <1>4, OthersByPrice
<1>6. que[s][p] \in Seq(OrderIds) /\ 1 \in DOMAIN que[s][p] /\ que[s][p][1] = rid
  BY <1>1, <1>2, <1>3 DEF Lined
<1>7. order[rid].side = s /\ order[rid].price = p
  BY <1>1, <1>2, <1>3, <1>6 DEF Lined, Open
<1>8. rid \in them
  BY <1>1, <1>5, <1>7
<1> HIDE DEF que, them, o
<1>9. ASSUME NEW y \in them
      PROVE  (y # rid => Before(order, que, rid, y)) /\ ~Before(order, que, y, rid)
  <2>1. y \in orders /\ order[y].side = s /\ order[y].price \in Prices
    BY <1>2, <1>5 DEF Lined
  <2>2. order[y].price \in DOMAIN book[s]
    BY <1>2, <2>1 DEF WellFormed
  <2>3. ~Better(s, order[y].price, p)
    BY <1>1, <2>2 DEF IsBest
  <2>4. order[y].price \in Int /\ p \in Int
    BY <1>3, <2>1, PricesAssumption
  <2>5. PICK j \in DOMAIN que[s][order[y].price] : que[s][order[y].price][j] = y
    BY <1>2, <2>1 DEF Lined
  <2>6. CASE order[y].price # p
    BY <1>1, <1>7, <2>1, <2>3, <2>4, <2>6 DEF Before, Better, Side
  <2>7. CASE order[y].price = p
    <3>1. j \in DOMAIN que[s][p] /\ que[s][p][j] = y /\ j \in Nat /\ j >= 1
      BY <1>6, <2>5, <2>7
    <3>2. \A i, k \in DOMAIN que[s][p] : que[s][p][i] = que[s][p][k] => i = k
      BY <1>1, <1>2, <1>3 DEF Lined
    <3>3. ASSUME y # rid PROVE Before(order, que, rid, y)
      <4>1. 1 < j
        BY <1>6, <3>1, <3>3
      <4> QED
        BY <1>6, <1>7, <2>7, <3>1, <4>1 DEF Before
    <3>4. ASSUME Before(order, que, y, rid) PROVE FALSE
      <4>1. ~Better(s, p, p)
        BY <1>1, <2>4 DEF Better, Side
      <4>2. PICK i, k \in DOMAIN que[s][p] : i < k /\ que[s][p][i] = y /\ que[s][p][k] = rid
        BY <1>7, <2>1, <2>7, <3>4, <4>1 DEF Before
      <4>3. k = 1
        BY <1>6, <3>2, <4>2
      <4>4. i \in Nat /\ i >= 1
        BY <1>6, <4>2
      <4> QED
        BY <4>2, <4>3, <4>4
    <3> QED
      BY <3>3, <3>4
  <2> QED
    BY <2>6, <2>7
<1> QED
  BY <1>8, <1>9 DEF o, que, them

\* After a trade the counterparties are those before, but for rid if it is filled,
\* and they stand in line in the same way.
LEMMA LineAfter ==
    ASSUME IInv, IInv', NEW p, NEW rid, NEW qty, NEW level, Trade(p, rid, qty, level)
    PROVE  LET them == Others(QueuesOf(book), order[incoming])
               left == Others(QueuesOf(book'), order'[incoming])
           IN  /\ \/ left = them /\ Remaining(order[rid]) > qty
                  \/ left = them \ {rid} /\ Remaining(order[rid]) = qty
               /\ \A x, y \in left :
                     Before(order', QueuesOf(book'), x, y) <=> Before(order, QueuesOf(book), x, y)
<1> DEFINE o == order[incoming]
           o2 == order'[incoming]
           s == Opposite(o.side)
           q == Queue(book, s, p)
           que == QueuesOf(book)
           que2 == QueuesOf(book')
           them == Others(que, o)
           left == Others(que2, o2)
<1>1. /\ incoming \in OrderIds /\ s \in Side /\ p \in DOMAIN book[s]
      /\ rid \in orders /\ q # << >> /\ rid = q[1] /\ rid \in OrderIds
      /\ book' = SetLevel(book, s, p, level) /\ level \in Level
      /\ \/ /\ Remaining(order[rid]) = qty
            /\ level.orders = Tail(q) /\ orders' = orders \ {rid}
         \/ /\ Remaining(order[rid]) > qty
            /\ level.orders = q /\ orders' = orders
  BY DEF Trade
<1>2. /\ Lined(que, order, orders) /\ Lined(que2, order', orders') /\ BookType(book) /\ orders \subseteq OrderIds
      /\ WellFormed(book, order, orders)
  BY LinesNow, LinesNext, InvFacts
<1>3. p \in Prices /\ que[s][p] = q /\ q \in Seq(OrderIds)
  <2>1. p \in Prices
    BY <1>1, <1>2 DEF BookType
  <2>2. s \in Side /\ p \in DOMAIN book[s]
    BY <1>1
  <2>3. que[s][p] = q
    BY <2>1, <2>2 DEF QueuesOf, Queue
  <2> QED
    BY <1>2, <2>1, <2>2, <2>3 DEF Lined
<1>4. \A x \in OrderIds : /\ order'[x].side = order[x].side /\ order'[x].type = order[x].type
                          /\ order'[x].price = order[x].price
  BY TradeKeeps
<1>5. o.side \in Side /\ o2.side = o.side /\ o2.type = o.type /\ o2.price = o.price
  BY <1>1, <1>4, InvFacts
<1>6. them = {x \in orders : order[x].side = s /\ Reached(o, order[x].price)}
  BY <1>2, <1>5, OthersByPrice
<1>7. left = {x \in orders' : order'[x].side = s /\ Reached(o2, order'[x].price)}
  BY <1>2, <1>5, OthersByPrice
<1>8. \A z : Reached(o2, z) <=> Reached(o, z)
  BY <1>5 DEF Reached
<1>9. orders' \subseteq OrderIds
  BY NextFacts
<1> HIDE DEF o, o2, s, q, them, left
<1>10. left = {x \in orders' : order[x].side = s /\ Reached(o, order[x].price)}
  BY <1>4, <1>7, <1>8, <1>9
<1>11. \/ left = them /\ Remaining(order[rid]) > qty
       \/ left = them \ {rid} /\ Remaining(order[rid]) = qty
  BY <1>1, <1>6, <1>10
<1>12. \A t \in Side : \A r \in Prices : que2[t][r] = IF t = s /\ r = p THEN level.orders ELSE que[t][r]
  BY <1>1, <1>2, <1>3, QueuesSet
<1> HIDE DEF que, que2
<1>13. ASSUME NEW x \in left, NEW y \in left
       PROVE  Before(order', que2, x, y) <=> Before(order, que, x, y)
  <2>1. /\ x \in orders' /\ y \in orders' /\ x \in OrderIds /\ y \in OrderIds
        /\ order[x].side = s /\ order[x].price \in Prices
    <3>1. x \in orders' /\ y \in orders' /\ x \in orders /\ order[x].side = s
      BY <1>1, <1>10
    <3> QED
      BY <1>2, <3>1 DEF Lined
  <2> DEFINE r == order[x].price
  <2>2. order'[x].side = s /\ order'[x].price = r /\ order'[y].price = order[y].price /\ order[x].side = s
    BY <1>4, <2>1
  <2>3. (\E i, j \in DOMAIN que2[s][r] : i < j /\ que2[s][r][i] = x /\ que2[s][r][j] = y)
            <=> (\E i, j \in DOMAIN que[s][r] : i < j /\ que[s][r][i] = x /\ que[s][r][j] = y)
    <3>1. CASE r # p \/ level.orders = q
      <4>1. que2[s][r] = que[s][r]
        BY <1>1, <1>3, <1>12, <2>1, <3>1
      <4> QED
        BY <4>1
    <3>2. CASE r = p /\ level.orders = Tail(q) /\ orders' = orders \ {rid}
      <4> DEFINE t == Tail(q)
      <4>1. que2[s][r] = t /\ que[s][r] = q /\ x # rid /\ y # rid
        BY <1>1, <1>3, <1>12, <2>1, <3>2
      <4>2. /\ Len(q) \in Nat /\ DOMAIN q = 1 .. Len(q) /\ DOMAIN t = 1 .. Len(q) - 1
            /\ \A i \in 1 .. Len(q) - 1 : t[i] = q[i + 1]
        BY <1>1, <1>3
      <4> HIDE DEF t
      <4>3. ASSUME NEW i \in DOMAIN t, NEW j \in DOMAIN t, i < j, t[i] = x, t[j] = y
            PROVE  \E k, l \in DOMAIN q : k < l /\ q[k] = x /\ q[l] = y
        <5>1. i + 1 \in DOMAIN q /\ j + 1 \in DOMAIN q /\ i + 1 < j + 1 /\ q[i + 1] = x /\ q[j + 1] = y
          BY <4>2, <4>3
        <5> QED
          BY <5>1
      <4>4. ASSUME NEW i \in DOMAIN q, NEW j \in DOMAIN q, i < j, q[i] = x, q[j] = y
            PROVE  \E k, l \in DOMAIN t : k < l /\ t[k] = x /\ t[l] = y
        <5>1. i # 1 /\ j # 1
          BY <1>1, <4>1, <4>4
        <5>2. /\ i - 1 \in 1 .. Len(q) - 1 /\ j - 1 \in 1 .. Len(q) - 1 /\ i - 1 < j - 1
              /\ i - 1 + 1 = i /\ j - 1 + 1 = j
          BY <4>2, <4>4, <5>1
        <5>3. t[i - 1] = x /\ t[j - 1] = y
          BY <4>2, <4>4, <5>2
        <5> QED
          BY <4>2, <5>2, <5>3
      <4> QED
        BY <4>1, <4>3, <4>4
    <3> QED
      BY <1>1, <3>1, <3>2
  <2> QED
    BY <2>2, <2>3 DEF Before
<1> QED
  BY <1>11, <1>13 DEF o, o2, que, que2, them, left
\* What orders have left together is a natural number.
LEMMA LeftNat ==
    ASSUME NEW ord, NEW S, IsFiniteSet(S), \A x \in S : Remaining(ord[x]) \in Nat
    PROVE  Left(ord, S) \in Nat
<1> DEFINE f == [x \in S |-> Remaining(ord[x])]
<1>1. \A x \in S : f[x] \in Nat
  OBVIOUS
<1>2. Left(ord, S) = SumFunctionOnSet(f, S)
  BY DEF Left
<1> HIDE DEF f
<1> QED
  BY <1>1, <1>2, SumNat

\* What the counterparties of the incoming order give to it is the demand that is left
\* after those ahead of them, as far as they can.
LEMMA GiftValue ==
    ASSUME NEW ord, NEW que, NEW id \in OrderIds, NEW idx, Lined(que, ord, idx), idx \subseteq OrderIds,
           IsFiniteSet(OrderIds), ord[id].side \in Side, id \notin idx,
           \A x \in OrderIds : Remaining(ord[x]) \in Nat, Met(ord, que, ord[id]), NEW y \in OrderIds
    PROVE  LET wanted == Remaining(ord[id]) - Left(ord, Ahead(ord, que, ord[id], y))
               rest == IF wanted < 0 THEN 0 ELSE wanted
           IN  /\ Gifts(ord, que, id)[y] =
                     IF y \notin Others(que, ord[id]) THEN 0
                     ELSE IF rest < Remaining(ord[y]) THEN rest ELSE Remaining(ord[y])
               /\ Gifts(ord, que, id)[y] \in Nat
               /\ Left(ord, Ahead(ord, que, ord[id], y)) \in Nat
<1> DEFINE o == ord[id]
           ahead == Left(ord, Ahead(ord, que, o, y))
           wanted == Remaining(o) - ahead
           rest == IF wanted < 0 THEN 0 ELSE wanted
<1>1. Others(que, o) \subseteq idx
  BY OthersByPrice
<1>2. Ahead(ord, que, o, y) \subseteq OrderIds
  BY <1>1 DEF Ahead
<1>3. ahead \in Nat
  <2>1. IsFiniteSet(Ahead(ord, que, o, y))
    BY <1>2, FS_Subset
  <2> QED
    BY <1>2, <2>1, LeftNat
<1>4. Remaining(o) \in Nat /\ Remaining(ord[y]) \in Nat
  OBVIOUS
<1>5. y # id => Abstract!Given(ord, que, o, y) =
          IF y \notin Others(que, o) THEN 0
          ELSE IF rest < Remaining(ord[y]) THEN rest ELSE Remaining(ord[y])
  <2>1. Remaining(o) \in Int /\ ahead \in Int /\ Remaining(ord[y]) \in Int
    BY <1>3, <1>4
  <2>2. o.type = "FOK" => ~(Left(ord, Others(que, o)) < Remaining(o))
    BY DEF Met
  <2> QED
    BY <2>1, <2>2, GivenValue
<1>6. Gifts(ord, que, id)[y] = IF y = id THEN 0 ELSE Abstract!Given(ord, que, o, y)
  BY DEF Gifts
<1>7. id \notin Others(que, o)
  BY <1>1
<1> HIDE DEF o, ahead
<1>8. Gifts(ord, que, id)[y] =
          IF y \notin Others(que, o) THEN 0
          ELSE IF rest < Remaining(ord[y]) THEN rest ELSE Remaining(ord[y])
  BY <1>5, <1>6, <1>7
<1>9. rest \in Nat
  BY <1>3, <1>4
<1>10. Gifts(ord, que, id)[y] \in Nat
  <2> HIDE DEF rest
  <2> QED
    BY <1>4, <1>8, <1>9
<1> QED
  BY <1>3, <1>8, <1>10 DEF o, ahead

\* A trade is what the first in line gives; the others give the same after it, and the
\* first gives nothing more.
LEMMA GiftStep ==
    ASSUME IInv, IInv', IsFiniteSet(OrderIds), NEW p, NEW rid, NEW qty, NEW level,
           Trade(p, rid, qty, level), Met(order, QueuesOf(book), order[incoming])
    PROVE  LET g == Gifts(order, QueuesOf(book), incoming)
               h == Gifts(order', QueuesOf(book'), incoming)
           IN  /\ g[rid] = qty /\ h[rid] = 0
               /\ \A y \in OrderIds : g[y] \in Nat /\ h[y] \in Nat /\ (y # rid => h[y] = g[y])
               /\ Met(order', QueuesOf(book'), order'[incoming])
<1> DEFINE o == order[incoming]
           o2 == order'[incoming]
           que == QueuesOf(book)
           que2 == QueuesOf(book')
           g == Gifts(order, que, incoming)
           h == Gifts(order', que2, incoming)
           them == Others(que, o)
           left == Others(que2, o2)
           A(y) == Ahead(order, que, o, y)
           B(y) == Ahead(order', que2, o2, y)
<1>1. /\ incoming \in OrderIds /\ incoming \notin orders /\ rid \in OrderIds /\ rid # incoming /\ rid \in orders
      /\ qty \in Nat /\ qty > 0 /\ qty = FillQty(o, order[rid]) /\ Remaining(o) > 0
      /\ orders' \subseteq orders
  BY DEF Trade
<1>2. /\ Lined(que, order, orders) /\ Lined(que2, order', orders') /\ orders \subseteq OrderIds
      /\ orders' \subseteq OrderIds /\ o.side \in Side /\ o2.side \in Side
  BY <1>1, LinesNow, LinesNext, InvFacts, NextFacts
<1>3. \A x \in OrderIds : Remaining(order[x]) \in Nat /\ Remaining(order'[x]) \in Nat
  BY InvFacts, NextFacts
<1>4. /\ Remaining(o2) = Remaining(o) - qty /\ Remaining(order'[rid]) = Remaining(order[rid]) - qty
      /\ \A x \in orders : x # rid => order'[x] = order[x]
      /\ o2.type = o.type
  <2>1. /\ Remaining(o2) = Remaining(o) - qty /\ Remaining(order'[rid]) = Remaining(order[rid]) - qty
        /\ \A x \in OrderIds : x # incoming /\ x # rid => order'[x] = order[x]
        /\ o2.type = o.type
    BY <1>1, TradeKeeps
  <2> QED
    BY <1>1, <1>2, <2>1
<1>5. Reached(o, p)
  BY BestIsReached
<1>6. /\ rid \in them
      /\ \A y \in them : (y # rid => Before(order, que, rid, y)) /\ ~Before(order, que, y, rid)
  BY <1>5, FirstInLine
<1>7. /\ \/ left = them /\ Remaining(order[rid]) > qty
         \/ left = them \ {rid} /\ Remaining(order[rid]) = qty
      /\ \A x, y \in left : Before(order', que2, x, y) <=> Before(order, que, x, y)
  BY LineAfter
<1>8. them \subseteq orders
  BY <1>2, OthersByPrice
<1>9. Remaining(order'[rid]) = 0 <=> Remaining(order[rid]) = qty
  BY <1>1, <1>3, <1>4
<1>10. \A S \in SUBSET OrderIds : IsFiniteSet(S)
  BY FS_Subset
<1> HIDE DEF o, o2, que, que2, g, h, them, left
<1>11. Met(order', que2, o2)
  <2> SUFFICES ASSUME o.type = "FOK" PROVE ~(Left(order', left) < Remaining(o2))
    BY <1>4 DEF Met, left
  <2>1. IsFiniteSet(them) /\ \A x \in them : Remaining(order[x]) \in Int
    BY <1>2, <1>3, <1>8, <1>10
  <2>2. \A x \in them \ {rid} : Remaining(order'[x]) = Remaining(order[x])
    BY <1>4, <1>8
  <2>3. left = them \/ (left = them \ {rid} /\ Remaining(order'[rid]) = 0)
    BY <1>7, <1>9
  <2>4. Left(order', left) = Left(order, them) - qty /\ Left(order, them) \in Int
    BY <1>1, <1>4, <1>6, <2>1, <2>2, <2>3, LeftLowered
  <2>5. ~(Left(order, them) < Remaining(o))
    BY DEF Met, o, que, them
  <2>6. Remaining(o) \in Int
    BY <1>1, <1>3 DEF o
  <2> QED
    BY <1>1, <1>4, <2>4, <2>5, <2>6
<1>12. ASSUME NEW y \in OrderIds
       PROVE  LET wanted == Remaining(o) - Left(order, A(y))
                  rest == IF wanted < 0 THEN 0 ELSE wanted
              IN  /\ g[y] = IF y \notin them THEN 0
                            ELSE IF rest < Remaining(order[y]) THEN rest ELSE Remaining(order[y])
                  /\ g[y] \in Nat /\ Left(order, A(y)) \in Nat
  <2>1. Met(order, que, order[incoming]) /\ \A x \in OrderIds : Remaining(order[x]) \in Nat
    BY <1>3 DEF que
  <2> QED
    BY <1>1, <1>2, <2>1, GiftValue DEF o, g, them
<1>13. ASSUME NEW y \in OrderIds
       PROVE  LET wanted == Remaining(o2) - Left(order', B(y))
                  rest == IF wanted < 0 THEN 0 ELSE wanted
              IN  /\ h[y] = IF y \notin left THEN 0
                            ELSE IF rest < Remaining(order'[y]) THEN rest ELSE Remaining(order'[y])
                  /\ h[y] \in Nat /\ Left(order', B(y)) \in Nat
  <2>1. Met(order', que2, order'[incoming]) /\ \A x \in OrderIds : Remaining(order'[x]) \in Nat
    BY <1>3, <1>11 DEF o2
  <2>2. incoming \notin orders'
    BY <1>1
  <2> QED
    BY <1>1, <1>2, <2>1, <2>2, GiftValue DEF o2, h, left
<1>14. g[rid] = qty
  <2>1. A(rid) = {}
    BY <1>6 DEF Ahead, them
  <2>2. Left(order, A(rid)) = 0
    BY <2>1, LeftEmpty
  <2>3. Remaining(o) \in Nat /\ Remaining(order[rid]) \in Nat
    BY <1>1, <1>3 DEF o
  <2> HIDE DEF A
  <2> QED
    BY <1>1, <1>6, <1>12, <2>2, <2>3 DEF FillQty
<1>15. h[rid] = 0
  <2>1. CASE rid \notin left
    BY <1>1, <1>13, <2>1
  <2>2. CASE rid \in left
    <3>1. Remaining(order[rid]) > qty
      BY <1>7, <2>2
    <3>2. Remaining(o) \in Nat /\ Remaining(order[rid]) \in Nat
      BY <1>1, <1>3 DEF o
    <3>3. Remaining(o2) = 0 /\ Remaining(order'[rid]) > 0
      BY <1>1, <1>4, <3>1, <3>2 DEF FillQty
    <3>4. left = them
      BY <1>7, <2>2
    <3>5. B(rid) = {}
      BY <1>6, <1>7, <2>2, <3>4 DEF Ahead, left
    <3>6. Left(order', B(rid)) = 0
      BY <3>5, LeftEmpty
    <3> HIDE DEF B
    <3>7. Remaining(o2) - Left(order', B(rid)) = 0
      BY <3>3, <3>6
    <3> QED
      BY <1>1, <1>13, <2>2, <3>3, <3>7
  <2> QED
    BY <2>1, <2>2
<1>16. ASSUME NEW y \in OrderIds, y # rid PROVE h[y] = g[y]
  <2>1. CASE y \notin them
    <3>1. y \notin left
      BY <1>7, <2>1
    <3> QED
      BY <1>12, <1>13, <2>1, <3>1
  <2>2. CASE y \in them
    <3>1. y \in left
      BY <1>7, <1>16, <2>2
    <3>2. rid \in A(y)
      BY <1>6, <1>16, <2>2 DEF Ahead, them
    <3>3. A(y) \subseteq them
      BY DEF Ahead, them
    <3>4. B(y) = {x \in left : Before(order, que, x, y)}
      BY <1>7, <3>1 DEF Ahead, left
    <3>5. A(y) = {x \in them : Before(order, que, x, y)}
      BY DEF Ahead, them
    <3>6. B(y) = A(y) \/ (B(y) = A(y) \ {rid} /\ Remaining(order'[rid]) = 0)
      BY <1>7, <1>9, <3>4, <3>5
    <3> HIDE DEF A, B
    <3>7. IsFiniteSet(A(y)) /\ \A x \in A(y) : Remaining(order[x]) \in Int
      BY <1>2, <1>3, <1>8, <1>10, <3>3
    <3>8. \A x \in A(y) \ {rid} : Remaining(order'[x]) = Remaining(order[x])
      BY <1>4, <1>8, <3>3
    <3>9. Left(order', B(y)) = Left(order, A(y)) - qty
      BY <1>1, <1>4, <3>2, <3>6, <3>7, <3>8, LeftLowered
    <3>10. Left(order, A(y)) \in Int /\ Remaining(o) \in Int
      BY <1>1, <1>3, <1>12 DEF o
    <3>11. Remaining(o2) - Left(order', B(y)) = Remaining(o) - Left(order, A(y))
      BY <1>1, <1>4, <3>9, <3>10
    <3>12. Remaining(order'[y]) = Remaining(order[y])
      BY <1>4, <1>8, <1>16, <2>2
    <3> QED
      BY <1>12, <1>13, <2>2, <3>1, <3>11, <3>12
  <2> QED
    BY <2>1, <2>2
<1> HIDE DEF A, B
<1>17. \A y \in OrderIds : g[y] \in Nat /\ h[y] \in Nat
  BY <1>12, <1>13
<1> QED
  BY <1>11, <1>14, <1>15, <1>16, <1>17 DEF g, h, o2, que, que2
\* The book after a trade still leads to the outcome that was to be expected before it.
LEMMA TradeKeepsOutcome ==
    ASSUME IInv, IInv', IsFiniteSet(OrderIds), NEW p, NEW rid, NEW qty, NEW level,
           Trade(p, rid, qty, level), Met(order, QueuesOf(book), order[incoming])
    PROVE  /\ Abstract!MatchedOrders(order', QueuesOf(book'), incoming)
                  = Abstract!MatchedOrders(order, QueuesOf(book), incoming)
           /\ Abstract!MatchedQueue(order', QueuesOf(book'), incoming)
                  = Abstract!MatchedQueue(order, QueuesOf(book), incoming)
<1> DEFINE que == QueuesOf(book)
           que2 == QueuesOf(book')
           g == Gifts(order, que, incoming)
           h == Gifts(order', que2, incoming)
           M == Abstract!MatchedOrders(order, que, incoming)
           N == Abstract!MatchedOrders(order', que2, incoming)
           o == order[incoming]
           total == SumFunctionOnSet(g, OrderIds)
           later == SumFunctionOnSet(h, OrderIds)
<1>1. /\ incoming \in OrderIds /\ rid \in OrderIds /\ rid # incoming /\ qty \in Nat /\ qty > 0 /\ qty \in Int
  BY DEF Trade
<1>2. /\ g[rid] = qty /\ h[rid] = 0
      /\ \A y \in OrderIds : g[y] \in Nat /\ h[y] \in Nat /\ (y # rid => h[y] = g[y])
  BY GiftStep
<1>3. /\ order'[incoming] = Filled(o, qty) /\ order'[rid] = Filled(order[rid], qty)
      /\ \A x \in OrderIds : x # incoming /\ x # rid => order'[x] = order[x]
      /\ o \in Order /\ order[rid] \in Order
  BY <1>1, TradeKeeps, InvFacts
<1>4. M = [x \in OrderIds |-> IF x = incoming THEN Abstract!Leftover(Abstract!Take(o, total))
                                             ELSE Abstract!Take(order[x], g[x])]
  BY MatchedOrdersValue
<1>5. N = [x \in OrderIds |-> IF x = incoming THEN Abstract!Leftover(Abstract!Take(order'[incoming], later))
                                             ELSE Abstract!Take(order'[x], h[x])]
  BY MatchedOrdersValue
<1> HIDE DEF g, h, M, N, que, que2, o
<1>6. later \in Nat /\ total = qty + later
  <2>1. \A y \in OrderIds : h[y] \in Nat
    BY <1>2
  <2>2. later \in Nat
    BY <2>1, SumNat
  <2>3. \A y \in OrderIds : h[y] \in Int /\ g[y] \in Int
    BY <1>2
  <2>4. \A y \in OrderIds \ {rid} : h[y] = g[y]
    BY <1>2
  <2>5. total = later - h[rid] + g[rid]
    BY <1>1, <2>3, <2>4, SumUpdate
  <2> HIDE DEF total, later
  <2> QED
    BY <1>1, <1>2, <2>2, <2>5
<1> HIDE DEF total, later
<1>7. Abstract!Take(order'[incoming], later) = Abstract!Take(o, total)
  BY <1>1, <1>3, <1>6, TakeTwice
<1>8. Abstract!Take(order'[rid], h[rid]) = Abstract!Take(order[rid], g[rid])
  <2>1. qty # 0
    BY <1>1
  <2>2. Abstract!Take(order[rid], qty) = Filled(order[rid], qty)
    BY <2>1, FilledIsTake
  <2> QED
    BY <1>2, <1>3, <2>2, TakeNothing
<1>9. N = M
  <2>1. \A x \in OrderIds : x # incoming /\ x # rid => Abstract!Take(order'[x], h[x]) = Abstract!Take(order[x], g[x])
    BY <1>2, <1>3
  <2> QED
    BY <1>4, <1>5, <1>7, <1>8, <2>1
<1>10. M[rid] = Filled(order[rid], qty)
  BY <1>1, <1>2, <1>3, <1>4, <1>8, TakeNothing
<1> DEFINE s == Opposite(order[incoming].side)
           q == Queue(book, s, p)
<1>11. /\ s \in Side /\ p \in DOMAIN book[s] /\ q # << >> /\ rid = q[1]
       /\ book' = SetLevel(book, s, p, level) /\ level \in Level
       /\ \/ level.orders = Tail(q) /\ IsDone(Filled(order[rid], qty))
          \/ level.orders = q
  BY DEF Trade
<1>12. BookType(book) /\ p \in Prices /\ que[s][p] = q /\ q \in Seq(OrderIds)
  <2>1. BookType(book)
    BY InvFacts
  <2> QED
    BY <1>11, <2>1 DEF que, QueuesOf, BookType, Level, Queue
<1> HIDE DEF s, q
<1>13. \A t \in Side : \A r \in Prices : que2[t][r] = IF t = s /\ r = p THEN level.orders ELSE que[t][r]
  BY <1>11, <1>12, QueuesSet DEF que, que2
<1>14. \A t \in Side : \A r \in Prices : Abstract!Unserved(que2[t][r], M) = Abstract!Unserved(que[t][r], M)
  <2>1. Abstract!Unserved(level.orders, M) = Abstract!Unserved(q, M)
    BY <1>10, <1>11, <1>12, UnservedTail
  <2> QED
    BY <1>12, <1>13, <2>1
<1>15. Abstract!MatchedQueue(order, que, incoming) =
           [t \in Side |-> [r \in Prices |->
               IF Rests(M, incoming) /\ t = M[incoming].side /\ r = M[incoming].price
               THEN Append(Abstract!Unserved(que[t][r], M), incoming)
               ELSE Abstract!Unserved(que[t][r], M)]]
  BY MatchedQueueValue DEF M
<1>16. Abstract!MatchedQueue(order', que2, incoming) =
           [t \in Side |-> [r \in Prices |->
               IF Rests(M, incoming) /\ t = M[incoming].side /\ r = M[incoming].price
               THEN Append(Abstract!Unserved(que2[t][r], M), incoming)
               ELSE Abstract!Unserved(que2[t][r], M)]]
  BY <1>9, MatchedQueueValue DEF N
<1>17. Abstract!MatchedQueue(order', que2, incoming) = Abstract!MatchedQueue(order, que, incoming)
  BY <1>14, <1>15, <1>16
<1> QED
  BY <1>9, <1>17 DEF M, N, que, que2
-----------------------------------------------------------------------------
(* The end of a call.                                                      *)

\* The queues with id at the tail of its own, if it rests.
Joined(que, after, id) ==
    [s \in Side |-> [p \in Prices |->
        IF Rests(after, id) /\ s = after[id].side /\ p = after[id].price
        THEN Append(que[s][p], id) ELSE que[s][p]]]

\* The orders once what is left of id is settled.
Settled(ord, id) == [x \in OrderIds |-> IF x = id THEN Abstract!Leftover(ord[id]) ELSE ord[x]]

\* An order that nobody gives anything keeps its fill, the others are untouched, and
\* what is left of a LIMIT order joins its queue.
LEMMA OutcomeWithoutGifts ==
    ASSUME NEW ord, NEW que, NEW id \in OrderIds, NEW idx, Lined(que, ord, idx), idx \subseteq OrderIds,
           IsFiniteSet(OrderIds), id \notin idx, \A y \in OrderIds : Gifts(ord, que, id)[y] = 0
    PROVE  LET after == Settled(ord, id)
           IN  /\ Abstract!MatchedOrders(ord, que, id) = after
               /\ Abstract!MatchedQueue(ord, que, id) = Joined(que, after, id)
<1> DEFINE g == Gifts(ord, que, id)
           after == Settled(ord, id)
           M == Abstract!MatchedOrders(ord, que, id)
<1>1. M = [x \in OrderIds |-> IF x = id THEN Abstract!Leftover(Abstract!Take(ord[id], SumFunctionOnSet(g, OrderIds)))
                                        ELSE Abstract!Take(ord[x], g[x])]
  BY MatchedOrdersValue
<1> HIDE DEF g, M
<1>2. SumFunctionOnSet(g, OrderIds) = 0
  BY SumZero DEF g
<1>3. \A x \in OrderIds : Abstract!Take(ord[x], g[x]) = ord[x]
  BY TakeNothing DEF g
<1>4. Abstract!Take(ord[id], SumFunctionOnSet(g, OrderIds)) = ord[id]
  BY <1>2, TakeNothing
<1>5. M = after
  BY <1>1, <1>3, <1>4 DEF Settled
<1> HIDE DEF after
<1>6. ASSUME NEW s \in Side, NEW p \in Prices
      PROVE  Abstract!Unserved(que[s][p], after) = que[s][p]
  <2> DEFINE q == que[s][p]
  <2>1. q \in Seq(OrderIds) /\ \A i \in DOMAIN q : q[i] \in idx /\ Open(ord[q[i]], s, p)
    BY DEF Lined
  <2>2. ASSUME q # << >> PROVE ~IsDone(after[q[1]])
    <3>1. 1 \in DOMAIN q
      BY <2>1, <2>2
    <3>2. q[1] \in OrderIds /\ q[1] # id /\ ord[q[1]].status \in {"NEW", "PARTIALLY_FILLED"}
      BY <2>1, <3>1 DEF Open
    <3>3. after[q[1]] = ord[q[1]]
      BY <3>2 DEF after, Settled
    <3> QED
      BY <3>2, <3>3 DEF IsDone, Done
  <2> HIDE DEF q
  <2> QED
    BY <2>1, <2>2, UnservedSame DEF q
<1>7. Abstract!MatchedQueue(ord, que, id) =
          [s \in Side |-> [p \in Prices |->
              IF Rests(after, id) /\ s = after[id].side /\ p = after[id].price
              THEN Append(Abstract!Unserved(que[s][p], after), id)
              ELSE Abstract!Unserved(que[s][p], after)]]
  BY <1>5, MatchedQueueValue DEF M
<1>8. Abstract!MatchedQueue(ord, que, id) = Joined(que, after, id)
  BY <1>6, <1>7 DEF Joined
<1> QED
  BY <1>5, <1>8 DEF M, after

\* When the loop ends nobody has anything to give, and a FOK order is filled.
LEMMA OverGivesNothing ==
    ASSUME IInv, IsFiniteSet(OrderIds), MatchingOver, Met(order, QueuesOf(book), order[incoming])
    PROVE  /\ \A y \in OrderIds : Gifts(order, QueuesOf(book), incoming)[y] = 0
           /\ order[incoming].type = "FOK" => Remaining(order[incoming]) = 0
<1> DEFINE o == order[incoming]
           s == Opposite(o.side)
           que == QueuesOf(book)
           them == Others(que, o)
<1>1. /\ incoming # NoOrder
      /\ \/ Remaining(o) = 0
         \/ DOMAIN book[s] = {}
         \/ \E p \in DOMAIN book[s] : IsBest(s, p) /\ ~MayTakeLevel(o, p)
  BY DEF MatchingOver
<1>2. /\ incoming \in OrderIds /\ incoming \notin orders /\ o.side \in Side /\ s \in Side
      /\ o.type # "MARKET" => o.price \in Prices
  BY <1>1, InvFacts DEF IInv, IncomingApart, Opposite, Side
<1>3. /\ Lined(que, order, orders) /\ orders \subseteq OrderIds /\ BookType(book)
      /\ WellFormed(book, order, orders) /\ \A x \in OrderIds : Remaining(order[x]) \in Nat
  BY LinesNow, InvFacts
<1>4. them = {x \in orders : order[x].side = s /\ Reached(o, order[x].price)}
  BY <1>2, <1>3, OthersByPrice
<1> HIDE DEF o, que, them
<1>5. \A x \in them : order[x].price \in DOMAIN book[s]
  BY <1>3, <1>4 DEF WellFormed
<1>6. Remaining(o) # 0 => them = {}
  <2> SUFFICES ASSUME Remaining(o) # 0, NEW x \in them PROVE FALSE
    OBVIOUS
  <2>1. PICK p \in DOMAIN book[s] : IsBest(s, p) /\ ~MayTakeLevel(o, p)
    BY <1>1, <1>5
  <2>2. o.type \in {"LIMIT", "IOC"} /\ ~Reaches(o.side, o.price, p)
    BY <2>1 DEF MayTakeLevel
  <2>3. Reaches(o.side, o.price, order[x].price)
    BY <1>4, <2>2 DEF Reached
  <2>4. ~Better(s, order[x].price, p)
    BY <1>5, <2>1 DEF IsBest
  <2>5. order[x].price \in Int /\ p \in Int /\ o.price \in Int
    <3>1. order[x].price \in Prices /\ p \in Prices /\ o.price \in Prices
      BY <1>2, <1>3, <1>5, <2>1, <2>2 DEF BookType
    <3> QED
      BY <3>1, PricesAssumption
  <2> QED
    BY <1>2, <2>2, <2>3, <2>4, <2>5 DEF Better, Reaches, Opposite, Side
<1>7. o.type = "FOK" => Remaining(o) = 0
  <2> SUFFICES ASSUME o.type = "FOK", Remaining(o) # 0 PROVE FALSE
    OBVIOUS
  <2>1. Left(order, them) = 0
    BY <1>6, LeftEmpty
  <2>2. Remaining(o) \in Nat
    BY <1>2, <1>3 DEF o
  <2>3. ~(Left(order, them) < Remaining(o))
    BY DEF Met, o, que, them
  <2> QED
    BY <2>1, <2>2, <2>3
<1>8. ASSUME NEW y \in OrderIds PROVE Gifts(order, que, incoming)[y] = 0
  <2> DEFINE ahead == Left(order, Ahead(order, que, o, y))
             wanted == Remaining(o) - ahead
             rest == IF wanted < 0 THEN 0 ELSE wanted
  <2>1. Met(order, que, order[incoming])
    BY DEF que
  <2>2. /\ Gifts(order, que, incoming)[y] =
              IF y \notin them THEN 0
              ELSE IF rest < Remaining(order[y]) THEN rest ELSE Remaining(order[y])
        /\ ahead \in Nat
    BY <1>2, <1>3, <2>1, GiftValue DEF o, them
  <2> HIDE DEF ahead
  <2>3. CASE Remaining(o) # 0
    BY <1>6, <2>2, <2>3
  <2>4. CASE Remaining(o) = 0
    BY <1>3, <2>2, <2>4
  <2> QED
    BY <2>3, <2>4
<1> QED
  BY <1>7, <1>8 DEF o, que

\* An order joins the tail of its queue.
LEMMA QueuesAdd ==
    ASSUME NEW b, BookType(b), NEW id \in OrderIds, NEW o \in Order, o.price \in Prices
    PROVE  QueuesOf(AddToBook(b, id, o)) =
               [t \in Side |-> [r \in Prices |->
                   IF t = o.side /\ r = o.price THEN Append(QueuesOf(b)[t][r], id) ELSE QueuesOf(b)[t][r]]]
<1> DEFINE old == IF o.price \in DOMAIN b[o.side] THEN b[o.side][o.price] ELSE EmptyLevel
           level == [orders |-> Append(old.orders, id), total_qty |-> old.total_qty + Remaining(o)]
<1>1. AddToBook(b, id, o) = SetLevel(b, o.side, o.price, level)
  BY DEF AddToBook
<1>2. o.side \in Side /\ Remaining(o) \in Int
  BY MaxQtyAssumption DEF Order, Remaining
<1>3. old \in Level
  BY <1>2 DEF BookType, Level, EmptyLevel
<1>4. QueuesOf(b)[o.side][o.price] = old.orders
  BY <1>2 DEF QueuesOf, EmptyLevel
<1> HIDE DEF old
<1>5. level \in Level /\ level.orders = Append(old.orders, id)
  <2>1. old.orders \in Seq(OrderIds) /\ old.total_qty \in Int
    BY <1>3 DEF Level
  <2>2. Append(old.orders, id) \in Seq(OrderIds) /\ old.total_qty + Remaining(o) \in Int
    BY <1>2, <2>1
  <2> QED
    BY <2>2 DEF Level
<1> HIDE DEF level
<1> DEFINE c == SetLevel(b, o.side, o.price, level)
<1>6. QueuesOf(c) = [t \in Side |-> [r \in Prices |-> QueuesOf(c)[t][r]]]
  BY DEF QueuesOf
<1>7. \A t \in Side : \A r \in Prices :
         QueuesOf(c)[t][r] = IF t = o.side /\ r = o.price THEN level.orders ELSE QueuesOf(b)[t][r]
  <2> DEFINE s == o.side
             p == o.price
  <2>1. s \in Side /\ p \in Prices /\ level \in Level
    BY <1>2, <1>5
  <2> HIDE DEF s, p
  <2>2. QueuesOf(SetLevel(b, s, p, level)) =
            [t \in Side |-> [r \in Prices |->
                IF t = s /\ r = p THEN level.orders ELSE QueuesOf(b)[t][r]]]
    BY <2>1, QueuesSet
  <2>3. \A t \in Side : \A r \in Prices :
           QueuesOf(SetLevel(b, s, p, level))[t][r] = IF t = s /\ r = p THEN level.orders ELSE QueuesOf(b)[t][r]
    BY <2>2
  <2> QED
    BY <2>3 DEF s, p
<1> HIDE DEF c
<1>8. \A t \in Side : \A r \in Prices :
         QueuesOf(c)[t][r] = IF t = o.side /\ r = o.price THEN Append(QueuesOf(b)[t][r], id)
                                                         ELSE QueuesOf(b)[t][r]
  BY <1>4, <1>5, <1>7
<1> QED
  BY <1>1, <1>6, <1>8 DEF c

\* What becomes of the rest of an order that is not filled.
LEMMA LeftoverValue ==
    ASSUME NEW o
    PROVE  Abstract!Leftover(o) =
               IF Remaining(o) = 0 \/ o.type = "LIMIT" THEN o
               ELSE [o EXCEPT !.status = IF o.type = "MARKET" THEN "CANCELLED" ELSE "EXPIRED"]
  BY DEF Abstract!Leftover, Abstract!Remaining, Remaining

\* add_order returns with the outcome of the abstract book.
LEMMA EndOutcome ==
    ASSUME IInv, IsFiniteSet(OrderIds), EndOfCall, Met(order, QueuesOf(book), order[incoming])
    PROVE  /\ order' = Abstract!MatchedOrders(order, QueuesOf(book), incoming)
           /\ QueuesOf(book') = Abstract!MatchedQueue(order, QueuesOf(book), incoming)
<1> DEFINE o == order[incoming]
           que == QueuesOf(book)
           closed == Abstract!Leftover(o)
           after == Settled(order, incoming)
           M == Abstract!MatchedOrders(order, que, incoming)
           Q == Abstract!MatchedQueue(order, que, incoming)
<1>1. MatchingOver /\ incoming # NoOrder
  BY DEF EndOfCall, Rest, Discard, Complete, MatchingOver
<1>2. /\ incoming \in OrderIds /\ incoming \notin orders /\ o \in Order
      /\ o.status = "FILLED" <=> Remaining(o) = 0
      /\ o.status \in {"NEW", "PARTIALLY_FILLED", "FILLED"}
      /\ o.type # "MARKET" => o.price \in Prices
      /\ Remaining(o) \in Nat /\ order \in [OrderIds -> Order]
  BY <1>1, InvFacts DEF IInv, IncomingApart, TypeOK
<1>3. Lined(que, order, orders) /\ orders \subseteq OrderIds /\ BookType(book)
  BY LinesNow, InvFacts
<1>4. /\ \A y \in OrderIds : Gifts(order, que, incoming)[y] = 0
      /\ o.type = "FOK" => Remaining(o) = 0
  BY <1>1, OverGivesNothing
<1>5. /\ M = after
      /\ Q = Joined(que, after, incoming)
  BY <1>2, <1>3, <1>4, OutcomeWithoutGifts
<1>6. after = [x \in OrderIds |-> IF x = incoming THEN closed ELSE order[x]] /\ after[incoming] = closed
  BY <1>2 DEF Settled
<1>7. closed = IF Remaining(o) = 0 \/ o.type = "LIMIT" THEN o
               ELSE [o EXCEPT !.status = IF o.type = "MARKET" THEN "CANCELLED" ELSE "EXPIRED"]
  BY LeftoverValue
<1>8. que = [s \in Side |-> [p \in Prices |-> que[s][p]]]
  BY DEF QueuesOf
<1>9. closed = o => after = order
  BY <1>2, <1>6
<1> HIDE DEF M, Q, que, closed
<1>10. CASE Rest
  <2>1. /\ o.type = "LIMIT" /\ ~IsDone(o) /\ order' = order /\ book' = AddToBook(book, incoming, o)
    BY <1>10 DEF Rest
  <2>2. closed = o
    BY <1>7, <2>1
  <2>3. Rests(after, incoming)
    BY <1>6, <2>1, <2>2 DEF Rests
  <2>4. QueuesOf(book') = [t \in Side |-> [r \in Prices |->
                   IF t = o.side /\ r = o.price THEN Append(que[t][r], incoming) ELSE que[t][r]]]
    BY <1>2, <1>3, <2>1, QueuesAdd DEF que
  <2> HIDE DEF after, o
  <2> QED
    BY <1>5, <1>6, <1>9, <2>1, <2>2, <2>3, <2>4 DEF M, Q, que, Joined
<1>11. CASE Discard
  <2>1. /\ o.type \in {"MARKET", "IOC"} /\ Remaining(o) > 0 /\ book' = book
        /\ order' = [order EXCEPT ![incoming] =
                        [o EXCEPT !.status = IF o.type = "MARKET" THEN "CANCELLED" ELSE "EXPIRED"]]
    BY <1>11 DEF Discard
  <2>2. closed = [o EXCEPT !.status = IF o.type = "MARKET" THEN "CANCELLED" ELSE "EXPIRED"]
    BY <1>2, <1>7, <2>1
  <2>3. order' = after
    BY <1>2, <1>6, <2>1, <2>2
  <2>4. closed.type = o.type
    BY <1>2, <2>2 DEF Order
  <2>5. ~Rests(after, incoming)
    BY <1>6, <2>1, <2>4 DEF Rests
  <2>6. QueuesOf(book') = que
    BY <2>1 DEF que
  <2> HIDE DEF after, o
  <2>7. Q = que
    BY <1>5, <1>8, <2>5 DEF Joined
  <2> QED
    BY <1>5, <2>3, <2>6, <2>7 DEF M, Q, que
<1>12. CASE Complete
  <2>1. /\ order' = order /\ book' = book
        /\ \/ o.type = "FOK"
           \/ o.type = "LIMIT" /\ IsDone(o)
           \/ Remaining(o) = 0
    BY <1>12 DEF Complete
  <2>2. closed = o
    BY <1>4, <1>7, <2>1
  <2>3. ~Rests(after, incoming)
    BY <1>2, <1>6, <1>4, <2>1, <2>2 DEF Rests, IsDone, Done
  <2>4. QueuesOf(book') = que
    BY <2>1 DEF que
  <2> HIDE DEF after, o
  <2>5. Q = que
    BY <1>5, <1>8, <2>3 DEF Joined
  <2> QED
    BY <1>5, <1>9, <2>1, <2>2, <2>4, <2>5 DEF M, Q, que
<1> QED
  BY <1>10, <1>11, <1>12 DEF EndOfCall
-----------------------------------------------------------------------------
(* The start of a call.                                                    *)

\* What two groups of orders have left adds up.
LEMMA LeftUnion ==
    ASSUME NEW ord, NEW S, NEW R, IsFiniteSet(S), IsFiniteSet(R), S \cap R = {},
           \A x \in S \cup R : Remaining(ord[x]) \in Int
    PROVE  Left(ord, S \cup R) = Left(ord, S) + Left(ord, R)
<1> DEFINE f == [x \in S \cup R |-> Remaining(ord[x])]
           g == [x \in S |-> Remaining(ord[x])]
           h == [x \in R |-> Remaining(ord[x])]
<1>1. \A x \in S \cup R : f[x] \in Int
  OBVIOUS
<1>2. (\A x \in S : f[x] = g[x]) /\ (\A x \in R : f[x] = h[x])
  OBVIOUS
<1>3. /\ Left(ord, S \cup R) = SumFunctionOnSet(f, S \cup R)
      /\ Left(ord, S) = SumFunctionOnSet(g, S) /\ Left(ord, R) = SumFunctionOnSet(h, R)
  BY DEF Left
<1> HIDE DEF f, g, h
<1>4. SumFunctionOnSet(f, S \cup R) = SumFunctionOnSet(f, S) + SumFunctionOnSet(f, R)
  BY <1>1, SumUnion
<1>5. SumFunctionOnSet(f, S) = SumFunctionOnSet(g, S) /\ SumFunctionOnSet(f, R) = SumFunctionOnSet(h, R)
  BY <1>2, SumEqual
<1> QED
  BY <1>3, <1>4, <1>5

\* What the pre-check of a FOK order adds up over the levels is what the orders
\* it may trade with have left.
LEMMA OfferedIsLeft ==
    ASSUME IInv, Totals(book, order), DepthFinite(book), IsFiniteSet(OrderIds),
           NEW o, o.side \in Side, o.type # "MARKET"
    PROVE  Available(o) = Left(order, Others(QueuesOf(book), o))
<1> DEFINE s == Opposite(o.side)
           W == Within(book, o)
           f == [p \in W |-> book[s][p].total_qty]
           At(V) == {x \in orders : order[x].side = s /\ order[x].price \in V}
<1>1. /\ s \in Side /\ Lined(QueuesOf(book), order, orders) /\ orders \subseteq OrderIds
      /\ BookType(book) /\ WellFormed(book, order, orders) /\ \A x \in OrderIds : Remaining(order[x]) \in Int
  BY LinesNow, InvFacts DEF Opposite, Side
<1>2. W \subseteq DOMAIN book[s] /\ IsFiniteSet(W)
  BY <1>1, FS_Subset DEF Within, DepthFinite
<1>3. Available(o) = SumFunctionOnSet(f, W)
  BY OfferedIsAvailable DEF Offered
<1>4. \A p \in W : f[p] = Left(order, ToSet(Queue(book, s, p)))
  BY <1>1, <1>2 DEF Totals
<1>5. \A V : IsFiniteSet(At(V))
  <2>1. \A V : At(V) \subseteq OrderIds
    BY <1>1
  <2> HIDE DEF At
  <2> QED
    BY <2>1, FS_Subset
<1>6. \A p \in W : f[p] \in Int /\ ToSet(Queue(book, s, p)) = At({p}) /\ f[p] = Left(order, At({p}))
  <2> SUFFICES ASSUME NEW p \in W PROVE ToSet(Queue(book, s, p)) = At({p}) /\ f[p] \in Int
    BY <1>4
  <2>1. ToSet(Queue(book, s, p)) = At({p})
    BY <1>1, <1>2 DEF WellFormed, Open, ToSet
  <2>2. f[p] \in Int
    <3>1. p \in DOMAIN book[s]
      BY <1>2
    <3> QED
      BY <1>1, <3>1 DEF BookType, Level
  <2> QED
    BY <2>1, <2>2
<1> HIDE DEF f
<1> DEFINE T == {V \in SUBSET W : SumFunctionOnSet(f, V) # Left(order, At(V))}
<1>7. T = {}
  <2> SUFFICES ASSUME T # {} PROVE FALSE
    OBVIOUS
  <2>0. T \subseteq SUBSET W
    OBVIOUS
  <2> HIDE DEF T
  <2>1. PICK V \in T : \A U \in T : U \subseteq V => U = V
    BY <1>2, <2>0, Smallest
  <2> USE DEF T
  <2>2. V \subseteq W /\ SumFunctionOnSet(f, V) # Left(order, At(V)) /\ IsFiniteSet(V)
    BY <1>2, FS_Subset
  <2>3. V # {}
    <3>1. At({}) = {}
      OBVIOUS
    <3> QED
      BY <2>2, <3>1, SumEmpty, LeftEmpty
  <2>4. PICK p \in V : TRUE
    BY <2>3
  <2>5. SumFunctionOnSet(f, V \ {p}) = Left(order, At(V \ {p}))
    BY <2>1, <2>2, <2>4
  <2>6. SumFunctionOnSet(f, V) = f[p] + SumFunctionOnSet(f, V \ {p})
    <3>1. \A r \in V : f[r] \in Int
      BY <1>6, <2>2
    <3> QED
      BY <2>2, <2>4, <3>1, SumRemove
  <2>7. At(V) = At({p}) \cup At(V \ {p}) /\ At({p}) \cap At(V \ {p}) = {}
    BY <2>4
  <2>8. \A x \in At({p}) \cup At(V \ {p}) : Remaining(order[x]) \in Int
    BY <1>1
  <2>9. IsFiniteSet(At({p})) /\ IsFiniteSet(At(V \ {p}))
    BY <1>5
  <2> DEFINE S == At({p})
             R == At(V \ {p})
  <2>11. At(V) = S \cup R /\ S \cap R = {} /\ IsFiniteSet(S) /\ IsFiniteSet(R)
         /\ \A x \in S \cup R : Remaining(order[x]) \in Int
    BY <2>7, <2>8, <2>9
  <2> HIDE DEF At, S, R
  <2>12. Left(order, At(V)) = Left(order, S) + Left(order, R)
    BY <2>11, LeftUnion
  <2>10. f[p] = Left(order, At({p}))
    BY <1>6, <2>2
  <2> QED
    BY <2>2, <2>5, <2>6, <2>12, <2>10 DEF S, R
<1>8. At(W) = Others(QueuesOf(book), o)
  <2>1. Others(QueuesOf(book), o) = {x \in orders : order[x].side = s /\ Reached(o, order[x].price)}
    BY <1>1, OthersByPrice
  <2>2. \A x \in orders : order[x].side = s => (Reached(o, order[x].price) <=> order[x].price \in W)
    BY <1>1 DEF WellFormed, Within, Reached
  <2> QED
    BY <2>1, <2>2
<1>9. SumFunctionOnSet(f, W) = Left(order, At(W))
  BY <1>7
<1> QED
  BY <1>3, <1>8, <1>9
\* A FOK order that is not met is given nothing.
LEMMA GivenNothing ==
    ASSUME NEW ord, NEW que, NEW o, NEW y, o.type = "FOK", Left(ord, Others(que, o)) < Remaining(o)
    PROVE  Abstract!Given(ord, que, o, y) = 0
<1>1. Abstract!OpenQty(ord, Abstract!Counterparties(ord, que, o)) < Abstract!Remaining(o)
  BY OpenQtyIsLeft, CounterpartiesAreOthers DEF Abstract!Remaining, Remaining
<1> QED
  BY <1>1 DEF Abstract!Given

\* Matching does not touch what was asked.
LEMMA RequestBack ==
    ASSUME NEW o \in Submittable, NEW n \in Nat
    PROVE  Abstract!Request(Abstract!Leftover(Abstract!Take(o, n))) = o
<1> DEFINE t == Abstract!Take(o, n)
           u == Abstract!Leftover(t)
           w == [u EXCEPT !.filled_qty = 0]
           r == [w EXCEPT !.status = "NEW"]
<1>0. n \in Int
  OBVIOUS
<1>1. o \in Wide /\ o.filled_qty = 0 /\ o.status = "NEW"
  BY MaxQtyAssumption DEF Submittable, Wide, OrderStatus
<1>2. t \in Wide /\ t.side = o.side /\ t.type = o.type /\ t.price = o.price /\ t.qty = o.qty
  <2>1. CASE n = 0
    BY <1>1, <2>1, TakeNothing
  <2>2. CASE n # 0
    BY <1>0, <1>1, <2>2, FilledIsTake, FilledWide
  <2> QED
    BY <2>1, <2>2
<1> HIDE DEF t
<1>3. u \in Wide /\ u.side = o.side /\ u.type = o.type /\ u.price = o.price /\ u.qty = o.qty
  <2> DEFINE status == IF t.type = "MARKET" THEN "CANCELLED" ELSE "EXPIRED"
             v == [t EXCEPT !.status = status]
  <2>1. u = t \/ u = v
    BY DEF Abstract!Leftover
  <2>2. status \in OrderStatus
    BY DEF OrderStatus
  <2> HIDE DEF status
  <2>3. v \in Wide /\ v.side = t.side /\ v.type = t.type /\ v.price = t.price /\ v.qty = t.qty
    BY <1>2, <2>2 DEF Wide
  <2> HIDE DEF u, v
  <2> QED
    BY <1>2, <2>1, <2>3
<1>4. Abstract!Request(u) = r
  BY DEF Abstract!Request
<1> HIDE DEF u
<1>5. /\ w \in Wide /\ w.side = u.side /\ w.type = u.type /\ w.price = u.price /\ w.qty = u.qty
      /\ w.filled_qty = 0
  BY <1>3 DEF Wide
<1> HIDE DEF w
<1>6. /\ r \in Wide /\ r.side = w.side /\ r.type = w.type /\ r.price = w.price /\ r.qty = w.qty
      /\ r.filled_qty = w.filled_qty /\ r.status = "NEW"
  BY <1>5 DEF Wide, OrderStatus
<1> HIDE DEF r
<1>7. r = o
  BY <1>1, <1>3, <1>5, <1>6, SameFields
<1> QED
  BY <1>4, <1>7 DEF u, t

\* add_order: a FOK order that is not met has its outcome at once; any other order is
\* promised one, and a FOK order is met then.
LEMMA AddOutcome ==
    ASSUME IInv, Totals(book, order), DepthFinite(book), IsFiniteSet(OrderIds),
           NEW id \in OrderIds, NEW o \in Submittable, AddOrder(id, o)
    PROVE  LET entered == [order EXCEPT ![id] = o]
               que == QueuesOf(book)
           IN  /\ Abstract!Request(Abstract!MatchedOrders(entered, que, id)[id]) = o
               /\ Killed(o) => /\ order' = Abstract!MatchedOrders(entered, que, id)
                               /\ que = Abstract!MatchedQueue(entered, que, id)
               /\ ~Killed(o) => order' = entered /\ Met(entered, que, o)
<1> DEFINE entered == [order EXCEPT ![id] = o]
           que == QueuesOf(book)
           g == Gifts(entered, que, id)
           M == Abstract!MatchedOrders(entered, que, id)
<1>1. /\ incoming = NoOrder /\ order[id] = Blank
      /\ order' = [order EXCEPT ![id] = IF Killed(o) THEN [o EXCEPT !.status = "EXPIRED"] ELSE o]
  BY DEF AddOrder
<1>2. /\ order \in [OrderIds -> Order] /\ Lined(que, order, orders) /\ orders \subseteq OrderIds
      /\ \A x \in OrderIds : Remaining(order[x]) \in Nat
  BY LinesNow, InvFacts DEF IInv, TypeOK
<1>3. id \notin orders
  BY <1>1, InvFacts DEF Open, Blank
<1>4. /\ o.side \in Side /\ o.filled_qty = 0 /\ o.qty \in Nat /\ o.qty > 0 /\ Remaining(o) = o.qty
      /\ o.type \in OrderType
  BY MaxQtyAssumption DEF Submittable, Remaining
<1>5. entered[id] = o /\ \A x \in OrderIds : x # id => entered[x] = order[x]
  BY <1>2
<1>6. \A x \in orders : entered[x] = order[x]
  BY <1>2, <1>3, <1>5
<1> HIDE DEF entered, que
<1>7. Lined(que, entered, orders)
  BY <1>2, <1>6 DEF Lined
<1>8. \A x \in OrderIds : Remaining(entered[x]) \in Nat
  BY <1>2, <1>4, <1>5
<1>9. o.type = "FOK" => Available(o) = Left(entered, Others(que, o))
  <2> SUFFICES ASSUME o.type = "FOK" PROVE Available(o) = Left(entered, Others(que, o))
    OBVIOUS
  <2>1. Available(o) = Left(order, Others(que, o))
    BY <1>4, OfferedIsLeft DEF que
  <2>2. Others(que, o) \subseteq orders
    BY <1>2, <1>4, OthersByPrice
  <2>3. IsFiniteSet(Others(que, o))
    BY <1>2, <2>2, FS_Subset
  <2>4. \A x \in Others(que, o) : Remaining(order[x]) = Remaining(entered[x])
    BY <1>6, <2>2
  <2>5. Left(order, Others(que, o)) = Left(entered, Others(que, o))
    BY <2>3, <2>4, LeftSame
  <2> QED
    BY <2>1, <2>5
<1>10. M[id] = Abstract!Leftover(Abstract!Take(o, SumFunctionOnSet(g, OrderIds)))
  BY <1>5, MatchedOrdersValue
<1>11. ASSUME \A y \in OrderIds : g[y] \in Nat PROVE Abstract!Request(M[id]) = o
  <2>1. SumFunctionOnSet(g, OrderIds) \in Nat
    BY <1>11, SumNat
  <2> QED
    BY <1>10, <2>1, RequestBack
<1>12. CASE Killed(o)
  <2>1. o.type = "FOK" /\ Left(entered, Others(que, o)) < Remaining(o)
    BY <1>4, <1>9, <1>12 DEF Killed
  <2>2. \A y \in OrderIds : g[y] = 0
    BY <1>5, <2>1, GivenNothing DEF Gifts
  <2> DEFINE after == Settled(entered, id)
             expired == [o EXCEPT !.status = "EXPIRED"]
  <2>3. /\ M = after
        /\ Abstract!MatchedQueue(entered, que, id) = Joined(que, after, id)
    BY <1>2, <1>3, <1>7, <2>2, OutcomeWithoutGifts
  <2>4. Abstract!Leftover(o) = expired
    BY <1>4, <2>1 DEF Abstract!Leftover, Abstract!Remaining, Remaining
  <2>5. expired.type = "FOK"
    BY <2>1 DEF Submittable
  <2>6. order' = [order EXCEPT ![id] = expired]
    BY <1>1, <1>12
  <2> HIDE DEF expired
  <2>7. order' = after
    BY <1>2, <1>5, <2>4, <2>6 DEF Settled
  <2>8. after[id] = expired
    BY <1>5, <2>4 DEF Settled
  <2>9. ~Rests(after, id)
    BY <2>5, <2>8 DEF Rests
  <2>10. que = [s \in Side |-> [p \in Prices |-> que[s][p]]]
    BY DEF que, QueuesOf
  <2> HIDE DEF after, M, g
  <2>11. que = Abstract!MatchedQueue(entered, que, id)
    BY <2>3, <2>9, <2>10 DEF Joined
  <2>12. Abstract!Request(M[id]) = o
    BY <1>11, <2>2
  <2> QED
    BY <1>12, <2>3, <2>7, <2>11, <2>12 DEF M, entered, que
<1>13. CASE ~Killed(o)
  <2>1. order' = entered
    BY <1>1, <1>13 DEF entered
  <2>2. Met(entered, que, o)
    BY <1>4, <1>9, <1>13 DEF Killed, Met
  <2>3. \A y \in OrderIds : g[y] \in Nat
    <3>1. Met(entered, que, entered[id]) /\ entered[id].side \in Side
      BY <1>4, <1>5, <2>2
    <3> QED
      BY <1>2, <1>3, <1>7, <1>8, <3>1, GiftValue
  <2> HIDE DEF M, g
  <2>4. Abstract!Request(M[id]) = o
    BY <1>11, <2>3
  <2> QED
    BY <1>13, <2>1, <2>2, <2>4 DEF M, entered, que
<1> QED
  BY <1>12, <1>13
-----------------------------------------------------------------------------
(* Orders that leave the book, and orders that are moved.                  *)

\* In a queue without repetitions the first occurrence is the one that is erased.
LEMMA FirstErased ==
    ASSUME NEW S, NEW q \in Seq(S), NEW id, \A i, j \in DOMAIN q : q[i] = q[j] => i = j
    PROVE  /\ (\E i \in DOMAIN q : q[i] = id) =>
                  /\ Position(q, id) \in DOMAIN q
                  /\ Abstract!RemoveFirst(q, id) = RemoveAt(q, Position(q, id))
           /\ (\A i \in DOMAIN q : q[i] # id) => Abstract!RemoveFirst(q, id) = q
<1> DEFINE I == {i \in 1 .. Len(q) : q[i] = id}
<1>1. DOMAIN q = 1 .. Len(q) /\ Len(q) \in Nat
  OBVIOUS
<1>2. Abstract!RemoveFirst(q, id) =
          IF \E i \in 1 .. Len(q) : q[i] = id
          THEN RemoveAt(q, IF I # {} THEN Min(I) ELSE 0) ELSE q
  BY DEF Abstract!RemoveFirst, Abstract!SelectInSeq, Abstract!RemoveAt, RemoveAt, Abstract!Min, Min
<1>3. ASSUME NEW k \in DOMAIN q, q[k] = id
      PROVE  Position(q, id) \in DOMAIN q /\ Abstract!RemoveFirst(q, id) = RemoveAt(q, Position(q, id))
  <2>1. Position(q, id) = k
    BY <1>3 DEF Position
  <2>2. I = {k}
    BY <1>1, <1>3
  <2>3. k \in Int
    BY <1>1
  <2>4. Min({k}) = k
    <3>1. {k} \subseteq Int /\ {k} # {} /\ IsFiniteSet({k})
      BY <2>3, FS_Singleton
    <3>2. Min({k}) \in {k}
      BY <3>1, MinMax
    <3> QED
      BY <3>2
  <2> HIDE DEF I
  <2> QED
    BY <1>1, <1>2, <1>3, <2>1, <2>2, <2>4
<1>4. ASSUME \A i \in DOMAIN q : q[i] # id PROVE Abstract!RemoveFirst(q, id) = q
  BY <1>1, <1>2, <1>4
<1> QED
  BY <1>3, <1>4

\* The queues without id.
Gone(que, id) == [s \in Side |-> [p \in Prices |-> Abstract!RemoveFirst(que[s][p], id)]]

\* remove_from_book takes id out of the queues.
LEMMA QueuesRemove ==
    ASSUME IInv, NEW id \in orders
    PROVE  QueuesOf(RemoveFromBook(book, id, order[id])) = Gone(QueuesOf(book), id)
<1> DEFINE s == order[id].side
           p == order[id].price
           que == QueuesOf(book)
           q == que[s][p]
           level == [orders |-> RemoveAt(q, Position(q, id)),
                     total_qty |-> book[s][p].total_qty - Remaining(order[id])]
           b == RemoveFromBook(book, id, order[id])
<1>1. Lined(que, order, orders) /\ BookType(book) /\ WellFormed(book, order, orders) /\ orders \subseteq OrderIds
  BY LinesNow, InvFacts
<1>2. /\ s \in Side /\ p \in Prices /\ p \in DOMAIN book[s] /\ Remaining(order[id]) \in Int
      /\ \E i \in DOMAIN q : q[i] = id
  BY <1>1, InvFacts DEF Lined, WellFormed
<1>3. q = book[s][p].orders /\ q \in Seq(OrderIds) /\ book[s][p].total_qty \in Int
  BY <1>1, <1>2 DEF QueuesOf, BookType, Level
<1>4. \A i, j \in DOMAIN q : q[i] = q[j] => i = j
  BY <1>1, <1>2 DEF Lined
<1>5. b = SetLevel(book, s, p, level)
  BY <1>2, <1>3 DEF RemoveFromBook
<1> HIDE DEF s, p, q, que, b
<1>6. Position(q, id) \in DOMAIN q /\ Abstract!RemoveFirst(q, id) = RemoveAt(q, Position(q, id))
  BY <1>2, <1>3, <1>4, FirstErased
<1>7. RemoveAt(q, Position(q, id)) \in Seq(OrderIds)
  <2>1. Position(q, id) \in 1 .. Len(q)
    BY <1>3, <1>6
  <2> QED
    BY <1>3, <2>1, RemoveAtValue
<1>8. level \in Level /\ level.orders = Abstract!RemoveFirst(q, id)
  <2>1. book[s][p].total_qty - Remaining(order[id]) \in Int
    BY <1>2, <1>3
  <2> QED
    BY <1>6, <1>7, <2>1 DEF Level
<1> HIDE DEF level
<1>9. QueuesOf(SetLevel(book, s, p, level)) =
          [t \in Side |-> [r \in Prices |->
              IF t = s /\ r = p THEN level.orders ELSE QueuesOf(book)[t][r]]]
  BY <1>1, <1>2, <1>8, QueuesSet
<1>10. ASSUME NEW t \in Side, NEW r \in Prices
       PROVE  (IF t = s /\ r = p THEN level.orders ELSE que[t][r]) = Abstract!RemoveFirst(que[t][r], id)
  <2>1. CASE t = s /\ r = p
    BY <1>8, <2>1 DEF q
  <2>2. CASE ~(t = s /\ r = p)
    <3>1. que[t][r] \in Seq(OrderIds) /\ \A i, j \in DOMAIN que[t][r] : que[t][r][i] = que[t][r][j] => i = j
      BY <1>1 DEF Lined
    <3>2. \A i \in DOMAIN que[t][r] : Open(order[que[t][r][i]], t, r)
      BY <1>1 DEF Lined
    <3>3. \A i \in DOMAIN que[t][r] : que[t][r][i] # id
      BY <2>2, <3>2 DEF Open, s, p
    <3> QED
      BY <2>2, <3>1, <3>3, FirstErased
  <2> QED
    BY <2>1, <2>2
<1> QED
  BY <1>5, <1>9, <1>10 DEF Gone, que, b
\* A queued order rests in the abstract book.
LEMMA RestingThere ==
    ASSUME IInv, Idle, NEW id \in orders
    PROVE  Abstract!Resting(id)
<1> DEFINE s == order[id].side
           p == order[id].price
           que == QueuesOf(book)
<1>1. s \in Side /\ p \in Prices /\ que[s][p] \in Seq(OrderIds) /\ \E i \in DOMAIN que[s][p] : que[s][p][i] = id
  BY LinesNow DEF Lined
<1>2. \E i \in 1 .. Len(que[s][p]) : que[s][p][i] = id
  BY <1>1
<1>3. Queues = que
  BY QueuesNow
<1> HIDE DEF s, p, que
<1> QED
  BY <1>1, <1>2, <1>3 DEF Abstract!Resting, Abstract!Queued, Abstract!Contains, Idle, s

\* cancel_order does what the abstract book does.
LEMMA CancelImplements ==
    ASSUME IInv, IInv', NEW id \in OrderIds, CancelOrder(id)
    PROVE  Abstract!Cancel(id)
<1>1. /\ Idle /\ Idle' /\ id \in orders
      /\ order' = [order EXCEPT ![id] = [order[id] EXCEPT !.status = "CANCELLED"]]
      /\ book' = RemoveFromBook(book, id, order[id])
  BY DEF CancelOrder, Idle
<1>2. Queues' = Gone(Queues, id)
  BY <1>1, QueuesNow, QueuesRemove
<1>3. Abstract!Resting(id)
  BY <1>1, RestingThere
<1>4. Abstract!Without(id) = Gone(Queues, id)
  BY <1>1 DEF Abstract!Without, Abstract!Unqueued, Abstract!Side, Side, Gone
<1>5. order' = [order EXCEPT ![id].status = "CANCELLED"]
  BY <1>1
<1> QED
  BY <1>1, <1>2, <1>3, <1>4, <1>5 DEF Abstract!Cancel

\* modify_order does what the abstract book does.
LEMMA ModifyImplements ==
    ASSUME IInv, IInv', NEW id \in OrderIds, NEW price \in Prices, NEW qty \in 1 .. MaxQty,
           ModifyOrder(id, price, qty)
    PROVE  Abstract!Amend(id, price, qty)
<1> DEFINE moved == Moved(order[id], price, qty)
           b == RemoveFromBook(book, id, order[id])
           s == order[id].side
<1>1. /\ Idle /\ Idle' /\ id \in orders /\ qty > order[id].filled_qty
      /\ order' = [order EXCEPT ![id] = moved]
      /\ book' = AddToBook(b, id, moved)
  BY DEF ModifyOrder, Requeued, Idle
<1>2. Queues = QueuesOf(book) /\ Queues' = QueuesOf(book') /\ QueuesOf(b) = Gone(Queues, id)
  BY <1>1, QueuesNow, QueuesRemove
<1>3. BookType(b)
  <2>1. \A x \in orders : order[x].side \in Side /\ Remaining(order[x]) \in Int
    BY InvFacts
  <2> QED
    BY <1>1, <2>1, InvFacts, RemoveOne
<1>4. /\ order[id] \in Order /\ Open(order[id], order[id].side, order[id].price) /\ Agrees(order[id])
      /\ order[id].status # "FILLED" /\ s \in Side
  BY <1>1, InvFacts DEF Open, IInv, StatusAgrees
<1>5. moved \in Order /\ moved.side = s /\ moved.price = price
  BY <1>1, <1>4, MovedValue
<1>6. order' = [order EXCEPT ![id].price = price, ![id].qty = qty]
  BY <1>1, InvFacts DEF Moved
<1> HIDE DEF moved, b
<1>7. QueuesOf(AddToBook(b, id, moved)) =
          [t \in Side |-> [r \in Prices |->
              IF t = moved.side /\ r = moved.price THEN Append(QueuesOf(b)[t][r], id) ELSE QueuesOf(b)[t][r]]]
  BY <1>3, <1>5, QueuesAdd
<1> DEFINE without == Gone(Queues, id)
           joined == [without EXCEPT ![s][price] = Append(@, id)]
<1>8. without = [t \in Side |-> [r \in Prices |-> without[t][r]]]
  BY DEF Gone
<1> HIDE DEF without
<1>9. joined = [t \in Side |-> [r \in Prices |->
                   IF t = s /\ r = price THEN Append(without[t][r], id) ELSE without[t][r]]]
  BY <1>4, <1>8
<1>10. QueuesOf(b) = without
  BY <1>2 DEF without
<1>11. Queues' = joined
  BY <1>1, <1>2, <1>5, <1>7, <1>9, <1>10
<1>12. Abstract!Resting(id)
  BY <1>1, RestingThere
<1>13. Abstract!Without(id) = without
  BY <1>1 DEF Abstract!Without, Abstract!Unqueued, Abstract!Side, Side, Gone, without
<1> HIDE DEF joined
<1>14. Queues' = [Abstract!Without(id) EXCEPT ![order[id].side][price] = Append(@, id)]
  BY <1>11, <1>13 DEF joined
<1> QED
  BY <1>1, <1>6, <1>12, <1>14 DEF Abstract!Amend
-----------------------------------------------------------------------------
(* Every step.                                                             *)

\* The promise in any state: what is promised to the order inc, and that a FOK is met.
Kept(inc, ord, que, prom) ==
    /\ prom.order = Abstract!MatchedOrders(ord, que, inc)
    /\ prom.queue = Abstract!MatchedQueue(ord, que, inc)
    /\ Met(ord, que, ord[inc])

\* PromiseKept, for the order that is being matched, is Kept.
LEMMA KeptNow ==
    ASSUME IInv, IsFiniteSet(OrderIds), ~Idle
    PROVE  PromiseKept <=> Kept(incoming, order, Queues, promised)
<1> DEFINE o == order[incoming]
           them == Others(Queues, o)
<1>1. incoming \in OrderIds
  BY DEF IInv, TypeOK, Idle
<1>2. Abstract!OpenQty(order, Abstract!Counterparties(order, Queues, o)) = Left(order, them)
  BY OpenQtyIsLeft, CounterpartiesAreOthers
<1>3. Left(order, them) \in Int /\ Remaining(o) \in Int
  <2>1. Queues = QueuesOf(book) /\ o.side \in Side
    BY <1>1, QueuesNow, InvFacts
  <2>2. them \subseteq orders
    BY <2>1, LinesNow, OthersByPrice
  <2>3. IsFiniteSet(them) /\ \A x \in them : Remaining(order[x]) \in Nat
    BY <2>2, InvFacts, FS_Subset
  <2> HIDE DEF them
  <2>4. Left(order, them) \in Nat
    BY <2>3, LeftNat
  <2> QED
    BY <1>1, <2>4, InvFacts
<1> QED
  BY <1>2, <1>3 DEF PromiseKept, Kept, Met

\* add_order starts as the abstract Add, whose outcome it is promised.
LEMMA AddImplements ==
    ASSUME IInv, Totals(book, order), DepthFinite(book), IsFiniteSet(OrderIds),
           NEW id \in OrderIds, NEW o \in Submittable, AddOrder(id, o),
           promised' = IF Idle' THEN NoPromise
                       ELSE [order |-> Abstract!MatchedOrders(order', Queues, id),
                             queue |-> Abstract!MatchedQueue(order', Queues, id)]
    PROVE  /\ Abstract!Add(id, o)
           /\ ~Idle' => Kept(incoming', order', Queues', promised')
<1> DEFINE entered == [order EXCEPT ![id] = o]
           que == Queues
           M == Abstract!MatchedOrders(entered, que, id)
           Q == Abstract!MatchedQueue(entered, que, id)
<1>1. /\ Idle /\ order[id] = Blank /\ book' = book
      /\ incoming' = IF Killed(o) THEN NoOrder ELSE id
  BY DEF AddOrder, Idle
<1>2. que = QueuesOf(book) /\ Queues' = que
  BY <1>1, QueuesNow
<1>3. /\ Abstract!Request(M[id]) = o
      /\ Killed(o) => order' = M /\ que = Q
      /\ ~Killed(o) => order' = entered /\ Met(entered, que, o)
  BY <1>2, AddOutcome
<1>4. Idle' <=> Killed(o)
  BY <1>1, NoOrderAssumption DEF Idle
<1>5. entered[id] = o
  BY DEF IInv, TypeOK
<1>6. Abstract!Blank = Blank
  BY DEF Abstract!Blank, Blank
<1> HIDE DEF entered, que, M, Q
<1>7. CASE Killed(o)
  <2>1. Abstract!Add(id, o)
    BY <1>1, <1>2, <1>3, <1>4, <1>6, <1>7 DEF Abstract!Add, entered, que, M, Q
  <2> QED
    BY <1>4, <1>7, <2>1
<1>8. CASE ~Killed(o)
  <2>1. promised'.order = M /\ promised'.queue = Q
    BY <1>3, <1>4, <1>8 DEF que, M, Q
  <2>2. Abstract!Add(id, o)
    BY <1>1, <1>2, <1>3, <1>4, <1>6, <1>8, <2>1 DEF Abstract!Add, entered, que, M, Q
  <2>3. Kept(incoming', order', Queues', promised')
    BY <1>1, <1>2, <1>3, <1>5, <1>8, <2>1 DEF Kept, M, Q
  <2> QED
    BY <2>2, <2>3
<1> QED
  BY <1>7, <1>8

\* An iteration of the loop changes neither the abstract book nor what it leads to.
LEMMA FillImplements ==
    ASSUME IInv, IInv', IsFiniteSet(OrderIds), Fill, UNCHANGED promised,
           Kept(incoming, order, Queues, promised)
    PROVE  ~Idle /\ ~Idle' /\ Kept(incoming', order', Queues', promised')
<1>1. PICK p, rid, qty, level : Trade(p, rid, qty, level)
  BY FillTrades
<1>2. ~Idle /\ ~Idle' /\ incoming' = incoming
  BY DEF Fill, Idle
<1>3. Queues = QueuesOf(book) /\ Queues' = QueuesOf(book')
  BY QueuesNow
<1>4. Met(order, QueuesOf(book), order[incoming])
  BY <1>3 DEF Kept
<1>5. /\ Abstract!MatchedOrders(order', QueuesOf(book'), incoming)
                  = Abstract!MatchedOrders(order, QueuesOf(book), incoming)
      /\ Abstract!MatchedQueue(order', QueuesOf(book'), incoming)
                  = Abstract!MatchedQueue(order, QueuesOf(book), incoming)
  BY <1>1, <1>4, TradeKeepsOutcome
<1>6. Met(order', QueuesOf(book'), order'[incoming])
  BY <1>1, <1>4, GiftStep
<1> QED
  BY <1>2, <1>3, <1>5, <1>6 DEF Kept

\* The call returns with what was promised.
LEMMA EndImplements ==
    ASSUME IInv, IsFiniteSet(OrderIds), EndOfCall, Kept(incoming, order, Queues, promised)
    PROVE  ~Idle /\ Idle' /\ order' = promised.order /\ Queues' = promised.queue
<1>1. ~Idle /\ Idle'
  BY DEF EndOfCall, Rest, Discard, Complete, MatchingOver, Return, Idle
<1>2. Queues = QueuesOf(book) /\ Queues' = QueuesOf(book')
  BY QueuesNow
<1>3. Met(order, QueuesOf(book), order[incoming])
  BY <1>2 DEF Kept
<1> QED
  BY <1>1, <1>2, <1>3, EndOutcome DEF Kept
\* The same after a step.
LEMMA KeptNext ==
    ASSUME IInv', IsFiniteSet(OrderIds), ~Idle'
    PROVE  PromiseKept' <=> Kept(incoming', order', Queues', promised')
<1> DEFINE o == order'[incoming']
           them == Others(Queues', o)
<1>1. incoming' \in OrderIds
  BY DEF IInv, TypeOK, Idle
<1>2. Abstract!OpenQty(order', Abstract!Counterparties(order', Queues', o)) = Left(order', them)
  BY OpenQtyIsLeft, CounterpartiesAreOthers
<1>3. Left(order', them) \in Int /\ Remaining(o) \in Int
  <2>1. Queues' = QueuesOf(book') /\ o.side \in Side
    BY <1>1, QueuesNow, NextFacts
  <2>2. them \subseteq orders'
    BY <2>1, LinesNext, OthersByPrice
  <2>3. IsFiniteSet(them) /\ \A x \in them : Remaining(order'[x]) \in Nat
    BY <2>2, NextFacts, FS_Subset
  <2> HIDE DEF them
  <2>4. Left(order', them) \in Nat
    BY <2>3, LeftNat
  <2> QED
    BY <1>1, <2>4, NextFacts
<1> QED
  BY <1>2, <1>3 DEF PromiseKept, Kept, Met

\* Every step keeps the promise and is a step, or none, of the abstract book.
LEMMA StepImplements ==
    ASSUME TotalsInv, DepthFinite(book), PromiseKept, IInv', IsFiniteSet(OrderIds),
           [PromisingNext]_<<vars, promised>>
    PROVE  PromiseKept' /\ [Abstract!Next]_<<IF Idle THEN order ELSE promised.order,
                                            IF Idle THEN Queues ELSE promised.queue>>
<1> DEFINE shown == <<IF Idle THEN order ELSE promised.order, IF Idle THEN Queues ELSE promised.queue>>
<1>1. IInv /\ Totals(book, order)
  BY TotalsIsLevelTotals DEF TotalsInv
<1>2. ~Idle => Kept(incoming, order, Queues, promised)
  BY <1>1, KeptNow
<1>3. Idle' => PromiseKept'
  BY DEF PromiseKept
<1>4. (~Idle' /\ Kept(incoming', order', Queues', promised')) => PromiseKept'
  BY KeptNext
<1>5. ASSUME NEW id \in OrderIds, NEW o \in Submittable, AddOrder(id, o),
             promised' = IF Idle' THEN NoPromise
                         ELSE [order |-> Abstract!MatchedOrders(order', Queues, id),
                               queue |-> Abstract!MatchedQueue(order', Queues, id)]
      PROVE  PromiseKept' /\ Abstract!Next
  <2>1. Abstract!Add(id, o) /\ (~Idle' => Kept(incoming', order', Queues', promised'))
    BY <1>1, <1>5, AddImplements
  <2>2. o \in Abstract!Submittable
    BY DEF Submittable, Abstract!Submittable, Side, Abstract!Side, OrderType, Abstract!OrderType
  <2> QED
    BY <1>3, <1>4, <2>1, <2>2 DEF Abstract!Next
<1>6. ASSUME Fill, UNCHANGED promised PROVE PromiseKept' /\ UNCHANGED shown
  <2>1. ~Idle
    BY <1>6 DEF Fill, Idle
  <2>2. ~Idle' /\ Kept(incoming', order', Queues', promised')
    BY <1>1, <1>2, <1>6, <2>1, FillImplements
  <2> QED
    BY <1>4, <1>6, <2>1, <2>2
<1>7. ASSUME EndOfCall PROVE PromiseKept' /\ UNCHANGED shown
  <2>1. ~Idle
    BY <1>7 DEF EndOfCall, Rest, Discard, Complete, MatchingOver, Idle
  <2>2. Idle' /\ order' = promised.order /\ Queues' = promised.queue
    BY <1>1, <1>2, <1>7, <2>1, EndImplements
  <2> QED
    BY <1>3, <2>1, <2>2
<1>8. ASSUME NEW id \in OrderIds, CancelOrder(id) PROVE PromiseKept' /\ Abstract!Next
  <2>1. Idle' /\ Abstract!Cancel(id)
    BY <1>1, <1>8, CancelImplements DEF CancelOrder, Idle
  <2> QED
    BY <1>3, <2>1 DEF Abstract!Next
<1>9. ASSUME NEW id \in OrderIds, NEW price \in Prices, NEW qty \in 1 .. MaxQty, ModifyOrder(id, price, qty)
      PROVE  PromiseKept' /\ Abstract!Next
  <2>1. Idle' /\ Abstract!Amend(id, price, qty)
    BY <1>1, <1>9, ModifyImplements DEF ModifyOrder, Idle
  <2> QED
    BY <1>3, <2>1 DEF Abstract!Next
<1>10. ASSUME UNCHANGED <<vars, promised>> PROVE PromiseKept' /\ UNCHANGED shown
  <2>1. Idle' = Idle /\ Queues' = Queues /\ order' = order /\ promised' = promised
        /\ incoming' = incoming
    BY <1>10 DEF vars, Idle, Queues
  <2>2. ~Idle' => Kept(incoming', order', Queues', promised')
    BY <1>2, <2>1
  <2> QED
    BY <1>3, <1>4, <2>1, <2>2
<1> QED
  BY <1>5, <1>6, <1>7, <1>8, <1>9, <1>10 DEF PromisingNext

\* The concrete part of a step that carries a promise is a step of the book.
LEMMA PromisingIsStep == [PromisingNext]_<<vars, promised>> => [Next]_vars
  BY DEF PromisingNext, Next, vars

\* The promise is an addition: it takes no behaviour from the book.
THEOREM PromisingIsBook == PromisingSpec => Spec
  BY PromisingIsStep, PTL DEF PromisingSpec, PromisingInit, Spec

\* At every moment of an add_order call, matching what is left of the order against the
\* book as it is leads to the outcome that was due when the call began.
THEOREM PromiseInvariance ==
    ASSUME IsFiniteSet(OrderIds)
    PROVE  PromisingSpec => []PromiseKept
<1>1. PromisingInit => PromiseKept
  BY DEF PromisingInit, Init, PromiseKept, Idle
<1>2. /\ TotalsInv /\ DepthFinite(book) /\ (TotalsInv /\ DepthFinite(book))' /\ PromiseKept
      /\ [PromisingNext]_<<vars, promised>>
      => PromiseKept'
  <2> SUFFICES ASSUME TotalsInv, DepthFinite(book), (TotalsInv /\ DepthFinite(book))', PromiseKept,
                      [PromisingNext]_<<vars, promised>>
               PROVE  PromiseKept'
    OBVIOUS
  <2>1. IInv'
    BY DEF TotalsInv
  <2> QED
    BY <2>1, StepImplements
<1> QED
  BY <1>1, <1>2, PromisingIsBook, TotalsInvariance, PTL DEF PromisingSpec

\* The matching engine implements price-time priority.
THEOREM PriceTimePriorityImplemented ==
    ASSUME IsFiniteSet(OrderIds)
    PROVE  PromisingSpec => PriceTimePriorityHolds
<1>1. PromisingInit => Abstract!Init
  <2> SUFFICES ASSUME PromisingInit PROVE Abstract!Init
    OBVIOUS
  <2>1. Idle /\ order = [id \in OrderIds |-> Blank] /\ book = [s \in Side |-> << >>]
    BY DEF PromisingInit, Init, Idle
  <2>2. Queues = [s \in Side |-> [p \in Prices |-> << >>]]
    BY <2>1 DEF Queues
  <2>3. Abstract!Blank = Blank /\ Abstract!Side = Side
    BY DEF Abstract!Blank, Blank, Abstract!Side, Side
  <2> QED
    BY <2>1, <2>2, <2>3 DEF Abstract!Init, Abstract!NoQueues
<1>2. /\ TotalsInv /\ DepthFinite(book) /\ (TotalsInv /\ DepthFinite(book))' /\ PromiseKept
      /\ [PromisingNext]_<<vars, promised>>
      => [Abstract!Next]_<<IF Idle THEN order ELSE promised.order, IF Idle THEN Queues ELSE promised.queue>>
  <2> SUFFICES ASSUME TotalsInv, DepthFinite(book), (TotalsInv /\ DepthFinite(book))', PromiseKept,
                      [PromisingNext]_<<vars, promised>>
               PROVE  [Abstract!Next]_<<IF Idle THEN order ELSE promised.order,
                                        IF Idle THEN Queues ELSE promised.queue>>
    OBVIOUS
  <2>1. IInv'
    BY DEF TotalsInv
  <2> QED
    BY <2>1, StepImplements
<1> QED
  BY <1>1, <1>2, PromisingIsBook, PromiseInvariance, TotalsInvariance, PTL
     DEF PromisingSpec, PriceTimePriorityHolds, Abstract!Spec
=============================================================================
