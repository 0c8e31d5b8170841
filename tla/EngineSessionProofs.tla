------------------------- MODULE EngineSessionProofs ------------------------
(***************************************************************************)
(* The commands of engine_cli, for any symbols, inputs, feed and logs: the *)
(* limits in force are explained, market prices follow the feed, one       *)
(* command at a time keeps the position within the limits, the logs end    *)
(* this session's history and the replies are true.                        *)
(*                                                                         *)
(* First the lemmas on Matching: an order takes no more than it asked for, *)
(* from others that give no more than they have left, and the orders that  *)
(* are filled leave their queues from the head.  They need that nobody     *)
(* rests twice in a book (Lined).  The session's invariant says it of all  *)
(* books together: an id rests in one place of one symbol.                 *)
(***************************************************************************)
EXTENDS EngineSession, CollectionTheorems

\* An order that order_store_ keeps.
Kept == [side : Side, type : OrderType, price : Prices \cup {0}, qty : Int, filled_qty : Int,
         status : OrderStatus]

Queues == [Side -> [Prices -> Seq(OrderIds)]]

\* An order that rests at that place of a book.
Waits(o, d, p) ==
    /\ o.side = d /\ o.price = p /\ o.type = "LIMIT" /\ o.status \in {"NEW", "PARTIALLY_FILLED"}
    /\ 0 <= o.filled_qty /\ o.filled_qty < o.qty

\* The queues of one book hold resting orders, none of them twice.
Lined(ord, que) ==
    /\ ord \in [OrderIds -> Kept] /\ que \in Queues
    /\ \A d \in Side, p \in Prices : \A i \in DOMAIN que[d][p] : Waits(ord[que[d][p][i]], d, p)
    /\ \A d \in Side, p \in Prices : \A i, j \in DOMAIN que[d][p] : que[d][p][i] = que[d][p][j] => i = j

\* The entries of the two logs.
Trade == [symbol : Symbols, trade_id : Int, maker : OrderIds, qty : Int]
Told == [id : OrderIds, filled_qty : Int, status : OrderStatus]

Simulator == [limits : Limits, last_id : Nat, order : [OrderIds -> Kept], queue : [Symbols -> Queues],
              traded : [Symbols -> Nat], net : [Symbols -> Int],
              totals : [orders : Nat, trades : Nat, rejects : Nat], marks : [Symbols -> Int]]

\* No order rests in the books of two symbols, and none that is still to come.
Apart(sim) ==
    /\ \A s, t \in Symbols, d \in Side, p \in Prices :
          \A i \in DOMAIN sim.queue[s][d][p], j \in DOMAIN sim.queue[t][d][p] :
              sim.queue[s][d][p][i] = sim.queue[t][d][p][j] => s = t
    /\ \A s \in Symbols, d \in Side, p \in Prices :
          \A i \in DOMAIN sim.queue[s][d][p] : sim.queue[s][d][p][i] <= sim.last_id

Types ==
    /\ g_sim \in Simulator /\ g_limits \in Limits /\ agreed \in Limits /\ loosest \in Int
    /\ g_feed_idx \in 0 .. Len(Feed) /\ lapped \in BOOLEAN /\ mixed \in BOOLEAN
    /\ g_trade_log \in Seq(Trade) /\ g_order_log \in Seq(Told)

Books == Apart(g_sim) /\ \A s \in Symbols : Lined(g_sim.order, g_sim.queue[s])

\* The trade log is numbered to its end, symbol by symbol.
Newer(log, i) == {j \in Later(log, i) : log[j].symbol = log[i].symbol}

Numbered(log, traded) ==
    \A i \in DOMAIN log : log[i].trade_id = traded[log[i].symbol] - Cardinality(Newer(log, i))

\* The newest entry of an order is what that order is now.
Tells(log, ord) ==
    \A i \in DOMAIN log :
        (\A j \in Later(log, i) : log[j].id # log[i].id) => log[i] = Entry(log[i].id, ord[log[i].id])

Logs ==
    /\ Len(g_trade_log) = Min({g_sim.totals.trades, MaxLog})
    /\ Numbered(g_trade_log, g_sim.traded)
    /\ Tells(g_order_log, g_sim.order)

IInv == Types /\ Books /\ Logs
-----------------------------------------------------------------------------
(* What an order takes from the orders that rest in a book.                *)

\* Ids are counted from 1.
LEMMA Ids ==
    /\ IsFiniteSet(OrderIds) /\ Cardinality(OrderIds) \in Nat
    /\ OrderIds = 1 .. Cardinality(OrderIds) /\ OrderIds \subseteq Nat
<1>1. IsFiniteSet(OrderIds) /\ OrderIds = 1 .. Cardinality(OrderIds)
  BY IdsAssumption
<1>2. Cardinality(OrderIds) \in Nat
  BY <1>1, FS_CardinalityType
<1> DEFINE n == Cardinality(OrderIds)
<1>3. 1 .. n \subseteq Nat
  BY <1>2
<1> QED
  BY <1>1, <1>2, <1>3

\* The fields of a kept order.
LEMMA KeptFields ==
    ASSUME NEW o \in Kept
    PROVE  /\ o.side \in Side /\ o.type \in OrderType /\ o.price \in Prices \cup {0} /\ o.qty \in Int
           /\ o.filled_qty \in Int /\ o.status \in OrderStatus /\ Remaining(o) \in Int
           /\ Opposite(o.side) \in Side
  BY DEF Kept, Remaining, Opposite, Side

\* What is resting has something left.
LEMMA WaitsLeft ==
    ASSUME NEW o \in Kept, NEW d, NEW p, Waits(o, d, p)
    PROVE  Remaining(o) \in Nat /\ Remaining(o) > 0 /\ o.filled_qty \in Nat
<1>1. o.qty \in Int /\ o.filled_qty \in Int /\ 0 <= o.filled_qty /\ o.filled_qty < o.qty
  BY KeptFields DEF Waits
<1> QED
  BY <1>1 DEF Remaining

\* The place of an order that trades with o.
There(ord, que, o, y) ==
    LET d == Opposite(o.side)
        p == ord[y].price
    IN  /\ y \in OrderIds /\ d \in Side /\ p \in Prices /\ Waits(ord[y], d, p)
        /\ o.type = "MARKET" \/ Reaches(o.side, o.price, p)
        /\ que[d][p] \in Seq(OrderIds)
        /\ \E i \in DOMAIN que[d][p] : que[d][p][i] = y

\* It rests on the other side, at a price that the order reaches.
LEMMA Them ==
    ASSUME NEW ord, NEW que, Lined(ord, que), NEW o \in Kept, NEW y \in Counterparties(ord, que, o)
    PROVE  There(ord, que, o, y)
<1> DEFINE d == Opposite(o.side)
<1>1. d \in Side
  BY KeptFields
<1>2. PICK p \in Prices : (o.type = "MARKET" \/ Reaches(o.side, o.price, p)) /\ y \in ToSet(que[d][p])
  BY DEF Counterparties
<1>3. que[d][p] \in Seq(OrderIds)
  BY <1>1, <1>2 DEF Lined, Queues
<1>4. PICK i \in DOMAIN que[d][p] : que[d][p][i] = y
  BY <1>2 DEF ToSet
<1>5. Waits(ord[y], d, p)
  BY <1>1, <1>2, <1>4 DEF Lined
<1>6. ord[y].price = p
  BY <1>5 DEF Waits
<1>7. y \in OrderIds
  BY <1>3, <1>4
<1> QED
  BY <1>1, <1>2, <1>3, <1>4, <1>5, <1>6, <1>7 DEF There

\* All those are taken into account.
LEMMA ThemAll ==
    ASSUME NEW ord, NEW que, Lined(ord, que), NEW o, NEW p \in Prices,
           o.type = "MARKET" \/ Reaches(o.side, o.price, p), NEW i \in DOMAIN que[Opposite(o.side)][p]
    PROVE  que[Opposite(o.side)][p][i] \in Counterparties(ord, que, o)
  BY DEF Counterparties, ToSet

LEMMA ThemFinite ==
    ASSUME NEW ord, NEW que, Lined(ord, que), NEW o \in Kept
    PROVE  /\ IsFiniteSet(Counterparties(ord, que, o)) /\ Counterparties(ord, que, o) \subseteq OrderIds
           /\ \A y \in Counterparties(ord, que, o) :
                 ord[y] \in Kept /\ Remaining(ord[y]) \in Nat /\ Remaining(ord[y]) > 0 /\ ord[y].filled_qty \in Nat
<1>1. \A y \in Counterparties(ord, que, o) : There(ord, que, o, y)
  BY Them
<1>2. Counterparties(ord, que, o) \subseteq OrderIds
  BY <1>1 DEF There
<1>3. IsFiniteSet(Counterparties(ord, que, o))
  BY <1>2, Ids, FS_Subset
<1>4. ASSUME NEW y \in Counterparties(ord, que, o)
      PROVE  ord[y] \in Kept /\ Remaining(ord[y]) \in Nat /\ Remaining(ord[y]) > 0 /\ ord[y].filled_qty \in Nat
  <2>1. ord[y] \in Kept
    BY <1>2 DEF Lined
  <2> QED
    BY <1>1, <2>1, WaitsLeft DEF There
<1> QED
  BY <1>2, <1>3, <1>4

\* The priority among orders, as a relation.
Priority(ord, que, S) == {b \in S \X S : Precedes(ord, que, b[1], b[2])}

\* Those that trade with an order are served one after the other.
LEMMA Served ==
    ASSUME NEW ord, NEW que, Lined(ord, que), NEW o \in Kept, NEW S, S \subseteq Counterparties(ord, que, o)
    PROVE  LET B == Priority(ord, que, S)
           IN  /\ \A x, y \in S : <<x, y>> \in B <=> Precedes(ord, que, x, y)
               /\ \A x \in S : <<x, x>> \notin B
               /\ \A x, y, z \in S : <<x, y>> \in B /\ <<y, z>> \in B => <<x, z>> \in B
               /\ \A x, y \in S : x # y => <<x, y>> \in B \/ <<y, x>> \in B
<1> DEFINE B == Priority(ord, que, S)
           d == Opposite(o.side)
           Q(p) == que[d][p]
<1>1. \A x, y \in S : <<x, y>> \in B <=> Precedes(ord, que, x, y)
  BY DEF Priority
<1>2. d \in Side
  BY KeptFields
<1>3. \A x \in S : There(ord, que, o, x)
  BY Them
<1>4. \A x \in S : /\ ord[x].side = d /\ ord[x].price \in Prices /\ Q(ord[x].price) \in Seq(OrderIds)
                    /\ \E i \in DOMAIN Q(ord[x].price) : Q(ord[x].price)[i] = x
  BY <1>3 DEF There, Waits
<1>5. \A p \in Prices : \A i, j \in DOMAIN Q(p) : Q(p)[i] = Q(p)[j] => i = j
  BY <1>2 DEF Lined
<1>6. \A x, y \in S : Precedes(ord, que, x, y) <=>
          \/ Better(d, ord[x].price, ord[y].price)
          \/ /\ ord[x].price = ord[y].price
             /\ \E i, j \in DOMAIN Q(ord[x].price) : i < j /\ Q(ord[x].price)[i] = x /\ Q(ord[x].price)[j] = y
  BY <1>4 DEF Precedes
<1>7. \A x \in S : ord[x].price \in Int /\ DOMAIN Q(ord[x].price) \subseteq Int
  BY <1>4, PricesAssumption
<1> HIDE DEF B, d, Q
<1>8. ASSUME NEW x \in S PROVE ~Precedes(ord, que, x, x)
  <2>1. ~Better(d, ord[x].price, ord[x].price)
    BY <1>7 DEF Better
  <2>2. ASSUME NEW i \in DOMAIN Q(ord[x].price), NEW j \in DOMAIN Q(ord[x].price), i < j,
               Q(ord[x].price)[i] = x, Q(ord[x].price)[j] = x
        PROVE  FALSE
    <3>1. i = j /\ i \in Int
      BY <1>4, <1>5, <1>7, <2>2
    <3> QED
      BY <2>2, <3>1
  <2> QED
    BY <1>6, <2>1, <2>2
<1>9. ASSUME NEW x \in S, NEW y \in S, NEW z \in S, Precedes(ord, que, x, y), Precedes(ord, que, y, z)
      PROVE  Precedes(ord, que, x, z)
  <2> DEFINE a == ord[x].price
             b == ord[y].price
             c == ord[z].price
  <2>1. a \in Int /\ b \in Int /\ c \in Int
    BY <1>7
  <2>2. Better(d, a, b) \/ a = b
    BY <1>6, <1>9
  <2>3. Better(d, b, c) \/ b = c
    BY <1>6, <1>9
  <2>4. CASE Better(d, a, b) \/ Better(d, b, c)
    <3>1. Better(d, a, c)
      BY <2>1, <2>2, <2>3, <2>4 DEF Better
    <3> QED
      BY <1>6, <3>1
  <2>5. CASE ~Better(d, a, b) /\ ~Better(d, b, c)
    <3>1. a = b /\ b = c
      BY <2>2, <2>3, <2>5
    <3>2. PICK i, j \in DOMAIN Q(a) : i < j /\ Q(a)[i] = x /\ Q(a)[j] = y
      BY <1>6, <1>9, <2>5
    <3>3. PICK k, l \in DOMAIN Q(b) : k < l /\ Q(b)[k] = y /\ Q(b)[l] = z
      BY <1>6, <1>9, <2>5
    <3>4. j = k
      BY <1>4, <1>5, <3>1, <3>2, <3>3
    <3>5. i \in Int /\ j \in Int /\ l \in Int
      BY <1>7, <3>1, <3>2, <3>3
    <3>6. i < l
      BY <3>2, <3>3, <3>4, <3>5
    <3> QED
      BY <1>6, <3>1, <3>2, <3>3, <3>6
  <2> QED
    BY <2>4, <2>5
<1>10. ASSUME NEW x \in S, NEW y \in S, x # y
       PROVE  Precedes(ord, que, x, y) \/ Precedes(ord, que, y, x)
  <2>1. CASE ord[x].price # ord[y].price
    <3>1. Better(d, ord[x].price, ord[y].price) \/ Better(d, ord[y].price, ord[x].price)
      BY <1>7, <2>1 DEF Better
    <3> QED
      BY <1>6, <3>1
  <2>2. CASE ord[x].price = ord[y].price
    <3>1. PICK i \in DOMAIN Q(ord[x].price) : Q(ord[x].price)[i] = x
      BY <1>4
    <3>2. PICK j \in DOMAIN Q(ord[x].price) : Q(ord[x].price)[j] = y
      BY <1>4, <2>2
    <3>3. i < j \/ j < i
      BY <1>7, <1>10, <3>1, <3>2
    <3> QED
      BY <1>6, <2>2, <3>1, <3>2, <3>3
  <2> QED
    BY <2>1, <2>2
<1> QED
  BY <1>1, <1>8, <1>9, <1>10 DEF B

\* What is left of some of those.
LEMMA OpenQtyOf ==
    ASSUME NEW ord, NEW que, Lined(ord, que), NEW o \in Kept, NEW S, S \subseteq Counterparties(ord, que, o)
    PROVE  LET them == Counterparties(ord, que, o)
           IN  /\ OpenQty(ord, S) = SumFunctionOnSet([y \in them |-> Remaining(ord[y])], S)
               /\ OpenQty(ord, S) \in Nat /\ IsFiniteSet(S)
<1> DEFINE them == Counterparties(ord, que, o)
           f == [y \in them |-> Remaining(ord[y])]
           g == [y \in S |-> Remaining(ord[y])]
<1>1. IsFiniteSet(S)
  BY ThemFinite, FS_Subset
<1>2. \A y \in S : g[y] = f[y] /\ f[y] \in Nat
  BY ThemFinite
<1>3. OpenQty(ord, S) = SumFunctionOnSet(g, S)
  BY DEF OpenQty
<1> HIDE DEF them, f, g
<1>4. SumFunctionOnSet(g, S) = SumFunctionOnSet(f, S)
  BY <1>1, <1>2, SumEqual
<1>5. SumFunctionOnSet(f, S) \in Nat
  BY <1>1, <1>2, SumNat
<1> QED
  BY <1>1, <1>3, <1>4, <1>5 DEF them, f

Before(ord, que, o, y) == {x \in Counterparties(ord, que, o) : Precedes(ord, que, x, y)}
Ahead(ord, que, o, y) == OpenQty(ord, Before(ord, que, o, y))

LEMMA AheadNat ==
    ASSUME NEW ord, NEW que, Lined(ord, que), NEW o \in Kept, NEW y
    PROVE  Ahead(ord, que, o, y) \in Nat
<1>1. Before(ord, que, o, y) \subseteq Counterparties(ord, que, o)
  BY DEF Before
<1> QED
  BY <1>1, OpenQtyOf DEF Ahead

Killed(ord, que, o) == o.type = "FOK" /\ OpenQty(ord, Counterparties(ord, que, o)) < Remaining(o)

\* What an order gives, as a number.
LEMMA GivenValue ==
    ASSUME NEW ord, NEW que, Lined(ord, que), NEW o \in Kept, NEW y
    PROVE  LET wanted == Remaining(o) - Ahead(ord, que, o, y)
           IN  Given(ord, que, o, y) =
                   IF y \notin Counterparties(ord, que, o) \/ Killed(ord, que, o) \/ wanted <= 0 THEN 0
                   ELSE IF wanted < Remaining(ord[y]) THEN wanted ELSE Remaining(ord[y])
<1> DEFINE wanted == Remaining(o) - Ahead(ord, que, o, y)
           them == Counterparties(ord, que, o)
           rest == IF wanted <= 0 THEN 0 ELSE wanted
<1>1. Given(ord, que, o, y) =
          IF y \notin them \/ Killed(ord, que, o) THEN 0
          ELSE Min({Remaining(ord[y]), Max({0, wanted})})
  BY DEF Given, Killed, Ahead, Before
<1>2. wanted \in Int
  BY AheadNat, KeptFields
<1>3. y \in them => Remaining(ord[y]) \in Nat /\ Remaining(ord[y]) > 0
  BY ThemFinite
<1> HIDE DEF wanted, them
<1>4. Max({0, wanted}) = rest
  BY <1>2, PairExtrema
<1>5. y \in them => Min({Remaining(ord[y]), rest}) = IF Remaining(ord[y]) < rest THEN Remaining(ord[y]) ELSE rest
  BY <1>2, <1>3, PairExtrema
<1> QED
  BY <1>1, <1>2, <1>3, <1>4, <1>5 DEF wanted, them

\* It is no more than it has left, and with what is ahead of it no more than is asked for.
LEMMA GivenBounds ==
    ASSUME NEW ord, NEW que, Lined(ord, que), NEW o \in Kept, NEW y
    PROVE  LET g == Given(ord, que, o, y)
           IN  /\ g \in Nat
               /\ g > 0 => /\ y \in Counterparties(ord, que, o) /\ ~Killed(ord, que, o)
                           /\ g <= Remaining(ord[y]) /\ Ahead(ord, que, o, y) + g <= Remaining(o)
<1> DEFINE a == Ahead(ord, que, o, y)
           r == Remaining(ord[y])
           w == Remaining(o)
           g == Given(ord, que, o, y)
<1>1. w \in Int /\ a \in Nat
  BY AheadNat, KeptFields
<1>2. y \in Counterparties(ord, que, o) => r \in Nat /\ r > 0
  BY ThemFinite
<1>3. g = IF y \notin Counterparties(ord, que, o) \/ Killed(ord, que, o) \/ w - a <= 0 THEN 0
          ELSE IF w - a < r THEN w - a ELSE r
  BY GivenValue
<1> HIDE DEF a, r, w, g
<1>4. CASE y \notin Counterparties(ord, que, o) \/ Killed(ord, que, o) \/ w - a <= 0
  BY <1>3, <1>4 DEF g
<1>5. CASE ~(y \notin Counterparties(ord, que, o) \/ Killed(ord, que, o) \/ w - a <= 0)
  <2>1. g \in Nat /\ g <= r /\ a + g <= w
    BY <1>1, <1>2, <1>3, <1>5
  <2> QED
    BY <1>5, <2>1 DEF g, a, r, w
<1> QED
  BY <1>4, <1>5

\* One who is served before has left no more to take than it has.
LEMMA AheadGrows ==
    ASSUME NEW ord, NEW que, Lined(ord, que), NEW o \in Kept, NEW x \in Counterparties(ord, que, o),
           NEW y \in Counterparties(ord, que, o), Precedes(ord, que, x, y)
    PROVE  Ahead(ord, que, o, x) + Remaining(ord[x]) <= Ahead(ord, que, o, y)
<1> DEFINE them == Counterparties(ord, que, o)
           f == [z \in them |-> Remaining(ord[z])]
           X == Before(ord, que, o, x)
           Y == Before(ord, que, o, y)
<1>1. X \subseteq them /\ Y \subseteq them
  BY DEF Before
<1>2. x \notin X /\ X \cup {x} \subseteq Y
  <2> DEFINE B == Priority(ord, que, them)
  <2>1. them \subseteq Counterparties(ord, que, o)
    OBVIOUS
  <2>2. /\ \A u, v \in them : <<u, v>> \in B <=> Precedes(ord, que, u, v)
        /\ \A u \in them : <<u, u>> \notin B
        /\ \A u, v, z \in them : <<u, v>> \in B /\ <<v, z>> \in B => <<u, z>> \in B
    BY <2>1, Served
  <2> HIDE DEF B
  <2>3. \A u \in them : u \in X <=> Precedes(ord, que, u, x)
    BY DEF Before
  <2>4. \A u \in them : u \in Y <=> Precedes(ord, que, u, y)
    BY DEF Before
  <2> HIDE DEF X, Y
  <2> QED
    BY <1>1, <2>2, <2>3, <2>4
<1>3. Ahead(ord, que, o, x) = SumFunctionOnSet(f, X) /\ IsFiniteSet(X)
  BY <1>1, OpenQtyOf DEF Ahead
<1>4. Ahead(ord, que, o, y) = SumFunctionOnSet(f, Y) /\ IsFiniteSet(Y)
  BY <1>1, OpenQtyOf DEF Ahead
<1>5. \A z \in them : f[z] \in Nat /\ f[z] = Remaining(ord[z])
  BY ThemFinite
<1>6. X \cup {x} \subseteq them /\ x \in them
  BY <1>1
<1> HIDE DEF them, f, X, Y
<1>7. SumFunctionOnSet(f, X \cup {x}) = f[x] + SumFunctionOnSet(f, X)
  <2>1. \A z \in X \cup {x} : f[z] \in Int
    BY <1>5, <1>6
  <2> QED
    BY ONLY <1>2, <1>3, <2>1, SumInsert
<1>8. SumFunctionOnSet(f, X \cup {x}) <= SumFunctionOnSet(f, Y)
  <2>1. \A z \in Y : f[z] \in Nat
    BY <1>1, <1>5
  <2> QED
    BY ONLY <1>2, <1>4, <2>1, SumSubset
<1>9. SumFunctionOnSet(f, X) \in Int /\ f[x] \in Int
  BY <1>3, <1>5, <1>6, AheadNat
<1> QED
  BY <1>3, <1>4, <1>5, <1>6, <1>7, <1>8, <1>9

\* Those that are served before one that gives have given all they had.
LEMMA GivenInTurn ==
    ASSUME NEW ord, NEW que, Lined(ord, que), NEW o \in Kept, NEW x \in Counterparties(ord, que, o),
           NEW y, Precedes(ord, que, x, y), Given(ord, que, o, y) > 0
    PROVE  Given(ord, que, o, x) = Remaining(ord[x])
<1>1. /\ y \in Counterparties(ord, que, o) /\ ~Killed(ord, que, o) /\ Given(ord, que, o, y) \in Nat
      /\ Ahead(ord, que, o, y) + Given(ord, que, o, y) <= Remaining(o)
  BY GivenBounds
<1>2. Ahead(ord, que, o, x) + Remaining(ord[x]) <= Ahead(ord, que, o, y)
  BY <1>1, AheadGrows
<1>3. Remaining(o) \in Int /\ Ahead(ord, que, o, x) \in Nat /\ Ahead(ord, que, o, y) \in Nat
      /\ Remaining(ord[x]) \in Nat /\ Remaining(ord[x]) > 0
  BY AheadNat, KeptFields, ThemFinite
<1> DEFINE w == Remaining(o)
           a == Ahead(ord, que, o, x)
           r == Remaining(ord[x])
<1>4. Given(ord, que, o, x) = IF w - a <= 0 THEN 0 ELSE IF w - a < r THEN w - a ELSE r
  BY <1>1, GivenValue
<1>5. ~(w - a <= 0) /\ ~(w - a < r)
  BY <1>1, <1>2, <1>3
<1> HIDE DEF w, a, r
<1>6. Given(ord, que, o, x) = r
  BY <1>4, <1>5
<1> QED
  BY <1>6 DEF r

\* What each gives to the order id.
Gifts(ord, que, id) == [y \in OrderIds |-> IF y = id THEN 0 ELSE Given(ord, que, ord[id], y)]
Total(ord, que, id) == SumFunctionOnSet(Gifts(ord, que, id), OrderIds)

\* All together give no more than is asked for: the last one that gives says so.
LEMMA TotalBounds ==
    ASSUME NEW ord, NEW que, Lined(ord, que), NEW id \in OrderIds, Remaining(ord[id]) \in Nat
    PROVE  /\ Gifts(ord, que, id) \in [OrderIds -> Nat]
           /\ Total(ord, que, id) \in Nat /\ Total(ord, que, id) <= Remaining(ord[id])
<1> DEFINE o == ord[id]
           them == Counterparties(ord, que, o)
           g == Gifts(ord, que, id)
           S == {y \in OrderIds : g[y] > 0}
           f == [y \in them |-> Remaining(ord[y])]
<1>1. o \in Kept
  BY DEF Lined
<1>2. g \in [OrderIds -> Nat]
  BY <1>1, GivenBounds DEF Gifts
<1>3. \A y \in S : /\ y \in OrderIds /\ y # id /\ g[y] = Given(ord, que, o, y) /\ g[y] > 0 /\ g[y] \in Nat
                    /\ y \in them /\ g[y] <= Remaining(ord[y])
                    /\ Ahead(ord, que, o, y) + g[y] <= Remaining(o)
  BY <1>1, <1>2, GivenBounds DEF Gifts
<1>4. \A y \in OrderIds \ S : g[y] = 0
  BY <1>2
<1>5. S \subseteq OrderIds /\ S \subseteq them /\ IsFiniteSet(S)
  <2>1. S \subseteq OrderIds
    OBVIOUS
  <2>2. S \subseteq them
    BY <1>3
  <2> QED
    BY <2>1, <2>2, Ids, FS_Subset
<1>6. \A y \in them : f[y] = Remaining(ord[y]) /\ f[y] \in Nat
  BY <1>1, ThemFinite
<1> HIDE DEF o, them, g, S, f
<1>7. SumFunctionOnSet(g, OrderIds) = SumFunctionOnSet(g, S)
  BY <1>2, <1>3, <1>4, <1>5, Ids, SumSelect
<1>8. SumFunctionOnSet(g, OrderIds) \in Nat
  BY <1>2, Ids, SumNat
<1>9. CASE S = {}
  BY <1>1, <1>2, <1>7, <1>8, <1>9, SumEmpty DEF Total, g, o
<1>10. CASE S # {}
  <2> DEFINE B == Priority(ord, que, S)
  <2>1. /\ \A x, y \in S : <<x, y>> \in B <=> Precedes(ord, que, x, y)
        /\ \A x \in S : <<x, x>> \notin B
        /\ \A x, y, z \in S : <<x, y>> \in B /\ <<y, z>> \in B => <<x, z>> \in B
        /\ \A x, y \in S : x # y => <<x, y>> \in B \/ <<y, x>> \in B
    BY <1>1, <1>5, Served DEF them
  <2> HIDE DEF B
  <2>2. PICK z \in S : \A y \in S : y # z => <<y, z>> \in B
    BY ONLY <1>5, <1>10, <2>1, LastElement
  <2> DEFINE P == S \ {z}
             X == Before(ord, que, o, z)
  <2>3. P \subseteq X /\ X \subseteq them
    BY <1>5, <2>1, <2>2 DEF Before, them
  <2>4. Ahead(ord, que, o, z) = SumFunctionOnSet(f, X) /\ IsFiniteSet(X)
    BY <1>1, <2>3, OpenQtyOf DEF Ahead, f, them
  <2> HIDE DEF X
  <2>5. IsFiniteSet(P) /\ P \subseteq S /\ z \notin P /\ P \cup {z} = S
    BY <1>5, <2>2, FS_RemoveElement
  <2> HIDE DEF P
  <2>6. SumFunctionOnSet(g, S) = g[z] + SumFunctionOnSet(g, P)
    <3>1. \A y \in P \cup {z} : g[y] \in Int
      BY <1>3, <2>5
    <3>2. SumFunctionOnSet(g, P \cup {z}) = g[z] + SumFunctionOnSet(g, P)
      BY ONLY <2>5, <3>1, SumInsert
    <3> QED
      BY <2>5, <3>2
  <2>7. SumFunctionOnSet(g, P) <= SumFunctionOnSet(f, P)
    <3>1. \A y \in P : g[y] \in Int /\ f[y] \in Int /\ g[y] <= f[y]
      BY <1>3, <1>6, <2>5
    <3> QED
      BY ONLY <2>5, <3>1, SumMonotone
  <2>8. SumFunctionOnSet(f, P) <= SumFunctionOnSet(f, X)
    <3>1. \A y \in X : f[y] \in Nat
      BY <1>6, <2>3
    <3> QED
      BY ONLY <2>3, <2>4, <3>1, SumSubset
  <2>9. SumFunctionOnSet(g, P) \in Int /\ SumFunctionOnSet(f, P) \in Int /\ SumFunctionOnSet(f, X) \in Int
    <3>1. \A y \in P : g[y] \in Int /\ f[y] \in Int
      BY <1>3, <1>6, <2>5
    <3>2. \A y \in X : f[y] \in Int
      BY <1>6, <2>3
    <3> QED
      BY ONLY <2>4, <2>5, <3>1, <3>2, SumType
  <2>10. Ahead(ord, que, o, z) + g[z] <= Remaining(o) /\ g[z] \in Nat /\ Remaining(o) \in Int
    BY <1>1, <1>3, <2>2, KeptFields
  <2>11. SumFunctionOnSet(g, S) <= Remaining(o)
    BY <2>4, <2>6, <2>7, <2>8, <2>9, <2>10
  <2> QED
    BY <1>2, <1>7, <1>8, <2>11 DEF Total, g, o
<1> QED
  BY <1>9, <1>10

-----------------------------------------------------------------------------
(* The orders and the queues after an order has been matched.              *)

\* The order id has been entered, and waits for nothing yet.
Entered(ord, que, id) ==
    /\ Lined(ord, que) /\ id \in OrderIds
    /\ ord[id].status = "NEW" /\ ord[id].filled_qty = 0 /\ ord[id].qty > 0
    /\ ord[id].type = "LIMIT" => ord[id].price \in Prices
    /\ \A d \in Side, p \in Prices : \A i \in DOMAIN que[d][p] : que[d][p][i] # id

\* Neither a fill nor what is done with the rest changes what was asked for.
SameRequest(o, p) == p.side = o.side /\ p.type = o.type /\ p.price = o.price /\ p.qty = o.qty

LEMMA TakeValue ==
    ASSUME NEW o \in Kept, NEW qty \in Nat
    PROVE  LET t == Take(o, qty)
           IN  /\ t \in Kept /\ SameRequest(o, t) /\ t.filled_qty = o.filled_qty + qty
               /\ t.status = IF qty = 0 THEN o.status
                             ELSE IF Remaining(o) = qty THEN "FILLED" ELSE "PARTIALLY_FILLED"
               /\ qty = 0 => t = o
<1>1. o = [side |-> o.side, type |-> o.type, price |-> o.price, qty |-> o.qty,
           filled_qty |-> o.filled_qty, status |-> o.status]
  BY DEF Kept
<1>2. CASE qty = 0
  <2>1. Take(o, qty) = o
    BY <1>2 DEF Take
  <2>2. o.filled_qty + qty = o.filled_qty
    BY <1>2, KeptFields
  <2> QED
    BY <1>2, <2>1, <2>2 DEF SameRequest
<1>3. CASE qty # 0
  <2> DEFINE s == IF Remaining(o) = qty THEN "FILLED" ELSE "PARTIALLY_FILLED"
             f == o.filled_qty + qty
  <2>1. Take(o, qty) = [side |-> o.side, type |-> o.type, price |-> o.price, qty |-> o.qty,
                        filled_qty |-> f, status |-> s]
    BY <1>1, <1>3 DEF Take
  <2>2. f \in Int /\ s \in OrderStatus
    BY KeptFields DEF OrderStatus
  <2> HIDE DEF s, f
  <2>3. Take(o, qty) \in Kept
    BY <2>1, <2>2, KeptFields DEF Kept
  <2>4. SameRequest(o, Take(o, qty)) /\ Take(o, qty).filled_qty = f /\ Take(o, qty).status = s
    BY <2>1 DEF SameRequest
  <2> QED
    BY <1>3, <2>3, <2>4 DEF f, s
<1> QED
  BY <1>2, <1>3

LEMMA LeftoverValue ==
    ASSUME NEW o \in Kept
    PROVE  LET l == Leftover(o)
           IN  /\ l \in Kept /\ SameRequest(o, l) /\ l.filled_qty = o.filled_qty
               /\ l.status = IF Remaining(o) = 0 \/ o.type = "LIMIT" THEN o.status
                             ELSE IF o.type = "MARKET" THEN "CANCELLED" ELSE "EXPIRED"
<1>1. o = [side |-> o.side, type |-> o.type, price |-> o.price, qty |-> o.qty,
           filled_qty |-> o.filled_qty, status |-> o.status]
  BY DEF Kept
<1>2. CASE Remaining(o) = 0 \/ o.type = "LIMIT"
  BY <1>2 DEF Leftover, SameRequest
<1>3. CASE ~(Remaining(o) = 0 \/ o.type = "LIMIT")
  <2> DEFINE s == IF o.type = "MARKET" THEN "CANCELLED" ELSE "EXPIRED"
  <2>1. Leftover(o) = [side |-> o.side, type |-> o.type, price |-> o.price, qty |-> o.qty,
                       filled_qty |-> o.filled_qty, status |-> s]
    BY <1>1, <1>3 DEF Leftover
  <2>2. s \in OrderStatus
    BY DEF OrderStatus
  <2> HIDE DEF s
  <2>3. Leftover(o) \in Kept
    BY <2>1, <2>2, KeptFields DEF Kept
  <2>4. SameRequest(o, Leftover(o)) /\ Leftover(o).filled_qty = o.filled_qty /\ Leftover(o).status = s
    BY <2>1 DEF SameRequest
  <2> QED
    BY <1>3, <2>3, <2>4 DEF s
<1> QED
  BY <1>2, <1>3

LEMMA MatchedOrdersValue ==
    ASSUME NEW ord, NEW que, NEW id
    PROVE  MatchedOrders(ord, que, id) =
               [x \in OrderIds |-> IF x = id THEN Leftover(Take(ord[id], Total(ord, que, id)))
                                             ELSE Take(ord[x], Gifts(ord, que, id)[x])]
<1> DEFINE g == Gifts(ord, que, id)
<1>1. SumFunction(g) = SumFunctionOnSet(g, DOMAIN g)
  BY DEF SumFunction, SumFunctionOnSet
<1>2. DOMAIN g = OrderIds
  BY DEF Gifts
<1>3. MatchedOrders(ord, que, id) =
          [x \in OrderIds |-> IF x = id THEN Leftover(Take(ord[id], SumFunction(g))) ELSE Take(ord[x], g[x])]
  BY DEF MatchedOrders, Gifts
<1> QED
  BY <1>1, <1>2, <1>3 DEF Total

\* An order that rested has given, or is as it was.
LEMMA OthersAfter ==
    ASSUME NEW ord, NEW que, NEW id, Entered(ord, que, id), NEW x \in OrderIds, x # id
    PROVE  LET y == MatchedOrders(ord, que, id)[x]
               g == Gifts(ord, que, id)[x]
           IN  /\ y \in Kept /\ SameRequest(ord[x], y) /\ g \in Nat /\ y.filled_qty = ord[x].filled_qty + g
               /\ g = 0 => y = ord[x]
               /\ g > 0 => /\ y # ord[x] /\ x \in Counterparties(ord, que, ord[id])
                           /\ y.status = IF Remaining(ord[x]) = g THEN "FILLED" ELSE "PARTIALLY_FILLED"
                           /\ g = Given(ord, que, ord[id], x) /\ g <= Remaining(ord[x])
<1> DEFINE g == Gifts(ord, que, id)[x]
           y == MatchedOrders(ord, que, id)[x]
<1>1. y = Take(ord[x], g)
  BY MatchedOrdersValue
<1>2. g = Given(ord, que, ord[id], x)
  BY DEF Gifts
<1>3. ord[x] \in Kept /\ ord[id] \in Kept /\ Lined(ord, que)
  BY DEF Entered, Lined
<1>4. g \in Nat /\ (g > 0 => x \in Counterparties(ord, que, ord[id]) /\ g <= Remaining(ord[x]))
  BY <1>2, <1>3, GivenBounds
<1> HIDE DEF g, y
<1>5. /\ y \in Kept /\ SameRequest(ord[x], y) /\ y.filled_qty = ord[x].filled_qty + g
      /\ y.status = IF g = 0 THEN ord[x].status
                    ELSE IF Remaining(ord[x]) = g THEN "FILLED" ELSE "PARTIALLY_FILLED"
      /\ g = 0 => y = ord[x]
  BY <1>1, <1>3, <1>4, TakeValue
<1>6. g > 0 => y.filled_qty # ord[x].filled_qty
  <2>1. ord[x].filled_qty \in Int
    BY <1>3, KeptFields
  <2> QED
    BY <1>4, <1>5, <2>1
<1>7. g > 0 => g # 0
  BY <1>4
<1> QED
  BY <1>2, <1>4, <1>5, <1>6, <1>7 DEF g, y

\* The order itself has taken the total.
LEMMA SelfAfter ==
    ASSUME NEW ord, NEW que, NEW id, Entered(ord, que, id)
    PROVE  LET y == MatchedOrders(ord, que, id)[id]
               t == Total(ord, que, id)
           IN  /\ y \in Kept /\ SameRequest(ord[id], y) /\ y.filled_qty = t
               /\ t \in Nat /\ t <= ord[id].qty /\ ord[id].qty \in Nat
               /\ y.status = IF t = ord[id].qty THEN "FILLED"
                             ELSE IF ord[id].type = "LIMIT" THEN (IF t = 0 THEN "NEW" ELSE "PARTIALLY_FILLED")
                             ELSE IF ord[id].type = "MARKET" THEN "CANCELLED" ELSE "EXPIRED"
<1> DEFINE o == ord[id]
           t == Total(ord, que, id)
           u == Take(o, t)
           y == MatchedOrders(ord, que, id)[id]
<1>1. o \in Kept /\ id \in OrderIds /\ Lined(ord, que) /\ o.status = "NEW" /\ o.filled_qty = 0 /\ o.qty > 0
  BY DEF Entered, Lined
<1>2. o.qty \in Int
  BY <1>1, KeptFields
<1>3. Remaining(o) = o.qty /\ o.qty \in Nat
  BY <1>1, <1>2 DEF Remaining
<1>4. t \in Nat /\ t <= o.qty
  BY <1>1, <1>3, TotalBounds
<1>5. y = Leftover(u)
  BY <1>1, MatchedOrdersValue
<1> HIDE DEF o, t, y
<1>6. /\ u \in Kept /\ SameRequest(o, u) /\ u.filled_qty = o.filled_qty + t
      /\ u.status = IF t = 0 THEN o.status ELSE IF Remaining(o) = t THEN "FILLED" ELSE "PARTIALLY_FILLED"
  BY <1>1, <1>4, TakeValue
<1> HIDE DEF u
<1>7. u.filled_qty = t /\ Remaining(u) = o.qty - t
  <2>1. u.filled_qty = t
    BY <1>1, <1>4, <1>6
  <2> QED
    BY <1>6, <2>1 DEF Remaining, SameRequest
<1>8. /\ y \in Kept /\ SameRequest(u, y) /\ y.filled_qty = u.filled_qty
      /\ y.status = IF Remaining(u) = 0 \/ u.type = "LIMIT" THEN u.status
                    ELSE IF u.type = "MARKET" THEN "CANCELLED" ELSE "EXPIRED"
  BY <1>5, <1>6, LeftoverValue
<1>9. Remaining(u) = 0 <=> t = o.qty
  BY <1>3, <1>4, <1>7
<1>10. u.type = o.type
  BY <1>6 DEF SameRequest
<1>11. t = o.qty => t # 0
  BY <1>1, <1>3
<1>12. y.status = IF t = o.qty THEN "FILLED"
                  ELSE IF o.type = "LIMIT" THEN (IF t = 0 THEN "NEW" ELSE "PARTIALLY_FILLED")
                  ELSE IF o.type = "MARKET" THEN "CANCELLED" ELSE "EXPIRED"
  BY <1>1, <1>3, <1>6, <1>8, <1>9, <1>10, <1>11
<1>13. SameRequest(o, y)
  BY <1>6, <1>8 DEF SameRequest
<1> QED
  BY <1>3, <1>4, <1>7, <1>8, <1>12, <1>13 DEF o, t, y

\* The end of a queue.
LEMMA EndOf ==
    ASSUME NEW S, NEW q \in Seq(S), NEW k \in 0 .. Len(q)
    PROVE  LET r == SubSeq(q, k + 1, Len(q))
           IN  /\ r \in Seq(S) /\ Len(r) = Len(q) - k /\ DOMAIN r = 1 .. Len(q) - k
               /\ \A i \in DOMAIN r : i + k \in DOMAIN q /\ i + k > k /\ r[i] = q[i + k]
<1> DEFINE r == SubSeq(q, k + 1, Len(q))
<1>1. Len(q) \in Nat /\ k \in Nat /\ k <= Len(q) /\ DOMAIN q = 1 .. Len(q)
  OBVIOUS
<1>2. r = [i \in 1 .. Len(q) - k |-> q[i + k]]
  <2>1. SubSeq(q, k + 1, Len(q)) = [i \in 1 .. ((Len(q) - (k + 1)) + 1) |-> q[i + (k + 1) - 1]]
    BY <1>1
  <2>2. (Len(q) - (k + 1)) + 1 = Len(q) - k
    BY <1>1
  <2>3. \A i \in 1 .. Len(q) - k : i + (k + 1) - 1 = i + k
    BY <1>1
  <2> QED
    BY <2>1, <2>2, <2>3
<1>3. \A i \in 1 .. Len(q) - k : i + k \in 1 .. Len(q) /\ i + k > k
  BY <1>1
<1>4. Len(q) - k \in Nat
  BY <1>1
<1>5. \A i \in 1 .. Len(q) - k : r[i] = q[i + k] /\ r[i] \in S
  BY <1>1, <1>2, <1>3
<1> DEFINE n == Len(q) - k
<1>6. r = [i \in 1 .. n |-> q[i + k]] /\ n \in Nat /\ \A i \in 1 .. n : q[i + k] \in S
  BY <1>2, <1>4, <1>5
<1> HIDE DEF n, r
<1>7. r \in Seq(S) /\ Len(r) = n /\ DOMAIN r = 1 .. n
  BY <1>6
<1> QED
  BY <1>1, <1>3, <1>5, <1>7 DEF n, r

\* A queue with one more at its tail.
LEMMA Joined ==
    ASSUME NEW S, NEW q \in Seq(S), NEW x \in S
    PROVE  LET r == Append(q, x)
           IN  /\ r \in Seq(S)
               /\ \A i \in DOMAIN r : (i \in DOMAIN q /\ r[i] = q[i]) \/ (i \notin DOMAIN q /\ i = Len(q) + 1 /\ r[i] = x)
<1>1. Append(q, x) \in Seq(S) /\ Len(Append(q, x)) = Len(q) + 1 /\ Len(q) \in Nat
  OBVIOUS
<1>2. DOMAIN Append(q, x) = 1 .. Len(q) + 1 /\ DOMAIN q = 1 .. Len(q)
  BY <1>1
<1>3. \A i \in 1 .. Len(q) + 1 : Append(q, x)[i] = IF i <= Len(q) THEN q[i] ELSE x
  OBVIOUS
<1> QED
  BY <1>1, <1>2, <1>3

\* Where the orders that are done are the first of their queue, they leave it.
LEMMA UnservedValue ==
    ASSUME NEW S, NEW q \in Seq(S), NEW ord,
           \A i, j \in DOMAIN q : i < j /\ IsDone(ord[q[j]]) => IsDone(ord[q[i]])
    PROVE  \E k \in 0 .. Len(q) : /\ Unserved(q, ord) = SubSeq(q, k + 1, Len(q))
                                 /\ \A i \in DOMAIN q : i > k => ~IsDone(ord[q[i]])
<1> DEFINE H == {n \in 0 .. Len(q) : \A i \in 1 .. n : IsDone(ord[q[i]])}
           k == Max(H)
<1>1. Len(q) \in Nat /\ DOMAIN q = 1 .. Len(q)
  OBVIOUS
<1>2. 0 \in H
  BY <1>1
<1>3. H \subseteq 0 .. Len(q) /\ H \subseteq Int
  BY <1>1
<1>4. IsFiniteSet(H)
  <2>1. IsFiniteSet(0 .. Len(q))
    BY <1>1, FS_Interval
  <2> HIDE DEF H
  <2> QED
    BY <1>3, <2>1, FS_Subset
<1>5. k \in H /\ \A n \in H : k >= n
  <2> HIDE DEF H
  <2>1. H # {}
    BY <1>2
  <2> QED
    BY <1>3, <1>4, <2>1, MinMax
<1>6. Unserved(q, ord) = SubSeq(q, k + 1, Len(q))
  BY DEF Unserved
<1> HIDE DEF k
<1>7. ASSUME NEW i \in DOMAIN q, i > k, IsDone(ord[q[i]]) PROVE FALSE
  <2>1. \A j \in 1 .. i : j \in DOMAIN q /\ (j < i \/ j = i)
    BY <1>1
  <2>2. \A j \in 1 .. i : IsDone(ord[q[j]])
    BY <1>7, <2>1
  <2>3. i \in H
    BY <1>1, <2>2
  <2> HIDE DEF H
  <2>4. k \in Int /\ i \in Int /\ k >= i
    BY <1>3, <1>5, <2>3
  <2> QED
    BY <1>7, <2>4
<1>8. k \in 0 .. Len(q)
  BY <1>5
<1> QED
  BY <1>6, <1>7, <1>8

\* Filled orders are the first of their queue.
LEMMA DoneFirst ==
    ASSUME NEW ord, NEW que, NEW id, Entered(ord, que, id), NEW d \in Side, NEW p \in Prices,
           NEW i \in DOMAIN que[d][p], NEW j \in DOMAIN que[d][p], i < j,
           IsDone(MatchedOrders(ord, que, id)[que[d][p][j]])
    PROVE  IsDone(MatchedOrders(ord, que, id)[que[d][p][i]])
<1> DEFINE q == que[d][p]
           x == q[i]
           y == q[j]
           o == ord[id]
           g == Gifts(ord, que, id)
           after == MatchedOrders(ord, que, id)
<1>1. /\ Lined(ord, que) /\ q \in Seq(OrderIds) /\ x \in OrderIds /\ y \in OrderIds /\ x # id /\ y # id
      /\ Waits(ord[x], d, p) /\ Waits(ord[y], d, p) /\ o \in Kept /\ ord[x] \in Kept
  BY DEF Entered, Lined, Queues
<1>2. ~IsDone(ord[y])
  BY <1>1 DEF Waits, IsDone, Done
<1> HIDE DEF x, y, o, g, after
<1>3. g[y] \in Nat /\ g[y] # 0
  <2>1. g[y] \in Nat /\ (g[y] = 0 => after[y] = ord[y])
    BY <1>1, OthersAfter DEF g, after
  <2>2. IsDone(after[y])
    BY DEF after, y
  <2> QED
    BY <1>2, <2>1, <2>2
<1>4. y \in Counterparties(ord, que, o) /\ Given(ord, que, o, y) > 0
  <2>1. g[y] > 0
    BY <1>3
  <2> QED
    BY <1>1, <2>1, OthersAfter DEF g, o
<1>5. There(ord, que, o, y)
  BY <1>1, <1>4, Them
<1>6. d = Opposite(o.side) /\ (o.type = "MARKET" \/ Reaches(o.side, o.price, p))
  BY <1>1, <1>5 DEF There, Waits
<1>7. x \in Counterparties(ord, que, o)
  BY <1>1, <1>6, ThemAll DEF x
<1>8. Precedes(ord, que, x, y)
  <2>1. ord[x].side = d /\ ord[x].price = p /\ ord[y].price = p
    BY <1>1 DEF Waits
  <2>2. \E a, b \in DOMAIN q : a < b /\ q[a] = x /\ q[b] = y
    BY DEF x, y
  <2> QED
    BY <2>1, <2>2 DEF Precedes
<1>9. Given(ord, que, o, x) = Remaining(ord[x]) /\ Remaining(ord[x]) \in Nat /\ Remaining(ord[x]) > 0
  BY <1>1, <1>4, <1>7, <1>8, GivenInTurn, WaitsLeft
<1>10. g[x] = Given(ord, que, o, x)
  BY <1>1 DEF g, Gifts, o
<1>11. after[x].status = "FILLED"
  <2>1. g[x] > 0
    BY <1>9, <1>10
  <2>2. after[x].status = IF Remaining(ord[x]) = g[x] THEN "FILLED" ELSE "PARTIALLY_FILLED"
    BY <1>1, <2>1, OthersAfter DEF g, after
  <2> QED
    BY <1>9, <1>10, <2>2
<1> QED
  BY <1>11 DEF IsDone, Done, after, x

\* What stays of a queue waits there.
LEMMA StayersWait ==
    ASSUME NEW ord, NEW que, NEW id, Entered(ord, que, id), NEW d \in Side, NEW p \in Prices
    PROVE  LET after == MatchedOrders(ord, que, id)
               q == que[d][p]
               left == Unserved(q, after)
           IN  /\ left \in Seq(OrderIds)
               /\ \A i \in DOMAIN left : /\ left[i] # id /\ Waits(after[left[i]], d, p)
                                         /\ \E j \in DOMAIN q : q[j] = left[i]
               /\ \A i, j \in DOMAIN left : left[i] = left[j] => i = j
<1> DEFINE after == MatchedOrders(ord, que, id)
           q == que[d][p]
           left == Unserved(q, after)
<1>1. /\ q \in Seq(OrderIds) /\ ord \in [OrderIds -> Kept]
      /\ \A i \in DOMAIN q : q[i] \in OrderIds /\ q[i] # id /\ Waits(ord[q[i]], d, p)
      /\ \A i, j \in DOMAIN q : q[i] = q[j] => i = j
  BY DEF Entered, Lined, Queues
<1>2. \A i, j \in DOMAIN q : i < j /\ IsDone(after[q[j]]) => IsDone(after[q[i]])
  BY DoneFirst
<1>3. DOMAIN q = 1 .. Len(q) /\ Len(q) \in Nat
  BY <1>1
<1> HIDE DEF after, q
<1>4. PICK k \in 0 .. Len(q) : left = SubSeq(q, k + 1, Len(q)) /\ \A i \in DOMAIN q : i > k => ~IsDone(after[q[i]])
  BY <1>1, <1>2, UnservedValue
<1> HIDE DEF left
<1>5. /\ left \in Seq(OrderIds) /\ DOMAIN left = 1 .. Len(q) - k
      /\ \A i \in DOMAIN left : i + k \in DOMAIN q /\ i + k > k /\ left[i] = q[i + k]
  BY <1>1, <1>4, EndOf
<1>6. ASSUME NEW i \in DOMAIN q, i > k PROVE Waits(after[q[i]], d, p)
  <2> DEFINE x == q[i]
             g == Gifts(ord, que, id)[x]
  <2>1. x \in OrderIds /\ x # id /\ Waits(ord[x], d, p) /\ ord[x] \in Kept /\ ~IsDone(after[x])
    BY <1>1, <1>4, <1>6
  <2> HIDE DEF x, g
  <2>2. /\ after[x] \in Kept /\ SameRequest(ord[x], after[x]) /\ g \in Nat /\ after[x].filled_qty = ord[x].filled_qty + g
        /\ g = 0 => after[x] = ord[x]
        /\ g > 0 => /\ after[x].status = IF Remaining(ord[x]) = g THEN "FILLED" ELSE "PARTIALLY_FILLED"
                    /\ g <= Remaining(ord[x])
    BY <2>1, OthersAfter DEF after, g
  <2>3. CASE g = 0
    BY <2>1, <2>2, <2>3 DEF x
  <2>4. CASE g # 0
    <3>1. g > 0
      BY <2>2, <2>4
    <3>2. after[x].status = "PARTIALLY_FILLED" /\ Remaining(ord[x]) # g
      BY <2>1, <2>2, <3>1 DEF IsDone, Done
    <3>3. ord[x].qty \in Int /\ ord[x].filled_qty \in Int /\ 0 <= ord[x].filled_qty
      BY <2>1, KeptFields DEF Waits
    <3>4. ord[x].filled_qty + g < ord[x].qty /\ 0 <= ord[x].filled_qty + g
      BY <2>2, <3>1, <3>2, <3>3 DEF Remaining
    <3>5. Waits(after[x], d, p)
      BY <2>1, <2>2, <3>2, <3>4 DEF Waits, SameRequest
    <3> QED
      BY <3>5 DEF x
  <2> QED
    BY <2>3, <2>4
<1>7. ASSUME NEW i \in DOMAIN left, NEW j \in DOMAIN left, left[i] = left[j] PROVE i = j
  <2>1. i + k = j + k
    BY <1>1, <1>5, <1>7
  <2>2. i \in Int /\ j \in Int /\ k \in Int
    BY <1>3, <1>5
  <2> QED
    BY ONLY <2>1, <2>2
<1>8. ASSUME NEW i \in DOMAIN left
      PROVE  left[i] # id /\ Waits(after[left[i]], d, p) /\ \E j \in DOMAIN q : q[j] = left[i]
  BY <1>1, <1>5, <1>6
<1> QED
  BY <1>5, <1>7, <1>8 DEF after, q, left

\* Whether what is left of the order is kept.
Rests(ord, que, id) ==
    LET y == MatchedOrders(ord, que, id)[id] IN y.type = "LIMIT" /\ ~IsDone(y)

LEMMA RestsWaits ==
    ASSUME NEW ord, NEW que, NEW id, Entered(ord, que, id), Rests(ord, que, id)
    PROVE  LET y == MatchedOrders(ord, que, id)[id]
           IN  y.price \in Prices /\ Waits(y, y.side, y.price)
<1> DEFINE y == MatchedOrders(ord, que, id)[id]
           t == Total(ord, que, id)
<1>1. /\ SameRequest(ord[id], y) /\ y.filled_qty = t
      /\ t \in Nat /\ t <= ord[id].qty /\ ord[id].qty \in Nat
      /\ y.status = IF t = ord[id].qty THEN "FILLED"
                    ELSE IF ord[id].type = "LIMIT" THEN (IF t = 0 THEN "NEW" ELSE "PARTIALLY_FILLED")
                    ELSE IF ord[id].type = "MARKET" THEN "CANCELLED" ELSE "EXPIRED"
  BY SelfAfter
<1>2. y.type = "LIMIT" /\ ~IsDone(y)
  BY DEF Rests
<1> HIDE DEF y, t
<1>3. ord[id].type = "LIMIT" /\ ord[id].price \in Prices /\ y.price = ord[id].price /\ y.qty = ord[id].qty
  BY <1>1, <1>2 DEF SameRequest, Entered
<1>4. t # ord[id].qty /\ y.status \in {"NEW", "PARTIALLY_FILLED"}
  BY <1>1, <1>2, <1>3 DEF IsDone, Done
<1>5. 0 <= t /\ t < ord[id].qty
  BY <1>1, <1>4
<1> QED
  BY <1>1, <1>2, <1>3, <1>4, <1>5 DEF Waits, y

\* A queue keeps those that stay, and the new order joins one.
LEMMA MatchedQueueValue ==
    ASSUME NEW ord, NEW que, NEW id, NEW d \in Side, NEW p \in Prices
    PROVE  LET after == MatchedOrders(ord, que, id)
               left == Unserved(que[d][p], after)
           IN  MatchedQueue(ord, que, id)[d][p] =
                   IF Rests(ord, que, id) /\ d = after[id].side /\ p = after[id].price THEN Append(left, id) ELSE left
  BY DEF MatchedQueue, Rests

\* Those that wait at a place of the book.
Place(ord, q, d, p) ==
    /\ q \in Seq(OrderIds)
    /\ \A i \in DOMAIN q : Waits(ord[q[i]], d, p)
    /\ \A i, j \in DOMAIN q : q[i] = q[j] => i = j

LEMMA PlaceAfter ==
    ASSUME NEW ord, NEW que, NEW id, Entered(ord, que, id), NEW d \in Side, NEW p \in Prices
    PROVE  LET r == MatchedQueue(ord, que, id)[d][p]
           IN  /\ Place(MatchedOrders(ord, que, id), r, d, p)
               /\ \A i \in DOMAIN r : r[i] = id \/ \E j \in DOMAIN que[d][p] : que[d][p][j] = r[i]
<1> DEFINE after == MatchedOrders(ord, que, id)
           q == que[d][p]
           left == Unserved(q, after)
           r == MatchedQueue(ord, que, id)[d][p]
           joins == Rests(ord, que, id) /\ d = after[id].side /\ p = after[id].price
<1>1. /\ left \in Seq(OrderIds)
      /\ \A i \in DOMAIN left : left[i] # id /\ Waits(after[left[i]], d, p) /\ \E j \in DOMAIN q : q[j] = left[i]
      /\ \A i, j \in DOMAIN left : left[i] = left[j] => i = j
  BY StayersWait
<1>2. r = IF joins THEN Append(left, id) ELSE left
  BY MatchedQueueValue
<1>3. joins => Waits(after[id], d, p)
  BY RestsWaits
<1>4. id \in OrderIds
  BY DEF Entered
<1> HIDE DEF after, q, left, r, joins
<1>5. CASE ~joins
  <2>1. r = left
    BY <1>2, <1>5
  <2> QED
    BY <1>1, <2>1 DEF Place, after, q, r
<1>6. CASE joins
  <2>1. r = Append(left, id)
    BY <1>2, <1>6
  <2>2. /\ r \in Seq(OrderIds)
        /\ \A i \in DOMAIN r : \/ i \in DOMAIN left /\ r[i] = left[i]
                               \/ i \notin DOMAIN left /\ i = Len(left) + 1 /\ r[i] = id
    BY <1>1, <1>4, <2>1, Joined
  <2>3. \A i \in DOMAIN r : Waits(after[r[i]], d, p)
    BY <1>1, <1>3, <1>6, <2>2
  <2>4. \A i \in DOMAIN r : r[i] = id \/ \E j \in DOMAIN q : q[j] = r[i]
    BY <1>1, <2>2
  <2>5. \A i, j \in DOMAIN r : r[i] = r[j] => i = j
    BY <1>1, <2>2
  <2> QED
    BY <2>2, <2>3, <2>4, <2>5 DEF Place, after, q, r
<1> QED
  BY <1>5, <1>6

\* The book is in order again.
LEMMA LinedAfter ==
    ASSUME NEW ord, NEW que, NEW id, Entered(ord, que, id)
    PROVE  Lined(MatchedOrders(ord, que, id), MatchedQueue(ord, que, id))
<1> DEFINE after == MatchedOrders(ord, que, id)
           r == MatchedQueue(ord, que, id)
<1>1. after \in [OrderIds -> Kept]
  <2>1. \A x \in OrderIds : after[x] \in Kept
    BY OthersAfter, SelfAfter
  <2>2. after = [x \in OrderIds |-> IF x = id THEN Leftover(Take(ord[id], Total(ord, que, id)))
                                            ELSE Take(ord[x], Gifts(ord, que, id)[x])]
    BY MatchedOrdersValue
  <2>3. after = [x \in OrderIds |-> after[x]]
    BY <2>2
  <2> HIDE DEF after
  <2> QED
    BY <2>1, <2>3
<1>2. \A d \in Side, p \in Prices : Place(after, r[d][p], d, p)
  BY PlaceAfter
<1>3. r = [d \in Side |-> [p \in Prices |-> r[d][p]]]
  BY DEF MatchedQueue
<1> HIDE DEF after, r
<1>4. r \in Queues
  <2>1. \A d \in Side, p \in Prices : r[d][p] \in Seq(OrderIds)
    BY <1>2 DEF Place
  <2> QED
    BY <1>3, <2>1 DEF Queues
<1>5. Lined(after, r)
  BY <1>1, <1>2, <1>4 DEF Lined, Place
<1> QED
  BY <1>5 DEF after, r

-----------------------------------------------------------------------------
(* The trades of an order.                                                 *)

\* The orders that give something to the order id.
Givers(ord, que, id) == {y \in OrderIds \ {id} : MatchedOrders(ord, que, id)[y] # ord[y]}

LEMMA GiversValue ==
    ASSUME NEW ord, NEW que, NEW id, Entered(ord, que, id)
    PROVE  LET ids == Givers(ord, que, id)
               after == MatchedOrders(ord, que, id)
               g == Gifts(ord, que, id)
           IN  /\ ids \subseteq OrderIds /\ IsFiniteSet(ids) /\ Cardinality(ids) \in Nat
               /\ ids \subseteq Counterparties(ord, que, ord[id])
               /\ \A y \in ids : y # id /\ g[y] \in Nat /\ g[y] > 0 /\ after[y].filled_qty - ord[y].filled_qty = g[y]
               /\ \A y \in OrderIds \ ids : g[y] = 0
<1> DEFINE ids == Givers(ord, que, id)
           after == MatchedOrders(ord, que, id)
           g == Gifts(ord, que, id)
<1>1. ids \subseteq OrderIds /\ \A y \in ids : y # id /\ after[y] # ord[y]
  BY DEF Givers
<1>2. IsFiniteSet(ids) /\ Cardinality(ids) \in Nat
  BY <1>1, Ids, FS_Subset, FS_CardinalityType
<1>3. \A y \in OrderIds \ {id} : /\ g[y] \in Nat /\ after[y].filled_qty = ord[y].filled_qty + g[y]
                                 /\ g[y] = 0 => after[y] = ord[y]
                                 /\ g[y] > 0 => after[y] # ord[y] /\ y \in Counterparties(ord, que, ord[id])
                                 /\ ord[y].filled_qty \in Int
  BY OthersAfter, KeptFields DEF Entered, Lined
<1>4. g[id] = 0 /\ id \in OrderIds
  BY DEF Gifts, Entered
<1>5. \A y \in OrderIds \ {id} : y \in ids <=> after[y] # ord[y]
  BY DEF Givers
<1> HIDE DEF ids, after, g
<1>6. ASSUME NEW y \in ids
      PROVE  /\ y \in Counterparties(ord, que, ord[id]) /\ y # id /\ g[y] \in Nat /\ g[y] > 0
             /\ after[y].filled_qty - ord[y].filled_qty = g[y]
  <2>1. y \in OrderIds \ {id} /\ g[y] \in Nat /\ g[y] # 0
    BY <1>1, <1>3
  <2>2. g[y] > 0
    BY <2>1
  <2> QED
    BY <1>1, <1>3, <2>1, <2>2
<1>7. ASSUME NEW y \in OrderIds \ ids PROVE g[y] = 0
  <2>1. CASE y = id
    BY <1>4, <2>1
  <2>2. CASE y # id
    <3>1. g[y] \in Nat /\ ~(g[y] > 0)
      BY <1>3, <1>5, <1>7, <2>2
    <3> QED
      BY <3>1
  <2> QED
    BY <2>1, <2>2
<1> QED
  BY <1>1, <1>2, <1>6, <1>7 DEF ids, after, g

Lists(m, S) ==
    /\ m \in [1 .. Cardinality(S) -> S]
    /\ \A i, j \in 1 .. Cardinality(S) : m[i] = m[j] => i = j
    /\ \A y \in S : \E i \in 1 .. Cardinality(S) : m[i] = y

\* Each of them is a maker of one trade.
LEMMA MakersValue ==
    ASSUME NEW s, NEW before, NEW id, Entered(before, g_sim.queue[s], id)
    PROVE  Lists(Makers(s, before, MatchedOrders(before, g_sim.queue[s], id), id),
                 Givers(before, g_sim.queue[s], id))
<1> DEFINE que == g_sim.queue[s]
           ids == Givers(before, que, id)
           n == Cardinality(ids)
           m == Makers(s, before, MatchedOrders(before, que, id), id)
           B == Priority(before, que, ids)
           C(r) == \A i, j \in DOMAIN r : i < j => Precedes(before, que, r[i], r[j])
<1>1. IsFiniteSet(ids) /\ n \in Nat /\ ids \subseteq Counterparties(before, que, before[id])
  BY GiversValue
<1>2. before[id] \in Kept /\ Lined(before, que)
  BY DEF Entered, Lined
<1>3. m = CHOOSE r \in [1 .. n -> ids] : C(r)
  BY DEF Makers, Givers
<1> HIDE DEF que, ids, m, B
<1>4. /\ \A x, y \in ids : <<x, y>> \in B <=> Precedes(before, que, x, y)
      /\ \A x \in ids : <<x, x>> \notin B
      /\ \A x, y, z \in ids : <<x, y>> \in B /\ <<y, z>> \in B => <<x, z>> \in B
      /\ \A x, y \in ids : x # y => <<x, y>> \in B \/ <<y, x>> \in B
  BY <1>1, <1>2, Served DEF B
<1>5. PICK q \in [1 .. n -> ids] : \A i, j \in 1 .. n : i < j => <<q[i], q[j]>> \in B
  BY ONLY <1>1, <1>4, Listed
<1>6. C(q)
  BY <1>4, <1>5
<1> HIDE DEF C
<1>7. m \in [1 .. n -> ids] /\ C(m)
  BY <1>3, <1>5, <1>6
<1> USE DEF C
<1>8. \A i, j \in 1 .. n : i < j => m[i] # m[j]
  <2>1. \A i \in 1 .. n : m[i] \in ids
    BY <1>7
  <2>2. DOMAIN m = 1 .. n
    BY <1>7
  <2> QED
    BY <1>4, <1>7, <2>1, <2>2
<1>9. \A i, j \in 1 .. n : m[i] = m[j] => i = j
  <2>1. \A i, j \in 1 .. n : i < j \/ j < i \/ i = j
    BY <1>1
  <2> HIDE DEF n
  <2> QED
    BY <1>8, <2>1
<1>10. \A y \in ids : \E i \in 1 .. n : m[i] = y
  BY ONLY <1>1, <1>7, <1>8, ListedAll
<1> QED
  BY <1>7, <1>9, <1>10 DEF Lists, que, ids, n, m

\* The n trades with makers m, and what they add up to: total.
TradeList(s, ts, n, m, g, total) ==
    /\ n \in Nat /\ ts \in Seq(Trade) /\ Len(ts) = n /\ DOMAIN ts = 1 .. n
    /\ \A i \in 1 .. n : ts[i] = [symbol |-> s, trade_id |-> g_sim.traded[s] + i, maker |-> m[i], qty |-> g[m[i]]]
    /\ Volume(ts) = total /\ (n = 0 => total = 0) /\ (n # 0 => total # 0)

\* The trades add up to what the order has taken.
LEMMA TradesValue ==
    ASSUME NEW s \in Symbols, NEW before, NEW id, Entered(before, g_sim.queue[s], id), g_sim.traded[s] \in Nat
    PROVE  LET que == g_sim.queue[s]
               after == MatchedOrders(before, que, id)
           IN  TradeList(s, Trades(s, before, after, id), Cardinality(Givers(before, que, id)),
                         Makers(s, before, after, id), Gifts(before, que, id), Total(before, que, id))
<1> DEFINE que == g_sim.queue[s]
           after == MatchedOrders(before, que, id)
           ids == Givers(before, que, id)
           n == Cardinality(ids)
           g == Gifts(before, que, id)
           m == Makers(s, before, after, id)
           ts == Trades(s, before, after, id)
           f == [i \in DOMAIN ts |-> ts[i].qty]
<1>1. /\ ids \subseteq OrderIds /\ IsFiniteSet(ids) /\ n \in Nat
      /\ \A y \in ids : g[y] \in Nat /\ g[y] > 0 /\ after[y].filled_qty - before[y].filled_qty = g[y]
      /\ \A y \in OrderIds \ ids : g[y] = 0
  BY GiversValue
<1>2. /\ m \in [1 .. n -> ids] /\ DOMAIN m = 1 .. n
      /\ \A i, j \in 1 .. n : m[i] = m[j] => i = j
      /\ \A y \in ids : \E i \in 1 .. n : m[i] = y
  <2>1. /\ m \in [1 .. n -> ids]
        /\ \A i, j \in 1 .. n : m[i] = m[j] => i = j
        /\ \A y \in ids : \E i \in 1 .. n : m[i] = y
    <3>1. Lists(m, ids)
      BY MakersValue
    <3> HIDE DEF m, ids
    <3> QED
      BY <3>1 DEF Lists, n
  <2> HIDE DEF m
  <2> QED
    BY <2>1
<1>3. ts = [i \in DOMAIN m |-> [symbol |-> s, trade_id |-> g_sim.traded[s] + i, maker |-> m[i],
                               qty |-> after[m[i]].filled_qty - before[m[i]].filled_qty]]
  BY DEF Trades
<1> HIDE DEF que, after, ids, n, g, m, ts
<1>4. \A i \in 1 .. n : m[i] \in ids /\ m[i] \in OrderIds
  BY <1>1, <1>2
<1>5. DOMAIN ts = 1 .. n /\ \A i \in 1 .. n :
          ts[i] = [symbol |-> s, trade_id |-> g_sim.traded[s] + i, maker |-> m[i], qty |-> g[m[i]]]
  BY <1>1, <1>2, <1>3, <1>4
<1>6. ts \in Seq(Trade) /\ Len(ts) = n
  <2>1. \A i \in 1 .. n : g_sim.traded[s] + i \in Int /\ g[m[i]] \in Int
    BY <1>1, <1>4
  <2>2. \A i \in 1 .. n : ts[i] \in Trade
    BY <1>4, <1>5, <2>1 DEF Trade
  <2>3. ts = [i \in 1 .. n |-> ts[i]]
    BY <1>2, <1>3
  <2> QED
    BY <1>1, <2>2, <2>3
<1>7. Volume(ts) = SumFunctionOnSet(f, 1 .. n)
  <2>1. Volume(ts) = SumFunctionOnSet(f, DOMAIN f)
    BY DEF Volume, SumFunction, SumFunctionOnSet
  <2>2. DOMAIN f = 1 .. n
    BY <1>5
  <2> QED
    BY <2>1, <2>2
<1>8. \A i \in 1 .. n : f[i] = g[m[i]] /\ f[i] \in Nat
  BY <1>1, <1>4, <1>5
<1> HIDE DEF f
<1>9. IsFiniteSet(1 .. n)
  <2>1. 1 \in Int /\ n \in Int
    BY <1>1
  <2> QED
    BY <2>1, FS_Interval
<1>10. SumFunctionOnSet(f, 1 .. n) = SumFunctionOnSet(g, ids)
  <2>1. \A i \in 1 .. n : m[i] \in ids /\ f[i] = g[m[i]] /\ f[i] \in Int
    BY <1>4, <1>8
  <2>2. /\ \A i, j \in 1 .. n : m[i] = m[j] => i = j
        /\ \A y \in ids : \E i \in 1 .. n : m[i] = y
    BY <1>2
  <2> DEFINE D == 1 .. n
  <2> HIDE DEF D
  <2>3. IsFiniteSet(D)
    BY <1>9 DEF D
  <2>4. /\ \A i \in D : m[i] \in ids /\ f[i] = g[m[i]] /\ f[i] \in Int
        /\ \A i, j \in D : m[i] = m[j] => i = j
        /\ \A y \in ids : \E i \in D : m[i] = y
    BY <2>1, <2>2 DEF D
  <2>5. SumFunctionOnSet(f, D) = SumFunctionOnSet(g, ids)
    BY ONLY <2>3, <2>4, SumRenamed
  <2> QED
    BY <2>5 DEF D
<1>11. SumFunctionOnSet(g, OrderIds) = SumFunctionOnSet(g, ids)
  <2>1. \A y \in ids : g[y] = g[y] /\ g[y] \in Int
    <3>1. ASSUME NEW y \in ids PROVE g[y] \in Int
      <4>1. g[y] \in Nat
        BY <1>1
      <4> QED
        BY <4>1
    <3> QED
      BY <3>1
  <2> QED
    BY <1>1, <2>1, Ids, SumSelect
<1>12. n = 0 => SumFunctionOnSet(g, ids) = 0
  <2>1. n = 0 => ids = {}
    BY <1>1, FS_EmptySet DEF n
  <2> QED
    BY <2>1, SumEmpty
<1>13. n # 0 => SumFunctionOnSet(g, ids) # 0
  <2>1. SUFFICES ASSUME n # 0 PROVE SumFunctionOnSet(g, ids) # 0
    OBVIOUS
  <2>2. 1 \in 1 .. n
    BY <1>1, <2>1
  <2>3. m[1] \in ids
    BY <1>4, <2>2
  <2>4. \A y \in ids : g[y] \in Nat
    BY <1>1
  <2>5. g[m[1]] <= SumFunctionOnSet(g, ids) /\ SumFunctionOnSet(g, ids) \in Nat
    BY <1>1, <2>3, <2>4, SumAtLeast, SumNat
  <2> QED
    BY <1>1, <2>3, <2>5
<1> QED
  BY <1>1, <1>5, <1>6, <1>7, <1>10, <1>11, <1>12, <1>13 DEF TradeList, Total, que, after, ids, n, g, m, ts

-----------------------------------------------------------------------------
(* The two logs.                                                           *)

\* Two sequences, one after the other.
LEMMA Concat ==
    ASSUME NEW S, NEW a \in Seq(S), NEW b \in Seq(S)
    PROVE  LET r == a \o b
           IN  /\ r \in Seq(S) /\ Len(r) = Len(a) + Len(b)
               /\ \A i \in DOMAIN a : i \in DOMAIN r /\ r[i] = a[i] /\ i <= Len(a)
               /\ \A j \in DOMAIN b : Len(a) + j \in DOMAIN r /\ r[Len(a) + j] = b[j] /\ Len(a) + j > Len(a)
               /\ \A i \in DOMAIN r : i \in DOMAIN a \/ \E j \in DOMAIN b : i = Len(a) + j
<1> DEFINE r == a \o b
           n == Len(a)
           m == Len(b)
<1>1. n \in Nat /\ m \in Nat /\ DOMAIN a = 1 .. n /\ DOMAIN b = 1 .. m
  OBVIOUS
<1>2. r \in Seq(S)
  OBVIOUS
<1>3. Len(r) = n + m
  OBVIOUS
<1>4. \A i \in 1 .. n + m : r[i] = IF i <= n THEN a[i] ELSE b[i - n]
  BY <1>1
<1> HIDE DEF r, n, m
<1>5. DOMAIN r = 1 .. n + m
  BY <1>2, <1>3
<1>6. \A i \in 1 .. n : i \in 1 .. n + m /\ i <= n
  BY <1>1
<1>7. \A j \in 1 .. m : n + j \in 1 .. n + m /\ n + j > n /\ ~(n + j <= n) /\ (n + j) - n = j
  BY <1>1
<1>8. \A i \in 1 .. n + m : i \in 1 .. n \/ (i - n \in 1 .. m /\ i = n + (i - n))
  BY <1>1
<1>9. \A i \in DOMAIN a : i \in DOMAIN r /\ r[i] = a[i] /\ i <= n
  BY <1>1, <1>4, <1>5, <1>6
<1>10. \A j \in DOMAIN b : n + j \in DOMAIN r /\ r[n + j] = b[j] /\ n + j > n
  BY <1>1, <1>4, <1>5, <1>7
<1>11. \A i \in DOMAIN r : i \in DOMAIN a \/ \E j \in DOMAIN b : i = n + j
  BY <1>1, <1>5, <1>8
<1> QED
  BY <1>2, <1>3, <1>9, <1>10, <1>11 DEF r, n, m

\* A log keeps the end of all there was, and no more than MaxLog of it.
LEMMA LoggedValue ==
    ASSUME NEW S, NEW log \in Seq(S), NEW entries \in Seq(S)
    PROVE  LET all == log \o entries
           IN  \E k \in 0 .. Len(all) : /\ Logged(log, entries) = SubSeq(all, k + 1, Len(all))
                                       /\ Len(all) - k = Min({Len(all), MaxLog})
<1> DEFINE all == log \o entries
           n == Len(all)
           k == IF n < MaxLog THEN 0 ELSE n - MaxLog
<1>1. all \in Seq(S)
  BY Concat
<1>2. n \in Nat /\ MaxLog \in Nat /\ MaxLog > 0
  BY <1>1, FeedAssumption
<1>3. Logged(log, entries) = SubSeq(all, Max({1, n - MaxLog + 1}), n)
  BY DEF Logged
<1> HIDE DEF all, n
<1>4. k \in 0 .. n
  BY <1>2
<1>5. Min({n, MaxLog}) = IF n < MaxLog THEN n ELSE MaxLog
  BY <1>2, PairExtrema
<1>6. n - k = Min({n, MaxLog})
  BY <1>2, <1>5
<1>7. Max({1, n - MaxLog + 1}) = k + 1
  <2>1. 1 \in Int /\ n - MaxLog + 1 \in Int
    BY <1>2
  <2>2. Max({1, n - MaxLog + 1}) = IF 1 < n - MaxLog + 1 THEN n - MaxLog + 1 ELSE 1
    BY <2>1, PairExtrema
  <2> QED
    BY <1>2, <2>2
<1> HIDE DEF k
<1>8. Logged(log, entries) = SubSeq(all, k + 1, n)
  BY <1>3, <1>7
<1> QED
  BY <1>4, <1>6, <1>8 DEF all, n

\* A log that tells of some orders, continued with all that has changed, tells of those then.
LEMMA TellsAfter ==
    ASSUME NEW log \in Seq(Told), NEW entries \in Seq(Told), NEW old, NEW new,
           Tells(log, old), Tells(entries, new),
           \A y \in OrderIds : new[y] = old[y] \/ \E i \in DOMAIN entries : entries[i].id = y
    PROVE  Logged(log, entries) \in Seq(Told) /\ Tells(Logged(log, entries), new)
<1> DEFINE all == log \o entries
           r == Logged(log, entries)
           n == Len(log)
<1>1. /\ all \in Seq(Told)
      /\ \A i \in DOMAIN log : i \in DOMAIN all /\ all[i] = log[i] /\ i <= n
      /\ \A j \in DOMAIN entries : n + j \in DOMAIN all /\ all[n + j] = entries[j] /\ n + j > n
      /\ \A i \in DOMAIN all : i \in DOMAIN log \/ \E j \in DOMAIN entries : i = n + j
  BY Concat
<1>2. n \in Nat /\ DOMAIN log \subseteq Nat /\ DOMAIN entries \subseteq Nat
  OBVIOUS
<1>3. \A i \in DOMAIN log : log[i].id \in OrderIds
  <2>1. \A i \in DOMAIN log : log[i] \in Told
    OBVIOUS
  <2> QED
    BY <2>1 DEF Told
<1> HIDE DEF all
<1>4. Tells(all, new)
  <2> SUFFICES ASSUME NEW i \in DOMAIN all, \A j \in DOMAIN all : j > i => all[j].id # all[i].id
               PROVE  all[i] = Entry(all[i].id, new[all[i].id])
    BY DEF Tells, Later
  <2>1. CASE i \in DOMAIN log
    <3>1. all[i] = log[i] /\ i \in Nat /\ i <= n
      BY <1>1, <1>2, <2>1
    <3>2. \A j \in DOMAIN log : j > i => log[j].id # log[i].id
      BY <1>1, <3>1
    <3>3. log[i] = Entry(log[i].id, old[log[i].id])
      BY <2>1, <3>2 DEF Tells, Later
    <3>4. ASSUME NEW j \in DOMAIN entries PROVE entries[j].id # log[i].id
      <4>1. n + j \in DOMAIN all /\ all[n + j] = entries[j] /\ n + j > n
        BY <1>1
      <4>2. n + j > i
        BY <1>2, <3>1, <4>1
      <4> QED
        BY <3>1, <4>1, <4>2
    <3>5. new[log[i].id] = old[log[i].id]
      BY <1>3, <2>1, <3>4
    <3> QED
      BY <3>1, <3>3, <3>5
  <2>2. ASSUME NEW k \in DOMAIN entries, i = n + k PROVE all[i] = Entry(all[i].id, new[all[i].id])
    <3>1. all[i] = entries[k]
      BY <1>1, <2>2
    <3>2. ASSUME NEW j \in DOMAIN entries, j > k PROVE entries[j].id # entries[k].id
      <4>1. n + j \in DOMAIN all /\ all[n + j] = entries[j]
        BY <1>1
      <4>2. n + j > i
        BY <1>2, <2>2, <3>2
      <4> QED
        BY <3>1, <4>1, <4>2
    <3>3. entries[k] = Entry(entries[k].id, new[entries[k].id])
      BY <3>2 DEF Tells, Later
    <3> QED
      BY <3>1, <3>3
  <2> QED
    BY <1>1, <2>1, <2>2
<1>5. PICK k \in 0 .. Len(all) : r = SubSeq(all, k + 1, Len(all))
  BY LoggedValue DEF all
<1> HIDE DEF r
<1>6. /\ r \in Seq(Told) /\ Len(r) = Len(all) - k /\ DOMAIN r = 1 .. Len(all) - k
      /\ \A i \in DOMAIN r : i + k \in DOMAIN all /\ i + k > k /\ r[i] = all[i + k]
  BY <1>1, <1>5, EndOf
<1>7. Len(all) \in Nat /\ k \in Nat /\ k <= Len(all) /\ DOMAIN all = 1 .. Len(all)
  BY <1>1
<1>8. Tells(r, new)
  <2> SUFFICES ASSUME NEW i \in DOMAIN r, \A j \in DOMAIN r : j > i => r[j].id # r[i].id
               PROVE  r[i] = Entry(r[i].id, new[r[i].id])
    BY DEF Tells, Later
  <2>1. i + k \in DOMAIN all /\ r[i] = all[i + k] /\ i \in Nat /\ i >= 1
    BY <1>6
  <2>2. ASSUME NEW j \in DOMAIN all, j > i + k PROVE all[j].id # all[i + k].id
    <3>1. j - k \in 1 .. Len(all) - k /\ (j - k) + k = j /\ j - k > i
      BY <1>7, <2>1, <2>2
    <3>2. r[j - k] = all[j]
      BY <1>6, <3>1
    <3> QED
      BY <1>6, <2>1, <3>1, <3>2
  <2>3. all[i + k] = Entry(all[i + k].id, new[all[i + k].id])
    BY <1>4, <2>1, <2>2 DEF Tells, Later
  <2> QED
    BY <2>1, <2>3
<1> QED
  BY <1>6, <1>8 DEF r

\* The end of a numbered log is numbered.
LEMMA NumberedEnd ==
    ASSUME NEW q \in Seq(Trade), NEW k \in 0 .. Len(q), NEW traded, Numbered(q, traded)
    PROVE  Numbered(SubSeq(q, k + 1, Len(q)), traded)
<1> DEFINE r == SubSeq(q, k + 1, Len(q))
<1>1. /\ DOMAIN r = 1 .. Len(q) - k
      /\ \A i \in DOMAIN r : i + k \in DOMAIN q /\ r[i] = q[i + k]
  BY EndOf
<1>2. Len(q) \in Nat /\ k \in Nat /\ k <= Len(q) /\ DOMAIN q = 1 .. Len(q)
  OBVIOUS
<1> HIDE DEF r
<1>3. SUFFICES ASSUME NEW i \in DOMAIN r
               PROVE  r[i].trade_id = traded[r[i].symbol] - Cardinality(Newer(r, i))
  BY DEF Numbered, r
<1>4. i + k \in DOMAIN q /\ r[i] = q[i + k] /\ i \in Nat
  BY <1>1
<1>5. q[i + k].trade_id = traded[q[i + k].symbol] - Cardinality(Newer(q, i + k))
  BY <1>4 DEF Numbered
<1> DEFINE N == Newer(r, i)
           M == Newer(q, i + k)
           f == [j \in N |-> j + k]
<1>6. ASSUME NEW j \in N PROVE j + k \in M /\ j \in Nat
  <2>1. j \in DOMAIN r /\ j > i /\ r[j].symbol = r[i].symbol
    BY DEF Newer, Later
  <2>2. j + k \in DOMAIN q /\ r[j] = q[j + k] /\ j \in Nat
    BY <1>1, <2>1
  <2>3. j + k > i + k
    BY <1>2, <1>4, <2>1, <2>2
  <2> QED
    BY <1>4, <2>1, <2>2, <2>3 DEF Newer, Later
<1>7. ASSUME NEW m \in M PROVE \E j \in N : j + k = m
  <2>1. m \in DOMAIN q /\ m > i + k /\ q[m].symbol = q[i + k].symbol
    BY DEF Newer, Later
  <2>2. m - k \in 1 .. Len(q) - k /\ (m - k) + k = m /\ m - k > i
    BY <1>2, <1>4, <2>1
  <2>3. r[m - k] = q[m]
    BY <1>1, <2>2
  <2>4. m - k \in N
    BY <1>1, <1>4, <2>1, <2>2, <2>3 DEF Newer, Later
  <2> QED
    BY <2>2, <2>4
<1>8. IsFiniteSet(N)
  <2>1. N \subseteq 1 .. Len(q) - k
    BY <1>1 DEF Newer, Later
  <2>2. IsFiniteSet(1 .. Len(q) - k)
    BY <1>2, FS_Interval
  <2> HIDE DEF N
  <2> QED
    BY <2>1, <2>2, FS_Subset
<1> HIDE DEF N, M
<1>9. f \in Bijection(N, M)
  <2>1. f \in [N -> M] /\ \A j \in N : f[j] = j + k /\ j \in Nat
    BY <1>6
  <2> HIDE DEF f
  <2>2. \A a, b \in N : f[a] = f[b] => a = b
    <3> SUFFICES ASSUME NEW a \in N, NEW b \in N, f[a] = f[b] PROVE a = b
      OBVIOUS
    <3>1. a + k = b + k /\ a \in Nat /\ b \in Nat
      BY <2>1
    <3> QED
      BY <1>2, <3>1
  <2>3. \A m \in M : \E j \in N : f[j] = m
    BY <1>7, <2>1
  <2> QED
    BY <2>1, <2>2, <2>3 DEF Bijection, Injection, IsInjective, Surjection
<1>10. Cardinality(M) = Cardinality(N)
  <2>1. ExistsBijection(N, M)
    BY <1>9 DEF ExistsBijection
  <2> QED
    BY ONLY <1>8, <2>1, FS_Bijection
<1> QED
  BY <1>4, <1>5, <1>10 DEF N, M

\* The trades of an order continue the log.
LEMMA NumberedAfter ==
    ASSUME NEW log \in Seq(Trade), NEW traded \in [Symbols -> Nat], Numbered(log, traded),
           NEW s \in Symbols, NEW ts \in Seq(Trade),
           \A i \in DOMAIN ts : ts[i].symbol = s /\ ts[i].trade_id = traded[s] + i
    PROVE  /\ Logged(log, ts) \in Seq(Trade) /\ Len(Logged(log, ts)) = Min({Len(log) + Len(ts), MaxLog})
           /\ Numbered(Logged(log, ts), [traded EXCEPT ![s] = @ + Len(ts)])
<1> DEFINE all == log \o ts
           r == Logged(log, ts)
           n == Len(log)
           m == Len(ts)
           new == [traded EXCEPT ![s] = @ + m]
<1>1. /\ all \in Seq(Trade) /\ Len(all) = n + m
      /\ \A i \in DOMAIN log : i \in DOMAIN all /\ all[i] = log[i] /\ i <= n
      /\ \A j \in DOMAIN ts : n + j \in DOMAIN all /\ all[n + j] = ts[j] /\ n + j > n
      /\ \A i \in DOMAIN all : i \in DOMAIN log \/ \E j \in DOMAIN ts : i = n + j
  BY Concat
<1>2. n \in Nat /\ m \in Nat /\ DOMAIN log = 1 .. n /\ DOMAIN ts = 1 .. m /\ traded[s] \in Nat
  OBVIOUS
<1>3. new[s] = traded[s] + m /\ \A x \in Symbols \ {s} : new[x] = traded[x]
  OBVIOUS
<1>4. \A i \in DOMAIN log : log[i].symbol \in Symbols
  <2>1. \A i \in DOMAIN log : log[i] \in Trade
    OBVIOUS
  <2> QED
    BY <2>1 DEF Trade
<1>5. PICK k \in 0 .. Len(all) : r = SubSeq(all, k + 1, Len(all)) /\ Len(all) - k = Min({Len(all), MaxLog})
  BY LoggedValue
<1> HIDE DEF all, r, new
<1>6. DOMAIN all = 1 .. n + m
  BY <1>1
<1>7. ASSUME NEW i \in DOMAIN log
      PROVE  all[i].trade_id = new[all[i].symbol] - Cardinality(Newer(all, i))
  <2> DEFINE x == log[i].symbol
             N == Newer(log, i)
             A == IF x = s THEN n + 1 .. n + m ELSE {}
  <2>1. all[i] = log[i] /\ i \in Nat /\ i <= n /\ x \in Symbols /\ traded[x] \in Nat
    BY <1>1, <1>2, <1>4
  <2>2. log[i].trade_id = traded[x] - Cardinality(N)
    BY DEF Numbered
  <2>3. N \subseteq 1 .. n
    BY <1>2 DEF Newer, Later
  <2>4. IsFiniteSet(N) /\ Cardinality(N) \in Nat
    <3>1. IsFiniteSet(1 .. n)
      <4>1. 1 \in Int /\ n \in Int
        BY <1>2
      <4> QED
        BY <4>1, FS_Interval
    <3> HIDE DEF N
    <3> QED
      BY <2>3, <3>1, FS_Subset, FS_CardinalityType
  <2>5. IsFiniteSet(A) /\ Cardinality(A) = IF x = s THEN m ELSE 0
    <3>1. IsFiniteSet(n + 1 .. n + m) /\ Cardinality(n + 1 .. n + m) = m
      <4>1. n + 1 \in Int /\ n + m \in Int
        BY <1>2
      <4>2. /\ IsFiniteSet(n + 1 .. n + m)
            /\ Cardinality(n + 1 .. n + m) = IF n + 1 > n + m THEN 0 ELSE (n + m) - (n + 1) + 1
        BY <4>1, FS_Interval
      <4>3. (IF n + 1 > n + m THEN 0 ELSE (n + m) - (n + 1) + 1) = m
        BY <1>2
      <4> QED
        BY <4>2, <4>3
    <3> QED
      BY <3>1, FS_EmptySet
  <2>6. Newer(all, i) = N \cup A
    <3>1. ASSUME NEW j \in Newer(all, i) PROVE j \in N \cup A
      <4>1. j \in DOMAIN all /\ j > i /\ all[j].symbol = x
        BY <2>1 DEF Newer, Later
      <4>2. CASE j \in DOMAIN log
        BY <1>1, <4>1, <4>2 DEF Newer, Later
      <4>3. ASSUME NEW h \in DOMAIN ts, j = n + h PROVE j \in A
        <5>1. all[j] = ts[h] /\ ts[h].symbol = s
          BY <1>1, <4>3
        <5>2. j \in n + 1 .. n + m
          BY <1>2, <4>3
        <5> QED
          BY <4>1, <5>1, <5>2
      <4> QED
        BY <1>1, <4>1, <4>2, <4>3
    <3>2. ASSUME NEW j \in N PROVE j \in Newer(all, i)
      <4>1. j \in DOMAIN log /\ j > i /\ log[j].symbol = x
        BY DEF Newer, Later
      <4> QED
        BY <1>1, <2>1, <4>1 DEF Newer, Later
    <3>3. ASSUME NEW j \in A PROVE j \in Newer(all, i)
      <4>1. x = s /\ j \in n + 1 .. n + m
        BY <3>3
      <4>2. j - n \in 1 .. m /\ n + (j - n) = j /\ j > i
        BY <1>2, <2>1, <4>1
      <4>3. j \in DOMAIN all /\ all[j] = ts[j - n] /\ ts[j - n].symbol = s
        BY <1>1, <1>2, <4>2
      <4> QED
        BY <2>1, <4>1, <4>2, <4>3 DEF Newer, Later
    <3> HIDE DEF N, A
    <3> QED
      BY <3>1, <3>2, <3>3
  <2>7. N \cap A = {}
    BY <1>2, <2>3
  <2> HIDE DEF N, A, x
  <2>8. Cardinality(N \cup A) = Cardinality(N) + Cardinality(A)
    <3>1. Cardinality(N \cup A) = Cardinality(N) + Cardinality(A) - Cardinality({})
      BY ONLY <2>4, <2>5, <2>7, FS_Union
    <3>2. Cardinality({}) = 0 /\ Cardinality(A) \in Nat
      BY <1>2, <2>5, FS_EmptySet
    <3> QED
      BY <2>4, <3>1, <3>2
  <2>9. new[x] = traded[x] + Cardinality(A)
    <3>1. CASE x = s
      BY <1>3, <2>5, <3>1
    <3>2. CASE x # s
      BY <1>3, <2>1, <2>5, <3>2
    <3> QED
      BY <3>1, <3>2
  <2>10. Cardinality(A) \in Nat
    BY <1>2, <2>5
  <2>11. all[i].trade_id = traded[x] - Cardinality(N) /\ all[i].symbol = x
    BY <2>1, <2>2 DEF x
  <2>12. new[x] - Cardinality(Newer(all, i)) = traded[x] - Cardinality(N)
    BY <2>1, <2>4, <2>6, <2>8, <2>9, <2>10
  <2> QED
    BY <2>11, <2>12
<1>8. ASSUME NEW h \in DOMAIN ts
      PROVE  all[n + h].trade_id = new[all[n + h].symbol] - Cardinality(Newer(all, n + h))
  <2>1. all[n + h] = ts[h] /\ ts[h].symbol = s /\ ts[h].trade_id = traded[s] + h /\ h \in Nat /\ h <= m
    BY <1>1, <1>2
  <2>2. Newer(all, n + h) = (n + h) + 1 .. n + m
    <3>1. ASSUME NEW j \in Newer(all, n + h) PROVE j \in (n + h) + 1 .. n + m
      <4>1. j \in 1 .. n + m /\ j > n + h
        BY <1>6 DEF Newer, Later
      <4> QED
        BY <1>2, <2>1, <4>1
    <3>2. ASSUME NEW j \in (n + h) + 1 .. n + m PROVE j \in Newer(all, n + h)
      <4>1. j - n \in 1 .. m /\ n + (j - n) = j /\ j > n + h
        BY <1>2, <2>1
      <4>2. j \in DOMAIN all /\ all[j] = ts[j - n] /\ ts[j - n].symbol = s
        BY <1>1, <1>2, <4>1
      <4> QED
        BY <2>1, <4>1, <4>2 DEF Newer, Later
    <3> QED
      BY <3>1, <3>2
  <2>3. Cardinality((n + h) + 1 .. n + m) = m - h
    <3>1. (n + h) + 1 \in Int /\ n + m \in Int
      BY <1>2, <2>1
    <3>2. Cardinality((n + h) + 1 .. n + m) = IF (n + h) + 1 > n + m THEN 0 ELSE (n + m) - ((n + h) + 1) + 1
      BY <3>1, FS_Interval
    <3>3. (IF (n + h) + 1 > n + m THEN 0 ELSE (n + m) - ((n + h) + 1) + 1) = m - h
      BY <1>2, <2>1
    <3> QED
      BY <3>2, <3>3
  <2>4. traded[s] + h = (traded[s] + m) - (m - h)
    BY <1>2, <2>1
  <2> QED
    BY <1>3, <2>1, <2>2, <2>3, <2>4
<1>9. Numbered(all, new)
  BY <1>1, <1>7, <1>8 DEF Numbered
<1>10. Numbered(r, new)
  BY <1>1, <1>5, <1>9, NumberedEnd
<1>11. r \in Seq(Trade) /\ Len(r) = Len(all) - k
  BY <1>1, <1>5, EndOf
<1> QED
  BY <1>1, <1>5, <1>10, <1>11 DEF r, new

\* What any trades add up to is a number.
LEMMA VolumeType ==
    ASSUME NEW q \in Seq(Trade)
    PROVE  Volume(q) \in Int
<1> DEFINE f == [i \in DOMAIN q |-> q[i].qty]
           n == Len(q)
<1>1. n \in Nat /\ DOMAIN q = 1 .. n
  OBVIOUS
<1>2. \A i \in DOMAIN q : q[i] \in Trade
  OBVIOUS
<1>3. \A i \in DOMAIN q : f[i] \in Int
  BY <1>2 DEF Trade
<1>4. DOMAIN f = DOMAIN q
  OBVIOUS
<1>5. Volume(q) = SumFunctionOnSet(f, DOMAIN f)
  BY DEF Volume, SumFunction, SumFunctionOnSet
<1> HIDE DEF f, n
<1>6. IsFiniteSet(1 .. n)
  <2>1. 1 \in Int /\ n \in Int
    BY <1>1
  <2> QED
    BY <2>1, FS_Interval
<1>7. SumFunctionOnSet(f, 1 .. n) \in Int
  <2>1. \A i \in 1 .. n : f[i] \in Int
    BY <1>1, <1>3
  <2> QED
    BY ONLY <1>6, <2>1, SumType
<1> QED
  BY <1>1, <1>4, <1>5, <1>7

\* The makers' entries and the taker's take turns.
LEMMA TurnOf ==
    ASSUME NEW n \in Nat
    PROVE  /\ \A k \in 1 .. 2 * n : /\ k % 2 = 1 => (k + 1) \div 2 \in 1 .. n
                                    /\ k % 2 # 1 => k \div 2 \in 1 .. n
           /\ \A i \in 1 .. n : /\ 2 * i \in 1 .. 2 * n /\ (2 * i) % 2 # 1 /\ (2 * i) \div 2 = i
                                /\ 2 * i - 1 \in 1 .. 2 * n /\ (2 * i - 1) % 2 = 1 /\ ((2 * i - 1) + 1) \div 2 = i
<1>1. ASSUME NEW k \in 1 .. 2 * n
      PROVE  (k % 2 = 1 => (k + 1) \div 2 \in 1 .. n) /\ (k % 2 # 1 => k \div 2 \in 1 .. n)
  OBVIOUS
<1>2. ASSUME NEW i \in 1 .. n
      PROVE  2 * i \in 1 .. 2 * n /\ (2 * i) % 2 # 1 /\ (2 * i) \div 2 = i
  OBVIOUS
<1>3. ASSUME NEW i \in 1 .. n
      PROVE  2 * i - 1 \in 1 .. 2 * n /\ (2 * i - 1) % 2 = 1 /\ ((2 * i - 1) + 1) \div 2 = i
  OBVIOUS
<1> QED
  BY <1>1, <1>2, <1>3

\* A log whose last entry is the order id, and whose others are as they are now.
LEMMA TellsLast ==
    ASSUME NEW u \in Seq(Told), NEW ord, NEW id, Len(u) \in DOMAIN u, u[Len(u)] = Entry(id, ord[id]),
           \A i \in DOMAIN u : u[i].id = id \/ u[i] = Entry(u[i].id, ord[u[i].id])
    PROVE  Tells(u, ord)
<1>1. SUFFICES ASSUME NEW i \in DOMAIN u, \A j \in DOMAIN u : j > i => u[j].id # u[i].id
               PROVE  u[i] = Entry(u[i].id, ord[u[i].id])
  BY DEF Tells, Later
<1>2. i \in Nat /\ Len(u) \in Nat /\ i <= Len(u)
  OBVIOUS
<1>3. u[Len(u)].id = id
  BY DEF Entry
<1>4. CASE u[i].id = id
  <2>1. ~(Len(u) > i)
    BY <1>1, <1>3, <1>4
  <2>2. i = Len(u)
    BY <1>2, <2>1
  <2> QED
    BY <1>3, <2>2
<1> QED
  BY <1>4

\* u tells of the orders as they are after id has been matched: of id, and of all that have changed.
Reported(u, before, after, id) ==
    /\ u \in Seq(Told) /\ Tells(u, after)
    /\ \A y \in OrderIds : (after[y] = before[y] /\ y # id) \/ \E i \in DOMAIN u : u[i].id = y

\* So does what the callback is given.
LEMMA UpdatesValue ==
    ASSUME NEW s \in Symbols, NEW before, NEW id, Entered(before, g_sim.queue[s], id), g_sim.traded[s] \in Nat
    PROVE  LET after == MatchedOrders(before, g_sim.queue[s], id)
           IN  Reported(Updates(Trades(s, before, after, id), before, after, id), before, after, id)
<1> DEFINE que == g_sim.queue[s]
           after == MatchedOrders(before, que, id)
           ids == Givers(before, que, id)
           n == Cardinality(ids)
           m == Makers(s, before, after, id)
           ts == Trades(s, before, after, id)
           t == Total(before, que, id)
           filled == [i \in DOMAIN ts |-> Volume(SubSeq(ts, 1, i))]
           taker == [i \in DOMAIN ts |->
                       [id |-> id, filled_qty |-> filled[i],
                        status |-> IF filled[i] = before[id].qty THEN "FILLED" ELSE "PARTIALLY_FILLED"]]
           maker == [i \in DOMAIN ts |-> Entry(ts[i].maker, after[ts[i].maker])]
           mid == [k \in 1 .. 2 * Len(ts) |-> IF k % 2 = 1 THEN maker[(k + 1) \div 2] ELSE taker[k \div 2]]
           head == <<Entry(id, before[id])>>
           tail == IF after[id].status \in {"CANCELLED", "EXPIRED"} THEN <<Entry(id, after[id])>> ELSE << >>
           v == head \o mid
           u == Updates(ts, before, after, id)
<1>1. u = v \o tail
  BY DEF Updates
<1>2. /\ n \in Nat /\ ts \in Seq(Trade) /\ Len(ts) = n /\ DOMAIN ts = 1 .. n
      /\ \A i \in 1 .. n : ts[i] = [symbol |-> s, trade_id |-> g_sim.traded[s] + i, maker |-> m[i],
                                    qty |-> Gifts(before, que, id)[m[i]]]
      /\ Volume(ts) = t /\ (n = 0 => t = 0) /\ (n # 0 => t # 0)
  <2>1. TradeList(s, ts, n, m, Gifts(before, que, id), t)
    BY TradesValue
  <2> HIDE DEF que, after, ids, n, m, ts, t
  <2> QED
    BY <2>1 DEF TradeList
<1>3. /\ m \in [1 .. n -> ids] /\ \A y \in ids : \E i \in 1 .. n : m[i] = y
  <2>1. Lists(m, ids)
    BY MakersValue
  <2> HIDE DEF m, ids
  <2> QED
    BY <2>1 DEF Lists, n
<1>4. /\ ids = {y \in OrderIds \ {id} : after[y] # before[y]} /\ id \in OrderIds
      /\ before[id].status = "NEW" /\ before[id].filled_qty = 0 /\ before[id].qty > 0
  BY DEF Givers, Entered
<1>5. /\ after[id].filled_qty = t /\ t \in Nat /\ t <= before[id].qty /\ before[id].qty \in Nat
      /\ after[id].status = IF t = before[id].qty THEN "FILLED"
                            ELSE IF before[id].type = "LIMIT" THEN (IF t = 0 THEN "NEW" ELSE "PARTIALLY_FILLED")
                            ELSE IF before[id].type = "MARKET" THEN "CANCELLED" ELSE "EXPIRED"
  BY SelfAfter
<1>6. \A y \in OrderIds : after[y] \in Kept /\ before[y] \in Kept
  BY OthersAfter, SelfAfter DEF Entered, Lined
<1> HIDE DEF que, after, ids, n, m, ts, t
<1>7. \A y \in OrderIds : Entry(y, after[y]) \in Told /\ Entry(y, before[y]) \in Told
  <2>1. \A y \in OrderIds, o \in Kept : Entry(y, o) \in Told
    BY KeptFields DEF Entry, Told
  <2> QED
    BY <1>6, <2>1
<1>8. \A i \in 1 .. n : m[i] \in OrderIds /\ m[i] # id /\ ts[i].maker = m[i]
  BY <1>2, <1>3, <1>4
<1>9. \A i \in 1 .. n : maker[i] = Entry(m[i], after[m[i]]) /\ maker[i] \in Told /\ maker[i].id = m[i]
  <2>1. \A i \in 1 .. n : maker[i] = Entry(m[i], after[m[i]])
    BY <1>2, <1>8
  <2>2. \A i \in 1 .. n : Entry(m[i], after[m[i]]).id = m[i]
    BY DEF Entry
  <2> HIDE DEF maker
  <2> QED
    BY <1>7, <1>8, <2>1, <2>2
<1>10. \A i \in 1 .. n : filled[i] = Volume(SubSeq(ts, 1, i)) /\ filled[i] \in Int
  <2>1. \A i \in 1 .. n : SubSeq(ts, 1, i) \in Seq(Trade)
    BY <1>2
  <2>2. \A i \in 1 .. n : filled[i] = Volume(SubSeq(ts, 1, i))
    BY <1>2
  <2> HIDE DEF filled
  <2> QED
    BY <2>1, <2>2, VolumeType
<1> HIDE DEF filled
<1>11. \A i \in 1 .. n : /\ taker[i] = [id |-> id, filled_qty |-> filled[i],
                              status |-> IF filled[i] = before[id].qty THEN "FILLED" ELSE "PARTIALLY_FILLED"]
                         /\ taker[i] \in Told /\ taker[i].id = id
  BY <1>2, <1>4, <1>10 DEF Told, OrderStatus
<1>12. /\ mid \in Seq(Told) /\ Len(mid) = 2 * n /\ DOMAIN mid = 1 .. 2 * n
       /\ \A k \in 1 .. 2 * n : mid[k].id = id \/ mid[k] = Entry(mid[k].id, after[mid[k].id])
       /\ \A i \in 1 .. n : mid[2 * i] = taker[i] /\ mid[2 * i - 1] = maker[i]
  <2>1. /\ \A k \in 1 .. 2 * n : /\ k % 2 = 1 => (k + 1) \div 2 \in 1 .. n
                                 /\ k % 2 # 1 => k \div 2 \in 1 .. n
        /\ \A i \in 1 .. n : /\ 2 * i \in 1 .. 2 * n /\ (2 * i) % 2 # 1 /\ (2 * i) \div 2 = i
                             /\ 2 * i - 1 \in 1 .. 2 * n /\ (2 * i - 1) % 2 = 1 /\ ((2 * i - 1) + 1) \div 2 = i
    BY <1>2, TurnOf
  <2>2. mid = [k \in 1 .. 2 * n |-> IF k % 2 = 1 THEN maker[(k + 1) \div 2] ELSE taker[k \div 2]]
    BY <1>2
  <2> HIDE DEF mid, maker, taker
  <2>3. \A k \in 1 .. 2 * n : mid[k] = IF k % 2 = 1 THEN maker[(k + 1) \div 2] ELSE taker[k \div 2]
    BY <2>2
  <2>4. \A k \in 1 .. 2 * n : (\E i \in 1 .. n : mid[k] = maker[i]) \/ (\E i \in 1 .. n : mid[k] = taker[i])
    BY <2>1, <2>3
  <2>5. \A k \in 1 .. 2 * n : mid[k] \in Told
    BY <1>9, <1>11, <2>4
  <2>6. \A k \in 1 .. 2 * n : mid[k].id = id \/ mid[k] = Entry(mid[k].id, after[mid[k].id])
    <3>1. \A i \in 1 .. n : maker[i].id = m[i] /\ maker[i] = Entry(m[i], after[m[i]]) /\ taker[i].id = id
      BY <1>9, <1>11
    <3>2. \A i \in 1 .. n : maker[i] = Entry(maker[i].id, after[maker[i].id])
      BY <3>1
    <3>3. ASSUME NEW k \in 1 .. 2 * n PROVE mid[k].id = id \/ mid[k] = Entry(mid[k].id, after[mid[k].id])
      <4>1. CASE \E i \in 1 .. n : mid[k] = maker[i]
        <5>1. PICK i \in 1 .. n : mid[k] = maker[i]
          BY <4>1
        <5> QED
          BY <3>2, <5>1
      <4>2. CASE \E i \in 1 .. n : mid[k] = taker[i]
        BY <3>1, <4>2
      <4> QED
        BY <2>4, <4>1, <4>2
    <3> QED
      BY <3>3
  <2>7. \A i \in 1 .. n : mid[2 * i] = taker[i] /\ mid[2 * i - 1] = maker[i]
    BY <2>1, <2>3
  <2> DEFINE l == 2 * n
  <2>8. l \in Nat
    BY <1>2
  <2>9. mid = [k \in 1 .. l |-> mid[k]] /\ \A k \in 1 .. l : mid[k] \in Told
    BY <2>2, <2>5
  <2> HIDE DEF l
  <2>10. mid \in Seq(Told) /\ Len(mid) = l /\ DOMAIN mid = 1 .. l
    BY <2>8, <2>9
  <2> QED
    BY <2>6, <2>7, <2>10 DEF l
<1> HIDE DEF mid, maker, taker
<1>13. head \in Seq(Told) /\ Len(head) = 1 /\ DOMAIN head = {1} /\ head[1] = Entry(id, before[id])
  BY <1>4, <1>7
<1>14. /\ tail \in Seq(Told) /\ DOMAIN tail = 1 .. Len(tail)
       /\ IF after[id].status \in {"CANCELLED", "EXPIRED"}
          THEN Len(tail) = 1 /\ tail[1] = Entry(id, after[id]) ELSE Len(tail) = 0
       /\ \A i \in DOMAIN tail : tail[i] = Entry(id, after[id])
  <2>1. CASE after[id].status \in {"CANCELLED", "EXPIRED"}
    <3>1. tail = <<Entry(id, after[id])>> /\ Entry(id, after[id]) \in Told
      BY <1>4, <1>7, <2>1
    <3> HIDE DEF tail
    <3> QED
      BY <2>1, <3>1
  <2>2. CASE after[id].status \notin {"CANCELLED", "EXPIRED"}
    <3>1. tail = << >>
      BY <2>2
    <3> HIDE DEF tail
    <3> QED
      BY <2>2, <3>1
  <2> QED
    BY <2>1, <2>2
<1> HIDE DEF head, tail
<1>15. /\ v \in Seq(Told) /\ Len(v) = 1 + 2 * n
       /\ v[1] = Entry(id, before[id]) /\ 1 \in DOMAIN v
       /\ \A j \in 1 .. 2 * n : 1 + j \in DOMAIN v /\ v[1 + j] = mid[j]
       /\ \A i \in DOMAIN v : i = 1 \/ \E j \in 1 .. 2 * n : i = 1 + j
  <2>1. /\ v \in Seq(Told) /\ Len(v) = Len(head) + Len(mid)
        /\ \A i \in DOMAIN head : i \in DOMAIN v /\ v[i] = head[i]
        /\ \A j \in DOMAIN mid : Len(head) + j \in DOMAIN v /\ v[Len(head) + j] = mid[j]
        /\ \A i \in DOMAIN v : i \in DOMAIN head \/ \E j \in DOMAIN mid : i = Len(head) + j
    <3>1. head \in Seq(Told) /\ mid \in Seq(Told)
      BY <1>12, <1>13
    <3> QED
      BY <3>1, Concat
  <2>2. Len(head) = 1 /\ DOMAIN head = {1} /\ head[1] = Entry(id, before[id])
    BY <1>13
  <2>3. Len(mid) = 2 * n /\ DOMAIN mid = 1 .. 2 * n
    BY <1>12
  <2> HIDE DEF v
  <2> QED
    BY <2>1, <2>2, <2>3
<1> HIDE DEF v
<1>16. /\ u \in Seq(Told) /\ Len(u) = Len(v) + Len(tail)
       /\ \A i \in DOMAIN v : i \in DOMAIN u /\ u[i] = v[i]
       /\ \A j \in DOMAIN tail : Len(v) + j \in DOMAIN u /\ u[Len(v) + j] = tail[j]
       /\ \A i \in DOMAIN u : i \in DOMAIN v \/ \E j \in DOMAIN tail : i = Len(v) + j
  <2>1. u = v \o tail
    BY <1>1 DEF v
  <2> HIDE DEF u
  <2> QED
    BY <1>14, <1>15, <2>1, Concat
<1> HIDE DEF u
<1>17. \A y \in OrderIds : Entry(y, before[y]).id = y /\ Entry(y, after[y]).id = y
  BY DEF Entry
<1>18. \A i \in DOMAIN u : u[i].id = id \/ u[i] = Entry(u[i].id, after[u[i].id])
  <2>1. v[1].id = id
    BY <1>4, <1>15, <1>17
  <2>2. \A j \in 1 .. 2 * n : v[1 + j].id = id \/ v[1 + j] = Entry(v[1 + j].id, after[v[1 + j].id])
    <3>1. ASSUME NEW j \in 1 .. 2 * n PROVE v[1 + j].id = id \/ v[1 + j] = Entry(v[1 + j].id, after[v[1 + j].id])
      <4>1. v[1 + j] = mid[j]
        BY <1>15
      <4>2. mid[j].id = id \/ mid[j] = Entry(mid[j].id, after[mid[j].id])
        BY <1>12
      <4> QED
        BY <4>1, <4>2
    <3> QED
      BY <3>1
  <2>3. \A i \in DOMAIN v : v[i].id = id \/ v[i] = Entry(v[i].id, after[v[i].id])
    BY <1>15, <2>1, <2>2
  <2>4. \A j \in DOMAIN tail : tail[j].id = id
    BY <1>4, <1>14, <1>17
  <2> QED
    BY <1>16, <2>3, <2>4
<1>19. Len(u) \in DOMAIN u /\ u[Len(u)] = Entry(id, after[id])
  <2>1. CASE after[id].status \in {"CANCELLED", "EXPIRED"}
    <3>1. Len(tail) = 1 /\ 1 \in DOMAIN tail /\ tail[1] = Entry(id, after[id])
      BY <1>14, <2>1
    <3>2. Len(v) + 1 \in DOMAIN u /\ u[Len(v) + 1] = tail[1] /\ Len(u) = Len(v) + 1
      BY <1>16, <3>1
    <3> QED
      BY <3>1, <3>2
  <2>2. CASE after[id].status \notin {"CANCELLED", "EXPIRED"}
    <3>1. Len(u) = Len(v) /\ Len(v) = 1 + 2 * n
      <4>1. Len(tail) = 0 /\ Len(v) = 1 + 2 * n /\ Len(u) = Len(v) + Len(tail)
        BY <1>14, <1>15, <1>16, <2>2
      <4> QED
        BY <1>2, <4>1
    <3>2. CASE n = 0
      <4>1. Len(u) = 1
        BY <3>1, <3>2
      <4>2. 1 \in DOMAIN u /\ u[1] = Entry(id, before[id])
        BY <1>15, <1>16
      <4>3. t = 0 /\ t # before[id].qty
        BY <1>2, <1>4, <1>5, <3>2
      <4>4. after[id].status = "NEW" /\ after[id].filled_qty = 0
        BY <1>5, <2>2, <4>3
      <4>5. Entry(id, before[id]) = Entry(id, after[id])
        BY <1>4, <4>4 DEF Entry
      <4> QED
        BY <4>1, <4>2, <4>5
    <3>3. CASE n # 0
      <4>1. n \in 1 .. n /\ 2 * n \in 1 .. 2 * n
        BY <1>2, <3>3
      <4>2. 1 + 2 * n \in DOMAIN u /\ u[1 + 2 * n] = mid[2 * n] /\ mid[2 * n] = taker[n]
        BY <1>12, <1>15, <1>16, <4>1
      <4>3. SubSeq(ts, 1, n) = ts
        BY <1>2
      <4>4. filled[n] = t
        BY <1>2, <1>10, <4>1, <4>3
      <4>5. taker[n] = [id |-> id, filled_qty |-> t,
                        status |-> IF t = before[id].qty THEN "FILLED" ELSE "PARTIALLY_FILLED"]
        BY <1>11, <4>1, <4>4
      <4>6. after[id].status = IF t = before[id].qty THEN "FILLED" ELSE "PARTIALLY_FILLED"
        BY <1>2, <1>5, <2>2, <3>3
      <4>7. taker[n] = Entry(id, after[id])
        BY <1>5, <4>5, <4>6 DEF Entry
      <4> QED
        BY <3>1, <4>2, <4>7
    <3> QED
      BY <3>2, <3>3
  <2> QED
    BY <2>1, <2>2
<1>20. Tells(u, after)
  BY <1>16, <1>18, <1>19, TellsLast
<1>21. ASSUME NEW y \in OrderIds, ~(after[y] = before[y] /\ y # id) PROVE \E i \in DOMAIN u : u[i].id = y
  <2>1. CASE y = id
    <3>1. 1 \in DOMAIN u /\ u[1] = Entry(id, before[id])
      BY <1>15, <1>16
    <3> QED
      BY <1>4, <1>17, <2>1, <3>1
  <2>2. CASE y # id
    <3>1. y \in ids
      BY <1>4, <1>21, <2>2
    <3>2. PICK i \in 1 .. n : m[i] = y
      BY <1>3, <3>1
    <3>3. 2 * i - 1 \in 1 .. 2 * n /\ mid[2 * i - 1] = maker[i]
      BY <1>2, <1>12
    <3>4. 1 + (2 * i - 1) \in DOMAIN u /\ u[1 + (2 * i - 1)] = maker[i]
      BY <1>15, <1>16, <3>3
    <3> QED
      BY <1>9, <3>2, <3>4
  <2> QED
    BY <2>1, <2>2
<1> QED
  BY <1>16, <1>20, <1>21 DEF Reported, u, after, ts, que

-----------------------------------------------------------------------------
(* The commands keep the invariant.                                        *)

LEMMA SimulatorFields ==
    ASSUME NEW sim \in Simulator
    PROVE  /\ sim.limits \in Limits /\ sim.last_id \in Nat /\ sim.order \in [OrderIds -> Kept]
           /\ sim.queue \in [Symbols -> Queues] /\ sim.traded \in [Symbols -> Nat] /\ sim.net \in [Symbols -> Int]
           /\ sim.totals \in [orders : Nat, trades : Nat, rejects : Nat] /\ sim.marks \in [Symbols -> Int]
           /\ sim = [limits |-> sim.limits, last_id |-> sim.last_id, order |-> sim.order, queue |-> sim.queue,
                     traded |-> sim.traded, net |-> sim.net, totals |-> sim.totals, marks |-> sim.marks]
  BY DEF Simulator

\* What check_order lets through.
LEMMA Passes ==
    ASSUME NEW o, o.qty \in Int, o.price \in Int, o.side \in Side, NEW lim, lim.max_position \in Int,
           NEW market, NEW net \in Int, Objection(lim, o, market, net) = "NONE"
    PROVE  /\ o.qty > 0 /\ (o.type = "LIMIT" => o.price > 0)
           /\ net + Toward(o.side, o.qty) <= lim.max_position
           /\ -(net + Toward(o.side, o.qty)) <= lim.max_position
<1> DEFINE checks == Checks(lim, o, market, net)
           failed == {i \in DOMAIN checks : checks[i].fails}
<1>1. DOMAIN checks = 1 .. 5
  BY DEF Checks
<1>2. IsFiniteSet(failed) /\ failed \subseteq Int
  <2>1. IsFiniteSet(1 .. 5)
    <3> DEFINE n == 5
    <3>1. 1 \in Int /\ n \in Int
      OBVIOUS
    <3> HIDE DEF n
    <3>2. IsFiniteSet(1 .. n)
      BY <3>1, FS_Interval
    <3> QED
      BY <3>2 DEF n
  <2>2. failed \subseteq 1 .. 5
    BY <1>1
  <2> QED
    BY <2>1, <2>2, FS_Subset
<1>3. \A i \in 1 .. 5 : checks[i].reason # "NONE"
  BY DEF Checks
<1>4. failed = {}
  <2> SUFFICES ASSUME failed # {} PROVE FALSE
    OBVIOUS
  <2>1. Min(failed) \in failed
    BY <1>2, MinMax
  <2>2. Objection(lim, o, market, net) = checks[Min(failed)].reason
    BY DEF Objection
  <2> QED
    BY <1>1, <1>3, <2>1, <2>2
<1>5. ~checks[1].fails /\ ~checks[2].fails /\ ~checks[5].fails
  BY <1>1, <1>4
<1>6. /\ ~(o.qty <= 0) /\ ~(o.type = "LIMIT" /\ o.price <= 0)
      /\ ~(Absolute(Projected(o, net)) > lim.max_position)
  BY <1>5 DEF Checks
<1> HIDE DEF checks, failed
<1> DEFINE p == net + Toward(o.side, o.qty)
<1>7. Projected(o, net) = p /\ p \in Int
  BY DEF Projected, Toward
<1> HIDE DEF p
<1>8. p <= lim.max_position /\ -p <= lim.max_position
  BY <1>6, <1>7 DEF Absolute
<1> QED
  BY <1>6, <1>8 DEF p

\* An input is a kept order, except that it has not been entered.
LEMMA InputFields ==
    ASSUME NEW o \in Inputs
    PROVE  LET e == [o EXCEPT !.status = "NEW"]
           IN  /\ e \in Kept /\ SameRequest(o, e) /\ e.filled_qty = 0 /\ e.status = "NEW"
               /\ o.qty \in Int /\ o.price \in Prices \cup {0} /\ o.price \in Int /\ o.side \in Side
<1>1. o \in [side : Side, type : OrderType, price : Prices \cup {0}, qty : Int,
             filled_qty : {0}, status : {"PENDING"}]
  BY InputsAssumption
<1>2. o.price \in Int
  <2> DEFINE x == o.price
  <2>1. x \in Prices \cup {0}
    BY <1>1
  <2> HIDE DEF x
  <2>2. x \in Int
    BY ONLY <2>1, PricesAssumption
  <2> QED
    BY <2>2 DEF x
<1>3. [o EXCEPT !.status = "NEW"] = [side |-> o.side, type |-> o.type, price |-> o.price, qty |-> o.qty,
                                     filled_qty |-> 0, status |-> "NEW"]
  BY <1>1
<1> QED
  BY <1>1, <1>2, <1>3 DEF Kept, OrderStatus, SameRequest

\* An order that is accepted enters the book of its symbol.
NewOrder(o) == [g_sim.order EXCEPT ![g_sim.last_id + 1] = [o EXCEPT !.status = "NEW"]]

LEMMA AcceptEnters ==
    ASSUME Types, Books, NEW s \in Symbols, NEW o \in Inputs, NEW market, Accept(s, o, market)
    PROVE  LET id == g_sim.last_id + 1
           IN  /\ id \in OrderIds /\ id \in Nat /\ id > g_sim.last_id
               /\ Entered(NewOrder(o), g_sim.queue[s], id)
               /\ NewOrder(o) \in [OrderIds -> Kept] /\ SameRequest(o, NewOrder(o)[id])
               /\ \A x \in OrderIds \ {id} : NewOrder(o)[x] = g_sim.order[x]
               /\ \A t \in Symbols, d \in Side, p \in Prices : \A i \in DOMAIN g_sim.queue[t][d][p] :
                     g_sim.queue[t][d][p][i] # id
<1> DEFINE id == g_sim.last_id + 1
           e == [o EXCEPT !.status = "NEW"]
           b == NewOrder(o)
           que == g_sim.queue[s]
<1>1. g_sim \in Simulator
  BY DEF Types
<1>2. /\ g_sim.limits \in Limits /\ g_sim.last_id \in Nat /\ g_sim.order \in [OrderIds -> Kept]
      /\ g_sim.queue \in [Symbols -> Queues] /\ g_sim.net[s] \in Int
  BY <1>1, SimulatorFields
<1>3. id \in OrderIds /\ Objection(g_sim.limits, o, market, g_sim.net[s]) = "NONE"
  BY DEF Accept
<1>4. id \in Nat /\ id > g_sim.last_id
  BY <1>2
<1>5. /\ e \in Kept /\ SameRequest(o, e) /\ e.filled_qty = 0 /\ e.status = "NEW"
      /\ o.qty \in Int /\ o.price \in Prices \cup {0} /\ o.price \in Int /\ o.side \in Side
  BY InputFields
<1>6. o.qty > 0 /\ (o.type = "LIMIT" => o.price > 0)
  <2>1. g_sim.limits.max_position \in Int
    BY <1>2 DEF Limits
  <2> QED
    BY <1>2, <1>3, <1>5, <2>1, Passes
<1> HIDE DEF e
<1>7. b = [g_sim.order EXCEPT ![id] = e]
  BY DEF NewOrder, e
<1>8. \A t \in Symbols, d \in Side, p \in Prices : \A i \in DOMAIN g_sim.queue[t][d][p] :
          g_sim.queue[t][d][p][i] # id
  <2> SUFFICES ASSUME NEW t \in Symbols, NEW d \in Side, NEW p \in Prices, NEW i \in DOMAIN g_sim.queue[t][d][p],
                      g_sim.queue[t][d][p][i] = id
               PROVE  FALSE
    OBVIOUS
  <2>1. id <= g_sim.last_id
    BY DEF Books, Apart
  <2> QED
    BY <1>2, <2>1
<1> HIDE DEF b, id
<1>9. b \in [OrderIds -> Kept] /\ b[id] = e /\ \A x \in OrderIds \ {id} : b[x] = g_sim.order[x]
  BY <1>2, <1>3, <1>5, <1>7
<1>10. Lined(b, que)
  <2>1. Lined(g_sim.order, que)
    BY DEF Books
  <2>2. que \in Queues
    BY <2>1 DEF Lined
  <2>3. ASSUME NEW d \in Side, NEW p \in Prices, NEW i \in DOMAIN que[d][p] PROVE Waits(b[que[d][p][i]], d, p)
    <3>1. que[d][p] \in Seq(OrderIds)
      BY <2>2 DEF Queues
    <3>2. que[d][p][i] \in OrderIds
      BY <3>1
    <3>3. b[que[d][p][i]] = g_sim.order[que[d][p][i]]
      BY <1>8, <1>9, <3>2
    <3> QED
      BY <2>1, <3>3 DEF Lined
  <2>4. \A d \in Side, p \in Prices : \A i, j \in DOMAIN que[d][p] : que[d][p][i] = que[d][p][j] => i = j
    BY <2>1 DEF Lined
  <2> QED
    BY <1>9, <2>2, <2>3, <2>4 DEF Lined
<1>11. Entered(b, que, id)
  <2>1. b[id].status = "NEW" /\ b[id].filled_qty = 0
    BY <1>5, <1>9
  <2>2. b[id].qty > 0 /\ (b[id].type = "LIMIT" => b[id].price \in Prices)
    BY <1>5, <1>6, <1>9 DEF SameRequest
  <2>3. \A d \in Side, p \in Prices : \A i \in DOMAIN que[d][p] : que[d][p][i] # id
    BY <1>8
  <2> QED
    BY <1>3, <1>10, <2>1, <2>2, <2>3 DEF Entered
<1>12. SameRequest(o, b[id])
  BY <1>5, <1>9
<1> QED
  BY <1>3, <1>4, <1>8, <1>9, <1>11, <1>12 DEF id, b

\* What accepting an order does to the simulator.
LEMMA AcceptChanges ==
    ASSUME Types, NEW s \in Symbols, NEW o, NEW market, Accept(s, o, market)
    PROVE  LET id == g_sim.last_id + 1
               b == NewOrder(o)
               after == MatchedOrders(b, g_sim.queue[s], id)
               ts == Trades(s, b, after, id)
           IN  /\ g_sim' = [limits |-> g_sim.limits, last_id |-> id, order |-> after,
                            queue |-> [g_sim.queue EXCEPT ![s] = MatchedQueue(b, g_sim.queue[s], id)],
                            traded |-> [g_sim.traded EXCEPT ![s] = g_sim.traded[s] + Len(ts)],
                            net |-> [g_sim.net EXCEPT ![s] = g_sim.net[s] + Toward(o.side, Volume(ts))],
                            totals |-> [orders |-> g_sim.totals.orders + 1, trades |-> g_sim.totals.trades + Len(ts),
                                        rejects |-> g_sim.totals.rejects],
                            marks |-> g_sim.marks]
               /\ g_trade_log' = Logged(g_trade_log, ts)
               /\ g_order_log' = Logged(g_order_log, Updates(ts, b, after, id))
               /\ reply' = [to |-> "order", approved |-> TRUE, order |-> Shown(o, id), qty |-> Volume(ts)]
               /\ UNCHANGED <<g_limits, g_feed_idx, agreed, mixed, loosest, lapped>>
<1> DEFINE id == g_sim.last_id + 1
           b == NewOrder(o)
           after == MatchedOrders(b, g_sim.queue[s], id)
           ts == Trades(s, b, after, id)
           q == MatchedQueue(b, g_sim.queue[s], id)
           v == Toward(o.side, Volume(ts))
<1>1. g_sim \in Simulator
  BY DEF Types
<1>2. /\ g_sim = [limits |-> g_sim.limits, last_id |-> g_sim.last_id, order |-> g_sim.order, queue |-> g_sim.queue,
                  traded |-> g_sim.traded, net |-> g_sim.net, totals |-> g_sim.totals, marks |-> g_sim.marks]
      /\ g_sim.totals = [orders |-> g_sim.totals.orders, trades |-> g_sim.totals.trades,
                         rejects |-> g_sim.totals.rejects]
  BY <1>1, SimulatorFields
<1>3. /\ g_sim' = [g_sim EXCEPT !.last_id = id, !.order = after, !.queue[s] = MatchedQueue(b, @, id),
                      !.traded[s] = @ + Len(ts), !.net[s] = @ + v,
                      !.totals.orders = @ + 1, !.totals.trades = @ + Len(ts)]
      /\ g_trade_log' = Logged(g_trade_log, ts)
      /\ g_order_log' = Logged(g_order_log, Updates(ts, b, after, id))
      /\ reply' = [to |-> "order", approved |-> TRUE, order |-> Shown(o, id), qty |-> Volume(ts)]
      /\ UNCHANGED <<g_limits, g_feed_idx, agreed, mixed, loosest, lapped>>
  BY DEF Accept, NewOrder
<1> HIDE DEF id, b, after, ts, v
<1>4. g_sim' = [limits |-> g_sim.limits, last_id |-> id, order |-> after,
                queue |-> [g_sim.queue EXCEPT ![s] = q],
                traded |-> [g_sim.traded EXCEPT ![s] = g_sim.traded[s] + Len(ts)],
                net |-> [g_sim.net EXCEPT ![s] = g_sim.net[s] + v],
                totals |-> [orders |-> g_sim.totals.orders + 1, trades |-> g_sim.totals.trades + Len(ts),
                            rejects |-> g_sim.totals.rejects],
                marks |-> g_sim.marks]
  BY <1>2, <1>3
<1> QED
  BY <1>3, <1>4 DEF id, b, after, ts, v

\* Nobody in the book of another symbol is touched.
LEMMA OthersStay ==
    ASSUME Types, Books, NEW s \in Symbols, NEW o \in Inputs, NEW market, Accept(s, o, market),
           NEW t \in Symbols, t # s, NEW d \in Side, NEW p \in Prices, NEW i \in DOMAIN g_sim.queue[t][d][p]
    PROVE  LET id == g_sim.last_id + 1
               x == g_sim.queue[t][d][p][i]
           IN  x # id /\ MatchedOrders(NewOrder(o), g_sim.queue[s], id)[x] = g_sim.order[x]
<1> DEFINE id == g_sim.last_id + 1
           b == NewOrder(o)
           que == g_sim.queue[s]
           x == g_sim.queue[t][d][p][i]
           after == MatchedOrders(b, que, id)
<1>1. /\ Entered(b, que, id) /\ x # id /\ \A y \in OrderIds \ {id} : b[y] = g_sim.order[y]
  BY AcceptEnters
<1>2. x \in OrderIds
  <2>1. g_sim.queue[t] \in Queues
    BY DEF Books, Lined
  <2>2. g_sim.queue[t][d][p] \in Seq(OrderIds)
    BY <2>1 DEF Queues
  <2> QED
    BY <2>2
<1> HIDE DEF id, b
<1>3. ASSUME after[x] # b[x] PROVE FALSE
  <2>1. Lined(b, que) /\ b[id] \in Kept
    BY <1>1 DEF Entered, Lined
  <2>2. x \in Givers(b, que, id)
    BY <1>1, <1>2, <1>3 DEF Givers
  <2>3. x \in Counterparties(b, que, b[id])
    BY <1>1, <2>2, GiversValue
  <2>4. There(b, que, b[id], x)
    BY <2>1, <2>3, Them
  <2>5. PICK e \in Side, r \in Prices : \E j \in DOMAIN que[e][r] : que[e][r][j] = x
    BY <2>4 DEF There
  <2>6. PICK j \in DOMAIN que[e][r] : que[e][r][j] = x
    BY <2>5
  <2>7. Waits(g_sim.order[x], e, r) /\ Waits(g_sim.order[x], d, p)
    BY <2>6 DEF Books, Lined
  <2>8. e = d /\ r = p
    BY <2>7 DEF Waits
  <2> QED
    BY <2>6, <2>8 DEF Books, Apart
<1>4. after[x] = b[x]
  BY <1>3
<1> QED
  BY <1>1, <1>2, <1>4 DEF id, b

LEMMA AcceptKeeps ==
    ASSUME IInv, NEW s \in Symbols, NEW o \in Inputs, NEW market, Accept(s, o, market)
    PROVE  IInv'
<1> DEFINE id == g_sim.last_id + 1
           b == NewOrder(o)
           que == g_sim.queue[s]
           after == MatchedOrders(b, que, id)
           q == MatchedQueue(b, que, id)
           ts == Trades(s, b, after, id)
           n == Cardinality(Givers(b, que, id))
           us == Updates(ts, b, after, id)
           v == Toward(o.side, Volume(ts))
           sim == g_sim'
<1>1. Types /\ Books /\ Logs
  BY DEF IInv
<1>2. /\ id \in OrderIds /\ id \in Nat /\ id > g_sim.last_id
      /\ Entered(b, que, id) /\ \A x \in OrderIds \ {id} : b[x] = g_sim.order[x]
      /\ \A t \in Symbols, d \in Side, p \in Prices : \A i \in DOMAIN g_sim.queue[t][d][p] :
            g_sim.queue[t][d][p][i] # id
  BY <1>1, AcceptEnters
<1>3. /\ sim = [limits |-> g_sim.limits, last_id |-> id, order |-> after,
                queue |-> [g_sim.queue EXCEPT ![s] = q],
                traded |-> [g_sim.traded EXCEPT ![s] = g_sim.traded[s] + Len(ts)],
                net |-> [g_sim.net EXCEPT ![s] = g_sim.net[s] + v],
                totals |-> [orders |-> g_sim.totals.orders + 1, trades |-> g_sim.totals.trades + Len(ts),
                            rejects |-> g_sim.totals.rejects],
                marks |-> g_sim.marks]
      /\ g_trade_log' = Logged(g_trade_log, ts)
      /\ g_order_log' = Logged(g_order_log, Updates(ts, b, after, id))
      /\ UNCHANGED <<g_limits, g_feed_idx, agreed, mixed, loosest, lapped>>
  BY <1>1, AcceptChanges
<1>4. g_sim \in Simulator
  BY <1>1 DEF Types
<1>5. /\ g_sim.limits \in Limits /\ g_sim.last_id \in Nat /\ g_sim.queue \in [Symbols -> Queues]
      /\ g_sim.traded \in [Symbols -> Nat] /\ g_sim.net \in [Symbols -> Int]
      /\ g_sim.totals \in [orders : Nat, trades : Nat, rejects : Nat] /\ g_sim.marks \in [Symbols -> Int]
  BY <1>4, SimulatorFields
<1>6. /\ ts \in Seq(Trade) /\ Len(ts) \in Nat
      /\ \A i \in DOMAIN ts : ts[i].symbol = s /\ ts[i].trade_id = g_sim.traded[s] + i
  <2>1. TradeList(s, ts, n, Makers(s, b, after, id), Gifts(b, que, id), Total(b, que, id))
    BY <1>2, <1>5, TradesValue
  <2> HIDE DEF ts
  <2> QED
    BY <2>1 DEF TradeList
<1>7. Reported(us, b, after, id)
  <2>1. Entered(b, que, id) /\ g_sim.traded[s] \in Nat
    BY <1>2, <1>5
  <2> QED
    BY <2>1, UpdatesValue
<1>8. Lined(after, q)
  BY <1>2, LinedAfter
<1>9. \A t \in Symbols, d \in Side, p \in Prices : t # s => \A i \in DOMAIN g_sim.queue[t][d][p] :
          after[g_sim.queue[t][d][p][i]] = g_sim.order[g_sim.queue[t][d][p][i]]
  BY <1>1, OthersStay
<1>10. \A d \in Side, p \in Prices : \A i \in DOMAIN q[d][p] :
           q[d][p][i] = id \/ \E j \in DOMAIN que[d][p] : que[d][p][j] = q[d][p][i]
  BY <1>2, PlaceAfter
<1>11. v \in Int
  <2>1. Volume(ts) \in Int
    BY <1>6, VolumeType
  <2> HIDE DEF ts
  <2> QED
    BY <2>1 DEF Toward
<1> HIDE DEF id, b, after, q, ts, v, sim, us
<1>12. /\ sim.limits = g_sim.limits /\ sim.last_id = id /\ sim.order = after
       /\ sim.queue[s] = q /\ \A t \in Symbols \ {s} : sim.queue[t] = g_sim.queue[t]
       /\ sim.traded = [g_sim.traded EXCEPT ![s] = @ + Len(ts)]
       /\ sim.totals.trades = g_sim.totals.trades + Len(ts)
  BY <1>3, <1>5
<1>13. after \in [OrderIds -> Kept] /\ q \in Queues
  BY <1>8 DEF Lined
<1>14. sim \in Simulator
  <2>1. [g_sim.queue EXCEPT ![s] = q] \in [Symbols -> Queues]
    BY <1>5, <1>13
  <2>2. [g_sim.traded EXCEPT ![s] = g_sim.traded[s] + Len(ts)] \in [Symbols -> Nat]
    BY <1>5, <1>6
  <2>3. [g_sim.net EXCEPT ![s] = g_sim.net[s] + v] \in [Symbols -> Int]
    BY <1>5, <1>11
  <2>4. /\ g_sim.totals.orders + 1 \in Nat /\ g_sim.totals.trades + Len(ts) \in Nat /\ g_sim.totals.rejects \in Nat
    BY <1>5, <1>6
  <2> QED
    BY <1>2, <1>3, <1>5, <1>13, <2>1, <2>2, <2>3, <2>4 DEF Simulator
<1>15. Books'
  <2>1. Apart(sim)
    <3>1. ASSUME NEW t \in Symbols, NEW u \in Symbols, NEW d \in Side, NEW p \in Prices,
                 NEW i \in DOMAIN sim.queue[t][d][p], NEW j \in DOMAIN sim.queue[u][d][p],
                 sim.queue[t][d][p][i] = sim.queue[u][d][p][j], t # u
          PROVE  FALSE
      <4> DEFINE old(x, w) == \E k \in DOMAIN g_sim.queue[w][d][p] : g_sim.queue[w][d][p][k] = x
                 x == sim.queue[t][d][p][i]
      <4>1. \A w \in Symbols : \A k \in DOMAIN sim.queue[w][d][p] :
                old(sim.queue[w][d][p][k], w) \/ (w = s /\ sim.queue[w][d][p][k] = id)
        BY <1>10, <1>12
      <4>2. old(x, t) \/ (t = s /\ x = id)
        BY <4>1
      <4>3. old(x, u) \/ (u = s /\ x = id)
        BY <3>1, <4>1
      <4>4. ~(old(x, t) /\ old(x, u))
        BY <1>1, <3>1 DEF Books, Apart
      <4>5. ~(old(x, t) /\ x = id) /\ ~(old(x, u) /\ x = id)
        BY <1>2
      <4> HIDE DEF x, old
      <4> QED
        BY <3>1, <4>2, <4>3, <4>4, <4>5
    <3>2. ASSUME NEW t \in Symbols, NEW d \in Side, NEW p \in Prices, NEW i \in DOMAIN sim.queue[t][d][p]
          PROVE  sim.queue[t][d][p][i] <= id
      <4> DEFINE x == sim.queue[t][d][p][i]
      <4>1. (\E k \in DOMAIN g_sim.queue[t][d][p] : g_sim.queue[t][d][p][k] = x) \/ x = id
        BY <1>10, <1>12
      <4>2. CASE x = id
        BY <1>2, <4>2
      <4>3. CASE \E k \in DOMAIN g_sim.queue[t][d][p] : g_sim.queue[t][d][p][k] = x
        <5>1. x <= g_sim.last_id
          BY <1>1, <4>3 DEF Books, Apart
        <5>2. x \in Int
          <6>1. g_sim.queue[t] \in Queues
            BY <1>1 DEF Books, Lined
          <6>2. g_sim.queue[t][d][p] \in Seq(OrderIds)
            BY <6>1 DEF Queues
          <6>3. x \in OrderIds
            BY <4>3, <6>2
          <6> HIDE DEF x
          <6> QED
            BY <6>3, Ids
        <5> HIDE DEF x
        <5>3. x <= id
          BY <1>2, <1>5, <5>1, <5>2
        <5> QED
          BY <5>3 DEF x
      <4> QED
        BY <4>1, <4>2, <4>3
    <3> QED
      BY <1>12, <3>1, <3>2 DEF Apart
  <2>2. ASSUME NEW t \in Symbols PROVE Lined(sim.order, sim.queue[t])
    <3>1. CASE t = s
      BY <1>8, <1>12, <3>1
    <3>2. CASE t # s
      <4>1. Lined(g_sim.order, g_sim.queue[t])
        BY <1>1 DEF Books
      <4>2. Lined(after, g_sim.queue[t])
        BY <1>9, <1>13, <3>2, <4>1 DEF Lined
      <4> QED
        BY <1>12, <3>2, <4>2
    <3> QED
      BY <3>1, <3>2
  <2> QED
    BY <2>1, <2>2 DEF Books, sim
<1>16. g_trade_log \in Seq(Trade) /\ g_order_log \in Seq(Told)
  BY <1>1 DEF Types
<1>17. /\ g_trade_log' \in Seq(Trade) /\ Len(g_trade_log') = Min({Len(g_trade_log) + Len(ts), MaxLog})
       /\ Numbered(g_trade_log', sim.traded)
  <2>1. Numbered(g_trade_log, g_sim.traded)
    BY <1>1 DEF Logs
  <2>2. /\ Logged(g_trade_log, ts) \in Seq(Trade)
        /\ Len(Logged(g_trade_log, ts)) = Min({Len(g_trade_log) + Len(ts), MaxLog})
        /\ Numbered(Logged(g_trade_log, ts), [g_sim.traded EXCEPT ![s] = @ + Len(ts)])
    <3>1. g_sim.traded \in [Symbols -> Nat]
      BY <1>5
    <3>2. ts \in Seq(Trade) /\ \A i \in DOMAIN ts : ts[i].symbol = s /\ ts[i].trade_id = g_sim.traded[s] + i
      BY <1>6
    <3>3. g_trade_log \in Seq(Trade) /\ s \in Symbols
      BY <1>16
    <3> QED
      BY ONLY <2>1, <3>1, <3>2, <3>3, NumberedAfter
  <2> QED
    BY <1>3, <1>12, <2>2
<1>18. g_order_log' \in Seq(Told) /\ Tells(g_order_log', after)
  <2>1. us \in Seq(Told) /\ Tells(us, after)
    BY <1>7 DEF Reported
  <2>2. \A y \in OrderIds : after[y] = g_sim.order[y] \/ \E i \in DOMAIN us : us[i].id = y
    BY <1>2, <1>7 DEF Reported
  <2>3. Tells(g_order_log, g_sim.order)
    BY <1>1 DEF Logs
  <2>4. Logged(g_order_log, us) \in Seq(Told) /\ Tells(Logged(g_order_log, us), after)
    BY ONLY <1>16, <2>1, <2>2, <2>3, TellsAfter
  <2> QED
    BY <1>3, <2>4 DEF us
<1>19. Len(g_trade_log') = Min({sim.totals.trades, MaxLog})
  <2> DEFINE T == g_sim.totals.trades
             L == Len(g_trade_log)
             k == Len(ts)
  <2>1. T \in Nat /\ k \in Nat /\ MaxLog \in Nat /\ MaxLog > 0
    BY <1>5, <1>6, FeedAssumption
  <2>2. L = Min({T, MaxLog})
    BY <1>1 DEF Logs
  <2>3. Len(g_trade_log') = Min({L + k, MaxLog}) /\ sim.totals.trades = T + k
    BY <1>12, <1>17
  <2> HIDE DEF T, L, k
  <2>4. L = IF T < MaxLog THEN T ELSE MaxLog
    BY <2>1, <2>2, PairExtrema
  <2>5. L + k \in Int /\ T + k \in Int /\ MaxLog \in Int
    BY <2>1, <2>4
  <2>6. Min({L + k, MaxLog}) = (IF L + k < MaxLog THEN L + k ELSE MaxLog)
        /\ Min({T + k, MaxLog}) = (IF T + k < MaxLog THEN T + k ELSE MaxLog)
    BY <2>5, PairExtrema
  <2>7. Min({L + k, MaxLog}) = Min({T + k, MaxLog})
    BY <2>1, <2>4, <2>6
  <2> QED
    BY <2>3, <2>7
<1>20. Types'
  BY <1>1, <1>3, <1>14, <1>17, <1>18 DEF Types, sim
<1>21. Logs'
  BY <1>12, <1>17, <1>18, <1>19 DEF Logs, sim
<1> QED
  BY <1>15, <1>20, <1>21 DEF IInv

\* A command that touches neither the orders nor the logs.
LEMMA SameBooks ==
    ASSUME IInv, g_sim'.order = g_sim.order, g_sim'.queue = g_sim.queue, g_sim'.traded = g_sim.traded,
           g_sim'.totals.trades = g_sim.totals.trades,
           g_sim'.last_id = g_sim.last_id \/ g_sim'.last_id = g_sim.last_id + 1,
           g_trade_log' = g_trade_log, g_order_log' = g_order_log
    PROVE  Books' /\ Logs'
<1>1. Types /\ Books /\ Logs
  BY DEF IInv
<1>2. Logs'
  BY <1>1 DEF Logs
<1>3. g_sim.last_id \in Nat
  BY <1>1, SimulatorFields DEF Types
<1>4. ASSUME NEW s \in Symbols, NEW d \in Side, NEW p \in Prices, NEW i \in DOMAIN g_sim.queue[s][d][p]
      PROVE  g_sim.queue[s][d][p][i] <= g_sim'.last_id
  <2> DEFINE x == g_sim.queue[s][d][p][i]
  <2>1. x <= g_sim.last_id
    BY <1>1 DEF Books, Apart
  <2>2. x \in Int
    <3>1. g_sim.queue[s] \in Queues
      BY <1>1 DEF Books, Lined
    <3>2. g_sim.queue[s][d][p] \in Seq(OrderIds)
      BY <3>1 DEF Queues
    <3>3. x \in OrderIds
      BY <3>2
    <3> HIDE DEF x
    <3> QED
      BY <3>3, Ids
  <2> HIDE DEF x
  <2>3. x <= g_sim'.last_id
    BY <1>3, <2>1, <2>2
  <2> QED
    BY <2>3 DEF x
<1>5. Apart(g_sim')
  <2>1. Apart(g_sim)
    BY <1>1 DEF Books
  <2> DEFINE sim == g_sim'
  <2>2. sim.queue = g_sim.queue
    OBVIOUS
  <2>3. \A s \in Symbols, d \in Side, p \in Prices : \A i \in DOMAIN g_sim.queue[s][d][p] :
            g_sim.queue[s][d][p][i] <= sim.last_id
    BY <1>4
  <2> HIDE DEF sim
  <2>4. Apart(sim)
    BY <2>1, <2>2, <2>3 DEF Apart
  <2> QED
    BY <2>4 DEF sim
<1>6. \A s \in Symbols : Lined(g_sim'.order, g_sim'.queue[s])
  BY <1>1 DEF Books
<1> QED
  BY <1>2, <1>5, <1>6 DEF Books

\* A new simulator, with empty logs.
LEMMA FreshKeeps ==
    ASSUME NEW lim \in Limits
    PROVE  LET sim == Fresh(lim)
           IN  /\ sim \in Simulator /\ Apart(sim) /\ \A s \in Symbols : Lined(sim.order, sim.queue[s])
               /\ sim.totals.trades = 0 /\ sim.limits = lim
               /\ \A s \in Symbols : sim.marks[s] = 0 /\ sim.net[s] = 0
<1> DEFINE sim == Fresh(lim)
<1>1. sim = [limits |-> lim, last_id |-> 0, order |-> [id \in OrderIds |-> Blank],
             queue |-> [s \in Symbols |-> NoQueues], traded |-> [s \in Symbols |-> 0], net |-> [s \in Symbols |-> 0],
             totals |-> [orders |-> 0, trades |-> 0, rejects |-> 0], marks |-> [s \in Symbols |-> 0]]
  BY DEF Fresh
<1> HIDE DEF sim
<1>2. Blank \in Kept
  BY DEF Blank, Kept, Side, OrderType, OrderStatus
<1>3. NoQueues \in Queues /\ \A d \in Side, p \in Prices : NoQueues[d][p] = << >>
  BY DEF NoQueues, Queues
<1>4. /\ sim.order \in [OrderIds -> Kept] /\ sim.queue \in [Symbols -> Queues] /\ sim.last_id = 0
      /\ \A s \in Symbols, d \in Side, p \in Prices : sim.queue[s][d][p] = << >>
      /\ sim.totals = [orders |-> 0, trades |-> 0, rejects |-> 0] /\ sim.totals.trades = 0 /\ sim.limits = lim
      /\ \A s \in Symbols : sim.marks[s] = 0 /\ sim.net[s] = 0
  BY <1>1, <1>2, <1>3
<1>5. sim \in Simulator
  BY <1>1, <1>2, <1>3 DEF Simulator
<1>6. Apart(sim)
  BY <1>4 DEF Apart
<1>7. ASSUME NEW s \in Symbols PROVE Lined(sim.order, sim.queue[s])
  BY <1>4 DEF Lined
<1> QED
  BY <1>4, <1>5, <1>6, <1>7 DEF sim

LEMMA EmptyLogs ==
    /\ << >> \in Seq(Trade) /\ << >> \in Seq(Told) /\ Len(<< >>) = 0 /\ Min({0, MaxLog}) = 0
    /\ \A traded : Numbered(<< >>, traded)
    /\ \A ord : Tells(<< >>, ord)
<1>1. Min({0, MaxLog}) = 0
  <2>1. MaxLog \in Int /\ 0 < MaxLog
    BY FeedAssumption
  <2> QED
    BY <2>1, PairExtrema
<1> QED
  BY <1>1 DEF Numbered, Tells

LEMMA InitKeeps ==
    ASSUME Init
    PROVE  IInv
<1>1. /\ g_sim = Fresh(DefaultLimits) /\ g_limits = DefaultLimits /\ agreed = DefaultLimits
      /\ g_feed_idx = 0 /\ lapped = FALSE /\ g_trade_log = << >> /\ g_order_log = << >>
      /\ mixed = FALSE /\ loosest = DefaultLimits.max_position
  BY DEF Init
<1>2. DefaultLimits \in Limits /\ DefaultLimits.max_position \in Int
  BY LimitsAssumption DEF Limits
<1>3. /\ g_sim \in Simulator /\ Apart(g_sim) /\ \A s \in Symbols : Lined(g_sim.order, g_sim.queue[s])
      /\ g_sim.totals.trades = 0
  BY <1>1, <1>2, FreshKeeps
<1>4. 0 \in 0 .. Len(Feed)
  BY FeedAssumption
<1>5. Types
  BY <1>1, <1>2, <1>3, <1>4, EmptyLogs DEF Types
<1>6. Logs
  BY <1>1, <1>3, EmptyLogs DEF Logs
<1> QED
  BY <1>3, <1>5, <1>6 DEF IInv, Books

LEMMA ResetKeeps ==
    ASSUME IInv, Reset
    PROVE  IInv'
<1>1. /\ g_sim' = Fresh(g_limits) /\ g_limits' = g_limits /\ agreed' = agreed
      /\ g_feed_idx' = 0 /\ lapped' = FALSE /\ g_trade_log' = << >> /\ g_order_log' = << >>
      /\ mixed' = (g_limits # agreed) /\ loosest' = g_limits.max_position
  BY DEF Reset
<1>2. g_limits \in Limits /\ g_limits.max_position \in Int /\ agreed \in Limits
  BY DEF IInv, Types, Limits
<1> DEFINE sim == g_sim'
<1>3. /\ sim \in Simulator /\ Apart(sim) /\ \A s \in Symbols : Lined(sim.order, sim.queue[s])
      /\ sim.totals.trades = 0
  BY <1>1, <1>2, FreshKeeps
<1>4. 0 \in 0 .. Len(Feed) /\ (g_limits # agreed) \in BOOLEAN
  BY FeedAssumption
<1> HIDE DEF sim
<1>5. Types'
  BY <1>1, <1>2, <1>3, <1>4, EmptyLogs DEF Types, sim
<1>6. Logs'
  BY <1>1, <1>3, EmptyLogs DEF Logs, sim
<1>7. Books'
  BY <1>3 DEF Books, sim
<1> QED
  BY <1>5, <1>6, <1>7 DEF IInv

\* An id is used up.
LEMMA IdUsed ==
    ASSUME IInv, NEW totals \in [orders : Nat, trades : Nat, rejects : Nat], totals.trades = g_sim.totals.trades,
           g_sim' = [limits |-> g_sim.limits, last_id |-> g_sim.last_id + 1, order |-> g_sim.order,
                     queue |-> g_sim.queue, traded |-> g_sim.traded, net |-> g_sim.net, totals |-> totals,
                     marks |-> g_sim.marks],
           UNCHANGED <<g_limits, g_feed_idx, g_trade_log, g_order_log, agreed, mixed, loosest, lapped>>
    PROVE  IInv'
<1>1. Types
  BY DEF IInv
<1>2. g_sim \in Simulator
  BY <1>1 DEF Types
<1>3. /\ g_sim.last_id + 1 \in Nat /\ g_sim.limits \in Limits /\ g_sim.order \in [OrderIds -> Kept]
      /\ g_sim.queue \in [Symbols -> Queues] /\ g_sim.traded \in [Symbols -> Nat] /\ g_sim.net \in [Symbols -> Int]
      /\ g_sim.marks \in [Symbols -> Int]
  BY <1>2, SimulatorFields
<1> DEFINE sim == g_sim'
<1>4. sim = [limits |-> g_sim.limits, last_id |-> g_sim.last_id + 1, order |-> g_sim.order,
             queue |-> g_sim.queue, traded |-> g_sim.traded, net |-> g_sim.net, totals |-> totals,
             marks |-> g_sim.marks]
  OBVIOUS
<1> HIDE DEF sim
<1>5. sim \in Simulator
  BY <1>3, <1>4 DEF Simulator
<1>6. /\ sim.order = g_sim.order /\ sim.queue = g_sim.queue /\ sim.traded = g_sim.traded
      /\ sim.totals.trades = g_sim.totals.trades /\ sim.last_id = g_sim.last_id + 1
  BY <1>4
<1>7. Books' /\ Logs'
  BY <1>6, SameBooks DEF sim
<1>8. Types'
  BY <1>1, <1>5 DEF Types, sim
<1> QED
  BY <1>7, <1>8 DEF IInv

LEMMA RejectKeeps ==
    ASSUME IInv, NEW s, NEW o, NEW market, NEW throttled, Reject(s, o, market, throttled)
    PROVE  IInv'
<1> DEFINE totals == [orders |-> g_sim.totals.orders + 1, trades |-> g_sim.totals.trades,
                      rejects |-> g_sim.totals.rejects + 1]
<1>1. /\ g_sim' = [g_sim EXCEPT !.last_id = g_sim.last_id + 1, !.totals.orders = @ + 1, !.totals.rejects = @ + 1]
      /\ UNCHANGED <<g_limits, g_feed_idx, g_trade_log, g_order_log, agreed, mixed, loosest, lapped>>
  BY DEF Reject
<1>2. g_sim \in Simulator
  BY DEF IInv, Types
<1>3. /\ g_sim = [limits |-> g_sim.limits, last_id |-> g_sim.last_id, order |-> g_sim.order, queue |-> g_sim.queue,
                  traded |-> g_sim.traded, net |-> g_sim.net, totals |-> g_sim.totals, marks |-> g_sim.marks]
      /\ g_sim.totals \in [orders : Nat, trades : Nat, rejects : Nat]
  BY <1>2, SimulatorFields
<1>4. totals \in [orders : Nat, trades : Nat, rejects : Nat] /\ totals.trades = g_sim.totals.trades
  BY <1>3
<1>5. g_sim' = [limits |-> g_sim.limits, last_id |-> g_sim.last_id + 1, order |-> g_sim.order,
                queue |-> g_sim.queue, traded |-> g_sim.traded, net |-> g_sim.net, totals |-> totals,
                marks |-> g_sim.marks]
  BY <1>1, <1>3
<1> HIDE DEF totals
<1> QED
  BY <1>1, <1>4, <1>5, IdUsed

LEMMA UnreadableKeeps ==
    ASSUME IInv, OrderUnreadable
    PROVE  IInv'
<1>1. /\ g_sim' = [g_sim EXCEPT !.last_id = @ + 1]
      /\ UNCHANGED <<g_limits, g_feed_idx, g_trade_log, g_order_log, agreed, mixed, loosest, lapped>>
  BY DEF OrderUnreadable
<1>2. g_sim \in Simulator
  BY DEF IInv, Types
<1>3. /\ g_sim = [limits |-> g_sim.limits, last_id |-> g_sim.last_id, order |-> g_sim.order, queue |-> g_sim.queue,
                  traded |-> g_sim.traded, net |-> g_sim.net, totals |-> g_sim.totals, marks |-> g_sim.marks]
      /\ g_sim.totals \in [orders : Nat, trades : Nat, rejects : Nat]
  BY <1>2, SimulatorFields
<1>4. g_sim' = [limits |-> g_sim.limits, last_id |-> g_sim.last_id + 1, order |-> g_sim.order,
                queue |-> g_sim.queue, traded |-> g_sim.traded, net |-> g_sim.net, totals |-> g_sim.totals,
                marks |-> g_sim.marks]
  BY <1>1, <1>3
<1> QED
  BY <1>1, <1>3, <1>4, IdUsed

\* An order that rests in the book of s is cancelled, and leaves its queue.
LEMMA CancelChanges ==
    ASSUME IInv, NEW s, NEW id \in OrderIds, Cancel(s, id), Resting(s, id)
    PROVE  LET o == [g_sim.order[id] EXCEPT !.status = "CANCELLED"]
               ord == [g_sim.order EXCEPT ![id] = o]
           IN  /\ s \in Symbols /\ o \in Kept /\ o.status = "CANCELLED" /\ ord \in [OrderIds -> Kept]
               /\ g_sim' = [limits |-> g_sim.limits, last_id |-> g_sim.last_id, order |-> ord,
                            queue |-> [g_sim.queue EXCEPT ![s] = Unqueued(g_sim.queue[s], id)],
                            traded |-> g_sim.traded, net |-> g_sim.net, totals |-> g_sim.totals, marks |-> g_sim.marks]
               /\ g_order_log' = Logged(g_order_log, <<Entry(id, o)>>)
               /\ UNCHANGED <<g_limits, g_feed_idx, g_trade_log, agreed, mixed, loosest, lapped>>
<1> DEFINE o == [g_sim.order[id] EXCEPT !.status = "CANCELLED"]
           ord == [g_sim.order EXCEPT ![id] = o]
           q == Unqueued(g_sim.queue[s], id)
<1>1. /\ g_sim' = [g_sim EXCEPT !.order[id].status = "CANCELLED", !.queue[s] = Unqueued(@, id)]
      /\ g_order_log' = Logged(g_order_log, <<Entry(id, g_sim'.order[id])>>)
      /\ UNCHANGED <<g_limits, g_feed_idx, g_trade_log, agreed, mixed, loosest, lapped>>
  BY DEF Cancel
<1>2. s \in Symbols
  BY DEF Resting
<1>3. g_sim \in Simulator
  BY DEF IInv, Types
<1>4. /\ g_sim = [limits |-> g_sim.limits, last_id |-> g_sim.last_id, order |-> g_sim.order, queue |-> g_sim.queue,
                  traded |-> g_sim.traded, net |-> g_sim.net, totals |-> g_sim.totals, marks |-> g_sim.marks]
      /\ g_sim.order \in [OrderIds -> Kept]
  BY <1>3, SimulatorFields
<1>5. o \in Kept /\ o.status = "CANCELLED"
  <2> DEFINE x == g_sim.order[id]
  <2>1. x \in Kept
    BY <1>4
  <2> HIDE DEF x
  <2>2. [x EXCEPT !.status = "CANCELLED"] \in Kept /\ [x EXCEPT !.status = "CANCELLED"].status = "CANCELLED"
    BY <2>1 DEF Kept, OrderStatus
  <2> QED
    BY <2>2 DEF x
<1>6. g_sim' = [limits |-> g_sim.limits, last_id |-> g_sim.last_id, order |-> ord,
                queue |-> [g_sim.queue EXCEPT ![s] = q], traded |-> g_sim.traded, net |-> g_sim.net,
                totals |-> g_sim.totals, marks |-> g_sim.marks]
  <2> HIDE DEF q
  <2>1. g_sim' = [g_sim EXCEPT !.order = ord, !.queue = [g_sim.queue EXCEPT ![s] = q]]
    BY <1>1 DEF q
  <2> HIDE DEF ord
  <2> QED
    BY <1>4, <2>1
<1> HIDE DEF o
<1>7. ord \in [OrderIds -> Kept] /\ ord[id] = o
  BY <1>4, <1>5
<1>8. g_sim'.order = ord
  BY <1>6
<1> QED
  BY <1>1, <1>2, <1>5, <1>6, <1>7, <1>8 DEF o

\* A queue without the order id.
LEMMA UnqueuedValue ==
    ASSUME NEW ord, NEW que, Lined(ord, que), NEW id, NEW d \in Side, NEW p \in Prices
    PROVE  LET r == Unqueued(que, id)[d][p]
           IN  /\ r \in Seq(OrderIds)
               /\ \A i \in DOMAIN r : r[i] # id /\ \E j \in DOMAIN que[d][p] : que[d][p][j] = r[i]
               /\ \A i, j \in DOMAIN r : r[i] = r[j] => i = j
<1> DEFINE q == que[d][p]
<1>1. q \in Seq(OrderIds) /\ \A i, j \in DOMAIN q : q[i] = q[j] => i = j
  BY DEF Lined, Queues
<1>2. Unqueued(que, id)[d][p] = RemoveFirst(q, id)
  BY DEF Unqueued
<1> HIDE DEF q
<1>3. LET r == RemoveFirst(q, id)
      IN  /\ r \in Seq(OrderIds)
          /\ \A i \in DOMAIN r : r[i] # id /\ \E j \in DOMAIN q : q[j] = r[i]
          /\ \A i, j \in DOMAIN r : r[i] = r[j] => i = j
  BY <1>1, FirstRemoved
<1> QED
  BY <1>2, <1>3 DEF q

\* Where it rests, and that it rests nowhere else.
LEMMA RestsOnce ==
    ASSUME IInv, NEW s \in Symbols, NEW id \in OrderIds, Resting(s, id),
           NEW t \in Symbols, t # s, NEW d \in Side, NEW p \in Prices, NEW i \in DOMAIN g_sim.queue[t][d][p]
    PROVE  g_sim.queue[t][d][p][i] # id
<1> DEFINE e == g_sim.order[id].side
<1>1. Types /\ Books
  BY DEF IInv
<1>2. g_sim.order[id] \in Kept
  BY <1>1, SimulatorFields DEF Types
<1>3. e \in Side
  BY <1>2, KeptFields
<1>4. PICK r \in Prices : Contains(g_sim.queue[s][e][r], id)
  BY DEF Resting, Queued
<1>5. g_sim.queue[s][e][r] \in Seq(OrderIds)
  BY <1>1, <1>3 DEF Books, Lined, Queues
<1> HIDE DEF e
<1>6. PICK j \in DOMAIN g_sim.queue[s][e][r] : g_sim.queue[s][e][r][j] = id
  BY <1>4, <1>5 DEF Contains
<1>7. SUFFICES ASSUME g_sim.queue[t][d][p][i] = id PROVE FALSE
  OBVIOUS
<1>8. Waits(g_sim.order[id], e, r) /\ Waits(g_sim.order[id], d, p)
  BY <1>1, <1>3, <1>6, <1>7 DEF Books, Lined
<1>9. e = d /\ r = p
  BY <1>8 DEF Waits
<1> QED
  BY <1>1, <1>6, <1>7, <1>9 DEF Books, Apart

\* The order is in no queue then.
LEMMA CancelledGone ==
    ASSUME IInv, NEW s, NEW id \in OrderIds, Cancel(s, id), Resting(s, id)
    PROVE  /\ g_sim'.order[id].status = "CANCELLED" /\ g_sim'.order[id].side \in Side
           /\ \A t \in Symbols, d \in Side, p \in Prices : \A i \in 1 .. Len(g_sim'.queue[t][d][p]) :
                 g_sim'.queue[t][d][p][i] # id
<1> DEFINE o == [g_sim.order[id] EXCEPT !.status = "CANCELLED"]
           ord == [g_sim.order EXCEPT ![id] = o]
           q == Unqueued(g_sim.queue[s], id)
           sim == g_sim'
<1>1. /\ s \in Symbols /\ o \in Kept /\ o.status = "CANCELLED" /\ ord \in [OrderIds -> Kept]
      /\ sim = [limits |-> g_sim.limits, last_id |-> g_sim.last_id, order |-> ord,
                queue |-> [g_sim.queue EXCEPT ![s] = q], traded |-> g_sim.traded, net |-> g_sim.net,
                totals |-> g_sim.totals, marks |-> g_sim.marks]
  BY CancelChanges
<1>2. g_sim.order \in [OrderIds -> Kept] /\ g_sim.queue \in [Symbols -> Queues]
  BY SimulatorFields DEF IInv, Types
<1>3. ord[id] = o
  BY <1>2
<1>4. \A d \in Side, p \in Prices :
          q[d][p] \in Seq(OrderIds) /\ \A i \in DOMAIN q[d][p] : q[d][p][i] # id
  <2>1. Lined(g_sim.order, g_sim.queue[s])
    BY <1>1 DEF IInv, Books
  <2> QED
    BY <2>1, UnqueuedValue
<1> HIDE DEF o, ord, q, sim
<1>5. sim.order = ord /\ sim.queue[s] = q /\ \A t \in Symbols \ {s} : sim.queue[t] = g_sim.queue[t]
  BY <1>1, <1>2
<1>6. o.side \in Side
  BY <1>1, KeptFields
<1>7. ASSUME NEW t \in Symbols, NEW d \in Side, NEW p \in Prices, NEW i \in 1 .. Len(sim.queue[t][d][p])
      PROVE  sim.queue[t][d][p][i] # id
  <2>1. CASE t = s
    <3>1. sim.queue[t][d][p] = q[d][p]
      BY <1>5, <2>1
    <3> QED
      BY <1>4, <3>1
  <2>2. CASE t # s
    <3>1. sim.queue[t] = g_sim.queue[t]
      BY <1>5, <2>2
    <3>2. g_sim.queue[t][d][p] \in Seq(OrderIds)
      BY <1>2 DEF Queues
    <3> QED
      BY <1>1, <2>2, <3>1, <3>2, RestsOnce
  <2> QED
    BY <2>1, <2>2
<1> QED
  BY <1>1, <1>3, <1>5, <1>6, <1>7 DEF sim

LEMMA CancelKeeps ==
    ASSUME IInv, NEW s, NEW id \in OrderIds, Cancel(s, id)
    PROVE  IInv'
<1>1. CASE ~Resting(s, id)
  <2>1. UNCHANGED <<g_sim, g_order_log, g_limits, g_feed_idx, g_trade_log, agreed, mixed, loosest, lapped>>
    BY <1>1 DEF Cancel
  <2>2. Types' /\ Books' /\ Logs'
    BY <2>1 DEF IInv, Types, Books, Logs
  <2> QED
    BY <2>2 DEF IInv
<1>2. CASE Resting(s, id)
  <2> DEFINE o == [g_sim.order[id] EXCEPT !.status = "CANCELLED"]
             ord == [g_sim.order EXCEPT ![id] = o]
             q == Unqueued(g_sim.queue[s], id)
             sim == g_sim'
             entry == <<Entry(id, o)>>
  <2>1. /\ s \in Symbols /\ o \in Kept /\ ord \in [OrderIds -> Kept]
        /\ sim = [limits |-> g_sim.limits, last_id |-> g_sim.last_id, order |-> ord,
                  queue |-> [g_sim.queue EXCEPT ![s] = q], traded |-> g_sim.traded, net |-> g_sim.net,
                  totals |-> g_sim.totals, marks |-> g_sim.marks]
        /\ g_order_log' = Logged(g_order_log, entry)
        /\ UNCHANGED <<g_limits, g_feed_idx, g_trade_log, agreed, mixed, loosest, lapped>>
    BY <1>2, CancelChanges
  <2>2. Types /\ Books /\ Logs
    BY DEF IInv
  <2>3. g_sim \in Simulator
    BY <2>2 DEF Types
  <2>4. /\ g_sim.limits \in Limits /\ g_sim.last_id \in Nat /\ g_sim.queue \in [Symbols -> Queues]
        /\ g_sim.traded \in [Symbols -> Nat] /\ g_sim.net \in [Symbols -> Int]
        /\ g_sim.totals \in [orders : Nat, trades : Nat, rejects : Nat] /\ g_sim.marks \in [Symbols -> Int]
        /\ g_sim.order \in [OrderIds -> Kept]
    BY <2>3, SimulatorFields
  <2>5. \A d \in Side, p \in Prices :
            /\ q[d][p] \in Seq(OrderIds)
            /\ \A i \in DOMAIN q[d][p] : q[d][p][i] # id /\ \E j \in DOMAIN g_sim.queue[s][d][p] :
                                                              g_sim.queue[s][d][p][j] = q[d][p][i]
            /\ \A i, j \in DOMAIN q[d][p] : q[d][p][i] = q[d][p][j] => i = j
    <3>1. Lined(g_sim.order, g_sim.queue[s])
      BY <2>1, <2>2 DEF Books
    <3> QED
      BY <3>1, UnqueuedValue
  <2>6. q \in Queues
    <3>1. q = [d \in Side |-> [p \in Prices |-> q[d][p]]]
      BY DEF Unqueued
    <3> HIDE DEF q
    <3> QED
      BY <2>5, <3>1 DEF Queues
  <2>7. ord[id] = o /\ \A x \in OrderIds \ {id} : ord[x] = g_sim.order[x]
    BY <2>4
  <2>8. \A t \in Symbols, d \in Side, p \in Prices : t # s => \A i \in DOMAIN g_sim.queue[t][d][p] :
            g_sim.queue[t][d][p][i] # id
    BY <1>2, <2>1, RestsOnce
  <2>9. entry \in Seq(Told) /\ DOMAIN entry = {1} /\ entry[1] = Entry(id, o) /\ entry[1].id = id
    <3>1. Entry(id, o) \in Told /\ Entry(id, o).id = id
      BY <2>1, KeptFields DEF Entry, Told
    <3> HIDE DEF o
    <3> QED
      BY <3>1
  <2> HIDE DEF o, ord, q, sim, entry
  <2>10. /\ sim.order = ord /\ sim.queue[s] = q /\ sim.traded = g_sim.traded /\ sim.totals = g_sim.totals
         /\ sim.last_id = g_sim.last_id /\ \A t \in Symbols \ {s} : sim.queue[t] = g_sim.queue[t]
    BY <2>1, <2>4
  <2>11. sim \in Simulator
    <3>1. [g_sim.queue EXCEPT ![s] = q] \in [Symbols -> Queues]
      BY <2>4, <2>6
    <3> QED
      BY <2>1, <2>4, <3>1 DEF Simulator
  <2>12. \A t \in Symbols, d \in Side, p \in Prices : \A i \in DOMAIN sim.queue[t][d][p] :
             /\ sim.queue[t][d][p][i] # id
             /\ \E j \in DOMAIN g_sim.queue[t][d][p] : g_sim.queue[t][d][p][j] = sim.queue[t][d][p][i]
    <3> SUFFICES ASSUME NEW t \in Symbols, NEW d \in Side, NEW p \in Prices, NEW i \in DOMAIN sim.queue[t][d][p]
                 PROVE  /\ sim.queue[t][d][p][i] # id
                        /\ \E j \in DOMAIN g_sim.queue[t][d][p] : g_sim.queue[t][d][p][j] = sim.queue[t][d][p][i]
      OBVIOUS
    <3>1. CASE t = s
      BY <2>5, <2>10, <3>1
    <3>2. CASE t # s
      BY <2>8, <2>10, <3>2
    <3> QED
      BY <3>1, <3>2
  <2>13. Apart(sim)
    <3>1. Apart(g_sim)
      BY <2>2 DEF Books
    <3>2. ASSUME NEW t \in Symbols, NEW u \in Symbols, NEW d \in Side, NEW p \in Prices,
                 NEW i \in DOMAIN sim.queue[t][d][p], NEW j \in DOMAIN sim.queue[u][d][p],
                 sim.queue[t][d][p][i] = sim.queue[u][d][p][j]
          PROVE  t = u
      BY <2>12, <3>1, <3>2 DEF Apart
    <3>3. ASSUME NEW t \in Symbols, NEW d \in Side, NEW p \in Prices, NEW i \in DOMAIN sim.queue[t][d][p]
          PROVE  sim.queue[t][d][p][i] <= sim.last_id
      BY <2>10, <2>12, <3>1 DEF Apart
    <3> QED
      BY <3>2, <3>3 DEF Apart
  <2>14. ASSUME NEW t \in Symbols PROVE Lined(sim.order, sim.queue[t])
    <3>1. Lined(g_sim.order, g_sim.queue[t])
      BY <2>2 DEF Books
    <3>2. sim.queue[t] \in Queues /\ sim.order \in [OrderIds -> Kept]
      BY <2>11, SimulatorFields
    <3>3. \A d \in Side, p \in Prices : sim.queue[t][d][p] \in Seq(OrderIds)
      BY <3>2 DEF Queues
    <3>4. ASSUME NEW d \in Side, NEW p \in Prices, NEW i \in DOMAIN sim.queue[t][d][p]
          PROVE  Waits(sim.order[sim.queue[t][d][p][i]], d, p)
      <4> DEFINE x == sim.queue[t][d][p][i]
      <4>1. x \in OrderIds
        BY <3>3
      <4>2. x # id /\ \E j \in DOMAIN g_sim.queue[t][d][p] : g_sim.queue[t][d][p][j] = x
        BY <2>12
      <4>3. Waits(g_sim.order[x], d, p)
        BY <3>1, <4>2 DEF Lined
      <4>4. sim.order[x] = g_sim.order[x]
        BY <2>7, <2>10, <4>1, <4>2
      <4> QED
        BY <4>3, <4>4
    <3>5. ASSUME NEW d \in Side, NEW p \in Prices
          PROVE  \A i, j \in DOMAIN sim.queue[t][d][p] : sim.queue[t][d][p][i] = sim.queue[t][d][p][j] => i = j
      <4>1. CASE t = s
        BY <2>5, <2>10, <4>1
      <4>2. CASE t # s
        BY <2>10, <3>1, <4>2 DEF Lined
      <4> QED
        BY <4>1, <4>2
    <3> QED
      BY <3>2, <3>4, <3>5 DEF Lined
  <2>15. Books'
    BY <2>13, <2>14 DEF Books, sim
  <2>16. g_order_log' \in Seq(Told) /\ Tells(g_order_log', ord)
    <3>1. Tells(entry, ord)
      BY <2>7, <2>9 DEF Tells
    <3>2. \A y \in OrderIds : ord[y] = g_sim.order[y] \/ \E i \in DOMAIN entry : entry[i].id = y
      BY <2>7, <2>9
    <3>3. g_order_log \in Seq(Told) /\ Tells(g_order_log, g_sim.order) /\ entry \in Seq(Told)
      BY <2>2, <2>9 DEF Types, Logs
    <3>4. Logged(g_order_log, entry) \in Seq(Told) /\ Tells(Logged(g_order_log, entry), ord)
      BY ONLY <3>1, <3>2, <3>3, TellsAfter
    <3> QED
      BY <2>1, <3>4
  <2>17. Logs'
    BY <2>1, <2>2, <2>10, <2>16 DEF Logs, sim
  <2>18. Types'
    BY <2>1, <2>2, <2>11, <2>16 DEF Types, sim
  <2> QED
    BY <2>15, <2>17, <2>18 DEF IInv
<1> QED
  BY <1>1, <1>2

\* A turn takes some tick of the feed: where it is in its lap.
LEMMA Lap ==
    ASSUME NEW l \in Nat, l >= 1, NEW i \in Nat
    PROVE  /\ i % l \in 0 .. l - 1 /\ i \div l \in Nat /\ i = (i \div l) * l + (i % l)
  OBVIOUS

LEMMA AtValue ==
    ASSUME NEW i \in Nat
    PROVE  At(i) \in 1 .. Len(Feed) /\ At(i) = (i % Len(Feed)) + 1
<1> DEFINE l == Len(Feed)
<1>1. l \in Nat /\ l >= 1
  BY FeedAssumption
<1>2. At(i) = (i % l) + 1
  BY DEF At
<1> HIDE DEF l
<1>3. i % l \in 0 .. l - 1
  BY <1>1, Lap
<1>4. At(i) \in 1 .. l
  BY <1>1, <1>2, <1>3
<1> QED
  BY <1>2, <1>4 DEF l

\* feed_step takes at least one tick.
LEMMA FeedChanges ==
    ASSUME IInv, NEW n \in StepInputs, FeedStep(n)
    PROVE  \E count \in Nat \ {0} :
               /\ g_sim' = [limits |-> g_sim.limits, last_id |-> g_sim.last_id, order |-> g_sim.order,
                            queue |-> g_sim.queue, traded |-> g_sim.traded, net |-> g_sim.net,
                            totals |-> g_sim.totals, marks |-> Marked(g_feed_idx .. g_feed_idx + count - 1)]
               /\ g_feed_idx' = At(g_feed_idx + count - 1)
               /\ lapped' = (lapped \/ g_feed_idx + count > Len(Feed))
               /\ UNCHANGED <<g_limits, g_trade_log, g_order_log, agreed, mixed, loosest>>
<1> DEFINE count == Max({1, Min({n, MaxStep})})
           turns == g_feed_idx .. g_feed_idx + count - 1
<1>1. n \in Int /\ MaxStep \in Int
  BY FeedAssumption
<1>2. Min({n, MaxStep}) \in Int
  <2>1. Min({n, MaxStep}) = IF n < MaxStep THEN n ELSE MaxStep
    BY <1>1, PairExtrema
  <2> QED
    BY <1>1, <2>1
<1>3. count \in Nat \ {0}
  <2> DEFINE m == Min({n, MaxStep})
  <2>1. m \in Int
    BY <1>2
  <2> HIDE DEF m
  <2>2. 1 \in Int
    OBVIOUS
  <2>3. Max({1, m}) = IF 1 < m THEN m ELSE 1
    BY <2>1, <2>2, PairExtrema
  <2>4. Max({1, m}) \in Nat \ {0}
    BY <2>1, <2>3
  <2> QED
    BY <2>4 DEF m
<1>4. /\ g_sim' = [g_sim EXCEPT !.marks = Marked(turns)]
      /\ g_feed_idx' = At(g_feed_idx + count - 1)
      /\ lapped' = (lapped \/ g_feed_idx + count > Len(Feed))
      /\ UNCHANGED <<g_limits, g_trade_log, g_order_log, agreed, mixed, loosest>>
  BY DEF FeedStep
<1>5. g_sim \in Simulator
  BY DEF IInv, Types
<1>6. g_sim = [limits |-> g_sim.limits, last_id |-> g_sim.last_id, order |-> g_sim.order, queue |-> g_sim.queue,
               traded |-> g_sim.traded, net |-> g_sim.net, totals |-> g_sim.totals, marks |-> g_sim.marks]
  BY <1>5, SimulatorFields
<1>7. g_sim' = [limits |-> g_sim.limits, last_id |-> g_sim.last_id, order |-> g_sim.order,
                queue |-> g_sim.queue, traded |-> g_sim.traded, net |-> g_sim.net,
                totals |-> g_sim.totals, marks |-> Marked(turns)]
  <2> DEFINE m == Marked(turns)
  <2>1. g_sim' = [g_sim EXCEPT !.marks = m]
    BY <1>4
  <2> HIDE DEF m
  <2>2. g_sim' = [limits |-> g_sim.limits, last_id |-> g_sim.last_id, order |-> g_sim.order,
                  queue |-> g_sim.queue, traded |-> g_sim.traded, net |-> g_sim.net,
                  totals |-> g_sim.totals, marks |-> m]
    BY <1>6, <2>1
  <2> QED
    BY <2>2 DEF m
<1> HIDE DEF count
<1> QED
  BY <1>3, <1>4, <1>7

\* The turns that take a tick of that symbol; the last of them sets its price.
Own(s, a, count) == {i \in a .. a + count - 1 : Feed[At(i)].symbol = s}

LEMMA MarkedValue ==
    ASSUME NEW s \in Symbols, NEW a \in Nat, NEW count \in Nat
    PROVE  LET own == Own(s, a, count)
               m == Marked(a .. a + count - 1)[s]
           IN  /\ own \subseteq Nat
               /\ own = {} => m = g_sim.marks[s]
               /\ own # {} => /\ Max(own) \in own /\ \A i \in own : i <= Max(own)
                              /\ m = Feed[At(Max(own))].last_price /\ m \in Int
<1> DEFINE own == Own(s, a, count)
           m == Marked(a .. a + count - 1)[s]
           e == a + count - 1
<1>1. m = IF own = {} THEN g_sim.marks[s] ELSE Feed[At(Max(own))].last_price
  BY DEF Marked, Own
<1>2. own \subseteq a .. e /\ a \in Int /\ e \in Int /\ a .. e \subseteq Nat
  BY DEF Own
<1> HIDE DEF own, m, e
<1>3. IsFiniteSet(own)
  BY <1>2, FS_Interval, FS_Subset
<1>4. own \subseteq Int /\ own \subseteq Nat
  BY <1>2
<1>5. ASSUME own # {}
      PROVE  Max(own) \in own /\ (\A i \in own : i <= Max(own)) /\ Feed[At(Max(own))].last_price \in Int
  <2>1. Max(own) \in own /\ \A i \in own : Max(own) >= i
    BY <1>3, <1>4, <1>5, MinMax
  <2> DEFINE x == Max(own)
  <2>2. x \in Nat
    BY <1>4, <2>1
  <2> HIDE DEF x
  <2>3. At(x) \in 1 .. Len(Feed)
    BY <2>2, AtValue
  <2>4. Feed[At(x)] \in [symbol : Symbols, last_price : Int]
    <3> DEFINE T == [symbol : Symbols, last_price : Int]
               k == At(x)
    <3>1. Feed \in Seq(T) /\ k \in 1 .. Len(Feed)
      BY <2>3, FeedAssumption
    <3> HIDE DEF T, k
    <3>2. Feed[k] \in T
      BY ONLY <3>1
    <3> QED
      BY <3>2 DEF T, k
  <2>5. Feed[At(x)].last_price \in Int
    BY <2>4
  <2>6. \A i \in own : i <= x
    BY <1>4, <2>1, <2>2 DEF x
  <2> QED
    BY <2>1, <2>5, <2>6 DEF x
<1> QED
  BY <1>1, <1>4, <1>5 DEF own, m

LEMMA FeedKeeps ==
    ASSUME IInv, NEW n \in StepInputs, FeedStep(n)
    PROVE  IInv'
<1>1. PICK count \in Nat \ {0} :
          /\ g_sim' = [limits |-> g_sim.limits, last_id |-> g_sim.last_id, order |-> g_sim.order,
                       queue |-> g_sim.queue, traded |-> g_sim.traded, net |-> g_sim.net,
                       totals |-> g_sim.totals, marks |-> Marked(g_feed_idx .. g_feed_idx + count - 1)]
          /\ g_feed_idx' = At(g_feed_idx + count - 1)
          /\ lapped' = (lapped \/ g_feed_idx + count > Len(Feed))
          /\ UNCHANGED <<g_limits, g_trade_log, g_order_log, agreed, mixed, loosest>>
  BY FeedChanges
<1> DEFINE m == Marked(g_feed_idx .. g_feed_idx + count - 1)
           sim == g_sim'
<1>2. Types
  BY DEF IInv
<1>3. g_sim \in Simulator /\ g_feed_idx \in 0 .. Len(Feed) /\ lapped \in BOOLEAN
  BY <1>2 DEF Types
<1>4. /\ g_sim.limits \in Limits /\ g_sim.last_id \in Nat /\ g_sim.order \in [OrderIds -> Kept]
      /\ g_sim.queue \in [Symbols -> Queues] /\ g_sim.traded \in [Symbols -> Nat] /\ g_sim.net \in [Symbols -> Int]
      /\ g_sim.totals \in [orders : Nat, trades : Nat, rejects : Nat] /\ g_sim.marks \in [Symbols -> Int]
  BY <1>3, SimulatorFields
<1>5. g_feed_idx \in Nat /\ count \in Nat /\ g_feed_idx + count - 1 \in Nat
  BY <1>3
<1>6. m \in [Symbols -> Int]
  <2>1. \A s \in Symbols : m[s] \in Int
    <3>1. \A s \in Symbols : g_sim.marks[s] \in Int
      BY <1>4
    <3>2. ASSUME NEW s \in Symbols PROVE m[s] \in Int
      <4>1. /\ Own(s, g_feed_idx, count) = {} => m[s] = g_sim.marks[s]
            /\ Own(s, g_feed_idx, count) # {} => m[s] \in Int
        BY <1>5, MarkedValue
      <4> HIDE DEF m
      <4> QED
        BY <3>1, <4>1
    <3> HIDE DEF m
    <3> QED
      BY <3>2
  <2>2. m = [s \in Symbols |-> m[s]]
    BY DEF Marked
  <2> HIDE DEF m
  <2> QED
    BY <2>1, <2>2
<1>7. g_feed_idx' \in 0 .. Len(Feed)
  <2>1. At(g_feed_idx + count - 1) \in 1 .. Len(Feed)
    BY <1>5, AtValue
  <2>2. 1 .. Len(Feed) \subseteq 0 .. Len(Feed)
    BY FeedAssumption
  <2> QED
    BY <1>1, <2>1, <2>2
<1>8. sim = [limits |-> g_sim.limits, last_id |-> g_sim.last_id, order |-> g_sim.order,
             queue |-> g_sim.queue, traded |-> g_sim.traded, net |-> g_sim.net, totals |-> g_sim.totals, marks |-> m]
  BY <1>1
<1> HIDE DEF m, sim
<1>9. sim \in Simulator
  BY <1>4, <1>6, <1>8 DEF Simulator
<1>10. /\ sim.order = g_sim.order /\ sim.queue = g_sim.queue /\ sim.traded = g_sim.traded
       /\ sim.totals = g_sim.totals /\ sim.last_id = g_sim.last_id
  BY <1>8
<1>11. Books' /\ Logs'
  BY <1>1, <1>10, SameBooks DEF sim
<1>12. lapped' \in BOOLEAN
  BY <1>1
<1>13. Types'
  BY <1>1, <1>2, <1>7, <1>9, <1>12 DEF Types, sim
<1> QED
  BY <1>11, <1>13 DEF IInv

\* The fields that a risk_limits assigns are numbers.
LEMMA AssignedValue ==
    ASSUME g_limits \in Limits, NEW body \in LimitInputs
    PROVE  /\ Assigned(body) \in Limits
           /\ \/ Assigned(body).max_position = g_limits.max_position
              \/ body.max_position # Bad /\ Assigned(body).max_position = body.max_position
<1> DEFINE taken(f) == \E i \in DOMAIN Fields : Fields[i] = f /\ \A j \in 1 .. i : body[Fields[j]] # Bad
           a == Assigned(body)
           F == {"max_order_qty", "max_position", "max_notional", "max_orders_per_sec"}
<1>1. DOMAIN g_limits = F \cup {"enabled"} /\ (\A f \in F : g_limits[f] \in Int) /\ g_limits.enabled \in BOOLEAN
  BY DEF Limits
<1>2. a = [f \in F \cup {"enabled"} |-> IF taken(f) THEN body[f] ELSE g_limits[f]]
  BY <1>1 DEF Assigned
<1>3. DOMAIN Fields = 1 .. 4 /\ \A i \in 1 .. 4 : Fields[i] \in F
  BY DEF Fields
<1>4. \A f : taken(f) => f \in F /\ body[f] # Bad
  <2> SUFFICES ASSUME NEW f, NEW i \in DOMAIN Fields, Fields[i] = f, \A j \in 1 .. i : body[Fields[j]] # Bad
               PROVE  f \in F /\ body[f] # Bad
    OBVIOUS
  <2>1. i \in 1 .. i
    BY <1>3
  <2> QED
    BY <1>3, <2>1
<1>5. \A f \in F : body[f] \in Int \cup {Bad}
  BY LimitsAssumption
<1> HIDE DEF taken, a
<1>6. "enabled" \notin F
  OBVIOUS
<1>7. /\ \A f \in F : a[f] \in Int /\ (a[f] = g_limits[f] \/ (body[f] # Bad /\ a[f] = body[f]))
      /\ a["enabled"] \in BOOLEAN
  BY <1>1, <1>2, <1>4, <1>5, <1>6
<1>8. a = [max_order_qty |-> a.max_order_qty, max_position |-> a.max_position, max_notional |-> a.max_notional,
           max_orders_per_sec |-> a.max_orders_per_sec, enabled |-> a.enabled]
  BY <1>2
<1>9. a \in Limits
  BY <1>7, <1>8 DEF Limits
<1> QED
  BY <1>7, <1>9 DEF a

\* risk_limits either tells the simulator what it has assigned, or nothing.
LEMMA LimitsChange ==
    ASSUME IInv, NEW body \in LimitInputs, SetLimits(body)
    PROVE  /\ g_limits' = Assigned(body) /\ g_limits' \in Limits
           /\ \/ /\ g_sim' = [limits |-> g_limits', last_id |-> g_sim.last_id, order |-> g_sim.order,
                              queue |-> g_sim.queue, traded |-> g_sim.traded, net |-> g_sim.net,
                              totals |-> g_sim.totals, marks |-> g_sim.marks]
                 /\ agreed' = g_limits' /\ mixed' = FALSE
              \/ g_sim' = g_sim /\ agreed' = agreed /\ mixed' = mixed
           /\ loosest' = Max({loosest, g_sim'.limits.max_position}) /\ reply' = NoReply
           /\ UNCHANGED <<g_feed_idx, g_trade_log, g_order_log, lapped>>
<1> DEFINE ok == \A i \in DOMAIN Fields : body[Fields[i]] # Bad
<1>1. /\ g_limits' = Assigned(body)
      /\ g_sim' = (IF ok THEN [g_sim EXCEPT !.limits = g_limits'] ELSE g_sim)
      /\ agreed' = (IF ok THEN g_limits' ELSE agreed)
      /\ mixed' = (IF ok THEN FALSE ELSE mixed)
      /\ loosest' = Max({loosest, g_sim'.limits.max_position}) /\ reply' = NoReply
      /\ UNCHANGED <<g_feed_idx, g_trade_log, g_order_log, lapped>>
  BY DEF SetLimits
<1>2. g_sim \in Simulator /\ g_limits \in Limits
  BY DEF IInv, Types
<1>3. g_sim = [limits |-> g_sim.limits, last_id |-> g_sim.last_id, order |-> g_sim.order, queue |-> g_sim.queue,
               traded |-> g_sim.traded, net |-> g_sim.net, totals |-> g_sim.totals, marks |-> g_sim.marks]
  BY <1>2, SimulatorFields
<1>4. Assigned(body) \in Limits
  BY <1>2, AssignedValue
<1>5. [g_sim EXCEPT !.limits = g_limits'] =
          [limits |-> g_limits', last_id |-> g_sim.last_id, order |-> g_sim.order, queue |-> g_sim.queue,
           traded |-> g_sim.traded, net |-> g_sim.net, totals |-> g_sim.totals, marks |-> g_sim.marks]
  BY <1>3
<1> HIDE DEF ok
<1> QED
  BY <1>1, <1>4, <1>5

LEMMA LimitsKeep ==
    ASSUME IInv, NEW body \in LimitInputs, SetLimits(body)
    PROVE  IInv'
<1>1. /\ g_limits' = Assigned(body) /\ g_limits' \in Limits
      /\ \/ /\ g_sim' = [limits |-> g_limits', last_id |-> g_sim.last_id, order |-> g_sim.order,
                         queue |-> g_sim.queue, traded |-> g_sim.traded, net |-> g_sim.net,
                         totals |-> g_sim.totals, marks |-> g_sim.marks]
            /\ agreed' = g_limits' /\ mixed' = FALSE
         \/ g_sim' = g_sim /\ agreed' = agreed /\ mixed' = mixed
      /\ loosest' = Max({loosest, g_sim'.limits.max_position}) /\ reply' = NoReply
      /\ UNCHANGED <<g_feed_idx, g_trade_log, g_order_log, lapped>>
  BY LimitsChange
<1>2. Types
  BY DEF IInv
<1>3. g_sim \in Simulator
  BY <1>2 DEF Types
<1>4. /\ g_sim.limits \in Limits /\ g_sim.last_id \in Nat /\ g_sim.order \in [OrderIds -> Kept]
      /\ g_sim.queue \in [Symbols -> Queues] /\ g_sim.traded \in [Symbols -> Nat] /\ g_sim.net \in [Symbols -> Int]
      /\ g_sim.totals \in [orders : Nat, trades : Nat, rejects : Nat] /\ g_sim.marks \in [Symbols -> Int]
  BY <1>3, SimulatorFields
<1> DEFINE sim == g_sim'
           lim == g_limits'
<1>5. \/ sim = [limits |-> lim, last_id |-> g_sim.last_id, order |-> g_sim.order, queue |-> g_sim.queue,
                traded |-> g_sim.traded, net |-> g_sim.net, totals |-> g_sim.totals, marks |-> g_sim.marks]
      \/ sim = g_sim
  BY <1>1
<1>6. lim \in Limits
  BY <1>1
<1> HIDE DEF sim, lim
<1>7. sim \in Simulator
  <2>1. CASE sim = g_sim
    BY <1>3, <2>1
  <2>2. CASE sim # g_sim
    BY <1>4, <1>5, <1>6, <2>2 DEF Simulator
  <2> QED
    BY <2>1, <2>2
<1>8. /\ sim.order = g_sim.order /\ sim.queue = g_sim.queue /\ sim.traded = g_sim.traded
      /\ sim.totals = g_sim.totals /\ sim.last_id = g_sim.last_id
  BY <1>5
<1>9. Books' /\ Logs'
  BY <1>1, <1>8, SameBooks DEF sim
<1>10. loosest' \in Int
  <2> DEFINE m == sim.limits.max_position
  <2>1. sim.limits \in Limits
    BY <1>7, SimulatorFields
  <2>2. m \in Int /\ loosest \in Int
    BY <1>2, <2>1 DEF Limits, Types
  <2>3. loosest' = Max({loosest, m})
    BY <1>1 DEF sim
  <2> HIDE DEF m
  <2>4. Max({loosest, m}) = IF loosest < m THEN m ELSE loosest
    BY <2>2, PairExtrema
  <2> QED
    BY <2>2, <2>3, <2>4
<1>11. agreed' \in Limits /\ mixed' \in BOOLEAN
  BY <1>1, <1>2 DEF Types
<1>12. Types'
  BY <1>1, <1>2, <1>7, <1>10, <1>11 DEF Types, sim
<1> QED
  BY <1>9, <1>12 DEF IInv

\* Every command does.
LEMMA InvStep ==
    ASSUME IInv, [Next]_vars
    PROVE  IInv'
<1>1. CASE UNCHANGED vars
  <2>1. Types' /\ Books' /\ Logs'
    BY <1>1 DEF IInv, Types, Books, Logs, vars
  <2> QED
    BY <2>1 DEF IInv
<1>2. CASE Next
  BY <1>2, RejectKeeps, AcceptKeeps, UnreadableKeeps, CancelKeeps, FeedKeeps, LimitsKeep, ResetKeeps DEF Next
<1> QED
  BY <1>1, <1>2

THEOREM Invariance == Spec => []IInv
<1>1. Init => IInv
  BY InitKeeps
<1>2. IInv /\ [Next]_vars => IInv'
  BY InvStep
<1> QED
  BY <1>1, <1>2, PTL DEF Spec
-----------------------------------------------------------------------------
(* What that gives.                                                        *)

\* `trades` and `orders` answer the end of this session's history: the trades with no
\* gap in any book's ids, and of every order that is mentioned what it is now.
THEOREM LogsEndHistory == Spec => []LogsAreRecent
<1>1. IInv => LogsAreRecent
  BY DEF IInv, Logs, Numbered, Newer, Tells, LogsAreRecent
<1> QED
  BY <1>1, Invariance, PTL

\* The commands on orders change no limits and no market prices.
LEMMA OrdersOnly ==
    ASSUME IInv,
           \/ \E s \in Symbols \cup {Unlisted}, o \in Inputs, market \in {0} \cup Prices, throttled \in BOOLEAN :
                 Reject(s, o, market, throttled)
           \/ \E s \in Symbols, o \in Inputs, market \in {0} \cup Prices : Accept(s, o, market)
           \/ OrderUnreadable
           \/ \E s \in Symbols \cup {Unlisted}, id \in OrderIds : Cancel(s, id)
    PROVE  /\ g_sim'.limits = g_sim.limits /\ g_sim'.marks = g_sim.marks
           /\ UNCHANGED <<g_limits, g_feed_idx, agreed, mixed, loosest, lapped>>
<1>1. g_sim \in Simulator /\ Types
  BY DEF IInv, Types
<1>2. g_sim = [limits |-> g_sim.limits, last_id |-> g_sim.last_id, order |-> g_sim.order, queue |-> g_sim.queue,
               traded |-> g_sim.traded, net |-> g_sim.net, totals |-> g_sim.totals, marks |-> g_sim.marks]
  BY <1>1, SimulatorFields
<1>3. ASSUME NEW s, NEW o, NEW market, NEW throttled, Reject(s, o, market, throttled)
      PROVE  /\ g_sim'.limits = g_sim.limits /\ g_sim'.marks = g_sim.marks
             /\ UNCHANGED <<g_limits, g_feed_idx, agreed, mixed, loosest, lapped>>
  <2>1. /\ g_sim' = [g_sim EXCEPT !.last_id = g_sim.last_id + 1, !.totals.orders = @ + 1, !.totals.rejects = @ + 1]
        /\ UNCHANGED <<g_limits, g_feed_idx, agreed, mixed, loosest, lapped>>
    BY <1>3 DEF Reject
  <2> QED
    BY <1>2, <2>1
<1>4. ASSUME NEW s \in Symbols, NEW o \in Inputs, NEW market, Accept(s, o, market)
      PROVE  /\ g_sim'.limits = g_sim.limits /\ g_sim'.marks = g_sim.marks
             /\ UNCHANGED <<g_limits, g_feed_idx, agreed, mixed, loosest, lapped>>
  BY <1>1, <1>4, AcceptChanges
<1>5. ASSUME OrderUnreadable
      PROVE  /\ g_sim'.limits = g_sim.limits /\ g_sim'.marks = g_sim.marks
             /\ UNCHANGED <<g_limits, g_feed_idx, agreed, mixed, loosest, lapped>>
  <2>1. /\ g_sim' = [g_sim EXCEPT !.last_id = @ + 1]
        /\ UNCHANGED <<g_limits, g_feed_idx, agreed, mixed, loosest, lapped>>
    BY <1>5 DEF OrderUnreadable
  <2> QED
    BY <1>2, <2>1
<1>6. ASSUME NEW s, NEW id \in OrderIds, Cancel(s, id)
      PROVE  /\ g_sim'.limits = g_sim.limits /\ g_sim'.marks = g_sim.marks
             /\ UNCHANGED <<g_limits, g_feed_idx, agreed, mixed, loosest, lapped>>
  <2>1. CASE Resting(s, id)
    <3> DEFINE ord == [g_sim.order EXCEPT ![id] = [g_sim.order[id] EXCEPT !.status = "CANCELLED"]]
               que == [g_sim.queue EXCEPT ![s] = Unqueued(g_sim.queue[s], id)]
               sim == g_sim'
    <3>1. /\ sim = [limits |-> g_sim.limits, last_id |-> g_sim.last_id, order |-> ord, queue |-> que,
                    traded |-> g_sim.traded, net |-> g_sim.net, totals |-> g_sim.totals, marks |-> g_sim.marks]
          /\ UNCHANGED <<g_limits, g_feed_idx, agreed, mixed, loosest, lapped>>
      BY <1>6, <2>1, CancelChanges
    <3> HIDE DEF ord, que, sim
    <3>2. sim.limits = g_sim.limits /\ sim.marks = g_sim.marks
      BY <3>1
    <3> QED
      BY <3>1, <3>2 DEF sim
  <2>2. CASE ~Resting(s, id)
    BY <1>6, <2>2 DEF Cancel
  <2> QED
    BY <2>1, <2>2
<1> QED
  BY <1>3, <1>4, <1>5, <1>6

\* The simulator's limits are those that were last agreed to, unless the session began otherwise.
THEOREM LimitsAreExplained == Spec => []LimitsExplained
<1>1. Init => LimitsExplained
  <2> SUFFICES ASSUME Init PROVE LimitsExplained
    OBVIOUS
  <2>1. g_sim = Fresh(DefaultLimits) /\ agreed = DefaultLimits
    BY DEF Init
  <2>2. g_sim.limits = DefaultLimits
    BY <2>1, LimitsAssumption, FreshKeeps
  <2> QED
    BY <2>1, <2>2 DEF LimitsExplained
<1>2. IInv /\ LimitsExplained /\ [Next]_vars => LimitsExplained'
  <2> SUFFICES ASSUME IInv, LimitsExplained, [Next]_vars PROVE LimitsExplained'
    OBVIOUS
  <2>1. CASE UNCHANGED vars
    BY <2>1 DEF LimitsExplained, vars
  <2>2. CASE /\ g_sim'.limits = g_sim.limits /\ g_sim'.marks = g_sim.marks
             /\ UNCHANGED <<g_limits, g_feed_idx, agreed, mixed, loosest, lapped>>
    BY <2>2 DEF LimitsExplained
  <2>3. ASSUME NEW n \in StepInputs, FeedStep(n) PROVE LimitsExplained'
    <3>1. g_sim'.limits = g_sim.limits /\ agreed' = agreed /\ mixed' = mixed
      BY <2>3, FeedChanges
    <3> QED
      BY <3>1 DEF LimitsExplained
  <2>4. ASSUME NEW body \in LimitInputs, SetLimits(body) PROVE LimitsExplained'
    <3>1. \/ g_sim'.limits = g_limits' /\ agreed' = g_limits'
          \/ g_sim' = g_sim /\ agreed' = agreed /\ mixed' = mixed
      <4> DEFINE sim == g_sim'
                 lim == g_limits'
      <4>1. \/ /\ sim = [limits |-> lim, last_id |-> g_sim.last_id, order |-> g_sim.order, queue |-> g_sim.queue,
                         traded |-> g_sim.traded, net |-> g_sim.net, totals |-> g_sim.totals, marks |-> g_sim.marks]
               /\ agreed' = lim
            \/ sim = g_sim /\ agreed' = agreed /\ mixed' = mixed
        BY <2>4, LimitsChange
      <4> HIDE DEF sim, lim
      <4>2. \/ sim.limits = lim /\ agreed' = lim
            \/ sim = g_sim /\ agreed' = agreed /\ mixed' = mixed
        BY <4>1
      <4> QED
        BY <4>2 DEF sim, lim
    <3> QED
      BY <3>1 DEF LimitsExplained
  <2>5. CASE Reset
    <3>1. g_sim' = Fresh(g_limits) /\ mixed' = (g_limits # agreed) /\ agreed' = agreed
      BY <2>5 DEF Reset
    <3>2. Fresh(g_limits).limits = g_limits
      BY FreshKeeps DEF IInv, Types
    <3> QED
      BY <3>1, <3>2 DEF LimitsExplained
  <2> QED
    BY <2>1, <2>2, <2>3, <2>4, <2>5, OrdersOnly DEF Next
<1> QED
  BY <1>1, <1>2, Invariance, PTL DEF Spec

\* An accepted order has traded no more than it asked for.
LEMMA AcceptTrades ==
    ASSUME IInv, NEW s \in Symbols, NEW o \in Inputs, NEW market, Accept(s, o, market)
    PROVE  LET id == g_sim.last_id + 1
           IN  \E v \in Nat : /\ v <= o.qty /\ g_sim'.net = [g_sim.net EXCEPT ![s] = g_sim.net[s] + Toward(o.side, v)]
                              /\ id \in OrderIds /\ g_sim'.order[id].filled_qty = v
                              /\ reply' = [to |-> "order", approved |-> TRUE, order |-> Shown(o, id), qty |-> v]
<1> DEFINE id == g_sim.last_id + 1
           b == NewOrder(o)
           que == g_sim.queue[s]
           after == MatchedOrders(b, que, id)
           ts == Trades(s, b, after, id)
           t == Total(b, que, id)
<1>1. Types /\ Books
  BY DEF IInv
<1>2. Entered(b, que, id) /\ id \in OrderIds /\ SameRequest(o, b[id])
  BY <1>1, AcceptEnters
<1>3. /\ g_sim'.order = after
      /\ g_sim'.net = [g_sim.net EXCEPT ![s] = g_sim.net[s] + Toward(o.side, Volume(ts))]
      /\ reply' = [to |-> "order", approved |-> TRUE, order |-> Shown(o, id), qty |-> Volume(ts)]
  BY <1>1, AcceptChanges
<1>4. g_sim.traded[s] \in Nat
  <2>1. g_sim.traded \in [Symbols -> Nat]
    BY <1>1, SimulatorFields DEF Types
  <2> QED
    BY <2>1
<1>5. Volume(ts) = t
  <2>1. TradeList(s, ts, Cardinality(Givers(b, que, id)), Makers(s, b, after, id), Gifts(b, que, id), t)
    BY <1>2, <1>4, TradesValue
  <2> HIDE DEF ts, t
  <2> QED
    BY <2>1 DEF TradeList
<1>6. after[id].filled_qty = t /\ t \in Nat /\ t <= b[id].qty
  BY <1>2, SelfAfter
<1>7. b[id].qty = o.qty
  BY <1>2 DEF SameRequest
<1> HIDE DEF b, after, ts, t, id
<1> QED
  BY <1>2, <1>3, <1>5, <1>6, <1>7 DEF id

\* A reply says what has happened to the order it is about.
THEOREM RepliesAreTrue == Spec => []RepliesTruthful
<1>1. Init => RepliesTruthful
  BY DEF Init, NoReply, RepliesTruthful
<1>2. IInv /\ RepliesTruthful /\ [Next]_vars => RepliesTruthful'
  <2> SUFFICES ASSUME IInv, RepliesTruthful, [Next]_vars PROVE RepliesTruthful'
    OBVIOUS
  <2>1. CASE UNCHANGED vars
    BY <2>1 DEF RepliesTruthful, Resting, vars
  <2>2. ASSUME reply' = NoReply PROVE RepliesTruthful'
    BY <2>2 DEF RepliesTruthful, NoReply
  <2>3. ASSUME NEW s, NEW o, NEW market, NEW throttled, Reject(s, o, market, throttled) PROVE RepliesTruthful'
    <3>1. reply'.to = "order" /\ reply'.approved = FALSE
      BY <2>3 DEF Reject
    <3> QED
      BY <3>1 DEF RepliesTruthful
  <2>4. ASSUME NEW s \in Symbols, NEW o \in Inputs, NEW market, Accept(s, o, market) PROVE RepliesTruthful'
    <3> DEFINE id == g_sim.last_id + 1
    <3>1. PICK v \in Nat : /\ g_sim'.order[id].filled_qty = v
                           /\ reply' = [to |-> "order", approved |-> TRUE, order |-> Shown(o, id), qty |-> v]
      BY <2>4, AcceptTrades
    <3> HIDE DEF id
    <3>2. reply'.to = "order" /\ reply'.qty = v /\ reply'.order.id = id
      BY <3>1 DEF Shown
    <3> QED
      BY <3>1, <3>2 DEF RepliesTruthful
  <2>5. ASSUME NEW s, NEW id \in OrderIds, Cancel(s, id) PROVE RepliesTruthful'
    <3>1. reply' = [to |-> "cancel", id |-> id, cancelled |-> Resting(s, id)]
      BY <2>5 DEF Cancel
    <3>2. CASE ~Resting(s, id)
      BY <3>1, <3>2 DEF RepliesTruthful
    <3>3. CASE Resting(s, id)
      <4>1. reply'.to = "cancel" /\ reply'.id = id
        BY <3>1
      <4>2. g_sim'.order[id].status = "CANCELLED" /\ g_sim'.order[id].side \in Side
        BY <2>5, <3>3, CancelledGone
      <4>3. ASSUME NEW t \in Symbols PROVE ~Resting(t, id)'
        <5> SUFFICES ASSUME Resting(t, id)' PROVE FALSE
          OBVIOUS
        <5>1. PICK p \in Prices : Contains(g_sim'.queue[t][g_sim'.order[id].side][p], id)
          BY DEF Resting, Queued
        <5>2. \E i \in 1 .. Len(g_sim'.queue[t][g_sim'.order[id].side][p]) :
                  g_sim'.queue[t][g_sim'.order[id].side][p][i] = id
          BY <5>1 DEF Contains
        <5> QED
          BY <2>5, <3>3, <4>2, <5>2, CancelledGone
      <4> QED
        BY <4>1, <4>2, <4>3 DEF RepliesTruthful
    <3> QED
      BY <3>2, <3>3
  <2>6. ASSUME NEW n, FeedStep(n) PROVE RepliesTruthful'
    BY <2>2, <2>6 DEF FeedStep
  <2>7. ASSUME NEW body, SetLimits(body) PROVE RepliesTruthful'
    BY <2>2, <2>7 DEF SetLimits
  <2> QED
    BY <2>1, <2>2, <2>3, <2>4, <2>5, <2>6, <2>7 DEF Next, OrderUnreadable, Reset
<1> QED
  BY <1>1, <1>2, Invariance, PTL DEF Spec

\* No max_position that anyone sets is negative: with a negative one the session would start out
\* of its limits, at 0.
NoNegativeLimit ==
    /\ DefaultLimits.max_position >= 0
    /\ \A body \in LimitInputs : body.max_position # Bad => body.max_position >= 0

\* The positions are within the largest limit of the session, and so is the limit in force.
Held ==
    /\ \A s \in Symbols : g_sim.net[s] <= loosest /\ -g_sim.net[s] <= loosest
    /\ g_sim.limits.max_position <= loosest
    /\ g_limits.max_position >= 0

\* The simulator's positions and limits.
LEMMA HeldTypes ==
    ASSUME Types
    PROVE  /\ g_sim.net \in [Symbols -> Int] /\ (\A s \in Symbols : g_sim.net[s] \in Int)
           /\ g_sim.limits.max_position \in Int /\ g_limits.max_position \in Int /\ loosest \in Int
<1>1. g_sim.net \in [Symbols -> Int] /\ g_sim.limits \in Limits /\ g_limits \in Limits /\ loosest \in Int
  BY SimulatorFields DEF Types
<1>2. \A lim \in Limits : lim.max_position \in Int
  BY DEF Limits
<1> QED
  BY <1>1, <1>2

LEMMA HeldAccept ==
    ASSUME IInv, Held, NEW s \in Symbols, NEW o \in Inputs, NEW market \in {0} \cup Prices, Accept(s, o, market)
    PROVE  Held'
<1>1. PICK v \in Nat : v <= o.qty /\ g_sim'.net = [g_sim.net EXCEPT ![s] = g_sim.net[s] + Toward(o.side, v)]
  BY AcceptTrades
<1>2. g_sim'.limits = g_sim.limits /\ g_limits' = g_limits /\ loosest' = loosest
  BY OrdersOnly
<1>3. o.qty \in Int /\ o.price \in Int /\ o.side \in Side
  BY InputFields
<1>4. /\ g_sim.net \in [Symbols -> Int] /\ (\A x \in Symbols : g_sim.net[x] \in Int)
      /\ g_sim.limits.max_position \in Int /\ loosest \in Int
  BY HeldTypes DEF IInv
<1>5. Objection(g_sim.limits, o, market, g_sim.net[s]) = "NONE"
  BY DEF Accept
<1>6. /\ g_sim.net[s] + Toward(o.side, o.qty) <= g_sim.limits.max_position
      /\ -(g_sim.net[s] + Toward(o.side, o.qty)) <= g_sim.limits.max_position
  BY <1>3, <1>4, <1>5, Passes
<1> DEFINE n == g_sim.net[s]
           m == g_sim.limits.max_position
           q == o.qty
           after == g_sim'.net
<1>7. n \in Int /\ m \in Int /\ m <= loosest /\ n <= loosest /\ -n <= loosest /\ loosest \in Int /\ q \in Int
  BY <1>3, <1>4 DEF Held
<1>8. n + Toward(o.side, q) <= m /\ -(n + Toward(o.side, q)) <= m /\ v \in Nat /\ v <= q
  BY <1>1, <1>6
<1>9. after = [g_sim.net EXCEPT ![s] = n + Toward(o.side, v)]
  BY <1>1
<1> HIDE DEF n, m, q, after
<1>10. n + Toward(o.side, v) <= loosest /\ -(n + Toward(o.side, v)) <= loosest
  <2>1. CASE o.side = "BUY"
    BY <1>7, <1>8, <2>1 DEF Toward
  <2>2. CASE o.side # "BUY"
    BY <1>7, <1>8, <2>2 DEF Toward
  <2> QED
    BY <2>1, <2>2
<1>11. \A x \in Symbols : after[x] <= loosest /\ -after[x] <= loosest
  <2>1. after[s] = n + Toward(o.side, v) /\ \A x \in Symbols \ {s} : after[x] = g_sim.net[x]
    BY <1>4, <1>9
  <2>2. \A x \in Symbols : g_sim.net[x] <= loosest /\ -g_sim.net[x] <= loosest
    BY DEF Held
  <2> QED
    BY <1>10, <2>1, <2>2
<1> QED
  BY <1>2, <1>11 DEF Held, after

LEMMA HeldSame ==
    ASSUME Held, g_sim'.net = g_sim.net, g_sim'.limits = g_sim.limits, g_limits' = g_limits, loosest' = loosest
    PROVE  Held'
  BY DEF Held

\* Ticks change the market prices only.
LEMMA FeedNet ==
    ASSUME IInv, NEW n \in StepInputs, FeedStep(n)
    PROVE  g_sim'.net = g_sim.net /\ g_sim'.limits = g_sim.limits /\ g_limits' = g_limits /\ loosest' = loosest
<1> DEFINE sim == g_sim'
<1>1. \E marks : sim = [limits |-> g_sim.limits, last_id |-> g_sim.last_id, order |-> g_sim.order,
                        queue |-> g_sim.queue, traded |-> g_sim.traded, net |-> g_sim.net,
                        totals |-> g_sim.totals, marks |-> marks]
  BY FeedChanges
<1>2. g_limits' = g_limits /\ loosest' = loosest
  BY DEF FeedStep
<1> HIDE DEF sim
<1>3. sim.net = g_sim.net /\ sim.limits = g_sim.limits
  BY <1>1
<1> QED
  BY <1>2, <1>3 DEF sim

\* Only an order that is accepted changes a position.
LEMMA SameNet ==
    ASSUME IInv,
           \/ \E s \in Symbols \cup {Unlisted}, o \in Inputs, market \in {0} \cup Prices, throttled \in BOOLEAN :
                 Reject(s, o, market, throttled)
           \/ OrderUnreadable
           \/ \E s \in Symbols \cup {Unlisted}, id \in OrderIds : Cancel(s, id)
           \/ \E n \in StepInputs : FeedStep(n)
           \/ \E body \in LimitInputs : SetLimits(body)
    PROVE  g_sim'.net = g_sim.net
<1>1. g_sim \in Simulator
  BY DEF IInv, Types
<1>2. g_sim = [limits |-> g_sim.limits, last_id |-> g_sim.last_id, order |-> g_sim.order, queue |-> g_sim.queue,
               traded |-> g_sim.traded, net |-> g_sim.net, totals |-> g_sim.totals, marks |-> g_sim.marks]
  BY <1>1, SimulatorFields
<1>3. ASSUME NEW s, NEW o, NEW market, NEW throttled, Reject(s, o, market, throttled)
      PROVE  g_sim'.net = g_sim.net
  <2>1. g_sim' = [g_sim EXCEPT !.last_id = g_sim.last_id + 1, !.totals.orders = @ + 1, !.totals.rejects = @ + 1]
    BY <1>3 DEF Reject
  <2> QED
    BY <1>2, <2>1
<1>4. ASSUME OrderUnreadable
      PROVE  g_sim'.net = g_sim.net
  <2>1. g_sim' = [g_sim EXCEPT !.last_id = @ + 1]
    BY <1>4 DEF OrderUnreadable
  <2> QED
    BY <1>2, <2>1
<1>5. ASSUME NEW s, NEW id \in OrderIds, Cancel(s, id)
      PROVE  g_sim'.net = g_sim.net
  <2>1. CASE Resting(s, id)
    <3> DEFINE ord == [g_sim.order EXCEPT ![id] = [g_sim.order[id] EXCEPT !.status = "CANCELLED"]]
               que == [g_sim.queue EXCEPT ![s] = Unqueued(g_sim.queue[s], id)]
               sim == g_sim'
    <3>1. sim = [limits |-> g_sim.limits, last_id |-> g_sim.last_id, order |-> ord, queue |-> que,
                 traded |-> g_sim.traded, net |-> g_sim.net, totals |-> g_sim.totals, marks |-> g_sim.marks]
      BY <1>5, <2>1, CancelChanges
    <3> HIDE DEF ord, que, sim
    <3>2. sim.net = g_sim.net
      BY <3>1
    <3> QED
      BY <3>2 DEF sim
  <2>2. CASE ~Resting(s, id)
    BY <1>5, <2>2 DEF Cancel
  <2> QED
    BY <2>1, <2>2
<1>6. ASSUME NEW n \in StepInputs, FeedStep(n)
      PROVE  g_sim'.net = g_sim.net
  BY <1>6, FeedNet
<1>7. ASSUME NEW body \in LimitInputs, SetLimits(body)
      PROVE  g_sim'.net = g_sim.net
  <2> DEFINE sim == g_sim'
             lim == g_limits'
  <2>1. \/ sim = [limits |-> lim, last_id |-> g_sim.last_id, order |-> g_sim.order, queue |-> g_sim.queue,
                  traded |-> g_sim.traded, net |-> g_sim.net, totals |-> g_sim.totals, marks |-> g_sim.marks]
        \/ sim = g_sim
    BY <1>7, LimitsChange
  <2> HIDE DEF sim, lim
  <2>2. sim.net = g_sim.net
    BY <2>1
  <2> QED
    BY <2>2 DEF sim
<1> QED
  BY <1>3, <1>4, <1>5, <1>6, <1>7

\* The limits of either part, told or not, are within the largest of the session.
LEMMA HeldLimits ==
    ASSUME IInv, Held, NoNegativeLimit, NEW body \in LimitInputs, SetLimits(body)
    PROVE  Held'
<1> DEFINE m == g_sim'.limits.max_position
<1>1. /\ g_limits' = Assigned(body) /\ g_limits' \in Limits
      /\ loosest' = Max({loosest, m})
  BY LimitsChange
<1>2. m \in Int /\ loosest \in Int /\ g_limits'.max_position \in Int
  <2>1. Types' /\ Types
    BY LimitsKeep DEF IInv
  <2>2. g_sim'.limits \in Limits /\ g_limits' \in Limits /\ loosest \in Int
    <3>1. g_sim' \in Simulator
      BY <2>1 DEF Types
    <3> QED
      BY <1>1, <2>1, <3>1 DEF Types, Simulator
  <2>3. \A lim \in Limits : lim.max_position \in Int
    BY DEF Limits
  <2> QED
    BY <2>2, <2>3
<1>3. g_sim'.net = g_sim.net
  BY SameNet
<1>4. \A s \in Symbols : g_sim.net[s] \in Int
  BY HeldTypes DEF IInv
<1>5. g_limits'.max_position >= 0
  <2>1. g_limits \in Limits
    BY DEF IInv, Types
  <2>2. \/ g_limits'.max_position = g_limits.max_position
        \/ body.max_position # Bad /\ g_limits'.max_position = body.max_position
    BY <1>1, <2>1, AssignedValue
  <2> QED
    BY <2>2 DEF Held, NoNegativeLimit
<1> HIDE DEF m
<1>6. loosest <= loosest' /\ m <= loosest' /\ loosest' \in Int
  <2>1. Max({loosest, m}) = IF loosest < m THEN m ELSE loosest
    BY <1>2, PairExtrema
  <2> QED
    BY <1>1, <1>2, <2>1
<1>7. ASSUME NEW s \in Symbols PROVE g_sim'.net[s] <= loosest' /\ -g_sim'.net[s] <= loosest'
  <2>1. g_sim.net[s] <= loosest /\ -g_sim.net[s] <= loosest
    BY DEF Held
  <2> DEFINE x == g_sim.net[s]
  <2>2. x \in Int /\ x <= loosest /\ -x <= loosest
    BY <1>4, <2>1
  <2> HIDE DEF x
  <2>3. x <= loosest' /\ -x <= loosest'
    BY <1>2, <1>6, <2>2
  <2> QED
    BY <1>3, <2>3 DEF x
<1> QED
  BY <1>5, <1>6, <1>7 DEF Held, m

\* A new session holds nothing.
LEMMA HeldFresh ==
    ASSUME NEW lim \in Limits, lim.max_position >= 0,
           NEW sim, sim = Fresh(lim)
    PROVE  /\ \A s \in Symbols : sim.net[s] <= lim.max_position /\ -sim.net[s] <= lim.max_position
           /\ sim.limits.max_position <= lim.max_position
<1>1. sim.limits = lim /\ \A s \in Symbols : sim.net[s] = 0
  BY FreshKeeps
<1> DEFINE m == lim.max_position
<1>2. m \in Int
  BY DEF Limits
<1>3. m >= 0
  OBVIOUS
<1> HIDE DEF m
<1>4. m <= m /\ 0 <= m /\ -0 <= m
  BY <1>2, <1>3
<1> QED
  BY <1>1, <1>4 DEF m

\* One command at a time, an order is checked against the position it adds to: no limit
\* being negative, a position is never larger than the limits have allowed it to be.
THEOREM PositionsStayWithin ==
    ASSUME NoNegativeLimit
    PROVE  Spec => []PositionWithinLimits
<1>1. Init => Held
  <2> SUFFICES ASSUME Init PROVE Held
    OBVIOUS
  <2>1. g_sim = Fresh(DefaultLimits) /\ g_limits = DefaultLimits /\ loosest = DefaultLimits.max_position
    BY DEF Init
  <2>2. DefaultLimits \in Limits /\ DefaultLimits.max_position >= 0
    BY LimitsAssumption DEF NoNegativeLimit
  <2> QED
    BY <2>1, <2>2, HeldFresh DEF Held
<1>2. IInv /\ Held /\ [Next]_vars => Held'
  <2> SUFFICES ASSUME IInv, Held, [Next]_vars PROVE Held'
    OBVIOUS
  <2>1. CASE UNCHANGED vars
    BY <2>1 DEF Held, vars
  <2>2. CASE \/ \E s \in Symbols \cup {Unlisted}, o \in Inputs, market \in {0} \cup Prices, throttled \in BOOLEAN :
                   Reject(s, o, market, throttled)
             \/ OrderUnreadable
             \/ \E s \in Symbols \cup {Unlisted}, id \in OrderIds : Cancel(s, id)
    <3>1. g_sim'.net = g_sim.net
      BY <2>2, SameNet
    <3>2. g_sim'.limits = g_sim.limits /\ g_limits' = g_limits /\ loosest' = loosest
      BY <2>2, OrdersOnly
    <3> QED
      BY <3>1, <3>2, HeldSame
  <2>3. ASSUME NEW s \in Symbols, NEW o \in Inputs, NEW market \in {0} \cup Prices, Accept(s, o, market) PROVE Held'
    BY <2>3, HeldAccept
  <2>4. ASSUME NEW n \in StepInputs, FeedStep(n) PROVE Held'
    <3>1. g_sim'.net = g_sim.net /\ g_sim'.limits = g_sim.limits /\ g_limits' = g_limits /\ loosest' = loosest
      BY <2>4, FeedNet
    <3> QED
      BY <3>1, HeldSame
  <2>5. ASSUME NEW body \in LimitInputs, SetLimits(body) PROVE Held'
    BY <2>5, HeldLimits
  <2>6. CASE Reset
    <3>1. g_sim' = Fresh(g_limits) /\ loosest' = g_limits.max_position /\ g_limits' = g_limits
      BY <2>6 DEF Reset
    <3>2. g_limits \in Limits /\ g_limits.max_position >= 0
      BY DEF IInv, Types, Held
    <3> QED
      BY <3>1, <3>2, HeldFresh DEF Held
  <2> QED
    BY <2>1, <2>2, <2>3, <2>4, <2>5, <2>6 DEF Next
<1>3. IInv /\ Held => PositionWithinLimits
  <2> SUFFICES ASSUME IInv, Held, NEW s \in Symbols PROVE Absolute(g_sim.net[s]) <= loosest
    BY DEF PositionWithinLimits
  <2> DEFINE x == g_sim.net[s]
  <2>1. x <= loosest /\ -x <= loosest
    BY DEF Held
  <2> HIDE DEF x
  <2>2. Absolute(x) <= loosest
    BY <2>1 DEF Absolute
  <2> QED
    BY <2>2 DEF x
<1> QED
  BY <1>1, <1>2, <1>3, Invariance, PTL DEF Spec

-----------------------------------------------------------------------------
(* Market prices.                                                          *)

\* The greatest element, by what it is.
LEMMA MaxIs ==
    ASSUME NEW S, IsFiniteSet(S), S \subseteq Int, NEW x \in S, \A y \in S : y <= x
    PROVE  Max(S) = x
<1>1. Max(S) \in S /\ \A y \in S : Max(S) >= y
  BY MinMax
<1> DEFINE m == Max(S)
<1>2. m \in Int /\ x \in Int /\ m >= x /\ m <= x
  BY <1>1
<1> HIDE DEF m
<1>3. m = x
  BY <1>2
<1> QED
  BY <1>3 DEF m

\* Turn i takes tick k of lap q when i = q * Len(Feed) + k - 1.
LEMMA TurnTick ==
    ASSUME NEW q \in Nat, NEW k \in 1 .. Len(Feed)
    PROVE  q * Len(Feed) + k - 1 \in Nat /\ At(q * Len(Feed) + k - 1) = k
<1> DEFINE l == Len(Feed)
           i == q * l + k - 1
<1>1. l \in Nat /\ l >= 1 /\ k \in 1 .. l
  BY FeedAssumption
<1>2. At(i) = (i % l) + 1
  BY DEF At
<1> HIDE DEF l
<1>3. i \in Nat
  <2>1. q * l \in Nat
    BY <1>1
  <2> DEFINE n == q * l
  <2> HIDE DEF n
  <2>2. n \in Nat
    BY <2>1 DEF n
  <2>3. n + k - 1 \in Nat
    BY <1>1, <2>2
  <2> QED
    BY <2>3 DEF n
<1>4. i % l = k - 1
  <2> DEFINE r == k - 1
  <2>1. r \in 0 .. l - 1 /\ k \in Int
    BY <1>1
  <2>2. q * l + r = i
    <3> DEFINE n == q * l
    <3>1. n \in Nat
      BY <1>1
    <3> HIDE DEF n
    <3>2. n + (k - 1) = n + k - 1
      BY <2>1, <3>1
    <3> QED
      BY <3>2 DEF n
  <2> HIDE DEF r, i
  <2>3. (q * l + r) % l = r
    BY <1>1, <2>1
  <2> QED
    BY <2>2, <2>3 DEF r
<1>5. At(i) = k
  <2>1. k \in Int
    BY <1>1
  <2> HIDE DEF i
  <2> QED
    BY <1>2, <1>4, <2>1
<1> QED
  BY <1>3, <1>5 DEF l

LEMMA OwnTurn ==
    ASSUME NEW s, NEW a \in Nat, NEW count \in Nat, NEW q \in Nat, NEW k \in 1 .. Len(Feed), Feed[k].symbol = s,
           q * Len(Feed) + k - 1 >= a, q * Len(Feed) + k - 1 <= a + count - 1
    PROVE  q * Len(Feed) + k - 1 \in Own(s, a, count)
<1> DEFINE i == q * Len(Feed) + k - 1
<1>1. i \in Nat /\ At(i) = k
  BY TurnTick
<1>2. i >= a /\ i <= a + count - 1
  OBVIOUS
<1> HIDE DEF i
<1>3. i \in a .. a + count - 1
  BY <1>1, <1>2
<1> QED
  BY <1>1, <1>3 DEF Own, i

\* The ticks of a symbol among the first n, and those its price is from (MarksFollowFeed).
Ticks(s, n) == {i \in 1 .. n : Feed[i].symbol = s}
Seen(s, n, around) == IF Ticks(s, n) = {} /\ around THEN Ticks(s, Len(Feed)) ELSE Ticks(s, n)

LEMMA TicksFinite ==
    ASSUME NEW s, NEW n \in Nat
    PROVE  IsFiniteSet(Ticks(s, n)) /\ Ticks(s, n) \subseteq 1 .. n /\ Ticks(s, n) \subseteq Int
<1>1. 1 \in Int /\ n \in Int
  OBVIOUS
<1>2. IsFiniteSet(1 .. n)
  BY <1>1, FS_Interval
<1>3. Ticks(s, n) \subseteq 1 .. n
  BY DEF Ticks
<1> QED
  BY <1>2, <1>3, FS_Subset

\* A lap begins after the laps before it have ended.
LEMMA LapAfter ==
    ASSUME NEW l \in Nat, NEW d \in Nat, NEW q \in Nat
    PROVE  /\ d * l \in Nat /\ q * l \in Nat
           /\ d < q => d * l + l <= q * l
           /\ d > q => q * l + l <= d * l
<1>1. \A x, y \in Nat : x < y => x * l + l <= y * l
  <2> SUFFICES ASSUME NEW x \in Nat, NEW y \in Nat, x < y PROVE x * l + l <= y * l
    OBVIOUS
  <2> DEFINE t == y - x - 1
  <2>1. t \in Nat /\ y = x + 1 + t
    OBVIOUS
  <2> HIDE DEF t
  <2>2. t * l \in Nat /\ (x + 1 + t) * l = x * l + l + t * l
    BY <2>1
  <2> QED
    BY <2>1, <2>2
<1> QED
  BY <1>1

\* The ticks of a feed_step: none of them is of symbol s, and its price is from where it
\* was; or the last that is, is where its price is from.
LEMMA NewestTick ==
    ASSUME NEW s, NEW a \in 0 .. Len(Feed), NEW count \in Nat \ {0}, NEW b \in BOOLEAN
    PROVE  LET own == Own(s, a, count)
               r == At(a + count - 1)
               around == b \/ a + count > Len(Feed)
           IN  /\ own = {} => Seen(s, r, around) = Seen(s, a, b)
               /\ own # {} => Seen(s, r, around) # {} /\ Max(Seen(s, r, around)) = At(Max(own))
<1> DEFINE l == Len(Feed)
           e == a + count - 1
           r == At(e)
           around == b \/ a + count > l
           own == Own(s, a, count)
           q == e \div l
           lap == q * l
<1>1. l \in Nat /\ l >= 1 /\ a \in 0 .. l /\ a \in Nat
  BY FeedAssumption
<1>2. e \in Nat /\ a + count = e + 1 /\ a <= e
  BY <1>1
<1>3. r \in 1 .. l /\ r = (e % l) + 1
  <2> HIDE DEF e
  <2> QED
    BY <1>2, AtValue
<1>4. q \in Nat /\ e = lap + (e % l) /\ e % l \in 0 .. l - 1
  <2> HIDE DEF e, l
  <2> QED
    BY <1>1, <1>2, Lap
<1>5. lap \in Nat /\ e = lap + r - 1 /\ (q >= 1 => lap >= l) /\ (q = 0 => lap = 0)
  <2> HIDE DEF e, l, r
  <2>1. lap \in Nat /\ (q >= 1 => lap >= l) /\ (q = 0 => lap = 0)
    <3> HIDE DEF q
    <3> QED
      BY <1>1, <1>4
  <2> HIDE DEF lap, q
  <2>2. e = lap + r - 1
    BY <1>3, <1>4, <2>1
  <2> QED
    BY <2>1, <2>2
<1>6. around <=> (b \/ e >= l)
  <2> HIDE DEF e, l
  <2> QED
    BY <1>1, <1>2
\* A tick of the symbol whose turn is among those taken.
<1>7. \A d \in Nat, k \in 1 .. l :
          Feed[k].symbol = s /\ d * l + k - 1 >= a /\ d * l + k - 1 <= e => d * l + k - 1 \in own
  BY <1>1, OwnTurn
<1>8. \A i \in own : i \in Nat /\ a <= i /\ i <= e /\ Feed[At(i)].symbol = s
  BY <1>1, <1>2 DEF Own
<1>9. own # {} => Max(own) \in own /\ \A i \in own : i <= Max(own)
  <2>1. own \subseteq a .. e
    BY DEF Own
  <2> HIDE DEF own, e
  <2>2. a \in Int /\ e \in Int /\ a .. e \subseteq Int
    BY <1>1, <1>2
  <2>3. IsFiniteSet(own) /\ own \subseteq Int
    BY <2>1, <2>2, FS_Interval, FS_Subset
  <2>4. ASSUME own # {} PROVE Max(own) \in own /\ \A i \in own : i <= Max(own)
    <3>1. Max(own) \in own /\ \A i \in own : Max(own) >= i
      BY <2>3, <2>4, MinMax
    <3> DEFINE m == Max(own)
    <3>2. m \in Int /\ \A i \in own : m >= i
      BY <2>3, <3>1
    <3> HIDE DEF m
    <3>3. \A i \in own : i <= m
      BY <2>3, <3>2
    <3> QED
      BY <3>1, <3>3 DEF m
  <2> QED
    BY <2>4
<1>10. /\ \A n : Ticks(s, n) = {i \in 1 .. n : Feed[i].symbol = s}
       /\ \A n, c : Seen(s, n, c) = IF Ticks(s, n) = {} /\ c THEN Ticks(s, l) ELSE Ticks(s, n)
  BY DEF Ticks, Seen
<1> HIDE DEF l, e, r, around, own, q
\* The ticks of the last lap are all among those taken, if it is not the first.
<1>11. ASSUME NEW y \in Ticks(s, r), lap + y - 1 >= a PROVE lap + y - 1 \in own
  <2>1. y \in 1 .. r /\ Feed[y].symbol = s
    BY <1>10, <1>11
  <2>2. y \in 1 .. l
    BY <1>1, <1>3, <2>1
  <2>3. lap + y - 1 <= e
    <3> HIDE DEF lap
    <3> QED
      BY <1>3, <1>5, <2>1
  <2> QED
    BY <1>4, <1>7, <1>11, <2>1, <2>2, <2>3
<1>12. ASSUME own = {} PROVE Seen(s, r, around) = Seen(s, a, b)
  <2>1. CASE q = 0
    <3>1. e = r - 1 /\ lap = 0
      BY <1>3, <1>5, <2>1
    <3>2. around <=> b
      BY <1>1, <1>3, <1>6, <3>1
    <3>3. ASSUME NEW y \in Ticks(s, r) PROVE y \in Ticks(s, a)
      <4>1. y \in 1 .. r /\ Feed[y].symbol = s
        BY <1>10, <3>3
      <4>2. ~(lap + y - 1 >= a)
        BY <1>11, <1>12, <3>3
      <4> HIDE DEF lap
      <4>3. y <= a
        BY <1>1, <3>1, <4>1, <4>2
      <4>4. y \in 1 .. a
        BY <1>1, <4>1, <4>3
      <4> QED
        BY <1>10, <4>1, <4>4
    <3>4. ASSUME NEW y \in Ticks(s, a) PROVE y \in Ticks(s, r)
      <4>1. y \in 1 .. a /\ Feed[y].symbol = s
        BY <1>10, <3>4
      <4>2. y \in 1 .. r
        BY <1>1, <1>2, <1>3, <3>1, <4>1
      <4> QED
        BY <1>10, <4>1, <4>2
    <3>5. Ticks(s, r) = Ticks(s, a)
      BY <3>3, <3>4
    <3> QED
      BY <1>10, <3>2, <3>5
  <2>2. CASE q # 0
    <3>1. lap >= l
      BY <1>4, <1>5, <2>2
    <3> HIDE DEF lap
    <3>2. e >= l
      BY <1>1, <1>3, <1>5, <3>1
    <3>3. around
      BY <1>6, <3>2
    <3>4. Ticks(s, r) = {}
      <4>1. ASSUME NEW y \in Ticks(s, r) PROVE FALSE
        <5>1. y \in 1 .. r
          BY <1>10, <4>1
        <5>2. lap + y - 1 >= a
          BY <1>1, <1>3, <1>5, <3>1, <5>1
        <5> QED
          BY <1>11, <1>12, <4>1, <5>2
      <4> QED
        BY <4>1
    <3>5. ASSUME NEW y \in Ticks(s, l) PROVE y \in Ticks(s, a)
      <4>1. y \in 1 .. l /\ Feed[y].symbol = s
        BY <1>10, <3>5
      <4>2. 0 * l + y - 1 = y - 1 /\ y - 1 <= e /\ y \in Int
        BY <1>1, <1>2, <3>2, <4>1
      <4>3. ~(0 * l + y - 1 >= a)
        BY <1>7, <1>12, <4>1, <4>2
      <4>4. y \in 1 .. a
        BY <1>1, <4>1, <4>2, <4>3
      <4> QED
        BY <1>10, <4>1, <4>4
    <3>6. ASSUME NEW y \in Ticks(s, a) PROVE y \in Ticks(s, l)
      <4>1. y \in 1 .. a /\ Feed[y].symbol = s
        BY <1>10, <3>6
      <4>2. y \in 1 .. l
        BY <1>1, <4>1
      <4> QED
        BY <1>10, <4>1, <4>2
    <3>7. Ticks(s, l) = Ticks(s, a)
      BY <3>5, <3>6
    <3> QED
      BY <1>10, <3>3, <3>4, <3>7
  <2> QED
    BY <2>1, <2>2
<1>13. ASSUME own # {} PROVE Seen(s, r, around) # {} /\ Max(Seen(s, r, around)) = At(Max(own))
  <2> DEFINE m == Max(own)
             k == At(m)
             d == m \div l
             at == d * l
  <2>1. m \in own /\ m \in Nat /\ a <= m /\ m <= e /\ Feed[k].symbol = s
    BY <1>8, <1>9, <1>13
  <2>2. \A i \in own : i <= m
    BY <1>9, <1>13
  <2> HIDE DEF m
  <2>3. k \in 1 .. l /\ k = (m % l) + 1
    BY <2>1, AtValue DEF l
  <2>4. d \in Nat /\ m = at + (m % l) /\ m % l \in 0 .. l - 1
    BY <1>1, <2>1, Lap
  <2>5. at \in Nat /\ (d < q => at + l <= lap) /\ (d > q => lap + l <= at)
    <3> HIDE DEF d
    <3> QED
      BY <1>1, <1>4, <2>4, LapAfter
  <2> HIDE DEF k, d
  <2>6. m = at + k - 1 /\ k \in Int
    <3> HIDE DEF at
    <3> QED
      BY <1>1, <2>3, <2>4, <2>5
  <2>7. CASE m >= lap
    <3>1. d = q
      <4> HIDE DEF at, lap
      <4>1. ~(d < q)
        BY <1>1, <1>5, <2>3, <2>5, <2>6, <2>7
      <4>2. ~(d > q)
        BY <1>1, <1>3, <1>5, <2>1, <2>3, <2>5, <2>6
      <4> QED
        BY <1>4, <2>4, <4>1, <4>2
    <3>2. m = lap + k - 1
      BY <2>6, <3>1
    <3>3. k \in Ticks(s, r)
      <4> HIDE DEF lap
      <4>1. k \in 1 .. r
        BY <1>3, <1>5, <2>1, <2>3, <3>2
      <4> QED
        BY <1>10, <2>1, <4>1
    <3>4. ASSUME NEW y \in Ticks(s, r) PROVE y <= k
      <4>1. y \in 1 .. r
        BY <1>10, <3>4
      <4>2. CASE lap + y - 1 >= a
        <5>1. lap + y - 1 <= m
          BY <1>11, <2>2, <3>4, <4>2
        <5> HIDE DEF lap
        <5> QED
          BY <1>3, <1>5, <2>3, <3>2, <4>1, <5>1
      <4>3. CASE ~(lap + y - 1 >= a)
        <5> HIDE DEF lap
        <5> QED
          BY <1>1, <1>3, <1>5, <2>1, <2>3, <3>2, <4>1, <4>3
      <4> QED
        BY <4>2, <4>3
    <3>5. Max(Ticks(s, r)) = k
      <4>1. r \in Nat
        BY <1>3
      <4> QED
        BY <3>3, <3>4, <4>1, TicksFinite, MaxIs
    <3> QED
      BY <1>10, <3>3, <3>5 DEF k, m
  <2>8. CASE ~(m >= lap)
    <3>1. d < q
      <4> HIDE DEF at
      <4>1. ~(d > q)
        BY <1>1, <1>5, <2>3, <2>5, <2>6, <2>8
      <4>2. d # q
        BY <1>5, <2>3, <2>6, <2>8 DEF at
      <4> QED
        BY <1>4, <2>4, <4>1, <4>2
    <3>2. at + l <= lap
      BY <2>5, <3>1
    <3> HIDE DEF at
    <3>3. around
      <4> HIDE DEF lap
      <4>1. e >= l
        BY <1>1, <1>3, <1>5, <2>5, <3>2
      <4> QED
        BY <1>6, <4>1
    <3>4. Ticks(s, r) = {}
      <4>1. ASSUME NEW y \in Ticks(s, r) PROVE FALSE
        <5>1. y \in 1 .. r
          BY <1>10, <4>1
        <5>2. lap + y - 1 >= a /\ lap + y - 1 > m
          <6> HIDE DEF lap
          <6> QED
            BY <1>1, <1>3, <1>5, <2>1, <2>8, <5>1
        <5>3. lap + y - 1 \in own
          BY <1>11, <4>1, <5>2
        <5>4. lap + y - 1 <= m
          BY <2>2, <5>3
        <5> HIDE DEF lap
        <5> QED
          BY <1>3, <1>5, <2>1, <5>1, <5>2, <5>4
      <4> QED
        BY <4>1
    <3>5. k \in Ticks(s, l)
      BY <1>10, <2>1, <2>3
    <3>6. ASSUME NEW y \in Ticks(s, l) PROVE y <= k
      <4> SUFFICES ASSUME ~(y <= k) PROVE FALSE
        OBVIOUS
      <4>1. y \in 1 .. l /\ Feed[y].symbol = s
        BY <1>10, <3>6
      <4>2. at + y - 1 > m /\ at + y - 1 >= a /\ at + y - 1 <= e
        <5> HIDE DEF lap
        <5> QED
          BY <1>1, <1>3, <1>5, <2>1, <2>3, <2>5, <2>6, <3>2, <4>1
      <4>3. at + y - 1 \in own
        BY <1>7, <2>4, <4>1, <4>2 DEF at
      <4>4. at + y - 1 <= m
        BY <2>2, <4>3
      <4> QED
        BY <2>1, <2>5, <4>1, <4>2, <4>4
    <3>7. Max(Ticks(s, l)) = k
      BY <1>1, <3>5, <3>6, TicksFinite, MaxIs
    <3> QED
      BY <1>10, <3>3, <3>4, <3>5, <3>7 DEF k, m
  <2> QED
    BY <2>7, <2>8
<1> QED
  BY <1>12, <1>13 DEF own, r, around, e, l

\* MarksFollowFeed with the ticks named.
LEMMA FollowsSeen ==
    MarksFollowFeed <=> \A s \in Symbols :
        LET seen == Seen(s, g_feed_idx, lapped)
        IN  g_sim.marks[s] = IF seen = {} THEN 0 ELSE Feed[Max(seen)].last_price
  BY DEF MarksFollowFeed, Seen, Ticks

\* Nothing has been taken from the feed yet.
LEMMA FollowsFresh ==
    ASSUME NEW lim \in Limits, g_sim = Fresh(lim), g_feed_idx = 0, lapped = FALSE
    PROVE  MarksFollowFeed
<1>1. \A s \in Symbols : g_sim.marks[s] = 0
  BY FreshKeeps
<1>2. \A s : Seen(s, 0, FALSE) = {}
  BY DEF Seen, Ticks
<1> QED
  BY <1>1, <1>2, FollowsSeen

\* A feed_step sets the price of a symbol to its newest tick, if it takes one.
LEMMA FollowsStep ==
    ASSUME IInv, MarksFollowFeed, NEW n \in StepInputs, FeedStep(n), NEW s \in Symbols
    PROVE  LET seen == Seen(s, g_feed_idx', lapped')
           IN  g_sim'.marks[s] = IF seen = {} THEN 0 ELSE Feed[Max(seen)].last_price
<1> DEFINE sim == g_sim'
           a == g_feed_idx
<1>1. PICK count \in Nat \ {0} :
          /\ sim = [limits |-> g_sim.limits, last_id |-> g_sim.last_id, order |-> g_sim.order,
                    queue |-> g_sim.queue, traded |-> g_sim.traded, net |-> g_sim.net,
                    totals |-> g_sim.totals, marks |-> Marked(a .. a + count - 1)]
          /\ g_feed_idx' = At(a + count - 1)
          /\ lapped' = (lapped \/ a + count > Len(Feed))
  BY FeedChanges
<1>2. a \in 0 .. Len(Feed) /\ lapped \in BOOLEAN /\ a \in Nat /\ count \in Nat
  BY FeedAssumption DEF IInv, Types
<1> DEFINE own == Own(s, a, count)
           old == Seen(s, a, lapped)
           new == Seen(s, g_feed_idx', lapped')
           m == Marked(a .. a + count - 1)
<1>3. /\ own = {} => m[s] = g_sim.marks[s]
      /\ own # {} => m[s] = Feed[At(Max(own))].last_price
  BY <1>2, MarkedValue
<1>4. /\ own = {} => new = old
      /\ own # {} => new # {} /\ Max(new) = At(Max(own))
  BY <1>1, <1>2, NewestTick
<1>5. g_sim.marks[s] = IF old = {} THEN 0 ELSE Feed[Max(old)].last_price
  BY FollowsSeen
<1> HIDE DEF own, old, new, m, sim
<1>6. sim.marks[s] = m[s]
  BY <1>1 DEF m
<1> QED
  BY <1>3, <1>4, <1>5, <1>6 DEF sim, new

\* risk_limits leaves the market prices alone.
LEMMA LimitsMarks ==
    ASSUME IInv, NEW body \in LimitInputs, SetLimits(body)
    PROVE  g_sim'.marks = g_sim.marks /\ UNCHANGED <<g_feed_idx, lapped>>
<1> DEFINE sim == g_sim'
           lim == g_limits'
<1>1. /\ \/ sim = [limits |-> lim, last_id |-> g_sim.last_id, order |-> g_sim.order, queue |-> g_sim.queue,
                   traded |-> g_sim.traded, net |-> g_sim.net, totals |-> g_sim.totals, marks |-> g_sim.marks]
         \/ sim = g_sim
      /\ UNCHANGED <<g_feed_idx, lapped>>
  BY LimitsChange
<1> HIDE DEF sim, lim
<1>2. sim.marks = g_sim.marks
  BY <1>1
<1> QED
  BY <1>1, <1>2 DEF sim

\* A market price is the newest tick of its symbol, however far one feed_step goes and
\* however often the feed starts again.
THEOREM PricesAreNewest == Spec => []MarksFollowFeed
<1>1. Init => MarksFollowFeed
  BY LimitsAssumption, FollowsFresh DEF Init
<1>2. IInv /\ MarksFollowFeed /\ [Next]_vars => MarksFollowFeed'
  <2> SUFFICES ASSUME IInv, MarksFollowFeed, [Next]_vars PROVE MarksFollowFeed'
    OBVIOUS
  <2>1. CASE g_sim'.marks = g_sim.marks /\ UNCHANGED <<g_feed_idx, lapped>>
    BY <2>1 DEF MarksFollowFeed
  <2>2. CASE UNCHANGED vars
    BY <2>1, <2>2 DEF vars
  <2>3. CASE \/ \E s \in Symbols \cup {Unlisted}, o \in Inputs, market \in {0} \cup Prices, throttled \in BOOLEAN :
                   Reject(s, o, market, throttled)
             \/ \E s \in Symbols, o \in Inputs, market \in {0} \cup Prices : Accept(s, o, market)
             \/ OrderUnreadable
             \/ \E s \in Symbols \cup {Unlisted}, id \in OrderIds : Cancel(s, id)
    BY <2>1, <2>3, OrdersOnly
  <2>4. ASSUME NEW n \in StepInputs, FeedStep(n) PROVE MarksFollowFeed'
    <3>1. \A s \in Symbols :
              LET seen == Seen(s, g_feed_idx', lapped')
              IN  g_sim'.marks[s] = IF seen = {} THEN 0 ELSE Feed[Max(seen)].last_price
      BY <2>4, FollowsStep
    <3>2. MarksFollowFeed' <=> \A s \in Symbols :
              LET seen == Seen(s, g_feed_idx', lapped')
              IN  g_sim'.marks[s] = IF seen = {} THEN 0 ELSE Feed[Max(seen)].last_price
      BY DEF MarksFollowFeed, Seen, Ticks
    <3> QED
      BY <3>1, <3>2
  <2>5. ASSUME NEW body \in LimitInputs, SetLimits(body) PROVE MarksFollowFeed'
    BY <2>1, <2>5, LimitsMarks
  <2>6. CASE Reset
    <3>1. g_sim' = Fresh(g_limits) /\ g_feed_idx' = 0 /\ lapped' = FALSE /\ g_limits \in Limits
      BY <2>6 DEF Reset, IInv, Types
    <3>2. \A s \in Symbols : g_sim'.marks[s] = 0
      BY <3>1, FreshKeeps
    <3> QED
      BY <3>1, <3>2 DEF MarksFollowFeed
  <2> QED
    BY <2>2, <2>3, <2>4, <2>5, <2>6 DEF Next
<1> QED
  BY <1>1, <1>2, Invariance, PTL DEF Spec

=============================================================================
