-------------------------- MODULE RiskManagerProofs -------------------------
(***************************************************************************)
(* Proofs about the two halves of the risk manager: RateLimiter, for every *)
(* length of the window, all limits and all orders, and PositionAccounting *)
(* for all positive prices and quantities.                                 *)
(*                                                                         *)
(* The inductive invariant of the rate limiter says that the deque is the  *)
(* end of the history of approvals: what was popped is older than the      *)
(* window and, as the clock does not step back, stays so.  That of the     *)
(* accounts says that they balance over the denominator of the average     *)
(* price, which makes each case of on_fill an identity of integers.        *)
(***************************************************************************)
EXTENDS RateLimiter, PositionAccounting, CollectionTheorems

Approvals == [at : Nat, enabled : BOOLEAN, rate : Int]

\* stamps is the end of log, log is in the order of time, and what stamps
\* has lost is more than a second old.
Window(stamps, log, now) ==
    /\ stamps \in Seq(Nat) /\ log \in Seq(Approvals) /\ now \in Nat
    /\ Len(stamps) <= Len(log)
    /\ \A i \in 1 .. Len(stamps) : stamps[i] = log[Len(log) - Len(stamps) + i].at
    /\ \A i, j \in 1 .. Len(log) : i <= j => log[i].at <= log[j].at
    /\ \A i \in 1 .. Len(log) : log[i].at <= now
    /\ \A i \in 1 .. Len(log) - Len(stamps) : log[i].at < now - Second

\* The approvals up to the i-th in the second that ends with it.
Crowd(log, i) == {j \in 1 .. Len(log) : log[j].at \in log[i].at - Second .. log[i].at /\ j <= i}

Bounded(log) == \A i \in 1 .. Len(log) : log[i].enabled => Cardinality(Crowd(log, i)) <= log[i].rate

RInv ==
    /\ limits \in Limits
    /\ Window(timestamps, approvals, clock)
    /\ Bounded(approvals)

\* Bounded speaks of the current history.
LEMMA BoundedIsRateBounded == approvals \in Seq(Approvals) => (Bounded(approvals) <=> RateBounded)
<1> SUFFICES ASSUME approvals \in Seq(Approvals) PROVE Bounded(approvals) <=> RateBounded
  OBVIOUS
<1>1. DOMAIN approvals = 1 .. Len(approvals)
  OBVIOUS
<1>2. \A i \in DOMAIN approvals :
         Crowd(approvals, i) = {j \in Within(approvals[i].at - Second, approvals[i].at) : j <= i}
  BY <1>1 DEF Crowd, Within
<1> QED
  BY <1>1, <1>2 DEF Bounded, RateBounded

-----------------------------------------------------------------------------
(* The window.                                                             *)

\* The approvals of a window, and their times.
LEMMA WindowType ==
    ASSUME NEW stamps, NEW log, NEW now, Window(stamps, log, now)
    PROVE  \A i \in 1 .. Len(log) : log[i] \in Approvals /\ log[i].at \in Nat /\ log[i].at <= now
<1>1. \A i \in 1 .. Len(log) : log[i] \in Approvals
  <2> HIDE DEF Approvals
  <2> QED
    BY DEF Window
<1>2. \A a \in Approvals : a.at \in Nat
  BY DEF Approvals
<1>3. \A i \in 1 .. Len(log) : log[i].at <= now
  BY DEF Window
<1> QED
  BY <1>1, <1>2, <1>3

\* As time passes, what was old stays old.
LEMMA WindowAdvances ==
    ASSUME NEW stamps, NEW log, NEW now, Window(stamps, log, now), NEW later \in Nat, later >= now
    PROVE  Window(stamps, log, later)
<1>1. now \in Nat /\ Second \in Nat /\ Len(log) \in Nat /\ Len(stamps) \in Nat
  BY SecondAssumption DEF Window
<1>2. \A i \in 1 .. Len(log) : log[i].at \in Nat /\ log[i].at <= now
  BY WindowType
<1>3. \A i \in 1 .. Len(log) : log[i].at <= later
  BY <1>1, <1>2
<1>4. \A i \in 1 .. Len(log) - Len(stamps) : i \in 1 .. Len(log) /\ log[i].at < now - Second
  BY <1>1 DEF Window
<1>5. \A i \in 1 .. Len(log) - Len(stamps) : log[i].at < later - Second
  BY <1>1, <1>2, <1>4
<1> QED
  BY <1>3, <1>5 DEF Window

\* orders_in_last_second leaves the end of the deque that is a second old or
\* younger, whole.
LEMMA RecentIsEnd ==
    ASSUME NEW stamps \in Seq(Nat), NEW now \in Nat,
           \A i, j \in 1 .. Len(stamps) : i <= j => stamps[i] <= stamps[j]
    PROVE  /\ Recent(stamps, now) \in Seq(Nat)
           /\ \E k \in 0 .. Len(stamps) :
                 /\ Len(Recent(stamps, now)) = Len(stamps) - k
                 /\ \A i \in 1 .. Len(stamps) - k : Recent(stamps, now)[i] = stamps[k + i]
                 /\ \A i \in 1 .. k : stamps[i] < now - Second
                 /\ \A i \in k + 1 .. Len(stamps) : stamps[i] >= now - Second
<1> DEFINE kept == {i \in DOMAIN stamps : stamps[i] >= now - Second}
           r == Recent(stamps, now)
           n == Len(stamps)
<1>1. DOMAIN stamps = 1 .. n /\ n \in Nat /\ Second \in Nat /\ \A i \in 1 .. n : stamps[i] \in Nat
  BY SecondAssumption
<1>2. r = IF kept = {} THEN << >> ELSE SubSeq(stamps, Min(kept), n)
  BY DEF Recent
<1>3. CASE kept = {}
  <2>1. r = << >>
    BY <1>2, <1>3
  <2>2. n \in 0 .. n /\ Len(r) = n - n /\ 1 .. n - n = {} /\ n + 1 .. n = {} /\ r \in Seq(Nat)
    BY <1>1, <2>1
  <2>3. \A i \in 1 .. n : stamps[i] < now - Second
    BY <1>1, <1>3
  <2> HIDE DEF r, kept
  <2> QED
    BY <2>2, <2>3 DEF r
<1>4. CASE kept # {}
  <2>1. kept \subseteq Int /\ IsFiniteSet(kept)
    <3>1. kept \subseteq 1 .. n /\ IsFiniteSet(1 .. n)
      BY <1>1, FS_Interval
    <3> HIDE DEF kept
    <3>2. IsFiniteSet(kept)
      BY <3>1, FS_Subset
    <3> QED
      BY <1>1, <3>1, <3>2
  <2> DEFINE m == Min(kept)
             k == m - 1
  <2>2. m \in kept /\ \A i \in kept : m <= i
    BY <1>4, <2>1, MinMax
  <2>3. m \in 1 .. n /\ stamps[m] >= now - Second
    BY <1>1, <2>2
  <2>4. \A i \in 1 .. n : i < m => stamps[i] < now - Second
    <3>1. ASSUME NEW i \in 1 .. n, ~(stamps[i] < now - Second) PROVE i \in kept
      BY <1>1, <3>1
    <3>2. \A i \in 1 .. n : i < m => i \notin kept
      <4> HIDE DEF kept
      <4> QED
        BY <1>1, <2>2, <2>3
    <3> QED
      BY <3>1, <3>2
  <2>5. r = SubSeq(stamps, m, n)
    BY <1>2, <1>4
  <2> HIDE DEF m, r, kept
  <2>6. /\ r \in Seq(Nat) /\ Len(r) = n - k
        /\ \A i \in 1 .. n - k : r[i] = stamps[k + i]
    <3>1. Len(r) = n - m + 1 /\ \A i \in 1 .. n - m + 1 : r[i] = stamps[m + i - 1]
      BY <1>1, <2>3, <2>5
    <3>2. \A i \in 1 .. n - m + 1 : m + i - 1 = k + i /\ m + i - 1 \in 1 .. n
      BY <1>1, <2>3
    <3>3. r \in Seq(Nat)
      BY <1>1, <2>3, <2>5
    <3> QED
      BY <1>1, <2>3, <3>1, <3>2, <3>3
  <2>7. k \in 0 .. n /\ \A i \in 1 .. k : stamps[i] < now - Second
    BY <1>1, <2>3, <2>4
  <2>8. \A i \in k + 1 .. n : stamps[i] >= now - Second
    <3>1. ASSUME NEW i \in k + 1 .. n PROVE stamps[i] >= now - Second
      <4>1. i \in 1 .. n /\ m <= i
        BY <1>1, <2>3
      <4>2. stamps[m] <= stamps[i] /\ stamps[m] \in Nat /\ stamps[i] \in Nat
        BY <1>1, <2>3, <4>1
      <4> QED
        BY <1>1, <2>3, <4>2
    <3> QED
      BY <3>1
  <2> HIDE DEF k
  <2> QED
    BY <2>6, <2>7, <2>8 DEF r
<1> QED
  BY <1>3, <1>4

\* Pruning keeps the window, and what it keeps is in the last second.
LEMMA WindowPruned ==
    ASSUME NEW stamps, NEW log, NEW now, Window(stamps, log, now)
    PROVE  /\ Window(Recent(stamps, now), log, now)
           /\ \A i \in 1 .. Len(log) :
                 i > Len(log) - Len(Recent(stamps, now)) <=> log[i].at >= now - Second
<1> DEFINE r == Recent(stamps, now)
           n == Len(stamps)
           m == Len(log)
<1>1. /\ stamps \in Seq(Nat) /\ log \in Seq(Approvals) /\ now \in Nat /\ Second \in Nat
      /\ n \in Nat /\ m \in Nat /\ n <= m
  BY SecondAssumption DEF Window
<1>2. \A i \in 1 .. n : stamps[i] = log[m - n + i].at /\ m - n + i \in 1 .. m
  BY <1>1 DEF Window
<1>3. \A i, j \in 1 .. m : i <= j => log[i].at <= log[j].at
  BY DEF Window
<1>4. \A i, j \in 1 .. n : i <= j => stamps[i] <= stamps[j]
  <2> SUFFICES ASSUME NEW i \in 1 .. n, NEW j \in 1 .. n, i <= j PROVE stamps[i] <= stamps[j]
    OBVIOUS
  <2>1. m - n + i <= m - n + j
    BY <1>1
  <2> HIDE DEF m, n
  <2> QED
    BY <1>2, <1>3, <2>1
<1>5. r \in Seq(Nat)
  BY <1>1, <1>4, RecentIsEnd
<1>6. PICK k \in 0 .. n :
         /\ Len(r) = n - k
         /\ \A i \in 1 .. n - k : r[i] = stamps[k + i]
         /\ \A i \in 1 .. k : stamps[i] < now - Second
         /\ \A i \in k + 1 .. n : stamps[i] >= now - Second
  BY <1>1, <1>4, RecentIsEnd
<1>7. \A i \in 1 .. m : log[i].at \in Nat /\ log[i].at <= now
  BY WindowType
<1>8. \A i \in 1 .. m - n : log[i].at < now - Second
  BY DEF Window
<1> HIDE DEF r, n, m
<1>9. Len(r) <= m /\ m - Len(r) = (m - n) + k
  BY <1>1, <1>6
<1>10. \A i \in 1 .. Len(r) : r[i] = log[m - Len(r) + i].at
  <2> SUFFICES ASSUME NEW i \in 1 .. Len(r) PROVE r[i] = log[m - Len(r) + i].at
    OBVIOUS
  <2>1. i \in 1 .. n - k /\ k + i \in 1 .. n /\ m - n + (k + i) = m - Len(r) + i
    BY <1>1, <1>6
  <2> QED
    BY <1>2, <1>6, <2>1
<1>11. \A i \in 1 .. m : i <= m - Len(r) => log[i].at < now - Second
  <2> SUFFICES ASSUME NEW i \in 1 .. m, i <= m - Len(r) PROVE log[i].at < now - Second
    OBVIOUS
  <2>1. CASE i <= m - n
    BY <1>1, <1>8, <2>1
  <2>2. CASE ~(i <= m - n)
    <3>1. i - (m - n) \in 1 .. k /\ i - (m - n) \in 1 .. n /\ m - n + (i - (m - n)) = i
      BY <1>1, <1>6, <1>9, <2>2
    <3> QED
      BY <1>2, <1>6, <3>1
  <2> QED
    BY <2>1, <2>2
<1>12. \A i \in 1 .. m : i > m - Len(r) => log[i].at >= now - Second
  <2> SUFFICES ASSUME NEW i \in 1 .. m, i > m - Len(r) PROVE log[i].at >= now - Second
    OBVIOUS
  <2>1. i - (m - n) \in k + 1 .. n /\ i - (m - n) \in 1 .. n /\ m - n + (i - (m - n)) = i
    BY <1>1, <1>6, <1>9
  <2> QED
    BY <1>2, <1>6, <2>1
<1>13. \A i \in 1 .. m - Len(r) : i \in 1 .. m /\ i <= m - Len(r)
  BY <1>1, <1>5, <1>9
<1>14. Window(r, log, now)
  BY <1>1, <1>3, <1>5, <1>7, <1>9, <1>10, <1>11, <1>13 DEF Window, m
<1>15. \A i \in 1 .. m : i > m - Len(r) <=> log[i].at >= now - Second
  <2> SUFFICES ASSUME NEW i \in 1 .. m PROVE i > m - Len(r) <=> log[i].at >= now - Second
    OBVIOUS
  <2>1. i \in Int /\ m - Len(r) \in Int /\ log[i].at \in Int /\ now - Second \in Int
    BY <1>1, <1>5, <1>7
  <2>2. (i <= m - Len(r) => log[i].at < now - Second) /\ (i > m - Len(r) => log[i].at >= now - Second)
    BY <1>11, <1>12
  <2> QED
    BY <2>1, <2>2
<1> QED
  BY <1>14, <1>15 DEF r, m

\* An approval joins the deque and the history.
LEMMA WindowGrows ==
    ASSUME NEW stamps, NEW log, NEW now, Window(stamps, log, now),
           NEW a \in Approvals, a.at >= now
    PROVE  Window(Append(stamps, a.at), Append(log, a), a.at)
<1> DEFINE s == Append(stamps, a.at)
           l == Append(log, a)
           n == Len(stamps)
           m == Len(log)
<1>1. Window(stamps, log, a.at)
  BY WindowAdvances DEF Approvals
<1>2. /\ s \in Seq(Nat) /\ l \in Seq(Approvals) /\ a.at \in Nat /\ Second \in Nat
      /\ n \in Nat /\ m \in Nat /\ n <= m
  BY <1>1, SecondAssumption DEF Window, Approvals
<1>3. /\ Len(s) = n + 1 /\ s[n + 1] = a.at /\ \A i \in 1 .. n : s[i] = stamps[i]
      /\ Len(l) = m + 1 /\ l[m + 1] = a /\ \A i \in 1 .. m : l[i] = log[i]
  BY DEF Window
<1>4. /\ \A i \in 1 .. n : stamps[i] = log[m - n + i].at
      /\ \A i, j \in 1 .. m : i <= j => log[i].at <= log[j].at
      /\ \A i \in 1 .. m : log[i].at <= a.at
      /\ \A i \in 1 .. m - n : log[i].at < a.at - Second
  BY <1>1 DEF Window
<1> HIDE DEF s, l, n, m
<1>5. Len(s) <= Len(l) /\ Len(l) - Len(s) = m - n
  BY <1>2, <1>3
<1>6. \A i \in 1 .. m + 1 : i \in 1 .. m \/ i = m + 1
  BY <1>2
<1>7. \A i \in 1 .. n + 1 : s[i] = l[m - n + i].at
  <2> SUFFICES ASSUME NEW i \in 1 .. n + 1 PROVE s[i] = l[m - n + i].at
    OBVIOUS
  <2>1. CASE i \in 1 .. n
    <3>1. m - n + i \in 1 .. m
      BY <1>2, <2>1
    <3> QED
      BY <1>3, <1>4, <2>1, <3>1
  <2>2. CASE i = n + 1
    <3>1. m - n + i = m + 1
      BY <1>2, <2>2
    <3> QED
      BY <1>3, <2>2, <3>1
  <2> QED
    BY <1>2, <2>1, <2>2
<1>8. \A i, j \in 1 .. m + 1 : i <= j => l[i].at <= l[j].at
  <2> SUFFICES ASSUME NEW i \in 1 .. m + 1, NEW j \in 1 .. m + 1, i <= j PROVE l[i].at <= l[j].at
    OBVIOUS
  <2>1. CASE j = m + 1
    BY <1>2, <1>3, <1>4, <1>6, <2>1
  <2>2. CASE j \in 1 .. m
    <3>1. i \in 1 .. m
      BY <1>2, <2>2
    <3> QED
      BY <1>3, <1>4, <2>2, <3>1
  <2> QED
    BY <1>6, <2>1, <2>2
<1>9. \A i \in 1 .. m + 1 : l[i].at <= a.at
  BY <1>2, <1>3, <1>4, <1>6
<1>10. \A i \in 1 .. m - n : l[i].at < a.at - Second
  <2>1. \A i \in 1 .. m - n : i \in 1 .. m
    BY <1>2
  <2> QED
    BY <1>3, <1>4, <2>1
<1> HIDE DEF Approvals
<1>11. Window(s, l, a.at)
  BY <1>2, <1>3, <1>5, <1>7, <1>8, <1>9, <1>10 DEF Window
<1> QED
  BY <1>11 DEF s, l

-----------------------------------------------------------------------------
(* How many approvals a second holds.                                      *)

\* The deque, pruned at a time, holds as many approvals as the second that
\* ends then.
LEMMA RecentCounts ==
    ASSUME NEW stamps, NEW log, NEW now, Window(stamps, log, now)
    PROVE  Cardinality({i \in 1 .. Len(log) : log[i].at \in now - Second .. now})
              = Len(Recent(stamps, now))
<1> DEFINE r == Recent(stamps, now)
           m == Len(log)
           S == {i \in 1 .. m : log[i].at \in now - Second .. now}
<1>1. Window(r, log, now) /\ \A i \in 1 .. m : i > m - Len(r) <=> log[i].at >= now - Second
  BY WindowPruned
<1>2. /\ m \in Nat /\ Len(r) \in Nat /\ Len(r) <= m /\ now \in Nat /\ Second \in Nat
  BY <1>1, SecondAssumption DEF Window
<1>7. \A i \in 1 .. m : log[i].at \in Nat /\ log[i].at <= now
  BY WindowType
<1> HIDE DEF r, m
<1>3. \A i : i \in S <=> i \in m - Len(r) + 1 .. m
  <2>1. \A i \in S : i \in m - Len(r) + 1 .. m
    BY <1>1, <1>2, <1>7
  <2>2. ASSUME NEW i \in m - Len(r) + 1 .. m PROVE i \in S
    <3>1. i \in 1 .. m /\ i > m - Len(r)
      BY <1>2
    <3>2. log[i].at \in now - Second .. now
      BY <1>1, <1>2, <1>7, <3>1
    <3> QED
      BY <3>1, <3>2
  <2> QED
    BY <2>1, <2>2
<1>4. S = m - Len(r) + 1 .. m
  BY <1>3
<1>5. \A a, b \in Int : Cardinality(a .. b) = IF a > b THEN 0 ELSE b - a + 1
  BY FS_Interval
<1>6. Cardinality(m - Len(r) + 1 .. m) = Len(r)
  <2> DEFINE low == m - Len(r) + 1
  <2>1. low \in Int /\ m \in Int /\ (low > m => Len(r) = 0) /\ m - low + 1 = Len(r)
    BY <1>2
  <2> HIDE DEF low
  <2>2. Cardinality(low .. m) = Len(r)
    BY <1>2, <1>5, <2>1
  <2> QED
    BY <2>2 DEF low
<1> QED
  BY <1>4, <1>6 DEF r, m

\* An approval that finds room in the pruned deque leaves every second within
\* its rate.
LEMMA BoundedGrows ==
    ASSUME NEW stamps, NEW log, NEW now, Window(stamps, log, now), Bounded(log),
           NEW a \in Approvals, a.at >= now,
           a.enabled => Len(Recent(stamps, now)) < a.rate
    PROVE  Bounded(Append(log, a))
<1> DEFINE l == Append(log, a)
           m == Len(log)
<1>1. /\ Len(l) = m + 1 /\ l[m + 1] = a /\ m \in Nat
      /\ \A i \in 1 .. m : l[i] = log[i] /\ log[i].at \in Nat /\ log[i].at <= now
      /\ now \in Nat /\ a.at \in Nat /\ Second \in Nat /\ a.rate \in Int
  <2>1. \A i \in 1 .. m : log[i].at \in Nat /\ log[i].at <= now
    BY WindowType
  <2>2. Len(l) = m + 1 /\ l[m + 1] = a /\ m \in Nat /\ \A i \in 1 .. m : l[i] = log[i]
    <3> HIDE DEF Approvals
    <3> QED
      BY DEF Window
  <2>3. now \in Nat /\ a.at \in Nat /\ Second \in Nat /\ a.rate \in Int
    BY SecondAssumption DEF Window, Approvals
  <2> HIDE DEF l, m
  <2> QED
    BY <2>1, <2>2, <2>3
<1> DEFINE S == {j \in 1 .. m : log[j].at \in now - Second .. now}
<1> HIDE DEF l, m
<1>2. ASSUME NEW i \in 1 .. m PROVE Crowd(l, i) = Crowd(log, i)
  <2>1. \A j : j \in 1 .. m + 1 /\ j <= i <=> j \in 1 .. m /\ j <= i
    BY <1>1
  <2> QED
    BY <1>1, <2>1 DEF Crowd, m
<1>3. a.enabled => Cardinality(Crowd(l, m + 1)) <= a.rate
  <2> SUFFICES ASSUME a.enabled PROVE Cardinality(Crowd(l, m + 1)) <= a.rate
    OBVIOUS
  <2>1. Cardinality(S) < a.rate
    BY RecentCounts DEF m
  <2>2. S \subseteq 1 .. m /\ m + 1 \notin S
    BY <1>1
  <2>8. IsFiniteSet(1 .. m)
    <3>1. m \in Int /\ 1 \in Int
      BY <1>1
    <3> QED
      BY <3>1, FS_Interval
  <2>3. IsFiniteSet(S) /\ Cardinality(S) \in Nat
    BY <2>2, <2>8, FS_Subset, FS_CardinalityType
  <2>4. Crowd(l, m + 1) \subseteq S \cup {m + 1}
    <3> SUFFICES ASSUME NEW j \in Crowd(l, m + 1), j # m + 1 PROVE j \in S
      OBVIOUS
    <3>1. j \in 1 .. m + 1 /\ l[j].at \in a.at - Second .. a.at
      BY <1>1 DEF Crowd
    <3>2. j \in 1 .. m
      BY <1>1, <3>1
    <3> QED
      BY <1>1, <3>1, <3>2
  <2> HIDE DEF S
  <2>5. IsFiniteSet(S \cup {m + 1}) /\ Cardinality(S \cup {m + 1}) = Cardinality(S) + 1
    BY <2>2, <2>3, FS_AddElement
  <2>6. IsFiniteSet(Crowd(l, m + 1)) /\ Cardinality(Crowd(l, m + 1)) <= Cardinality(S) + 1
    BY <2>4, <2>5, FS_Subset
  <2>7. Cardinality(Crowd(l, m + 1)) \in Nat
    BY <2>6, FS_CardinalityType
  <2> QED
    BY <1>1, <2>1, <2>3, <2>6, <2>7
<1>4. \A i \in 1 .. m + 1 : i \in 1 .. m \/ i = m + 1
  BY <1>1
<1>5. \A i \in 1 .. m + 1 : l[i].enabled => Cardinality(Crowd(l, i)) <= l[i].rate
  BY <1>1, <1>2, <1>3, <1>4 DEF Bounded, m
<1> QED
  BY <1>1, <1>5 DEF Bounded, l

-----------------------------------------------------------------------------
(* The steps.                                                              *)

\* A check that fails never says MAX_ORDER_RATE.
LEMMA ObjectionIsNotRate ==
    ASSUME NEW lim, NEW o, NEW quote, NEW net
    PROVE  Objection(lim, o, quote, net) # "MAX_ORDER_RATE"
<1> DEFINE checks == Checks(lim, o, quote, net)
           failed == {i \in DOMAIN checks : checks[i].fails}
<1>1. DOMAIN checks = 1 .. 5 /\ \A i \in 1 .. 5 : checks[i].reason # "MAX_ORDER_RATE"
  BY DEF Checks
<1>2. failed # {} => Min(failed) \in 1 .. 5
  <2>1. failed \subseteq 1 .. 5 /\ failed \subseteq Int
    BY <1>1
  <2>2. IsFiniteSet(failed)
    <3> HIDE DEF failed
    <3>1. IsFiniteSet(1 .. 5)
      <4> DEFINE n == 5
      <4>1. n \in Int
        OBVIOUS
      <4> HIDE DEF n
      <4>2. IsFiniteSet(1 .. n)
        BY <4>1, FS_Interval
      <4> QED
        BY <4>2 DEF n
    <3> QED
      BY <2>1, <3>1, FS_Subset
  <2> HIDE DEF failed
  <2> QED
    BY <2>1, <2>2, MinMax
<1>3. Objection(lim, o, quote, net) = IF failed = {} THEN "NONE" ELSE checks[Min(failed)].reason
  BY DEF Objection
<1> HIDE DEF checks, failed
<1> QED
  BY <1>1, <1>2, <1>3

\* What Approve does.
LEMMA ApproveKeeps ==
    ASSUME RInv, NEW stamps, Window(stamps, approvals, clock), NEW later \in Nat, later >= clock,
           Approve(stamps, later), clock' = later, UNCHANGED limits,
           limits.enabled => Len(Recent(stamps, clock)) < limits.max_orders_per_sec
    PROVE  RInv'
<1> DEFINE a == [at |-> later, enabled |-> limits.enabled, rate |-> limits.max_orders_per_sec]
<1>1. a \in Approvals /\ a.at = later /\ a.enabled = limits.enabled /\ a.rate = limits.max_orders_per_sec
  BY DEF Approvals, RInv, Limits
<1>2. timestamps' = Append(stamps, a.at) /\ approvals' = Append(approvals, a)
  BY DEF Approve
<1> HIDE DEF a
<1>3. Window(Append(stamps, a.at), Append(approvals, a), a.at)
  BY <1>1, WindowGrows
<1>4. Bounded(Append(approvals, a))
  BY <1>1, BoundedGrows DEF RInv
<1>5. Window(timestamps', approvals', clock')
  BY <1>1, <1>2, <1>3
<1>6. Bounded(approvals')
  BY <1>2, <1>4
<1> QED
  BY <1>5, <1>6 DEF RInv, Window, Bounded, Crowd

\* Pruning twice at one time is pruning once.
LEMMA RecentTwice ==
    ASSUME NEW stamps, NEW log, NEW now, Window(stamps, log, now)
    PROVE  Len(Recent(Recent(stamps, now), now)) = Len(Recent(stamps, now))
<1>1. Window(Recent(stamps, now), log, now)
  BY WindowPruned
<1> HIDE DEF Window
<1>2. Len(Recent(Recent(stamps, now), now))
         = Cardinality({i \in 1 .. Len(log) : log[i].at \in now - Second .. now})
  BY <1>1, RecentCounts
<1> QED
  BY <1>2, RecentCounts

\* RInv holds initially.
LEMMA RInvInit == Init => RInv
<1> SUFFICES ASSUME Init PROVE RInv
  OBVIOUS
<1>1. Window(<< >>, << >>, 0)
  BY DEF Window
<1>2. Bounded(<< >>)
  BY DEF Bounded
<1> QED
  BY <1>1, <1>2, LimitChoicesAssumption DEF Init, RInv

\* RInv survives every step.
LEMMA RInvStep == RInv /\ [Next]_vars => RInv'
<1> SUFFICES ASSUME RInv, [Next]_vars PROVE RInv'
  OBVIOUS
<1>1. Window(timestamps, approvals, clock) /\ clock \in Nat /\ limits \in Limits
  BY DEF RInv, Window
<1>2. ASSUME NEW o, NEW quote, NEW net, CheckOrder(o, quote, net) PROVE RInv'
  <2>1. PICK later \in clock .. MaxTime :
           /\ clock' = later
           /\ CheckDisabled(later) \/ CheckObjects(o, quote, net) \/ CheckRate(o, quote, net, later)
           /\ UNCHANGED limits
    BY <1>2 DEF CheckOrder
  <2>2. later \in Nat /\ later >= clock
    BY <1>1, BoundsAssumption
  <2>3. CASE CheckDisabled(later)
    BY <1>1, <2>1, <2>2, <2>3, ApproveKeeps DEF CheckDisabled
  <2>4. CASE CheckObjects(o, quote, net)
    <3>1. Window(timestamps, approvals, later)
      BY <1>1, <2>2, WindowAdvances
    <3> QED
      BY <2>1, <2>4, <3>1 DEF CheckObjects, RInv, Window, Bounded, Crowd
  <2>5. CASE CheckRate(o, quote, net, later)
    <3> DEFINE recent == Recent(timestamps, clock)
    <3>1. Window(recent, approvals, clock) /\ Len(Recent(recent, clock)) = Len(recent)
      BY <1>1, WindowPruned, RecentTwice
    <3>2. CASE timestamps' = recent /\ UNCHANGED approvals
      <4>1. Window(recent, approvals, later)
        BY <2>2, <3>1, WindowAdvances
      <4>2. Window(timestamps', approvals', clock')
        BY <2>1, <3>2, <4>1
      <4> HIDE DEF recent
      <4> QED
        BY <2>1, <3>2, <4>2 DEF RInv, Window, Bounded, Crowd
    <3>3. CASE Len(recent) < limits.max_orders_per_sec /\ Approve(recent, later)
      <4> HIDE DEF recent
      <4> QED
        BY <2>1, <2>2, <3>1, <3>3, ApproveKeeps
    <3> QED
      BY <2>5, <3>2, <3>3 DEF CheckRate
  <2> QED
    BY <2>1, <2>3, <2>4, <2>5
<1>3. ASSUME NEW new \in LimitChoices, SetLimits(new) PROVE RInv'
  BY <1>3, LimitChoicesAssumption DEF SetLimits, RInv, Window, Bounded, Crowd
<1>4. CASE TimePasses
  <2>1. Window(timestamps, approvals, clock + 1)
    BY <1>1, WindowAdvances
  <2> QED
    BY <1>4, <2>1 DEF TimePasses, RInv, Window, Bounded, Crowd
<1>5. CASE UNCHANGED vars
  BY <1>5 DEF vars, RInv, Window, Bounded, Crowd
<1> QED
  BY <1>2, <1>3, <1>4, <1>5 DEF Next

\* RInv holds in every reachable state: the deque that check_order prunes and
\* appends to is always the end of the history of approvals, with all of the
\* last second in it.
THEOREM RateInvariance == Spec => []RInv
  BY RInvInit, RInvStep, PTL DEF Spec

\* No second that ends with an approval under limits holds more approvals than
\* they allow (check_order, orders_in_last_second).
THEOREM RateStaysBounded == Spec => []RateBounded
<1>1. RInv => RateBounded
  BY BoundedIsRateBounded DEF RInv, Window
<1> QED
  BY <1>1, RateInvariance, PTL

\* An order is throttled only when the allowed number was approved in the
\* second before (check_order).
THEOREM ThrottledForCause == Spec => NoFalseThrottle
<1> DEFINE A == result' = "MAX_ORDER_RATE" /\ result # result' =>
                   Cardinality(Within(clock - Second, clock)) >= limits.max_orders_per_sec
<1>1. RInv /\ [Next]_vars => [A]_vars
  <2> SUFFICES ASSUME RInv, Next, result' = "MAX_ORDER_RATE", result # result'
               PROVE  Cardinality(Within(clock - Second, clock)) >= limits.max_orders_per_sec
    BY DEF vars
  <2>1. PICK o \in Requests, quote \in {0, 1}, net \in {0, 1} : CheckOrder(o, quote, net)
    BY DEF Next, SetLimits, TimePasses
  <2>2. Objection(limits, o, quote, net) # "MAX_ORDER_RATE"
    BY ObjectionIsNotRate
  <2>3. Len(Recent(timestamps, clock)) >= limits.max_orders_per_sec
    BY <2>1, <2>2 DEF CheckOrder, CheckDisabled, CheckObjects, CheckRate, Approve
  <2>4. Window(timestamps, approvals, clock) /\ DOMAIN approvals = 1 .. Len(approvals)
    BY DEF RInv, Window
  <2>5. Cardinality({i \in 1 .. Len(approvals) : approvals[i].at \in clock - Second .. clock})
           = Len(Recent(timestamps, clock))
    BY <2>4, RecentCounts
  <2>6. Within(clock - Second, clock) = {i \in 1 .. Len(approvals) : approvals[i].at \in clock - Second .. clock}
    BY <2>4 DEF Within
  <2> QED
    BY <2>3, <2>5, <2>6
<1> QED
  BY <1>1, RateInvariance, PTL DEF Spec, NoFalseThrottle

-----------------------------------------------------------------------------
(* Fractions.                                                              *)

\* A fraction in lowest terms: it cannot be written with a smaller denominator.
IsFraction(a) ==
    /\ a \in [num : Int, den : Nat \ {0}]
    /\ \A k \in 1 .. a.den - 1 : (k * a.num) % a.den # 0

\* a is n / d.
Worth(a, n, d) == IsFraction(a) /\ a.num * d = n * a.den

\* What divides without a rest is a multiple, and the other way round.
LEMMA Divides ==
    ASSUME NEW x \in Int, NEW d \in Nat \ {0}
    PROVE  /\ x \div d \in Int
           /\ x % d = 0 => x = (x \div d) * d
           /\ \A m \in Int : x = m * d => x % d = 0
<1>1. ASSUME x % d = 0 PROVE x = (x \div d) * d
  BY <1>1
<1>2. ASSUME NEW m \in Int, x = m * d PROVE x % d = 0
  BY <1>2
<1> QED
  BY <1>1, <1>2

\* A factor other than zero may be left out on both sides.
LEMMA Cancelled ==
    ASSUME NEW a \in Int, NEW b \in Int, NEW c \in Nat \ {0}, a * c = b * c
    PROVE  a = b
  OBVIOUS

\* Ratio is the quotient, in lowest terms.
LEMMA RatioWorth ==
    ASSUME NEW n \in Int, NEW d \in Nat \ {0}
    PROVE  Worth(Ratio(n, d), n, d)
<1> DEFINE D == Denominators(n, d)
           k == Min(D)
           q == (k * n) \div d
<1>1. D = {j \in 1 .. d : (j * n) % d = 0}
  BY DEF Denominators
<1>2. d \in D
  <2>1. d * n = n * d /\ d * n \in Int
    OBVIOUS
  <2>2. (d * n) % d = 0
    BY <2>1, Divides
  <2> QED
    BY <1>1, <2>2
<1>3. D \subseteq Int /\ D # {} /\ IsFiniteSet(D)
  <2>1. D \subseteq 1 .. d /\ D # {}
    BY <1>1, <1>2
  <2>2. IsFiniteSet(1 .. d)
    BY FS_Interval
  <2> HIDE DEF D
  <2>3. IsFiniteSet(D)
    BY <2>1, <2>2, FS_Subset
  <2> QED
    BY <2>1, <2>3
<1>4. k = Min(D)
  BY DEF Min, Min
<1> HIDE DEF D, k
<1>5. k \in D /\ \A j \in D : k <= j
  BY <1>3, <1>4, MinMax
<1>6. k \in 1 .. d /\ (k * n) % d = 0 /\ k * n \in Int
  BY <1>1, <1>5
<1>7. q \in Int /\ k * n = q * d
  BY <1>6, Divides
<1> HIDE DEF q
<1>8. ASSUME NEW j \in 1 .. k - 1, (j * q) % k = 0 PROVE FALSE
  <2> DEFINE m == (j * q) \div k
  <2>1. j * q \in Int /\ k \in Nat \ {0} /\ j \in Int
    BY <1>6, <1>7
  <2>2. m \in Int /\ j * q = m * k
    BY <1>8, <2>1, Divides
  <2> HIDE DEF m
  <2>3. (j * n) * k = (m * d) * k
    <3>1. (j * q) * d = (m * k) * d
      BY <2>2
    <3>2. (j * q) * d = j * (q * d) /\ j * (k * n) = (j * n) * k
      BY <1>6, <1>7, <2>1
    <3>3. (m * k) * d = (m * d) * k
      BY <2>1, <2>2
    <3> QED
      BY <1>7, <3>1, <3>2, <3>3
  <2>4. j * n \in Int /\ m * d \in Int
    BY <2>1, <2>2
  <2>5. j * n = m * d
    BY <2>1, <2>3, <2>4, Cancelled
  <2>6. (j * n) % d = 0
    BY <2>2, <2>4, <2>5, Divides
  <2>7. j \in D
    BY <1>1, <1>6, <2>6
  <2> QED
    BY <1>5, <1>6, <2>7
<1>9. Ratio(n, d) = [num |-> q, den |-> k]
  BY DEF Ratio, q, k, D
<1>10. IsFraction([num |-> q, den |-> k])
  BY <1>6, <1>7, <1>8 DEF IsFraction
<1>11. q * d = n * k
  BY <1>6, <1>7
<1> QED
  BY <1>9, <1>10, <1>11 DEF Worth

\* Equal fractions are the same record.
LEMMA SameFraction ==
    ASSUME NEW a, NEW b, IsFraction(a), IsFraction(b), a.num * b.den = b.num * a.den
    PROVE  a = b
<1>1. /\ a.num \in Int /\ b.num \in Int /\ a.den \in Nat \ {0} /\ b.den \in Nat \ {0}
      /\ a = [num |-> a.num, den |-> a.den] /\ b = [num |-> b.num, den |-> b.den]
  BY DEF IsFraction
<1>2. a.den * b.num = a.num * b.den /\ b.den * a.num = b.num * a.den
  BY <1>1
<1>3. (a.den * b.num) % b.den = 0 /\ (b.den * a.num) % a.den = 0
  <2>1. a.den * b.num \in Int /\ b.den * a.num \in Int
    BY <1>1
  <2> QED
    BY <1>1, <1>2, <2>1, Divides
<1>4. ~(a.den < b.den) /\ ~(b.den < a.den)
  BY <1>1, <1>3 DEF IsFraction
<1>5. a.den = b.den
  BY <1>1, <1>4
<1>6. a.num = b.num
  BY <1>1, <1>5, Cancelled
<1> QED
  BY <1>1, <1>5, <1>6

\* Two fractions with the same worth are the same record.
LEMMA SameWorth ==
    ASSUME NEW a, NEW b, NEW n \in Int, NEW d \in Nat \ {0}, Worth(a, n, d), Worth(b, n, d)
    PROVE  a = b
<1>1. /\ IsFraction(a) /\ IsFraction(b) /\ a.num * d = n * a.den /\ b.num * d = n * b.den
      /\ a.num \in Int /\ b.num \in Int /\ a.den \in Nat \ {0} /\ b.den \in Nat \ {0}
  BY DEF Worth, IsFraction
<1>2. (a.num * b.den) * d = (b.num * a.den) * d
  <2>1. (a.num * b.den) * d = (a.num * d) * b.den /\ (b.num * a.den) * d = (b.num * d) * a.den
    BY <1>1
  <2>2. (n * a.den) * b.den = (n * b.den) * a.den
    BY <1>1
  <2> QED
    BY <1>1, <2>1, <2>2
<1>3. a.num * b.den = b.num * a.den
  <2>1. a.num * b.den \in Int /\ b.num * a.den \in Int
    BY <1>1
  <2> QED
    BY <1>2, <2>1, Cancelled
<1> QED
  BY <1>1, <1>3, SameFraction

\* Numerator and denominator may be multiplied by the same factor, or divided by it.
LEMMA Scaled ==
    ASSUME NEW a, NEW n \in Int, NEW d \in Nat \ {0}, NEW k \in Nat \ {0}
    PROVE  Worth(a, n, d) <=> Worth(a, n * k, d * k)
<1> SUFFICES ASSUME IsFraction(a)
             PROVE  a.num * d = n * a.den <=> a.num * (d * k) = (n * k) * a.den
  BY DEF Worth
<1>1. a.num \in Int /\ a.den \in Nat \ {0} /\ a.num * d \in Int /\ n * a.den \in Int
  BY DEF IsFraction
<1>2. a.num * (d * k) = (a.num * d) * k /\ (n * k) * a.den = (n * a.den) * k
  BY <1>1
<1> QED
  BY <1>1, <1>2, Cancelled

\* A whole number is a fraction of any denominator.
LEMMA WholeWorth ==
    ASSUME NEW n \in Int, NEW d \in Nat \ {0}
    PROVE  Worth(Whole(n), n * d, d)
  BY DEF Whole, Worth, IsFraction

\* Sums and differences of fractions with one denominator.
LEMMA PlusWorth ==
    ASSUME NEW a, NEW b, NEW n \in Int, NEW m \in Int, NEW d \in Nat \ {0},
           Worth(a, n, d), Worth(b, m, d)
    PROVE  Worth(Plus(a, b), n + m, d) /\ Worth(Minus(a, b), n - m, d)
<1>1. /\ a.num \in Int /\ b.num \in Int /\ a.den \in Nat \ {0} /\ b.den \in Nat \ {0}
      /\ a.num * d = n * a.den /\ b.num * d = m * b.den
  BY DEF Worth, IsFraction
<1> DEFINE e == a.den * b.den
           x == a.num * b.den
           y == b.num * a.den
<1>2. e \in Nat \ {0} /\ x \in Int /\ y \in Int
  BY <1>1
<1>3. x * d = n * e /\ y * d = m * e
  <2>1. x * d = (a.num * d) * b.den /\ y * d = (b.num * d) * a.den
    BY <1>1
  <2>2. (n * a.den) * b.den = n * e /\ (m * b.den) * a.den = m * e
    BY <1>1
  <2> QED
    BY <1>1, <2>1, <2>2
<1> HIDE DEF e, x, y
<1>4. ASSUME NEW z \in Int, NEW w \in Int, z * d = w * e PROVE Worth(Ratio(z, e), w, d)
  <2> DEFINE r == Ratio(z, e)
  <2>1. Worth(r, z, e)
    BY <1>2, <1>4, RatioWorth
  <2> HIDE DEF r
  <2>2. Worth(r, z * d, e * d)
    BY <1>2, <1>4, <2>1, Scaled
  <2>3. Worth(r, w * e, d * e)
    <3>1. e * d = d * e
      BY <1>2
    <3> QED
      BY <1>4, <2>2, <3>1
  <2> QED
    BY <1>2, <1>4, <2>3, Scaled DEF r
<1>5. (x + y) * d = (n + m) * e /\ (x - y) * d = (n - m) * e
  BY <1>2, <1>3
<1>6. Worth(Ratio(x + y, e), n + m, d) /\ Worth(Ratio(x - y, e), n - m, d)
  BY <1>2, <1>4, <1>5
<1> QED
  BY <1>6 DEF Plus, Minus, x, y, e

\* Products and quotients of a fraction and a whole number.
LEMMA TimesWorth ==
    ASSUME NEW a, NEW n \in Int, NEW d \in Nat \ {0}, NEW k \in Int, Worth(a, n, d)
    PROVE  /\ Worth(Times(a, k), n * k, d)
           /\ k > 0 => Worth(Over(a, k), n, d * k)
<1>1. a.num \in Int /\ a.den \in Nat \ {0} /\ a.num * d = n * a.den
  BY DEF Worth, IsFraction
<1>2. ASSUME NEW z \in Int, NEW e \in Nat \ {0}, NEW w \in Int, NEW c \in Nat \ {0}, z * c = w * e
      PROVE  Worth(Ratio(z, e), w, c)
  <2> DEFINE r == Ratio(z, e)
  <2>1. Worth(r, z, e)
    BY <1>2, RatioWorth
  <2> HIDE DEF r
  <2>2. Worth(r, z * c, e * c)
    BY <1>2, <2>1, Scaled
  <2>3. Worth(r, w * e, c * e)
    <3>1. e * c = c * e
      BY <1>2
    <3> QED
      BY <1>2, <2>2, <3>1
  <2> QED
    BY <1>2, <2>3, Scaled DEF r
<1>3. Worth(Times(a, k), n * k, d)
  <2>1. (a.num * k) * d = (n * k) * a.den
    <3>1. (a.num * k) * d = (a.num * d) * k /\ (n * k) * a.den = (n * a.den) * k
      BY <1>1
    <3> QED
      BY <1>1, <3>1
  <2>2. a.num * k \in Int /\ n * k \in Int
    BY <1>1
  <2> QED
    BY <1>1, <1>2, <2>1, <2>2 DEF Times
<1>4. ASSUME k > 0 PROVE Worth(Over(a, k), n, d * k)
  <2>1. a.num * (d * k) = n * (a.den * k)
    <3>1. a.num * (d * k) = (a.num * d) * k /\ n * (a.den * k) = (n * a.den) * k
      BY <1>1
    <3> QED
      BY <1>1, <3>1
  <2>2. d * k \in Nat \ {0} /\ a.den * k \in Nat \ {0}
    BY <1>1, <1>4
  <2> QED
    BY <1>1, <1>2, <2>1, <2>2 DEF Over
<1> QED
  BY <1>3, <1>4
-----------------------------------------------------------------------------
(* The accounts.                                                           *)

\* The price an open position is carried at may be written with any denominator.
LEMMA Carried ==
    ASSUME NEW r, NEW avg, NEW c \in Int, NEW net \in Int, NEW n \in Int, NEW d \in Nat \ {0},
           Worth(avg, n, d), Worth(r, c * d + n * net, d)
    PROVE  Worth(r, c * avg.den + avg.num * net, avg.den)
<1>1. avg.num \in Int /\ avg.den \in Nat \ {0} /\ avg.num * d = n * avg.den
  BY DEF Worth, IsFraction
<1> DEFINE x == c * d + n * net
           y == c * avg.den + avg.num * net
<1>2. x \in Int /\ y \in Int
  BY <1>1
<1>3. x * avg.den = y * d
  <2>1. x * avg.den = c * d * avg.den + (n * avg.den) * net
    BY <1>1
  <2>2. y * d = c * avg.den * d + (avg.num * d) * net
    BY <1>1
  <2>3. c * d * avg.den = c * avg.den * d
    BY <1>1
  <2> QED
    BY <1>1, <2>1, <2>2, <2>3
<1> HIDE DEF x, y
<1>4. Worth(r, x * avg.den, d * avg.den)
  BY <1>1, <1>2, Scaled DEF x
<1>5. Worth(r, y * d, avg.den * d)
  <2>1. d * avg.den = avg.den * d
    BY <1>1
  <2> QED
    BY <1>3, <1>4, <2>1
<1>6. Worth(r, y, avg.den)
  BY <1>1, <1>2, <1>5, Scaled
<1> QED
  BY <1>6 DEF y

Fractions == [num : Int, den : Nat \ {0}]
Positions == [net_qty : Int, avg_price : Fractions, realized_pnl : Fractions, unrealized_pnl : Fractions]

\* The realized profit of pos is the cash flow c, with what is open carried at
\* its average price.
Balanced(pos, c) ==
    Worth(pos.realized_pnl, c * pos.avg_price.den + pos.avg_price.num * pos.net_qty, pos.avg_price.den)

\* What is open of pos is valued at px.
ValuedAt(pos, px) ==
    Worth(pos.unrealized_pnl, (px * pos.avg_price.den - pos.avg_price.num) * pos.net_qty, pos.avg_price.den)

\* The inductive invariant.
AInv ==
    /\ position \in Positions /\ market \in Int /\ mark \in Int /\ cash \in Int
    /\ IsFraction(position.avg_price)
    /\ position.net_qty = 0 => position.avg_price = Whole(0)
    /\ Balanced(position, cash)
    /\ ValuedAt(position, mark)

\* Valuing a position changes nothing but its unrealized profit.
LEMMA ValuedWorth ==
    ASSUME NEW pos \in Positions, IsFraction(pos.avg_price), NEW px \in Int
    PROVE  /\ Valued(pos, px) \in Positions
           /\ Valued(pos, px).net_qty = pos.net_qty
           /\ Valued(pos, px).avg_price = pos.avg_price
           /\ Valued(pos, px).realized_pnl = pos.realized_pnl
           /\ ValuedAt(Valued(pos, px), px)
<1> DEFINE avg == pos.avg_price
           value == IF pos.net_qty = 0 THEN Whole(0)
                    ELSE Times(Minus(Whole(px), avg), pos.net_qty)
<1>1. avg.num \in Int /\ avg.den \in Nat \ {0} /\ pos.net_qty \in Int
  BY DEF IsFraction, Positions
<1>2. Worth(value, (px * avg.den - avg.num) * pos.net_qty, avg.den)
  <2>1. CASE pos.net_qty = 0
    <3>1. Worth(Whole(0), 0 * avg.den, avg.den)
      BY <1>1, WholeWorth
    <3>2. 0 * avg.den = (px * avg.den - avg.num) * pos.net_qty
      BY <1>1, <2>1
    <3> QED
      BY <2>1, <3>1, <3>2
  <2>2. CASE pos.net_qty # 0
    <3>1. Worth(Whole(px), px * avg.den, avg.den) /\ Worth(avg, avg.num, avg.den)
      BY <1>1, WholeWorth DEF Worth
    <3>2. px * avg.den \in Int /\ px * avg.den - avg.num \in Int
      BY <1>1
    <3>3. Worth(Minus(Whole(px), avg), px * avg.den - avg.num, avg.den)
      BY <1>1, <3>1, <3>2, PlusWorth
    <3>4. Worth(Times(Minus(Whole(px), avg), pos.net_qty),
                (px * avg.den - avg.num) * pos.net_qty, avg.den)
      BY <1>1, <3>2, <3>3, TimesWorth
    <3> QED
      BY <2>2, <3>4
  <2> QED
    BY <2>1, <2>2
<1>3. Valued(pos, px) = [pos EXCEPT !.unrealized_pnl = value]
  BY DEF Valued
<1>4. value \in Fractions
  BY <1>2 DEF Worth, IsFraction, Fractions
<1> HIDE DEF value
<1>5. /\ Valued(pos, px) \in Positions
      /\ Valued(pos, px).net_qty = pos.net_qty
      /\ Valued(pos, px).avg_price = avg
      /\ Valued(pos, px).realized_pnl = pos.realized_pnl
      /\ Valued(pos, px).unrealized_pnl = value
  BY <1>3, <1>4 DEF Positions
<1> QED
  BY <1>2, <1>5 DEF ValuedAt

\* Averaging in moves as much into the carried value as it costs, over any denominator.
LEMMA IncreaseAlgebra ==
    ASSUME NEW a \in Int, NEW d \in Int, NEW c \in Int, NEW open \in Int, NEW size \in Int,
           NEW px \in Int, NEW qty \in Int, NEW s \in Int
    PROVE  (c * d + a * (s * open)) * size
               = (c - s * qty * px) * (d * size) + (a * open + px * qty * d) * (s * size)
  OBVIOUS

\* A fill on the side of the position costs what it adds to the position.
LEMMA IncreasedBalanced ==
    ASSUME NEW pos \in Positions, IsFraction(pos.avg_price), NEW c \in Int, Balanced(pos, c),
           NEW side \in {"BUY", "SELL"}, NEW qty \in Nat \ {0}, NEW px \in Nat \ {0},
           Adding(pos, side)
    PROVE  LET moved == Increased(pos, side, qty, px)
           IN  /\ moved \in Positions /\ IsFraction(moved.avg_price) /\ moved.net_qty # 0
               /\ Balanced(moved, c - Signed(side, qty) * px)
<1> DEFINE net == pos.net_qty
           avg == pos.avg_price
           a == avg.num
           d == avg.den
           open == Magnitude(net)
           after == net + Signed(side, qty)
           size == Magnitude(after)
           cost == Plus(Times(avg, open), Whole(px * qty))
           paid == c - Signed(side, qty) * px
           moved == Increased(pos, side, qty, px)
<1>1. a \in Int /\ d \in Nat \ {0} /\ net \in Int /\ Worth(avg, a, d)
  BY DEF IsFraction, Positions, Worth
<1>2. PICK s \in {1, -1} : Signed(side, qty) = s * qty /\ net = s * open /\ open \in Nat
  BY <1>1 DEF Adding, Sign, Signed, Magnitude
<1>3. after = s * size /\ size = open + qty /\ size \in Nat \ {0} /\ after \in Int /\ after # 0
  BY <1>1, <1>2 DEF Magnitude
<1>4. px * qty \in Int /\ paid \in Int /\ paid = c - s * qty * px
  BY <1>2
<1> HIDE DEF open, size
<1>5. Worth(cost, a * open + px * qty * d, d)
  <2>1. Worth(Times(avg, open), a * open, d)
    BY <1>1, <1>2, TimesWorth
  <2>2. Worth(Whole(px * qty), px * qty * d, d)
    BY <1>1, <1>4, WholeWorth
  <2>3. a * open \in Int /\ px * qty * d \in Int
    BY <1>1, <1>2, <1>4
  <2> QED
    BY <1>1, <2>1, <2>2, <2>3, PlusWorth
<1> DEFINE n == a * open + px * qty * d
           e == d * size
           price == Over(cost, size)
<1>6. n \in Int /\ e \in Nat \ {0}
  <2>1. a * open \in Int /\ (px * qty) * d \in Int
    BY <1>1, <1>2, <1>4
  <2>2. e \in Nat \ {0}
    BY <1>1, <1>3
  <2> QED
    BY <2>1, <2>2
<1>7. Worth(price, n, e)
  BY <1>1, <1>3, <1>5, <1>6, TimesWorth
<1>8. moved = [pos EXCEPT !.net_qty = after, !.avg_price = price]
  BY DEF Increased, open, size
<1> HIDE DEF cost, price, moved
<1>9. /\ moved \in Positions /\ moved.net_qty = after /\ moved.avg_price = price
      /\ moved.realized_pnl = pos.realized_pnl /\ IsFraction(price)
  <2>1. price \in Fractions /\ IsFraction(price)
    BY <1>7 DEF Worth, IsFraction, Fractions
  <2> QED
    BY <1>3, <1>8, <2>1 DEF Positions
<1>10. (c * d + a * net) * size = paid * e + n * after
  <2>1. (c * d + a * (s * open)) * size = (c - s * qty * px) * (d * size) + (a * open + px * qty * d) * (s * size)
    BY <1>1, <1>2, <1>3, IncreaseAlgebra
  <2> QED
    BY <1>2, <1>3, <1>4, <2>1
<1>11. Worth(pos.realized_pnl, paid * e + n * after, e)
  <2>1. Worth(pos.realized_pnl, c * d + a * net, d)
    BY DEF Balanced
  <2>2. c * d + a * net \in Int
    BY <1>1
  <2>3. Worth(pos.realized_pnl, (c * d + a * net) * size, d * size)
    BY <1>1, <1>3, <2>1, <2>2, Scaled
  <2> QED
    BY <1>10, <2>3
<1>12. Balanced(moved, paid)
  <2> HIDE DEF n, e, paid, after
  <2>1. Worth(pos.realized_pnl, paid * price.den + price.num * after, price.den)
    BY <1>3, <1>4, <1>6, <1>7, <1>11, Carried
  <2> QED
    BY <1>9, <2>1 DEF Balanced
<1> QED
  BY <1>3, <1>9, <1>12 DEF moved
\* Closing against the position realizes what the cash flow gains over the carried
\* value: when it is closed as far as the fill goes, and when it is turned over.
LEMMA ReduceAlgebra ==
    ASSUME NEW a \in Int, NEW d \in Int, NEW c \in Int, NEW open \in Int,
           NEW px \in Int, NEW qty \in Int, NEW s \in Int
    PROVE  /\ (c * d + a * (s * open)) + (px * d - a) * (qty * s)
                  = (c + s * qty * px) * d + a * (s * (open - qty))
           /\ (c * d + a * (s * open)) + (px * d - a) * (open * s)
                  = (c + s * qty * px) * d + (px * d) * (s * (open - qty))
  OBVIOUS

\* A fill against the position realizes what the cash flow gains by it.
LEMMA ReducedBalanced ==
    ASSUME NEW pos \in Positions, IsFraction(pos.avg_price), NEW c \in Int, Balanced(pos, c),
           NEW side \in {"BUY", "SELL"}, NEW qty \in Nat \ {0}, NEW px \in Nat \ {0},
           ~Adding(pos, side)
    PROVE  LET moved == Reduced(pos, side, qty, px)
           IN  /\ moved \in Positions /\ IsFraction(moved.avg_price)
               /\ moved.net_qty = 0 => moved.avg_price = Whole(0)
               /\ Balanced(moved, c - Signed(side, qty) * px)
<1> DEFINE net == pos.net_qty
           avg == pos.avg_price
           a == avg.num
           d == avg.den
           open == Magnitude(net)
           closing == Min({qty, open})
           after == net + Signed(side, qty)
           gain == Times(Minus(Whole(px), avg), closing * Sign(net))
           realized == Plus(pos.realized_pnl, gain)
           price == IF after = 0 THEN Whole(0) ELSE IF qty > closing THEN Whole(px) ELSE avg
           paid == c - Signed(side, qty) * px
           moved == Reduced(pos, side, qty, px)
<1>1. a \in Int /\ d \in Nat \ {0} /\ net \in Int /\ Worth(avg, a, d)
  BY DEF IsFraction, Positions, Worth
<1>2. PICK s \in {1, -1} : /\ Signed(side, qty) = -(s * qty) /\ Sign(net) = s
                           /\ net = s * open /\ open \in Nat \ {0}
  BY <1>1 DEF Adding, Sign, Signed, Magnitude
<1>3. after = s * (open - qty) /\ after \in Int
  BY <1>1, <1>2
<1>4. paid \in Int /\ paid = c + s * qty * px
  BY <1>2
<1> HIDE DEF open
<1>5. closing = IF qty > open THEN open ELSE qty
  <2>1. {qty, open} \subseteq Int /\ {qty, open} # {} /\ IsFiniteSet({qty, open})
    <3>1. IsFiniteSet({qty}) /\ {qty, open} = {qty} \cup {open}
      BY FS_Singleton
    <3>2. IsFiniteSet({qty, open})
      BY <3>1, FS_AddElement
    <3> QED
      BY <1>2, <3>2
  <2>2. closing = Min({qty, open})
    BY DEF Min, Min
  <2>3. Min({qty, open}) \in {qty, open} /\ \A x \in {qty, open} : Min({qty, open}) <= x
    BY <2>1, MinMax
  <2> QED
    BY <1>2, <2>2, <2>3
<1> HIDE DEF closing
<1> DEFINE r == c * d + a * net
           g == (px * d - a) * (closing * s)
<1>6. closing * s \in Int /\ px * d \in Int /\ r \in Int /\ g \in Int
  <2>1. closing \in Int
    BY <1>2, <1>5
  <2>2. closing * s \in Int /\ px * d \in Int /\ c * d \in Int /\ a * net \in Int
    BY <1>1, <1>2, <2>1
  <2>3. px * d - a \in Int
    BY <1>1, <2>2
  <2> QED
    BY <2>2, <2>3
<1>7. Worth(gain, g, d)
  <2>1. Worth(Whole(px), px * d, d)
    BY <1>1, WholeWorth
  <2>2. Worth(Minus(Whole(px), avg), px * d - a, d)
    BY <1>1, <1>6, <2>1, PlusWorth
  <2>3. px * d - a \in Int
    BY <1>1, <1>6
  <2> QED
    BY <1>1, <1>2, <1>6, <2>2, <2>3, TimesWorth
<1> HIDE DEF gain
<1>8. Worth(realized, r + g, d)
  <2>1. Worth(pos.realized_pnl, r, d)
    BY DEF Balanced
  <2> HIDE DEF r, g
  <2> QED
    BY <1>1, <1>6, <1>7, <2>1, PlusWorth
<1>9. moved = [pos EXCEPT !.net_qty = after, !.realized_pnl = realized, !.avg_price = price]
  BY DEF Reduced, closing, gain, open
<1> HIDE DEF realized, moved
<1>10. PICK n \in Int : Worth(price, n, d) /\ r + g = paid * d + n * after
  <2>1. /\ closing = qty => r + g = paid * d + a * after
        /\ closing = open => r + g = paid * d + (px * d) * after
    <3>1. /\ (c * d + a * (s * open)) + (px * d - a) * (qty * s)
                 = (c + s * qty * px) * d + a * (s * (open - qty))
          /\ (c * d + a * (s * open)) + (px * d - a) * (open * s)
                 = (c + s * qty * px) * d + (px * d) * (s * (open - qty))
      <4>1. s \in Int /\ open \in Int /\ a \in Int /\ d \in Int
        BY <1>1, <1>2
      <4> HIDE DEF a, d
      <4> QED
        BY <4>1, ReduceAlgebra
    <3>2. net = s * open /\ after = s * (open - qty) /\ paid = c + s * qty * px
      BY <1>2, <1>3, <1>4
    <3> HIDE DEF net, after, paid
    <3> QED
      BY <3>1, <3>2
  <2>2. CASE after = 0
    <3>1. qty = open /\ closing = qty
      BY <1>2, <1>3, <1>5, <2>2
    <3>2. Worth(price, 0 * d, d)
      BY <1>1, <2>2, WholeWorth
    <3>3. r + g = paid * d + 0 * after
      BY <1>1, <1>4, <2>1, <2>2, <3>1
    <3>4. 0 * d = 0
      BY <1>1
    <3> QED
      BY <3>2, <3>3, <3>4
  <2>3. CASE after # 0 /\ qty > closing
    <3>1. closing = open
      BY <1>2, <1>5, <2>3
    <3>2. price = Whole(px)
      BY <2>3
    <3>3. Worth(Whole(px), px * d, d)
      BY <1>1, WholeWorth
    <3> HIDE DEF price
    <3> QED
      BY <1>6, <2>1, <3>1, <3>2, <3>3
  <2>4. CASE after # 0 /\ ~(qty > closing)
    <3>1. closing = qty
      BY <1>2, <1>5, <2>4
    <3>2. Worth(price, a, d)
      BY <1>1, <2>4
    <3> QED
      BY <1>1, <2>1, <3>1, <3>2
  <2> QED
    BY <2>2, <2>3, <2>4
<1>11. after = 0 => price = Whole(0)
  OBVIOUS
<1> HIDE DEF price
<1>12. /\ moved \in Positions /\ moved.net_qty = after /\ moved.avg_price = price
       /\ moved.realized_pnl = realized /\ IsFraction(price)
  <2>1. price \in Fractions /\ IsFraction(price) /\ realized \in Fractions
    BY <1>8, <1>10 DEF Worth, IsFraction, Fractions
  <2> QED
    BY <1>3, <1>9, <2>1 DEF Positions
<1>13. Balanced(moved, paid)
  <2>1. Worth(realized, paid * d + n * after, d)
    BY <1>8, <1>10
  <2> HIDE DEF paid, after
  <2>2. Worth(realized, paid * price.den + price.num * after, price.den)
    BY <1>1, <1>3, <1>4, <1>10, <2>1, Carried
  <2> QED
    BY <1>12, <2>2 DEF Balanced
<1> QED
  BY <1>11, <1>12, <1>13 DEF moved

\* The books are balanced at the start, when nothing was traded.
LEMMA FlatBalanced == AccountsInit => AInv
<1> SUFFICES ASSUME AccountsInit PROVE AInv
  OBVIOUS
<1>1. position = Flat /\ market = 0 /\ mark = 0 /\ cash = 0
  BY DEF AccountsInit
<1>2. Whole(0) = [num |-> 0, den |-> 1]
  BY DEF Whole
<1>3. IsFraction(Whole(0)) /\ Whole(0) \in Fractions
  BY <1>2 DEF IsFraction, Fractions
<1>4. /\ position \in Positions /\ position.net_qty = 0 /\ position.avg_price = Whole(0)
      /\ position.realized_pnl = Whole(0) /\ position.unrealized_pnl = Whole(0)
  BY <1>1, <1>3 DEF Flat, Positions
<1>5. Worth(Whole(0), 0, 1)
  BY <1>2, <1>3 DEF Worth
<1> QED
  BY <1>1, <1>2, <1>3, <1>4, <1>5 DEF AInv, Balanced, ValuedAt

\* A fill keeps the books balanced and leaves the position valued.
LEMMA FillBalanced ==
    ASSUME AInv, NEW side \in {"BUY", "SELL"}, NEW qty \in Nat \ {0}, NEW px \in Nat \ {0},
           OnFill(side, qty, px)
    PROVE  AInv'
<1> DEFINE moved == IF Adding(position, side) THEN Increased(position, side, qty, px)
                                                  ELSE Reduced(position, side, qty, px)
           paid == cash - Signed(side, qty) * px
           at == IF market # 0 THEN market ELSE px
<1>1. position' = Valued(moved, at) /\ cash' = paid /\ mark' = at /\ market' = market
  BY DEF OnFill
<1>2. /\ position \in Positions /\ IsFraction(position.avg_price) /\ cash \in Int
      /\ Balanced(position, cash) /\ market \in Int
  BY DEF AInv
<1>3. paid \in Int /\ at \in Int
  BY <1>2 DEF Signed
<1>4. /\ moved \in Positions /\ IsFraction(moved.avg_price)
      /\ moved.net_qty = 0 => moved.avg_price = Whole(0)
      /\ Balanced(moved, paid)
  BY <1>2, IncreasedBalanced, ReducedBalanced
<1> HIDE DEF moved, paid, at
<1>5. /\ position' \in Positions /\ position'.net_qty = moved.net_qty
      /\ position'.avg_price = moved.avg_price /\ position'.realized_pnl = moved.realized_pnl
      /\ ValuedAt(position', at)
  BY <1>1, <1>3, <1>4, ValuedWorth
<1> QED
  BY <1>1, <1>2, <1>3, <1>4, <1>5 DEF AInv, Balanced

\* A new price changes no more than the value of what is open.
LEMMA MarkBalanced ==
    ASSUME AInv, NEW px \in Nat \ {0}, UpdateMarketPrice(px)
    PROVE  AInv'
<1>1. position' = Valued(position, px) /\ cash' = cash /\ mark' = px /\ market' = px
  BY DEF UpdateMarketPrice
<1>2. /\ position \in Positions /\ IsFraction(position.avg_price) /\ cash \in Int
      /\ Balanced(position, cash) /\ position.net_qty = 0 => position.avg_price = Whole(0)
  BY DEF AInv
<1>3. /\ position' \in Positions /\ position'.net_qty = position.net_qty
      /\ position'.avg_price = position.avg_price /\ position'.realized_pnl = position.realized_pnl
      /\ ValuedAt(position', px)
  BY <1>1, <1>2, ValuedWorth
<1> QED
  BY <1>1, <1>2, <1>3 DEF AInv, Balanced

\* The inductive invariant of the accounts: for any positive prices and quantities
\* the books balance and what is open is valued at the latest price (on_fill,
\* update_market_price).
THEOREM AccountsInvariance == AccountsSpec => []AInv
<1>1. AInv /\ UNCHANGED accounts => AInv'
  BY DEF AInv, accounts, Balanced, ValuedAt
<1>2. AInv /\ [AccountsNext]_(accounts) => AInv'
  BY <1>1, FillsAssumption, FillBalanced, MarkBalanced DEF AccountsNext
<1> QED
  BY <1>2, FlatBalanced, PTL DEF AccountsSpec

\* No sequence of fills, with any mix of adding, closing and turning over, creates
\* or loses money (on_fill).
THEOREM ProfitIsCashFlow == AccountsSpec => []RealizedIsCashFlow
<1>1. AInv => RealizedIsCashFlow
  <2> SUFFICES ASSUME AInv PROVE RealizedIsCashFlow
    OBVIOUS
  <2> DEFINE avg == position.avg_price
             net == position.net_qty
             a == avg.num
             d == avg.den
  <2>1. a \in Int /\ d \in Nat \ {0} /\ net \in Int /\ cash \in Int /\ Worth(avg, a, d)
    BY DEF AInv, IsFraction, Positions, Worth
  <2>2. Worth(position.realized_pnl, cash * d + a * net, d)
    BY DEF AInv, Balanced
  <2>3. cash * d \in Int /\ a * net \in Int
    BY <2>1
  <2>4. Worth(Plus(Whole(cash), Times(avg, net)), cash * d + a * net, d)
    <3>1. Worth(Whole(cash), cash * d, d)
      BY <2>1, WholeWorth
    <3>2. Worth(Times(avg, net), a * net, d)
      BY <2>1, TimesWorth
    <3> QED
      BY <2>1, <2>3, <3>1, <3>2, PlusWorth
  <2>5. cash * d + a * net \in Int
    BY <2>3
  <2>6. position.realized_pnl = Plus(Whole(cash), Times(avg, net))
    BY <2>1, <2>2, <2>4, <2>5, SameWorth
  <2> QED
    BY <2>6 DEF RealizedIsCashFlow
<1> QED
  BY <1>1, AccountsInvariance, PTL

\* Realized and unrealized profit together are what selling out at the latest price
\* would leave (on_fill, update_market_price, total_pnl).
THEOREM ProfitIsMarkToMarket == AccountsSpec => []PnlIsMarkToMarket
<1>1. AInv => PnlIsMarkToMarket
  <2> SUFFICES ASSUME AInv PROVE PnlIsMarkToMarket
    OBVIOUS
  <2> DEFINE avg == position.avg_price
             net == position.net_qty
             a == avg.num
             d == avg.den
             x == cash * d + a * net
             y == (mark * d - a) * net
             total == cash + mark * net
  <2>1. a \in Int /\ d \in Nat \ {0} /\ net \in Int /\ cash \in Int /\ mark \in Int
    BY DEF AInv, IsFraction, Positions
  <2>2. Worth(position.realized_pnl, x, d) /\ Worth(position.unrealized_pnl, y, d)
    BY DEF AInv, Balanced, ValuedAt
  <2> HIDE DEF a, d, net
  <2>3. x \in Int /\ y \in Int /\ total \in Int
    <3>1. mark * d - a \in Int /\ cash * d \in Int /\ a * net \in Int
      BY <2>1
    <3> QED
      BY <2>1, <3>1
  <2>4. x + y = total * d
    BY <2>1
  <2> HIDE DEF x, y, total
  <2>5. Worth(Plus(position.realized_pnl, position.unrealized_pnl), x + y, d)
    BY <2>1, <2>2, <2>3, PlusWorth
  <2>6. Worth(Whole(total), total * d, d) /\ total * d \in Int
    BY <2>1, <2>3, WholeWorth
  <2>7. Plus(position.realized_pnl, position.unrealized_pnl) = Whole(total)
    BY <2>1, <2>4, <2>5, <2>6, SameWorth
  <2> QED
    BY <2>7 DEF PnlIsMarkToMarket, total, net
<1> QED
  BY <1>1, AccountsInvariance, PTL
=============================================================================
