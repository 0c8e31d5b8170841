----------------------------- MODULE RateLimiter ----------------------------
(***************************************************************************)
(* RiskManager::check_order as a state machine (src/src/risk/              *)
(* risk_manager.cpp): the sliding window of approvals and the limits that  *)
(* set_limits replaces at any time.  check_order holds the mutex, so each  *)
(* call is one step; the clock may move between its two readings.          *)
(*                                                                         *)
(* Time is in fractions of a second: Second of them make one.  now_ns is   *)
(* taken not to step back.                                                 *)
(***************************************************************************)
EXTENDS RiskChecks, SequencesExt

CONSTANTS
    Second,         \* clock units in the window
    LimitChoices,   \* the limits an operator sets
    Requests,       \* the orders checked, [side, type, price, qty]
    MaxTime,        \* bound: the clock's last reading
    MaxApprovals    \* bound: approvals in a behaviour

ASSUME SecondAssumption == Second \in Nat \ {0}
ASSUME LimitChoicesAssumption == LimitChoices \subseteq Limits
ASSUME BoundsAssumption == MaxTime \in Nat /\ MaxApprovals \in Nat

VARIABLES
    limits,         \* limits_
    timestamps,     \* order_timestamps_ns_
    clock,          \* the clock's reading
    result,         \* the RiskRejectReason last returned
    approvals       \* history: each approval, with its time, whether the
                    \* limits were enabled, and the rate they allowed

vars == <<limits, timestamps, clock, result, approvals>>

Init ==
    /\ limits \in LimitChoices
    /\ timestamps = << >>
    /\ clock = 0
    /\ result = "NONE"
    /\ approvals = << >>

\* Mutant of Recent: a timestamp just a second old is dropped.
RecentOpen(stamps, now) ==
    LET kept == {i \in DOMAIN stamps : stamps[i] > now - Second}
    IN  IF kept = {} THEN << >> ELSE SubSeq(stamps, Min(kept), Len(stamps))

\* orders_in_last_second's loop: the front is popped while it is older than
\* a second, so the deque goes on from its first timestamp that is not.
Recent(stamps, now) ==
    LET kept == {i \in DOMAIN stamps : stamps[i] >= now - Second}
    IN  IF kept = {} THEN << >> ELSE SubSeq(stamps, Min(kept), Len(stamps))

Approve(stamps, later) ==
    /\ Len(approvals) < MaxApprovals
    /\ timestamps' = Append(stamps, later)
    /\ result' = "NONE"
    /\ approvals' = Append(approvals, [at |-> later, enabled |-> limits.enabled,
                                       rate |-> limits.max_orders_per_sec])

\* With the limits disabled nothing is checked, but the time is recorded.
CheckDisabled(later) ==
    /\ ~limits.enabled
    /\ Approve(timestamps, later)

\* A check before the rate check fails: the window is not even pruned.
CheckObjects(o, market, net) ==
    /\ limits.enabled
    /\ result' = Objection(limits, o, market, net)
    /\ result' # "NONE"
    /\ UNCHANGED <<timestamps, approvals>>

\* Mutant of CheckRate: a throttled order's time is recorded as well.
CheckRateCountingRejects(o, market, net, later) ==
    /\ limits.enabled
    /\ Objection(limits, o, market, net) = "NONE"
    /\ LET recent == Recent(timestamps, clock)
       IN  \/ /\ Len(recent) >= limits.max_orders_per_sec
              /\ result' = "MAX_ORDER_RATE"
              /\ timestamps' = Append(recent, later)
              /\ UNCHANGED approvals
           \/ /\ Len(recent) < limits.max_orders_per_sec
              /\ Approve(recent, later)

\* The window is pruned at the first reading of the clock, and the approval
\* recorded at the second.
CheckRate(o, market, net, later) ==
    /\ limits.enabled
    /\ Objection(limits, o, market, net) = "NONE"
    /\ LET recent == Recent(timestamps, clock)
       IN  \/ /\ Len(recent) >= limits.max_orders_per_sec
              /\ result' = "MAX_ORDER_RATE"
              /\ timestamps' = recent
              /\ UNCHANGED approvals
           \/ /\ Len(recent) < limits.max_orders_per_sec
              /\ Approve(recent, later)

CheckOrder(o, market, net) ==
    \E later \in clock .. MaxTime :
        /\ clock' = later
        /\ CheckDisabled(later) \/ CheckObjects(o, market, net) \/ CheckRate(o, market, net, later)
        /\ UNCHANGED limits

SetLimits(new) ==
    /\ new # limits
    /\ limits' = new
    /\ UNCHANGED <<timestamps, clock, result, approvals>>

TimePasses ==
    /\ clock < MaxTime
    /\ clock' = clock + 1
    /\ UNCHANGED <<limits, timestamps, result, approvals>>

Next ==
    \/ \E o \in Requests, market \in {0, 1}, net \in {0, 1} : CheckOrder(o, market, net)
    \/ \E new \in LimitChoices : SetLimits(new)
    \/ TimePasses

Spec == Init /\ [][Next]_vars
-----------------------------------------------------------------------------
Within(from, to) == {i \in DOMAIN approvals : approvals[i].at \in from .. to}

\* When an order is approved under limits, no second that ends with it holds
\* more approvals than they allow: whatever was pruned before, whenever the
\* limits changed, and with the orders let through while they were disabled
\* counted (orders_in_last_second, check_order).
RateBounded ==
    \A i \in DOMAIN approvals :
        approvals[i].enabled =>
            Cardinality({j \in Within(approvals[i].at - Second, approvals[i].at) : j <= i})
                <= approvals[i].rate

\* An order is turned away for its rate only when the allowed number was
\* really approved in the second before: rejected orders use nothing up, and
\* no approval outlives its second (check_order: "only count
\* approved orders toward the rate limit").
NoFalseThrottle ==
    [][result' = "MAX_ORDER_RATE" /\ result # result' =>
           Cardinality(Within(clock - Second, clock)) >= limits.max_orders_per_sec]_vars
=============================================================================
