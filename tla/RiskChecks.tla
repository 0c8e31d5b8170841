------------------------------ MODULE RiskChecks -----------------------------
(***************************************************************************)
(* The checks of RiskManager::check_order (src/src/risk/risk_manager.cpp), *)
(* as a function of what they read: the limits, the order, the market      *)
(* price the caller passes in (0 for none), the symbol's net position and  *)
(* the number of orders approved in the last second.                       *)
(***************************************************************************)
EXTENDS Integers, Sequences, FiniteSetsExt

Limits == [max_order_qty : Int, max_position : Int, max_notional : Int,
           max_orders_per_sec : Int, enabled : BOOLEAN]

Absolute(n) == IF n < 0 THEN -n ELSE n

\* Mutant of Projected: the position held is checked, without the order.
ProjectedHeld(o, net) == net

Projected(o, net) == net + (IF o.side = "BUY" THEN o.qty ELSE -o.qty)

\* In the order they are made.  The first five read nothing but these
\* arguments; only an order that passes them has its rate looked at.
Checks(limits, o, market, net) ==
    << [fails |-> o.qty <= 0, reason |-> "INVALID_QTY"],
       [fails |-> o.type = "LIMIT" /\ o.price <= 0, reason |-> "INVALID_PRICE"],
       [fails |-> o.qty > limits.max_order_qty, reason |-> "MAX_ORDER_QTY"],
       [fails |-> (IF market > 0 THEN market ELSE o.price) * o.qty > limits.max_notional,
        reason |-> "MAX_NOTIONAL"],
       [fails |-> Absolute(Projected(o, net)) > limits.max_position, reason |-> "MAX_POSITION"] >>

\* Why the order is rejected before its rate is looked at, or "NONE".
Objection(limits, o, market, net) ==
    LET checks == Checks(limits, o, market, net)
        failed == {i \in DOMAIN checks : checks[i].fails}
    IN  IF failed = {} THEN "NONE" ELSE checks[Min(failed)].reason
=============================================================================
