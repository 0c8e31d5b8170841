---------------------------- MODULE MCRiskManager ---------------------------
(* TLC instance of RateLimiter and PositionAccounting, the two halves of   *)
(* hft::RiskManager.  They share its mutex and no state (RiskChecks has    *)
(* the position any value), so each half moves while the other is as it    *)
(* began.                                                                  *)
EXTENDS RateLimiter, PositionAccounting

Loose == [max_order_qty |-> 3, max_position |-> 2, max_notional |-> 2,
          max_orders_per_sec |-> 3, enabled |-> TRUE]
Tight == [Loose EXCEPT !.max_order_qty = 1, !.max_orders_per_sec = 1]
Off == [Loose EXCEPT !.enabled = FALSE]

MCLimitChoices == {Loose, Tight, Off}

\* One order of each fate: approved, and rejected by each of the checks.
MCRequests ==
    LET Limit(price, qty) == [side |-> "BUY", type |-> "LIMIT", price |-> price, qty |-> qty]
    IN  {Limit(0, 1), Limit(1, 0), Limit(1, 1), Limit(1, 2), Limit(1, 3)}
            \cup {[side |-> "SELL", type |-> "MARKET", price |-> 0, qty |-> 2]}

HalvesInit == Init /\ AccountsInit
HalvesNext ==
    \/ AccountsInit /\ Next /\ UNCHANGED accounts
    \/ Init /\ AccountsNext /\ UNCHANGED vars
HalvesSpec == HalvesInit /\ [][HalvesNext]_<<vars, accounts>>
=============================================================================
