------------------------- MODULE MCExchangeSimulator ------------------------
(* TLC instance of ExchangeSimulator.                                      *)
EXTENDS ExchangeSimulator

\* The largest order is too large from flat, but not from the other side.
TwoLimits == [max_order_qty |-> 2, max_position |-> 1, max_notional |-> 2,
              max_orders_per_sec |-> 1, enabled |-> TRUE]
OneLimits == [TwoLimits EXCEPT !.max_order_qty = 1]
=============================================================================
