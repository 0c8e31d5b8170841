--------------------------- MODULE MCEngineSession --------------------------
(* TLC instance of EngineSession.                                          *)
EXTENDS EngineSession

Ask(side, type, qty) ==
    [side |-> side, type |-> type, price |-> IF type = "MARKET" THEN 0 ELSE 1,
     qty |-> qty, filled_qty |-> 0, status |-> "PENDING"]

Asks == {Ask("BUY", "LIMIT", 1), Ask("SELL", "LIMIT", 2), Ask("SELL", "MARKET", 1),
         Ask("BUY", "IOC", 2)}

Loose == [max_order_qty |-> 2, max_position |-> 2, max_notional |-> 2,
          max_orders_per_sec |-> 1, enabled |-> TRUE]

Body(q, pos, not, rate) ==
    [max_order_qty |-> q, max_position |-> pos, max_notional |-> not, max_orders_per_sec |-> rate]

\* One that is tighter, and one that is looser and goes wrong at its last field.
Bodies == {Body(2, 1, 2, 1), Body(2, 3, 2, Bad)}

\* The first symbol is behind in the feed.
Ticks == <<[symbol |-> "GOOG", last_price |-> 1], [symbol |-> "AAPL", last_price |-> 2],
           [symbol |-> "GOOG", last_price |-> 3]>>
=============================================================================
