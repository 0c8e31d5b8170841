---------------------------- MODULE MCHttpServer ----------------------------
(* TLC instance of HttpServer.                                             *)
EXTENDS HttpServer

Tight == [max_order_qty |-> 1, max_position |-> 1]
Body(qty, position) == <<[name |-> "max_order_qty", value |-> qty],
                         [name |-> "max_position", value |-> position]>>
Bodies == {Body(2, 2), Body(3, Bad)}
=============================================================================
