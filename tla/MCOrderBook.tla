----------------------------- MODULE MCOrderBook ----------------------------
(* TLC instance of OrderBook, with the history of what each call promised.  *)
EXTENDS OrderBookRefinement

\* Order ids are interchangeable: the book compares them for equality only.
IdSymmetry == Permutations(OrderIds)
=============================================================================
