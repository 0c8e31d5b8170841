----------------------------- MODULE MCBacktest -----------------------------
(* TLC instance of Backtest.                                               *)
EXTENDS Backtest, TLC

\* Ids are compared for equality only.
IdSymmetry == Permutations(OrderIds)
=============================================================================
