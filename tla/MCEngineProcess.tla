-------------------------- MODULE MCEngineProcess --------------------------
(* TLC instance of EngineProcess.                                          *)
EXTENDS EngineProcess
=============================================================================
