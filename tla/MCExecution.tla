---------------------------- MODULE MCExecution ----------------------------
(* The instance of Execution for TLC.  The descendants are interchangeable, but *)
(* no symmetry is declared, because the run checks RunReturns.                  *)
EXTENDS Execution
=============================================================================
