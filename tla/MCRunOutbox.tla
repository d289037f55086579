---------------------------- MODULE MCRunOutbox ----------------------------
(* Instances of RunOutbox for TLC. *)
EXTENDS RunOutbox
=============================================================================
