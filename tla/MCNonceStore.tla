---------------------------- MODULE MCNonceStore ----------------------------
(* Instance of NonceStore for TLC. *)
EXTENDS NonceStore, TLC

CONSTANTS n1, n2, n3

\* n1 is fresh from the start; n3 is issued ahead of the clock.
MCIssued == (n1 :> 0) @@ (n2 :> 0) @@ (n3 :> 2)

\* Once a rename was orphaned the properties are waived.
NoOrphan == ~ orphaned
=============================================================================
