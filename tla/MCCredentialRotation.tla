------------------------ MODULE MCCredentialRotation ------------------------
(* Instance of CredentialRotation for TLC. *)
EXTENDS CredentialRotation, TLC

CONSTANTS b1, b2, r1, r2

MCOwner == (r1 :> b1) @@ (r2 :> b2)

\* Bound: late requests are followed until a usable key is refused; a refused bridge
\* gets its answers in time.
RefusedOrLate == refused => late = {}
=============================================================================
