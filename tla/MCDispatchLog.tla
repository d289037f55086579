--------------------------- MODULE MCDispatchLog ---------------------------
(* Instances of DispatchLog for TLC. *)
EXTENDS DispatchLog

CONSTANTS q1, q2, q3,
          MaxImages   \* see OneOrphan

Reserved  == [state |-> "reserved", digest |-> CHOOSE d \in Digests : TRUE, result |-> Nothing]
Completed == [Reserved EXCEPT !.state = "completed", !.result = CHOOSE r \in Results : TRUE]

\* A log with more unfinished records than the ring has room for ...
MCLegacyKeys == <<q1, q2, q3>>
MCLegacyRecords ==
    [q \in Requests |-> IF q = q2 THEN Reserved ELSE IF q = q1 \/ q = q3 THEN Completed ELSE NoEntry]

\* ... and one with a v0.9 result that load cuts.
TwoLegacyKeys == <<q1, q2>>
TwoLegacyRecords == [q \in Requests |-> IF q = q1 THEN LegacyEntry ELSE IF q = q2 THEN Reserved ELSE NoEntry]

\* Bound: once a rename was orphaned the properties are waived, and only the
\* states with few crash images are followed further.
OneOrphan == orphaned => Cardinality(CrashImages) <= MaxImages
=============================================================================
