--------------------------- MODULE DispatchLedger ---------------------------
(***************************************************************************)
(* What the durable dispatch log promises its callers, without files,      *)
(* crashes or errors: between two acknowledgements a request is granted    *)
(* one execution and has one result.  A call that is refused, for whatever *)
(* reason, changes nothing here.                                           *)
(***************************************************************************)
EXTENDS Naturals

CONSTANTS Requests, Results, Nothing

VARIABLES
    granted,   \* executions granted to each request since its last acknowledgement
    reported   \* result reported for it, until it is acknowledged

\* An older release may have granted requests and reported results.
LedgerInit ==
    /\ granted \in [Requests -> {0, 1}]
    /\ reported \in [Requests -> Results \cup {Nothing}]
    /\ \A q \in Requests : reported[q] # Nothing => granted[q] = 1

\* dedupRing.reserve returned a reservation: the caller may execute.
Grant(q) ==
    /\ granted[q] = 0 /\ reported[q] = Nothing
    /\ granted' = [granted EXCEPT ![q] = 1]
    /\ UNCHANGED reported

\* dedupRing.complete returned: the result is the request's.
Report(q, r) ==
    /\ reported[q] = Nothing
    /\ reported' = [reported EXCEPT ![q] = r]
    /\ UNCHANGED granted

\* The control plane has the result.
Settle(q) ==
    /\ granted' = [granted EXCEPT ![q] = 0]
    /\ reported' = [reported EXCEPT ![q] = Nothing]

LedgerNext ==
    \E q \in Requests : Grant(q) \/ Settle(q) \/ \E r \in Results : Report(q, r)

LedgerSpec == LedgerInit /\ [][LedgerNext]_<<granted, reported>>
=============================================================================
