--------------------------- MODULE MCRunLifecycle ---------------------------
(* Instances of RunLifecycle for TLC. *)
EXTENDS RunLifecycle

\* The first run holds a slot of the runner.
FirstUnderWay == {1}

\* Bound: at most two portal processes are busy at once, few frames are on the way,
\* and nobody cancels the run that only holds the slot.
Narrow ==
    /\ Cardinality({p \in Processes : todo[p] # << >>}) =< 2
    /\ Len(mailbox) + Len(down) + Len(up) =< 2 /\ drains =< 1
    /\ \A r \in Running : status[r] # "cancelling"
=============================================================================
