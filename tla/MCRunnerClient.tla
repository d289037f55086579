--------------------------- MODULE MCRunnerClient ---------------------------
(* Instances of RunnerClient for TLC. *)
EXTENDS RunnerClient, TLC

\* Request ids are interchangeable.
Symmetry == Permutations(Requests)

\* Bound: the backlog run follows a control plane that is slow to answer, with
\* neither acknowledgements nor cancels, up to the first shutdown.
Backlog ==
    /\ settled = {} /\ finalizeRetries = {} /\ preCanceled = << >>
    /\ ~ closing

\* Bound: the run on the cap leaves cancels, finalize retries and
\* shutdowns to the others.
Steady == preCanceled = << >> /\ finalizeRetries = {} /\ ~ closing

\* Bound: the control plane acknowledges one id only, which it may then redeliver.
OneSettled == Cardinality(settled) <= 1

\* Bound: every dispatch decodes.
Decodable ==
    \A o \in Objects : heap[o] = Nothing \/ ~ Contains(heap[o].pending, "undecodable")
=============================================================================
