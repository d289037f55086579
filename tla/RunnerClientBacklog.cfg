CONSTANTS
    Requests = {q1, q2, q3, q4}
    Digests = {d1, d2}
    Objects = {1, 2, 3, 4}
    Nothing = Nothing
    MaxConcurrentRuns = 1
    DedupRingSize = 1
    MaxPendingPerRun = 1
    LogMayWedge = FALSE
    LateRedelivery = FALSE
SPECIFICATION Spec
SYMMETRY Symmetry
CONSTRAINT Backlog
INVARIANT
    RunsBounded
