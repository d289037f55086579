CONSTANTS
    Requests = {q1, q2}
    Digests = {d1}
    Objects = {1, 2, 3}
    Nothing = Nothing
    MaxConcurrentRuns = 1
    DedupRingSize = 2
    MaxPendingPerRun = 1
    LogMayWedge = FALSE
    LateRedelivery = TRUE
SPECIFICATION Spec
SYMMETRY Symmetry
CONSTRAINTS Steady Decodable OneSettled
INVARIANT
    CapRespected
