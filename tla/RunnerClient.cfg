CONSTANTS
    Requests = {q1, q2}
    Digests = {d1}
    Objects = {1, 2, 3}
    Nothing = Nothing
    MaxConcurrentRuns = 1
    DedupRingSize = 1
    MaxPendingPerRun = 2
    LogMayWedge = TRUE
    LateRedelivery = FALSE
SPECIFICATION Spec
SYMMETRY Symmetry
INVARIANTS
    TypeOK
    AtMostOnce
    OneOutcome
    ReservationOwned
    CancelHolds
    TruthfulRefusal
