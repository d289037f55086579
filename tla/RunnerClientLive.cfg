CONSTANTS
    Requests = {q1}
    Digests = {d1}
    Objects = {1, 2}
    Nothing = Nothing
    MaxConcurrentRuns = 1
    DedupRingSize = 1
    MaxPendingPerRun = 2
    LogMayWedge = FALSE
    LateRedelivery = FALSE
SPECIFICATION FairSpec
PROPERTIES
    ResultAcknowledged
    ShutdownCompletes
