\* One run under way at a runner with one slot, one to come, one fault.
SPECIFICATION Spec
CONSTANTS
    MaxRun = 2
    MaxConcurrentRuns = 1
    Running <- FirstUnderWay
    MaxConnection = 2
    MaxFaults = 1
INVARIANT TypeOK
INVARIANT AtMostOnce
INVARIANT AckedMeansSettled
INVARIANT NeverRanHolds
CONSTRAINT Narrow
CHECK_DEADLOCK FALSE
