CONSTANTS
    Leader = leader
    Descendants = {c1, c2}
    Streams = {out}
    Limit = 1
    MaxPieces = 2
SPECIFICATION LiveSpec
INVARIANTS
    TypeOK
    GroupEnds
    SuccessShowsAll
PROPERTY
    RunReturns
CHECK_DEADLOCK FALSE
