CONSTANTS
    Streams = {out, err}
    Nothing = Nothing
    MaxPendingPerRun = 2
    MaxChunk = 2
    MaxPieces = 4
SPECIFICATION Spec
INVARIANTS
    TypeOK
    VerdictRight
    OneTextPerSeq
    AnnouncedFirst
