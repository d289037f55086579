CONSTANTS
    MaxImages = 2
    q1 = q1
    q2 = q2
    q3 = q3
    Requests = {q1, q2, q3}
    Digests = {d1}
    Results = {r1}
    Nothing = Nothing
    LegacyDigest = LegacyDigest
    LegacyResult = LegacyResult
    LegacyKeys <- MCLegacyKeys
    LegacyRecords <- MCLegacyRecords
    RingMax = 2
    CompactAfter = 2
    JournaledRename = FALSE
SPECIFICATION Spec
CONSTRAINT OneOrphan
INVARIANTS
    AtMostOnce
    ResultDurable
    ReplayAccepts
    RingSound
