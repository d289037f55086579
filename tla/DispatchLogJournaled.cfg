CONSTANTS
    MaxImages = 1
    q1 = q1
    q2 = q2
    q3 = q3
    Requests = {q1, q2}
    Digests = {d1}
    Results = {r1}
    Nothing = Nothing
    LegacyDigest = LegacyDigest
    LegacyResult = LegacyResult
    LegacyKeys <- TwoLegacyKeys
    LegacyRecords <- TwoLegacyRecords
    RingMax = 1
    CompactAfter = 1
    JournaledRename = TRUE
SPECIFICATION FairSpec
PROPERTY
    CallReturns
    ImplementsLedger
INVARIANT
    AtMostOnceAcrossCrashes
