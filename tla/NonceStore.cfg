CONSTANTS
    n1 = n1
    n2 = n2
    n3 = n3
    Nonces = {n1, n2, n3}
    Issued <- MCIssued
    Checks = {c1, c2}
    Nothing = Nothing
    Ages = {1, 2}
    MaxEntries = 2
    MaxRecords = 2
    CompactAfter = 2
    Horizon = 4
    JournaledRename = FALSE
SPECIFICATION Spec
CONSTRAINT NoOrphan
INVARIANTS
    TypeOK
    AcceptedOnce
    FreshRemembered
    JournalReadable
