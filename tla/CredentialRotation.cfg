CONSTANTS
    b1 = b1
    b2 = b2
    r1 = r1
    r2 = r2
    Bridges = {b1, b2}
    Requests = {r1, r2}
    Owner <- MCOwner
    Stored = FALSE
    MaxKey = 2
    MaxFaults = 1
    MaxLate = 1
SPECIFICATION LiveSpec
CONSTRAINT RefusedOrLate
INVARIANTS
    TypeOK
    WorkingKeySaved
    
PROPERTIES
    KeysMoveForward
    
