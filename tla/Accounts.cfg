SPECIFICATION Safety
CONSTANTS
    Requests = {r1, r2, r3}
    NUsers = 3
    Window = 1
    Lifetime = 2
    MaxClock = 2
INVARIANTS
    TypeOK
    OneLiveSuccessor
    AnAdminRemains
    OthersPasswordMustChange
    AdminChangesQueue
PROPERTIES
    SessionsEndWithTheAccount
SYMMETRY MCSymmetry
CHECK_DEADLOCK FALSE
