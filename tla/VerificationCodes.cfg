SPECIFICATION MCSpec
CONSTANTS
    Clients = {c1, c2}
    MaxEvents <- MCMaxEvents
    WindowOf <- MCWindowOf
    MaxClock = 3
    CodeTTL = 2
    Cooldown = 1
    SendWindow = 3
    SendsPerWindow = 2
    MaxAttempts = 2
    MaxCrashes = 1
INVARIANTS
    TypeOK
    LimitsHold
    CodesHold
    WaitIsEnough
SYMMETRY MCSymmetry
CHECK_DEADLOCK FALSE
