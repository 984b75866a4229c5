SPECIFICATION Spec
CONSTANTS
    f1 = f1
    f2 = f2
    bad = bad
    odd = odd
    Requests = {r1, r2, r3}
    Keys = {k1, k2}
    Files = {f1, f2, bad, odd}
    SizeOf <- MCSizeOf
    MaxFile = 2
    Quota = 2
    Accepted = {f1, f2, bad}
    Infected = {bad}
    MaxCrashes = 1
INVARIANTS
    TypeOK
    RowsHold
    OwnChoiceStands
SYMMETRY MCSymmetry
CHECK_DEADLOCK FALSE
