SPECIFICATION Safety
CONSTANTS
    Requests = {r1, r2}
    NoRequest = NoRequest
    Keys = {k1}
    b1 = b1
    b2 = b2
    Batches = {b1, b2}
    Details = {"x"}
    Endpoints = {"HARVESTED"}
    Begun <- MCAllCreated
    MaxCrashes = 0
INVARIANTS
    ReplayIsForTheSameBatch
CHECK_DEADLOCK FALSE
