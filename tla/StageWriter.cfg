SPECIFICATION Spec
CONSTANTS
    Requests = {r1, r2, r3}
    NoRequest = NoRequest
    Keys = {k1, k2}
    b1 = b1
    b2 = b2
    Batches = {b1, b2}
    Details = {"x"}
    Endpoints = {"CREATED", "HARVESTED"}
    Begun <- MCBegun
    MaxCrashes = 1
INVARIANTS
    TypeOK
    TrailTellsLifecycle
    OneWritePerKey
PROPERTIES
    RequestsEnd
    FollowsLifecycle
CHECK_DEADLOCK FALSE
