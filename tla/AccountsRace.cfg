SPECIFICATION Safety
CONSTANTS
    Requests = {r1, r2}
    NUsers = 3
    Window = 1
    Lifetime = 2
    MaxClock = 2
PROPERTIES
    OtherDevicesSignedOut
CHECK_DEADLOCK FALSE
