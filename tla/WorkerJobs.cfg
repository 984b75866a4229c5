SPECIFICATION MCSpec
CONSTANTS
    Workers = {w1, w2}
    Jobs <- MCJobs
    Anchors = {1, 2, 3}
    Unparseable = {2}
    FailureRuns = 3
    MaxFaults = 3
INVARIANTS
    TypeOK
    JobsHold
PROPERTIES
    TamperingAlarms
