SPECIFICATION Spec
CONSTANTS
    Replicas = {r1, r2}
    NoNotice = NoNotice
    Milestones = {m1}
    Channels = {"sms", "email"}
    MaxAttempts = 2
    BatchSize = 1
    MaxCrashes = 1
    MaxChanges = 1
INVARIANTS
    TypeOK
    DuplicatesAreExplained
PROPERTIES
    SettledOrWithdrawnIsOver
    EveryNoticeSettles
