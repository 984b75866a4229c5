SPECIFICATION Spec
CONSTANTS
    Writers = {w1, w2}
    NoWriter = NoWriter
    Bodies = {"a"}
    MaxId = 3
    MaxAppends = 2
    Replicas = {r1, r2}
    NoReplica = NoReplica
    MaxRows = 2
    Grace = 1
    MaxCrashes = 1
INVARIANTS
    AnchorTypeOK
    CoveredOnce
    RootsStand
PROPERTIES
    WitnessesPrefix
    EventuallyWitnessed
