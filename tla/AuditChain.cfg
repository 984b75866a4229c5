SPECIFICATION ChainSpec
CONSTANTS
    Writers = {w1, w2, w3}
    NoWriter = NoWriter
    Bodies = {"a", "b"}
    MaxId = 4
    MaxAppends = 2
INVARIANTS
    ChainTypeOK
    ChainVerifies
    GapsAreBurned
PROPERTIES
    AppendOnly
    AppendersFinish
