SPECIFICATION Spec
CONSTANTS
    BlockOrder <- MCBlockOrder
    Commits <- MCCommits
    Values = {"x", "y"}
    Panels <- MCPanels
    NoValue = NoValue
    MaxOthers = 1
    MaxEdits = 2
INVARIANTS
    TypeOK
    HonestBlocksMatch
    ProofsVerify
    ThreeWaysShowEveryEdit
    ConformanceIsWitnessed
CHECK_DEADLOCK FALSE
