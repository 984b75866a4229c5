SPECIFICATION Spec
CONSTANTS
    BlockOrder <- MCBlockOrder
    Commits <- MCCommits
    Values = {"x", "y"}
    Panels <- MCPanels
    NoValue = NoValue
    MaxOthers = 0
    MaxEdits = 0
INVARIANTS
    NoFalseAlarm
CHECK_DEADLOCK FALSE
