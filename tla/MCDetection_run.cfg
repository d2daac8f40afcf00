SPECIFICATION Spec
CONSTANTS
    Cells = 4
    Classes = 2
    CellKind <- MCCellKind
    Threshold = 1
    MaxResults = 3
INVARIANTS ResultsRanked SuppressionExplained
CHECK_DEADLOCK FALSE
