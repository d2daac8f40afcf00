SPECIFICATION FairSpec
CONSTANTS
    NumFrames = 6
    MaxReorder = 2
    Frame <- MCFrame
INVARIANTS NoneOvertaken GapTracked ReorderBounded
PROPERTIES InOrder GapGetsOwnTimeout RelaySpec ArrivalAfterTimeoutUnblocks
CHECK_DEADLOCK FALSE
