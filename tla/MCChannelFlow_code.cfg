SPECIFICATION FairFlowSpec
CONSTANTS
    NumFrames = 5
    NumBuffers = 3
    MaxInflight = 2
    QueueMax = 4
    MaxReorder = 4
    Frame <- MCFrame
INVARIANTS OnePlace LimitsNeverReached OnlyBehindGapAbandoned
PROPERTIES QueueSpec LosslessStreamEnds OutputThreadEnds
CHECK_DEADLOCK FALSE
