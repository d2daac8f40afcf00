SPECIFICATION FairFlowSpec
CONSTANTS
    NumFrames = 4
    NumBuffers = 2
    MaxInflight = 2
    QueueMax = 4
    MaxReorder = 4
    Frame <- MCFrame
PROPERTIES BufferComesBack
CHECK_DEADLOCK FALSE
