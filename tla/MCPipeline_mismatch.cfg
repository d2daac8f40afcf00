SPECIFICATION Spec
CONSTANTS
    NumChannels = 2
    ActiveInit = {1}
    Unopenable = {}
    FileFrames <- MCFileFrames
    MaxInflight = 2
    StartupInflight = 1
    Throttle = 3
    QueueMax = 1
INVARIANTS ExitOnlyWhenAllClosed
CHECK_DEADLOCK FALSE
