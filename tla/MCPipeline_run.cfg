SPECIFICATION FairSpec
CONSTANTS
    NumChannels = 2
    ActiveInit = {1, 2}
    Unopenable = {}
    FileFrames <- MCFileFrames
    MaxInflight = 2
    StartupInflight = 1
    Throttle = 3
    QueueMax = 1
INVARIANTS CountersExact ExitDrained TeardownOrder
PROPERTIES ProgramEnds StopEnds
CHECK_DEADLOCK FALSE
