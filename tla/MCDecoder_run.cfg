SPECIFICATION FairSpec
CONSTANTS
    Buffers = 2
    MaxRetry = 2
    InMax = 2
    Packets = 4
    Changes = 1
INVARIANTS NoBufferLost OneBufferUnfreed
PROPERTIES PacketCallReturns
CHECK_DEADLOCK FALSE
