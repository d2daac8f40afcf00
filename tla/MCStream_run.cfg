SPECIFICATION FairStream
CONSTANTS
    Frames = 3
    Extras = 2
    Clock = 90000
    Fps = 30
INVARIANTS RecyclesWhatWasCoded EncodedIsReferenced StopReturnsAll MuxerProtocol CrashOnlyAfterFailedInit
PROPERTIES EveryBufferReturns DestructorEnds
CHECK_DEADLOCK FALSE
