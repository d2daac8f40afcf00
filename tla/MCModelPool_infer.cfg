SPECIFICATION Spec
CONSTANTS
    Frames = 3
    ThreadNum = 2
INVARIANTS ResultOfOwnFrame ModelOutlivesUse ReleasedOnce OnlyHeapLost
CHECK_DEADLOCK FALSE
