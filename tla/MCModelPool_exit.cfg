SPECIFICATION Spec
CONSTANTS
    Frames = 3
    ThreadNum = 2
INVARIANTS LabelsFreedOnce
CHECK_DEADLOCK FALSE
