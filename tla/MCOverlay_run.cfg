SPECIFICATION OverlaySpec
CONSTANTS
    Side = 10
    Reach = 2
    Widths <- MCWidths
INVARIANT RectangleFits
CHECK_DEADLOCK FALSE
