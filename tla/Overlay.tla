-------------------------------- MODULE Overlay --------------------------------
(***************************************************************************)
(* One axis of a detected box, from the network's picture to the rectangle *)
(* the RGA draws into the decoded one: post_process clamps the corners and *)
(* scales them back (src/src/postprocess.cc), EncodeZeroCopy clamps them   *)
(* to the picture and makes them even (src/src/StreamChannel.cpp).  Both   *)
(* axes are treated alike; left and right stand for top and bottom too.    *)
(***************************************************************************)
EXTENDS Integers

CONSTANTS
    Side,     \* width of the network's input (640)
    Widths,   \* widths a decoded picture can have
    Reach     \* bound: how far a box may extend beyond the network's input

\* H.264 with 4:2:0 sampling codes and crops pictures in steps of two pixels.
ASSUME OverlayAssumption ==
    /\ Side \in Nat \ {0} /\ Reach \in Nat
    /\ Widths \subseteq {w \in Nat : w >= 2 /\ w % 2 = 0}

VARIABLES
    width,        \* out.width
    left, right,  \* the corners, in pixels of the network, then of the picture,
                  \* then of the rectangle
    box,          \* the corners before they were clamped to the picture
    stage         \* "network", "picture", "drawn", or "skipped"

overlayVars == <<width, left, right, box, stage>>

\* Corners truncated to whole pixels.
OverlayInit ==
    /\ width \in Widths
    /\ left \in (-Reach) .. Side + Reach /\ right \in left .. Side + Reach
    /\ box = [left |-> left, right |-> right]
    /\ stage = "network"

Least(a, b) == IF a < b THEN a ELSE b
Greatest(a, b) == IF a > b THEN a ELSE b

clamp_to_range(value, low, high) == Greatest(low, Least(value, high))
align_down_even(value) == value - (value % 2)
align_up_even(value) == align_down_even(value + 1)

\* (int)(x / scale) with scale = (float)Side / width: rounding in float can
\* give one less when x * width is a multiple of Side.
Scaled(x) ==
    LET exact == (x * width) \div Side
    IN  {exact} \union {e \in {exact - 1} : x > 0 /\ (x * width) % Side = 0}

\* Float division is monotonic, so the corners do not change places.
MapBack ==
    /\ stage = "network" /\ stage' = "picture"
    /\ left' \in Scaled(clamp_to_range(left, 0, Side))
    /\ right' \in {r \in Scaled(clamp_to_range(right, 0, Side)) : r >= left'}
    /\ box' = [left |-> left', right |-> right']
    /\ UNCHANGED width

\* Mutant: the left corner is clamped to the edge and not two pixels before it.
Left_AtEdge == align_down_even(clamp_to_range(left, 0, width))

Left == align_down_even(clamp_to_range(left, 0, width - 2))

Draw ==
    /\ stage = "picture"
    /\ left' = Left
    /\ right' = align_up_even(clamp_to_range(right, left' + 2, width))
    /\ stage' = IF right' - left' < 2 THEN "skipped" ELSE "drawn"
    /\ UNCHANGED <<width, box>>

OverlayNext == MapBack \/ Draw

OverlaySpec == OverlayInit /\ [][OverlayNext]_overlayVars

-----------------------------------------------------------------------------

\* No detection is skipped, and its rectangle lies within the picture, starts
\* and ends on even pixels, as the subsampled chroma plane needs it, is at
\* least two pixels wide also when the box is empty or at the far edge, and
\* covers the box with at most two pixels to spare on the left and one on the
\* right beyond these two.
RectangleFits ==
    /\ stage # "skipped"
    /\ stage = "drawn" =>
         /\ left \in 0 .. box.left /\ right \in box.right .. width
         /\ left % 2 = 0 /\ right % 2 = 0
         /\ right - left >= 2
         /\ box.left - left <= 2
         /\ right <= Greatest(box.right, left + 2) + 1
================================================================================
