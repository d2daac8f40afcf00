-------------------------------- MODULE Reorder --------------------------------
(***************************************************************************)
(* The reorder stage of one VideoChannel (src/src/StreamChannel.cpp):      *)
(* OutputLoop pops inference results in the order the NPU finished them    *)
(* and ProcessInferOutput hands them to the encoder in the order the       *)
(* decoder produced them.                                                  *)
(*                                                                         *)
(* A result is identified by its frame_id; the decode callback numbers     *)
(* frames with m_frame_counter++, so ids are unique and the branch of      *)
(* ProcessInferOutput that replaces an entry with the same id is never     *)
(* taken and has no counterpart here.  Each iteration of the while loop    *)
(* is one step.  A clock is not kept: `timer' is "off" when                *)
(* m_reorder_waiting is false, "running" when it is true, and "over" once  *)
(* m_reorder_timeout has passed since m_reorder_wait_start.  The drop      *)
(* statistic m_reorder_drop_count is only logged and left out.             *)
(***************************************************************************)
EXTENDS Naturals, FiniteSets

CONSTANTS
    Frame,      \* the frame_ids the channel's decoder hands out
    MaxReorder  \* entries m_reorder_buffer may keep before it jumps (20)

ASSUME ReorderAssumption ==
    /\ Frame \subseteq Nat
    /\ MaxReorder \in Nat

VARIABLES
    pc,         \* output thread: "idle" in pop(), "scan" in the while loop
    reorder,    \* keys of m_reorder_buffer
    expected,   \* m_expected_frame_id
    timer,      \* m_reorder_waiting and the time since m_reorder_wait_start
    encoded,    \* frames whose buffer the encoder took over (history)
    released,   \* frames whose src_buffer this stage put back (history)
    lost        \* frames that will never reach the output queue (history)

vars == <<pc, reorder, expected, timer, encoded, released, lost>>

Seen == reorder \union encoded \union released

Init ==
    /\ pc = "idle"
    /\ reorder = {}
    /\ expected = 0
    /\ timer = "off"
    /\ encoded = {}
    /\ released = {}
    /\ lost = {}

-----------------------------------------------------------------------------
(* The rest of the system, as this stage sees it. *)

\* The RGA conversion failed or the output queue was full: the result of
\* frame f never arrives.
Lose(f) ==
    /\ f \notin Seen \union lost
    /\ lost' = lost \union {f}
    /\ UNCHANGED <<pc, reorder, expected, timer, encoded, released>>

\* m_reorder_timeout elapses.
Elapse ==
    /\ timer = "running"
    /\ timer' = "over"
    /\ UNCHANGED <<pc, reorder, expected, encoded, released, lost>>

-----------------------------------------------------------------------------
(* OutputLoop pops the result of frame f. *)

Arrives(f) == pc = "idle" /\ f \notin Seen \union lost

\* Mutant: the late frame is released and inserted all the same.
DropLate_NoReturn(f) ==
    /\ Arrives(f)
    /\ f < expected
    /\ released' = released \union {f}
    /\ reorder' = reorder \union {f}
    /\ pc' = "scan"
    /\ UNCHANGED <<expected, timer, encoded, lost>>

\* A frame that was skipped is dropped, before the timeout is looked at.
DropLate(f) ==
    /\ Arrives(f)
    /\ f < expected
    /\ released' = released \union {f}
    /\ UNCHANGED <<pc, reorder, expected, timer, encoded, lost>>

\* Mutant: late frames are not told apart.
Insert_Late(f) ==
    /\ Arrives(f)
    /\ reorder' = reorder \union {f}
    /\ pc' = "scan"
    /\ UNCHANGED <<expected, timer, encoded, released, lost>>

Insert(f) ==
    /\ Arrives(f)
    /\ f >= expected
    /\ reorder' = reorder \union {f}
    /\ pc' = "scan"
    /\ UNCHANGED <<expected, timer, encoded, released, lost>>

-----------------------------------------------------------------------------
(* One iteration of the while loop of ProcessInferOutput. *)

\* EncodeZeroCopy: the encoder takes the buffer, or the source is bad or
\* PushBuffer fails and the buffer is released.
EncodeZeroCopy(f) ==
    \/ encoded' = encoded \union {f} /\ UNCHANGED released
    \/ released' = released \union {f} /\ UNCHANGED encoded

\* Mutants: the frame waited for is not moved on; the wait is not ended.
Emit_SameExpected ==
    /\ pc = "scan"
    /\ expected \in reorder
    /\ reorder' = reorder \ {expected}
    /\ EncodeZeroCopy(expected)
    /\ timer' = "off"
    /\ UNCHANGED <<pc, expected, lost>>

Emit_StillWaiting ==
    /\ pc = "scan"
    /\ expected \in reorder
    /\ reorder' = reorder \ {expected}
    /\ EncodeZeroCopy(expected)
    /\ expected' = expected + 1
    /\ UNCHANGED <<pc, timer, lost>>

Emit ==
    /\ pc = "scan"
    /\ expected \in reorder
    /\ reorder' = reorder \ {expected}
    /\ EncodeZeroCopy(expected)
    /\ expected' = expected + 1
    /\ timer' = "off"
    /\ UNCHANGED <<pc, lost>>

\* Mutant: the missing frame is not passed.
Skip_SameExpected ==
    /\ pc = "scan"
    /\ expected \notin reorder
    /\ reorder # {}
    /\ timer = "over"
    /\ timer' = "off"
    /\ UNCHANGED <<pc, expected, reorder, encoded, released, lost>>

\* The missing frame has been waited for long enough: give it up.
Skip ==
    /\ pc = "scan"
    /\ expected \notin reorder
    /\ reorder # {}
    /\ timer = "over"
    /\ expected' = expected + 1
    /\ timer' = "off"
    /\ UNCHANGED <<pc, reorder, encoded, released, lost>>

\* Mutant: the jump only ends the wait.
JumpIfFull_NoJump ==
    /\ Cardinality(reorder) > MaxReorder
    /\ UNCHANGED expected
    /\ timer' = "off"

\* The tail of ProcessInferOutput, reached by every break of the loop.
JumpIfFull ==
    /\ Cardinality(reorder) > MaxReorder
    /\ \E oldest \in reorder :
         /\ \A f \in reorder : oldest <= f
         /\ expected' = oldest
    /\ timer' = "off"

Leave(newTimer) ==
    /\ pc' = "idle"
    /\ \/ JumpIfFull
       \/ /\ Cardinality(reorder) <= MaxReorder
          /\ timer' = newTimer
          /\ UNCHANGED expected
    /\ UNCHANGED <<reorder, encoded, released, lost>>

StopEmpty ==
    /\ pc = "scan"
    /\ reorder = {}
    /\ Leave("off")

\* Mutant: m_reorder_waiting is not set.
StartWait_NoFlag ==
    /\ pc = "scan"
    /\ expected \notin reorder
    /\ reorder # {}
    /\ timer = "off"
    /\ Leave("off")

StartWait ==
    /\ pc = "scan"
    /\ expected \notin reorder
    /\ reorder # {}
    /\ timer = "off"
    /\ Leave("running")

KeepWaiting ==
    /\ pc = "scan"
    /\ expected \notin reorder
    /\ reorder # {}
    /\ timer = "running"
    /\ Leave("running")

Scan == Emit \/ Skip \/ StopEmpty \/ StartWait \/ KeepWaiting

Upstream == \E f \in Frame : Lose(f) \/ DropLate(f) \/ Insert(f)

Next == Upstream \/ Elapse \/ Scan

Spec == Init /\ [][Next]_vars

(***************************************************************************)
(* The output thread runs, time passes, and each frame of the stream is    *)
(* either delivered or lost in the end.                                    *)
(***************************************************************************)
FairSpec == Spec /\ WF_vars(Upstream) /\ WF_vars(Elapse) /\ WF_vars(Scan)

-----------------------------------------------------------------------------
(* Safety *)

TypeOK ==
    /\ pc \in {"idle", "scan"}
    /\ reorder \subseteq Frame
    /\ expected \in Nat
    /\ timer \in {"off", "running", "over"}
    /\ encoded \subseteq Frame
    /\ released \subseteq Frame
    /\ lost \subseteq Frame

\* Every result this stage has taken is owned exactly once: it is in the
\* reorder buffer, with the encoder, or put back.  No src_buffer reference
\* is leaked while the stage runs and none is put twice.
OwnedOnce ==
    /\ reorder \intersect encoded = {}
    /\ reorder \intersect released = {}
    /\ encoded \intersect released = {}

\* Nothing in the reorder buffer is older than the frame waited for, so no
\* entry can be overtaken and stay behind for ever.
NoneOvertaken == \A f \in reorder : f >= expected

\* Everything the encoder took is older than the frame waited for.
EncodedArePast == \A f \in encoded : f < expected

\* Between two results the channel waits exactly when there is a gap in front
\* of a buffered frame, and the frame waited for is then not in the buffer: a
\* wait left over from an old gap would make the next one time out at once, a
\* missing one would never time out.  Only after an overflow jump, which moves
\* m_expected_frame_id to a buffered frame and leaves its output to the next
\* arrival, is it otherwise.
GapTracked ==
    pc = "idle" /\ Cardinality(reorder) <= MaxReorder =>
        /\ expected \notin reorder
        /\ timer = "off" <=> reorder = {}

\* The jump bounds the buffer to one entry above the threshold.
ReorderBounded ==
    pc = "idle" => Cardinality(reorder) <= MaxReorder + 1

\* Every missing frame gets a timeout of its own: whenever another frame is
\* waited for, the time the last one had is forgotten.
GapGetsOwnTimeout == [][expected' # expected => timer' = "off"]_vars

\* Frames reach the encoder in strictly increasing order, across timeouts,
\* jumps and late results.
InOrder ==
    [][\A f \in encoded' \ encoded : \A g \in encoded : g < f]_vars

\* The stage implements the abstract relay.
Relay == INSTANCE InOrderRelay
    WITH held <- reorder, forwarded <- encoded, discarded <- released

RelaySpec == Relay!Spec

-----------------------------------------------------------------------------
(* Liveness *)

\* A result that arrives in front of a gap older than the timeout moves the
\* channel past the gap.
ArrivalAfterTimeoutUnblocks ==
    \A n \in Frame :
        (pc = "scan" /\ timer = "over" /\ expected = n) ~> (expected > n)
================================================================================
