------------------------------ MODULE ChannelFlow ------------------------------
(***************************************************************************)
(* One VideoChannel from decoder to encoder: the reorder stage of          *)
(* Reorder.tla between the frames in flight, the output queue (an instance *)
(* of ThreadSafeQueue.tla) and the encoder, all of them fed from the fixed *)
(* set of DMA buffers the decoder allocates                                *)
(* (MppDecoder::AllocateExternalBuffers).  A decoded frame keeps its       *)
(* buffer until it is dropped or the encoder recycles it, and without a    *)
(* free buffer the decoder makes no frame.  Stop ends the channel: the     *)
(* output thread takes what is queued and returns.                         *)
(*                                                                         *)
(* The hardware decoder's own reference pictures are left out: they only   *)
(* make buffers scarcer.  The packet a decoder without buffers refuses is  *)
(* retried here without end; DecodePacket gives it up after 200 tries,     *)
(* which loses frames and frees no buffer.                                 *)
(***************************************************************************)
EXTENDS Reorder, Sequences

CONSTANTS
    NumFrames,    \* bound: frames of the stream
    NumBuffers,   \* external buffers of the decoder (16)
    MaxInflight,  \* m_max_inflight_frames (8)
    QueueMax      \* capacity of m_output_queue (30)

ASSUME FlowAssumption ==
    /\ NumFrames \in Nat /\ Frame = 0 .. NumFrames - 1
    /\ NumBuffers \in Nat /\ MaxInflight \in Nat /\ QueueMax \in Nat

VARIABLES
    frameCounter,  \* m_frame_counter
    inflight,      \* frames between the decode callback and OnInferOutput
    outq,          \* m_output_queue
    recycled,      \* encoded frames whose buffer the encoder has given back
    phase,         \* m_running, and m_stop of the queue: "open" or "stopped"
    consumer,      \* where the output thread is in pop
    notifying      \* {"main"} between unlock and notify_one in push

queueVars == <<outq, phase, consumer, notifying>>
flowVars == <<frameCounter, inflight, recycled, queueVars>>
allVars == <<vars, flowVars>>

Q == INSTANCE ThreadSafeQueue
       WITH queue <- outq, Item <- Frame, Max <- QueueMax,
            Producer <- {"main"}, Consumer <- {"output"}

Queued == {outq[i] : i \in DOMAIN outq}

\* Frames that hold a buffer.
Busy == inflight \union Queued \union reorder \union (encoded \ recycled)

FlowInit ==
    /\ Init
    /\ frameCounter = 0 /\ inflight = {} /\ recycled = {}
    /\ Q!Init

-----------------------------------------------------------------------------
\* Mutant: the decoder is not limited to the buffers it was given.
DecodeFrame_AnyBuffer ==
    /\ phase = "open"
    /\ frameCounter \in Frame
    /\ Cardinality(inflight) < MaxInflight
    /\ inflight' = inflight \union {frameCounter}
    /\ frameCounter' = frameCounter + 1
    /\ UNCHANGED <<vars, recycled, queueVars>>

\* The decode callback passes the in-flight gate with a frame in a free buffer.
DecodeFrame ==
    /\ phase = "open"
    /\ frameCounter \in Frame
    /\ Cardinality(Busy) < NumBuffers
    /\ Cardinality(inflight) < MaxInflight
    /\ inflight' = inflight \union {frameCounter}
    /\ frameCounter' = frameCounter + 1
    /\ UNCHANGED <<vars, recycled, queueVars>>

\* main gets results until it stops the channel.
MainGets(f) == f \in inflight /\ phase = "open" /\ notifying = {}

\* The RGA conversion of frame f fails: infer puts the buffer back and main
\* calls OnInferDropped.
InferFails(f) ==
    /\ MainGets(f)
    /\ Lose(f)
    /\ inflight' = inflight \ {f}
    /\ UNCHANGED <<frameCounter, recycled, queueVars>>

\* A full queue refuses the result, whose buffer is put back.
PushOrDrop(f) ==
    \/ Q!Push("main", f) /\ UNCHANGED vars
    \/ Q!Full /\ Lose(f) /\ UNCHANGED queueVars

\* Mutant: the frame stays counted in flight.
OnInferOutput_NotCounted(f) ==
    /\ MainGets(f)
    /\ PushOrDrop(f)
    /\ UNCHANGED <<frameCounter, inflight, recycled>>

\* OnInferOutput, in whatever order the inferences end.
OnInferOutput(f) ==
    /\ MainGets(f)
    /\ inflight' = inflight \ {f}
    /\ PushOrDrop(f)
    /\ UNCHANGED <<frameCounter, recycled>>

Notify ==
    /\ Q!NotifyOne("main")
    /\ UNCHANGED <<vars, frameCounter, inflight, recycled>>

\* VideoChannel::Stop, when main has left its loop: after the last result, or
\* earlier when active_channels was too small (Pipeline.tla).
Stop ==
    /\ phase = "open"
    /\ Q!Stop("main")
    /\ UNCHANGED <<vars, frameCounter, inflight, recycled>>

\* The output thread pops a result and runs the first part of
\* ProcessInferOutput.
PopResult ==
    /\ Q!Pop("output")
    /\ DropLate(Head(outq)) \/ Insert(Head(outq))
    /\ UNCHANGED <<frameCounter, inflight, recycled>>

\* It waits in pop, or is told the end and returns from OutputLoop.
PopNothing ==
    /\ pc = "idle"
    /\ Q!Wait("output") \/ Q!PopEnd("output")
    /\ UNCHANGED <<vars, frameCounter, inflight, recycled>>

Spurious ==
    /\ Q!Spurious("output")
    /\ UNCHANGED <<vars, frameCounter, inflight, recycled>>

\* The encoder gives the buffers back in the order it was given them.
Recycle(f) ==
    /\ f \in encoded \ recycled
    /\ \A g \in encoded \ recycled : f <= g
    /\ recycled' = recycled \union {f}
    /\ UNCHANGED <<vars, frameCounter, inflight, queueVars>>

Process == Scan /\ UNCHANGED flowVars
Time == Elapse /\ UNCHANGED flowVars

Infer == \E f \in inflight : InferFails(f) \/ OnInferOutput(f)

FlowNext ==
    \/ DecodeFrame \/ Infer \/ Notify \/ Stop
    \/ PopResult \/ PopNothing \/ Spurious \/ Process \/ Time
    \/ \E f \in Frame : Recycle(f)

FlowSpec == FlowInit /\ [][FlowNext]_allVars

FairFlowSpec ==
    /\ FlowSpec
    /\ WF_allVars(DecodeFrame) /\ WF_allVars(Infer) /\ WF_allVars(Notify)
    /\ WF_allVars(PopResult \/ PopNothing \/ Process) /\ WF_allVars(Time)
    /\ \A f \in Frame : WF_allVars(Recycle(f))

-----------------------------------------------------------------------------
(* Safety *)

\* A frame is in one place: in flight, queued, buffered, with the encoder,
\* released or lost; its buffer is free exactly when it is in none of the
\* first four.  Two holders, or a buffer put back that is still buffered or
\* with the encoder, would let the decoder overwrite a picture.
OnePlace ==
    /\ OwnedOnce
    /\ inflight \intersect (Queued \union Seen \union lost) = {}
    /\ Queued \intersect (Seen \union lost) = {}
    /\ lost \intersect Seen = {}
    /\ \A i, j \in DOMAIN outq : outq[i] = outq[j] => i = j
    /\ inflight \union Queued \union Seen \union lost = 0 .. frameCounter - 1

\* With no more buffers than m_output_queue and m_reorder_buffer can hold
\* neither limit is reached: a result is never dropped for a full queue, and
\* the overflow jump never fires.
LimitsNeverReached ==
    NumBuffers <= QueueMax /\ NumBuffers <= MaxReorder =>
      /\ \A f \in inflight : Len(outq) < QueueMax
      /\ Cardinality(reorder) <= MaxReorder

\* When the output thread has returned nothing is left in the queue, and a
\* result is left in m_reorder_buffer, neither encoded nor put back, only if a
\* frame before it never came.  (OutputLoop has no pass over the buffer at its
\* end; without an overflow jump it needs none for a stream without loss.)
OnlyBehindGapAbandoned ==
    NumBuffers <= MaxReorder /\ consumer["output"] = "ended" =>
      /\ outq = <<>>
      /\ \A f \in reorder : \E g \in lost \union inflight : g < f /\ g >= expected

\* The output queue of the channel keeps BoundedQueue's promises, that of
\* taking everything in the end included: no wake-up is lost between push,
\* stop and wait.
QueueSpec == Q!Abstract!Spec

-----------------------------------------------------------------------------
(* Liveness *)

\* main has stopped the channel before its end.
StoppedEarly ==
    phase = "stopped" /\ (frameCounter < NumFrames \/ inflight # {})

\* If no frame is lost the whole stream passes through, also when Stop comes
\* while the last results are queued: every frame is decoded, leaves in the
\* end, and its buffer comes back.
LosslessStreamEnds ==
    <>(\/ lost # {} \/ StoppedEarly
       \/ frameCounter = NumFrames /\ Busy = {})

\* Stop can join the output thread.
OutputThreadEnds == phase = "stopped" ~> consumer["output"] = "ended"

\* A decoder out of buffers gets one back
\* (docs/multichannel_realtime_pipeline_notes.md:322: a missing frame must
\* not be waited for without bound).
BufferComesBack ==
    (frameCounter < NumFrames /\ Cardinality(Busy) = NumBuffers)
        ~> (Cardinality(Busy) < NumBuffers \/ phase = "stopped")
================================================================================
