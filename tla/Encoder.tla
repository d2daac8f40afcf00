-------------------------------- MODULE Encoder --------------------------------
(***************************************************************************)
(* RkMppEncoder (src/src/MppEncoder.cpp) and its owner's reference to each *)
(* source buffer.  The first decoded picture sets the encoder up on the    *)
(* decode thread (Init, GetHeader, Start); then the channel's output       *)
(* thread pushes frames (PushBuffer), the encoder's own thread polls       *)
(* packets and recycles the oldest pending frame (OutputThreadFunc), and   *)
(* ~VideoChannel stops the encoder once the channel's threads are joined.  *)
(*                                                                         *)
(* A frame stands for its source buffer; frames are pushed in the order of *)
(* their numbers.  refs counts the references the program holds on the     *)
(* buffer: one came with the InferOutput, one is taken by                  *)
(* mpp_frame_set_buffer.  The hardware takes frames in order and gives one *)
(* or more packets for each, the last of them marked; a packet may also    *)
(* hold only parameter sets.                                               *)
(***************************************************************************)
EXTENDS Naturals, Sequences

CONSTANTS
    Frames,   \* bound: frames 1 .. Frames are offered to the encoder
    Extras    \* bound: packets that end no frame

ASSUME EncoderAssumption == Frames \in Nat /\ Extras \in Nat

Frame == 1 .. Frames

VARIABLES
    setup,    \* InitEncoder: "none" no encoder yet, "init", "cfg" and "configure"
              \* in Init, "header" before GetHeader, "ready" before
              \* Start, "running"; "crashed": mpi_ was used when it was null
    handles,  \* of "ctx" (ctx_ and mpi_) and "cfg" (cfg_), those not null
    inited,   \* what Init has returned: "no" not yet, "true", "false"
    ppc,      \* output thread of the channel: "idle", in PushBuffer after the
              \* push_back "put", after a refused put "remove", "joined"
    next,     \* the next frame it will push
    pending,  \* pending_frames_
    hw,       \* frames the hardware has accepted and not finished
    extras,   \* packets that end no frame which the hardware may still give
    opc,      \* encoder thread: "none" before Start, "poll" at the head of its loop, "get" in
              \* encode_get_packet, "packet", "recycle", "ended"
    packet,   \* frame_done && !is_extra of the packet in hand: "last" or "more"
    taken,    \* the frame popped from pending_frames_ and not yet recycled
    coded,    \* frames whose last packet the encoder thread has taken (history)
    refs,     \* references held on each frame's source buffer
    stop      \* Stop: "no", "flag" is_running_ is false, "reset", "cleared",
              \* "done"

lifecycle == <<setup, handles, inited>>
producer == <<ppc, next>>
hardware == <<hw, extras>>
consumer == <<opc, packet, taken, coded>>
work == <<producer, pending, hardware, consumer, refs, stop>>
vars == <<lifecycle, work>>

Init ==
    /\ setup = "none" /\ handles = {} /\ inited = "no"
    /\ ppc = "idle" /\ next = 1
    /\ pending = <<>>
    /\ hw = <<>> /\ extras = Extras
    /\ opc = "none" /\ packet = "more" /\ taken = {} /\ coded = {}
    /\ refs = [f \in Frame |-> 1]
    /\ stop = "no"

-----------------------------------------------------------------------------
(* InitEncoder, on the decode thread                                       *)

\* Init calls Stop and returns false.
InitFails == setup' = "header" /\ handles' = {} /\ inited' = "false"

Goes(from, to, owned) ==
    /\ setup = from
    /\ \/ setup' = to /\ handles' = owned /\ UNCHANGED inited
       \/ InitFails
    /\ UNCHANGED work

MppCreate == ppc # "joined" /\ Goes("none", "init", {"ctx"})
MppInit == Goes("init", "cfg", handles)
CfgInit == Goes("cfg", "configure", {"ctx", "cfg"})

\* MPP_ENC_GET_CFG, MPP_ENC_SET_CFG and MPP_ENC_SET_HEADER_MODE
Configure ==
    /\ setup = "configure"
    /\ \/ setup' = "header" /\ inited' = "true" /\ UNCHANGED handles
       \/ InitFails
    /\ UNCHANGED work

\* The result of Init is not looked at.  GetHeader returns before it uses mpi_
\* only if it gets no packet; what it returns is not looked at either.
GetHeader ==
    /\ setup = "header"
    /\ \/ setup' = "ready"
       \/ setup' = "crashed" /\ "ctx" \notin handles
    /\ UNCHANGED <<handles, inited, work>>

Start ==
    /\ setup = "ready"
    /\ setup' = "running"
    /\ opc' = "poll"
    /\ UNCHANGED <<handles, inited, producer, pending, hardware, packet, taken,
                   coded, refs, stop>>

InitEncoder == MppCreate \/ MppInit \/ CfgInit \/ Configure \/ GetHeader

\* encode_put_frame or encode_get_packet through an mpi_ that is null, or on a
\* context that was destroyed.
CrashingCall ==
    /\ setup = "running"
    /\ ppc = "put" \/ opc = "get"
    /\ "ctx" \notin handles
    /\ setup' = "crashed"
    /\ UNCHANGED <<handles, inited, work>>

Running == setup = "running" /\ UNCHANGED lifecycle

-----------------------------------------------------------------------------
(* PushBuffer, called by EncodeZeroCopy, which releases the buffer when it  *)
(* returns false.                                                          *)

\* mpp_frame_init fails.
NoFrame ==
    /\ ppc = "idle" /\ next \in Frame
    /\ next' = next + 1
    /\ refs' = [refs EXCEPT ![next] = @ - 1]
    /\ UNCHANGED <<ppc, pending, hardware, consumer, stop>>

\* The frame is queued before the hardware gets it.
PushBack ==
    /\ ppc = "idle" /\ next \in Frame
    /\ ppc' = "put"
    /\ refs' = [refs EXCEPT ![next] = @ + 1]
    /\ pending' = Append(pending, next)
    /\ UNCHANGED <<next, hardware, consumer, stop>>

Accepted ==
    /\ ppc = "put" /\ "ctx" \in handles
    /\ hw' = Append(hw, next)
    /\ ppc' = "idle" /\ next' = next + 1
    /\ UNCHANGED <<pending, extras, consumer, refs, stop>>

Refused ==
    /\ ppc = "put" /\ "ctx" \in handles
    /\ ppc' = "remove"
    /\ UNCHANGED <<next, pending, hardware, consumer, refs, stop>>

\* Mutant: the oldest frame is removed instead of the refused one.
RemovePendingFrame_Oldest ==
    /\ ppc = "remove"
    /\ pending' = Tail(pending)
    /\ refs' = [refs EXCEPT ![next] = @ - 2]
    /\ ppc' = "idle" /\ next' = next + 1
    /\ UNCHANGED <<hardware, consumer, stop>>

\* it = pending_frames_.erase(it)
Erased(q, i) == [k \in 1 .. Len(q) - 1 |-> IF k < i THEN q[k] ELSE q[k + 1]]

\* RemovePendingFrame, mpp_frame_deinit, and the caller's mpp_buffer_put.
RemovePendingFrame ==
    /\ ppc = "remove"
    /\ \/ \E i \in DOMAIN pending : pending[i] = next /\ pending' = Erased(pending, i)
       \/ (\A i \in DOMAIN pending : pending[i] # next) /\ UNCHANGED pending
    /\ refs' = [refs EXCEPT ![next] = @ - 2]
    /\ ppc' = "idle" /\ next' = next + 1
    /\ UNCHANGED <<hardware, consumer, stop>>

\* No frame reaches the output thread before InitEncoder has returned.
PushBuffer ==
    /\ Running
    /\ NoFrame \/ PushBack \/ Accepted \/ Refused \/ RemovePendingFrame

-----------------------------------------------------------------------------
(* OutputThreadFunc *)

\* while (is_running_)
Poll ==
    /\ opc = "poll" /\ stop = "no"
    /\ opc' = "get"
    /\ UNCHANGED <<producer, pending, hardware, packet, taken, coded, refs, stop>>

\* The hardware has no packet ready.  This and the next two can still happen
\* once after is_running_ was cleared.
GetNothing ==
    /\ opc = "get" /\ "ctx" \in handles
    /\ opc' = "poll"
    /\ UNCHANGED <<producer, pending, hardware, packet, taken, coded, refs, stop>>

\* encode_get_packet gives a packet without a frame, or not the last one of a
\* frame that is being encoded.
GetOther ==
    /\ opc = "get" /\ "ctx" \in handles
    /\ extras > 0 /\ extras' = extras - 1
    /\ opc' = "packet" /\ packet' = "more"
    /\ UNCHANGED <<producer, pending, hw, taken, coded, refs, stop>>

GetLast ==
    /\ opc = "get" /\ "ctx" \in handles
    /\ hw # <<>>
    /\ hw' = Tail(hw)
    /\ coded' = coded \union {Head(hw)}
    /\ opc' = "packet" /\ packet' = "last"
    /\ UNCHANGED <<producer, pending, extras, taken, refs, stop>>

\* Mutant: every packet is taken for the last one of its frame.
PopOldest_EveryPacket ==
    /\ opc = "packet"
    /\ pending # <<>>
    /\ taken' = {Head(pending)}
    /\ pending' = Tail(pending)
    /\ opc' = "recycle"
    /\ UNCHANGED <<producer, hardware, packet, coded, refs, stop>>

\* After the callback: RecycleOldestPendingFrame pops under the mutex ...
PopOldest ==
    /\ opc = "packet" /\ packet = "last"
    /\ pending # <<>>
    /\ taken' = {Head(pending)}
    /\ pending' = Tail(pending)
    /\ opc' = "recycle"
    /\ UNCHANGED <<producer, hardware, packet, coded, refs, stop>>

SkipRecycle ==
    /\ opc = "packet"
    /\ packet = "more" \/ pending = <<>>
    /\ opc' = "poll"
    /\ UNCHANGED <<producer, pending, hardware, packet, taken, coded, refs, stop>>

\* Mutant: the frame is destroyed but the buffer not put back.
RecycleEncodedFrame_NoPut ==
    /\ opc = "recycle"
    /\ refs' = [f \in Frame |-> IF f \in taken THEN refs[f] - 1 ELSE refs[f]]
    /\ taken' = {}
    /\ opc' = "poll"
    /\ UNCHANGED <<producer, pending, hardware, packet, coded, stop>>

\* ... and RecycleEncodedFrame drops both references outside it.
RecycleEncodedFrame ==
    /\ opc = "recycle"
    /\ refs' = [f \in Frame |-> IF f \in taken THEN refs[f] - 2 ELSE refs[f]]
    /\ taken' = {}
    /\ opc' = "poll"
    /\ UNCHANGED <<producer, pending, hardware, packet, coded, stop>>

\* Mutant: the thread waits until every pending frame has been recycled.
EndThread_Drained ==
    /\ opc = "poll" /\ stop # "no" /\ pending = <<>>
    /\ opc' = "ended"
    /\ UNCHANGED <<producer, pending, hardware, packet, taken, coded, refs, stop>>

EndThread ==
    /\ opc = "poll" /\ stop # "no"
    /\ opc' = "ended"
    /\ UNCHANGED <<producer, pending, hardware, packet, taken, coded, refs, stop>>

GetPacket == Running /\ (GetOther \/ GetLast)
AfterCallback == Running /\ (PopOldest \/ SkipRecycle)
Polling == Running /\ (Poll \/ GetNothing \/ RecycleEncodedFrame \/ EndThread)

OutputThreadFunc == GetPacket \/ AfterCallback \/ Polling

-----------------------------------------------------------------------------
(* ~VideoChannel: decode and output thread are joined, the encoder stopped. *)

\* The decode thread returns from InitEncoder before it can be joined.
JoinThreads ==
    /\ ppc = "idle" /\ setup \in {"none", "running"}
    /\ ppc' = "joined"
    /\ UNCHANGED <<lifecycle, next, pending, hardware, consumer, refs, stop>>

StopFlag ==
    /\ ppc = "joined" /\ setup = "running" /\ stop = "no"
    /\ stop' = "flag"
    /\ UNCHANGED <<producer, pending, hardware, consumer, refs>>

\* mpi_->reset drops what the hardware still has.
Reset ==
    /\ stop = "flag"
    /\ stop' = "reset"
    /\ hw' = <<>>
    /\ UNCHANGED <<producer, pending, extras, consumer, refs>>

\* The thread is joined and the frames still pending are given back.
Clear ==
    /\ stop = "reset" /\ opc = "ended"
    /\ stop' = "cleared"
    /\ refs' = [f \in Frame |->
                  IF \E i \in DOMAIN pending : pending[i] = f
                  THEN refs[f] - 2 ELSE refs[f]]
    /\ pending' = <<>>
    /\ UNCHANGED <<producer, hardware, consumer>>

\* Mutant: the context is destroyed before the thread is joined.
ReleaseHandles_Early ==
    /\ stop \in {"flag", "cleared"}
    /\ stop' = IF stop = "cleared" THEN "done" ELSE "reset"
    /\ handles' = {}
    /\ UNCHANGED <<setup, inited, producer, pending, hardware, consumer, refs>>

\* ReleaseExternalBuffers before it has nothing to release: nothing allocates.
ReleaseHandles ==
    /\ stop = "cleared"
    /\ stop' = "done"
    /\ handles' = {}
    /\ UNCHANGED <<setup, inited, producer, pending, hardware, consumer, refs>>

Stop == ReleaseHandles \/ (UNCHANGED lifecycle /\ (StopFlag \/ Reset \/ Clear))

-----------------------------------------------------------------------------
Next ==
    \/ InitEncoder \/ Start \/ CrashingCall
    \/ PushBuffer \/ OutputThreadFunc
    \/ JoinThreads \/ Stop

Spec == Init /\ [][Next]_vars

-----------------------------------------------------------------------------
(* Safety *)

TypeOK ==
    /\ setup \in {"none", "init", "cfg", "configure", "header", "ready",
                  "running", "crashed"}
    /\ handles \subseteq {"ctx", "cfg"}
    /\ inited \in {"no", "true", "false"}
    /\ ppc \in {"idle", "put", "remove", "joined"}
    /\ next \in 1 .. Frames + 1
    /\ pending \in Seq(Frame) /\ hw \in Seq(Frame)
    /\ extras \in 0 .. Extras
    /\ opc \in {"none", "poll", "get", "packet", "recycle", "ended"}
    /\ packet \in {"last", "more"}
    /\ taken \subseteq Frame /\ coded \subseteq Frame
    /\ refs \in [Frame -> Nat]
    /\ stop \in {"no", "flag", "reset", "cleared", "done"}

\* pending_frames_ is matched to packets by position only.  The frame that is
\* recycled for a packet is the one the packet ends, also while a push is
\* half done or being taken back: no buffer is recycled under the encoder.
RecyclesWhatWasCoded == taken \subseteq coded

\* A buffer the hardware is encoding is still referenced, so the decoder
\* cannot write the next picture into it.
EncodedIsReferenced == \A i \in DOMAIN hw : refs[hw[i]] > 0

\* Stop destroys the context only when no thread can call into it any more:
\* mpi_ is used without a context only after an Init that failed, whose result
\* InitEncoder ignores.
CrashOnlyAfterFailedInit == setup = "crashed" => inited = "false"
================================================================================
