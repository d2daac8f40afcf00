-------------------------------- MODULE Decoder --------------------------------
(***************************************************************************)
(* MppDecoder (src/src/MppDecoder.cpp): packets are pushed into the        *)
(* hardware with a bounded number of retries, pictures are drained between *)
(* them, and the buffers the hardware decodes into are allocated by the    *)
(* program when the hardware first announces a picture size.               *)
(*                                                                         *)
(* A packet stands for one picture.  The hardware is external: it takes    *)
(* packets or refuses them, announces the size of the pictures ("info")    *)
(* and then waits for INFO_CHANGE_READY, and decodes into a free buffer.   *)
(* The channel behind m_callback owns the pictures it is given and returns *)
(* them when it pleases.                                                   *)
(***************************************************************************)
EXTENDS Naturals, Sequences, FiniteSets, DmaHeap

CONSTANTS
    Buffers,   \* buffers AllocateExternalBuffers asks for (16)
    MaxRetry,  \* retry_count above which a packet is given up (200)
    InMax,     \* packets the hardware can hold
    Packets,   \* bound: calls of DecodePacket
    Changes    \* bound: size changes after the first announcement

ASSUME DecoderAssumption ==
    /\ Buffers \in Nat \ {0} /\ MaxRetry \in Nat /\ InMax \in Nat \ {0}
    /\ Packets \in Nat /\ Changes \in Nat

Buf == 1 .. Buffers

VARIABLES
    pc,          \* "idle"; in DecodePacket "put", in FlushDecoder "flush", in
                 \* AllocateExternalBuffers "alloc"; "released"
    after,       \* where FlushDecoder returns to: "retry" or "return"
    retries,     \* retry_count
    calls,       \* DecodePacket calls still to come
    initialized, \* m_initialized
    grp,         \* m_frm_grp: "none", "live"
    map,         \* buffers in buffer_map, all of them committed to the group
    heap,        \* buffers allocated and not freed
    lost,        \* what failed dma_buf_alloc calls left behind
    inq,         \* packets in the hardware
    mode,        \* hardware: "start", "wait" for READY, "decode"
    changes,     \* size changes still to come
    out,         \* pictures and announcements to get: [kind, buf]
    free,        \* buffers of the group the hardware may decode into
    downstream   \* buffers whose picture the channel has

call == <<pc, after, retries, calls, initialized>>
memory == <<grp, map, heap, lost>>
hardware == <<inq, mode, changes>>
pictures == <<out, free, downstream>>
vars == <<call, memory, hardware, pictures>>

\* Init of the decoder may have failed, which the channel does not look at.
Init ==
    /\ pc = "idle" /\ after = "return" /\ retries = 0 /\ calls = Packets
    /\ initialized \in BOOLEAN
    /\ grp = "none" /\ map = {} /\ heap = {} /\ lost = {}
    /\ inq = 0 /\ mode = "start" /\ changes = Changes
    /\ out = <<>> /\ free = {} /\ downstream = {}

-----------------------------------------------------------------------------
(* The hardware and the channel *)

Announce ==
    /\ (mode = "start") \/ (mode = "decode" /\ changes > 0)
    /\ inq > 0
    /\ changes' = IF mode = "start" THEN changes ELSE changes - 1
    /\ mode' = "wait"
    /\ out' = Append(out, [kind |-> "info", buf |-> 0])
    /\ UNCHANGED <<call, memory, inq, free, downstream>>

Decode ==
    /\ mode = "decode" /\ inq > 0
    /\ inq' = inq - 1
    /\ \E b \in free, kind \in {"good", "bad"} :
         /\ free' = free \ {b}
         /\ out' = Append(out, [kind |-> kind, buf |-> b])
    /\ UNCHANGED <<call, memory, mode, changes, downstream>>

Return(b) ==
    /\ b \in downstream
    /\ downstream' = downstream \ {b}
    /\ free' = free \union {b}
    /\ UNCHANGED <<call, memory, hardware, out>>

External == pc # "released" /\ (Announce \/ Decode \/ \E b \in Buf : Return(b))

-----------------------------------------------------------------------------
(* DecodePacket *)

Call ==
    /\ pc = "idle" /\ calls > 0
    /\ calls' = calls - 1
    /\ retries' = 0
    /\ pc' = IF initialized THEN "put" ELSE "idle"
    /\ UNCHANGED <<after, initialized, memory, hardware, pictures>>

Accepted ==
    /\ pc = "put" /\ inq < InMax
    /\ inq' = inq + 1
    /\ pc' = "flush" /\ after' = "return"
    /\ UNCHANGED <<retries, calls, initialized, memory, mode, changes, pictures>>

Refused ==
    /\ pc = "put"
    /\ pc' = "flush" /\ after' = "retry"
    /\ UNCHANGED <<retries, calls, initialized, memory, hardware, pictures>>

\* Mutant: the retries are not counted.
Drained_NotCounted ==
    /\ pc = "flush" /\ out = <<>>
    /\ pc' = IF after = "retry" THEN "put" ELSE "idle"
    /\ UNCHANGED <<after, retries, calls, initialized, memory, hardware, pictures>>

\* FlushDecoder finds nothing more and returns; a refused packet is tried
\* again, or given up.
Drained ==
    /\ pc = "flush" /\ out = <<>>
    /\ retries' = IF after = "retry" THEN retries + 1 ELSE retries
    /\ pc' = IF after = "retry" /\ retries' <= MaxRetry THEN "put" ELSE "idle"
    /\ UNCHANGED <<after, calls, initialized, memory, hardware, pictures>>

-----------------------------------------------------------------------------
(* FlushDecoder *)

Got(kind) == pc = "flush" /\ out # <<>> /\ Head(out).kind = kind

GetGood ==
    /\ Got("good")
    /\ out' = Tail(out)
    /\ downstream' = downstream \union {Head(out).buf}
    /\ UNCHANGED <<call, memory, hardware, free>>

\* Mutant: a damaged picture is skipped and not released.
GetBad_NoDeinit ==
    /\ Got("bad")
    /\ out' = Tail(out)
    /\ UNCHANGED <<call, memory, hardware, free, downstream>>

GetBad ==
    /\ Got("bad")
    /\ out' = Tail(out)
    /\ free' = free \union {Head(out).buf}
    /\ UNCHANGED <<call, memory, hardware, downstream>>

\* SET_EXT_BUF_GROUP and INFO_CHANGE_READY, whatever the allocation returned
Ready ==
    /\ mode' = "decode"
    /\ out' = Tail(out)
    /\ pc' = "flush"

\* A group exists, of whatever size and number of buffers, or none can be had.
GetInfo ==
    /\ Got("info")
    /\ Ready
    /\ UNCHANGED <<after, retries, calls, initialized, memory, inq, changes,
                   free, downstream>>

CreateGroup ==
    /\ Got("info") /\ grp = "none"
    /\ grp' = "live"
    /\ pc' = "alloc"
    /\ UNCHANGED <<after, retries, calls, initialized, map, heap, lost, hardware,
                   pictures>>

-----------------------------------------------------------------------------
(* AllocateExternalBuffers *)

Fresh(b) == pc = "alloc" /\ b \in Buf \ heap /\ \A c \in Buf \ heap : b <= c

AllocFails ==
    /\ \E b \in Buf : Fresh(b)
    /\ Ready
    /\ \E left \in FailedAllocLeaves : lost' = lost \union left
    /\ UNCHANGED <<after, retries, calls, initialized, grp, map, heap, inq, changes,
                   free, downstream>>

\* The buffer is given back at once.
ImportFails ==
    /\ \E b \in Buf : Fresh(b)
    /\ Ready
    /\ UNCHANGED <<after, retries, calls, initialized, memory, inq, changes,
                   free, downstream>>

\* Mutant: the allocation goes on with the next buffer.
CommitFails_GoesOn(b) ==
    /\ Fresh(b)
    /\ heap' = heap \union {b}
    /\ UNCHANGED <<call, grp, map, lost, hardware, pictures>>

\* The buffer, and its RGA handle, are in no table.
CommitFails(b) ==
    /\ Fresh(b)
    /\ heap' = heap \union {b}
    /\ Ready
    /\ UNCHANGED <<after, retries, calls, initialized, grp, map, lost, inq, changes,
                   free, downstream>>

Commit(b) ==
    /\ Fresh(b)
    /\ heap' = heap \union {b}
    /\ map' = map \union {b}
    /\ free' = free \union {b}
    /\ UNCHANGED <<call, grp, lost, hardware, out, downstream>>

AllAllocated ==
    /\ pc = "alloc" /\ heap = Buf
    /\ Ready
    /\ UNCHANGED <<after, retries, calls, initialized, memory, inq, changes,
                   free, downstream>>

FlushDecoder ==
    \/ GetGood \/ GetBad \/ GetInfo \/ CreateGroup
    \/ AllocFails \/ ImportFails \/ AllAllocated
    \/ \E b \in Buf : CommitFails(b) \/ Commit(b)

-----------------------------------------------------------------------------
(* ReleaseAll, from the destructor: the hardware, the group, and then every *)
(* buffer of buffer_map.                                                   *)
ReleaseAll ==
    /\ pc = "idle"
    /\ pc' = "released"
    /\ grp' = "none"
    /\ heap' = heap \ map
    /\ map' = {}
    /\ inq' = 0 /\ out' = <<>> /\ free' = {}
    /\ UNCHANGED <<after, retries, calls, initialized, lost, mode, changes, downstream>>

DecodePacket == Accepted \/ Refused \/ Drained \/ FlushDecoder

Next == Call \/ DecodePacket \/ External \/ ReleaseAll

Spec == Init /\ [][Next]_vars

\* The thread that called DecodePacket runs; the hardware and the channel may
\* stop for good.
FairSpec == Spec /\ WF_vars(DecodePacket)

-----------------------------------------------------------------------------
(* Properties *)

\* Every buffer of the group is in exactly one place, ready for the hardware,
\* with the channel, or in one picture of the output: no path through
\* FlushDecoder forgets a picture or releases one twice.
NoBufferLost ==
    pc # "released" =>
      \A b \in map :
        LET waiting == {i \in DOMAIN out : out[i].buf = b}
        IN  \/ b \in free /\ b \notin downstream /\ waiting = {}
            \/ b \in downstream /\ b \notin free /\ waiting = {}
            \/ b \notin free \union downstream /\ \E i \in DOMAIN out : waiting = {i}

\* DecodePacket returns even when the hardware never takes the packet.
PacketCallReturns == (pc = "put") ~> (pc = "idle")

\* ReleaseAll frees every buffer of buffer_map whatever became of its picture,
\* and the only buffer it can miss is the one whose commit failed: the
\* allocation stops there and no later announcement takes it up again.
OneBufferUnfreed == pc = "released" => Cardinality(heap) <= 1
================================================================================
