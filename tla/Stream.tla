--------------------------------- MODULE Stream ---------------------------------
(***************************************************************************)
(* The output side of a channel: the encoder, the publisher, the packet    *)
(* callback between them and ~VideoChannel (src/src/StreamChannel.cpp).    *)
(* The publisher is initialised by the decode thread, pushed to by the     *)
(* encoder's thread and closed by the thread that destroys the channel.    *)
(***************************************************************************)
EXTENDS Encoder, Integers

CONSTANTS
    Clock,  \* ticks of a packet's time stamp per second
    Fps     \* m_output_fps, at least 1

ASSUME StreamAssumption == Clock \in Nat \ {0} /\ Fps \in Nat \ {0}

VARIABLES
    stage, held, started, muxer, sent,  \* the publisher
    callback,  \* the packet callback: "idle", "due" not begun, "push" at the
               \* call of Push, "write" in av_interleaved_write_frame
    index,     \* m_encode_packet_counter
    pts        \* m_last_packet_pts

P == INSTANCE Publisher

publisher == <<stage, held, started, muxer, sent>>
stamps == <<index, pts>>
streamVars == <<vars, publisher, callback, stamps>>

StreamInit ==
    /\ Init /\ P!Init
    /\ callback = "idle" /\ index = 0 /\ pts = -1

-----------------------------------------------------------------------------
(* InitEncoder *)

InitPublisher ==
    /\ setup = "ready"
    /\ P!InitPublisher
    /\ UNCHANGED <<vars, callback, stamps>>

\* The channel goes on without a publisher that failed.
StartEncoder ==
    /\ stage = "over"
    /\ Start
    /\ UNCHANGED <<publisher, callback, stamps>>

-----------------------------------------------------------------------------
(* The callback, on the encoder's thread between a packet and its recycling *)

\* A packet of size 0 is not reported.
Packet ==
    /\ GetPacket
    /\ callback' \in {"idle", "due"}
    /\ UNCHANGED <<publisher, stamps>>

Later(a, b) == IF a > b THEN a ELSE b

\* Packets without a frame are counted like the others.
Stamp ==
    /\ callback = "due"
    /\ callback' = "push"
    /\ index' = index + 1
    /\ pts' = Later((index * Clock) \div Fps, pts + 1)
    /\ UNCHANGED <<vars, publisher>>

\* Push refuses, or runs out of memory, and the packet is lost.
PushRefused ==
    /\ callback = "push"
    /\ callback' = "idle"
    /\ UNCHANGED <<vars, publisher, stamps>>

PushAccepted ==
    /\ callback = "push" /\ P!Pushable
    /\ callback' = "write"
    /\ UNCHANGED <<vars, publisher, stamps>>

WriteFrame ==
    /\ callback = "write"
    /\ P!WriteFrame(pts)
    /\ callback' = "idle"
    /\ UNCHANGED <<vars, stamps>>

Callback == Stamp \/ PushRefused \/ PushAccepted \/ WriteFrame

-----------------------------------------------------------------------------
(* ~VideoChannel *)

\* Mutant: the publisher is closed before the encoder's thread is joined.
ClosePublisher_First ==
    /\ stop = "flag" /\ stage # "closed"
    /\ P!Close /\ stage' = "closed"
    /\ UNCHANGED <<vars, sent, callback, stamps>>

ClosePublisher ==
    /\ stop = "done" /\ stage # "closed"
    /\ P!Close /\ stage' = "closed"
    /\ UNCHANGED <<vars, sent, callback, stamps>>

-----------------------------------------------------------------------------

\* The steps of the encoder that neither the publisher nor the callback sees.
Quietly(A) == A /\ UNCHANGED <<publisher, callback, stamps>>

Owner == Quietly(PushBuffer \/ CrashingCall)
Thread == Quietly(Polling \/ (callback = "idle" /\ AfterCallback))
Teardown == Quietly(JoinThreads \/ Stop)

StreamNext ==
    \/ Quietly(InitEncoder) \/ InitPublisher \/ StartEncoder
    \/ Owner \/ Thread \/ Packet \/ Callback
    \/ Teardown \/ ClosePublisher

StreamSpec == StreamInit /\ [][StreamNext]_streamVars

\* The threads run, the hardware finishes what it has accepted, the callback
\* and the writes in it return, and ~VideoChannel, once begun, goes on.
FairStream ==
    /\ StreamSpec
    /\ WF_streamVars(Owner) /\ WF_streamVars(Thread) /\ WF_streamVars(Callback)
    /\ SF_streamVars(Packet /\ GetLast)
    /\ WF_streamVars(stop # "no" /\ Teardown) /\ WF_streamVars(ClosePublisher)

-----------------------------------------------------------------------------
(* Properties *)

\* libavformat is used in the order it asks for across three threads: a packet
\* is written only between header and trailer, into a context that has not
\* been freed, and with a dts above the last one, however many packets hold no
\* frame.
MuxerProtocol ==
    callback = "write" => "context" \in held /\ muxer = "header" /\ pts > sent

\* At the end of ~VideoChannel every buffer that was pushed has been given
\* back completely, whatever was refused, encoded, half recycled or dropped by
\* the reset; the encoder's handles are released, and so is what a publisher
\* holds whose Init gave up at any point.
StopReturnsAll ==
    stage = "closed" =>
        /\ \A f \in 1 .. next - 1 : refs[f] = 0
        /\ handles = {} /\ held = {}

\* While the encoder runs, every frame it is given comes back to the pool, also
\* when the publisher never started or loses packets.
EveryBufferReturns ==
    \A f \in Frame :
        (ppc = "put" /\ next = f) ~> (refs[f] = 0 \/ stop # "no" \/ setup = "crashed")

\* ~VideoChannel gets through: the encoder's thread leaves its loop from
\* wherever it is, a sleeping callback included, and everything is released.
DestructorEnds == stop = "flag" ~> stage = "closed" \/ setup = "crashed"
================================================================================
