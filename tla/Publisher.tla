------------------------------- MODULE Publisher -------------------------------
(***************************************************************************)
(* RtspPublisher (src/include/StreamPublisher.h).  What libavformat allows *)
(* is followed in muxer and sent: packets may be written only between the  *)
(* header and the trailer, in increasing dts.  Stream.tla composes these   *)
(* actions with the threads that call them.                                *)
(***************************************************************************)
EXTENDS Integers

VARIABLES
    stage,     \* Init: "none" no publisher yet, "stream" before
               \* avformat_new_stream, "io" before avio_open2, "header" before
               \* avformat_write_header, "over" once it has returned; "closed"
               \* by ~VideoChannel
    held,      \* of "context" (fmt_ctx_) and "io" (fmt_ctx_->pb)
    started,   \* started_: "yes" or "no"
    muxer,     \* "none", "header" written, "trailer" written
    sent       \* dts of the last packet given to av_interleaved_write_frame, or -1

publisher == <<stage, held, started, muxer, sent>>

Init ==
    /\ stage = "none" /\ held = {} /\ started = "no"
    /\ muxer = "none" /\ sent = -1

\* Mutant: only a publisher that has started is closed.
Close_IfStarted ==
    /\ held' = IF started = "yes" THEN {} ELSE held
    /\ muxer' = IF started = "yes" THEN "trailer" ELSE muxer
    /\ started' = "no"

Close ==
    /\ held' = {}
    /\ muxer' = IF "context" \in held /\ started = "yes" THEN "trailer" ELSE muxer
    /\ started' = "no"

\* Init gives up and returns false.
GiveUp == stage' = "over" /\ Close /\ UNCHANGED sent

\* Without a context there is nothing to close.
AllocContext ==
    /\ stage = "none"
    /\ \/ stage' = "stream" /\ held' = {"context"}
       \/ stage' = "over" /\ UNCHANGED held
    /\ UNCHANGED <<started, muxer, sent>>

NewStream ==
    /\ stage = "stream"
    /\ \/ stage' = "io" /\ UNCHANGED <<held, started, muxer, sent>>
       \/ GiveUp

\* A format flagged AVFMT_NOFILE opens nothing.
OpenIo ==
    /\ stage = "io"
    /\ \/ /\ stage' = "header"
          /\ held' \in {held, held \union {"io"}}
          /\ UNCHANGED <<started, muxer, sent>>
       \/ GiveUp

WriteHeader ==
    /\ stage = "header"
    /\ \/ /\ stage' = "over"
          /\ started' = "yes" /\ muxer' = "header"
          /\ UNCHANGED <<held, sent>>
       \/ GiveUp

InitPublisher == AllocContext \/ NewStream \/ OpenIo \/ WriteHeader

\* The test at the head of Push.
Pushable == started = "yes" /\ "context" \in held

WriteFrame(dts) == sent' = dts /\ UNCHANGED <<stage, held, started, muxer>>
================================================================================
