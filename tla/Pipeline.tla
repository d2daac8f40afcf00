------------------------------- MODULE Pipeline -------------------------------
(***************************************************************************)
(* The whole program as its threads see it: main (src/src/main.cc), the    *)
(* decode thread and the output thread of every VideoChannel               *)
(* (src/src/StreamChannel.cpp), and the inference pool they share          *)
(* (src/include/rknnPool.hpp).  The subject is back-pressure and shutdown: *)
(* the counters active_channels, pending_count and m_inflight_frames, the  *)
(* loops that wait on them, and the order in which main stops, joins and   *)
(* destroys.  What the output thread does with a result is in Reorder.tla, *)
(* how the pool runs its tasks in ThreadPool.tla.                          *)
(*                                                                         *)
(* A frame is <<channel, frame_id>>.  The order inside completed_outputs   *)
(* and m_output_queue is abstracted: any member may be taken next, since   *)
(* nothing here depends on it.  A packet from which the decoder makes no   *)
(* frame only runs the checks of the decode loop again and is left out, so *)
(* a read either yields a frame or the file ends.                          *)
(***************************************************************************)
EXTENDS Integers, FiniteSets

CONSTANTS
    NumChannels,      \* VideoChannels main creates (6)
    ActiveInit,       \* initial values of active_channels considered ({2})
    Unopenable,       \* channels whose file fopen cannot open
    FileFrames,       \* bound: frames in the file of each channel, at most
    MaxInflight,      \* m_max_inflight_frames (8)
    StartupInflight,  \* m_startup_max_inflight_frames (2)
    Throttle,         \* pool size at which DecodeLoop sleeps (40)
    QueueMax          \* capacity of m_output_queue (30)

Channel == 0 .. NumChannels - 1
Frame == {f \in Channel \X Nat : f[2] < FileFrames[f[1]]}

ASSUME PipelineAssumption ==
    /\ NumChannels \in Nat \ {0}
    /\ ActiveInit \subseteq Nat
    /\ Unopenable \subseteq Channel
    /\ FileFrames \in [Channel -> Nat]
    /\ StartupInflight \in Nat \ {0}
    /\ MaxInflight \in Nat \ {0}
    /\ Throttle \in Nat \ {0}
    /\ QueueMax \in Nat

VARIABLES
    main,        \* where main is
    hand,        \* the result main has taken from the pool: {} or {frame}
    turn,        \* the channel main is stopping
    active,      \* active_channels
    dpc,         \* per channel: where the decode thread is
    running,     \* channels with m_running set
    ready,       \* channels with m_encoder_ready set
    nextId,      \* per channel: m_frame_counter
    inflight,    \* per channel: m_inflight_frames
    pending,     \* pending_count
    tasks,       \* frames submitted to the pool and not yet inferred
    completed,   \* completed_outputs that carry a result
    failed,      \* completed_outputs with frame_id -1
    outq,        \* per channel: m_output_queue
    opc          \* per channel: the output thread, "pop" or "ended"

counters == <<active, inflight, pending>>
pool     == <<tasks, completed, failed>>
decode   == <<dpc, running, ready, nextId>>
output   == <<outq, opc>>
vars == <<main, hand, turn, counters, pool, decode, output>>

Of(S, c) == {f \in S : f[1] = c}

\* The frame the callback of c handles.
Current(c) == <<c, nextId[c] - 1>>

Init ==
    /\ main = "active"
    /\ hand = {}
    /\ turn = 0
    /\ active \in ActiveInit
    /\ dpc = [c \in Channel |-> "open"]
    /\ running = Channel
    /\ ready = {}
    /\ nextId = [c \in Channel |-> 0]
    /\ inflight = [c \in Channel |-> 0]
    /\ pending = 0
    /\ tasks = {}
    /\ completed = {}
    /\ failed = {}
    /\ outq = [c \in Channel |-> {}]
    /\ opc = [c \in Channel |-> "pop"]

-----------------------------------------------------------------------------
(* The decode thread of channel c. *)

Goto(c, from, to) == dpc[c] = from /\ dpc' = [dpc EXCEPT ![c] = to]

Open(c) ==
    /\ Goto(c, "open", IF c \in Unopenable THEN "ended" ELSE "head")
    /\ UNCHANGED <<main, hand, turn, counters, pool, running, ready, nextId, output>>

\* The loop ends: m_active_count-- is the last thing the thread does.
Close(c, from) ==
    /\ Goto(c, from, "ended")
    /\ active' = active - 1
    /\ UNCHANGED <<main, hand, turn, inflight, pending, pool,
                   running, ready, nextId, output>>

\* while (m_running && !feof(fp))
LoopHead(c) ==
    \/ Close(c, "head")      \* end of file, or m_running is false
    \/ /\ c \in running
       /\ nextId[c] < FileFrames[c]
       /\ Goto(c, "head", "gate")
       /\ UNCHANGED <<main, hand, turn, counters, pool, running, ready, nextId, output>>

Limit(c) == IF c \in ready THEN MaxInflight ELSE StartupInflight

\* The in-flight gate, in DecodeLoop and again in the callback.
PassGate(c, from, to) ==
    /\ c \notin running \/ inflight[c] < Limit(c)
    /\ Goto(c, from, to)
    /\ UNCHANGED <<main, hand, turn, counters, pool, running, ready, nextId, output>>

\* Mutant: sleeps from one task less.
TooManyTasks_Early == pending >= Throttle - 1

\* The throttle loop looks at the pool only, not at m_running.
TooManyTasks == pending >= Throttle

PassThrottle(c) ==
    /\ ~TooManyTasks
    /\ Goto(c, "throttle", "feed")
    /\ UNCHANGED <<main, hand, turn, counters, pool, running, ready, nextId, output>>

\* The decoder hands out a frame; the first one starts the encoder.
Callback(c, from) ==
    /\ Goto(c, from, "callback")
    /\ ready' = IF nextId[c] = 0 THEN ready \union {c} ELSE ready
    /\ nextId' = [nextId EXCEPT ![c] = @ + 1]
    /\ UNCHANGED <<main, hand, turn, counters, pool, running, output>>

Feed(c) ==
    \/ c \notin running /\ Close(c, "feed")
    \/ c \in running /\ Callback(c, "feed")

\* FlushDecoder: another frame of the same packet, or back to the loop.
Flush(c) ==
    \/ nextId[c] < FileFrames[c] /\ Callback(c, "flush")
    \/ /\ Goto(c, "flush", "head")
       /\ UNCHANGED <<main, hand, turn, counters, pool, running, ready, nextId, output>>

\* if (!m_running) the frame is dropped, else m_inflight_frames++.
CountInflight(c) ==
    \/ /\ c \notin running
       /\ Goto(c, "check", "flush")
       /\ UNCHANGED <<main, hand, turn, counters, pool, running, ready, nextId, output>>
    \/ /\ c \in running
       /\ Goto(c, "check", "put")
       /\ inflight' = [inflight EXCEPT ![c] = @ + 1]
       /\ UNCHANGED <<main, hand, turn, active, pending, pool,
                      running, ready, nextId, output>>

\* rknnPool::put counts the task before it submits it.
CountPending(c) ==
    /\ Goto(c, "put", "submit")
    /\ pending' = pending + 1
    /\ UNCHANGED <<main, hand, turn, active, inflight, pool,
                   running, ready, nextId, output>>

Submit(c) ==
    /\ Goto(c, "submit", "flush")
    /\ tasks' = tasks \union {Current(c)}
    /\ UNCHANGED <<main, hand, turn, counters, completed, failed,
                   running, ready, nextId, output>>

DecodeThread(c) ==
    \/ Open(c) \/ LoopHead(c)
    \/ PassGate(c, "gate", "throttle") \/ PassThrottle(c)
    \/ Feed(c) \/ PassGate(c, "callback", "check")
    \/ CountInflight(c) \/ CountPending(c) \/ Submit(c) \/ Flush(c)

-----------------------------------------------------------------------------
(* A pool thread runs one task: infer and push to completed_outputs. *)
Infer ==
    \E f \in tasks :
      /\ tasks' = tasks \ {f}
      /\ \/ completed' = completed \union {f} /\ UNCHANGED failed
         \/ failed' = failed \union {f} /\ UNCHANGED completed
      /\ UNCHANGED <<main, hand, turn, counters, decode, output>>

(* The output thread of channel c pops a result, or ends once the queue is *)
(* stopped and empty.                                                      *)
Stopped(c) == c \notin running

PopOutput(c) ==
    /\ opc[c] = "pop"
    /\ \E f \in outq[c] : outq' = [outq EXCEPT ![c] = @ \ {f}]
    /\ UNCHANGED <<main, hand, turn, counters, pool, decode, opc>>

\* Mutant: pop gives up as soon as the queue is stopped.
EndOutput_NoDrain(c) ==
    /\ opc[c] = "pop"
    /\ Stopped(c)
    /\ opc' = [opc EXCEPT ![c] = "ended"]
    /\ UNCHANGED <<main, hand, turn, counters, pool, decode, outq>>

EndOutput(c) ==
    /\ opc[c] = "pop"
    /\ Stopped(c) /\ outq[c] = {}
    /\ opc' = [opc EXCEPT ![c] = "ended"]
    /\ UNCHANGED <<main, hand, turn, counters, pool, decode, outq>>

OutputThread(c) == PopOutput(c) \/ EndOutput(c)

-----------------------------------------------------------------------------
(* main *)

At(from, to) == main = from /\ main' = to

\* Mutant: the pool is not looked at.
ReadActive_Only ==
    /\ At("active", IF active = 0 THEN "stop" ELSE "get")
    /\ UNCHANGED <<hand, turn, counters, pool, decode, output>>

\* if (active_channels == 0 && testPool.get_task_size() == 0) break;
ReadActive ==
    /\ At("active", IF active = 0 THEN "pending" ELSE "get")
    /\ UNCHANGED <<hand, turn, counters, pool, decode, output>>

ReadPending ==
    /\ At("pending", IF pending = 0 THEN "stop" ELSE "get")
    /\ UNCHANGED <<hand, turn, counters, pool, decode, output>>

\* Mutant: an output without a result is not counted off.
Take_ResultsOnly(f) ==
    /\ pending' = IF f \in completed THEN pending - 1 ELSE pending
    /\ completed' = completed \ {f}
    /\ failed' = failed \ {f}
    /\ UNCHANGED <<turn, active, inflight, tasks, decode, output>>

\* rknnPool::get takes one output.
Take(f) ==
    /\ completed' = completed \ {f}
    /\ failed' = failed \ {f}
    /\ pending' = pending - 1
    /\ UNCHANGED <<turn, active, inflight, tasks, decode, output>>

Get ==
    /\ main = "get"
    /\ \/ \E f \in completed : Take(f) /\ hand' = {f} /\ main' = "deliver"
       \/ \E f \in failed : Take(f) /\ hand' = {f} /\ main' = "drop"
       \/ /\ completed \union failed = {}
          /\ main' = "active"
          /\ UNCHANGED <<hand, turn, counters, pool, decode, output>>

\* OnInferOutput; a full queue refuses the result.
Deliver ==
    /\ At("deliver", "active")
    /\ \E f \in hand :
         /\ inflight' = [inflight EXCEPT ![f[1]] = @ - 1]
         /\ IF Cardinality(outq[f[1]]) < QueueMax
            THEN outq' = [outq EXCEPT ![f[1]] = @ \union {f}]
            ELSE UNCHANGED outq
    /\ hand' = {}
    /\ UNCHANGED <<turn, active, pending, pool, decode, opc>>

\* Mutant: OnInferDropped is not called for a failed inference.
Drop_NotCounted ==
    /\ At("drop", "active")
    /\ hand' = {}
    /\ UNCHANGED <<turn, counters, pool, decode, output>>

\* OnInferDropped
Drop ==
    /\ At("drop", "active")
    /\ \E f \in hand :
         inflight' = [inflight EXCEPT ![f[1]] = IF @ > 0 THEN @ - 1 ELSE @]
    /\ hand' = {}
    /\ UNCHANGED <<turn, active, pending, pool, decode, output>>

\* VideoChannel::Stop, then the joins.
StopChannel ==
    /\ At("stop", "join")
    /\ running' = running \ {turn}
    /\ ready' = ready \ {turn}
    /\ UNCHANGED <<hand, turn, counters, pool, dpc, nextId, output>>

JoinDecode ==
    /\ At("join", "join_output")
    /\ dpc[turn] = "ended"
    /\ UNCHANGED <<hand, turn, counters, pool, decode, output>>

JoinOutput ==
    /\ At("join_output", IF turn + 1 < NumChannels THEN "stop" ELSE "destroy")
    /\ opc[turn] = "ended"
    /\ turn' = turn + 1
    /\ UNCHANGED <<hand, counters, pool, decode, output>>

\* The channels are destroyed before the pool: the decoders free their DMA
\* buffers here.
Destroy ==
    /\ At("destroy", "drain")
    /\ UNCHANGED <<hand, turn, counters, pool, decode, output>>

\* ~rknnPool waits until pending_count is 0 and throws the results away.
Drain ==
    /\ main = "drain"
    /\ \/ /\ pending > 0
          /\ \E f \in completed \union failed : Take(f)
          /\ UNCHANGED <<main, hand>>
       \/ /\ pending <= 0
          /\ main' = "end"
          /\ UNCHANGED <<hand, turn, counters, pool, decode, output>>

Main ==
    \/ ReadActive \/ ReadPending \/ Get \/ Deliver \/ Drop
    \/ StopChannel \/ JoinDecode \/ JoinOutput \/ Destroy \/ Drain

Next ==
    \/ Main
    \/ Infer
    \/ \E c \in Channel : DecodeThread(c) \/ OutputThread(c)

Spec == Init /\ [][Next]_vars

FairSpec ==
    /\ Spec
    /\ WF_vars(Main)
    /\ WF_vars(Infer)
    /\ \A c \in Channel : WF_vars(DecodeThread(c)) /\ WF_vars(OutputThread(c))
-----------------------------------------------------------------------------
(* Safety *)

Looping == main \in {"active", "pending", "get", "deliver", "drop"}

InPool == tasks \union completed \union failed

\* m_inflight_frames of a channel is the number of its frames between the
\* decode callback and main: an undercount would let the channel exceed its
\* limit, an overcount would stall its decode thread for ever.
InflightCounts ==
    main \notin {"drain", "end"} =>
      \A c \in Channel :
        /\ inflight[c] = Cardinality(Of(InPool \union hand, c))
                         + (IF dpc[c] \in {"put", "submit"} THEN 1 ELSE 0)
        /\ inflight[c] <= MaxInflight

\* pending_count is the number of outputs main, or later ~rknnPool, has yet to
\* take, counted from before the task is submitted: it never reads 0 while a
\* task is on its way.
PendingCounts ==
    pending = Cardinality(InPool)
              + Cardinality({c \in Channel : dpc[c] = "submit"})

\* Both counters are exact although every change of a frame's place and the
\* change of its counter are separate steps of different threads, and though
\* the gate is passed before a frame is counted no channel exceeds its limit.
CountersExact == InflightCounts /\ PendingCounts

\* active_channels is the number of decode threads that have not ended: it was
\* set to the number of channels, and every file could be opened.
ActiveMatches == active = Cardinality({c \in Channel : dpc[c] # "ended"})

\* If active_channels matches, main leaves its loop only when every decode
\* thread has ended and every frame has been handed back; the decoders it
\* then destroys have no buffer in an inference.
ExitDrained ==
    ActiveMatches /\ ~Looping =>
        /\ \A c \in Channel : dpc[c] = "ended"
        /\ InPool = {}

\* Teardown takes away nothing that is in use, even when main left its loop
\* early: the channels are destroyed when their decode threads have ended and
\* every result that was delivered has been popped (stop() lets pop() drain
\* the queue first), the models and the pool when no task is left.
TeardownOrder ==
    /\ main \in {"destroy", "drain", "end"} =>
         \A c \in Channel : outq[c] = {} /\ dpc[c] = "ended"
    /\ main = "end" => InPool = {}

\* main leaves its loop only when all channels are closed (main.cc:62).
ExitOnlyWhenAllClosed ==
    ~Looping => \A c \in Channel : dpc[c] = "ended"

-----------------------------------------------------------------------------
(* Liveness *)

\* Once main begins to stop the channels the program ends, although the
\* throttle loop does not look at m_running and nobody takes results any more.
StopEnds == (main = "stop") ~> (main = "end")

\* As long as active_channels matches, the program ends: every file is
\* finite, every frame comes back, and no loop waits for one that waits for it.
ProgramEnds == []ActiveMatches => <>(main = "end")
===============================================================================
