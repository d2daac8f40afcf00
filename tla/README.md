# Models of the multi-channel RKNN / MPP pipeline

This directory holds TLA+ models of the program built from `src/`: a decoder,
inference and encoder pipeline for several video channels on a Rockchip board.
TLC checks every model on small instances; TLAPS proves the most important safety
properties for every value of the constants. Paths below are relative to the
repository; line numbers are those of the modelled commit.

- [1. The system](#1-the-system)
- [2. The modules](#2-the-modules)
- [3. The runs](#3-the-runs)
- [4. Fairness](#4-fairness)
- [5. What is proved](#5-what-is-proved)
- [6. What only TLC shows](#6-what-only-tlc-shows)
- [7. Disagreements between the code and its documents](#7-disagreements-between-the-code-and-its-documents)
- [8. What is not modelled, and abstractions](#8-what-is-not-modelled-and-abstractions)
- [9. Plan](#9-plan)

How to run, in this directory:

    tlc -config MCReorder_run.cfg MCReorder.tla     # and so on, one per .cfg
    tlapm ReorderProofs.tla                         # and every *Proofs.tla

## 1. The system

### Data flow and threads

    file -> DecodeLoop -> MppDecoder -> decode callback -> rknnPool::put
              (one thread per channel, in-flight gate, throttle)
         -> ThreadPool worker: rkYolov5s::infer + post_process (12 workers)
         -> completed_outputs -> main: OnInferOutput / OnInferDropped
         -> m_output_queue -> OutputLoop: ProcessInferOutput, reorder buffer
              (one thread per channel)
         -> RkMppEncoder::PushBuffer -> hardware -> OutputThreadFunc
              (one thread per encoder) -> encode callback -> StreamPublisher

A picture is never copied between decoder and encoder. It lies in one of 16 DMA
buffers the decoder allocates (`MppDecoder::AllocateExternalBuffers`), and the
buffer travels by reference count: taken in the decode callback, carried by
the inference and its result, given up when the result is dropped or when the
encoder has coded the picture. Back-pressure, ordering and teardown all come
down to who still holds a buffer.

### Components

| component | state | operations | what makes it correct |
|---|---|---|---|
| reorder stage (`StreamChannel.cpp` 171-283) | `m_reorder_buffer`, `m_expected_frame_id`, `m_reorder_waiting`, `m_reorder_wait_start` | `OutputLoop`, `ProcessInferOutput` | output strictly in frame order; each result owned once; bounded buffer; each gap has its own timeout |
| channels and `main` (`main.cc`, `StreamChannel.cpp`) | `active_channels`, `m_inflight_frames`, `m_running`, `m_encoder_ready`, `m_frame_counter` | `DecodeLoop`, decode callback, `OnInferOutput`, `OnInferDropped`, `Stop`, the main loop, the destruction order | exact counters; the program ends, and not before everything is drained |
| inference pool (`rknnPool.hpp`) | `id`, `models`, `completed_outputs`, `pending_count` | `init`, `put`, `get`, `~rknnPool` | `pending_count` never reads 0 with a task on its way; models outlive their tasks |
| thread pool (`ThreadPool.hpp`) | `tasks_`, `threads_`, `finishedThreadIDs_`, `currentThreads_`, `idleThreads_`, `quit_` | `submit`, `worker`, `joinFinishedThreads`, `~ThreadPool` | every task runs once; threads joined once; no wait that nobody ends |
| model runner (`rkYolov5s.cc`) | `ctx`, `input_dma_*`, `input_mems`, `mtx`, attribute arrays | `init`, `infer`, `~rkYolov5s` | a result is that of its own frame; every error path releases what was taken, once |
| post-processing (`postprocess.cc`) | the label table shared by all models, its `init` flag | `post_process`, `process`, `quick_sort_indice_inverse`, `nms`, `deinitPostProcess` | detections ranked, with their own probability; suppression is greedy; labels outlive their use |
| video decoder (`MppDecoder.cpp`) | `m_frm_grp`, `buffer_map`, the hardware | `DecodePacket`, `FlushDecoder`, `AllocateExternalBuffers`, `ReleaseAll` | no picture or buffer forgotten; a call returns |
| video encoder (`MppEncoder.cpp`) | `pending_frames_`, `is_running_`, the hardware | `PushBuffer`, `Init`, `GetHeader`, `Start`, `OutputThreadFunc`, `RecycleOldestPendingFrame`, `Stop` | the buffer recycled is the one that was coded; all buffers come back |
| output queue (`ThreadSafeQueue.hpp`) | `m_queue`, `m_stop` | `push`, `pop`, `stop` | drains before it reports the end; drops only when full |
| DMA heap (`dma_alloc.cpp`) | descriptors, mappings | `dma_buf_alloc`, `dma_buf_free` | nothing left behind on failure |
| packet callback and `~VideoChannel` (`StreamChannel.cpp` 57-80, 355-405) | `m_encode_packet_counter`, `m_last_packet_pts` | `InitEncoder`, the encode callback, the destructor | increasing time stamps; the destructor ends with everything released |
| stream publisher (`StreamPublisher.h`) | FFmpeg context, `started_` | `Init`, `Push`, `Close` | packets only between header and trailer; everything released wherever `Init` gave up |
| detection overlay (`postprocess.cc` 351-360, `StreamChannel.cpp` 410-440) | none | scaling a box back, `EncodeZeroCopy` | the rectangle lies in the picture and has even corners |
| image preprocessing, timing log | none that matters | | |

### Interactions and hard behaviours

* **Order.** Results of a channel come back from twelve workers in any order; a
  result may be missing (RGA failure, full queue). Timeout, overflow jump and
  late results meet in `ProcessInferOutput`.
* **Counters read without a common lock.** `main` reads `active_channels`, then
  `pending_count`, while decode threads move frames from one to the other.
* **Waiting on each other.** The decode thread waits for `m_inflight_frames`
  and for the pool; `main` brings both down; `Stop` joins the decode thread on
  `main`, which then brings nothing down any more.
* **Fixed buffers.** All 16 buffers of a decoder may be behind one missing
  frame.
* **Hand-written synchronisation.** The pool decides on `idleThreads_` whether
  to notify or to start a thread, and joins threads while it holds its mutex;
  the encoder matches packets to pending frames by position only; the output
  queue notifies after it has unlocked; the publisher is used by three threads
  and the label table by all models, both without a lock.
* **Failure in the middle** of `rknnPool::init`, `rkYolov5s::init`,
  `RkMppEncoder::Init`, `RtspPublisher::Init`, `AllocateExternalBuffers`,
  `dma_buf_alloc`, `PushBuffer`; most callers go on after it.
* **Destruction.** `~VideoChannel` runs against the encoder's thread, which may be
  asleep in the packet callback; `~ThreadPool` against workers that retire;
  a model is destroyed by whichever thread drops its last reference.

`PROJECT.json` lists these as hazards, each at its line, with the properties
that cover it.

## 2. The modules

Definitions keep the names of the code where they can; comments name the
member a variable stands for. Operators called `X_Something` before an operator
`X`, under a comment "Mutant", are X with a plausible bug; nothing uses them.
They document that the properties can fail (`mutants` in `PROJECT.json`).

| module | models | uses |
|---|---|---|
| `InOrderRelay` | abstract: a stage that holds, forwards in order, or discards | |
| `Reorder` | `OutputLoop`, `ProcessInferOutput` | refines `InOrderRelay` |
| `BoundedQueue` | abstract: first in first out, bounded, the end told after the last item | |
| `ThreadSafeQueue` | `ThreadSafeQueue` with mutex and condition variable | refines `BoundedQueue` |
| `ChannelFlow` | one channel from decoder to encoder on a fixed set of buffers | extends `Reorder`, instance of `ThreadSafeQueue` |
| `Pipeline` | all channels, the pool's counters, `main`, shutdown | |
| `TaskPool` | abstract: tasks start in order, run once, destruction waits | |
| `ThreadPool` | `dpool::ThreadPool` | refines `TaskPool` |
| `ModelPool` | `rknnPool` from `init` to its destructor: which model a frame goes to, `infer`, the label table, who destroys a model | instance of `ModelLife` |
| `ModelLife` | `rkYolov5s::init` with its error returns, `~rkYolov5s` | `DmaHeap` |
| `Decoder` | `MppDecoder` | `DmaHeap` |
| `Encoder` | `RkMppEncoder` from `Init` to `Stop` | |
| `Publisher` | `RtspPublisher` | |
| `Stream` | the output side of a channel: `InitEncoder`, packet callback, `~VideoChannel` | extends `Encoder`, instance of `Publisher` |
| `Detection` | `post_process` | |
| `Overlay` | a box from the network's picture to the rectangle drawn | |
| `DmaHeap` | what `dma_buf_alloc` takes and leaves | |
| `ReorderProofs`, `ChannelFlowProofs`, `PipelineProofs`, `ThreadPoolProofs`, `EncoderProofs`, `ModelPoolProofs`, `DecoderProofs`, `DetectionProofs` | proofs about the module of the name (`ChannelFlowProofs`: `ThreadSafeQueue` as well; `EncoderProofs`: `Encoder` and `Stream`; `DetectionProofs`: `Detection` and `Overlay`) | |

Each `MCx` module instantiates `x` for TLC.

**Reorder.** `pc` is "idle" while the output thread is in `pop()` and "scan" in
the `while` loop of `ProcessInferOutput`; `DropLate` and `Insert` are the two
outcomes of its first lines, and each iteration of the loop is one of `Emit`,
`Skip`, `StopEmpty`, `StartWait`, `KeepWaiting`. The three ways out share
`Leave`, the tail with the overflow jump. No clock: `timer` is "off" when
`m_reorder_waiting` is false, then "running", then "over" once 120 ms have
passed. Whether a frame ever arrives is decided by `Lose`.

**ThreadSafeQueue.** A critical section is one step. `push` notifies in a step of
its own (`NotifyOne`), since the code does it after unlocking, and a woken
consumer tests the predicate again when it gets the mutex; `wait` may return
without cause (`Spurious`).

**ChannelFlow.** Adds to `Reorder` the frames in flight, the output queue with its
threads and the buffers that come back from the encoder; a frame is decoded only
into a free buffer. `Stop` may come at any time.

**Pipeline.** `main` and each decode thread are program counters over the atomic
accesses of the shared counters; `put` counts (`CountPending`) before it submits
(`Submit`), `get` counts down when it takes. `Infer` is a worker finishing a
task, with or without a result. `Stop`, the joins, the destruction of the
channels and `~rknnPool` follow `main.cc` 107-115 in order. `ActiveInit` is the
set of initial values of `active_channels` to consider.

**ThreadPool.** A critical section of `mutex_` is one step; a worker in
`joinFinishedThreads` holds the mutex over several (`joining`). A thread that
has timed out but not yet got the mutex ("timedout") is still counted idle and
can no longer be notified; spurious wake-ups are possible at any time. The
destructor is `quit_`, `notify_all` and the joins in three steps, the last of
which reads `threads_` without the mutex.

**ModelPool, ModelLife.** Models are initialised one after the other, each of them
may fail at each step, and the program then tears the pool down. After that come
the steps of `infer` under the model's mutex, the last reference to a
model dropped by whichever thread destroys it last, and `deinitPostProcess` as a
read (`CheckLabels`) and a free (`FreeLabels`) before the members are released.
`held` is what the process has, `fields` what the members of the object say; the
destructor only sees the latter, and of `ctx`, which the constructor leaves without
a value, not even that. `wrong` records what a model released that it did not hold. The `static` flag that guards the loading of the
labels is read without synchronisation, which is a data race; `Post` and `Crash`
are the outcomes it can have.

**Decoder.** A packet stands for a picture. Retries, draining, the announcement
of a size and the allocation with its failures; the hardware and the channel
behind the callback are external.

**Encoder.** A frame stands for its source buffer; `refs` counts references.
`setup` is where `InitEncoder` is on the decode thread; after an `Init` that
failed the calls through the null `mpi_` are steps to "crashed".
`OutputThreadFunc` looks at `is_running_` (`Poll`) and is then in
`encode_get_packet` ("get"), from which a packet may still come after `Stop` has
cleared the flag.

**Publisher, Stream.** `Publisher` has `Init` with its early returns, `Push` and
`Close`; `muxer` and `sent` follow what libavformat allows. `Stream` runs the
packet callback on the encoder's thread ("due", "push", "write"), with the time
stamp computed as in the code, and closes the publisher after the encoder has been
deleted.

**Detection.** One pass of a loop is one step. `ProcessCell` is one cell of the
three calls of `process`; the quicksort has its calls still to come as a sequence
(`calls`, the code's stack), and in a call the hole goes `Down` and `Up` between
`low` and `high` until the key is put into it (`Place`); `NmsEntry` is the outer loop
of `nms` with the whole inner one (`Suppress`), `NmsClass` the loop over `class_set`,
`CollectEntry` the reporting with its cap.

**Overlay.** One axis of a box: clamped to the network's picture, scaled back with
either rounding, clamped to the decoded picture and made even.

## 3. The runs

Each run is one question. The state spaces are finite because files, frames or
tasks are, so no state constraint is used; deadlock is not checked
because every modelled program stops on purpose. Every property of a passing run
has a mutant of the code that TLC finds to violate it under the same bounds.

| run (distinct states) | shows | bounds, and why they are enough |
|---|---|---|
| `MCReorder_run` (11 636) | in-order output, no overtaken entry, gap and wait flag agree, bounded buffer, each gap timed alone, an arrival after the timeout moves on, refinement of `InOrderRelay` | 6 frames, threshold 2: the jump needs 3 buffered frames, then late frames before and a second gap after it |
| `MCPipeline_run` (79 536) | exact counters and in-flight limit, drained exit, teardown order, termination of the program and of stopping | 2 channels with 3 and 1 frames, in-flight limit 2, throttle 3, queue 1: every gate closes, the queue overflows; `active_channels` starts at 2 (right) or 1 (too small, as 2 for 6 in `main.cc`) |
| `MCPipeline_mismatch` | a violation, see 7 | `active_channels` starts at 1 of 2 |
| `MCThreadPool_run` (36 673) | exact counters, joins, no abandoned task, `threads_` not changed while the destructor iterates, refinement of `TaskPool` with its liveness | 3 thread ids, 2 threads, 4 tasks: one more id than `maxThreads_` lets a thread be leaving while all others live; 4 tasks make the queue grow behind busy threads and let threads retire and be reused |
| `MCStream_run` (58 764) | position matching recycles the right buffer, a buffer in the hardware is referenced, `mpi_` is null only after a failed `Init`, the muxer's protocol, everything released, every buffer comes back, the destructor ends | 3 frames, 2 packets that end no frame, the 90 kHz clock and 30 frames a second of the code: a refused push between accepted ones, pending frames at each stage of `Stop`; a time stamp is never held back, as packets are 3000 ticks apart |
| `MCChannelFlow_code` (42 047) | exactly one place per frame and buffer, no limit reached, results abandoned only behind a gap, `BoundedQueue` in its channel, a lossless stream ends, the output thread ends | 5 frames, 3 buffers, 2 in flight, queue and threshold 4: as in the code (16, 8, 30, 20) the buffers are fewer than queue and threshold, more than the in-flight limit, fewer than the frames |
| `MCChannelFlow_starve` | a violation, see 7 | 4 frames, 2 buffers |
| `MCDetection_run` (2 056 832) | ranked detections with their own probability; greedy suppression for one class; with two, no candidate missing without a reason | 4 cells of 6 kinds (below, on and above the thresholds, ties, two classes), every overlap relation, cap 3: the quicksort sees every order of up to 4 keys with repetitions, the cap bites |
| `MCOverlay_run` (2 000) | the rectangle of a box is even, in the picture, not empty, and covers the box | a network of 10 pixels, boxes up to 2 pixels beyond it, pictures from 2 to 30 pixels: smaller, equal, a multiple and a fraction larger |
| `MCModelPool_infer` (166 108) | a result is that of its own frame; models and labels outlive their use; nothing released twice, unheld or in the wrong order but a `ctx` never set; nothing left but what `dma_buf_alloc` loses | 3 frames, 2 models, 2 workers: two frames share a model, a worker can want a busy one, and `init` can fail at each step of the first model or of one that shares its weights |
| `MCModelPool_exit` | a violation, see 7 | the same |
| `MCDecoder_run` (9 149) | no picture forgotten, at most one buffer missed by `ReleaseAll`, a call returns | 2 buffers, 2 retries, 4 packets, a size change: allocation fails at either buffer, the retries run out, both buffers can be away |

`LimitsNeverReached` and `OnlyBehindGapAbandoned` depend on the sizes of the code:
16 buffers, a queue of 30, a threshold of 20. With more buffers than the threshold
the overflow jump can leave the frame waited for in the reorder buffer, and the
output thread can then end with a result that no gap holds back; both properties
therefore state the relation they need.

## 4. Fairness

* Threads are scheduled: weak fairness of each thread's steps (`Main`,
  `DecodeThread(c)`, `OutputThread(c)`, `WorkerStep(w)`, `PushBuffer`, ...). The
  loops of the code poll with sleeps or wait on condition variables without
  priorities, so a runnable thread runs.
* Time passes: `Elapse` is weakly fair. In `ThreadPool` and `ThreadSafeQueue` neither
  a timeout nor a spurious wake-up is fair: nothing may depend on them, and the
  refinements of `TaskPool!Spec` and `BoundedQueue!Spec`, which contain fairness,
  show that nothing does. A lost wake-up would violate them.
* Hardware finishes what it has accepted: `Infer`, `Recycle`, and in `Stream`
  strong fairness of `GetLast`, since a poll of the encoder thread can find
  nothing any number of times but not for ever.
* The packet callback returns (`WF` of `Callback`): its sleep is bounded by the frame
  index and its network write by the time-outs of `StreamPublisher.h:114`.
* `Decoder` assumes of nothing but the calling thread that it runs: the hardware
  may refuse every packet, and `DecodePacket` must return all the same.
* No fairness at all on starting a shutdown: `Stop`, `~VideoChannel` and
  `~ThreadPool` may begin or not; once begun they go on.

## 5. What is proved

All obligations of the eight proof modules are checked by `tlapm`. A theorem
holds for every value of the constants that satisfies the named assumption of
the module (`ReorderAssumption`, `FlowAssumption`, ...): natural numbers, at least
one thread, finite sets of threads, even picture widths.

**Reorder** (`ReorderProofs`), for any set of frame ids and any threshold.
`Invariance` is the conjunction of `TypeOK`, `OwnedOnce`, `NoneOvertaken`,
`EncodedArePast`, `GapTracked` and `JumpPending`. The last is the strengthening:
`ReorderBounded` speaks of the state between two results only and is not
inductive. While the loop runs the buffer may be one larger, and after a jump it may
stay above the threshold only if the frame now waited for is in the buffer, so
that the next arrival shrinks it before it can jump again. From it
`ResultsOwnedOnce`, `NoEntryOvertaken`, `BufferBounded`, `WaitFollowsGap`;
`OutputInOrder`, since what is encoded next is `m_expected_frame_id` and
everything before is smaller; and `ReorderImplementsRelay`, the refinement of
`InOrderRelay`. `EachGapTimed` needs no invariant: it is shown step by step.
`NoStepWastesTimeout` is what `ArrivalAfterTimeoutUnblocks` needs besides fairness: the
loop never starts waiting, or breaks, when the timeout is over (`WaitHasEntry`).

**Output queue** (`ChannelFlowProofs`), for any threads and capacity:
`QueueTyping` and `QueueIsBoundedQueue`, the refinement of `BoundedQueue` without its fairness. Waiting,
notifying and waking stutter.

**Channel** (`ChannelFlowProofs`), for any number of frames and buffers.
`ChannelRunsReorder` and `ChannelRunsQueue` are the composition: projected to its
variables the channel takes only steps of `Reorder` and of `ThreadSafeQueue`, so that
the theorems above hold in it. The reorder stage's invariant is thereby given, and
`FlowInvariance` adds `OnePlace` (with `OwnedOnce` from the reorder stage: buffered,
with the encoder and released exclude each other; the rest is inductive as it stands,
with the queue free of repetitions), `Conserved` (frames holding a buffer are never more than there are
buffers; what was released is older than the frame waited for) and `EndsIdle`. From
it `EveryFrameInOnePlace`; `LimitsOutOfReach`, by counting: a queue without
repetitions is no longer than the set of its frames, which with the frame to be
pushed is part of the buffers in use; `AbandonedBehindGap`: the frame waited for is
older than a buffered one, hence was decoded, hence is somewhere, and every
place but "in flight" and "lost" is excluded.

**Counters and shutdown** (`PipelineProofs`), for any number of channels, files and
limits. The invariant behind `Counters` says where every frame is (`Places`: in one
place, and the frame in a decode callback in none yet) and what the gate has
established when the frame is counted (`Gated`): between gate and count no other
frame of the channel can have been counted, as only its own decode thread does.
`Drained` needs `Leaving`: every close lowers `active_channels` and the number of
threads that have yet to close together, and after `main` has read 0 a frame can be
left behind only while more threads are at work than the counter says. `Teardown`
needs `Stopping`: channels before `turn` are joined, and an output thread that has
ended leaves an empty queue to which nobody pushes any more.

**Thread pool** (`ThreadPoolProofs`), for any finite set of thread ids and tasks and
any `maxThreads_`. The invariant has the counters (`CountersExact`) and `GoneInTurn`:
while the pool is open the only thread that has gone and is not joined is the one in
`finishedThreadIDs_`. From it `Counters`, `Joinable`, `Attended`, `Frozen`, and
`Implements`: every step is a step of `TaskPool` or stutters.

**Encoder** (`EncoderProofs`), for any number of frames, refusals and packets.
`ChannelRunsEncoder`: within `Stream` the encoder takes only its own steps.
`RecyclesRight` and `KeptWhileEncoded` rest on `Positions` (pending and hardware
frames rise, and what the hardware has is pending), `FirstCoded` (of the pending
frames only the first can have been coded, and only while the thread holds
its last packet) and `Referenced` (the exact reference count of every buffer).
`CrashExplained` follows from `Handles`. `StreamInvariance` adds the publisher, the
callback and the destructor: the encoder's thread starts only when the publisher has
been tried (`Opened`), while the callback is due or runs that thread is in it
(`Calling`), and from the clearing of the pending frames on none comes back
(`Emptied`). From it `MuxedInOrder`, for any clock and frame rate, and `AllGivenBack`.

**Models** (`ModelPoolProofs`), for any number of models, frames and workers.
`ResultsNotMixed`, from mutual exclusion on a model (`OneInside`).
`Owned` says for every point of `init` and of the destructor what the members of the
object say about what it holds, among it that a pointer that is tested later is null
once its memory was destroyed, and `Unheld` that only a `ctx` never set is released
without being held. `PoolInvariance` adds the
tasks and the teardown: `Counted` (`pending_count` is exactly the tasks that owe a
result and the results not yet taken), `Phases` (main destroys models only when no
task owes anything, and what may be running at each point of main) and `Disowned` (a
model that neither the vector nor a task refers to is being destroyed or gone). From
it `UsedModelsAreWhole` and `NothingElseLost`; and `NothingReleasedTwice`, with
`AllSet`: once a frame has been put every model was initialised completely, so that
from then on there is no exception.

**Decoder** (`DecoderProofs`), for any number of buffers, packets, retries and size
changes. `DecoderInvariant` says where the buffers are (`GroupWhole`: the group is
the buffers that are ready, those with the channel and those in the output, these
three apart, and no buffer is in two pictures) and how far the allocation got
(`AllocatedOnce`: while it runs all that is allocated is in the group, and the
announcement it answers is still the next output; afterwards at most one buffer is
outside the group, and the group exists, so that no second allocation can begin).
`NoBufferLost` and `OneBufferUnfreed` say nothing of where an allocation stands and
are not inductive. From the invariant `NothingForgotten` and `OneUnfreed`. `CallIsBounded`
gives `PacketCallReturns` its measure, `StepsLeft`: tries left, pictures the hardware
still has or has put out, and buffers not yet allocated. Each step of `DecodePacket`
lowers it, no step of the hardware or of the channel raises it.

**Detections** (`DetectionProofs`), for any number of cells, classes and results,
any thresholds and any relation of overlaps. `PostProcessInvariant` has a part per
loop. `SortInv`: with the key in its hole the array has every box once, with its own
score (`Filled`, `Whole`); any two entries out of order are in one of the ranges
still to be sorted (`Ordered`), which do not overlap (`Apart`), and of the range that
runs all above `high` is at most the key and all below `low` at least
(`Partitioned`). When no range is left the array is in order, which is `SortCorrect`:
what the recursion computes is had without induction over the array, by an invariant
of its stack. `NmsInv`: what is left is in order (`Kept`), and, with one class, every
entry gone through has suppressed what it overlaps, while what is missing was
suppressed by an entry before it that is still there (`Greedy`). `CollectInv`: the
results are the entries left so far, in their order, up to the cap (`Reported`). From
it `DetectionsRanked` and `DetectionsGreedy`. `AnyClasses` is what remains true with
several classes, when the filter by rank lets boxes suppress others of another class
and lets a box that is itself suppressed later suppress: `SuppressionExplained`. The
best candidate is reported first, and whatever is missing overlaps one as probable or
is cut off by the cap behind better ones. Its invariant (`AnyClassInv`) is inductive relative to `Inv`;
TLC has checked it, and `StepsLeft`, on the instances of the runs. `RectanglesFit` is `Overlay`'s, for
every network size, picture width and box.

In all of them a step that preserves an invariant has one proof step per action,
actions with the same effect grouped by a lemma first (`Cases`, `WithMutex`,
`Elsewhere`). Each inductive invariant was model-checked before it was proved.

## 6. What only TLC shows

Liveness everywhere, and with it the fairness parts of the two refinements
(`QueueSpec`, `PoolSpec`): out of the prover's reach. That is the return of a packet's
call (`PacketCallReturns`), the end of the program, of stopping, of the destructors
and of a lossless stream (`ProgramEnds`, `StopEnds`, `DestructorEnds`,
`OutputThreadEnds`, `LosslessStreamEnds`), the return of every buffer
(`EveryBufferReturns`) and that an arrival after the timeout moves the output on
(`ArrivalAfterTimeoutUnblocks`). For the first and the last the proofs have the part
without fairness, `CallIsBounded` and `NoStepWastesTimeout`. That the loops of
`Detection` end is not stated: each runs over a range that shrinks. Every safety
property of a passing run is proved.

## 7. Disagreements between the code and its documents

* **`MCPipeline_mismatch`, `ExitOnlyWhenAllClosed`** (`main.cc:33`).
  `active_channels` starts at 2 and six channels count it down. `main` can leave
  its loop with four channels still decoding, against the comment at `main.cc:62`
  and the message at `:65`. Once the counter has passed 0 unseen, the loop never
  ends instead. `Teardown` says what still holds then: delivered results are
  processed, channels are destroyed after their threads, and no task outlives the
  pool.
* **`MCChannelFlow_starve`, `BufferComesBack`** (`StreamChannel.cpp:244`,
  `MppDecoder.cpp:182`). The reorder timeout is looked at only when another result
  is processed. If the buffers of the decoder are all behind one lost frame, no
  result can come, no buffer comes back, and `DecodePacket` gives up packets with
  the message that the hardware is stuck. The notes ask that a missing frame is
  not waited for without bound
  (`docs/multichannel_realtime_pipeline_notes.md:322`).
* **`MCModelPool_exit`, `LabelsFreedOnce`** (`postprocess.cc:368`).
  `deinitPostProcess` tests, frees and clears the shared label pointers without a
  lock, and a worker that is destroying its last task runs it at the same time as
  the thread that destroys the pool.

Other defects met while modelling, which contradict no document:

* a channel whose file cannot be opened returns without counting itself off
  `active_channels` (`StreamChannel.cpp:291`), so `main` never ends;
* the buffer whose `mpp_buffer_commit` fails (`MppDecoder.cpp:135`) is in no table
  and never freed (`OneBufferUnfreed` shows that it is the only one);
* `InitEncoder` goes on after an `Init` that failed and then calls through a null
  pointer (`CrashOnlyAfterFailedInit` shows that this is the only case);
* the destructor of a model calls `rknn_destroy` with a `ctx` that nothing has set
  (`rkYolov5s.cc:409`) when its init failed before `:122` or was never called;
  `ReleasedOnce` shows that it is the only thing released without being held, and
  that it never happens once a frame has been put;
* `OutputLoop` ends without a last pass over `m_reorder_buffer`; what is behind a
  lost frame is neither encoded nor put back (`OnlyBehindGapAbandoned`);
* both class filters of `nms` index `classIds` with the rank instead of the box
  (`postprocess.cc:126` and below), so that with several classes boxes of
  different classes can suppress each other; `SuppressionExplained` is what holds;
* the label table is loaded behind an unsynchronised flag (`postprocess.cc:265`).

Two hazards of `PROJECT.json` have no property: the channel without a file, one
missing decrement in every run, and the unsynchronised flag, whose outcomes are
choices of `ModelPool`.

## 8. What is not modelled, and abstractions

* Image preprocessing (`letterbox`, `resize_rga`) and `FilePublisher` have no caller
  in the program, nor have `GetFreeBuffer` and `AllocateExternalBuffers` of the
  encoder. The timing log keeps no state that other parts depend on, and the NPU core
  a model is bound to (`coreNum.hpp`) influences nothing.
* `src/src/rtmp_streamer.cpp` and `src/example/` are not part of the build; the
  headers of the vendor libraries are declarations.
* The vendor libraries (MPP, RKNN, RGA, FFmpeg) are external: they accept or refuse,
  finish in order, and count references as the code relies on.
* `Reorder` has no branch for two results with one `frame_id`: `m_frame_counter`
  numbers frames uniquely, so it cannot be taken. The drop statistic is only
  logged.
* `Pipeline` leaves out packets that yield no frame, and the order inside the
  queues, on which nothing there depends. `ChannelFlow` retries a refused packet
  without end; the code gives it up after 200 tries, which frees no buffer.
* The decoder is never sent an end-of-stream packet (`StreamChannel.cpp:328` and
  below), so the last pictures of a file may stay in the hardware; a file is the
  frames that come out.
* `Detection` abstracts a box to which others it overlaps too much.
* Results of the `rknn_*` calls that the code does not read (`rkYolov5s.cc:352`) are
  taken to be successes; an exception out of `infer`, which would never be counted
  off `pending_count` (`rknnPool.hpp:95`), is left out, since nothing but a lack of
  memory throws, and so is a label file that cannot be read (`postprocess.cc:99`).
  `ResultOfOwnFrame` holds on that assumption. That `rknn_destroy` gets a `ctx` never
  set is recorded in `wrong`; what the vendor library makes of it is not followed.
* `ThreadPool` promises that a task is run, not that it is run in parallel: two
  submissions while one idle thread wakes up notify once and start no thread
  (`ThreadPool.hpp:78`), and the second task waits although a thread could have been
  started.

## 9. Plan

Done: every component that keeps state, with the compositions `ChannelFlow`
(`Reorder`, `ThreadSafeQueue`), `Stream` (`Encoder`, `Publisher`) and `ModelPool`
(`ModelLife`), three abstract specifications with their refinements, and proofs of
every safety property the passing runs check.

Left, in this order:

1. The measures behind `StopEnds`, `DestructorEnds` and `OutputThreadEnds`, in the manner
   of `CallIsBounded`.
2. `ChannelFlow` on `Decoder` instead of a set of free buffers, so that
   `NothingForgotten` holds in the channel by composition, as `ChannelRunsReorder`
   does for the reorder stage.
