--------------------------- MODULE ChannelFlowProofs ---------------------------
(***************************************************************************)
(* ChannelFlow.tla keeps its safety properties for any number of frames    *)
(* and buffers and any limits.                                             *)
(***************************************************************************)
EXTENDS ChannelFlow, ReorderProofs

FlowTyped ==
    /\ frameCounter \in Nat
    /\ inflight \subseteq Frame
    /\ outq \in Seq(Frame)
    /\ consumer \in [{"output"} -> {"out", "waiting", "woken", "ended"}]

\* What leaves for good is older than the frame waited for, only coded frames
\* are given back, and the frames holding a buffer are never more than there
\* are buffers.
Conserved ==
    /\ \A f \in released : f < expected
    /\ recycled \subseteq encoded
    /\ Cardinality(Busy) <= NumBuffers

\* The output thread returns between two results from a stopped, empty queue.
EndsIdle == consumer["output"] = "ended" => outq = <<>> /\ phase = "stopped" /\ pc = "idle"

FlowInv == OnePlace /\ Conserved /\ EndsIdle

-----------------------------------------------------------------------------
(* The queue as a set of frames *)

LEMMA Appended ==
    ASSUME outq \in Seq(Frame), NEW f \in Frame, outq' = Append(outq, f)
    PROVE  /\ outq' \in Seq(Frame)
           /\ Queued' = Queued \union {f}
           /\ f \notin Queued /\ (\A i, j \in DOMAIN outq : outq[i] = outq[j] => i = j)
                => \A i, j \in DOMAIN outq' : outq'[i] = outq'[j] => i = j
<1>1. /\ outq' \in Seq(Frame) /\ Len(outq) \in Nat
      /\ DOMAIN outq = 1 .. Len(outq)
      /\ DOMAIN outq' = 1 .. Len(outq) + 1
      /\ \A i \in 1 .. Len(outq) : outq'[i] = outq[i]
      /\ outq'[Len(outq) + 1] = f
  OBVIOUS
<1>2. \A i \in DOMAIN outq' : i \in DOMAIN outq \/ i = Len(outq) + 1
  BY <1>1
<1>3. Queued' = Queued \union {f}
  BY <1>1, <1>2 DEF Queued
<1>4. QED
  BY <1>1, <1>2, <1>3 DEF Queued

LEMMA Popped ==
    ASSUME outq \in Seq(Frame), outq # <<>>, outq' = Tail(outq)
    PROVE  /\ Head(outq) \in Frame /\ Head(outq) \in Queued
           /\ outq' \in Seq(Frame)
           /\ (\A i, j \in DOMAIN outq : outq[i] = outq[j] => i = j) =>
                /\ \A i, j \in DOMAIN outq' : outq'[i] = outq'[j] => i = j
                /\ Queued' = Queued \ {Head(outq)}
<1>1. /\ outq' \in Seq(Frame) /\ Len(outq) \in Nat /\ Len(outq) >= 1
      /\ Head(outq) = outq[1] /\ Head(outq) \in Frame
      /\ DOMAIN outq = 1 .. Len(outq)
      /\ DOMAIN outq' = 1 .. Len(outq) - 1
      /\ \A i \in 1 .. Len(outq) - 1 : outq'[i] = outq[i + 1]
  OBVIOUS
<1>2. Head(outq) \in Queued
  BY <1>1 DEF Queued
<1>3. ASSUME \A i, j \in DOMAIN outq : outq[i] = outq[j] => i = j
      PROVE  /\ \A i, j \in DOMAIN outq' : outq'[i] = outq'[j] => i = j
             /\ Queued' = Queued \ {Head(outq)}
  <2>1. \A i \in DOMAIN outq' : i + 1 \in DOMAIN outq /\ outq'[i] = outq[i + 1] /\ i + 1 # 1
    BY <1>1
  <2>2. \A i \in DOMAIN outq : i = 1 \/ (i - 1 \in DOMAIN outq' /\ outq'[i - 1] = outq[i])
    BY <1>1
  <2>3. Queued' \subseteq Queued \ {Head(outq)}
    BY <1>1, <1>3, <2>1 DEF Queued
  <2>4. Queued \ {Head(outq)} \subseteq Queued'
    BY <1>1, <2>2 DEF Queued
  <2>5. \A i, j \in DOMAIN outq' : outq'[i] = outq'[j] => i = j
    BY <1>1, <1>3, <2>1
  <2>6. QED
    BY <2>3, <2>4, <2>5
<1>4. QED
  BY <1>1, <1>2, <1>3

-----------------------------------------------------------------------------
(* The channel takes only steps of its parts *)

LEMMA FlowTypedStep ==
    ASSUME FlowTyped, [FlowNext]_allVars
    PROVE  FlowTyped'
<1>1. CASE DecodeFrame
  BY <1>1 DEF DecodeFrame, FlowTyped, queueVars
<1>2. ASSUME NEW f \in inflight, InferFails(f) \/ OnInferOutput(f)
      PROVE  FlowTyped'
  <2>1. f \in Frame /\ frameCounter' = frameCounter /\ inflight' = inflight \ {f}
        /\ consumer' = consumer
    BY <1>2 DEF FlowTyped, InferFails, OnInferOutput, PushOrDrop, Q!Push, queueVars
  <2>2. outq' = outq \/ outq' = Append(outq, f)
    BY <1>2 DEF InferFails, OnInferOutput, PushOrDrop, Q!Push, queueVars
  <2>3. QED
    BY <2>1, <2>2, Appended DEF FlowTyped
<1>3. CASE Notify
  <2>1. consumer' = consumer \/ consumer' = [consumer EXCEPT !["output"] = "woken"]
    BY <1>3 DEF Notify, Q!NotifyOne, Q!Waiting, Q!Wake
  <2>2. QED
    BY <1>3, <2>1 DEF Notify, Q!NotifyOne, FlowTyped
<1>4. CASE Stop
  BY <1>4 DEF Stop, Q!Stop, FlowTyped, Q!Waiting
<1>5. CASE PopResult
  <2>1. outq' \in Seq(Frame)
    BY <1>5, Popped DEF PopResult, Q!Pop, FlowTyped
  <2>2. QED
    BY <1>5, <2>1 DEF PopResult, Q!Pop, FlowTyped
<1>6. CASE PopNothing
  BY <1>6 DEF PopNothing, Q!Wait, Q!PopEnd, FlowTyped
<1>7. CASE Spurious
  BY <1>7 DEF Spurious, Q!Spurious, Q!Wake, FlowTyped
<1>8. CASE Process \/ Time \/ (\E f \in Frame : Recycle(f)) \/ UNCHANGED allVars
  BY <1>8 DEF Process, Time, Recycle, allVars, flowVars, queueVars, FlowTyped
<1>9. QED
  BY <1>1, <1>2, <1>3, <1>4, <1>5, <1>6, <1>7, <1>8 DEF FlowNext, Infer

LEMMA FlowTypedInit == FlowInit => FlowTyped
BY DEF FlowInit, FlowTyped, Q!Init

\* The queue takes steps of its own, or none.
LEMMA QueueStep ==
    ASSUME FlowTyped, [FlowNext]_allVars
    PROVE  [Q!Next]_queueVars
<1>1. CASE Infer
  <2>1. PICK f \in inflight : InferFails(f) \/ OnInferOutput(f)
    BY <1>1 DEF Infer
  <2>2. f \in Frame
    BY DEF FlowTyped
  <2>3. QED
    BY <2>1, <2>2 DEF InferFails, OnInferOutput, PushOrDrop, Q!Next
<1>2. CASE Notify \/ Stop \/ PopResult \/ PopNothing \/ Spurious
  BY <1>2 DEF Notify, Stop, PopResult, PopNothing, Spurious, Q!Next
<1>3. CASE DecodeFrame \/ Process \/ Time \/ (\E f \in Frame : Recycle(f)) \/ UNCHANGED allVars
  BY <1>3 DEF DecodeFrame, Process, Time, Recycle, allVars, flowVars
<1>4. QED
  BY <1>1, <1>2, <1>3 DEF FlowNext

\* The reorder stage takes steps of its own, or none.
LEMMA ReorderStep ==
    ASSUME FlowTyped, [FlowNext]_allVars
    PROVE  [Next]_vars
<1>1. CASE Infer
  <2>1. PICK f \in inflight : InferFails(f) \/ OnInferOutput(f)
    BY <1>1 DEF Infer
  <2>2. f \in Frame
    BY DEF FlowTyped
  <2>3. QED
    BY <2>1, <2>2 DEF InferFails, OnInferOutput, PushOrDrop, Next, Upstream
<1>2. CASE PopResult
  <2>1. Head(outq) \in Frame
    BY <1>2, Popped DEF PopResult, Q!Pop, FlowTyped
  <2>2. QED
    BY <1>2, <2>1 DEF PopResult, Next, Upstream
<1>3. CASE Process \/ Time
  BY <1>3 DEF Process, Time, Next
<1>4. CASE DecodeFrame \/ Notify \/ Stop \/ PopNothing \/ Spurious
           \/ (\E f \in Frame : Recycle(f)) \/ UNCHANGED allVars
  BY <1>4 DEF DecodeFrame, Notify, Stop, PopNothing, Spurious, Recycle, allVars
<1>5. QED
  BY <1>1, <1>2, <1>3, <1>4 DEF FlowNext

\* Fed from the decoder through the queue, and giving buffers back, the
\* reorder stage behaves as it does on its own: what ReorderProofs shows of
\* it holds in the channel.
THEOREM ChannelRunsReorder == FlowSpec => Spec
<1>1. FlowTyped /\ [FlowNext]_allVars => FlowTyped' /\ [Next]_vars
  BY FlowTypedStep, ReorderStep
<1>2. FlowInit => Init
  BY DEF FlowInit
<1>3. QED
  BY <1>1, <1>2, FlowTypedInit, PTL DEF FlowSpec, Spec

\* The channel touches its output queue only through push, pop and stop: what
\* QueueIsBoundedQueue shows of the queue holds in the channel.
THEOREM ChannelRunsQueue == FlowSpec => Q!Spec
<1>1. FlowTyped /\ [FlowNext]_allVars => FlowTyped' /\ [Q!Next]_(Q!vars)
  BY FlowTypedStep, QueueStep DEF queueVars, Q!vars
<1>2. FlowInit => Q!Init
  BY DEF FlowInit
<1>3. QED
  BY <1>1, <1>2, FlowTypedInit, PTL DEF FlowSpec, Q!Spec

-----------------------------------------------------------------------------
(* One place for every frame *)

LEMMA OnePlaceStep ==
    ASSUME FlowTyped, OnePlace, OwnedOnce', [FlowNext]_allVars
    PROVE  OnePlace'
<1> DEFINE Once(q) == \A i, j \in DOMAIN q : q[i] = q[j] => i = j
<1>1. frameCounter \in Nat
  BY DEF FlowTyped
<1>2. CASE DecodeFrame
  <2>1. /\ UNCHANGED <<outq, reorder, encoded, released, lost>>
        /\ inflight' = inflight \union {frameCounter}
        /\ frameCounter' = frameCounter + 1
    BY <1>2 DEF DecodeFrame, vars, queueVars
  <2>2. 0 .. frameCounter' - 1 = (0 .. frameCounter - 1) \union {frameCounter}
    BY <1>1, <2>1
  <2>3. frameCounter \notin inflight \union Queued \union Seen \union lost
    BY <1>1 DEF OnePlace
  <2>4. QED
    BY <2>1, <2>2, <2>3 DEF OnePlace, Queued, Seen
<1>3. ASSUME NEW f \in inflight, InferFails(f) \/ OnInferOutput(f)
      PROVE  OnePlace'
  <2>1. /\ UNCHANGED <<reorder, encoded, released, frameCounter>>
        /\ inflight' = inflight \ {f}
        /\ \/ lost' = lost \union {f} /\ UNCHANGED outq
           \/ outq' = Append(outq, f) /\ UNCHANGED lost
    BY <1>3 DEF InferFails, OnInferOutput, PushOrDrop, Lose, Q!Push, vars, queueVars
  <2>2. f \in Frame /\ f \notin Queued \union Seen \union lost
    BY DEF FlowTyped, OnePlace
  <2>3. CASE lost' = lost \union {f} /\ UNCHANGED outq
    BY <2>1, <2>2, <2>3 DEF OnePlace, Queued, Seen
  <2>4. CASE outq' = Append(outq, f) /\ UNCHANGED lost
    <3>1. Queued' = Queued \union {f} /\ Once(outq')
      BY <2>2, <2>4, Appended DEF FlowTyped, OnePlace
    <3>2. QED
      BY <2>1, <2>2, <2>4, <3>1 DEF OnePlace, Seen
  <2>5. QED
    BY <2>1, <2>3, <2>4
<1>4. CASE PopResult
  <2> DEFINE f == Head(outq)
  <2>1. /\ UNCHANGED <<inflight, encoded, lost, frameCounter>>
        /\ \/ released' = released \union {f} /\ UNCHANGED reorder
           \/ reorder' = reorder \union {f} /\ UNCHANGED released
    BY <1>4 DEF PopResult, DropLate, Insert
  <2>2. f \in Queued /\ Once(outq') /\ Queued' = Queued \ {f}
    BY <1>4, Popped DEF PopResult, Q!Pop, FlowTyped, OnePlace
  <2>3. Seen' = Seen \union {f}
    BY <2>1 DEF Seen
  <2>4. f \notin inflight \union Seen \union lost
    BY <2>2 DEF OnePlace
  <2> HIDE DEF f
  <2>5. QED
    BY <2>1, <2>2, <2>3, <2>4 DEF OnePlace
<1>5. CASE Process
  <2>1. UNCHANGED <<inflight, outq, lost, frameCounter>>
    BY <1>5 DEF Process, Scan, Emit, Skip, StopEmpty, StartWait, KeepWaiting, Leave,
                flowVars, queueVars
  <2>2. Seen' = Seen
    BY <1>5 DEF Process, Scan, Emit, EncodeZeroCopy, Skip, StopEmpty, StartWait, KeepWaiting,
                Leave, Seen
  <2>3. QED
    BY <2>1, <2>2 DEF OnePlace, Queued
<1>6. CASE Time \/ Notify \/ Stop \/ PopNothing \/ Spurious \/ (\E f \in Frame : Recycle(f))
           \/ UNCHANGED allVars
  <2>1. UNCHANGED <<inflight, outq, reorder, encoded, released, lost, frameCounter>>
    BY <1>6 DEF Time, Elapse, Notify, Q!NotifyOne, Stop, Q!Stop, PopNothing, Q!Wait, Q!PopEnd,
                Spurious, Q!Spurious, Recycle, allVars, flowVars, vars, queueVars
  <2>2. QED
    BY <2>1 DEF OnePlace, Queued, Seen
<1>7. QED
  BY <1>2, <1>3, <1>4, <1>5, <1>6 DEF FlowNext, Infer

-----------------------------------------------------------------------------
(* Buffers *)

LEMMA FramesFinite ==
    ASSUME NEW S \in SUBSET Frame
    PROVE  IsFiniteSet(S) /\ Cardinality(S) \in Nat
<1>1. IsFiniteSet(Frame)
  BY FS_Interval, FlowAssumption
<1>2. IsFiniteSet(S)
  BY <1>1, FS_Subset
<1>3. QED
  BY <1>2, FS_CardinalityType

LEMMA BusyFrames ==
    ASSUME FlowTyped, TypeOK
    PROVE  Busy \in SUBSET Frame /\ Queued \in SUBSET Frame
BY DEF FlowTyped, TypeOK, Busy, Queued

LEMMA FewerBusy ==
    ASSUME FlowTyped, TypeOK, Cardinality(Busy) <= NumBuffers, Busy' \subseteq Busy
    PROVE  Cardinality(Busy') <= NumBuffers
<1>1. IsFiniteSet(Busy) /\ Cardinality(Busy) \in Nat
  BY BusyFrames, FramesFinite
<1>2. IsFiniteSet(Busy') /\ Cardinality(Busy') <= Cardinality(Busy)
  BY <1>1, FS_Subset
<1>3. Cardinality(Busy') \in Nat
  BY <1>2, FS_CardinalityType
<1>4. QED
  BY <1>1, <1>2, <1>3, FlowAssumption

\* Only the decoder takes a buffer, and only one that is free.
LEMMA ConservedStep ==
    ASSUME FlowTyped, IInv, OnePlace, Conserved, [FlowNext]_allVars
    PROVE  Conserved'
<1>1. TypeOK /\ expected \in Nat
  BY DEF IInv, TypeOK
<1>2. ASSUME UNCHANGED <<released, expected, recycled, encoded>>, Busy' \subseteq Busy
      PROVE  Conserved'
  BY <1>1, <1>2, FewerBusy DEF Conserved
<1>3. CASE DecodeFrame
  <2>1. /\ Busy' = Busy \union {frameCounter} /\ Cardinality(Busy) < NumBuffers
        /\ UNCHANGED <<released, expected, recycled, encoded>>
    BY <1>3 DEF DecodeFrame, Busy, Queued, vars, queueVars
  <2>2. IsFiniteSet(Busy) /\ Cardinality(Busy) \in Nat
    BY <1>1, BusyFrames, FramesFinite
  <2>3. Cardinality(Busy') <= Cardinality(Busy) + 1 /\ Cardinality(Busy') \in Nat
    BY <2>1, <2>2, FS_AddElement
  <2>4. QED
    BY <2>1, <2>2, <2>3, FlowAssumption DEF Conserved
<1>4. ASSUME NEW f \in inflight, InferFails(f) \/ OnInferOutput(f)
      PROVE  Conserved'
  <2>1. /\ UNCHANGED <<reorder, encoded, released, expected, recycled>>
        /\ inflight' = inflight \ {f}
        /\ UNCHANGED outq \/ outq' = Append(outq, f)
    BY <1>4 DEF InferFails, OnInferOutput, PushOrDrop, Lose, Q!Push, vars, queueVars
  <2>2. f \in Frame
    BY DEF FlowTyped
  <2>3. Queued' \subseteq Queued \union {f}
    BY <2>1, <2>2, Appended DEF FlowTyped, Queued
  <2>4. QED
    BY <1>2, <2>1, <2>3 DEF Busy
<1>5. CASE PopResult
  <2> DEFINE f == Head(outq)
  <2>1. /\ UNCHANGED <<inflight, encoded, expected, recycled>>
        /\ \/ released' = released \union {f} /\ UNCHANGED reorder /\ f < expected
           \/ reorder' = reorder \union {f} /\ UNCHANGED released
    BY <1>5 DEF PopResult, DropLate, Insert
  <2>2. f \in Queued /\ Queued' = Queued \ {f}
    BY <1>5, Popped DEF PopResult, Q!Pop, FlowTyped, OnePlace
  <2> HIDE DEF f
  <2>3. Busy' \subseteq Busy
    BY <2>1, <2>2 DEF Busy
  <2>4. QED
    BY <1>1, <2>1, <2>3, FewerBusy DEF Conserved
<1>6. CASE Process
  <2>1. UNCHANGED <<inflight, outq, recycled>>
    BY <1>6 DEF Process, flowVars, queueVars
  <2>2. encoded \subseteq encoded' /\ Busy' \subseteq Busy
    BY <1>6, <2>1 DEF Process, Scan, Emit, EncodeZeroCopy, Skip, StopEmpty, StartWait,
                      KeepWaiting, Leave, Busy, Queued
  <2>3. expected' \in Nat /\ expected' >= expected
    <3>1. \A f \in reorder : f \in Nat /\ f >= expected
      BY ReorderAssumption DEF IInv, TypeOK, NoneOvertaken
    <3>2. QED
      BY <1>1, <1>6, <3>1 DEF Process, Scan, Emit, Skip, StopEmpty, StartWait, KeepWaiting,
                              Leave, JumpIfFull
  <2>4. \A f \in released' : f \in released \/ (f = expected /\ expected' = expected + 1)
    BY <1>6 DEF Process, Scan, Emit, EncodeZeroCopy, Skip, StopEmpty, StartWait, KeepWaiting,
                Leave
  <2>5. released \subseteq Nat
    BY ReorderAssumption DEF IInv, TypeOK
  <2>6. ASSUME NEW f \in released'
        PROVE  f < expected'
    <3>1. CASE f \in released
      <4>1. f \in Nat /\ f < expected
        BY <2>5, <3>1 DEF Conserved
      <4>2. QED
        BY <1>1, <2>3, <4>1
    <3>2. CASE f = expected /\ expected' = expected + 1
      BY <1>1, <3>2
    <3>3. QED
      BY <2>4, <3>1, <3>2
  <2>7. QED
    BY <1>1, <2>1, <2>2, <2>6, FewerBusy DEF Conserved
<1>7. ASSUME NEW f \in Frame, Recycle(f)
      PROVE  Conserved'
  <2>1. /\ UNCHANGED <<inflight, outq, reorder, encoded, released, expected>>
        /\ recycled' = recycled \union {f} /\ f \in encoded
    BY <1>7 DEF Recycle, vars, queueVars
  <2>2. Busy' \subseteq Busy
    BY <2>1 DEF Busy, Queued
  <2>3. QED
    BY <1>1, <2>1, <2>2, FewerBusy DEF Conserved
<1>8. CASE Time \/ Notify \/ Stop \/ PopNothing \/ Spurious \/ UNCHANGED allVars
  <2>1. UNCHANGED <<inflight, outq, reorder, encoded, released, expected, recycled>>
    BY <1>8 DEF Time, Elapse, Notify, Q!NotifyOne, Stop, Q!Stop, PopNothing, Q!Wait, Q!PopEnd,
                Spurious, Q!Spurious, allVars, flowVars, vars, queueVars
  <2>2. QED
    BY <1>2, <2>1 DEF Busy, Queued
<1>9. QED
  BY <1>3, <1>4, <1>5, <1>6, <1>7, <1>8 DEF FlowNext, Infer

\* Nothing is pushed and nothing processed once the output thread has ended.
LEMMA EndsIdleStep ==
    ASSUME FlowTyped, EndsIdle, [FlowNext]_allVars
    PROVE  EndsIdle'
<1>1. CASE DecodeFrame
  BY <1>1 DEF DecodeFrame, EndsIdle, vars, queueVars
<1>2. CASE Infer
  <2>1. phase = "open" /\ consumer' = consumer
    BY <1>2 DEF Infer, InferFails, OnInferOutput, MainGets, PushOrDrop, Q!Push, queueVars
  <2>2. QED
    BY <2>1 DEF EndsIdle
<1>3. CASE Notify
  <2>1. UNCHANGED <<outq, phase, pc>>
    BY <1>3 DEF Notify, Q!NotifyOne, vars
  <2>2. consumer' = consumer \/ consumer' = [consumer EXCEPT !["output"] = "woken"]
    BY <1>3 DEF Notify, Q!NotifyOne, Q!Waiting, Q!Wake
  <2>3. QED
    BY <2>1, <2>2 DEF EndsIdle, FlowTyped
<1>4. CASE Stop
  BY <1>4 DEF Stop, Q!Stop, Q!Waiting, EndsIdle, vars
<1>5. CASE PopResult
  BY <1>5 DEF PopResult, Q!Pop, EndsIdle, FlowTyped
<1>6. CASE PopNothing
  BY <1>6 DEF PopNothing, Q!Wait, Q!PopEnd, EndsIdle, FlowTyped, vars
<1>7. CASE Spurious
  BY <1>7 DEF Spurious, Q!Spurious, Q!Wake, EndsIdle, FlowTyped, vars
<1>8. CASE Process
  BY <1>8 DEF Process, Scan, Emit, Skip, StopEmpty, StartWait, KeepWaiting, flowVars,
              queueVars, EndsIdle
<1>9. CASE Time \/ (\E f \in Frame : Recycle(f)) \/ UNCHANGED allVars
  BY <1>9 DEF Time, Elapse, Recycle, allVars, flowVars, vars, queueVars, EndsIdle
<1>10. QED
  BY <1>1, <1>2, <1>3, <1>4, <1>5, <1>6, <1>7, <1>8, <1>9 DEF FlowNext

-----------------------------------------------------------------------------

LEMMA FlowInitHolds == FlowInit => FlowInv
<1> SUFFICES ASSUME FlowInit PROVE FlowInv
  OBVIOUS
<1>1. /\ inflight = {} /\ outq = <<>> /\ reorder = {} /\ encoded = {} /\ released = {}
      /\ lost = {} /\ recycled = {} /\ frameCounter = 0 /\ consumer["output"] = "out"
  BY DEF FlowInit, Init, Q!Init
<1>2. Queued = {} /\ Seen = {} /\ Busy = {} /\ 0 .. frameCounter - 1 = {}
  BY <1>1 DEF Queued, Seen, Busy
<1>3. OnePlace
  BY <1>1, <1>2 DEF OnePlace, OwnedOnce
<1>4. Conserved
  BY <1>1, <1>2, FS_EmptySet, FlowAssumption DEF Conserved
<1>5. EndsIdle
  BY <1>1 DEF EndsIdle
<1>6. QED
  BY <1>3, <1>4, <1>5 DEF FlowInv

LEMMA FlowInvStep ==
    ASSUME FlowTyped, IInv, IInv', FlowInv, [FlowNext]_allVars
    PROVE  FlowInv'
BY OnePlaceStep, ConservedStep, EndsIdleStep DEF FlowInv, IInv

\* The reorder stage's invariant comes with its specification, the channel's
\* own is inductive beside it.
THEOREM FlowInvariance == FlowSpec => [](FlowTyped /\ IInv /\ FlowInv)
<1>1. FlowTyped /\ [FlowNext]_allVars => FlowTyped'
  BY FlowTypedStep
<1>2. FlowTyped /\ IInv /\ IInv' /\ FlowInv /\ [FlowNext]_allVars => FlowInv'
  BY FlowInvStep
<1>3. FlowSpec => []IInv
  BY ChannelRunsReorder, Invariance, PTL
<1>4. QED
  BY <1>1, <1>2, <1>3, FlowTypedInit, FlowInitHolds, PTL DEF FlowSpec

\* A frame of the channel, and with it the buffer it holds, is in one place
\* from the decode callback to the encoder or to its drop, and is put back at
\* most once and only when nobody holds it, in a stream of any length.
THEOREM EveryFrameInOnePlace == FlowSpec => []OnePlace
BY FlowInvariance, PTL DEF FlowInv

\* With no more buffers than m_output_queue and m_reorder_buffer can hold the
\* queue never refuses a result and the overflow jump never fires.
THEOREM LimitsOutOfReach == FlowSpec => []LimitsNeverReached
<1>1. ASSUME FlowTyped, IInv, FlowInv, NumBuffers <= QueueMax, NumBuffers <= MaxReorder
      PROVE  /\ \A f \in inflight : Len(outq) < QueueMax
             /\ Cardinality(reorder) <= MaxReorder
  <2>1. TypeOK /\ Cardinality(Busy) <= NumBuffers
    BY <1>1 DEF IInv, FlowInv, Conserved
  <2>2. IsFiniteSet(Busy) /\ Cardinality(Busy) \in Nat /\ Busy \in SUBSET Frame
    BY <1>1, <2>1, BusyFrames, FramesFinite
  <2>3. Cardinality(reorder) <= Cardinality(Busy) /\ Cardinality(reorder) \in Nat
    BY <2>1, <2>2, FS_Subset, FramesFinite DEF Busy, TypeOK
  <2>4. ASSUME NEW f \in inflight
        PROVE  Len(outq) < QueueMax
    <3>1. f \in Frame /\ f \notin Queued
      BY <1>1 DEF FlowTyped, FlowInv, OnePlace
    <3>2. IsFiniteSet(Queued) /\ Cardinality(Queued) \in Nat
      BY <1>1, <2>1, BusyFrames, FramesFinite
    <3>3. /\ Len(outq) \in Nat
          /\ IsFiniteSet(1 .. Len(outq)) /\ Cardinality(1 .. Len(outq)) = Len(outq)
      <4>1. Len(outq) \in Nat
        BY <1>1 DEF FlowTyped
      <4>2. QED
        BY <4>1, FS_Interval
    <3>4. outq \in Injection(1 .. Len(outq), Queued)
      <4>1. outq \in [1 .. Len(outq) -> Queued]
        BY <1>1 DEF FlowTyped, Queued
      <4>2. \A i, j \in 1 .. Len(outq) : outq[i] = outq[j] => i = j
        BY <1>1 DEF FlowTyped, FlowInv, OnePlace
      <4>3. QED
        BY <4>1, <4>2 DEF Injection, IsInjective
    <3>5. Len(outq) <= Cardinality(Queued)
      BY <3>2, <3>3, <3>4, FS_Injection
    <3>6. Cardinality(Queued \union {f}) = Cardinality(Queued) + 1
      BY <3>1, <3>2, FS_AddElement
    <3>7. Cardinality(Queued \union {f}) <= Cardinality(Busy)
      BY <2>2, FS_Subset DEF Busy
    <3>8. QED
      BY <1>1, <2>1, <2>2, <3>2, <3>3, <3>5, <3>6, <3>7, FlowAssumption
  <2>5. QED
    BY <1>1, <2>1, <2>2, <2>3, <2>4, FlowAssumption, ReorderAssumption
<1>2. FlowTyped /\ IInv /\ FlowInv => LimitsNeverReached
  BY <1>1 DEF LimitsNeverReached
<1>3. QED
  BY FlowInvariance, <1>2, PTL

\* The output thread leaves a result behind only if a frame before it was lost
\* or is still being inferred, when there are too few buffers for the overflow
\* jump.
THEOREM AbandonedBehindGap == FlowSpec => []OnlyBehindGapAbandoned
<1>1. ASSUME FlowTyped, IInv, FlowInv,
             NumBuffers <= MaxReorder, consumer["output"] = "ended"
      PROVE  /\ outq = <<>>
             /\ \A f \in reorder : \E g \in lost \union inflight : g < f /\ g >= expected
  <2>1. outq = <<>> /\ pc = "idle" /\ TypeOK
    BY <1>1 DEF FlowInv, EndsIdle, IInv
  <2>2. Cardinality(reorder) <= MaxReorder
    <3>1. Cardinality(reorder) \in Nat /\ IsFiniteSet(Busy) /\ Cardinality(Busy) \in Nat
      BY <1>1, <2>1, BusyFrames, FramesFinite DEF TypeOK
    <3>2. Cardinality(reorder) <= Cardinality(Busy)
      BY <3>1, FS_Subset DEF Busy
    <3>3. QED
      BY <1>1, <3>1, <3>2, FlowAssumption, ReorderAssumption DEF FlowInv, Conserved
  <2>3. expected \notin reorder
    BY <1>1, <2>1, <2>2 DEF IInv, GapTracked
  <2>4. ASSUME NEW f \in reorder
        PROVE  \E g \in lost \union inflight : g < f /\ g >= expected
    <3>1. f \in Nat /\ expected \in Nat /\ f > expected /\ f \in 0 .. frameCounter - 1
      BY <1>1, <2>1, <2>3, ReorderAssumption
         DEF IInv, NoneOvertaken, TypeOK, FlowInv, OnePlace, Seen
    <3>2. expected \in 0 .. frameCounter - 1
      BY <1>1, <3>1 DEF FlowTyped
    <3>3. expected \notin encoded \union released
      BY <1>1, <3>1 DEF IInv, EncodedArePast, FlowInv, Conserved
    <3>4. Queued = {}
      BY <2>1 DEF Queued
    <3>5. expected \in lost \union inflight
      BY <1>1, <2>3, <3>2, <3>3, <3>4 DEF FlowInv, OnePlace, Seen
    <3>6. QED
      BY <3>1, <3>5
  <2>5. QED
    BY <2>1, <2>4
<1>2. FlowTyped /\ IInv /\ FlowInv => OnlyBehindGapAbandoned
  BY <1>1 DEF OnlyBehindGapAbandoned
<1>3. QED
  BY FlowInvariance, <1>2, PTL

-----------------------------------------------------------------------------
(* The output queue by itself: ThreadSafeQueue, with its mutex, its          *)
(* condition variable and its wake-ups, does nothing a bounded queue would   *)
(* not do, for any threads, items and capacity and not only a channel's.     *)

CONSTANTS Item, Producer, Consumer, Capacity

T == INSTANCE ThreadSafeQueue WITH queue <- outq, Max <- Capacity

ended == {c \in Consumer : consumer[c] = "ended"}

\* Each variable of the queue keeps its type.
THEOREM QueueTyping == T!Spec => []T!TypeOK
<1>1. T!Init => T!TypeOK
  BY DEF T!Init, T!TypeOK
<1>2. T!TypeOK /\ [T!Next]_(T!vars) => T!TypeOK'
  <2> SUFFICES ASSUME T!TypeOK, [T!Next]_(T!vars) PROVE T!TypeOK'
    OBVIOUS
  <2> USE DEF T!TypeOK
  <2>1. CASE UNCHANGED T!vars
    BY <2>1 DEF T!vars
  <2>2. ASSUME NEW p \in Producer, T!NotifyOne(p) PROVE T!TypeOK'
    <3>1. CASE T!Waiting = {}
      BY <2>2, <3>1 DEF T!NotifyOne
    <3>2. CASE T!Waiting # {}
      BY <2>2, <3>2 DEF T!NotifyOne, T!Waiting, T!Wake
    <3>3. QED BY <3>1, <3>2
  <2>3. ASSUME NEW p \in Producer, T!Stop(p) PROVE T!TypeOK'
    BY <2>3 DEF T!Stop
  <2>4. ASSUME NEW p \in Producer, NEW x \in Item, T!Push(p, x) PROVE T!TypeOK'
    BY <2>4 DEF T!Push
  <2>5. ASSUME NEW c \in Consumer, T!Wait(c) PROVE T!TypeOK'
    BY <2>5 DEF T!Wait
  <2>6. ASSUME NEW c \in Consumer, T!Spurious(c) PROVE T!TypeOK'
    BY <2>6 DEF T!Spurious, T!Wake
  <2>7. ASSUME NEW c \in Consumer, T!Pop(c) PROVE T!TypeOK'
    BY <2>7 DEF T!Pop
  <2>8. ASSUME NEW c \in Consumer, T!PopEnd(c) PROVE T!TypeOK'
    BY <2>8 DEF T!PopEnd
  <2>9. QED BY <2>1, <2>2, <2>3, <2>4, <2>5, <2>6, <2>7, <2>8 DEF T!Next
<1>3. QED BY <1>1, <1>2, PTL DEF T!Spec

\* A consumer that waits, wakes up or takes an item is not one that has been
\* told the end, and does not become one.
LEMMA ConsumerMoves ==
    ASSUME T!TypeOK, NEW c \in Consumer, consumer[c] # "ended",
           NEW to \in {"out", "waiting", "woken"},
           consumer' = [consumer EXCEPT ![c] = to]
    PROVE  ended' = ended
<1>1. \A d \in Consumer : consumer'[d] = "ended" <=> consumer[d] = "ended"
  BY DEF T!TypeOK
<1>2. QED BY <1>1 DEF ended

\* Every step of the queue is a step of the abstract one or none at all.
LEMMA QueueStepRefines ==
    ASSUME Capacity \in Nat, T!TypeOK, [T!Next]_(T!vars)
    PROVE  [T!Abstract!Next]_(T!Abstract!queueVars)
<1> USE DEF T!Abstract!queueVars, ended
<1>1. CASE UNCHANGED T!vars
  BY <1>1 DEF T!vars
<1>2. ASSUME NEW p \in Producer, T!NotifyOne(p) PROVE UNCHANGED T!Abstract!queueVars
  <2>1. CASE T!Waiting = {}
    BY <1>2, <2>1 DEF T!NotifyOne
  <2>2. CASE T!Waiting # {}
    <3>1. PICK c \in T!Waiting : T!Wake(c)
      BY <1>2, <2>2 DEF T!NotifyOne
    <3>2. ended' = ended
      BY <3>1, ConsumerMoves DEF T!Waiting, T!Wake
    <3>3. QED BY <1>2, <3>2 DEF T!NotifyOne
  <2>3. QED BY <2>1, <2>2
<1>3. ASSUME NEW p \in Producer, T!Stop(p) PROVE T!Abstract!Stop
  <2>1. \A d \in Consumer : consumer'[d] = "ended" <=> consumer[d] = "ended"
    BY <1>3 DEF T!Stop, T!TypeOK, T!Waiting
  <2>2. ended' = ended
    BY <2>1
  <2>3. QED BY <1>3, <2>2 DEF T!Stop, T!Abstract!Stop
<1>4. ASSUME NEW p \in Producer, NEW x \in Item, T!Push(p, x) PROVE T!Abstract!Put(x)
  <2>1. Len(outq) \in Nat /\ Len(outq) < Capacity
    BY <1>4 DEF T!Push, T!Full, T!TypeOK
  <2>2. ended' = ended
    BY <1>4 DEF T!Push
  <2>3. QED BY <1>4, <2>1, <2>2 DEF T!Push, T!Abstract!Put
<1>5. ASSUME NEW c \in Consumer, T!Wait(c) \/ T!Spurious(c)
      PROVE  UNCHANGED T!Abstract!queueVars
  <2>1. ended' = ended
    BY <1>5, ConsumerMoves DEF T!Wait, T!Spurious, T!HasMutex, T!Waiting, T!Wake
  <2>2. QED BY <1>5, <2>1 DEF T!Wait, T!Spurious
<1>6. ASSUME NEW c \in Consumer, T!Pop(c) PROVE T!Abstract!Take
  <2>1. ended' = ended
    BY <1>6, ConsumerMoves DEF T!Pop, T!HasMutex
  <2>2. QED BY <1>6, <2>1 DEF T!Pop, T!Abstract!Take
<1>7. ASSUME NEW c \in Consumer, T!PopEnd(c) PROVE T!Abstract!End(c)
  <2>1. \A d \in Consumer :
          consumer'[d] = "ended" <=> (consumer[d] = "ended" \/ d = c)
    BY <1>7 DEF T!PopEnd, T!TypeOK
  <2>2. ended' = ended \union {c}
    BY <2>1
  <2>3. QED BY <1>7, <2>2 DEF T!PopEnd, T!Abstract!End
<1>8. QED
  BY <1>1, <1>2, <1>3, <1>4, <1>5, <1>6, <1>7 DEF T!Next, T!Abstract!Next

\* The queue refines BoundedQueue: first in first out, never more than its capacity,
\* and the end reported only by a stopped queue that is empty.
THEOREM QueueIsBoundedQueue ==
    ASSUME Capacity \in Nat
    PROVE  T!Spec => T!Abstract!Safe
<1>1. T!Init => T!Abstract!Init
  BY DEF T!Init, T!Abstract!Init
<1>2. T!TypeOK /\ [T!Next]_(T!vars) => [T!Abstract!Next]_(T!Abstract!queueVars)
  BY QueueStepRefines
<1>3. QED BY <1>1, <1>2, QueueTyping, PTL DEF T!Spec, T!Abstract!Safe

=============================================================================
