----------------------------- MODULE EncoderProofs -----------------------------
(***************************************************************************)
(* Encoder.tla and Stream.tla: frames are matched to packets by their      *)
(* position in pending_frames_ only, and the buffers are counted right, for *)
(* any number of frames and of packets that end none; and, with publisher,  *)
(* callback and destructor, libavformat is used in order and all is given  *)
(* back.                                                                   *)
(***************************************************************************)
EXTENDS Stream, TLAPS

Rising(q) == \A i, j \in DOMAIN q : i < j => q[i] < q[j]

\* A frame is pending from before the hardware gets it until it is taken; the
\* newest one may be pending only.
Pushing == ppc \in {"put", "remove"}
Coming == opc = "packet" /\ packet = "last"

Positions ==
    /\ Rising(pending) /\ Rising(hw)
    /\ Pushing => next \in Frame /\ \E i \in DOMAIN pending : pending[i] = next
    /\ \A i \in DOMAIN pending : pending[i] < next \/ (Pushing /\ pending[i] = next)
    /\ \A i \in DOMAIN hw : hw[i] < next /\ \E j \in DOMAIN pending : pending[j] = hw[i]
    /\ \A f \in coded : f < next

\* Of the pending frames only the first can have been coded, and only while
\* the encoder's thread holds its last packet.
FirstCoded ==
    /\ Coming => /\ pending # <<>> /\ pending[1] \in coded
                 /\ \A i \in DOMAIN hw : hw[i] # pending[1]
    /\ stop \in {"no", "flag"} =>
         \A i \in DOMAIN pending : \/ Coming /\ i = 1
                                   \/ Pushing /\ pending[i] = next
                                   \/ \E j \in DOMAIN hw : hw[j] = pending[i]

TakenOnce ==
    /\ opc # "recycle" => taken = {}
    /\ \A f \in taken : f \in coded /\ \A i \in DOMAIN pending : f # pending[i]

Pending(f) == \E i \in DOMAIN pending : pending[i] = f

Referenced ==
    \A f \in Frame :
        refs[f] = IF Pending(f) \/ f \in taken THEN 2 ELSE IF f < next THEN 0 ELSE 1

Stopping ==
    /\ setup \notin {"running", "crashed"} => opc = "none"
    /\ stop # "no" => ppc = "joined" /\ setup \in {"running", "crashed"}
    /\ stop \notin {"no", "flag"} => hw = <<>>
    /\ stop \in {"cleared", "done"} => opc = "ended"

Handles ==
    /\ setup \in {"init", "cfg", "configure"} => "ctx" \in handles
    /\ setup \in {"none", "init", "cfg", "configure"} <=> inited = "no"
    /\ inited = "true" /\ stop # "done" => "ctx" \in handles
    /\ setup = "crashed" => inited = "false"

EInv ==
    /\ TypeOK /\ Positions /\ FirstCoded /\ TakenOnce /\ Referenced
    /\ Stopping /\ Handles

-----------------------------------------------------------------------------
(* Sequences *)

LEMMA TailOf ==
    ASSUME NEW T, NEW q \in Seq(T), q # <<>>
    PROVE  /\ 1 \in DOMAIN q /\ Head(q) = q[1] /\ Head(q) \in T /\ Tail(q) \in Seq(T)
           /\ \A i \in DOMAIN Tail(q) : Tail(q)[i] = q[i + 1] /\ i + 1 \in DOMAIN q
           /\ \A i \in DOMAIN Tail(q) : i \in Nat /\ i > 0
           /\ \A i \in DOMAIN q : i = 1 \/ (i > 1 /\ i \in Nat /\ i - 1 \in DOMAIN Tail(q))
<1>1. Len(q) \in Nat /\ Len(q) > 0 /\ DOMAIN q = 1 .. Len(q)
  OBVIOUS
<1>2. Tail(q) \in Seq(T) /\ Len(Tail(q)) = Len(q) - 1
  BY <1>1
<1>3. DOMAIN Tail(q) = 1 .. Len(q) - 1
  BY <1>2
<1>4. \A i \in 1 .. Len(q) - 1 : Tail(q)[i] = q[i + 1]
  BY <1>1
<1>5. QED
  BY <1>1, <1>2, <1>3, <1>4

LEMMA AppendOf ==
    ASSUME NEW T, NEW q \in Seq(T), NEW x \in T
    PROVE  /\ Append(q, x) \in Seq(T) /\ Append(q, x) # <<>>
           /\ DOMAIN Append(q, x) = DOMAIN q \union {Len(q) + 1}
           /\ \A i \in DOMAIN q : Append(q, x)[i] = q[i] /\ i < Len(q) + 1 /\ i \in Nat
           /\ Append(q, x)[Len(q) + 1] = x
           /\ Len(q) \in Nat
OBVIOUS

LEMMA Numbers ==
    ASSUME EInv
    PROVE  /\ next \in Nat /\ Frame \subseteq Nat
           /\ pending \in Seq(Frame) /\ hw \in Seq(Frame)
           /\ \A i \in DOMAIN pending : i \in Nat /\ pending[i] \in Frame /\ pending[i] \in Nat
           /\ \A i \in DOMAIN hw : i \in Nat /\ hw[i] \in Frame /\ hw[i] \in Nat
           /\ \A f \in coded : f \in Frame /\ f \in Nat
           /\ Pushing => next \in Frame
<1>1. Frames \in Nat /\ Frame \subseteq Nat
  BY EncoderAssumption DEF Frame
<1>2. TypeOK /\ Positions
  BY DEF EInv
<1>3. next \in Nat /\ pending \in Seq(Frame) /\ hw \in Seq(Frame) /\ coded \subseteq Frame
  BY <1>1, <1>2 DEF TypeOK
<1>4. /\ \A i \in DOMAIN pending : i \in Nat /\ pending[i] \in Frame
      /\ \A i \in DOMAIN hw : i \in Nat /\ hw[i] \in Frame
  BY <1>3
<1>5. QED
  BY <1>1, <1>2, <1>3, <1>4 DEF Positions

\* The frame that is pushed is the newest: erasing it cuts off the last one.
LEMMA ErasedLast ==
    ASSUME EInv, NEW i \in DOMAIN pending, pending[i] = next
    PROVE  /\ DOMAIN Erased(pending, i) = 1 .. i - 1 /\ DOMAIN pending = 1 .. i /\ i \in Nat
           /\ \A k \in 1 .. i - 1 : Erased(pending, i)[k] = pending[k] /\ pending[k] < next
           /\ Erased(pending, i) \in Seq(Frame)
<1>1. /\ pending \in Seq(Frame) /\ Len(pending) \in Nat /\ DOMAIN pending = 1 .. Len(pending)
      /\ next \in Nat /\ Frames \in Nat
  BY EncoderAssumption DEF EInv, TypeOK
<1>2. \A k \in DOMAIN pending : pending[k] \in Nat /\ pending[k] <= next
  BY <1>1, EncoderAssumption DEF EInv, Positions, Frame
<1>3. \A k \in DOMAIN pending : k > i => pending[k] > next
  BY <1>1 DEF EInv, Positions, Rising
<1>4. i = Len(pending)
  BY <1>1, <1>2, <1>3
<1>5. \A k \in 1 .. i - 1 : pending[k] < next
  BY <1>1, <1>4 DEF EInv, Positions, Rising
<1>6. Erased(pending, i) = [k \in 1 .. i - 1 |-> pending[k]]
  BY <1>1, <1>4 DEF Erased
<1>7. Erased(pending, i) \in Seq(Frame)
  BY <1>1, <1>4, <1>6
<1>8. QED
  BY <1>1, <1>4, <1>5, <1>6, <1>7

-----------------------------------------------------------------------------
(* The steps, sorted by what they touch *)

\* Only the owner's view changes.
Aside == InitEncoder \/ CrashingCall \/ UNCHANGED vars

Steps ==
    \/ Aside \/ Start
    \/ /\ Running
       /\ \/ NoFrame \/ PushBack \/ Accepted \/ Refused \/ RemovePendingFrame
          \/ GetOther \/ GetLast \/ PopOldest \/ SkipRecycle \/ RecycleEncodedFrame
          \/ Poll \/ GetNothing \/ EndThread
    \/ JoinThreads \/ ReleaseHandles
    \/ UNCHANGED lifecycle /\ (StopFlag \/ Reset \/ Clear)

LEMMA Sorted ==
    ASSUME [Next]_vars
    PROVE  Steps
<1>1. CASE InitEncoder \/ Start \/ CrashingCall \/ JoinThreads \/ UNCHANGED vars
  BY <1>1 DEF Steps, Aside
<1>2. CASE PushBuffer
  BY <1>2 DEF Steps, PushBuffer
<1>3. CASE OutputThreadFunc
  BY <1>3 DEF Steps, OutputThreadFunc, GetPacket, AfterCallback, Polling
<1>4. CASE Stop
  BY <1>4 DEF Steps, Stop
<1>5. QED
  BY <1>1, <1>2, <1>3, <1>4 DEF Next

LEMMA AsideKeeps ==
    ASSUME Aside
    PROVE  UNCHANGED work
BY DEF Aside, InitEncoder, MppCreate, MppInit, CfgInit, Goes, Configure, GetHeader,
       CrashingCall, vars

-----------------------------------------------------------------------------
(* Set-up and tear-down *)

LEMMA StoppingKept ==
    ASSUME EInv, [Next]_vars
    PROVE  Stopping'
<1> USE DEF Stopping
<1> Stopping
  BY DEF EInv
<1>1. CASE Aside
  <2>1. UNCHANGED <<stop, ppc, opc, hw>>
    BY <1>1, AsideKeeps DEF work, producer, consumer, hardware
  <2>2. setup \in {"running", "crashed"} => setup' \in {"running", "crashed"}
    BY <1>1 DEF Aside, InitEncoder, MppCreate, MppInit, CfgInit, Goes, Configure, InitFails,
                GetHeader, CrashingCall, vars, lifecycle
  <2>3. QED
    BY <2>1, <2>2
<1>2. CASE ~ Aside
  BY <1>2, Sorted
     DEF Steps, Running, lifecycle, producer, consumer, hardware, Start, NoFrame, PushBack,
         Accepted, Refused, RemovePendingFrame, GetOther, GetLast, PopOldest, SkipRecycle,
         RecycleEncodedFrame, Poll, GetNothing, EndThread, JoinThreads, ReleaseHandles,
         StopFlag, Reset, Clear
<1>3. QED
  BY <1>1, <1>2

LEMMA HandlesKept ==
    ASSUME EInv, [Next]_vars
    PROVE  Handles'
<1> USE DEF Handles
<1> Handles /\ Stopping /\ inited \in {"no", "true", "false"}
  BY DEF EInv, TypeOK
<1>1. CASE Aside
  <2>1. stop' = stop
    BY <1>1, AsideKeeps DEF work
  <2>2. CASE CrashingCall
    BY <2>1, <2>2 DEF CrashingCall, Stopping
  <2>3. CASE InitEncoder \/ UNCHANGED vars
    BY <2>1, <2>3 DEF InitEncoder, MppCreate, MppInit, CfgInit, Goes, Configure, InitFails,
                      GetHeader, vars, lifecycle, Stopping
  <2>4. QED
    BY <1>1, <2>2, <2>3 DEF Aside
<1>2. CASE Start
  BY <1>2 DEF Start
<1>3. CASE ReleaseHandles
  BY <1>3 DEF ReleaseHandles, Stopping
<1>4. CASE JoinThreads
  BY <1>4 DEF JoinThreads, lifecycle
<1>5. CASE UNCHANGED lifecycle /\ (stop' = stop \/ StopFlag \/ Reset \/ Clear)
  BY <1>5 DEF lifecycle, StopFlag, Reset, Clear
<1>6. QED
  BY <1>1, <1>2, <1>3, <1>4, <1>5, Sorted
     DEF Steps, Running, NoFrame, PushBack,
         Accepted, Refused, RemovePendingFrame, GetOther, GetLast, PopOldest, SkipRecycle,
         RecycleEncodedFrame, Poll, GetNothing, EndThread

-----------------------------------------------------------------------------
(* The frames, operation by operation *)

Core == Positions /\ FirstCoded /\ TakenOnce /\ Referenced

LEMMA PushBackKeeps ==
    ASSUME EInv, PushBack
    PROVE  Core'
<1> USE DEF PushBack, Pushing, Coming
<1>0. /\ next \in Frame /\ ~ Pushing /\ Pushing' /\ (Coming' <=> Coming)
      /\ UNCHANGED <<next, hw, stop, opc, taken, coded>>
  BY DEF consumer, hardware
<1>1. /\ DOMAIN pending' = DOMAIN pending \union {Len(pending) + 1}
      /\ \A i \in DOMAIN pending : pending'[i] = pending[i] /\ i < Len(pending) + 1 /\ i \in Nat
      /\ pending'[Len(pending) + 1] = next /\ Len(pending) \in Nat
      /\ \A i \in DOMAIN pending : pending[i] < next
  BY <1>0, Numbers, AppendOf DEF EInv, Positions
<1>2. Positions'
  BY <1>0, <1>1, Numbers DEF EInv, Positions, Rising
<1>3. FirstCoded'
  BY <1>0, <1>1 DEF EInv, FirstCoded
<1>4. TakenOnce'
  BY <1>0, <1>1, Numbers DEF EInv, TakenOnce, Positions
<1>5. Referenced'
  <2>1. \A f \in Frame : Pending(f)' <=> Pending(f) \/ f = next
    BY <1>1 DEF Pending
  <2>2. ~ Pending(next) /\ next \notin taken
    BY <1>1, Numbers DEF Pending, EInv, TakenOnce, Positions
  <2>3. refs[next] = 1
    BY <1>0, <2>2, Numbers DEF EInv, Referenced
  <2>4. refs' = [refs EXCEPT ![next] = 2]
    BY <1>0, <2>3
  <2>5. QED
    BY <1>0, <2>1, <2>2, <2>4 DEF EInv, Referenced, TypeOK
<1>6. QED
  BY <1>2, <1>3, <1>4, <1>5 DEF Core

LEMMA AcceptedKeeps ==
    ASSUME EInv, Accepted
    PROVE  Core'
<1> USE DEF Accepted, Pushing, Coming
<1>0. /\ Pushing /\ ~ Pushing' /\ (Coming' <=> Coming) /\ next' = next + 1
      /\ UNCHANGED <<pending, stop, opc, taken, coded, refs>>
  BY DEF consumer
<1>1. /\ DOMAIN hw' = DOMAIN hw \union {Len(hw) + 1}
      /\ \A i \in DOMAIN hw : hw'[i] = hw[i] /\ i < Len(hw) + 1 /\ i \in Nat
      /\ hw'[Len(hw) + 1] = next /\ Len(hw) \in Nat
  BY <1>0, Numbers, AppendOf
<1>2. Positions'
  <2>1. Rising(pending)' /\ Rising(hw)'
    BY <1>0, <1>1, Numbers DEF EInv, Positions, Rising
  <2>2. (\A i \in DOMAIN pending : pending[i] < next)'
    BY <1>0, Numbers DEF EInv, Positions
  <2>3. (\A i \in DOMAIN hw : hw[i] < next /\ \E j \in DOMAIN pending : pending[j] = hw[i])'
    BY <1>0, <1>1, Numbers DEF EInv, Positions
  <2>4. (\A f \in coded : f < next)'
    BY <1>0, Numbers DEF EInv, Positions
  <2>5. QED
    BY <1>0, <2>1, <2>2, <2>3, <2>4 DEF Positions
<1>3. FirstCoded'
  <2>1. (Coming => /\ pending # <<>> /\ pending[1] \in coded
                   /\ \A i \in DOMAIN hw : hw[i] # pending[1])'
    BY <1>0, <1>1, Numbers DEF EInv, FirstCoded, Positions
  <2>2. (stop \in {"no", "flag"} =>
           \A i \in DOMAIN pending : \/ Coming /\ i = 1
                                     \/ \E j \in DOMAIN hw : hw[j] = pending[i])'
    BY <1>0, <1>1 DEF EInv, FirstCoded
  <2>3. QED
    BY <1>0, <2>1, <2>2 DEF FirstCoded
<1>4. TakenOnce'
  BY <1>0, <1>1 DEF EInv, TakenOnce
<1>5. Referenced'
  <2>1. Pending(next) /\ \A f \in Frame : Pending(f)' <=> Pending(f)
    BY <1>0 DEF Pending, EInv, Positions
  <2>2. QED
    BY <1>0, <2>1, Numbers DEF EInv, Referenced
<1>6. QED
  BY <1>2, <1>3, <1>4, <1>5 DEF Core

LEMMA RemoveKeeps ==
    ASSUME EInv, RemovePendingFrame
    PROVE  Core'
<1> USE DEF Pushing, Coming
<1>0. /\ Pushing /\ ~ Pushing' /\ (Coming' <=> Coming) /\ next' = next + 1
      /\ UNCHANGED <<hw, stop, opc, taken, coded>>
      /\ refs' = [refs EXCEPT ![next] = @ - 2]
  BY DEF consumer, hardware, RemovePendingFrame
<1>1. PICK i \in DOMAIN pending : pending[i] = next /\ pending' = Erased(pending, i)
  BY DEF RemovePendingFrame, EInv, Positions
<1>2. /\ DOMAIN pending' = 1 .. i - 1 /\ DOMAIN pending = 1 .. i /\ i \in Nat
      /\ \A k \in 1 .. i - 1 : pending'[k] = pending[k] /\ pending[k] < next /\ pending[k] \in Nat
  BY <1>1, ErasedLast, Numbers
<1>3. Positions'
  <2>1. Rising(pending)' /\ Rising(hw)'
    BY <1>0, <1>2 DEF EInv, Positions, Rising
  <2>2. (\A k \in DOMAIN pending : pending[k] < next \/ (Pushing /\ pending[k] = next))'
    BY <1>0, <1>2, Numbers
  <2>3. (\A k \in DOMAIN hw : hw[k] < next /\ \E j \in DOMAIN pending : pending[j] = hw[k])'
    <3>1. SUFFICES ASSUME NEW k \in DOMAIN hw
                   PROVE  hw[k] < next + 1 /\ \E j \in 1 .. i - 1 : pending'[j] = hw[k]
      BY <1>0, <1>2
    <3>2. hw[k] \in Nat /\ hw[k] < next
      BY Numbers DEF EInv, Positions
    <3>3. PICK j \in 1 .. i : pending[j] = hw[k]
      BY <1>2 DEF EInv, Positions
    <3>4. j # i
      BY <1>1, <3>2, <3>3, Numbers
    <3>5. j \in 1 .. i - 1
      BY <1>2, <3>3, <3>4
    <3>6. pending'[j] = hw[k]
      BY <1>2, <3>3, <3>5
    <3>7. hw[k] < next + 1
      BY <3>2, Numbers
    <3>8. QED
      BY <3>5, <3>6, <3>7
  <2>4. (\A f \in coded : f < next)'
    BY <1>0, Numbers DEF EInv, Positions
  <2>5. QED
    BY <1>0, <2>1, <2>2, <2>3, <2>4 DEF Positions
<1>4. FirstCoded'
  <2>1. Coming => i # 1
    BY <1>0, <1>1, Numbers DEF EInv, FirstCoded, Positions
  <2>2. (Coming => /\ pending # <<>> /\ pending[1] \in coded
                   /\ \A k \in DOMAIN hw : hw[k] # pending[1])'
    BY <1>0, <1>2, <2>1 DEF EInv, FirstCoded
  <2>3. QED
    BY <1>0, <1>2, <2>2 DEF EInv, FirstCoded
<1>5. TakenOnce'
  BY <1>0, <1>2 DEF EInv, TakenOnce
<1>6. Referenced'
  <2>1. \A f \in Frame : Pending(f)' <=> (Pending(f) /\ f # next)
    BY <1>1, <1>2 DEF Pending
  <2>2. next \notin taken
    BY <1>0 DEF EInv, TakenOnce, Positions
  <2>3. Pending(next)
    BY <1>1 DEF Pending
  <2>4. /\ next \in Nat /\ refs \in [Frame -> Nat]
        /\ \A f \in Frame : f \in Nat
    BY Numbers DEF EInv, TypeOK
  <2>5. SUFFICES ASSUME NEW f \in Frame
                 PROVE  refs'[f] = IF Pending(f)' \/ f \in taken THEN 2
                                   ELSE IF f < next + 1 THEN 0 ELSE 1
    BY <1>0 DEF Referenced
  <2>6. CASE f = next
    <3>1. refs[f] = 2 /\ refs'[f] = refs[f] - 2
      BY <1>0, <2>3, <2>4, <2>6 DEF EInv, Referenced
    <3>2. ~ Pending(f)' /\ f \notin taken /\ f < next + 1
      BY <2>1, <2>2, <2>4, <2>6
    <3>3. QED
      BY <3>1, <3>2
  <2>7. CASE f # next
    <3>1. refs'[f] = refs[f]
      BY <1>0, <2>4, <2>7
    <3>2. (Pending(f)' <=> Pending(f)) /\ (f < next + 1 <=> f < next)
      BY <2>1, <2>4, <2>7
    <3>3. QED
      BY <3>1, <3>2 DEF EInv, Referenced
  <2>8. QED
    BY <2>6, <2>7
<1>7. QED
  BY <1>3, <1>4, <1>5, <1>6 DEF Core

LEMMA GetLastKeeps ==
    ASSUME EInv, GetLast
    PROVE  Core'
<1>0. /\ ~ Coming /\ Coming' /\ (Pushing' <=> Pushing) /\ hw # <<>>
      /\ hw' = Tail(hw) /\ coded' = coded \union {Head(hw)}
      /\ UNCHANGED <<next, pending, stop, taken, refs>> /\ taken = {}
  BY DEF GetLast, Coming, Pushing, producer, EInv, TakenOnce
<1>1. /\ 1 \in DOMAIN hw /\ Head(hw) = hw[1]
      /\ \A i \in DOMAIN hw' : hw'[i] = hw[i + 1] /\ i + 1 \in DOMAIN hw /\ i \in Nat /\ i > 0
      /\ \A i \in DOMAIN hw : i = 1 \/ (i > 1 /\ i \in Nat /\ i - 1 \in DOMAIN hw')
  BY <1>0, Numbers, TailOf
<1>2. stop \in {"no", "flag"}
  BY <1>0 DEF EInv, Stopping
<1>3. \A i \in DOMAIN hw : i # 1 => hw[1] < hw[i]
  BY <1>1, Numbers DEF EInv, Positions, Rising
\* The packet ends the first of the pending frames.
<1>4. pending # <<>> /\ 1 \in DOMAIN pending /\ pending[1] = hw[1]
  <2>1. PICK k \in DOMAIN pending : pending[k] = hw[1]
    BY <1>1 DEF EInv, Positions
  <2>2. 1 \in DOMAIN pending /\ pending # <<>>
    BY <2>1, Numbers
  <2>3. pending[1] <= hw[1] /\ pending[1] < next
    <3>1. k = 1 \/ pending[1] < pending[k]
      BY <2>2, Numbers DEF EInv, Positions, Rising
    <3>2. hw[1] < next /\ hw[1] \in Nat /\ pending[1] \in Nat /\ next \in Nat
      BY <1>1, <2>2, Numbers DEF EInv, Positions
    <3>3. QED
      BY <2>1, <3>1, <3>2
  <2>4. PICK j \in DOMAIN hw : hw[j] = pending[1]
    BY <1>0, <1>2, <2>2, <2>3, Numbers DEF EInv, FirstCoded
  <2>5. hw[1] \in Nat /\ pending[1] \in Nat /\ (j = 1 \/ hw[1] < hw[j])
    BY <1>1, <1>3, <2>2, Numbers
  <2>6. QED
    BY <2>2, <2>3, <2>4, <2>5
<1>5. Positions'
  <2>1. Rising(pending)' /\ Rising(hw)'
    BY <1>0, <1>1, Numbers DEF EInv, Positions, Rising
  <2>2. (\A i \in DOMAIN hw : hw[i] < next /\ \E j \in DOMAIN pending : pending[j] = hw[i])'
    BY <1>0, <1>1 DEF EInv, Positions
  <2>3. (\A f \in coded : f < next)'
    BY <1>0, <1>1 DEF EInv, Positions
  <2>4. QED
    BY <1>0, <2>1, <2>2, <2>3 DEF EInv, Positions
<1>6. FirstCoded'
  <2>1. (/\ pending # <<>> /\ pending[1] \in coded
         /\ \A i \in DOMAIN hw : hw[i] # pending[1])'
    <3>1. ASSUME NEW i \in DOMAIN hw'
          PROVE  hw'[i] # hw[1]
      <4>1. i + 1 \in DOMAIN hw /\ i + 1 # 1 /\ hw'[i] = hw[i + 1]
        BY <1>1
      <4>2. hw[1] < hw[i + 1] /\ hw[1] \in Nat
        BY <1>1, <1>3, <4>1, Numbers
      <4>3. QED
        BY <4>1, <4>2
    <3>2. QED
      BY <1>0, <1>1, <1>4, <3>1
  <2>2. (\A i \in DOMAIN pending : \/ i = 1
                                   \/ Pushing /\ pending[i] = next
                                   \/ \E j \in DOMAIN hw : hw[j] = pending[i])'
    <3>1. SUFFICES ASSUME NEW i \in DOMAIN pending, i # 1, ~ (Pushing /\ pending[i] = next)
                   PROVE  \E j \in DOMAIN hw' : hw'[j] = pending[i]
      BY <1>0
    <3>2. PICK k \in DOMAIN hw : hw[k] = pending[i]
      BY <1>0, <1>2, <3>1 DEF EInv, FirstCoded
    <3>3. pending[1] < pending[i]
      BY <1>4, <3>1, Numbers DEF EInv, Positions, Rising
    <3>4. k # 1
      BY <1>4, <3>2, <3>3, Numbers
    <3>5. k - 1 \in DOMAIN hw' /\ k \in Nat
      BY <1>1, <3>4
    <3>6. hw'[k - 1] = pending[i]
      BY <1>1, <3>2, <3>5
    <3>7. QED
      BY <3>5, <3>6
  <2>3. QED
    BY <1>0, <2>1, <2>2 DEF FirstCoded
<1>7. TakenOnce'
  BY <1>0 DEF TakenOnce
<1>8. Referenced'
  BY <1>0 DEF EInv, Referenced, Pending
<1>9. QED
  BY <1>5, <1>6, <1>7, <1>8 DEF Core

LEMMA PopOldestKeeps ==
    ASSUME EInv, PopOldest
    PROVE  Core'
<1>0. /\ Coming /\ ~ Coming' /\ (Pushing' <=> Pushing) /\ pending # <<>>
      /\ taken' = {Head(pending)} /\ pending' = Tail(pending) /\ opc' = "recycle"
      /\ UNCHANGED <<next, hw, stop, coded, refs>> /\ taken = {}
  BY DEF PopOldest, Coming, Pushing, producer, hardware, EInv, TakenOnce
<1>1. /\ 1 \in DOMAIN pending /\ Head(pending) = pending[1]
      /\ \A i \in DOMAIN pending' :
           pending'[i] = pending[i + 1] /\ i + 1 \in DOMAIN pending /\ i \in Nat /\ i > 0
      /\ \A i \in DOMAIN pending :
           i = 1 \/ (i > 1 /\ i \in Nat /\ i - 1 \in DOMAIN pending')
  BY <1>0, Numbers, TailOf
<1>2. pending[1] \in coded /\ pending[1] < next /\ \A i \in DOMAIN hw : hw[i] # pending[1]
  BY <1>0 DEF EInv, FirstCoded, Positions
<1>3. \A i \in DOMAIN pending' : pending[1] < pending'[i]
  BY <1>1, Numbers DEF EInv, Positions, Rising
<1>4. \A f : (\E j \in DOMAIN pending' : pending'[j] = f)
                <=> (f # pending[1] /\ \E j \in DOMAIN pending : pending[j] = f)
  <2>1. ASSUME NEW j \in DOMAIN pending, pending[j] # pending[1]
        PROVE  j - 1 \in DOMAIN pending' /\ pending'[j - 1] = pending[j]
    BY <1>1, <2>1
  <2>2. ASSUME NEW j \in DOMAIN pending'
        PROVE  pending'[j] # pending[1] /\ j + 1 \in DOMAIN pending /\ pending[j + 1] = pending'[j]
    BY <1>1, <1>3, <2>2, Numbers
  <2>3. QED
    BY <2>1, <2>2
<1>5. Positions'
  <2>1. Rising(pending)' /\ Rising(hw)'
    BY <1>0, <1>1, Numbers DEF EInv, Positions, Rising
  <2>2. (Pushing => next \in Frame /\ \E i \in DOMAIN pending : pending[i] = next)'
    <3>1. pending[1] # next
      BY <1>1, <1>2, Numbers
    <3>2. QED
      BY <1>0, <1>4, <3>1 DEF EInv, Positions
  <2>3. (\A i \in DOMAIN pending : pending[i] < next \/ (Pushing /\ pending[i] = next))'
    BY <1>0, <1>1 DEF EInv, Positions
  <2>4. (\A i \in DOMAIN hw : hw[i] < next /\ \E j \in DOMAIN pending : pending[j] = hw[i])'
    BY <1>0, <1>2, <1>4 DEF EInv, Positions
  <2>5. QED
    BY <1>0, <2>1, <2>2, <2>3, <2>4 DEF EInv, Positions
<1>6. FirstCoded'
  <2>1. (stop \in {"no", "flag"} =>
           \A i \in DOMAIN pending : \/ Pushing /\ pending[i] = next
                                     \/ \E j \in DOMAIN hw : hw[j] = pending[i])'
    <3>1. SUFFICES ASSUME stop \in {"no", "flag"}, NEW i \in DOMAIN pending'
                   PROVE  \/ Pushing /\ pending[i + 1] = next
                          \/ \E j \in DOMAIN hw : hw[j] = pending[i + 1]
      BY <1>0, <1>1
    <3>2. i + 1 \in DOMAIN pending /\ i + 1 # 1
      BY <1>1
    <3>3. QED
      BY <3>1, <3>2 DEF EInv, FirstCoded
  <2>2. QED
    BY <1>0, <2>1 DEF FirstCoded
<1>7. TakenOnce'
  <2>1. \A i \in DOMAIN pending' : pending[1] # pending'[i]
    BY <1>4
  <2>2. QED
    BY <1>0, <1>1, <1>2, <2>1 DEF TakenOnce
<1>8. Referenced'
  <2>1. \A f \in Frame : (Pending(f) \/ f \in taken)' <=> Pending(f)
    BY <1>0, <1>1, <1>4 DEF Pending
  <2>2. QED
    BY <1>0, <2>1 DEF EInv, Referenced
<1>9. QED
  BY <1>5, <1>6, <1>7, <1>8 DEF Core

LEMMA RecycleKeeps ==
    ASSUME EInv, RecycleEncodedFrame
    PROVE  Core'
<1>0. /\ ~ Coming /\ ~ Coming' /\ (Pushing' <=> Pushing)
      /\ UNCHANGED <<next, pending, hw, stop, coded>> /\ taken' = {} /\ opc' = "poll"
      /\ refs' = [f \in Frame |-> IF f \in taken THEN refs[f] - 2 ELSE refs[f]]
  BY DEF RecycleEncodedFrame, Coming, Pushing, producer, hardware
<1>1. Positions'
  BY <1>0 DEF EInv, Positions, Rising
<1>2. FirstCoded'
  BY <1>0 DEF EInv, FirstCoded
<1>3. TakenOnce'
  BY <1>0 DEF TakenOnce
<1>4. Referenced'
  <2>1. ASSUME NEW f \in Frame
        PROVE  refs'[f] = IF Pending(f) THEN 2 ELSE IF f < next THEN 0 ELSE 1
    <3>1. f \in taken => ~ Pending(f) /\ f < next
      BY DEF Pending, EInv, TakenOnce, Positions
    <3>2. QED
      BY <1>0, <3>1 DEF EInv, Referenced
  <2>2. QED
    BY <1>0, <2>1 DEF Referenced, Pending
<1>5. QED
  BY <1>1, <1>2, <1>3, <1>4 DEF Core

LEMMA NoFrameKeeps ==
    ASSUME EInv, NoFrame
    PROVE  Core'
<1>0. /\ ~ Pushing /\ ~ Pushing' /\ (Coming' <=> Coming) /\ next \in Frame /\ next' = next + 1
      /\ UNCHANGED <<pending, hw, stop, opc, taken, coded>>
      /\ refs' = [refs EXCEPT ![next] = @ - 1]
  BY DEF NoFrame, Coming, Pushing, consumer, hardware
<1>1. Positions'
  BY <1>0, Numbers DEF EInv, Positions, Rising
<1>2. FirstCoded'
  BY <1>0 DEF EInv, FirstCoded
<1>3. TakenOnce'
  BY <1>0 DEF EInv, TakenOnce
<1>4. Referenced'
  <2>1. ~ Pending(next) /\ next \notin taken
    BY <1>0, Numbers DEF Pending, EInv, TakenOnce, Positions
  <2>2. \A f \in Frame : Pending(f)' <=> Pending(f)
    BY <1>0 DEF Pending
  <2>3. QED
    BY <1>0, <2>1, <2>2, Numbers DEF EInv, Referenced, TypeOK
<1>5. QED
  BY <1>1, <1>2, <1>3, <1>4 DEF Core

\* Stop drops what the hardware has, and later what is still pending.
LEMMA ResetKeeps ==
    ASSUME EInv, Reset
    PROVE  Core'
<1>0. /\ (Pushing' <=> Pushing) /\ (Coming' <=> Coming) /\ hw' = <<>> /\ stop' = "reset"
      /\ UNCHANGED <<next, pending, opc, taken, coded, refs>>
  BY DEF Reset, Coming, Pushing, consumer, producer
<1>1. Positions'
  BY <1>0 DEF EInv, Positions, Rising
<1>2. FirstCoded'
  BY <1>0 DEF EInv, FirstCoded
<1>3. TakenOnce' /\ Referenced'
  BY <1>0 DEF EInv, TakenOnce, Referenced, Pending
<1>4. QED
  BY <1>1, <1>2, <1>3 DEF Core

LEMMA ClearKeeps ==
    ASSUME EInv, Clear
    PROVE  Core'
<1>0. /\ ~ Pushing /\ ~ Pushing' /\ ~ Coming' /\ hw = <<>> /\ hw' = <<>> /\ taken = {} /\ taken' = {}
      /\ stop' = "cleared" /\ pending' = <<>> /\ UNCHANGED <<next, coded>>
      /\ refs' = [f \in Frame |-> IF Pending(f) THEN refs[f] - 2 ELSE refs[f]]
  BY DEF Clear, Coming, Pushing, Pending, consumer, producer, hardware, EInv, Stopping, TakenOnce
<1>1. Positions'
  BY <1>0 DEF EInv, Positions, Rising
<1>2. FirstCoded' /\ TakenOnce'
  BY <1>0 DEF FirstCoded, TakenOnce
<1>3. Referenced'
  <2>1. \A f \in Frame : Pending(f) => f < next
    BY <1>0 DEF Pending, EInv, Positions
  <2>2. \A f \in Frame : ~ Pending(f)'
    BY <1>0 DEF Pending
  <2>3. QED
    BY <1>0, <2>1, <2>2 DEF EInv, Referenced
<1>4. QED
  BY <1>1, <1>2, <1>3 DEF Core

\* The other steps move no frame.
Still == /\ UNCHANGED <<next, pending, hw, taken, coded, refs, stop>>
         /\ (Pushing' <=> Pushing) /\ (Coming' => Coming)
         /\ (Coming => Coming' \/ pending = <<>>)
         /\ opc' # opc => opc # "recycle" /\ opc' # "recycle"

LEMMA StillKeeps ==
    ASSUME EInv, Still
    PROVE  Core'
<1>1. Positions'
  BY DEF Still, EInv, Positions, Rising
<1>2. FirstCoded'
  BY DEF Still, EInv, FirstCoded
<1>3. TakenOnce'
  BY DEF Still, EInv, TakenOnce
<1>4. Referenced'
  BY DEF Still, EInv, Referenced, Pending
<1>5. QED
  BY <1>1, <1>2, <1>3, <1>4 DEF Core

LEMMA CoreKept ==
    ASSUME EInv, [Next]_vars
    PROVE  Core'
<1>1. CASE Aside
  BY <1>1, AsideKeeps, StillKeeps
     DEF Still, Pushing, Coming, work, producer, hardware, consumer
<1>2. CASE Start
  BY <1>2, StillKeeps
     DEF Start, Still, Pushing, Coming, producer, hardware, consumer, EInv, Stopping
<1>3. CASE Refused \/ GetOther \/ SkipRecycle \/ Poll \/ GetNothing \/ EndThread \/ JoinThreads
  BY <1>3, StillKeeps
     DEF Refused, GetOther, SkipRecycle, Poll, GetNothing, EndThread, JoinThreads,
         Still, Pushing, Coming, producer, hardware, consumer
<1>4. CASE StopFlag \/ ReleaseHandles
  <2>1. /\ UNCHANGED <<producer, pending, hardware, consumer, refs>>
        /\ stop' \in {"no", "flag"} => stop \in {"no", "flag"}
    BY <1>4 DEF StopFlag, ReleaseHandles
  <2>2. QED
    BY <2>1 DEF producer, hardware, consumer, EInv, Core, Positions, Rising, FirstCoded,
                TakenOnce, Referenced, Pending, Pushing, Coming
<1>5. QED
  BY <1>1, <1>2, <1>3, <1>4, PushBackKeeps, AcceptedKeeps, RemoveKeeps, NoFrameKeeps,
     GetLastKeeps, PopOldestKeeps, RecycleKeeps, ResetKeeps, ClearKeeps, Sorted DEF Steps

-----------------------------------------------------------------------------
(* The invariant *)

\* What the producer, the hardware and the encoder's thread keep.
WorkTyped ==
    /\ ppc \in {"idle", "put", "remove", "joined"}
    /\ next \in 1 .. Frames + 1
    /\ pending \in Seq(Frame) /\ hw \in Seq(Frame)
    /\ extras \in 0 .. Extras
    /\ opc \in {"none", "poll", "get", "packet", "recycle", "ended"}
    /\ packet \in {"last", "more"}
    /\ taken \subseteq Frame /\ coded \subseteq Frame
    /\ DOMAIN refs = Frame /\ refs = [f \in Frame |-> refs[f]]
    /\ stop \in {"no", "flag", "reset", "cleared", "done"}

LEMMA WorkKept ==
    ASSUME EInv, [Next]_vars
    PROVE  WorkTyped'
<1>1. WorkTyped /\ Frames \in Nat /\ Extras \in Nat /\ TypeOK
  BY EncoderAssumption DEF EInv, TypeOK, WorkTyped
<1> <<>> \in Seq(Frame)
  OBVIOUS
<1>2. CASE Aside
  BY <1>1, <1>2, AsideKeeps DEF work, producer, hardware, consumer, WorkTyped
<1>3. CASE PushBack
  BY <1>1, <1>3, AppendOf DEF PushBack, hardware, consumer, WorkTyped
<1>4. CASE Accepted
  <2>1. next \in Frame
    BY <1>4, Numbers DEF Accepted, Pushing
  <2>2. next' \in 1 .. Frames + 1 /\ hw' \in Seq(Frame)
    BY <1>1, <1>4, <2>1, AppendOf DEF Accepted, Frame, WorkTyped
  <2>3. QED
    BY <1>1, <1>4, <2>2 DEF Accepted, consumer, WorkTyped
<1>5. CASE NoFrame
  <2>1. next' \in 1 .. Frames + 1
    BY <1>1, <1>5 DEF NoFrame, Frame
  <2>2. DOMAIN refs' = Frame /\ refs' = [f \in Frame |-> refs'[f]]
    BY <1>1, <1>5 DEF NoFrame, WorkTyped
  <2>3. QED
    BY <1>1, <1>5, <2>1, <2>2 DEF NoFrame, hardware, consumer, WorkTyped
<1>6. CASE RemovePendingFrame
  <2>1. PICK i \in DOMAIN pending : pending[i] = next /\ pending' = Erased(pending, i)
    BY <1>6 DEF RemovePendingFrame, EInv, Positions, Pushing
  <2>2. next \in Frame
    BY <1>6, Numbers DEF RemovePendingFrame, Pushing
  <2>3. next' \in 1 .. Frames + 1 /\ pending' \in Seq(Frame)
    BY <1>1, <1>6, <2>1, <2>2, ErasedLast DEF RemovePendingFrame, Frame
  <2>4. QED
    BY <1>1, <1>6, <2>3 DEF RemovePendingFrame, hardware, consumer, WorkTyped
<1>7. CASE GetOther
  BY <1>1, <1>7 DEF GetOther, producer, WorkTyped
<1>8. CASE GetLast
  BY <1>1, <1>8, TailOf DEF GetLast, producer, WorkTyped
<1>9. CASE PopOldest
  BY <1>1, <1>9, TailOf DEF PopOldest, producer, hardware, WorkTyped
<1>10. CASE RecycleEncodedFrame \/ Clear
  <2>1. DOMAIN refs' = Frame /\ refs' = [f \in Frame |-> refs'[f]]
    BY <1>10 DEF RecycleEncodedFrame, Clear
  <2>2. pending' \in {pending, <<>>} /\ taken' \in {taken, {}}
    BY <1>10 DEF RecycleEncodedFrame, Clear, consumer
  <2>3. /\ UNCHANGED <<producer, hardware, packet, coded>>
        /\ opc' \in {opc, "poll"} /\ stop' \in {stop, "cleared"}
    BY <1>10 DEF RecycleEncodedFrame, Clear, consumer
  <2>4. pending' \in Seq(Frame) /\ taken' \subseteq Frame
    <3>1. pending \in Seq(Frame) /\ taken \subseteq Frame
      BY <1>1 DEF WorkTyped
    <3>2. (pending' = pending \/ pending' = <<>>) /\ (taken' = taken \/ taken' = {})
      BY <2>2
    <3>3. QED
      BY <3>1, <3>2
  <2>5. QED
    BY <1>1, <2>1, <2>3, <2>4 DEF producer, hardware, WorkTyped
<1>11. CASE Start \/ Refused \/ SkipRecycle \/ Poll \/ GetNothing \/ EndThread \/ JoinThreads
  BY <1>1, <1>11 DEF Start, Refused, SkipRecycle, Poll, GetNothing, EndThread, JoinThreads,
                    producer, hardware, consumer, WorkTyped
<1>12. CASE StopFlag \/ Reset \/ ReleaseHandles
  <2>1. /\ UNCHANGED <<ppc, next, pending, extras, opc, packet, taken, coded, refs>>
        /\ hw' \in {hw, <<>>} /\ stop' \in {"flag", "reset", "done"}
    BY <1>12 DEF StopFlag, Reset, ReleaseHandles, producer, hardware, consumer
  <2>2. hw' \in Seq(Frame)
    <3>1. hw \in Seq(Frame)
      BY <1>1 DEF WorkTyped
    <3>2. hw' = hw \/ hw' = <<>>
      BY <2>1
    <3>3. QED
      BY <3>1, <3>2
  <2>3. QED
    BY <1>1, <2>1, <2>2 DEF WorkTyped
<1>13. QED
  BY <1>2, <1>3, <1>4, <1>5, <1>6, <1>7, <1>8, <1>9, <1>10, <1>11, <1>12, Sorted DEF Steps

LEMMA TypeKept ==
    ASSUME EInv, [Next]_vars
    PROVE  TypeOK'
<1>1. /\ setup' \in {"none", "init", "cfg", "configure", "header", "ready",
                      "running", "crashed"}
      /\ handles' \subseteq {"ctx", "cfg"}
      /\ inited' \in {"no", "true", "false"}
  <2>1. CASE Aside
    BY <2>1 DEF Aside, InitEncoder, MppCreate, MppInit, CfgInit, Goes, Configure, InitFails,
                GetHeader, CrashingCall, vars, lifecycle, EInv, TypeOK
  <2>2. CASE UNCHANGED lifecycle \/ Start \/ JoinThreads \/ ReleaseHandles
    BY <2>2 DEF lifecycle, Start, JoinThreads, ReleaseHandles, EInv, TypeOK
  <2>3. QED
    BY <2>1, <2>2, Sorted DEF Steps, Running
<1>2. refs' \in [Frame -> Nat]
  BY WorkKept, CoreKept DEF WorkTyped, Core, Referenced
<1>3. QED
  BY <1>1, <1>2, WorkKept DEF WorkTyped, TypeOK

LEMMA Begin ==
    ASSUME Init
    PROVE  EInv
BY EncoderAssumption
   DEF Init, EInv, TypeOK, Positions, Rising, FirstCoded, TakenOnce, Referenced, Pending,
       Stopping, Handles, Pushing, Coming, Frame

LEMMA Step ==
    ASSUME EInv, [Next]_vars
    PROVE  EInv'
BY TypeKept, CoreKept, StoppingKept, HandlesKept DEF EInv, Core

LEMMA EncoderStep ==
    ASSUME StreamNext \/ UNCHANGED streamVars
    PROVE  [Next]_vars
<1>1. CASE Quietly(InitEncoder) \/ StartEncoder
  BY <1>1 DEF Quietly, StartEncoder, Next
<1>2. CASE Owner \/ Thread \/ Packet
  BY <1>2 DEF Owner, Thread, Packet, Quietly, Next, OutputThreadFunc
<1>3. CASE Teardown
  BY <1>3 DEF Teardown, Quietly, Next
<1>4. CASE InitPublisher \/ Callback \/ ClosePublisher
  BY <1>4 DEF InitPublisher, Callback, Stamp, PushRefused, PushAccepted, WriteFrame,
              ClosePublisher
<1>5. CASE UNCHANGED streamVars
  BY <1>5 DEF streamVars
<1>6. QED
  BY <1>1, <1>2, <1>3, <1>4, <1>5 DEF StreamNext

\* In the channel the encoder does only its own steps: whatever the publisher
\* and the packet callback do, the encoder keeps its specification.
THEOREM ChannelRunsEncoder == StreamSpec => Spec
<1>1. StreamInit => Init
  BY DEF StreamInit
<1>2. [StreamNext]_streamVars => [Next]_vars
  BY EncoderStep
<1>3. QED
  BY <1>1, <1>2, PTL DEF StreamSpec, Spec

\* The invariant is inductive.
THEOREM EncoderInvariance == Spec => []EInv
<1>1. QED
  BY Begin, Step, PTL DEF Spec

\* The frame that is recycled for a packet is one that has been coded, although
\* frames and packets are matched by their order only: with any number of
\* frames refused, and at any point of the destructor.
THEOREM RecyclesRight == StreamSpec => []RecyclesWhatWasCoded
<1>1. EInv => RecyclesWhatWasCoded
  BY DEF EInv, TakenOnce, RecyclesWhatWasCoded
<1>2. QED
  BY <1>1, ChannelRunsEncoder, EncoderInvariance, PTL

\* A buffer the hardware may still read is never given back to the decoder.
THEOREM KeptWhileEncoded == StreamSpec => []EncodedIsReferenced
<1>1. ASSUME EInv, NEW i \in DOMAIN hw
      PROVE  refs[hw[i]] > 0
  <2>1. hw[i] \in Frame /\ Pending(hw[i])
    BY <1>1, Numbers DEF EInv, Positions, Pending
  <2>2. QED
    BY <1>1, <2>1 DEF EInv, Referenced
<1>2. EInv => EncodedIsReferenced
  BY <1>1 DEF EncodedIsReferenced
<1>3. QED
  BY <1>2, ChannelRunsEncoder, EncoderInvariance, PTL

\* Only an Init that failed leaves the program with a null mpi_: Stop takes
\* the context away when no thread is left that could call into it.
THEOREM CrashExplained == StreamSpec => []CrashOnlyAfterFailedInit
<1>1. EInv => CrashOnlyAfterFailedInit
  BY DEF EInv, Handles, CrashOnlyAfterFailedInit
<1>2. QED
  BY <1>1, ChannelRunsEncoder, EncoderInvariance, PTL

-----------------------------------------------------------------------------
(* Publisher and destructor *)

StreamTyped ==
    /\ stage \in {"none", "stream", "io", "header", "over", "closed"}
    /\ started \in {"yes", "no"}
    /\ callback \in {"idle", "due", "push", "write"}
    /\ index \in Nat /\ pts \in Int /\ sent \in Int

\* The encoder's thread is started when the publisher has been tried.
Opened ==
    /\ stage \in {"stream", "io", "header"} => "context" \in held
    /\ started = "yes" => stage = "over" /\ "context" \in held /\ muxer = "header"
    /\ opc # "none" => stage \in {"over", "closed"}

\* While the callback is due or runs the encoder's thread is in it.
Calling ==
    /\ callback # "idle" => opc = "packet"
    /\ callback = "write" => started = "yes"
    /\ sent <= pts
    /\ callback \in {"push", "write"} => sent < pts

Emptied ==
    /\ stop \in {"cleared", "done"} => pending = <<>>
    /\ stop = "done" => handles = {}
    /\ stage = "closed" => stop = "done" /\ held = {}

SInv == EInv /\ StreamTyped /\ Opened /\ Calling /\ Emptied

\* A packet's time stamp is behind the last one, whatever the clock gives.
LEMMA StampRises ==
    ASSUME StreamTyped, Stamp
    PROVE  pts' \in Int /\ pts' > pts /\ index' \in Nat
<1>1. Clock \in Nat /\ Fps \in Nat /\ Fps # 0 /\ index \in Nat /\ pts \in Int
  BY StreamAssumption DEF StreamTyped
<1>2. index * Clock \in Int
  BY <1>1
<1>3. (index * Clock) \div Fps \in Int
  BY <1>1, <1>2
<1>4. pts' = Later((index * Clock) \div Fps, pts + 1) /\ index' = index + 1
  BY DEF Stamp
<1>5. QED
  BY <1>1, <1>3, <1>4 DEF Later

Beside == StreamTyped /\ Opened /\ Calling /\ Emptied

\* The steps of the encoder.
LEMMA InnerKeeps ==
    ASSUME SInv, \/ Quietly(InitEncoder) \/ StartEncoder
                 \/ Owner \/ Thread \/ Packet \/ Teardown
    PROVE  Beside'
<1>0. EInv /\ Stopping /\ StreamTyped /\ Opened /\ Calling /\ Emptied
  BY DEF SInv, EInv
<1> USE DEF Beside, StreamTyped, Opened, Calling, Emptied, publisher, stamps
<1>1. CASE Quietly(InitEncoder)
  <2>1. UNCHANGED <<publisher, callback, stamps, opc, pending, stop>>
    BY <1>1, AsideKeeps DEF Quietly, Aside, work, consumer
  <2>2. setup \notin {"running", "crashed"}
    BY <1>1 DEF Quietly, InitEncoder, MppCreate, MppInit, CfgInit, Goes, Configure, GetHeader
  <2>3. stop = "no"
    BY <1>0, <2>2 DEF Stopping
  <2>4. QED
    BY <1>0, <2>1, <2>3
<1>2. CASE StartEncoder
  <2>1. UNCHANGED <<publisher, callback, stamps, pending, stop, handles>> /\ stage = "over"
    BY <1>2 DEF StartEncoder, Start
  <2>2. callback = "idle"
    BY <1>0, <1>2 DEF StartEncoder, Start, Stopping
  <2>3. QED
    BY <1>0, <2>1, <2>2
<1>3. CASE Owner
  <2>1. UNCHANGED <<publisher, callback, stamps, opc, stop, handles>>
    BY <1>3 DEF Owner, Quietly, PushBuffer, Running, CrashingCall, lifecycle, work, consumer,
                NoFrame, PushBack, Accepted, Refused, RemovePendingFrame
  <2>2. ppc = "joined" => UNCHANGED pending
    BY <1>3 DEF Owner, Quietly, PushBuffer, CrashingCall, work,
                NoFrame, PushBack, Accepted, Refused, RemovePendingFrame
  <2>3. QED
    BY <1>0, <2>1, <2>2 DEF Stopping
<1>4. CASE Thread
  <2>1. UNCHANGED <<publisher, callback, stamps, stop, handles>>
    BY <1>4 DEF Thread, Quietly, Polling, AfterCallback, Running, lifecycle,
                Poll, GetNothing, RecycleEncodedFrame, EndThread, PopOldest, SkipRecycle
  <2>2. opc \in {"poll", "get", "packet", "recycle"} /\ (opc = "packet" => callback = "idle")
    BY <1>4 DEF Thread, Quietly, Polling, AfterCallback,
                Poll, GetNothing, RecycleEncodedFrame, EndThread, PopOldest, SkipRecycle
  <2>3. callback = "idle" /\ stop \notin {"cleared", "done"}
    BY <1>0, <2>2 DEF Stopping
  <2>4. QED
    BY <1>0, <2>1, <2>2, <2>3
<1>5. CASE Packet
  <2>1. /\ UNCHANGED <<publisher, stamps, stop, handles, pending>>
        /\ callback' \in {"idle", "due"} /\ opc = "get" /\ opc' = "packet"
    BY <1>5 DEF Packet, GetPacket, Running, lifecycle, GetOther, GetLast
  <2>2. QED
    BY <1>0, <2>1
<1>6. CASE Teardown
  <2>1. UNCHANGED <<publisher, callback, stamps, opc>>
    BY <1>6 DEF Teardown, Quietly, JoinThreads, Stop, StopFlag, Reset, Clear, ReleaseHandles,
                consumer
  <2>2. \/ UNCHANGED <<stop, pending, handles>>
        \/ UNCHANGED pending /\ stop # "done" /\ stop' \in {"flag", "reset"}
        \/ pending' = <<>> /\ stop # "done" /\ stop' = "cleared"
        \/ UNCHANGED pending /\ stop = "cleared" /\ stop' = "done" /\ handles' = {}
    BY <1>6 DEF Teardown, Quietly, JoinThreads, Stop, StopFlag, Reset, Clear, ReleaseHandles,
                lifecycle
  <2>3. QED
    BY <1>0, <2>1, <2>2
<1>7. QED
  BY <1>1, <1>2, <1>3, <1>4, <1>5, <1>6

\* The steps of the publisher, of the callback and of the destructor.
LEMMA OuterKeeps ==
    ASSUME SInv, InitPublisher \/ Callback \/ ClosePublisher \/ UNCHANGED streamVars
    PROVE  Beside'
<1>0. EInv /\ Stopping /\ StreamTyped /\ Opened /\ Calling /\ Emptied
  BY DEF SInv, EInv
<1>1. UNCHANGED <<opc, stop, pending, handles>>
  BY DEF InitPublisher, Callback, Stamp, PushRefused, PushAccepted, WriteFrame, ClosePublisher,
         streamVars, vars, lifecycle, work, consumer
<1> USE DEF Beside, StreamTyped, Opened, Calling, Emptied, publisher, stamps
<1>2. CASE InitPublisher
  <2>1. UNCHANGED <<callback, stamps, sent>> /\ setup = "ready" /\ stage \notin {"over", "closed"}
    BY <1>2 DEF InitPublisher, P!InitPublisher, P!AllocContext, P!NewStream, P!OpenIo,
                P!WriteHeader, P!GiveUp
  <2>2. callback = "idle" /\ started = "no" /\ opc = "none"
    BY <1>0, <2>1 DEF Stopping
  <2>3. stage' \in {"stream", "io", "header", "over"}
    BY <1>2 DEF InitPublisher, P!InitPublisher, P!AllocContext, P!NewStream, P!OpenIo,
                P!WriteHeader, P!GiveUp
  <2>4. stage' # "over" => "context" \in held' /\ started' = "no"
    BY <1>0, <1>2, <2>2 DEF InitPublisher, P!InitPublisher, P!AllocContext, P!NewStream, P!OpenIo,
                P!WriteHeader, P!GiveUp
  <2>5. /\ started' \in {"yes", "no"}
        /\ started' = "yes" => stage' = "over" /\ "context" \in held' /\ muxer' = "header"
    BY <1>0, <1>2, <2>2 DEF InitPublisher, P!InitPublisher, P!AllocContext, P!NewStream, P!OpenIo,
                P!WriteHeader, P!GiveUp, P!Close
  <2>6. QED
    BY <1>0, <1>1, <2>1, <2>2, <2>3, <2>4, <2>5
<1>3. CASE Stamp
  <2>1. callback = "due" /\ callback' = "push" /\ UNCHANGED publisher
    BY <1>3 DEF Stamp
  <2>2. pts' \in Int /\ pts' > pts /\ index' \in Nat
    BY <1>0, <1>3, StampRises
  <2>3. QED
    BY <1>0, <1>1, <2>1, <2>2
<1>4. CASE PushRefused
  BY <1>0, <1>1, <1>4 DEF PushRefused
<1>5. CASE PushAccepted
  BY <1>0, <1>1, <1>5 DEF PushAccepted, P!Pushable
<1>6. CASE WriteFrame
  BY <1>0, <1>1, <1>6 DEF WriteFrame, P!WriteFrame
<1>7. CASE ClosePublisher
  <2>1. /\ stop = "done" /\ stage' = "closed" /\ held' = {} /\ started' = "no"
        /\ UNCHANGED <<sent, callback, stamps>>
    BY <1>7 DEF ClosePublisher, P!Close
  <2>2. opc = "ended"
    BY <1>0, <2>1 DEF Stopping
  <2>3. QED
    BY <1>0, <1>1, <2>1, <2>2
<1>8. CASE UNCHANGED streamVars
  BY <1>0, <1>1, <1>8 DEF streamVars
<1>9. QED
  BY <1>2, <1>3, <1>4, <1>5, <1>6, <1>7, <1>8 DEF Callback

\* The invariant of the composition is inductive.
THEOREM StreamInvariance == StreamSpec => []SInv
<1>1. StreamInit => SInv
  <2>1. ASSUME StreamInit
        PROVE  StreamTyped /\ Opened /\ Calling /\ Emptied
    BY <2>1 DEF StreamInit, P!Init, Init, StreamTyped, Opened, Calling, Emptied
  <2>2. QED
    BY <2>1, Begin DEF StreamInit, SInv
<1>2. ASSUME SInv, [StreamNext]_streamVars
      PROVE  SInv'
  <2>1. [Next]_vars
    BY <1>2, EncoderStep
  <2>2. EInv'
    BY <1>2, <2>1, Step DEF SInv
  <2>3. Beside'
    BY <1>2, InnerKeeps, OuterKeeps DEF StreamNext
  <2>4. QED
    BY <2>2, <2>3 DEF SInv, Beside
<1>3. QED
  BY <1>1, <1>2, PTL DEF StreamSpec

\* A packet is written between header and trailer, into a context that exists
\* and with a dts above the last, for any frame rate and any number of packets.
THEOREM MuxedInOrder == StreamSpec => []MuxerProtocol
<1>1. SInv => MuxerProtocol
  BY DEF SInv, StreamTyped, Opened, Calling, MuxerProtocol
<1>2. QED
  BY <1>1, StreamInvariance, PTL

\* When ~VideoChannel has closed the publisher, no buffer, no handle and
\* nothing of libavformat is left, for any number of frames and refusals and
\* wherever an Init gave up.
THEOREM AllGivenBack == StreamSpec => []StopReturnsAll
<1>1. ASSUME SInv, stage = "closed", NEW f \in 1 .. next - 1
      PROVE  refs[f] = 0
  <2>1. stop = "done" /\ pending = <<>>
    BY <1>1 DEF SInv, Emptied
  <2>2. taken = {}
    BY <1>1, <2>1 DEF SInv, EInv, Stopping, TakenOnce
  <2>3. f \in Frame /\ f < next
    BY <1>1, EncoderAssumption DEF SInv, EInv, TypeOK, Frame
  <2>4. QED
    BY <1>1, <2>1, <2>2, <2>3 DEF SInv, EInv, Referenced, Pending
<1>2. SInv => StopReturnsAll
  BY <1>1 DEF SInv, Emptied, StopReturnsAll
<1>3. QED
  BY <1>2, StreamInvariance, PTL
================================================================================
