----------------------------- MODULE ReorderProofs -----------------------------
(***************************************************************************)
(* Reorder.tla keeps its safety properties for every set of frame ids and  *)
(* every overflow threshold, and implements InOrderRelay.                  *)
(***************************************************************************)
EXTENDS Reorder, FiniteSetTheorems, TLAPS

(***************************************************************************)
(* ReorderBounded is not inductive: while the loop runs the buffer may be  *)
(* one larger still, and what brings it back is that the frame waited for  *)
(* is then in it, so that the loop emits before it can break.              *)
(***************************************************************************)
JumpPending ==
    /\ IsFiniteSet(reorder)
    /\ pc = "idle" =>
         /\ Cardinality(reorder) <= MaxReorder + 1
         /\ Cardinality(reorder) > MaxReorder => expected \in reorder
    /\ pc = "scan" =>
         /\ Cardinality(reorder) <= MaxReorder + 2
         /\ Cardinality(reorder) > MaxReorder + 1 => expected \in reorder

IInv ==
    /\ TypeOK
    /\ OwnedOnce
    /\ NoneOvertaken
    /\ EncodedArePast
    /\ JumpPending
    /\ GapTracked

-----------------------------------------------------------------------------
LEMMA EmitKeepsType ==
    ASSUME TypeOK, Emit
    PROVE  TypeOK'
<1> USE ReorderAssumption
<1>1. /\ expected \in Nat /\ expected \in Frame
      /\ UNCHANGED <<pc, lost>>
      /\ reorder' \subseteq Frame /\ expected' \in Nat /\ timer' = "off"
  BY DEF TypeOK, Emit
<1>2. encoded' \subseteq Frame /\ released' \subseteq Frame
  <2>1. CASE encoded' = encoded \union {expected} /\ released' = released
    BY <1>1, <2>1 DEF TypeOK
  <2>2. CASE released' = released \union {expected} /\ encoded' = encoded
    BY <1>1, <2>2 DEF TypeOK
  <2>3. QED
    BY <2>1, <2>2 DEF Emit, EncodeZeroCopy
<1>3. QED
  BY <1>1, <1>2 DEF TypeOK

(* The reorder stage is well typed for every set of frame ids. *)
THEOREM Typing == Spec => []TypeOK
<1>1. Init => TypeOK
  BY DEF Init, TypeOK
<1>2. TypeOK /\ [Next]_vars => TypeOK'
  <2> SUFFICES ASSUME TypeOK, [Next]_vars
               PROVE  TypeOK'
    OBVIOUS
  <2> USE ReorderAssumption DEF TypeOK
  <2>1. ASSUME NEW f \in Frame, Lose(f)
        PROVE  TypeOK'
    BY <2>1 DEF Lose
  <2>2. ASSUME NEW f \in Frame, DropLate(f)
        PROVE  TypeOK'
    BY <2>2 DEF DropLate, Arrives
  <2>3. ASSUME NEW f \in Frame, Insert(f)
        PROVE  TypeOK'
    BY <2>3 DEF Insert, Arrives
  <2>4. CASE Elapse
    BY <2>4 DEF Elapse
  <2>5. CASE Emit
    BY <2>5, EmitKeepsType
  <2>6. CASE Skip
    BY <2>6 DEF Skip
  <2>7. CASE StopEmpty
    BY <2>7 DEF StopEmpty, Leave, JumpIfFull
  <2>8. CASE StartWait
    BY <2>8 DEF StartWait, Leave, JumpIfFull
  <2>9. CASE KeepWaiting
    BY <2>9 DEF KeepWaiting, Leave, JumpIfFull
  <2>10. CASE UNCHANGED vars
    BY <2>10 DEF vars
  <2>11. QED
    BY <2>1, <2>2, <2>3, <2>4, <2>5, <2>6, <2>7, <2>8, <2>9, <2>10
       DEF Next, Upstream, Scan
<1>3. QED
  BY <1>1, <1>2, PTL DEF Spec

-----------------------------------------------------------------------------
(* A break of the loop restores what holds between two results: the jump    *)
(* moves the frame waited for to the oldest entry, and without it the wait   *)
(* flag is the one the break chose.                                         *)
LEMMA LeaveKeepsInvariant ==
    ASSUME IInv, pc = "scan", expected \notin reorder,
           NEW t \in {"off", "running"}, t = "off" <=> reorder = {},
           Leave(t)
    PROVE  IInv'
<1> USE ReorderAssumption
<1>1. /\ pc' = "idle"
      /\ UNCHANGED <<reorder, encoded, released, lost>>
  BY DEF Leave
<1>2. Cardinality(reorder) \in Nat
  BY FS_CardinalityType DEF IInv, JumpPending
<1>3. Cardinality(reorder) <= MaxReorder + 1
  BY <1>2 DEF IInv, JumpPending
<1>4. CASE JumpIfFull
  <2>1. PICK oldest \in reorder :
          /\ \A f \in reorder : oldest <= f
          /\ expected' = oldest
    BY <1>4 DEF JumpIfFull
  <2>2. oldest \in Nat /\ expected \in Nat /\ expected <= oldest
    BY <2>1 DEF IInv, TypeOK, NoneOvertaken
  <2>3. TypeOK'
    BY <1>1, <1>4, <2>1, <2>2 DEF IInv, TypeOK, JumpIfFull
  <2>4. OwnedOnce'
    BY <1>1 DEF IInv, OwnedOnce
  <2>5. NoneOvertaken'
    BY <1>1, <2>1, <2>2 DEF IInv, TypeOK, NoneOvertaken
  <2>6. EncodedArePast'
    BY <1>1, <2>1, <2>2 DEF IInv, TypeOK, EncodedArePast
  <2>7. JumpPending'
    BY <1>1, <1>3, <2>1 DEF IInv, JumpPending
  <2>8. GapTracked'
    BY <1>1, <1>2, <1>4 DEF JumpIfFull, GapTracked
  <2>9. QED
    BY <2>3, <2>4, <2>5, <2>6, <2>7, <2>8 DEF IInv
<1>5. CASE /\ Cardinality(reorder) <= MaxReorder
           /\ timer' = t
           /\ UNCHANGED expected
  <2>1. TypeOK'
    BY <1>1, <1>5 DEF IInv, TypeOK
  <2>2. OwnedOnce' /\ NoneOvertaken' /\ EncodedArePast'
    BY <1>1, <1>5 DEF IInv, OwnedOnce, NoneOvertaken, EncodedArePast
  <2>3. JumpPending'
    BY <1>1, <1>2, <1>5 DEF IInv, JumpPending
  <2>4. GapTracked'
    BY <1>1, <1>5 DEF GapTracked
  <2>5. QED
    BY <2>1, <2>2, <2>3, <2>4 DEF IInv
<1>6. QED
  BY <1>4, <1>5 DEF Leave

LEMMA EmitKeepsInvariant ==
    ASSUME IInv, Emit
    PROVE  IInv'
<1> USE ReorderAssumption
<1>1. /\ expected \in Nat /\ expected \in Frame
      /\ reorder \subseteq Nat /\ encoded \subseteq Nat
  BY DEF IInv, TypeOK, Emit
<1>2. /\ IsFiniteSet(reorder')
      /\ Cardinality(reorder) \in Nat
      /\ Cardinality(reorder') = Cardinality(reorder) - 1
  BY FS_RemoveElement, FS_CardinalityType DEF IInv, JumpPending, Emit
<1>3. TypeOK'
  BY EmitKeepsType DEF IInv
<1>4. OwnedOnce'
  BY DEF IInv, OwnedOnce, Emit, EncodeZeroCopy
<1>5. NoneOvertaken'
  BY <1>1 DEF IInv, NoneOvertaken, Emit
<1>6. EncodedArePast'
  <2>1. encoded' \subseteq encoded \union {expected}
    BY DEF Emit, EncodeZeroCopy
  <2>2. expected' = expected + 1
    BY DEF Emit
  <2>3. \A f \in encoded : f < expected
    BY DEF IInv, EncodedArePast
  <2>4. QED
    BY <1>1, <2>1, <2>2, <2>3 DEF EncodedArePast
<1>7. JumpPending'
  BY <1>2 DEF IInv, JumpPending, Emit
<1>8. GapTracked'
  BY DEF GapTracked, Emit
<1>9. QED
  BY <1>3, <1>4, <1>5, <1>6, <1>7, <1>8 DEF IInv

LEMMA InsertKeepsInvariant ==
    ASSUME IInv, NEW f \in Frame, Insert(f)
    PROVE  IInv'
<1> USE ReorderAssumption
<1>1. /\ IsFiniteSet(reorder')
      /\ Cardinality(reorder) \in Nat
      /\ Cardinality(reorder') = Cardinality(reorder) + 1
  BY FS_AddElement, FS_CardinalityType
     DEF IInv, JumpPending, Insert, Arrives, Seen
<1>2. TypeOK'
  BY DEF IInv, TypeOK, Insert
<1>3. OwnedOnce'
  BY DEF IInv, OwnedOnce, Insert, Arrives, Seen
<1>4. NoneOvertaken' /\ EncodedArePast'
  BY DEF IInv, NoneOvertaken, EncodedArePast, Insert
<1>5. JumpPending'
  BY <1>1 DEF IInv, JumpPending, Insert, Arrives
<1>6. GapTracked'
  BY DEF IInv, GapTracked, Insert
<1>7. QED
  BY <1>2, <1>3, <1>4, <1>5, <1>6 DEF IInv

-----------------------------------------------------------------------------
(* The inductive invariant of the reorder stage. *)
THEOREM Invariance == Spec => []IInv
<1> USE ReorderAssumption
<1>1. Init => IInv
  BY FS_EmptySet DEF Init, IInv, TypeOK, OwnedOnce, NoneOvertaken,
     EncodedArePast, JumpPending, GapTracked
<1>2. IInv /\ [Next]_vars => IInv'
  <2> SUFFICES ASSUME IInv, [Next]_vars
               PROVE  IInv'
    OBVIOUS
  <2>1. ASSUME NEW f \in Frame, Lose(f)
        PROVE  IInv'
    BY <2>1 DEF IInv, Lose, TypeOK, OwnedOnce, NoneOvertaken,
       EncodedArePast, JumpPending, GapTracked
  <2>2. ASSUME NEW f \in Frame, DropLate(f)
        PROVE  IInv'
    <3>1. f \notin reorder /\ f \notin encoded
      BY <2>2 DEF DropLate, Arrives, Seen
    <3>2. QED
      BY <2>2, <3>1 DEF IInv, DropLate, Arrives, TypeOK, OwnedOnce,
         NoneOvertaken, EncodedArePast, JumpPending, GapTracked
  <2>3. ASSUME NEW f \in Frame, Insert(f)
        PROVE  IInv'
    BY <2>3, InsertKeepsInvariant
  <2>4. CASE Elapse
    BY <2>4 DEF IInv, Elapse, TypeOK, OwnedOnce, NoneOvertaken,
       EncodedArePast, JumpPending, GapTracked
  <2>5. CASE Emit
    BY <2>5, EmitKeepsInvariant
  <2>6. CASE Skip
    <3>1. /\ expected \in Nat /\ expected' = expected + 1
          /\ reorder \subseteq Nat /\ encoded \subseteq Nat
      BY <2>6 DEF IInv, TypeOK, Skip
    <3>2. TypeOK' /\ OwnedOnce'
      BY <2>6, <3>1 DEF IInv, TypeOK, OwnedOnce, Skip
    <3>3. NoneOvertaken' /\ EncodedArePast'
      BY <2>6, <3>1 DEF IInv, NoneOvertaken, EncodedArePast, Skip
    <3>4. JumpPending'
      BY <2>6 DEF IInv, JumpPending, Skip
    <3>5. GapTracked'
      BY <2>6 DEF GapTracked, Skip
    <3>6. QED
      BY <3>2, <3>3, <3>4, <3>5 DEF IInv
  <2>7. CASE StopEmpty
    BY <2>7, LeaveKeepsInvariant DEF StopEmpty
  <2>8. CASE StartWait
    BY <2>8, LeaveKeepsInvariant DEF StartWait
  <2>9. CASE KeepWaiting
    BY <2>9, LeaveKeepsInvariant DEF KeepWaiting
  <2>10. CASE UNCHANGED vars
    BY <2>10 DEF vars, IInv, TypeOK, OwnedOnce, NoneOvertaken,
       EncodedArePast, JumpPending, GapTracked
  <2>11. QED
    BY <2>1, <2>2, <2>3, <2>4, <2>5, <2>6, <2>7, <2>8, <2>9, <2>10
       DEF Next, Upstream, Scan
<1>3. QED
  BY <1>1, <1>2, PTL DEF Spec

(* Every result is owned by exactly one of the reorder buffer, the encoder  *)
(* and the buffer pool.                                                     *)
THEOREM ResultsOwnedOnce == Spec => []OwnedOnce
BY Invariance, PTL DEF IInv

(* No entry of the reorder buffer is ever behind m_expected_frame_id.       *)
THEOREM NoEntryOvertaken == Spec => []NoneOvertaken
BY Invariance, PTL DEF IInv

(* The overflow jump bounds the reorder buffer.                             *)
THEOREM BufferBounded == Spec => []ReorderBounded
<1>1. IInv => ReorderBounded
  BY DEF IInv, JumpPending, ReorderBounded
<1>2. QED
  BY <1>1, Invariance, PTL

(* After a result is processed the frame waited for is not left in the       *)
(* buffer, and the channel waits exactly when a gap is in front of it.       *)
THEOREM WaitFollowsGap == Spec => []GapTracked
BY Invariance, PTL DEF IInv

-----------------------------------------------------------------------------
(* Only Emit hands a frame to the encoder, and it hands over the frame      *)
(* waited for, which is younger than everything encoded before.             *)
LEMMA OnlyEmitEncodes ==
    ASSUME IInv, [Next]_vars, NEW f \in encoded' \ encoded
    PROVE  Emit /\ f = expected
BY DEF vars, Next, Upstream, Scan, Lose, DropLate, Insert, Elapse, Emit,
   EncodeZeroCopy, Skip, StopEmpty, StartWait, KeepWaiting, Leave

(* Frames reach the encoder in strictly increasing frame_id order.          *)
THEOREM OutputInOrder == Spec => InOrder
<1>1. IInv /\ [Next]_vars =>
        [\A f \in encoded' \ encoded : \A g \in encoded : g < f]_vars
  BY OnlyEmitEncodes DEF IInv, EncodedArePast
<1>2. QED
  BY <1>1, Invariance, PTL DEF Spec, InOrder

(* Every missing frame gets a timeout of its own: no step moves the frame    *)
(* waited for and keeps the time its predecessor had.                       *)
THEOREM EachGapTimed == Spec => GapGetsOwnTimeout
<1>1. ASSUME [Next]_vars, expected' # expected
      PROVE  timer' = "off"
  BY <1>1 DEF vars, Next, Upstream, Scan, Lose, DropLate, Insert, Elapse, Emit, Skip,
              StopEmpty, StartWait, KeepWaiting, Leave, JumpIfFull
<1>2. [Next]_vars => [expected' # expected => timer' = "off"]_vars
  BY <1>1
<1>3. QED
  BY <1>2, PTL DEF Spec, GapGetsOwnTimeout

(* The loop is entered with an entry in the buffer, and a wait it finds is   *)
(* for a frame in front of that entry.                                      *)
WaitHasEntry == pc = "scan" /\ timer # "off" => reorder # {}

(* The first step of the output thread that finds the timeout over moves the *)
(* channel past the gap, by the missing frame itself or without it: what is  *)
(* left of ArrivalAfterTimeoutUnblocks is that the thread takes a step.      *)
TimeoutMovesOn == [][Scan /\ timer = "over" => expected' > expected]_vars

THEOREM NoStepWastesTimeout == Spec => TimeoutMovesOn
<1>1. Init => TypeOK /\ WaitHasEntry
  BY DEF Init, TypeOK, WaitHasEntry
<1>2. WaitHasEntry /\ [Next]_vars => WaitHasEntry'
  <2> SUFFICES ASSUME WaitHasEntry, [Next]_vars PROVE WaitHasEntry'
    OBVIOUS
  <2>1. ASSUME NEW f \in Frame, Lose(f) \/ DropLate(f) \/ Insert(f) PROVE WaitHasEntry'
    BY <2>1 DEF WaitHasEntry, Lose, DropLate, Insert
  <2>2. CASE Emit \/ Skip
    BY <2>2 DEF WaitHasEntry, Emit, Skip
  <2>3. CASE StopEmpty \/ StartWait \/ KeepWaiting
    BY <2>3 DEF WaitHasEntry, StopEmpty, StartWait, KeepWaiting, Leave
  <2>4. CASE Elapse \/ UNCHANGED vars
    BY <2>4 DEF WaitHasEntry, Elapse, vars
  <2>5. QED BY <2>1, <2>2, <2>3, <2>4 DEF Next, Upstream, Scan
<1>3. ASSUME TypeOK, WaitHasEntry, Scan, timer = "over"
      PROVE  expected' > expected
  <2>1. expected \in Nat
    BY <1>3 DEF TypeOK
  <2>2. Emit \/ Skip
    BY <1>3 DEF WaitHasEntry, Scan, StopEmpty, StartWait, KeepWaiting
  <2>3. QED BY <2>1, <2>2 DEF Emit, Skip
<1>4. Spec => []WaitHasEntry
  BY <1>1, <1>2, PTL DEF Spec
<1>5. TypeOK /\ WaitHasEntry => [Scan /\ timer = "over" => expected' > expected]_vars
  BY <1>3
<1>6. QED BY <1>4, <1>5, Typing, PTL DEF TimeoutMovesOn

-----------------------------------------------------------------------------
LEMMA StepRefinesRelay ==
    ASSUME IInv, [Next]_vars
    PROVE  [Relay!Next]_<<reorder, encoded, released>>
<1> USE ReorderAssumption
<1> DEFINE unmoved == UNCHANGED <<reorder, encoded, released>>
<1>1. ASSUME NEW f \in Frame, DropLate(f)
      PROVE  Relay!Refuse(f)
  BY <1>1 DEF DropLate, Arrives, Seen, Relay!Refuse, Relay!Known
<1>2. ASSUME NEW f \in Frame, Insert(f)
      PROVE  Relay!Hold(f)
  BY <1>2 DEF Insert, Arrives, Seen, Relay!Hold, Relay!Known
<1>3. ASSUME Emit
      PROVE  /\ expected \in Frame
             /\ Relay!Forward(expected) \/ Relay!Discard(expected)
  BY <1>3 DEF IInv, TypeOK, EncodedArePast, Emit, EncodeZeroCopy,
     Relay!Forward, Relay!Discard
<1>4. ASSUME NEW f \in Frame, Lose(f)
      PROVE  unmoved
  BY <1>4 DEF Lose
<1>5. ASSUME Elapse \/ Skip \/ StopEmpty \/ StartWait \/ KeepWaiting
      PROVE  unmoved
  BY <1>5 DEF Elapse, Skip, StopEmpty, StartWait, KeepWaiting, Leave
<1>6. CASE UNCHANGED vars
  BY <1>6 DEF vars
<1>7. QED
  BY <1>1, <1>2, <1>3, <1>4, <1>5, <1>6 DEF Next, Upstream, Scan, Relay!Next

(* The reorder stage implements the in-order relay.                         *)
THEOREM ReorderImplementsRelay == Spec => RelaySpec
<1>1. Init => Relay!Init
  BY DEF Init, Relay!Init
<1>2. IInv /\ [Next]_vars => [Relay!Next]_<<reorder, encoded, released>>
  BY StepRefinesRelay
<1>3. QED
  BY <1>1, <1>2, Invariance, PTL DEF Spec, RelaySpec, Relay!Spec, Relay!relayVars
================================================================================
