---------------------------- MODULE PipelineProofs ----------------------------
(***************************************************************************)
(* Pipeline.tla keeps its safety properties for any number of channels,    *)
(* files of any length, and any limits.                                    *)
(***************************************************************************)
EXTENDS Pipeline, FiniteSetTheorems, TLAPS

MainPlaces == {"active", "pending", "get", "deliver", "drop", "stop", "join",
               "join_output", "destroy", "drain", "end"}
DecodePlaces == {"open", "head", "gate", "throttle", "feed", "flush",
                 "callback", "check", "put", "submit", "ended"}

\* The decode thread holds a frame that is not in the pool yet.
InCallback == {"callback", "check", "put", "submit"}

Typed ==
    /\ main \in MainPlaces
    /\ hand \subseteq Channel \X Nat
    /\ turn \in Nat
    /\ active \in Int /\ pending \in Int
    /\ dpc \in [Channel -> DecodePlaces]
    /\ running \subseteq Channel
    /\ nextId \in [Channel -> Nat]
    /\ inflight \in [Channel -> Int]
    /\ tasks \subseteq Channel \X Nat
    /\ completed \subseteq Channel \X Nat
    /\ failed \subseteq Channel \X Nat
    /\ IsFiniteSet(InPool) /\ IsFiniteSet(hand)
    /\ DOMAIN outq = Channel
    /\ opc \in [Channel -> {"pop", "ended"}]

\* A frame is in one place at a time, and the one a decode thread holds is new.
Places ==
    /\ hand # {} <=> main \in {"deliver", "drop"}
    /\ \A f, g \in hand : f = g
    /\ tasks \intersect (completed \union failed) = {}
    /\ InPool \intersect hand = {}
    /\ \A f \in InPool \union hand : f[2] < nextId[f[1]]
    /\ \A c \in Channel : dpc[c] \in InCallback =>
         /\ nextId[c] > 0
         /\ Current(c) \notin InPool \union hand

\* The gate of the callback holds the larger limit, and whoever has passed it
\* is the only one to count for its channel.
Gated ==
    \A c \in running :
      /\ nextId[c] > 0 => c \in ready
      /\ dpc[c] = "check" => inflight[c] < MaxInflight

\* Channels are stopped and joined one after the other.
Stopping ==
    /\ Looping => turn = 0 /\ running = Channel
    /\ main \in {"stop", "join", "join_output"} => turn < NumChannels
    /\ main \in {"destroy", "drain", "end"} => turn = NumChannels
    /\ main = "join_output" => dpc[turn] = "ended"
    /\ \A c \in Channel : c < turn => dpc[c] = "ended" /\ opc[c] = "ended"
    /\ \A c \in Channel : opc[c] = "ended" => c \notin running /\ outq[c] = {}
    /\ main = "end" => InPool = {}

\* The threads that have yet to count themselves off active_channels.
Counted == {c \in Channel : dpc[c] # "ended" /\ ~(dpc[c] = "open" /\ c \in Unopenable)}

\* Frames are left behind only while more threads are at work than
\* active_channels says.
Leaving ==
    /\ main \notin {"active", "get", "deliver", "drop"} => active <= 0
    /\ ~Looping => InPool = {} \/ active < Cardinality(Counted)

IInv == Typed /\ Places /\ Gated /\ CountersExact /\ Stopping /\ Leaving

-----------------------------------------------------------------------------
(* Counting frames *)

LEMMA OfTyped ==
    ASSUME NEW S, NEW c, IsFiniteSet(S)
    PROVE  IsFiniteSet(Of(S, c)) /\ Cardinality(Of(S, c)) \in Nat
<1>1. Of(S, c) \in SUBSET S
  BY DEF Of
<1>2. IsFiniteSet(Of(S, c))
  BY <1>1, FS_Subset
<1>3. QED
  BY <1>2, FS_CardinalityType

LEMMA OfAdded ==
    ASSUME NEW S, NEW c, NEW f, IsFiniteSet(S), f \notin S
    PROVE  Cardinality(Of(S \union {f}, c)) =
             IF f[1] = c THEN Cardinality(Of(S, c)) + 1 ELSE Cardinality(Of(S, c))
<1>1. IsFiniteSet(Of(S, c))
  BY OfTyped
<1>2. f \notin Of(S, c)
  BY DEF Of
<1>3. Of(S \union {f}, c) = IF f[1] = c THEN Of(S, c) \union {f} ELSE Of(S, c)
  BY DEF Of
<1>4. Cardinality(Of(S, c) \union {f}) = Cardinality(Of(S, c)) + 1
  BY <1>1, <1>2, FS_AddElement
<1>5. QED
  BY <1>3, <1>4

LEMMA OfRemoved ==
    ASSUME NEW S, NEW c, NEW f, IsFiniteSet(S), f \in S
    PROVE  /\ Cardinality(Of(S \ {f}, c)) =
                IF f[1] = c THEN Cardinality(Of(S, c)) - 1 ELSE Cardinality(Of(S, c))
           /\ f[1] = c => Cardinality(Of(S, c)) > 0
<1>1. IsFiniteSet(Of(S, c)) /\ Cardinality(Of(S, c)) \in Nat
  BY OfTyped
<1>2. Of(S \ {f}, c) = IF f[1] = c THEN Of(S, c) \ {f} ELSE Of(S, c)
  BY DEF Of
<1>3. f[1] = c => f \in Of(S, c)
  BY DEF Of
<1>4. f[1] = c => Cardinality(Of(S, c) \ {f}) = Cardinality(Of(S, c)) - 1
  BY <1>1, <1>3, FS_RemoveElement
<1>5. f[1] = c => Cardinality(Of(S, c)) # 0
  BY <1>1, <1>3, FS_EmptySet
<1>6. QED
  BY <1>1, <1>2, <1>4, <1>5

-----------------------------------------------------------------------------
(* Counting threads *)

LEMMA ChannelsFinite ==
    ASSUME NEW S \in SUBSET Channel
    PROVE  IsFiniteSet(S) /\ Cardinality(S) \in Nat
<1>1. IsFiniteSet(Channel)
  BY FS_Interval, PipelineAssumption DEF Channel
<1>2. IsFiniteSet(S)
  BY <1>1, FS_Subset
<1>3. QED
  BY <1>2, FS_CardinalityType

Submitting == {c \in Channel : dpc[c] = "submit"}

LEMMA SubmittingMoves ==
    ASSUME Typed, NEW c \in Channel, NEW from, NEW to, Goto(c, from, to)
    PROVE  Cardinality(Submitting') =
             IF from # "submit" /\ to = "submit" THEN Cardinality(Submitting) + 1
             ELSE IF from = "submit" /\ to # "submit" THEN Cardinality(Submitting) - 1
             ELSE Cardinality(Submitting)
<1>1. IsFiniteSet(Submitting) /\ Cardinality(Submitting) \in Nat
  BY ChannelsFinite DEF Submitting
<1>2. c \in Submitting <=> from = "submit"
  BY DEF Submitting, Goto
<1>3. Submitting' = IF to = "submit" THEN Submitting \union {c} ELSE Submitting \ {c}
  BY DEF Submitting, Goto, Typed
<1>4. QED
  BY <1>1, <1>2, <1>3, FS_AddElement, FS_RemoveElement

LEMMA CountedMoves ==
    ASSUME Typed, NEW c \in Channel, NEW from, NEW to, Goto(c, from, to),
           from # "ended", to # "open",
           from = "open" => to = IF c \in Unopenable THEN "ended" ELSE "head"
    PROVE  Cardinality(Counted') = IF from # "open" /\ to = "ended"
                                   THEN Cardinality(Counted) - 1 ELSE Cardinality(Counted)
<1>1. IsFiniteSet(Counted) /\ Cardinality(Counted) \in Nat
  BY ChannelsFinite DEF Counted
<1>2. Counted' = IF from # "open" /\ to = "ended" THEN Counted \ {c} ELSE Counted
  BY DEF Counted, Goto, Typed
<1>3. from # "open" => c \in Counted
  BY DEF Counted, Goto
<1>4. QED
  BY <1>1, <1>2, <1>3, FS_RemoveElement

-----------------------------------------------------------------------------
(* The steps, by what they do to the frames and the counters *)

\* A decode thread goes on and touches nothing that is counted.
GoesOn(c) ==
    /\ \E from, to \in DecodePlaces :
         /\ Goto(c, from, to)
         /\ {from, to} \intersect {"put", "submit"} = {}
         /\ from # "ended" /\ to # "open"
         /\ from = "open" => to = IF c \in Unopenable THEN "ended" ELSE "head"
         /\ to = "ended" => from = "open"
         /\ to \in InCallback => from \in InCallback
         /\ to = "check" => PassGate(c, from, to)
    /\ UNCHANGED <<main, hand, turn, counters, pool, running, ready, nextId, output>>

Ends(c) == Close(c, "head") \/ Close(c, "feed")
Decodes(c) == Callback(c, "feed") \/ Callback(c, "flush")
Enters(c) == c \in running /\ CountInflight(c) /\ Goto(c, "check", "put")

\* main takes nothing and stops nothing.
Looks == ReadActive \/ ReadPending \/ (Get /\ main' = "active") \/ JoinDecode
         \/ JoinOutput \/ Destroy \/ (Drain /\ main' = "end")

Takes(f) ==
    /\ Take(f)
    /\ \/ main = "get" /\ f \in completed /\ hand' = {f} /\ main' = "deliver"
       \/ main = "get" /\ f \in failed /\ hand' = {f} /\ main' = "drop"
       \/ main = "drain" /\ f \in completed \union failed /\ UNCHANGED <<main, hand>>

StepCases ==
    \/ \E c \in Channel : \/ GoesOn(c) \/ Ends(c) \/ Decodes(c) \/ Enters(c)
                          \/ CountPending(c) \/ Submit(c) \/ PopOutput(c) \/ EndOutput(c)
    \/ Infer \/ Looks \/ StopChannel \/ Deliver \/ Drop
    \/ \E f \in completed \union failed : Takes(f)
    \/ UNCHANGED vars

LEMMA Cases ==
    ASSUME Typed, [Next]_vars
    PROVE  StepCases
<1>1. ASSUME NEW c \in Channel, DecodeThread(c)
      PROVE  GoesOn(c) \/ Ends(c) \/ Decodes(c) \/ Enters(c) \/ CountPending(c) \/ Submit(c)
  <2>1. CASE Open(c)
    BY <2>1 DEF Open, GoesOn, Goto, DecodePlaces, InCallback
  <2>2. CASE LoopHead(c)
    BY <2>2 DEF LoopHead, GoesOn, Ends, Goto, DecodePlaces, InCallback
  <2>3. CASE PassGate(c, "gate", "throttle")
    BY <2>3 DEF PassGate, GoesOn, Goto, DecodePlaces, InCallback
  <2>4. CASE PassThrottle(c)
    BY <2>4 DEF PassThrottle, GoesOn, Goto, DecodePlaces, InCallback
  <2>5. CASE Feed(c)
    BY <2>5 DEF Feed, Ends, Decodes
  <2>6. CASE PassGate(c, "callback", "check")
    BY <2>6 DEF PassGate, GoesOn, Goto, DecodePlaces, InCallback
  <2>7. CASE CountInflight(c)
    BY <2>7 DEF CountInflight, Enters, GoesOn, Goto, DecodePlaces, InCallback
  <2>8. CASE Flush(c)
    BY <2>8 DEF Flush, GoesOn, Decodes, Goto, DecodePlaces, InCallback
  <2>9. QED
    BY <1>1, <2>1, <2>2, <2>3, <2>4, <2>5, <2>6, <2>7, <2>8 DEF DecodeThread
<1>2. ASSUME Get
      PROVE  Looks \/ \E f \in completed \union failed : Takes(f)
  BY <1>2 DEF Get, Looks, Takes
<1>3. ASSUME Drain
      PROVE  Looks \/ \E f \in completed \union failed : Takes(f)
  BY <1>3 DEF Drain, Looks, Takes
<1>4. QED
  BY <1>1, <1>2, <1>3 DEF StepCases, Next, Main, OutputThread, Looks

-----------------------------------------------------------------------------
(* Where the frames are *)

\* What each step does to the frames: nothing, a move within the pool, a frame
\* in, a frame handed out, a frame done.
LEMMA PoolCases ==
    ASSUME Typed, Places, StepCases
    PROVE  \/ UNCHANGED <<InPool, hand>>
           \/ \E c \in Channel : /\ Submit(c)
                                 /\ InPool' = InPool \union {Current(c)}
                                 /\ UNCHANGED hand
           \/ \E f \in InPool : /\ Takes(f)
                                /\ InPool' = InPool \ {f}
                                /\ hand' = IF main = "get" THEN {f} ELSE hand
           \/ /\ Deliver \/ Drop
              /\ UNCHANGED InPool
              /\ hand' = {}
<1>1. CASE \E c \in Channel : GoesOn(c) \/ Ends(c) \/ Decodes(c) \/ Enters(c)
                              \/ CountPending(c) \/ PopOutput(c) \/ EndOutput(c)
  BY <1>1 DEF GoesOn, Ends, Close, Decodes, Callback, Enters, CountInflight, CountPending,
              PopOutput, EndOutput, pool, InPool, Goto
<1>2. CASE \E c \in Channel : Submit(c)
  BY <1>2 DEF Submit, InPool
<1>3. CASE Infer
  BY <1>3 DEF Infer, InPool
<1>4. CASE Looks
  BY <1>4 DEF Looks, ReadActive, ReadPending, Get, JoinDecode, JoinOutput, Destroy, Drain,
              At, pool, InPool
<1>5. CASE StopChannel
  BY <1>5 DEF StopChannel, At, pool, InPool
<1>6. CASE Deliver \/ Drop
  BY <1>6 DEF Deliver, Drop, At, pool, InPool
<1>7. ASSUME NEW f \in completed \union failed, Takes(f)
      PROVE  /\ f \in InPool
             /\ InPool' = InPool \ {f}
             /\ hand' = IF main = "get" THEN {f} ELSE hand
  BY <1>7 DEF Takes, Take, Places, InPool
<1>8. CASE UNCHANGED vars
  BY <1>8 DEF vars, pool, InPool
<1>9. QED
  BY <1>1, <1>2, <1>3, <1>4, <1>5, <1>6, <1>7, <1>8 DEF StepCases

LEMMA TypedStep ==
    ASSUME Typed, Places, StepCases
    PROVE  Typed'
<1>1. IsFiniteSet(InPool') /\ IsFiniteSet(hand')
  <2>1. /\ IsFiniteSet({})
        /\ \A f : /\ IsFiniteSet({f})
                  /\ IsFiniteSet(InPool \union {f})
                  /\ IsFiniteSet(InPool \ {f})
    BY FS_EmptySet, FS_Singleton, FS_AddElement, FS_RemoveElement DEF Typed
  <2>2. QED
    BY <2>1, PoolCases DEF Typed
<1>2. CASE \E c \in Channel : GoesOn(c)
  BY <1>1, <1>2 DEF GoesOn, Goto, Typed, counters, pool, output
<1>3. CASE \E c \in Channel : Ends(c)
  BY <1>1, <1>3 DEF Ends, Close, Goto, Typed, pool, output, DecodePlaces
<1>4. CASE \E c \in Channel : Decodes(c)
  BY <1>1, <1>4 DEF Decodes, Callback, Goto, Typed, counters, pool, output, DecodePlaces
<1>5. CASE \E c \in Channel : Enters(c) \/ CountPending(c)
  BY <1>1, <1>5 DEF Enters, CountInflight, CountPending, Goto, Typed, counters, pool, output,
                    DecodePlaces
<1>6. ASSUME NEW c \in Channel, Submit(c)
      PROVE  Typed'
  <2>1. nextId[c] - 1 \in Nat
    BY <1>6 DEF Submit, Goto, Typed, Places, InCallback
  <2>2. Current(c) \in Channel \X Nat
    BY <2>1 DEF Current
  <2>3. QED
    BY <1>1, <1>6, <2>2 DEF Submit, Goto, Typed, counters, pool, output, DecodePlaces
<1>7. CASE \E c \in Channel : PopOutput(c) \/ EndOutput(c)
  BY <1>1, <1>7 DEF PopOutput, EndOutput, Typed, counters, pool, decode
<1>8. CASE Infer
  BY <1>1, <1>8 DEF Infer, Typed, counters, decode, output
<1>9. CASE Looks
  BY <1>1, <1>9, PipelineAssumption
     DEF Looks, ReadActive, ReadPending, Get, JoinDecode, JoinOutput, Destroy, Drain,
         At, Typed, MainPlaces, counters, pool, decode, output
<1>10. CASE StopChannel
  BY <1>1, <1>10 DEF StopChannel, At, Typed, MainPlaces, counters, pool, output
<1>11. CASE Deliver \/ Drop
  BY <1>1, <1>11 DEF Deliver, Drop, At, Typed, MainPlaces, pool, decode, output
<1>12. CASE \E f \in completed \union failed : Takes(f)
  BY <1>1, <1>12 DEF Takes, Take, Typed, MainPlaces, decode, output
<1>13. CASE UNCHANGED vars
  BY <1>1, <1>13 DEF vars, Typed, counters, pool, decode, output
<1>14. QED
  BY <1>2, <1>3, <1>4, <1>5, <1>6, <1>7, <1>8, <1>9, <1>10, <1>11, <1>12, <1>13
  DEF StepCases

\* Every frame is in one place, and its number was given to no other.
LEMMA PlacesStep ==
    ASSUME Typed, Places, StepCases
    PROVE  Places'
<1> DEFINE Numbered == \A f \in InPool \union hand : f[2] < nextId[f[1]]
           New == \A c \in Channel : dpc[c] \in InCallback =>
                     nextId[c] > 0 /\ Current(c) \notin InPool \union hand
           OneHand == /\ hand # {} <=> main \in {"deliver", "drop"}
                      /\ \A f, g \in hand : f = g
           Apart == /\ tasks \intersect (completed \union failed) = {}
                    /\ InPool \intersect hand = {}
<1>1. ASSUME NEW c \in Channel, GoesOn(c) \/ Ends(c) \/ Enters(c) \/ CountPending(c)
      PROVE  Places'
  <2>1. UNCHANGED <<main, hand, tasks, completed, failed, nextId>>
    BY <1>1 DEF GoesOn, Ends, Close, Enters, CountInflight, CountPending, counters, pool, Goto
  <2>2. \A d \in Channel : dpc'[d] \in InCallback => dpc[d] \in InCallback
    BY <1>1 DEF GoesOn, Ends, Close, Enters, CountInflight, CountPending, Goto, Typed, InCallback
  <2>3. QED
    BY <2>1, <2>2 DEF Places, InPool, Current
<1>2. ASSUME NEW c \in Channel, Decodes(c)
      PROVE  Places'
  <2>1. /\ UNCHANGED <<main, hand, tasks, completed, failed>>
        /\ nextId' = [nextId EXCEPT ![c] = @ + 1]
        /\ \A d \in Channel \ {c} : dpc'[d] = dpc[d]
    BY <1>2 DEF Decodes, Callback, Goto, Typed, counters, pool
  <2>2. InPool \union hand \subseteq Channel \X Nat
    BY DEF Typed, InPool
  <2>3. \A f \in InPool \union hand : f[2] < nextId'[f[1]]
    BY <2>1, <2>2 DEF Places, Typed
  <2>4. ASSUME NEW d \in Channel, dpc'[d] \in InCallback
        PROVE  nextId'[d] > 0 /\ <<d, nextId'[d] - 1>> \notin InPool \union hand
    <3>1. CASE d = c
      BY <2>1, <2>2, <3>1 DEF Places, Typed
    <3>2. CASE d # c
      BY <2>1, <2>4, <3>2 DEF Places, Typed, Current
    <3>3. QED
      BY <3>1, <3>2
  <2>5. QED
    BY <2>1, <2>3, <2>4 DEF Places, InPool, Current
<1>3. ASSUME NEW c \in Channel, Submit(c)
      PROVE  Places'
  <2>1. /\ UNCHANGED <<main, hand, completed, failed, nextId>>
        /\ tasks' = tasks \union {Current(c)}
        /\ InPool' = InPool \union {Current(c)}
    BY <1>3 DEF Submit, counters, InPool
  <2>2. /\ nextId[c] \in Nat /\ nextId[c] > 0
        /\ Current(c) \notin InPool \union hand
    BY <1>3 DEF Submit, Goto, Places, InCallback, Typed
  <2>3. \A d \in Channel : dpc'[d] \in InCallback => d # c /\ dpc[d] \in InCallback
    BY <1>3 DEF Submit, Goto, Typed, InCallback
  <2>4. Current(c)[1] = c /\ Current(c)[2] = nextId[c] - 1
    BY DEF Current
  <2>5. OneHand' /\ Apart'
    BY <2>1, <2>2 DEF Places, InPool
  <2>6. Numbered'
    BY <2>1, <2>2, <2>4 DEF Places
  <2>7. New'
    BY <2>1, <2>3, <2>4 DEF Places, Current
  <2>8. QED
    BY <2>5, <2>6, <2>7 DEF Places
<1>4. CASE \E c \in Channel : PopOutput(c) \/ EndOutput(c)
  BY <1>4 DEF PopOutput, EndOutput, pool, decode, Places, InPool, Current
<1>5. CASE Infer
  <2>1. UNCHANGED <<main, hand, dpc, nextId, InPool>>
    BY <1>5 DEF Infer, InPool, decode
  <2>2. tasks' \intersect (completed' \union failed') = {}
    BY <1>5 DEF Infer, Places
  <2>3. QED
    BY <2>1, <2>2 DEF Places, Current
<1>6. CASE Looks \/ StopChannel
  <2>1. UNCHANGED <<hand, tasks, completed, failed, dpc, nextId>>
    BY <1>6 DEF Looks, ReadActive, ReadPending, Get, JoinDecode, JoinOutput, Destroy, Drain,
                StopChannel, At, pool, decode, Take
  <2>2. main \notin {"deliver", "drop"} /\ main' \notin {"deliver", "drop"}
    BY <1>6 DEF Looks, ReadActive, ReadPending, Get, JoinDecode, JoinOutput, Destroy, Drain,
                StopChannel, At
  <2>3. QED
    BY <2>1, <2>2 DEF Places, InPool, Current
<1>7. CASE Deliver \/ Drop
  BY <1>7 DEF Deliver, Drop, At, pool, decode, Places, InPool, Current
<1>8. ASSUME NEW f \in completed \union failed, Takes(f)
      PROVE  Places'
  <2>1. /\ UNCHANGED <<tasks, dpc, nextId>>
        /\ completed' = completed \ {f} /\ failed' = failed \ {f}
    BY <1>8 DEF Takes, Take, decode
  <2>2. InPool' = InPool \ {f} /\ f \in InPool
    BY <2>1 DEF InPool, Places
  <2>3. \/ hand' = {f} /\ main' \in {"deliver", "drop"}
        \/ UNCHANGED <<hand, main>>
    BY <1>8 DEF Takes
  <2>4. OneHand' /\ Apart'
    BY <2>1, <2>2, <2>3 DEF Places, InPool
  <2>5. InPool' \union hand' \subseteq InPool \union hand
    BY <2>2, <2>3
  <2>6. Numbered' /\ New'
    BY <2>1, <2>5 DEF Places, Current
  <2>7. QED
    BY <2>4, <2>6 DEF Places
<1>9. CASE UNCHANGED vars
  BY <1>9 DEF vars, pool, decode, Places, InPool, Current
<1>10. QED
  BY <1>1, <1>2, <1>3, <1>4, <1>5, <1>6, <1>7, <1>8, <1>9 DEF StepCases

-----------------------------------------------------------------------------
(* The counters *)

\* PendingCounts is kept.
LEMMA PendingStep ==
    ASSUME Typed, Places, PendingCounts, StepCases
    PROVE  PendingCounts'
<1> USE DEF Submitting
<1>1. /\ IsFiniteSet(InPool) /\ Cardinality(InPool) \in Nat
      /\ Cardinality(Submitting) \in Nat
      /\ pending = Cardinality(InPool) + Cardinality(Submitting)
  BY FS_CardinalityType, ChannelsFinite DEF Typed, PendingCounts
<1>2. ASSUME UNCHANGED <<InPool, pending>>, Cardinality(Submitting') = Cardinality(Submitting)
      PROVE  PendingCounts'
  BY <1>1, <1>2 DEF PendingCounts
<1>3. ASSUME NEW c \in Channel, GoesOn(c) \/ Ends(c) \/ Decodes(c) \/ Enters(c)
      PROVE  PendingCounts'
  <2>1. UNCHANGED <<InPool, pending>>
    BY <1>3 DEF GoesOn, Ends, Close, Decodes, Callback, Enters, CountInflight, counters, pool,
                InPool, Goto
  <2>2. PICK from, to \in DecodePlaces :
          Goto(c, from, to) /\ from # "submit" /\ to # "submit"
    BY <1>3 DEF GoesOn, Ends, Close, Decodes, Callback, Enters, CountInflight, DecodePlaces
  <2>3. QED
    BY <1>2, <2>1, <2>2, SubmittingMoves
<1>4. ASSUME NEW c \in Channel, CountPending(c)
      PROVE  PendingCounts'
  <2>1. Cardinality(Submitting') = Cardinality(Submitting) + 1
    BY <1>4, SubmittingMoves DEF CountPending
  <2>2. UNCHANGED InPool /\ pending' = pending + 1
    BY <1>4 DEF CountPending, pool, InPool
  <2>3. QED
    BY <1>1, <2>1, <2>2 DEF PendingCounts
<1>5. ASSUME NEW c \in Channel, Submit(c)
      PROVE  PendingCounts'
  <2>1. Cardinality(Submitting') = Cardinality(Submitting) - 1
    BY <1>5, SubmittingMoves DEF Submit
  <2>2. InPool' = InPool \union {Current(c)} /\ UNCHANGED pending
    BY <1>5 DEF Submit, counters, InPool
  <2>3. Current(c) \notin InPool
    BY <1>5 DEF Submit, Goto, Places, InCallback
  <2>4. Cardinality(InPool') = Cardinality(InPool) + 1
    BY <1>1, <2>2, <2>3, FS_AddElement
  <2>5. QED
    BY <1>1, <2>1, <2>2, <2>4 DEF PendingCounts
<1>6. ASSUME NEW f \in completed \union failed, Takes(f)
      PROVE  PendingCounts'
  <2>1. InPool' = InPool \ {f} /\ f \in InPool /\ pending' = pending - 1 /\ UNCHANGED dpc
    BY <1>6 DEF Takes, Take, decode, InPool, Places
  <2>2. Cardinality(InPool') = Cardinality(InPool) - 1
    BY <1>1, <2>1, FS_RemoveElement
  <2>3. QED
    BY <1>1, <2>1, <2>2 DEF PendingCounts
<1>7. CASE Looks \/ StopChannel \/ Infer \/ Deliver \/ Drop \/ UNCHANGED vars
           \/ \E c \in Channel : PopOutput(c) \/ EndOutput(c)
  <2>1. UNCHANGED <<InPool, pending, dpc>>
    BY <1>7 DEF Looks, ReadActive, ReadPending, Get, Take, JoinDecode, JoinOutput, Destroy,
                Drain, At, StopChannel, Infer, Deliver, Drop, PopOutput, EndOutput, vars,
                counters, pool, decode, InPool
  <2>2. QED
    BY <1>2, <2>1
<1>8. QED
  BY <1>3, <1>4, <1>5, <1>6, <1>7 DEF StepCases

\* InflightCounts is kept: the gate was passed before the frame was counted,
\* but no other frame of the channel can have been counted in between.
LEMMA InflightStep ==
    ASSUME Typed, Places, Gated, InflightCounts, StepCases
    PROVE  InflightCounts'
<1> DEFINE All == InPool \union hand
           Held(c) == IF dpc[c] \in {"put", "submit"} THEN 1 ELSE 0
<1> SUFFICES ASSUME main' \notin {"drain", "end"}, NEW c \in Channel
             PROVE  /\ inflight'[c] = Cardinality(Of(All', c)) + Held(c)'
                    /\ inflight'[c] <= MaxInflight
  BY DEF InflightCounts
<1>1. main \notin {"drain", "end"}
  BY DEF StepCases, GoesOn, Ends, Close, Decodes, Callback, Enters, CountInflight, CountPending,
         Submit, Looks, ReadActive, ReadPending, Get, JoinDecode, JoinOutput, Destroy, Drain,
         At, StopChannel, Infer, Deliver, Drop, Takes, PopOutput, EndOutput, vars
<1>2. /\ inflight[c] = Cardinality(Of(All, c)) + Held(c)
      /\ inflight[c] <= MaxInflight
  BY <1>1 DEF InflightCounts
<1>3. /\ IsFiniteSet(All) /\ Cardinality(Of(All, c)) \in Nat
      /\ inflight[c] \in Int /\ MaxInflight \in Int
  <2>1. IsFiniteSet(All)
    BY FS_Union DEF Typed
  <2>2. QED
    BY <2>1, OfTyped, PipelineAssumption DEF Typed
<1>4. ASSUME UNCHANGED All, inflight'[c] = inflight[c], Held(c)' = Held(c)
      PROVE  /\ inflight'[c] = Cardinality(Of(All', c)) + Held(c)'
             /\ inflight'[c] <= MaxInflight
  BY <1>2, <1>4
<1>5. ASSUME NEW d \in Channel, GoesOn(d) \/ Ends(d) \/ Decodes(d) \/ CountPending(d)
      PROVE  UNCHANGED All /\ inflight'[c] = inflight[c] /\ Held(c)' = Held(c)
  <2>1. UNCHANGED <<All, inflight>>
    BY <1>5 DEF GoesOn, Ends, Close, Decodes, Callback, CountPending, counters, pool, InPool, Goto
  <2>2. Held(c)' = Held(c)
    BY <1>5 DEF GoesOn, Ends, Close, Decodes, Callback, CountPending, Goto, Typed
  <2>3. QED
    BY <2>1, <2>2
<1>6. ASSUME NEW d \in Channel, Enters(d)
      PROVE  /\ inflight'[c] = Cardinality(Of(All', c)) + Held(c)'
             /\ inflight'[c] <= MaxInflight
  <2>1. /\ UNCHANGED All
        /\ inflight' = [inflight EXCEPT ![d] = @ + 1]
        /\ dpc[d] = "check" /\ dpc' = [dpc EXCEPT ![d] = "put"] /\ d \in running
    BY <1>6 DEF Enters, CountInflight, Goto, pool, InPool
  <2>2. CASE c = d
    <3>1. inflight[c] < MaxInflight
      BY <2>1, <2>2 DEF Gated
    <3>2. inflight'[c] = inflight[c] + 1 /\ Held(c) = 0 /\ Held(c)' = 1
      BY <2>1, <2>2 DEF Typed
    <3>3. Of(All', c) = Of(All, c)
      BY <2>1
    <3>4. QED
      BY <1>2, <1>3, <3>1, <3>2, <3>3
  <2>3. CASE c # d
    BY <1>4, <2>1, <2>3 DEF Typed
  <2>4. QED
    BY <2>2, <2>3
<1>7. ASSUME NEW d \in Channel, Submit(d)
      PROVE  /\ inflight'[c] = Cardinality(Of(All', c)) + Held(c)'
             /\ inflight'[c] <= MaxInflight
  <2>1. /\ All' = All \union {Current(d)}
        /\ UNCHANGED inflight
        /\ dpc[d] = "submit" /\ dpc' = [dpc EXCEPT ![d] = "flush"]
    BY <1>7 DEF Submit, Goto, counters, InPool
  <2>2. Current(d) \notin All /\ Current(d)[1] = d
    BY <2>1 DEF Places, InCallback, Current
  <2>3. Cardinality(Of(All', c)) = IF c = d THEN Cardinality(Of(All, c)) + 1
                                   ELSE Cardinality(Of(All, c))
    BY <1>3, <2>1, <2>2, OfAdded
  <2>4. CASE c = d
    <3>1. Held(c) = 1 /\ Held(c)' = 0
      BY <2>1, <2>4 DEF Typed
    <3>2. QED
      BY <1>2, <1>3, <2>1, <2>3, <2>4, <3>1
  <2>5. CASE c # d
    <3>1. Held(c)' = Held(c)
      BY <2>1, <2>5 DEF Typed
    <3>2. QED
      BY <1>2, <2>1, <2>3, <2>5, <3>1
  <2>6. QED
    BY <2>4, <2>5
<1>8. ASSUME Deliver \/ Drop
      PROVE  /\ inflight'[c] = Cardinality(Of(All', c)) + Held(c)'
             /\ inflight'[c] <= MaxInflight
  <2>1. PICK f \in hand : hand = {f}
    BY <1>8 DEF Deliver, Drop, Places
  <2>2. All' = All \ {f} /\ f \in All /\ UNCHANGED dpc /\ Held(c)' = Held(c)
    BY <1>8, <2>1 DEF Deliver, Drop, Places, pool, InPool, decode
  <2>3. /\ Cardinality(Of(All', c)) = IF f[1] = c THEN Cardinality(Of(All, c)) - 1
                                      ELSE Cardinality(Of(All, c))
        /\ f[1] = c => Cardinality(Of(All, c)) > 0
    BY <1>3, <2>2, OfRemoved
  <2>4. inflight'[c] = IF f[1] = c /\ (Deliver \/ inflight[c] > 0) THEN inflight[c] - 1
                       ELSE inflight[c]
    BY <1>8, <2>1 DEF Deliver, Drop, Typed
  <2>5. QED
    BY <1>2, <1>3, <2>2, <2>3, <2>4
<1>9. ASSUME NEW f \in completed \union failed, Takes(f)
      PROVE  UNCHANGED All /\ inflight'[c] = inflight[c] /\ Held(c)' = Held(c)
  <2>1. /\ UNCHANGED <<tasks, inflight, dpc>>
        /\ completed' = completed \ {f} /\ failed' = failed \ {f}
    BY <1>9 DEF Takes, Take, decode
  <2>2. hand' = {f} /\ hand = {}
    BY <1>1, <1>9 DEF Takes, Places
  <2>3. QED
    BY <2>1, <2>2 DEF InPool
<1>10. CASE Looks \/ StopChannel \/ Infer \/ UNCHANGED vars
            \/ \E d \in Channel : PopOutput(d) \/ EndOutput(d)
  <2>1. UNCHANGED <<All, inflight, dpc>>
    BY <1>10 DEF Looks, ReadActive, ReadPending, Get, Take, JoinDecode, JoinOutput, Destroy,
                 Drain, At, StopChannel, Infer, PopOutput, EndOutput, vars,
                 counters, pool, decode, InPool
  <2>2. QED
    BY <1>4, <2>1
<1>11. QED
  BY <1>4, <1>5, <1>6, <1>7, <1>8, <1>9, <1>10 DEF StepCases

\* Gated is kept: what a channel has in flight grows only when its decode
\* thread counts a frame, and then it is at "put".
LEMMA GatedStep ==
    ASSUME Typed, Places, Gated, StepCases
    PROVE  Gated'
<1>1. ASSUME NEW c \in Channel, GoesOn(c)
      PROVE  Gated'
  <2>1. PICK from, to \in DecodePlaces :
          /\ dpc[c] = from /\ dpc' = [dpc EXCEPT ![c] = to]
          /\ to \in InCallback => from \in InCallback
          /\ to = "check" => PassGate(c, from, to)
    BY <1>1 DEF GoesOn, Goto
  <2>2. UNCHANGED <<running, ready, nextId, inflight>>
    BY <1>1 DEF GoesOn, counters
  <2>3. ASSUME c \in running, to = "check"
        PROVE  inflight[c] < MaxInflight
    BY <2>1, <2>3 DEF PassGate, Limit, Gated, Places, InCallback
  <2>4. QED
    BY <2>1, <2>2, <2>3 DEF Gated, Typed
<1>2. ASSUME NEW c \in Channel, Decodes(c)
      PROVE  Gated'
  BY <1>2 DEF Decodes, Callback, Goto, counters, Gated, Typed
<1>3. CASE \E c \in Channel : Ends(c) \/ Enters(c) \/ CountPending(c) \/ Submit(c)
  BY <1>3 DEF Ends, Close, Enters, CountInflight, CountPending, Submit, Goto, counters, Gated, Typed
<1>4. CASE Looks \/ Infer \/ UNCHANGED vars \/ (\E c \in Channel : PopOutput(c) \/ EndOutput(c))
           \/ \E f \in completed \union failed : Takes(f)
  BY <1>4 DEF Looks, ReadActive, ReadPending, Get, Take, Takes, JoinDecode, JoinOutput, Destroy,
              Drain, At, Infer, PopOutput, EndOutput, vars, counters, decode, Gated
<1>5. CASE StopChannel
  BY <1>5 DEF StopChannel, counters, Gated
<1>6. ASSUME Deliver \/ Drop
      PROVE  Gated'
  <2>1. UNCHANGED decode /\ \A c \in Channel : inflight'[c] <= inflight[c]
    BY <1>6 DEF Deliver, Drop, Typed
  <2>2. MaxInflight \in Int /\ \A c \in Channel : inflight[c] \in Int /\ inflight'[c] \in Int
    BY <1>6, PipelineAssumption DEF Typed, Deliver, Drop
  <2>3. QED
    BY <2>1, <2>2 DEF Gated, Typed, decode
<1>7. QED
  BY <1>1, <1>2, <1>3, <1>4, <1>5, <1>6 DEF StepCases

-----------------------------------------------------------------------------
(* Shutdown *)

\* Stopping is kept.
LEMMA StoppingStep ==
    ASSUME Typed, Places, PendingCounts, Stopping, StepCases
    PROVE  Stopping'
<1>0. /\ turn \in Nat /\ NumChannels \in Nat
      /\ turn < NumChannels => turn \in Channel
      /\ \A d \in Channel : d \in Nat /\ d < NumChannels
  BY PipelineAssumption DEF Typed, Channel
<1>1. ASSUME NEW c \in Channel,
             GoesOn(c) \/ Ends(c) \/ Decodes(c) \/ Enters(c) \/ CountPending(c)
      PROVE  Stopping'
  <2>1. /\ UNCHANGED <<main, turn, running, outq, opc, InPool>>
        /\ dpc[c] # "ended" /\ \A d \in Channel \ {c} : dpc'[d] = dpc[d]
    BY <1>1 DEF GoesOn, Ends, Close, Decodes, Callback, Enters, CountInflight, CountPending,
                Goto, Typed, pool, output, InPool
  <2>2. QED
    BY <1>0, <2>1 DEF Stopping, Looping
<1>2. ASSUME NEW c \in Channel, Submit(c)
      PROVE  Stopping'
  <2>1. /\ UNCHANGED <<main, turn, running, outq, opc>>
        /\ dpc[c] # "ended" /\ \A d \in Channel \ {c} : dpc'[d] = dpc[d]
    BY <1>2 DEF Submit, Goto, Typed, output
  <2>2. main # "end"
    BY <1>0, <2>1 DEF Stopping
  <2>3. QED
    BY <1>0, <2>1, <2>2 DEF Stopping, Looping
<1>3. ASSUME NEW c \in Channel, PopOutput(c) \/ EndOutput(c)
      PROVE  Stopping'
  <2>1. UNCHANGED <<main, turn, running, dpc, InPool>>
    BY <1>3 DEF PopOutput, EndOutput, pool, decode, InPool
  <2>2. \A d \in Channel : /\ opc[d] = "ended" => opc'[d] = "ended"
                           /\ opc'[d] = "ended" => d \notin running /\ outq'[d] = {}
    BY <1>3 DEF PopOutput, EndOutput, Stopped, Stopping, Typed
  <2>3. QED
    BY <2>1, <2>2 DEF Stopping, Looping
<1>4. CASE Infer
  <2>1. UNCHANGED <<main, turn, running, dpc, outq, opc, InPool>>
    BY <1>4 DEF Infer, decode, output, InPool
  <2>2. QED
    BY <2>1 DEF Stopping, Looping
<1>5. ASSUME NEW f \in completed \union failed, Takes(f)
      PROVE  Stopping'
  <2>1. /\ UNCHANGED <<turn, running, dpc, outq, opc>>
        /\ main \in {"get", "drain"} /\ (main = "drain" => main' = "drain")
        /\ main = "get" => main' \in {"deliver", "drop"}
    BY <1>5 DEF Takes, Take, decode, output
  <2>2. QED
    BY <2>1 DEF Stopping, Looping
<1>6. CASE Deliver \/ Drop
  <2>1. /\ Looping /\ main' = "active"
        /\ UNCHANGED <<turn, decode, opc>>
    BY <1>6 DEF Deliver, Drop, At, Looping, output
  <2>2. QED
    BY <2>1 DEF Stopping, Looping, decode
<1>7. CASE StopChannel
  <2>1. UNCHANGED <<turn, dpc, outq, opc>> /\ main = "stop" /\ main' = "join"
        /\ running' \subseteq running
    BY <1>7 DEF StopChannel, At, output
  <2>2. QED
    BY <2>1 DEF Stopping, Looping
<1>8. CASE JoinOutput
  <2>1. /\ UNCHANGED <<running, dpc, outq, opc, InPool>>
        /\ main = "join_output" /\ turn' = turn + 1 /\ turn \in Channel
        /\ dpc[turn] = "ended" /\ opc[turn] = "ended"
        /\ main' = IF turn + 1 < NumChannels THEN "stop" ELSE "destroy"
    BY <1>0, <1>8 DEF JoinOutput, At, counters, pool, decode, output, InPool, Stopping
  <2>2. \A c \in Channel : c < turn' => c < turn \/ c = turn
    BY <2>1 DEF Channel, Typed
  <2>3. /\ main' = "stop" => turn' < NumChannels
        /\ main' = "destroy" => turn' = NumChannels
    BY <2>1, PipelineAssumption DEF Channel, Typed
  <2>4. QED
    BY <2>1, <2>2, <2>3 DEF Stopping, Looping
<1>9. CASE Looks /\ ~JoinOutput
  <2>1. UNCHANGED <<turn, decode, output, InPool>>
    BY <1>9 DEF Looks, ReadActive, ReadPending, Get, Take, JoinDecode, Destroy, Drain, At,
                pool, InPool
  <2>2. \/ Looping /\ main' \in {"active", "pending", "get"}
        \/ main = "pending" /\ main' = "stop"
        \/ main = "join" /\ main' = "join_output" /\ dpc[turn] = "ended"
        \/ main = "destroy" /\ main' = "drain"
        \/ main = "drain" /\ main' = "end" /\ pending <= 0
    BY <1>9 DEF Looks, ReadActive, ReadPending, Get, Take, JoinDecode, Destroy, Drain, At, Looping
  <2>3. pending <= 0 => InPool = {}
    <3>1. /\ IsFiniteSet(InPool) /\ Cardinality(InPool) \in Nat
          /\ Cardinality(Submitting) \in Nat
          /\ pending = Cardinality(InPool) + Cardinality(Submitting)
      BY FS_CardinalityType, ChannelsFinite DEF Typed, PendingCounts, Submitting
    <3>2. QED
      BY <3>1, FS_EmptySet
  <2>4. QED
    BY <2>1, <2>2, <2>3, PipelineAssumption DEF Stopping, Looping, decode, output
<1>10. CASE UNCHANGED vars
  BY <1>10 DEF vars, pool, decode, output, InPool, Stopping, Looping
<1>11. QED
  BY <1>1, <1>2, <1>3, <1>4, <1>5, <1>6, <1>7, <1>8, <1>9, <1>10 DEF StepCases

\* A thread that can still submit or close has not been counted off.
LEMMA StillCounted ==
    ASSUME NEW c \in Channel, dpc[c] \notin {"open", "ended"}
    PROVE  Cardinality(Counted) \in Nat /\ Cardinality(Counted) > 0
<1>1. IsFiniteSet(Counted) /\ Cardinality(Counted) \in Nat
  BY ChannelsFinite DEF Counted
<1>2. c \in Counted
  BY DEF Counted
<1>3. Cardinality(Counted) # 0
  BY <1>1, <1>2, FS_EmptySet
<1>4. QED
  BY <1>1, <1>3

\* Leaving is kept: every close lowers active_channels and the number of
\* threads at work together, and only a thread at work submits a frame.
LEMMA LeavingStep ==
    ASSUME Typed, Places, PendingCounts, Leaving, StepCases
    PROVE  Leaving'
<1> DEFINE Busy == {"active", "get", "deliver", "drop"}
           N == Cardinality(Counted)
<1>1. N \in Nat /\ active \in Int
  BY ChannelsFinite DEF Counted, Typed
<1>2. ASSUME NEW c \in Channel, NEW from, NEW to, Goto(c, from, to),
             from \notin {"open", "ended"}, to \notin {"open", "ended"}
      PROVE  N' = N
  BY <1>2, CountedMoves
<1>3. ASSUME N' = N, UNCHANGED <<active, main>>, InPool' \subseteq InPool
      PROVE  Leaving'
  BY <1>3 DEF Leaving, Looping
<1>4. ASSUME NEW c \in Channel, GoesOn(c)
      PROVE  Leaving'
  <2>1. UNCHANGED <<active, main, InPool>>
    BY <1>4 DEF GoesOn, counters, pool, InPool
  <2>2. PICK from, to \in DecodePlaces :
          /\ Goto(c, from, to) /\ from # "ended" /\ to # "open"
          /\ from = "open" => to = IF c \in Unopenable THEN "ended" ELSE "head"
          /\ to = "ended" => from = "open"
    BY <1>4 DEF GoesOn
  <2>3. N' = N
    BY <2>2, CountedMoves
  <2>4. QED
    BY <1>3, <2>1, <2>3
<1>5. ASSUME NEW c \in Channel, Ends(c)
      PROVE  Leaving'
  <2>1. active' = active - 1 /\ UNCHANGED <<main, InPool>>
    BY <1>5 DEF Ends, Close, pool, InPool
  <2>2. N' = N - 1
    BY <1>5, CountedMoves DEF Ends, Close
  <2>3. QED
    BY <1>1, <2>1, <2>2 DEF Leaving, Looping
<1>6. ASSUME NEW c \in Channel, Decodes(c) \/ Enters(c) \/ CountPending(c)
      PROVE  Leaving'
  <2>1. UNCHANGED <<active, main, InPool>>
    BY <1>6 DEF Decodes, Callback, Enters, CountInflight, CountPending, counters, pool, InPool, Goto
  <2>2. N' = N
    BY <1>2, <1>6 DEF Decodes, Callback, Enters, CountPending
  <2>3. QED
    BY <1>3, <2>1, <2>2
<1>7. ASSUME NEW c \in Channel, Submit(c)
      PROVE  Leaving'
  <2>1. UNCHANGED <<active, main>> /\ dpc[c] = "submit"
    BY <1>7 DEF Submit, Goto, counters
  <2>2. N' = N
    BY <1>2, <1>7 DEF Submit
  <2>3. N > 0
    BY <2>1, StillCounted
  <2>4. QED
    BY <1>1, <2>1, <2>2, <2>3 DEF Leaving, Looping
<1>8. CASE Infer \/ UNCHANGED vars \/ (\E c \in Channel : PopOutput(c) \/ EndOutput(c))
           \/ Deliver \/ Drop \/ \E f \in completed \union failed : Takes(f)
  <2>1. UNCHANGED <<active, dpc>> /\ InPool' \subseteq InPool
    BY <1>8 DEF Infer, vars, PopOutput, EndOutput, Deliver, Drop, Takes, Take, counters, pool,
                decode, InPool
  <2>2. UNCHANGED main \/ main' \in Busy
    BY <1>8 DEF Infer, vars, PopOutput, EndOutput, Deliver, Drop, Takes, At
  <2>3. N' = N
    BY <2>1 DEF Counted
  <2>4. CASE UNCHANGED main
    BY <1>3, <2>1, <2>3, <2>4
  <2>5. CASE main' \in Busy
    BY <2>5 DEF Leaving, Looping
  <2>6. QED
    BY <2>2, <2>4, <2>5
<1>9. CASE ReadActive
  BY <1>1, <1>9 DEF ReadActive, At, counters, Leaving, Looping
<1>10. CASE ReadPending
  <2>1. UNCHANGED <<active, InPool>> /\ main = "pending"
        /\ main' = IF pending = 0 THEN "stop" ELSE "get"
    BY <1>10 DEF ReadPending, At, counters, pool, InPool
  <2>2. pending = 0 => InPool = {}
    <3>1. /\ IsFiniteSet(InPool) /\ Cardinality(InPool) \in Nat
          /\ Cardinality(Submitting) \in Nat
          /\ pending = Cardinality(InPool) + Cardinality(Submitting)
      BY FS_CardinalityType, ChannelsFinite DEF Typed, PendingCounts, Submitting
    <3>2. QED
      BY <3>1, FS_EmptySet
  <2>3. QED
    BY <2>1, <2>2 DEF Leaving, Looping
<1>11. CASE (Looks /\ ~ReadActive /\ ~ReadPending) \/ StopChannel
  <2>1. UNCHANGED <<active, dpc, InPool>>
        /\ (main' \in Busy \/ main \notin Busy \union {"pending"})
    BY <1>11 DEF Looks, Get, Take, JoinDecode, JoinOutput, Destroy, Drain, StopChannel, At,
                 counters, pool, decode, InPool
  <2>2. N' = N
    BY <2>1 DEF Counted
  <2>3. QED
    BY <2>1, <2>2 DEF Leaving, Looping
<1>12. QED
  BY <1>4, <1>5, <1>6, <1>7, <1>8, <1>9, <1>10, <1>11 DEF StepCases

-----------------------------------------------------------------------------

LEMMA InitHolds == Init => IInv
<1> SUFFICES ASSUME Init PROVE IInv
  OBVIOUS
<1>1. /\ IsFiniteSet({}) /\ Cardinality({}) = 0
      /\ InPool = {} /\ Submitting = {} /\ \A c \in Channel : Of(InPool \union hand, c) = {}
  BY FS_EmptySet DEF Init, InPool, Submitting, Of
<1>2. Typed
  BY <1>1, PipelineAssumption DEF Init, Typed, MainPlaces, DecodePlaces
<1>3. Places /\ Gated
  BY <1>1 DEF Init, Places, Gated, InCallback
<1>4. CountersExact
  <2>1. pending = 0 /\ \A c \in Channel : inflight[c] = 0 /\ dpc[c] = "open"
    BY DEF Init
  <2>2. InflightCounts
    BY <1>1, <2>1, PipelineAssumption DEF InflightCounts
  <2>3. PendingCounts
    BY <1>1, <2>1 DEF PendingCounts, Submitting
  <2>4. QED
    BY <2>2, <2>3 DEF CountersExact
<1>5. Stopping
  BY <1>1, PipelineAssumption DEF Init, Stopping, Looping, Channel
<1>6. Leaving
  BY DEF Init, Leaving, Looping
<1>7. QED
  BY <1>2, <1>3, <1>4, <1>5, <1>6 DEF IInv

\* The inductive invariant holds for every number of channels and every limit.
THEOREM Invariance == Spec => []IInv
<1>1. IInv /\ [Next]_vars => IInv'
  BY Cases, TypedStep, PlacesStep, GatedStep, PendingStep, InflightStep, StoppingStep, LeavingStep
     DEF IInv, CountersExact
<1>2. QED
  BY InitHolds, <1>1, PTL DEF Spec

\* m_inflight_frames and pending_count are exact at every moment, and no
\* channel exceeds its limit: an update of a counter and the move of the frame
\* it counts are steps of different threads.
THEOREM Counters == Spec => []CountersExact
BY Invariance, PTL DEF IInv

\* If active_channels was set to the number of channels and every file could
\* be opened, main leaves its loop with nothing in the pool and no decoder
\* running.
THEOREM Drained == Spec => []ExitDrained
<1>1. ASSUME IInv, ActiveMatches, ~Looping
      PROVE  (\A c \in Channel : dpc[c] = "ended") /\ InPool = {}
  <2> DEFINE Alive == {c \in Channel : dpc[c] # "ended"}
  <2>1. IsFiniteSet(Alive) /\ Cardinality(Alive) \in Nat
    BY ChannelsFinite
  <2>2. active <= 0 /\ active = Cardinality(Alive)
    BY <1>1 DEF IInv, Leaving, Looping, ActiveMatches
  <2>3. Cardinality(Alive) = 0
    BY <2>1, <2>2
  <2>4. Alive = {}
    BY <2>1, <2>3, FS_EmptySet
  <2>5. Counted = {}
    BY <2>4 DEF Counted
  <2>6. ~(active < Cardinality(Counted))
    BY <2>2, <2>3, <2>5, FS_EmptySet
  <2>7. QED
    BY <1>1, <2>4, <2>6 DEF IInv, Leaving
<1>2. IInv => ExitDrained
  BY <1>1 DEF ExitDrained
<1>3. QED
  BY Invariance, <1>2, PTL

\* However main left its loop, a channel is destroyed after its threads have
\* ended and its delivered results were popped, the pool after its last task.
THEOREM Teardown == Spec => []TeardownOrder
<1>1. ASSUME IInv
      PROVE  TeardownOrder
  <2>1. /\ NumChannels \in Nat
        /\ \A c \in Channel : c < NumChannels
    BY PipelineAssumption DEF Channel
  <2>2. QED
    BY <1>1, <2>1 DEF IInv, Stopping, TeardownOrder
<1>2. QED
  BY Invariance, <1>1, PTL

=============================================================================
