----------------------------- MODULE DecoderProofs -----------------------------
(***************************************************************************)
(* Decoder.tla keeps account of the external buffers for any number of     *)
(* buffers, packets, retries and size changes.                             *)
(***************************************************************************)
EXTENDS Decoder, FiniteSetTheorems, TLAPS

Entry == [kind : {"info", "good", "bad"}, buf : Nat]

\* Buffers with a picture in the output.
Waiting == {b \in Buf : \E i \in DOMAIN out : out[i].buf = b}

TypeOK ==
    /\ out \in Seq(Entry)
    /\ \A i \in DOMAIN out : IF out[i].kind = "info" THEN out[i].buf = 0
                                                     ELSE out[i].buf \in Buf
    /\ heap \subseteq Buf

\* The buffers of the group are those ready for the hardware, those in the
\* output, each in one picture, and those the channel has.
GroupWhole ==
    /\ map = free \union downstream \union Waiting
    /\ free \cap downstream = {}
    /\ Waiting \cap (free \union downstream) = {}
    /\ \A i, j \in DOMAIN out : out[i].buf = out[j].buf /\ out[i].buf # 0 => i = j

\* The announcement AllocateExternalBuffers answers is still to be taken.
Announced == out # <<>> /\ Head(out).kind = "info"

\* What is not in the group is the one buffer whose commit failed, with which
\* the only allocation there is has ended.
AllocatedOnce ==
    /\ map \subseteq heap
    /\ \A b, c \in heap \ map : b = c
    /\ pc = "alloc" => heap = map /\ grp = "live" /\ Announced
    /\ pc # "released" /\ grp = "none" => heap = {}
    /\ pc = "released" => map = {}

Inv ==
    /\ TypeOK
    /\ pc # "released" => GroupWhole
    /\ AllocatedOnce

-----------------------------------------------------------------------------
(* The output as a set of buffers *)

\* A picture, or an announcement, is put at the end.
LEMMA PictureAdded ==
    ASSUME TypeOK, NEW e \in Entry, IF e.kind = "info" THEN e.buf = 0 ELSE e.buf \in Buf,
           out' = Append(out, e), heap' \subseteq Buf
    PROVE  /\ TypeOK'
           /\ Waiting' = Waiting \union ({e.buf} \cap Buf)
           /\ (\A i, j \in DOMAIN out : out[i].buf = out[j].buf /\ out[i].buf # 0 => i = j)
              /\ e.buf \notin Waiting
                => \A i, j \in DOMAIN out' :
                     out'[i].buf = out'[j].buf /\ out'[i].buf # 0 => i = j
           /\ Announced => Announced'
<1>1. PICK n : n = Len(out)
  OBVIOUS
<1>2. /\ n \in Nat /\ DOMAIN out = 1 .. n /\ out' \in Seq(Entry) /\ DOMAIN out' = 1 .. n + 1
      /\ out'[n + 1] = e /\ \A i \in 1 .. n : out'[i] = out[i]
  BY <1>1 DEF TypeOK
<1>3. \A i \in 1 .. n + 1 : i \in 1 .. n \/ i = n + 1
  BY <1>2
<1>4. \A i \in DOMAIN out' : IF out'[i].kind = "info" THEN out'[i].buf = 0
                                                       ELSE out'[i].buf \in Buf
  BY <1>2, <1>3 DEF TypeOK
<1>5. TypeOK'
  BY <1>2, <1>4 DEF TypeOK, Buf
<1>6. Waiting' = Waiting \union ({e.buf} \cap Buf)
  <2>1. ASSUME NEW b \in Buf
        PROVE  (\E i \in 1 .. n + 1 : out'[i].buf = b) <=>
               (\E i \in 1 .. n : out[i].buf = b) \/ b = e.buf
    <3>1. n + 1 \in 1 .. n + 1 /\ \A i \in 1 .. n : i \in 1 .. n + 1
      BY <1>2
    <3>2. QED BY <1>2, <1>3, <3>1
  <2>2. QED BY <1>2, <2>1 DEF Waiting, Buf
<1>7. ASSUME \A i, j \in DOMAIN out : out[i].buf = out[j].buf /\ out[i].buf # 0 => i = j,
             e.buf \notin Waiting,
             NEW i \in DOMAIN out', NEW j \in DOMAIN out',
             out'[i].buf = out'[j].buf, out'[i].buf # 0
      PROVE  i = j
  <2>1. CASE i \in 1 .. n /\ j \in 1 .. n
    BY <1>2, <1>7, <2>1
  <2>2. ASSUME NEW k \in 1 .. n, e.buf # 0 PROVE out[k].buf # e.buf
    BY <1>2, <1>7, <2>2 DEF TypeOK, Waiting
  <2>3. CASE i = n + 1 \/ j = n + 1
    BY <1>2, <1>3, <1>7, <2>2, <2>3
  <2>4. QED BY <1>2, <1>3, <2>1, <2>3
<1>8. ASSUME Announced PROVE Announced'
  <2>1. n >= 1 /\ 1 \in 1 .. n /\ Head(out) = out[1]
    BY <1>1, <1>8 DEF Announced, TypeOK
  <2>2. out' # <<>> /\ Head(out') = out'[1]
    BY <1>2, <2>1
  <2>3. QED BY <1>2, <1>8, <2>1, <2>2 DEF Announced
<1>9. QED BY <1>5, <1>6, <1>7, <1>8

\* The first one is taken.
LEMMA PictureTaken ==
    ASSUME TypeOK, out # <<>>, out' = Tail(out), heap' \subseteq Buf
    PROVE  /\ TypeOK'
           /\ Head(out) \in Entry
           /\ IF Head(out).kind = "info" THEN Head(out).buf = 0 ELSE Head(out).buf \in Waiting
           /\ (\A i, j \in DOMAIN out : out[i].buf = out[j].buf /\ out[i].buf # 0 => i = j)
                => /\ Waiting' = Waiting \ {Head(out).buf}
                   /\ \A i, j \in DOMAIN out' :
                        out'[i].buf = out'[j].buf /\ out'[i].buf # 0 => i = j
<1>1. PICK n : n = Len(out)
  OBVIOUS
<1>2. /\ n \in Nat /\ n >= 1 /\ DOMAIN out = 1 .. n
      /\ out' \in Seq(Entry) /\ DOMAIN out' = 1 .. n - 1
      /\ Head(out) = out[1] /\ Head(out) \in Entry
      /\ \A i \in 1 .. n - 1 : out'[i] = out[i + 1]
  BY <1>1 DEF TypeOK
<1>3. \A i \in 1 .. n - 1 : i + 1 \in 1 .. n /\ i + 1 # 1
  BY <1>2
<1>4. \A i \in 1 .. n : i # 1 => i - 1 \in 1 .. n - 1 /\ out'[i - 1] = out[i]
  <2>1. ASSUME NEW i \in 1 .. n, i # 1
        PROVE  i - 1 \in 1 .. n - 1 /\ out'[i - 1] = out[i]
    <3>1. i - 1 \in 1 .. n - 1 /\ (i - 1) + 1 = i
      BY <1>2, <2>1
    <3>2. out'[i - 1] = out[(i - 1) + 1]
      BY <1>2, <3>1
    <3>3. QED BY <3>1, <3>2
  <2>2. QED BY <2>1
<1>5. \A i \in DOMAIN out' : IF out'[i].kind = "info" THEN out'[i].buf = 0
                                                       ELSE out'[i].buf \in Buf
  BY <1>2, <1>3 DEF TypeOK
<1>6. TypeOK'
  BY <1>2, <1>5 DEF TypeOK, Buf
<1>7. 1 \in DOMAIN out
  BY <1>2
<1>8. IF Head(out).kind = "info" THEN Head(out).buf = 0 ELSE Head(out).buf \in Waiting
  BY <1>2, <1>7 DEF TypeOK, Waiting
<1>9. ASSUME \A i, j \in DOMAIN out : out[i].buf = out[j].buf /\ out[i].buf # 0 => i = j
      PROVE  /\ Waiting' = Waiting \ {Head(out).buf}
             /\ \A i, j \in DOMAIN out' :
                  out'[i].buf = out'[j].buf /\ out'[i].buf # 0 => i = j
  <2>1. ASSUME NEW i \in DOMAIN out', NEW j \in DOMAIN out',
               out'[i].buf = out'[j].buf, out'[i].buf # 0
        PROVE  i = j
    <3>1. i + 1 = j + 1
      BY <1>2, <1>3, <1>9, <2>1
    <3>2. QED BY <1>2, <3>1
  <2>2. 0 \notin Buf
    BY DEF Buf
  <2>3. ASSUME NEW b \in Buf
        PROVE  (\E i \in DOMAIN out' : out'[i].buf = b) <=>
               (\E i \in DOMAIN out : out[i].buf = b) /\ b # Head(out).buf
    <3>1. ASSUME NEW i \in DOMAIN out', out'[i].buf = b
          PROVE  (\E j \in DOMAIN out : out[j].buf = b) /\ b # Head(out).buf
      <4>1. i + 1 \in DOMAIN out /\ i + 1 # 1 /\ out[i + 1].buf = b
        BY <1>2, <1>3, <3>1
      <4>2. QED BY <1>2, <1>7, <1>9, <2>2, <4>1
    <3>2. ASSUME NEW i \in DOMAIN out, out[i].buf = b, b # Head(out).buf
          PROVE  \E j \in DOMAIN out' : out'[j].buf = b
      <4>1. i # 1
        BY <1>2, <3>2
      <4>2. i - 1 \in DOMAIN out' /\ out'[i - 1].buf = b
        BY <1>2, <1>4, <3>2, <4>1
      <4>3. QED BY <4>2
    <3>3. QED BY <3>1, <3>2
  <2>4. Waiting' = Waiting \ {Head(out).buf}
    BY <2>3 DEF Waiting, Buf
  <2>5. QED BY <2>1, <2>4
<1>10. QED BY <1>2, <1>6, <1>8, <1>9

LEMMA OutKept ==
    ASSUME TypeOK, out' = out, heap' \subseteq Buf
    PROVE  TypeOK' /\ Waiting' = Waiting /\ (Announced => Announced')
BY DEF TypeOK, Waiting, Buf, Announced

-----------------------------------------------------------------------------
(* Steps *)

\* Buffers that change places within the group.
LEMMA Moved ==
    ASSUME Inv, TypeOK', pc # "released", pc' # "released",
           GroupWhole', map' = map, heap' = heap, grp' = grp,
           pc' = "alloc" => pc = "alloc" /\ (Announced => Announced')
    PROVE  Inv'
BY DEF Inv, AllocatedOnce

LEMMA HardwareStep == Inv /\ External => Inv'
<1> SUFFICES ASSUME Inv, External PROVE Inv'
  OBVIOUS
<1>1. TypeOK /\ GroupWhole /\ pc # "released"
  BY DEF Inv, External
<1>2. UNCHANGED <<call, memory>>
  BY DEF External, Announce, Decode, Return
<1>3. pc' = pc /\ map' = map /\ heap' = heap /\ grp' = grp /\ heap' \subseteq Buf
  BY <1>1, <1>2 DEF call, memory, TypeOK
<1>4. ASSUME Announce PROVE TypeOK' /\ GroupWhole' /\ (Announced => Announced')
  <2>1. /\ out' = Append(out, [kind |-> "info", buf |-> 0])
        /\ free' = free /\ downstream' = downstream
    BY <1>4 DEF Announce
  <2>2. [kind |-> "info", buf |-> 0] \in Entry /\ 0 \notin Buf
    BY DEF Entry, Buf
  <2>3. TypeOK' /\ Waiting' = Waiting /\ (Announced => Announced')
        /\ \A i, j \in DOMAIN out' : out'[i].buf = out'[j].buf /\ out'[i].buf # 0 => i = j
    BY <1>1, <1>3, <2>1, <2>2, PictureAdded DEF GroupWhole, Waiting
  <2>4. QED BY <1>1, <1>3, <2>1, <2>3 DEF GroupWhole
<1>5. ASSUME Decode PROVE TypeOK' /\ GroupWhole' /\ (Announced => Announced')
  <2>1. PICK b \in free, kind \in {"good", "bad"} :
          free' = free \ {b} /\ out' = Append(out, [kind |-> kind, buf |-> b])
    BY <1>5 DEF Decode
  <2>2. downstream' = downstream
    BY <1>5 DEF Decode
  <2>3. b \in Buf /\ b \in Nat /\ b \notin Waiting
    BY <1>1, <2>1 DEF Inv, AllocatedOnce, GroupWhole, TypeOK, Buf
  <2>4. [kind |-> kind, buf |-> b] \in Entry /\ kind # "info"
    BY <2>1, <2>3 DEF Entry
  <2>5. TypeOK' /\ Waiting' = Waiting \union {b} /\ (Announced => Announced')
        /\ \A i, j \in DOMAIN out' : out'[i].buf = out'[j].buf /\ out'[i].buf # 0 => i = j
    BY <1>1, <1>3, <2>1, <2>3, <2>4, PictureAdded DEF GroupWhole
  <2>6. QED BY <1>1, <1>3, <2>1, <2>2, <2>5 DEF GroupWhole
<1>6. ASSUME NEW b \in Buf, Return(b) PROVE TypeOK' /\ GroupWhole' /\ (Announced => Announced')
  <2>1. TypeOK' /\ Waiting' = Waiting /\ out' = out /\ (Announced => Announced')
    BY <1>1, <1>3, <1>6, OutKept DEF Return
  <2>2. QED BY <1>1, <1>3, <1>6, <2>1 DEF GroupWhole, Return
<1>7. TypeOK' /\ GroupWhole' /\ (Announced => Announced')
  BY <1>4, <1>5, <1>6 DEF External
<1>8. QED BY <1>1, <1>3, <1>7, Moved

\* The calls of DecodePacket touch no buffer.
LEMMA CallStep == Inv /\ (Call \/ Accepted \/ Refused \/ Drained) => Inv'
<1> SUFFICES ASSUME Inv, Call \/ Accepted \/ Refused \/ Drained PROVE Inv'
  OBVIOUS
<1>1. pc \in {"idle", "put", "flush"} /\ pc' \in {"idle", "put", "flush"}
  BY DEF Call, Accepted, Refused, Drained
<1>2. UNCHANGED <<memory, pictures>>
  BY DEF Call, Accepted, Refused, Drained
<1>3. /\ TypeOK /\ GroupWhole /\ map' = map /\ heap' = heap /\ grp' = grp /\ out' = out
      /\ free' = free /\ downstream' = downstream /\ heap' \subseteq Buf
  BY <1>1, <1>2 DEF Inv, memory, pictures, TypeOK
<1>4. TypeOK' /\ Waiting' = Waiting
  BY <1>3, OutKept
<1>5. GroupWhole'
  BY <1>3, <1>4 DEF GroupWhole
<1>6. QED BY <1>1, <1>3, <1>4, <1>5, Moved

\* What FlushDecoder takes from the output goes to the channel or back to the
\* hardware.
LEMMA GetStep == Inv /\ (GetGood \/ GetBad \/ GetInfo \/ CreateGroup) => Inv'
<1> SUFFICES ASSUME Inv, GetGood \/ GetBad \/ GetInfo \/ CreateGroup PROVE Inv'
  OBVIOUS
<1>1. TypeOK /\ GroupWhole /\ pc = "flush" /\ out # <<>> /\ map' = map /\ heap' = heap
      /\ heap' \subseteq Buf
  BY DEF Inv, TypeOK, GetGood, GetBad, GetInfo, CreateGroup, Got, memory
<1>2. CASE GetGood \/ GetBad
  <2>1. /\ pc' = pc /\ grp' = grp /\ out' = Tail(out) /\ Head(out).kind # "info"
    BY <1>2 DEF GetGood, GetBad, Got, call, memory
  <2>2. /\ TypeOK' /\ Head(out).buf \in Waiting /\ Waiting' = Waiting \ {Head(out).buf}
        /\ \A i, j \in DOMAIN out' : out'[i].buf = out'[j].buf /\ out'[i].buf # 0 => i = j
    BY <1>1, <2>1, PictureTaken DEF GroupWhole
  <2>3. \/ downstream' = downstream \union {Head(out).buf} /\ free' = free
        \/ downstream' = downstream /\ free' = free \union {Head(out).buf}
    BY <1>2 DEF GetGood, GetBad
  <2>4. GroupWhole'
    BY <1>1, <2>2, <2>3 DEF GroupWhole
  <2>5. QED BY <1>1, <2>1, <2>2, <2>4, Moved
<1>3. CASE GetInfo
  <2>1. /\ pc' = "flush" /\ grp' = grp /\ out' = Tail(out) /\ Head(out).kind = "info"
        /\ free' = free /\ downstream' = downstream
    BY <1>3 DEF GetInfo, Got, Ready, memory
  <2>2. /\ TypeOK' /\ Waiting' = Waiting \ {0}
        /\ \A i, j \in DOMAIN out' : out'[i].buf = out'[j].buf /\ out'[i].buf # 0 => i = j
    BY <1>1, <2>1, PictureTaken DEF GroupWhole
  <2>3. 0 \notin Waiting
    BY DEF Waiting, Buf
  <2>4. GroupWhole'
    BY <1>1, <2>1, <2>2, <2>3 DEF GroupWhole
  <2>5. QED BY <1>1, <2>1, <2>2, <2>4, Moved
<1>4. CASE CreateGroup
  <2>1. /\ grp = "none" /\ grp' = "live" /\ pc' = "alloc" /\ out' = out
        /\ free' = free /\ downstream' = downstream
    BY <1>4 DEF CreateGroup, pictures
  <2>2. TypeOK' /\ Waiting' = Waiting /\ Announced'
    BY <1>1, <1>4, <2>1, OutKept DEF CreateGroup, Got, Announced
  <2>3. GroupWhole'
    BY <1>1, <2>1, <2>2 DEF GroupWhole
  <2>4. heap = {} /\ map = {}
    BY <1>1, <2>1 DEF Inv, AllocatedOnce
  <2>5. QED BY <1>1, <2>1, <2>2, <2>3, <2>4 DEF Inv, AllocatedOnce
<1>5. QED BY <1>2, <1>3, <1>4

\* AllocateExternalBuffers ends, with one buffer outside the group or none.
LEMMA AllocEndStep ==
    Inv /\ (AllocFails \/ ImportFails \/ AllAllocated \/ \E b \in Buf : CommitFails(b)) => Inv'
<1> SUFFICES ASSUME Inv, AllocFails \/ ImportFails \/ AllAllocated \/ \E b \in Buf : CommitFails(b)
             PROVE  Inv'
  OBVIOUS
<1>1. /\ pc = "alloc" /\ pc' = "flush" /\ out' = Tail(out) /\ map' = map /\ grp' = grp
      /\ free' = free /\ downstream' = downstream
  BY DEF AllocFails, ImportFails, AllAllocated, CommitFails, Fresh, Ready, memory
<1>2. /\ TypeOK /\ GroupWhole /\ heap = map /\ grp = "live" /\ heap \subseteq Buf
      /\ out # <<>> /\ Head(out).kind = "info"
  BY <1>1 DEF Inv, AllocatedOnce, TypeOK, Announced
<1>3. heap' = heap \/ \E b \in Buf : heap' = heap \union {b}
  BY DEF AllocFails, ImportFails, AllAllocated, CommitFails, memory
<1>4. heap' \subseteq Buf
  BY <1>2, <1>3
<1>5. /\ TypeOK' /\ Waiting' = Waiting \ {0}
      /\ \A i, j \in DOMAIN out' : out'[i].buf = out'[j].buf /\ out'[i].buf # 0 => i = j
  BY <1>1, <1>2, <1>4, PictureTaken DEF GroupWhole
<1>6. 0 \notin Waiting
  BY DEF Waiting, Buf
<1>7. GroupWhole'
  BY <1>1, <1>2, <1>5, <1>6 DEF GroupWhole
<1>8. map' \subseteq heap' /\ \A b, c \in heap' \ map' : b = c
  BY <1>1, <1>2, <1>3
<1>9. QED BY <1>1, <1>2, <1>5, <1>7, <1>8 DEF Inv, AllocatedOnce

\* A buffer that is committed joins the group, ready for the hardware.
LEMMA CommitStep == Inv /\ (\E b \in Buf : Commit(b)) => Inv'
<1> SUFFICES ASSUME Inv, NEW b \in Buf, Commit(b) PROVE Inv'
  OBVIOUS
<1>1. /\ pc = "alloc" /\ b \notin heap /\ pc' = pc /\ grp' = grp /\ out' = out
      /\ heap' = heap \union {b} /\ map' = map \union {b} /\ free' = free \union {b}
      /\ downstream' = downstream
  BY DEF Commit, Fresh, call
<1>2. TypeOK /\ GroupWhole /\ heap = map /\ grp = "live" /\ heap \subseteq Buf /\ Announced
  BY <1>1 DEF Inv, AllocatedOnce, TypeOK
<1>3. heap' \subseteq Buf /\ heap' = map'
  BY <1>1, <1>2
<1>4. TypeOK' /\ Waiting' = Waiting /\ Announced'
  BY <1>1, <1>2, <1>3, OutKept
<1>5. GroupWhole'
  BY <1>1, <1>2, <1>4 DEF GroupWhole
<1>6. QED BY <1>1, <1>2, <1>3, <1>4, <1>5 DEF Inv, AllocatedOnce

\* The destructor frees the group.
LEMMA ReleaseStep == Inv /\ ReleaseAll => Inv'
<1> SUFFICES ASSUME Inv, ReleaseAll PROVE Inv'
  OBVIOUS
<1>1. /\ pc' = "released" /\ out' = <<>> /\ map' = {} /\ heap' = heap \ map
  BY DEF ReleaseAll
<1>2. heap' \subseteq Buf /\ \A b, c \in heap' \ map' : b = c
  BY <1>1 DEF Inv, TypeOK, AllocatedOnce
<1>3. TypeOK'
  BY <1>1, <1>2 DEF TypeOK, Buf
<1>4. QED BY <1>1, <1>2, <1>3 DEF Inv, AllocatedOnce

LEMMA Stuttering == Inv /\ UNCHANGED vars => Inv'
<1> SUFFICES ASSUME Inv, UNCHANGED vars PROVE Inv'
  OBVIOUS
<1>1. /\ pc' = pc /\ grp' = grp /\ map' = map /\ heap' = heap /\ out' = out
      /\ free' = free /\ downstream' = downstream
  BY DEF vars, call, memory, pictures
<1>2. TypeOK' /\ Waiting' = Waiting /\ (Announced => Announced')
  BY <1>1, OutKept DEF Inv, TypeOK
<1>3. QED BY <1>1, <1>2 DEF Inv, GroupWhole, AllocatedOnce

LEMMA Initially == Init => Inv
<1> SUFFICES ASSUME Init PROVE Inv
  OBVIOUS
<1>1. TypeOK
  BY DEF Init, TypeOK
<1>2. Waiting = {}
  BY DEF Init, Waiting
<1>3. QED BY <1>1, <1>2 DEF Init, Inv, GroupWhole, AllocatedOnce

-----------------------------------------------------------------------------
(* Results *)

\* FlushDecoder, AllocateExternalBuffers and ReleaseAll, in whatever order the
\* hardware announces and decodes and the channel gives pictures back, keep the
\* group whole and allocate it once.
THEOREM DecoderInvariant == Spec => []Inv
<1>1. Init => Inv
  BY Initially
<1>2. Inv /\ [Next]_vars => Inv'
  BY HardwareStep, CallStep, GetStep, AllocEndStep, CommitStep, ReleaseStep, Stuttering
  DEF Next, DecodePacket, FlushDecoder
<1>3. QED BY <1>1, <1>2, PTL DEF Spec

\* A buffer of the group is in one place.
LEMMA WholeGroupLosesNone == Inv => NoBufferLost
<1> SUFFICES ASSUME Inv, pc # "released", NEW b \in map
             PROVE  LET waiting == {i \in DOMAIN out : out[i].buf = b}
                    IN  \/ b \in free /\ b \notin downstream /\ waiting = {}
                        \/ b \in downstream /\ b \notin free /\ waiting = {}
                        \/ b \notin free \union downstream
                           /\ \E i \in DOMAIN out : waiting = {i}
  BY DEF NoBufferLost
<1>1. b \in Buf /\ b # 0 /\ GroupWhole
  BY DEF Inv, TypeOK, AllocatedOnce, Buf
<1>2. CASE b \in Waiting
  <2>1. PICK i \in DOMAIN out : out[i].buf = b
    BY <1>2 DEF Waiting
  <2>2. {j \in DOMAIN out : out[j].buf = b} = {i}
    BY <1>1, <2>1 DEF GroupWhole
  <2>3. b \notin free \union downstream
    BY <1>1, <1>2 DEF GroupWhole
  <2>4. QED BY <2>1, <2>2, <2>3
<1>3. CASE b \notin Waiting
  <2>1. {j \in DOMAIN out : out[j].buf = b} = {}
    BY <1>1, <1>3 DEF Waiting
  <2>2. (b \in free /\ b \notin downstream) \/ (b \in downstream /\ b \notin free)
    BY <1>1, <1>3 DEF GroupWhole
  <2>3. QED BY <2>1, <2>2
<1>4. QED BY <1>2, <1>3

\* No path through FlushDecoder forgets a picture or hands one out twice: every
\* buffer is ready for the hardware, in one picture, or with the channel.
THEOREM NothingForgotten == Spec => []NoBufferLost
<1>1. QED BY DecoderInvariant, WholeGroupLosesNone, PTL

\* At most one buffer is left when the destructor has run, however the
\* allocation went.
THEOREM OneUnfreed == Spec => []OneBufferUnfreed
<1>1. ASSUME Inv PROVE OneBufferUnfreed
  <2>1. SUFFICES ASSUME pc = "released" PROVE Cardinality(heap) <= 1
    BY DEF OneBufferUnfreed
  <2>2. \A b, c \in heap : b = c
    BY <1>1, <2>1 DEF Inv, AllocatedOnce
  <2>3. CASE heap = {}
    BY <2>3, FS_EmptySet
  <2>4. CASE heap # {}
    <3>1. PICK b : b \in heap
      BY <2>4
    <3>2. heap = {b}
      BY <2>2, <3>1
    <3>3. Cardinality({b}) = 1
      BY FS_Singleton
    <3>4. QED BY <3>2, <3>3
  <2>5. QED BY <2>3, <2>4
<1>2. QED BY <1>1, DecoderInvariant, PTL

-----------------------------------------------------------------------------
(* A call of DecodePacket takes only so many steps: what PacketCallReturns   *)
(* rests on, besides the fairness of the calling thread.                    *)

CallTyped ==
    /\ pc \in {"idle", "put", "flush", "alloc", "released"} /\ after \in {"retry", "return"}
    /\ retries \in Nat /\ inq \in Nat /\ changes \in Nat
    /\ pc = "put" \/ (pc \in {"flush", "alloc"} /\ after = "retry") => retries <= MaxRetry

\* A try costs at most three steps besides those that take a picture or a buffer.
Trying ==
    CASE pc = "put" -> 3 * (MaxRetry - retries) + 3
      [] pc \in {"flush", "alloc"} /\ after = "retry" -> 3 * (MaxRetry - retries) + 2
      [] pc \in {"flush", "alloc"} /\ after = "return" -> 1
      [] OTHER -> 0

\* Pictures and announcements the hardware can still put out, and has put out.
InHardware == inq + changes + (IF mode = "start" THEN 1 ELSE 0)
Unallocated == Cardinality(Buf \ heap) + (IF grp = "none" THEN 1 ELSE 0)

StepsLeft == Trying + InHardware + Len(out) + Unallocated

\* Each step of the call lowers StepsLeft, and nothing the hardware and the
\* channel do meanwhile raises it.
CallShrinks ==
    [][/\ DecodePacket => StepsLeft' < StepsLeft
       /\ External => StepsLeft' <= StepsLeft]_vars

LEMMA CallTypedStep == CallTyped /\ [Next]_vars => CallTyped'
<1> USE DecoderAssumption
<1> SUFFICES ASSUME CallTyped, [Next]_vars PROVE CallTyped'
  OBVIOUS
<1>1. CASE Call \/ Accepted \/ Refused
  BY <1>1 DEF CallTyped, Call, Accepted, Refused, hardware
<1>2. CASE Drained
  BY <1>2 DEF CallTyped, Drained, hardware
<1>3. CASE GetGood \/ GetBad \/ GetInfo \/ CreateGroup
  BY <1>3 DEF CallTyped, GetGood, GetBad, GetInfo, CreateGroup, Got, Ready, call, hardware
<1>4. CASE AllocFails \/ ImportFails \/ AllAllocated
  BY <1>4 DEF CallTyped, AllocFails, ImportFails, AllAllocated, Fresh, Ready
<1>5. ASSUME NEW b \in Buf, CommitFails(b) \/ Commit(b) PROVE CallTyped'
  BY <1>5 DEF CallTyped, CommitFails, Commit, Fresh, Ready, call, hardware
<1>6. ASSUME External PROVE CallTyped'
  <2>1. UNCHANGED call
    BY <1>6 DEF External, Announce, Decode, Return
  <2>2. inq' \in Nat /\ changes' \in Nat
    BY <1>6 DEF CallTyped, External, Announce, Decode, Return, hardware
  <2>3. QED BY <2>1, <2>2 DEF CallTyped, call
<1>7. CASE ReleaseAll \/ UNCHANGED vars
  BY <1>7 DEF CallTyped, ReleaseAll, vars, call, hardware
<1>8. QED BY <1>1, <1>2, <1>3, <1>4, <1>5, <1>6, <1>7 DEF Next, DecodePacket, FlushDecoder

LEMMA ToAllocate == IsFiniteSet(Buf \ heap)
<1>1. IsFiniteSet(Buf)
  BY FS_Interval, DecoderAssumption DEF Buf
<1>2. QED BY <1>1, FS_Difference

LEMMA Measured ==
    ASSUME CallTyped, TypeOK
    PROVE  Trying \in Nat /\ InHardware \in Nat /\ Len(out) \in Nat
           /\ Cardinality(Buf \ heap) \in Nat /\ Unallocated \in Nat
<1> USE DecoderAssumption
<1>1. Trying \in Nat
  BY DEF CallTyped, Trying
<1>2. InHardware \in Nat /\ Len(out) \in Nat
  BY DEF CallTyped, InHardware, TypeOK
<1>3. Cardinality(Buf \ heap) \in Nat
  BY ToAllocate, FS_CardinalityType
<1>4. QED BY <1>1, <1>2, <1>3 DEF Unallocated

LEMMA BufferAllocated ==
    ASSUME CallTyped, TypeOK, NEW b \in Buf, b \notin heap, heap' = heap \union {b},
           grp' = grp
    PROVE  Unallocated' = Unallocated - 1
<1>1. IsFiniteSet(Buf \ heap)
  BY ToAllocate
<1>2. Buf \ heap' = (Buf \ heap) \ {b} /\ b \in Buf \ heap
  OBVIOUS
<1>3. Cardinality((Buf \ heap) \ {b}) = Cardinality(Buf \ heap) - 1
  BY <1>1, <1>2, FS_RemoveElement
<1>4. Cardinality(Buf \ heap') = Cardinality(Buf \ heap) - 1
  BY <1>2, <1>3 DEF Buf
<1>5. Cardinality(Buf \ heap) \in Nat
  BY Measured
<1>6. QED BY <1>4, <1>5 DEF Unallocated, Buf

LEMMA TakenIsShorter ==
    ASSUME TypeOK, out # <<>>, out' = Tail(out)
    PROVE  Len(out') = Len(out) - 1
BY DEF TypeOK

LEMMA CallStepShrinks == Inv /\ CallTyped /\ DecodePacket => StepsLeft' < StepsLeft
<1> USE DecoderAssumption
<1> SUFFICES ASSUME Inv, CallTyped, DecodePacket PROVE StepsLeft' < StepsLeft
  OBVIOUS
<1>1. /\ TypeOK /\ Trying \in Nat /\ InHardware \in Nat /\ Len(out) \in Nat
      /\ Unallocated \in Nat
  BY Measured DEF Inv
<1>2. \A t, h, l, u, t1, h1, l1, u1 \in Int :
        t1 <= t /\ h1 <= h /\ l1 <= l /\ u1 <= u /\ (t1 < t \/ l1 < l \/ u1 < u)
          => t1 + h1 + l1 + u1 < t + h + l + u
  OBVIOUS
<1>3. CASE Accepted
  <2>1. out' = out /\ Unallocated' = Unallocated
    BY <1>3 DEF Accepted, memory, pictures, Unallocated, Buf
  <2>2. InHardware' = InHardware + 1
    BY <1>3 DEF CallTyped, InHardware, Accepted
  <2>3. Trying' = 1 /\ Trying >= 3
    BY <1>3 DEF CallTyped, Trying, Accepted
  <2>4. QED BY <1>1, <2>1, <2>2, <2>3 DEF StepsLeft
<1>4. CASE Refused \/ Drained
  <2>1. out' = out /\ Unallocated' = Unallocated /\ InHardware' = InHardware
    BY <1>4 DEF Refused, Drained, memory, pictures, hardware, Unallocated, InHardware, Buf
  <2>2. CASE Refused
    <3>1. Trying' = Trying - 1
      BY <2>2 DEF CallTyped, Trying, Refused
    <3>2. QED BY <1>1, <1>2, <2>1, <3>1 DEF StepsLeft
  <2>3. CASE Drained
    <3>1. Trying' \in Int /\ Trying' < Trying
      BY <2>3 DEF CallTyped, Trying, Drained
    <3>2. QED BY <1>1, <1>2, <2>1, <3>1 DEF StepsLeft
  <2>4. QED BY <1>4, <2>2, <2>3
<1>5. CASE GetGood \/ GetBad \/ GetInfo
  <2>1. out # <<>> /\ out' = Tail(out) /\ Unallocated' = Unallocated
    BY <1>5 DEF GetGood, GetBad, GetInfo, Got, Ready, memory, Unallocated, Buf
  <2>2. Trying' = Trying
    BY <1>5 DEF GetGood, GetBad, GetInfo, Got, Ready, call, Trying
  <2>3. InHardware' \in Int /\ InHardware' <= InHardware
    BY <1>5 DEF CallTyped, GetGood, GetBad, GetInfo, Ready, hardware, InHardware
  <2>4. Len(out') = Len(out) - 1
    BY <1>1, <2>1, TakenIsShorter
  <2>5. QED BY <1>1, <1>2, <2>1, <2>2, <2>3, <2>4 DEF StepsLeft
<1>6. CASE CreateGroup
  <2>1. out' = out /\ Trying' = Trying /\ InHardware' = InHardware
    BY <1>6 DEF CreateGroup, Got, pictures, hardware, Trying, InHardware
  <2>2. Unallocated' = Unallocated - 1
    <3>1. Cardinality(Buf \ heap) \in Nat
      BY <1>1, Measured
    <3>2. grp = "none" /\ grp' = "live" /\ heap' = heap
      BY <1>6 DEF CreateGroup
    <3>3. QED BY <3>1, <3>2 DEF Unallocated, Buf
  <2>3. QED BY <1>1, <1>2, <2>1, <2>2 DEF StepsLeft
<1>7. CASE AllocFails \/ ImportFails \/ AllAllocated \/ \E b \in Buf : CommitFails(b)
  <2>1. pc = "alloc" /\ out # <<>> /\ out' = Tail(out) /\ Trying' = Trying
    BY <1>7 DEF Inv, AllocatedOnce, Announced, AllocFails, ImportFails, AllAllocated,
                CommitFails, Fresh, Ready, Trying
  <2>2. InHardware' \in Int /\ InHardware' <= InHardware
    BY <1>7 DEF CallTyped, AllocFails, ImportFails, AllAllocated, CommitFails, Ready, InHardware
  <2>3. Unallocated' = Unallocated \/ Unallocated' = Unallocated - 1
    <3>1. CASE AllocFails \/ ImportFails \/ AllAllocated
      BY <3>1 DEF AllocFails, ImportFails, AllAllocated, memory, Unallocated, Buf
    <3>2. ASSUME NEW b \in Buf, CommitFails(b) PROVE Unallocated' = Unallocated - 1
      BY <1>1, <3>2, BufferAllocated DEF CommitFails, Fresh
    <3>3. QED BY <1>7, <3>1, <3>2
  <2>4. Len(out') = Len(out) - 1
    BY <1>1, <2>1, TakenIsShorter
  <2>5. QED BY <1>1, <1>2, <2>1, <2>2, <2>3, <2>4 DEF StepsLeft
<1>8. ASSUME NEW b \in Buf, Commit(b) PROVE StepsLeft' < StepsLeft
  <2>1. out' = out /\ Trying' = Trying /\ InHardware' = InHardware
    BY <1>8 DEF Commit, call, hardware, Trying, InHardware
  <2>2. Unallocated' = Unallocated - 1
    BY <1>1, <1>8, BufferAllocated DEF Commit, Fresh
  <2>3. QED BY <1>1, <1>2, <2>1, <2>2 DEF StepsLeft
<1>9. QED BY <1>3, <1>4, <1>5, <1>6, <1>7, <1>8 DEF DecodePacket, FlushDecoder

LEMMA ExternalShrinksNot == Inv /\ CallTyped /\ External => StepsLeft' <= StepsLeft
<1> SUFFICES ASSUME Inv, CallTyped, External PROVE StepsLeft' <= StepsLeft
  OBVIOUS
<1>1. /\ TypeOK /\ Trying \in Nat /\ InHardware \in Nat /\ Len(out) \in Nat
      /\ Unallocated \in Nat
  BY Measured DEF Inv
<1>2. Trying' = Trying /\ Unallocated' = Unallocated
  <2>1. UNCHANGED <<call, memory>>
    BY DEF External, Announce, Decode, Return
  <2>2. QED BY <2>1 DEF call, memory, Trying, Unallocated, Buf
<1>3. ASSUME Announce PROVE Len(out') = Len(out) + 1 /\ InHardware' = InHardware - 1
  BY <1>1, <1>3 DEF Announce, TypeOK, CallTyped, InHardware
<1>4. ASSUME Decode PROVE Len(out') = Len(out) + 1 /\ InHardware' = InHardware - 1
  BY <1>1, <1>4 DEF Decode, TypeOK, CallTyped, InHardware
<1>5. ASSUME NEW b \in Buf, Return(b) PROVE Len(out') = Len(out) /\ InHardware' = InHardware
  BY <1>5 DEF Return, hardware, InHardware
<1>6. Len(out') + InHardware' = Len(out) + InHardware /\ Len(out') \in Int /\ InHardware' \in Int
  BY <1>1, <1>3, <1>4, <1>5 DEF External
<1>7. QED BY <1>1, <1>2, <1>6 DEF StepsLeft

\* DecodePacket comes to an end after a number of steps that is known when it
\* is called, although the hardware never takes the packet.
THEOREM CallIsBounded == Spec => [](StepsLeft \in Nat) /\ CallShrinks
<1>1. Init => CallTyped
  BY DecoderAssumption DEF Init, CallTyped
<1>2. Spec => []CallTyped
  BY <1>1, CallTypedStep, PTL DEF Spec
<1>3. Inv /\ CallTyped => StepsLeft \in Nat
  BY Measured DEF Inv, StepsLeft
<1>4. Inv /\ CallTyped => [/\ DecodePacket => StepsLeft' < StepsLeft
                           /\ External => StepsLeft' <= StepsLeft]_vars
  BY CallStepShrinks, ExternalShrinksNot
<1>5. QED BY <1>2, <1>3, <1>4, DecoderInvariant, PTL DEF CallShrinks
================================================================================
