---------------------------- MODULE ModelPoolProofs ----------------------------
(***************************************************************************)
(* ModelPool.tla, for any number of frames and models: a result is that of  *)
(* its own frame, although every model reuses one input buffer; a model is  *)
(* whole while it is used; and what was allocated is released once.         *)
(***************************************************************************)
EXTENDS ModelPool, FiniteSetTheorems, TLAPS

Places == {"new", "counted", "queued", "gone"} \union Executing

Typed ==
    /\ fpc \in [Frame -> Places]
    /\ model \in [Frame -> Model]
    /\ id \in Nat
    /\ DOMAIN input = Model /\ DOMAIN output = Model

\* A model is used by one frame at a time.
OneInside == \A f, g \in In(Inside) : model[f] = model[g] => f = g

MInv == Typed /\ OneInside /\ ResultOfOwnFrame

\* What a frame in a model relies on stays as it is.
Undisturbed == UNCHANGED <<fpc, model, id, input, output>>

LEMMA Elsewhere ==
    ASSUME \/ OutOfMemory \/ InitModels \/ InitDone \/ Get \/ Teardown
           \/ UNCHANGED vars \/ \E f \in Frame : Crash(f)
    PROVE  Undisturbed
BY DEF OutOfMemory, InitModels, InitDone, Get, Teardown, CloseChannels, Drain, ModelsGone,
       JoinWorkers, DropModel, CheckLabels, FreeLabels, FreeMembers, Crash, vars, tasks, npu,
       Undisturbed

LEMMA TypedWhenMoving ==
    ASSUME Typed, NEW f \in Frame, NEW to \in Places, fpc' = [fpc EXCEPT ![f] = to],
           UNCHANGED <<model, id>>, DOMAIN input' = Model, DOMAIN output' = Model
    PROVE  Typed'
BY DEF Typed

\* Only a frame that locks the model comes in.
LEMMA OneWhenMoving ==
    ASSUME Typed, OneInside, NEW f \in Frame, NEW to, fpc' = [fpc EXCEPT ![f] = to],
           to \in Inside => fpc[f] \in Inside, UNCHANGED model
    PROVE  OneInside'
<1>1. In(Inside)' \subseteq In(Inside)
  BY DEF In, Typed
<1>2. QED
  BY <1>1 DEF OneInside

\* What a frame relies on stays when another frame, or the frame itself after
\* its inference, moves on.
LEMMA OwnWhenMoving ==
    ASSUME MInv, NEW f \in Frame, NEW to, fpc' = [fpc EXCEPT ![f] = to],
           UNCHANGED <<model, input, output>>,
           to # "run", to \in {"post", "load", "flag", "names"}
                         => fpc[f] \in {"post", "load", "flag", "names"}
    PROVE  ResultOfOwnFrame'
<1>1. /\ In({"run"})' \subseteq In({"run"})
      /\ In({"post", "load", "flag", "names"})' \subseteq In({"post", "load", "flag", "names"})
  BY DEF In, MInv, Typed
<1>2. QED
  BY <1>1 DEF MInv, ResultOfOwnFrame

LEMMA MovingOn ==
    ASSUME MInv, NEW f \in Frame,
           \/ Submit(f) \/ Start(f) \/ Post(f) \/ Load(f) \/ Flag(f) \/ Names(f)
           \/ Push(f) \/ Unwind(f) \/ AfterDestroy(f)
    PROVE  MInv'
<1>1. /\ UNCHANGED <<model, id, input, output>>
      /\ \/ UNCHANGED fpc
         \/ \E to \in Places : /\ Go(f, to)
                               /\ to # "run"
                               /\ to \in Inside => fpc[f] \in {"post", "load", "flag", "names"}
  BY DEF Submit, Start, Post, Load, Flag, Names, Push, Unwind, AfterDestroy, npu,
         Go, Places, Executing, Inside
<1>2. CASE UNCHANGED fpc
  BY <1>1, <1>2 DEF MInv, Typed, OneInside, ResultOfOwnFrame, In
<1>3. CASE ~ UNCHANGED fpc
  <2>1. PICK to \in Places : /\ fpc' = [fpc EXCEPT ![f] = to] /\ to # "run"
                             /\ to \in Inside => fpc[f] \in {"post", "load", "flag", "names"}
    BY <1>1, <1>3 DEF Go
  <2>2. to \in Inside => fpc[f] \in Inside
    BY <2>1 DEF Inside
  <2>3. to \in {"post", "load", "flag", "names"} => fpc[f] \in {"post", "load", "flag", "names"}
    BY <2>1 DEF Inside
  <2>4. Typed'
    BY <1>1, <2>1, TypedWhenMoving DEF MInv, Typed
  <2>5. OneInside'
    BY <1>1, <2>1, <2>2, OneWhenMoving DEF MInv
  <2>6. ResultOfOwnFrame'
    BY <1>1, <2>1, <2>3, OwnWhenMoving
  <2>7. QED
    BY <2>4, <2>5, <2>6 DEF MInv
<1>4. QED
  BY <1>2, <1>3

LEMMA Choosing ==
    ASSUME MInv, NEW f \in Frame, Choose(f)
    PROVE  MInv'
<1>1. /\ fpc[f] = "new" /\ fpc' = [fpc EXCEPT ![f] = "counted"]
      /\ model' = [model EXCEPT ![f] = id % ThreadNum] /\ id' = id + 1
      /\ UNCHANGED <<input, output>>
  BY DEF Choose, Go, npu
<1>2. id % ThreadNum \in Model
  BY ModelPoolAssumption DEF MInv, Typed, Model
<1>3. Typed'
  BY <1>1, <1>2 DEF MInv, Typed, Places
<1>4. /\ In(Inside)' = In(Inside) /\ In({"run"})' = In({"run"})
      /\ In({"post", "load", "flag", "names"})' = In({"post", "load", "flag", "names"})
      /\ \A g \in In(Inside) : model'[g] = model[g]
  BY <1>1 DEF In, Inside, MInv, Typed
<1>5. In({"run"}) \subseteq In(Inside) /\ In({"post", "load", "flag", "names"}) \subseteq In(Inside)
  BY DEF In, Inside
<1>6. QED
  BY <1>1, <1>3, <1>4, <1>5 DEF MInv, OneInside, ResultOfOwnFrame

LEMMA Locking ==
    ASSUME MInv, NEW f \in Frame, Lock(f)
    PROVE  MInv'
<1>1. /\ fpc' = [fpc EXCEPT ![f] = "copy"] /\ UNCHANGED <<model, id, input, output>>
      /\ \A g \in In(Inside) : model[g] # model[f]
  BY DEF Lock, Go, npu
<1>2. Typed'
  BY <1>1, TypedWhenMoving DEF MInv, Typed, Places, Executing, Inside
<1>3. In(Inside)' = In(Inside) \union {f}
  BY <1>1 DEF In, Inside, MInv, Typed
<1>4. OneInside'
  BY <1>1, <1>3 DEF MInv, OneInside
<1>5. ResultOfOwnFrame'
  BY <1>1, OwnWhenMoving
<1>6. QED
  BY <1>2, <1>4, <1>5 DEF MInv

\* The copy and the run overwrite a model in which no other frame is.
LEMMA Writing ==
    ASSUME MInv, NEW f \in Frame, Copy(f) \/ Run(f)
    PROVE  MInv'
<1>1. /\ fpc[f] \in {"copy", "run"} /\ model[f] \in Model /\ UNCHANGED <<model, id>>
      /\ \/ fpc' = [fpc EXCEPT ![f] = "push"] /\ UNCHANGED <<input, output>>
         \/ /\ fpc' = [fpc EXCEPT ![f] = "run"] /\ UNCHANGED output
            /\ input' = [input EXCEPT ![model[f]] = f]
         \/ /\ fpc' = [fpc EXCEPT ![f] = "post"] /\ fpc[f] = "run" /\ UNCHANGED input
            /\ output' = [output EXCEPT ![model[f]] = input[model[f]]]
  BY DEF Copy, Run, Go, MInv, Typed
<1>2. Typed'
  BY <1>1, TypedWhenMoving DEF MInv, Typed, Places, Executing, Inside
<1>3. OneInside'
  BY <1>1, OneWhenMoving DEF MInv, Inside
<1>4. \A g \in In(Inside) : g # f => model[g] # model[f]
  BY <1>1 DEF MInv, OneInside, In, Inside
<1>5. \A g \in Frame : g # f => fpc'[g] = fpc[g]
  BY <1>1 DEF MInv, Typed
<1>6. fpc'[f] = "run" => input'[model[f]] = f
  BY <1>1 DEF MInv, Typed
<1>7. fpc'[f] = "post" => output'[model[f]] = f
  BY <1>1 DEF MInv, Typed, ResultOfOwnFrame, In
<1>8. ResultOfOwnFrame'
  <2>1. ASSUME NEW g \in Frame, fpc'[g] = "run"
        PROVE  input'[model[g]] = g
    <3>1. CASE g = f
      BY <1>6, <2>1, <3>1
    <3>2. CASE g # f
      <4>1. fpc[g] = "run" /\ input[model[g]] = g /\ model[g] # model[f]
        BY <1>4, <1>5, <2>1, <3>2 DEF MInv, ResultOfOwnFrame, In, Inside
      <4>2. QED
        BY <1>1, <4>1 DEF MInv, Typed
    <3>3. QED
      BY <3>1, <3>2
  <2>2. ASSUME NEW g \in Frame, fpc'[g] \in {"post", "load", "flag", "names"}
        PROVE  output'[model[g]] = g
    <3>1. CASE g = f
      BY <1>1, <1>7, <2>2, <3>1 DEF MInv, Typed
    <3>2. CASE g # f
      <4>1. /\ fpc[g] \in {"post", "load", "flag", "names"}
            /\ output[model[g]] = g /\ model[g] # model[f]
        BY <1>4, <1>5, <2>2, <3>2 DEF MInv, ResultOfOwnFrame, In, Inside
      <4>2. QED
        BY <1>1, <4>1 DEF MInv, Typed
    <3>3. QED
      BY <3>1, <3>2
  <2>3. QED
    BY <1>1, <2>1, <2>2 DEF ResultOfOwnFrame, In
<1>9. QED
  BY <1>2, <1>3, <1>8 DEF MInv

LEMMA PoolStep ==
    ASSUME MInv, [Next]_vars
    PROVE  MInv'
<1>1. CASE Undisturbed
  BY <1>1 DEF Undisturbed, MInv, Typed, OneInside, ResultOfOwnFrame, In
<1>2. QED
  BY <1>1, Elsewhere, MovingOn, Choosing, Locking, Writing DEF Next, Infer

\* Between the copy of a frame into a model and the last use of the outputs no
\* other frame writes into that model, whatever the number of frames, models
\* and workers and however models are initialised or destroyed meanwhile.
THEOREM ResultsNotMixed == Spec => []ResultOfOwnFrame
<1>1. Init => MInv
  BY ModelPoolAssumption
     DEF Init, MInv, Typed, OneInside, ResultOfOwnFrame, In, Places, Inside, Model
<1>2. MInv /\ [Next]_vars => MInv'
  BY PoolStep
<1>3. MInv => ResultOfOwnFrame
  BY DEF MInv
<1>4. QED
  BY <1>1, <1>2, <1>3, PTL DEF Spec

-----------------------------------------------------------------------------
(* What a model holds *)

Steps == {"load", "context", "setup", "inputs", "dma", "mem", "io", "outputs", "ready",
          "failed", "free dma", "destroy ctx", "free", "gone"}
Members == {"data", "ctx", "in_attrs", "out_attrs", "mem", "dma"}
Things == {"data", "ctx", "in_attrs", "out_attrs", "mem", "va", "fd", "heap_fd", "unmapped"}

\* At step s a model holds h and its members say f.
Owned(s, h, f) ==
    /\ \A r \in {"data", "in_attrs", "out_attrs"} : r \in h <=> (r \in f /\ s # "gone")
    /\ "mem" \in h <=> ("mem" \in f /\ s \notin {"free dma", "destroy ctx", "free", "gone"})
    /\ "mem" \in h => "ctx" \in h /\ "dma" \in f
    /\ "va" \in h <=> "dma" \in f
    /\ "fd" \in h <=> "dma" \in f
    /\ "heap_fd" \in h => "dma" \notin f /\ s \notin {"load", "context", "setup", "inputs", "dma"}
    /\ "unmapped" \in h => "heap_fd" \in h
    /\ s = "load" => f = {}
    /\ s \in {"load", "context", "setup", "inputs", "dma"} => "dma" \notin f
    /\ s \in {"load", "context", "setup", "inputs", "dma", "mem"} => "mem" \notin f
    /\ s \in {"setup", "inputs", "dma", "mem", "io", "outputs", "ready"} => "ctx" \in h
    /\ s \in {"dma", "mem", "io", "outputs", "ready"} => "in_attrs" \in f
    /\ s \in {"mem", "io", "outputs", "ready"} => "dma" \in f
    /\ s \in {"io", "outputs", "ready"} => "mem" \in f
    /\ s = "ready" => "out_attrs" \in f
    /\ s \in {"destroy ctx", "free", "gone"} => "dma" \notin f
    /\ "ctx" \in h <=> ("ctx" \in f /\ s \notin {"free", "gone"})
    /\ s = "load" => h = {}

\* What a model at step s, with members f, has at most released unheld: a ctx
\* that was never set, and that only in its destructor.
Unheld(s, f) == IF s \in {"free", "gone"} THEN {"ctx"} \ f ELSE {}

LifeInv ==
    /\ step \in [Model -> Steps]
    /\ held \in [Model -> SUBSET Things] /\ fields \in [Model -> SUBSET Members]
    /\ wrong \in [Model -> SUBSET {"ctx"}]
    /\ \A m \in Model : /\ Owned(step[m], held[m], fields[m])
                        /\ wrong[m] \subseteq Unheld(step[m], fields[m])

LEMMA Becoming ==
    ASSUME LifeInv, NEW m \in Model, NEW a \in Steps, L!Goto(m, a),
           NEW h \in SUBSET Things, NEW f \in SUBSET Members, Owned(a, h, f),
           NEW w \in SUBSET Unheld(a, f), wrong' = [wrong EXCEPT ![m] = w],
           held' = [held EXCEPT ![m] = h], fields' = [fields EXCEPT ![m] = f]
    PROVE  LifeInv'
<1>1. /\ step' = [step EXCEPT ![m] = a]
      /\ step' \in [Model -> Steps]
      /\ held' \in [Model -> SUBSET Things] /\ fields' \in [Model -> SUBSET Members]
      /\ wrong' \in [Model -> SUBSET {"ctx"}]
  BY DEF L!Goto, LifeInv, Unheld
<1>2. ASSUME NEW n \in Model
      PROVE  Owned(step'[n], held'[n], fields'[n]) /\ wrong'[n] \subseteq Unheld(step'[n], fields'[n])
  <2>1. CASE n = m
    BY <1>1, <2>1 DEF LifeInv
  <2>2. CASE n # m
    <3>1. /\ step'[n] = step[n] /\ held'[n] = held[n] /\ fields'[n] = fields[n]
          /\ wrong'[n] = wrong[n]
      BY <1>1, <2>2 DEF LifeInv
    <3>2. QED
      BY <3>1 DEF LifeInv
  <2>3. QED
    BY <2>1, <2>2
<1>3. QED
  BY <1>1, <1>2 DEF LifeInv

LEMMA Keeping ==
    ASSUME LifeInv, NEW m \in Model, NEW a \in Steps, L!Goto(m, a), L!Keep,
           wrong[m] = {}, Owned(a, held[m], fields[m])
    PROVE  LifeInv'
<1>1. /\ held' = [held EXCEPT ![m] = held[m]] /\ fields' = [fields EXCEPT ![m] = fields[m]]
      /\ wrong' = [wrong EXCEPT ![m] = {}] /\ {} \in SUBSET Unheld(a, fields[m])
      /\ held[m] \in SUBSET Things /\ fields[m] \in SUBSET Members
  BY DEF L!Keep, LifeInv
<1>2. QED
  BY <1>1, Becoming

LEMMA Gaining ==
    ASSUME LifeInv, NEW m \in Model, NEW a \in Steps, L!Goto(m, a),
           NEW R \in SUBSET Things, NEW S \in SUBSET Members, L!Gain(m, R, S),
           wrong[m] = {}, Owned(a, held[m] \union R, fields[m] \union S)
    PROVE  LifeInv'
<1>1. /\ held' = [held EXCEPT ![m] = held[m] \union R]
      /\ fields' = [fields EXCEPT ![m] = fields[m] \union S]
      /\ wrong' = [wrong EXCEPT ![m] = {}] /\ {} \in SUBSET Unheld(a, fields[m] \union S)
      /\ held[m] \union R \in SUBSET Things /\ fields[m] \union S \in SUBSET Members
  BY DEF L!Gain, LifeInv
<1>2. QED
  BY <1>1, Becoming

LEMMA Releasing ==
    ASSUME LifeInv, NEW m \in Model, NEW a \in Steps, L!Goto(m, a),
           NEW R, NEW S, L!Release(m, R, S),
           wrong[m] \union (R \ held[m]) \subseteq Unheld(a, fields[m] \ S),
           Owned(a, held[m] \ R, fields[m] \ S)
    PROVE  LifeInv'
<1>1. /\ held' = [held EXCEPT ![m] = held[m] \ R]
      /\ fields' = [fields EXCEPT ![m] = fields[m] \ S]
      /\ wrong' = [wrong EXCEPT ![m] = wrong[m] \union (R \ held[m])]
      /\ held[m] \ R \in SUBSET Things /\ fields[m] \ S \in SUBSET Members
  BY DEF L!Release, LifeInv
<1>2. QED
  BY <1>1, Becoming

LEMMA OwnedInit ==
    ASSUME LifeInv, NEW m \in Model, L!InitModel(m)
    PROVE  LifeInv'
<1> DEFINE s == step[m]  h == held[m]  f == fields[m]
<1>1. Owned(s, h, f) /\ wrong[m] = {}
  <2>1. s \notin {"free", "gone"}
    BY DEF L!InitModel, L!Load, L!Context, L!SetUp, L!InputAttrs, L!InputBuffer, L!InputMem,
           L!IoMem, L!OutputAttrs, L!At
  <2>2. QED
    BY <2>1 DEF LifeInv, Unheld
<1>2. \A a \in Steps, R \in SUBSET Things, S \in SUBSET Members :
        L!Goto(m, a) /\ L!Gain(m, R, S) /\ Owned(a, h \union R, f \union S) => LifeInv'
  BY <1>1, Gaining
<1>3. \A a \in Steps : L!Goto(m, a) /\ L!Keep /\ Owned(a, h, f) => LifeInv'
  BY <1>1, Keeping
<1>4. \A a \in Steps, R \in SUBSET h : \A S :
        L!Goto(m, a) /\ L!Release(m, R, S) /\ Owned(a, h \ R, f \ S) => LifeInv'
  <2>1. ASSUME NEW a \in Steps, NEW R \in SUBSET h, NEW S, L!Goto(m, a), L!Release(m, R, S),
               Owned(a, h \ R, f \ S)
        PROVE  LifeInv'
    <3>1. wrong[m] \union (R \ held[m]) \subseteq Unheld(a, fields[m] \ S)
      BY <1>1
    <3>2. QED
      BY <2>1, <3>1, Releasing
  <2>2. QED
    BY <2>1
<1> HIDE DEF s, h, f
<1>5. CASE L!Load(m)
  <2>1. s = "load" /\ L!Goto(m, "context") /\ (L!Keep \/ L!Gain(m, {"data"}, {"data"}))
    BY <1>5 DEF L!Load, L!At, s
  <2>2. Owned("context", h, f) /\ Owned("context", h \union {"data"}, f \union {"data"})
    BY <1>1, <2>1 DEF Owned
  <2>3. "context" \in Steps /\ {"data"} \in SUBSET Things /\ {"data"} \in SUBSET Members
    BY DEF Steps, Things, Members
  <2>4. QED
    BY <1>2, <1>3, <2>1, <2>2, <2>3
<1>6. CASE L!Context(m)
  <2>1. /\ s = "context"
        /\ \/ L!Goto(m, "setup") /\ L!Gain(m, {"ctx"}, {"ctx"})
           \/ L!Goto(m, "failed") /\ L!Keep
    BY <1>6 DEF L!Context, L!At, L!Fail, s
  <2>2. Owned("setup", h \union {"ctx"}, f \union {"ctx"}) /\ Owned("failed", h, f)
    BY <1>1, <2>1 DEF Owned
  <2>3. /\ "setup" \in Steps /\ "failed" \in Steps /\ {"ctx"} \in SUBSET Things
        /\ {"ctx"} \in SUBSET Members
    BY DEF Steps, Things, Members
  <2>4. QED
    BY <1>2, <1>3, <2>1, <2>2, <2>3
<1>7. CASE L!SetUp(m)
  <2>1. s = "setup" /\ L!Keep /\ (L!Goto(m, "inputs") \/ L!Goto(m, "failed"))
    BY <1>7 DEF L!SetUp, L!At, L!Fail, s
  <2>2. Owned("inputs", h, f) /\ Owned("failed", h, f)
    BY <1>1, <2>1 DEF Owned
  <2>3. "inputs" \in Steps /\ "failed" \in Steps
    BY DEF Steps
  <2>4. QED
    BY <1>3, <2>1, <2>2, <2>3
<1>8. CASE L!InputAttrs(m)
  <2>1. /\ s = "inputs" /\ L!Gain(m, {"in_attrs"}, {"in_attrs"})
        /\ L!Goto(m, "dma") \/ L!Goto(m, "failed")
    BY <1>8 DEF L!InputAttrs, L!At, L!Fail, s
  <2>2. /\ Owned("dma", h \union {"in_attrs"}, f \union {"in_attrs"})
        /\ Owned("failed", h \union {"in_attrs"}, f \union {"in_attrs"})
    BY <1>1, <2>1 DEF Owned
  <2>3. /\ "dma" \in Steps /\ "failed" \in Steps
        /\ {"in_attrs"} \in SUBSET Things /\ {"in_attrs"} \in SUBSET Members
    BY DEF Steps, Things, Members
  <2>4. QED
    BY <1>2, <2>1, <2>2, <2>3
<1>9. CASE L!InputBuffer(m)
  <2>1. /\ s = "dma"
        /\ \/ L!Goto(m, "mem") /\ L!Gain(m, {"va", "fd"}, {"dma"})
           \/ /\ L!Goto(m, "failed")
              /\ \E left \in {{}, {"heap_fd"}, {"heap_fd", "unmapped"}} : L!Gain(m, left, {})
    BY <1>9 DEF L!InputBuffer, L!At, L!Fail, L!Buffer, L!FailedAllocLeaves, s
  <2>2. /\ Owned("mem", h \union {"va", "fd"}, f \union {"dma"})
        /\ Owned("failed", h \union {}, f \union {})
        /\ Owned("failed", h \union {"heap_fd"}, f \union {})
        /\ Owned("failed", h \union {"heap_fd", "unmapped"}, f \union {})
    BY <1>1, <2>1 DEF Owned
  <2>3. /\ "mem" \in Steps /\ "failed" \in Steps
        /\ {"va", "fd"} \in SUBSET Things /\ {} \in SUBSET Things
        /\ {"heap_fd"} \in SUBSET Things /\ {"heap_fd", "unmapped"} \in SUBSET Things
        /\ {"dma"} \in SUBSET Members /\ {} \in SUBSET Members
    BY DEF Steps, Things, Members
  <2>4. QED
    BY <1>2, <2>1, <2>2, <2>3
<1>10. CASE L!InputMem(m)
  <2>1. /\ s = "mem"
        /\ \/ L!Goto(m, "io") /\ L!Gain(m, {"mem"}, {"mem"})
           \/ L!Goto(m, "failed") /\ L!Release(m, {"va", "fd"}, {"dma"})
    BY <1>10 DEF L!InputMem, L!At, L!Fail, L!Buffer, s
  <2>2. /\ Owned("io", h \union {"mem"}, f \union {"mem"})
        /\ Owned("failed", h \ {"va", "fd"}, f \ {"dma"})
    BY <1>1, <2>1 DEF Owned
  <2>3. {"va", "fd"} \in SUBSET h
    BY <1>1, <2>1 DEF Owned
  <2>4. /\ "io" \in Steps /\ "failed" \in Steps
        /\ {"mem"} \in SUBSET Things /\ {"mem"} \in SUBSET Members
    BY DEF Steps, Things, Members
  <2>5. QED
    BY <1>2, <1>4, <2>1, <2>2, <2>3, <2>4
<1>11. CASE L!IoMem(m)
  <2>1. /\ s = "io"
        /\ \/ L!Goto(m, "outputs") /\ L!Keep
           \/ L!Goto(m, "failed") /\ L!Release(m, {"mem"} \union {"va", "fd"}, {"mem", "dma"})
    BY <1>11 DEF L!IoMem, L!At, L!Fail, L!Buffer, s
  <2>2. /\ Owned("outputs", h, f)
        /\ Owned("failed", h \ ({"mem"} \union {"va", "fd"}), f \ {"mem", "dma"})
    BY <1>1, <2>1 DEF Owned
  <2>3. {"mem"} \union {"va", "fd"} \in SUBSET h
    BY <1>1, <2>1 DEF Owned
  <2>4. "outputs" \in Steps /\ "failed" \in Steps
    BY DEF Steps
  <2>5. QED
    BY <1>3, <1>4, <2>1, <2>2, <2>3, <2>4
<1>12. CASE L!OutputAttrs(m)
  <2>1. s = "outputs" /\ L!Goto(m, "ready") /\ L!Gain(m, {"out_attrs"}, {"out_attrs"})
    BY <1>12 DEF L!OutputAttrs, L!At, s
  <2>2. Owned("ready", h \union {"out_attrs"}, f \union {"out_attrs"})
    BY <1>1, <2>1 DEF Owned
  <2>3. "ready" \in Steps /\ {"out_attrs"} \in SUBSET Things /\ {"out_attrs"} \in SUBSET Members
    BY DEF Steps, Things, Members
  <2>4. QED
    BY <1>2, <2>1, <2>2, <2>3
<1>13. QED
  BY <1>5, <1>6, <1>7, <1>8, <1>9, <1>10, <1>11, <1>12 DEF L!InitModel

LEMMA OwnedDestroy ==
    ASSUME LifeInv, NEW m \in Model, L!DestroyMembers(m)
    PROVE  LifeInv'
<1> DEFINE s == step[m]  h == held[m]  f == fields[m]
<1>1. Owned(s, h, f) /\ wrong[m] \subseteq Unheld(s, f)
  BY DEF LifeInv
<1>2. \A a \in Steps : L!Goto(m, a) /\ L!Keep /\ wrong[m] = {} /\ Owned(a, h, f) => LifeInv'
  BY Keeping
<1>3. \A a \in Steps : \A R, S :
        /\ L!Goto(m, a) /\ L!Release(m, R, S) /\ Owned(a, h \ R, f \ S)
        /\ wrong[m] \union (R \ h) \subseteq Unheld(a, f \ S)
        => LifeInv'
  BY Releasing
<1>4. {"free dma", "destroy ctx", "free", "gone"} \subseteq Steps
  BY DEF Steps
<1> HIDE DEF s, h, f
<1>5. CASE L!DestroyMem(m)
  <2>1. /\ s \in {"load", "ready", "failed"} /\ L!Goto(m, "free dma")
        /\ \/ "mem" \in f /\ L!Release(m, {"mem"}, {})
           \/ "mem" \notin f /\ L!Keep
    BY <1>5 DEF L!DestroyMem, s, f
  <2>2. /\ wrong[m] = {}
        /\ "mem" \in f => Owned("free dma", h \ {"mem"}, f \ {}) /\ {"mem"} \in SUBSET h
        /\ "mem" \notin f => Owned("free dma", h, f)
    BY <1>1, <2>1 DEF Owned, Unheld
  <2>3. QED
    BY <1>2, <1>3, <1>4, <2>1, <2>2
<1>6. CASE L!FreeDma(m)
  <2>1. /\ s = "free dma" /\ L!Goto(m, "destroy ctx")
        /\ \/ "dma" \in f /\ L!Release(m, {"va", "fd"}, {"dma"})
           \/ "dma" \notin f /\ L!Keep
    BY <1>6 DEF L!FreeDma, L!At, L!Buffer, s, f
  <2>2. /\ wrong[m] = {}
        /\ "dma" \in f => Owned("destroy ctx", h \ {"va", "fd"}, f \ {"dma"})
                          /\ {"va", "fd"} \in SUBSET h
        /\ "dma" \notin f => Owned("destroy ctx", h, f)
    BY <1>1, <2>1 DEF Owned, Unheld
  <2>3. QED
    BY <1>2, <1>3, <1>4, <2>1, <2>2
<1>7. CASE L!DestroyContext(m)
  <2>1. s = "destroy ctx" /\ L!Goto(m, "free") /\ L!Release(m, {"ctx"}, {})
    BY <1>7 DEF L!DestroyContext, L!At, s
  <2>2. Owned("free", h \ {"ctx"}, f \ {})
    BY <1>1, <2>1 DEF Owned
  <2>3. wrong[m] \union ({"ctx"} \ h) \subseteq Unheld("free", f \ {})
    BY <1>1, <2>1 DEF Owned, Unheld
  <2>4. QED
    BY <1>3, <1>4, <2>1, <2>2, <2>3
<1>8. CASE L!FreeRest(m)
  <2> DEFINE R == {"data", "in_attrs", "out_attrs"} \intersect f
  <2>1. s = "free" /\ L!Goto(m, "gone") /\ L!Release(m, R, {})
    BY <1>8 DEF L!FreeRest, L!At, s, f
  <2>2. Owned("gone", h \ R, f \ {})
    BY <1>1, <2>1 DEF Owned
  <2>3. wrong[m] \union (R \ h) \subseteq Unheld("gone", f \ {})
    BY <1>1, <2>1 DEF Owned, Unheld
  <2>4. QED
    BY <1>3, <1>4, <2>1, <2>2, <2>3
<1>9. QED
  BY <1>5, <1>6, <1>7, <1>8 DEF L!DestroyMembers

LEMMA LifeStep ==
    ASSUME LifeInv, [Next]_vars
    PROVE  LifeInv'
<1>1. CASE UNCHANGED life
  BY <1>1 DEF life, LifeInv
<1>2. CASE OutOfMemory
  <2>1. /\ \A m \in Model : step[m] = "load"
        /\ UNCHANGED <<held, fields, wrong>>
        /\ step' \in [Model -> {"load", "gone"}]
    BY <1>2 DEF OutOfMemory
  <2>2. ASSUME NEW m \in Model
        PROVE  Owned(step'[m], held'[m], fields'[m]) /\ wrong'[m] \subseteq Unheld(step'[m], fields'[m])
    <3>1. /\ held[m] = {} /\ fields[m] = {} /\ step'[m] \in {"load", "gone"}
          /\ wrong[m] = {}
      BY <2>1 DEF LifeInv, Owned, Unheld
    <3>2. QED
      BY <2>1, <3>1 DEF Owned
  <2>3. QED
    BY <2>1, <2>2 DEF LifeInv, Steps
<1>3. CASE InitModels
  BY <1>3, OwnedInit DEF InitModels
<1>4. CASE \E m \in Model : FreeMembers(m)
  BY <1>4, OwnedDestroy DEF FreeMembers
<1>5. CASE InitDone \/ Get \/ CloseChannels \/ Drain \/ ModelsGone \/ JoinWorkers
           \/ \E m \in Model : DropModel(m) \/ CheckLabels(m) \/ FreeLabels(m)
  BY <1>1, <1>5 DEF InitDone, Get, CloseChannels, Drain, ModelsGone, JoinWorkers, DropModel,
                    CheckLabels, FreeLabels, owners
<1>6. CASE \E f \in Frame : Choose(f) \/ Submit(f) \/ Infer(f)
  BY <1>1, <1>6 DEF Choose, Submit, Infer, Start, Lock, Copy, Run, Post, Load, Flag, Names,
                    Crash, Push, Unwind, AfterDestroy, owners
<1>7. QED
  BY <1>1, <1>2, <1>3, <1>4, <1>5, <1>6 DEF Next, Teardown, vars, owners

-----------------------------------------------------------------------------
(* Tasks and teardown *)

\* A task is owed from put to the push of its result.
InUse == Inside \union {"lock", "push"}
Owing == InUse \union {"counted", "queued"}

Queued ==
    /\ queue \in Seq(Frame)
    /\ \A i \in DOMAIN queue : fpc[queue[i]] = "queued"
    /\ \A i, j \in DOMAIN queue : queue[i] = queue[j] => i = j

Counted ==
    /\ completed \in Seq(Frame)
    /\ pending = Cardinality(In(Owing)) + Len(completed)

Untouched == models = Model /\ \A m \in Model : step[m] = "ready"

\* Where main is tells what tasks there are and what models.
Phases ==
    /\ main \in {"init", "run", "crashed", "drain", "models", "pool", "end"}
    /\ main = "init" => models = Model /\ \A f \in Frame : fpc[f] = "new"
    /\ main \in {"init", "run", "crashed", "drain"} => \A m \in Model : dtor[m] = "no"
    /\ main \in {"run", "crashed"} => Untouched
    /\ main = "drain" => Untouched \/ \A f \in Frame : fpc[f] = "new"
    /\ main \in {"models", "pool", "end"} => In(Owing) = {}

\* A model nobody refers to any more is being destroyed or gone.
Disowned ==
    /\ models \subseteq Model /\ DOMAIN dtor = Model
    /\ \A m \in Model \ models : Holders(m) = {} => dtor[m] # "no" \/ step[m] = "gone"
    /\ main \in {"pool", "end"} =>
         /\ models = {}
         /\ \A m \in Model : Holders(m) = {} => step[m] = "gone"
    /\ main = "end" => In(Executing) = {}

TInv == MInv /\ LifeInv /\ Queued /\ Counted /\ Phases /\ Disowned

LEMMA Moved ==
    ASSUME Typed, NEW f \in Frame, NEW to, fpc' = [fpc EXCEPT ![f] = to], NEW S
    PROVE  /\ \A g \in Frame : fpc'[g] = IF g = f THEN to ELSE fpc[g]
           /\ In(S)' = IF to \in S THEN In(S) \union {f} ELSE In(S) \ {f}
<1>1. \A g \in Frame : fpc'[g] = IF g = f THEN to ELSE fpc[g]
  BY DEF Typed
<1>2. QED
  BY <1>1 DEF In

\* In the model a task only goes on: nothing that is counted here changes.
Working(f) ==
    /\ fpc[f] \in InUse
    /\ \E to \in InUse : Go(f, to)
    /\ UNCHANGED <<model, queue, results, owners>>

LEMMA Works ==
    ASSUME NEW f \in Frame,
           Lock(f) \/ Copy(f) \/ Run(f) \/ Post(f) \/ Load(f) \/ Flag(f) \/ Names(f)
    PROVE  Working(f)
BY DEF Lock, Copy, Run, Post, Load, Flag, Names, Working, InUse, Inside, Go

\* A task whose result has been pushed is not owed.
LEMMA NotOwed ==
    ASSUME Typed, NEW f \in Frame, fpc[f] = "unwind",
           UNCHANGED fpc \/ fpc' = [fpc EXCEPT ![f] = "gone"]
    PROVE  In(Owing)' = In(Owing)
<1>1. "unwind" \notin Owing /\ "gone" \notin Owing
  BY DEF Owing, InUse, Inside
<1>2. \A g \in Frame : fpc'[g] = fpc[g] \/ (fpc[g] = "unwind" /\ fpc'[g] = "gone")
  BY DEF Typed
<1>3. \A g \in Frame : fpc'[g] \in Owing <=> fpc[g] \in Owing
  BY <1>1, <1>2
<1>4. QED
  BY <1>3 DEF In

LEMMA OwingFinite ==
    /\ IsFiniteSet(In(Owing)) /\ Cardinality(In(Owing)) \in Nat
    /\ IsFiniteSet(In(Owing)') /\ Cardinality(In(Owing)') \in Nat
<1>1. IsFiniteSet(Frame)
  BY FS_Interval, ModelPoolAssumption DEF Frame
<1>2. In(Owing) \in SUBSET Frame /\ In(Owing)' \in SUBSET Frame
  BY DEF In
<1>3. IsFiniteSet(In(Owing)) /\ IsFiniteSet(In(Owing)')
  BY <1>1, <1>2, FS_Subset
<1>4. QED
  BY <1>3, FS_CardinalityType

-----------------------------------------------------------------------------
(* The queue and the counter *)

LEMMA QueuedStep ==
    ASSUME TInv, [Next]_vars
    PROVE  Queued'
<1>0. Queued /\ Typed
  BY DEF TInv, MInv
<1>1. CASE UNCHANGED <<queue, fpc>>
  BY <1>0, <1>1 DEF Queued
<1>2. ASSUME NEW f \in Frame, NEW to, Go(f, to), fpc[f] # "queued", UNCHANGED queue
      PROVE  Queued'
  <2>1. \A g \in Frame : fpc[g] = "queued" => fpc'[g] = "queued"
    BY <1>0, <1>2, Moved DEF Go
  <2>2. \A i \in DOMAIN queue : queue[i] \in Frame
    BY <1>0 DEF Queued
  <2>3. QED
    BY <1>0, <1>2, <2>1, <2>2 DEF Queued
<1>3. ASSUME NEW f \in Frame, Submit(f)
      PROVE  Queued'
  <2>1. /\ fpc[f] = "counted" /\ fpc' = [fpc EXCEPT ![f] = "queued"] /\ queue' = Append(queue, f)
    BY <1>3 DEF Submit, Go
  <2>2. \A g \in Frame : fpc'[g] = IF g = f THEN "queued" ELSE fpc[g]
    BY <1>0, <2>1, Moved
  <2>3. /\ queue \in Seq(Frame) /\ queue' \in Seq(Frame)
        /\ Len(queue) \in Nat /\ DOMAIN queue = 1 .. Len(queue)
        /\ DOMAIN queue' = 1 .. Len(queue) + 1
        /\ \A i \in 1 .. Len(queue) : queue'[i] = queue[i] /\ queue[i] \in Frame
        /\ queue'[Len(queue) + 1] = f
    BY <1>0, <2>1 DEF Queued
  <2>4. \A i \in 1 .. Len(queue) : fpc[queue[i]] = "queued" /\ queue[i] # f
    BY <1>0, <2>1, <2>3 DEF Queued
  <2>5. \A i \in DOMAIN queue' : i \in 1 .. Len(queue) \/ i = Len(queue) + 1
    BY <2>3
  <2>6. \A i \in DOMAIN queue' : fpc'[queue'[i]] = "queued"
    BY <2>2, <2>3, <2>4, <2>5
  <2>7. \A i, j \in DOMAIN queue' : queue'[i] = queue'[j] => i = j
    BY <1>0, <2>3, <2>4, <2>5 DEF Queued
  <2>8. QED
    BY <2>3, <2>6, <2>7 DEF Queued
<1>4. ASSUME NEW f \in Frame, Start(f)
      PROVE  Queued'
  <2>1. /\ queue # <<>> /\ f = Head(queue) /\ fpc' = [fpc EXCEPT ![f] = "lock"]
        /\ queue' = Tail(queue)
    BY <1>4 DEF Start, Go
  <2>2. \A g \in Frame : fpc'[g] = IF g = f THEN "lock" ELSE fpc[g]
    BY <1>0, <2>1, Moved
  <2>3. /\ queue \in Seq(Frame) /\ queue' \in Seq(Frame)
        /\ Len(queue) \in Nat /\ Len(queue) > 0 /\ DOMAIN queue = 1 .. Len(queue)
        /\ DOMAIN queue' = 1 .. Len(queue) - 1 /\ f = queue[1]
        /\ \A i \in 1 .. Len(queue) - 1 : queue'[i] = queue[i + 1]
        /\ \A i \in 1 .. Len(queue) : queue[i] \in Frame
    BY <1>0, <2>1 DEF Queued
  <2>4. \A i \in DOMAIN queue' : i + 1 \in DOMAIN queue /\ i + 1 # 1 /\ queue'[i] = queue[i + 1]
    BY <2>3
  <2>5. \A i \in DOMAIN queue' : queue'[i] # f /\ queue'[i] \in Frame
    BY <1>0, <2>3, <2>4 DEF Queued
  <2>6. \A i \in DOMAIN queue' : fpc'[queue'[i]] = "queued"
    BY <1>0, <2>2, <2>4, <2>5 DEF Queued
  <2>7. \A i, j \in DOMAIN queue' : queue'[i] = queue'[j] => i = j
    <3>1. \A i, j \in DOMAIN queue' : queue'[i] = queue'[j] => i + 1 = j + 1
      BY <1>0, <2>4 DEF Queued
    <3>2. QED
      BY <2>3, <3>1
  <2>8. QED
    BY <2>3, <2>6, <2>7 DEF Queued
<1>5. ASSUME NEW f \in Frame, Working(f)
      PROVE  Queued'
  BY <1>2, <1>5 DEF Working, InUse, Inside
<1>6. ASSUME NEW f \in Frame, Choose(f) \/ Push(f) \/ Unwind(f) \/ AfterDestroy(f)
      PROVE  Queued'
  BY <1>1, <1>2, <1>6 DEF Choose, Push, Unwind, AfterDestroy
<1>7. CASE OutOfMemory \/ InitModels \/ InitDone \/ Get \/ Teardown \/ UNCHANGED vars
           \/ \E f \in Frame : Crash(f)
  BY <1>1, <1>7 DEF OutOfMemory, InitModels, InitDone, Get, Teardown, CloseChannels, Drain,
       ModelsGone, JoinWorkers, DropModel, CheckLabels, FreeLabels, FreeMembers, Crash, vars, tasks
<1>8. QED
  BY <1>3, <1>4, <1>5, <1>6, <1>7, Works DEF Next, Infer

\* pending_count is exact, so that 0 means no task is owed.
LEMMA CountedStep ==
    ASSUME TInv, [Next]_vars
    PROVE  Counted'
<1>0. Counted /\ Typed /\ Queued /\ Len(completed) \in Nat
  BY DEF TInv, MInv, Counted
<1> DEFINE N == Cardinality(In(Owing))
<1>1. N \in Nat /\ IsFiniteSet(In(Owing))
  BY OwingFinite
<1>2. CASE UNCHANGED <<completed, pending, In(Owing)>>
  BY <1>0, <1>2 DEF Counted
<1>3. ASSUME NEW f \in Frame, NEW to \in Owing, Go(f, to), fpc[f] \in Owing
      PROVE  In(Owing)' = In(Owing)
  BY <1>0, <1>3, Moved DEF Go, In
<1>4. ASSUME NEW f \in Frame, Choose(f)
      PROVE  Counted'
  <2>1. /\ fpc[f] = "new" /\ fpc' = [fpc EXCEPT ![f] = "counted"]
        /\ pending' = pending + 1 /\ UNCHANGED completed
    BY <1>4 DEF Choose, Go
  <2>2. In(Owing)' = In(Owing) \union {f} /\ f \notin In(Owing)
    <3>1. "counted" \in Owing /\ "new" \notin Owing
      BY DEF Owing, InUse, Inside
    <3>2. In(Owing)' = In(Owing) \union {f}
      BY <1>0, <2>1, <3>1, Moved
    <3>3. f \notin In(Owing)
      BY <2>1, <3>1 DEF In
    <3>4. QED
      BY <3>2, <3>3
  <2>3. Cardinality(In(Owing)') = N + 1
    BY <1>1, <2>2, FS_AddElement
  <2>4. QED
    BY <1>0, <1>1, <2>1, <2>3 DEF Counted
<1>5. ASSUME NEW f \in Frame, Push(f)
      PROVE  Counted'
  <2>1. /\ fpc[f] = "push" /\ fpc' = [fpc EXCEPT ![f] = "unwind"]
        /\ UNCHANGED pending /\ completed' = Append(completed, f)
    BY <1>5 DEF Push, Go
  <2>2. In(Owing)' = In(Owing) \ {f} /\ f \in In(Owing)
    <3>1. "push" \in Owing /\ "unwind" \notin Owing
      BY DEF Owing, InUse, Inside
    <3>2. In(Owing)' = In(Owing) \ {f}
      BY <1>0, <2>1, <3>1, Moved
    <3>3. f \in In(Owing)
      BY <2>1, <3>1 DEF In
    <3>4. QED
      BY <3>2, <3>3
  <2>3. Cardinality(In(Owing)') = N - 1
    BY <1>1, <2>2, FS_RemoveElement
  <2>4. completed' \in Seq(Frame) /\ Len(completed') = Len(completed) + 1
    BY <1>0, <2>1 DEF Counted
  <2>5. QED
    BY <1>0, <1>1, <2>1, <2>3, <2>4 DEF Counted
<1>6. CASE Get
  <2>1. /\ completed # <<>> /\ completed' = Tail(completed) /\ pending' = pending - 1
        /\ UNCHANGED fpc
    BY <1>6 DEF Get, tasks
  <2>2. completed' \in Seq(Frame) /\ Len(completed') = Len(completed) - 1
    BY <1>0, <2>1 DEF Counted
  <2>3. In(Owing)' = In(Owing)
    BY <2>1 DEF In
  <2>4. QED
    BY <1>0, <1>1, <2>1, <2>2, <2>3 DEF Counted
<1>7. ASSUME NEW f \in Frame, Submit(f) \/ Start(f) \/ Working(f)
      PROVE  Counted'
  <2>1. UNCHANGED <<completed, pending>>
    BY <1>7 DEF Submit, Start, Working, results
  <2>2. Start(f) => fpc[f] = "queued"
    BY <1>0 DEF Start, Queued
  <2>3. fpc[f] \in Owing /\ \E to \in Owing : Go(f, to)
    BY <1>7, <2>2 DEF Submit, Start, Working, Owing, InUse
  <2>4. QED
    BY <1>2, <1>3, <2>1, <2>3
<1>8. ASSUME NEW f \in Frame, Unwind(f) \/ AfterDestroy(f)
      PROVE  Counted'
  <2>1. UNCHANGED <<completed, pending>> /\ fpc[f] = "unwind"
    BY <1>8 DEF Unwind, AfterDestroy, results
  <2>2. UNCHANGED fpc \/ fpc' = [fpc EXCEPT ![f] = "gone"]
    BY <1>8 DEF Unwind, AfterDestroy, Go
  <2>3. In(Owing)' = In(Owing)
    BY <1>0, <2>1, <2>2, NotOwed
  <2>4. QED
    BY <1>2, <2>1, <2>3
<1>9. CASE OutOfMemory \/ InitModels \/ InitDone \/ Teardown \/ UNCHANGED vars
           \/ \E f \in Frame : Crash(f)
  <2>1. UNCHANGED <<fpc, completed, pending>>
    BY <1>9 DEF OutOfMemory, InitModels, InitDone, Teardown, CloseChannels, Drain,
         ModelsGone, JoinWorkers, DropModel, CheckLabels, FreeLabels, FreeMembers, Crash, vars,
         tasks, results
  <2>2. QED
    BY <1>2, <2>1 DEF In
<1>10. QED
  BY <1>4, <1>5, <1>6, <1>7, <1>8, <1>9, Works DEF Next, Infer

-----------------------------------------------------------------------------
(* main *)

LEMMA PhasesStep ==
    ASSUME TInv, [Next]_vars
    PROVE  Phases'
<1>0. Phases /\ Typed /\ LifeInv /\ Disowned /\ Queued /\ Counted
  BY DEF TInv, MInv
<1>1. ASSUME UNCHANGED <<fpc, main, models, dtor, step>>
      PROVE  Phases'
  BY <1>0, <1>1 DEF Phases, Untouched, In
<1>2. ASSUME NEW f \in Frame, Choose(f)
      PROVE  Phases'
  <2>1. main = "run" /\ UNCHANGED <<main, models, dtor, step>>
    BY <1>2 DEF Choose, owners, life
  <2>2. QED
    BY <1>0, <2>1 DEF Phases, Untouched
<1>3. ASSUME NEW f \in Frame,
             Submit(f) \/ Start(f) \/ Working(f) \/ Push(f) \/ AfterDestroy(f)
      PROVE  Phases'
  <2>1. UNCHANGED <<main, models, dtor, step>> /\ \E to : Go(f, to) /\ to # "new"
                                                 /\ (to \in Owing => fpc[f] \in Owing)
    BY <1>0, <1>3 DEF Submit, Start, Working, Push, AfterDestroy, owners, life, Owing, InUse,
                      Inside, Queued
  <2>2. PICK to : fpc' = [fpc EXCEPT ![f] = to] /\ to # "new" /\ (to \in Owing => fpc[f] \in Owing)
    BY <2>1 DEF Go
  <2>3. fpc[f] # "new"
    BY <1>0, <1>3 DEF Submit, Start, Working, Push, AfterDestroy, InUse, Inside, Queued
  <2>4. In(Owing)' \subseteq In(Owing)
    BY <1>0, <2>2, Moved DEF In
  <2>5. QED
    BY <1>0, <2>1, <2>3, <2>4 DEF Phases, Untouched
<1>4. ASSUME NEW f \in Frame, Unwind(f)
      PROVE  Phases'
  <2>1. /\ fpc[f] = "unwind" /\ UNCHANGED <<main, models, step>>
        /\ UNCHANGED fpc \/ fpc' = [fpc EXCEPT ![f] = "gone"]
        /\ UNCHANGED dtor \/ model[f] \notin models
    BY <1>4 DEF Unwind, Go, life, LastHolder
  <2>2. model[f] \in Model
    BY <1>0 DEF Typed
  <2>3. In(Owing)' = In(Owing)
    BY <1>0, <2>1, NotOwed
  <2>4. UNCHANGED dtor \/ main \notin {"init", "run", "crashed", "drain"}
    BY <1>0, <2>1, <2>2 DEF Phases, Untouched
  <2>5. main = "drain" => Untouched
    BY <1>0, <2>1 DEF Phases
  <2>6. QED
    BY <1>0, <2>1, <2>3, <2>4, <2>5 DEF Phases, Untouched
<1>5. ASSUME NEW f \in Frame, Crash(f)
      PROVE  Phases'
  <2>1. fpc[f] = "names" /\ main' = "crashed" /\ UNCHANGED <<fpc, models, dtor, step>>
    BY <1>5 DEF Crash, tasks, life
  <2>2. main \in {"run", "crashed", "drain"} /\ Untouched
    BY <1>0, <2>1 DEF Phases, In, Owing, InUse, Inside
  <2>3. QED
    BY <1>0, <2>1, <2>2 DEF Phases, Untouched
<1>6. CASE OutOfMemory
  <2>1. main = "init" /\ main' = "drain" /\ UNCHANGED <<fpc, dtor>>
    BY <1>6 DEF OutOfMemory, tasks
  <2>2. QED
    BY <1>0, <2>1 DEF Phases
<1>7. CASE InitModels
  <2>1. main = "init" /\ UNCHANGED <<fpc, main, models, dtor>>
    BY <1>7 DEF InitModels, tasks
  <2>2. QED
    BY <1>0, <2>1 DEF Phases
<1>8. CASE InitDone
  <2>1. /\ main = "init" /\ UNCHANGED <<fpc, models, dtor, step>>
        /\ \/ main' = "drain"
           \/ main' = "run" /\ \A m \in Model : step[m] = "ready"
    BY <1>8 DEF InitDone, tasks, life, Ready
  <2>2. QED
    BY <1>0, <2>1 DEF Phases, Untouched
<1>9. CASE Get
  BY <1>1, <1>9 DEF Get, tasks, owners, life
<1>10. CASE CloseChannels
  <2>1. main = "run" /\ main' = "drain" /\ UNCHANGED <<fpc, models, dtor, step>>
    BY <1>10 DEF CloseChannels, tasks, life
  <2>2. QED
    BY <1>0, <2>1 DEF Phases, Untouched
<1>11. CASE Drain
  <2>1. main' = "models" /\ pending = 0 /\ UNCHANGED fpc
    BY <1>11 DEF Drain, tasks
  <2>2. Cardinality(In(Owing)) = 0
    <3>1. Len(completed) \in Nat /\ Cardinality(In(Owing)) \in Nat
      BY <1>0, OwingFinite DEF Counted
    <3>2. QED
      BY <1>0, <2>1, <3>1 DEF Counted
  <2>3. In(Owing) = {}
    BY <2>2, OwingFinite, FS_EmptySet
  <2>4. QED
    BY <2>1, <2>3 DEF Phases, In
<1>12. CASE ModelsGone \/ JoinWorkers \/ \E m \in Model : DropModel(m)
  <2>1. main \in {"models", "pool"} /\ main' \in {"models", "pool", "end"} /\ UNCHANGED fpc
    BY <1>12 DEF ModelsGone, JoinWorkers, DropModel, tasks
  <2>2. QED
    BY <1>0, <2>1 DEF Phases, In
<1>13. ASSUME NEW m \in Model, CheckLabels(m) \/ FreeLabels(m) \/ FreeMembers(m)
       PROVE  Phases'
  <2>1. dtor[m] # "no" /\ UNCHANGED <<fpc, main>>
    BY <1>13 DEF CheckLabels, FreeLabels, FreeMembers, tasks
  <2>2. main \in {"models", "pool", "end"}
    BY <1>0, <2>1 DEF Phases
  <2>3. QED
    BY <1>0, <2>1, <2>2 DEF Phases, In
<1>14. CASE UNCHANGED vars
  BY <1>1, <1>14 DEF vars, tasks, owners, life
<1>15. QED
  BY <1>2, <1>3, <1>4, <1>5, <1>6, <1>7, <1>8, <1>9, <1>10, <1>11, <1>12, <1>13, <1>14, Works
     DEF Next, Infer, Teardown

-----------------------------------------------------------------------------
(* Who destroys which model *)

Held == Executing \union {"counted", "queued"}

LEMMA HoldersOf == \A m : Holders(m) = {f \in Frame : fpc[f] \in Held /\ model[f] = m}
BY DEF Holders, Held, In

LEMMA HoldersNext ==
    \A m : Holders(m)' = {f \in Frame : fpc'[f] \in Held /\ model'[f] = m}
BY DEF Holders, Held, In

\* A step that lets nobody go of a model, destroys nothing and moves main no
\* further keeps every model accounted for.
LEMMA StillHeld ==
    ASSUME Disowned, UNCHANGED <<main, models>>, DOMAIN dtor' = Model,
           \A m \in Model : (dtor'[m] = "no" => dtor[m] = "no")
                            /\ (step[m] = "gone" => step'[m] = "gone"),
           \A m \in Model : Holders(m)' = {} => Holders(m) = {} \/ step[m] = "gone"
                                                \/ m \in models,
           main = "end" => In(Executing)' \subseteq In(Executing)
    PROVE  Disowned'
<1>1. ASSUME NEW m \in Model \ models', Holders(m)' = {}
      PROVE  dtor'[m] # "no" \/ step'[m] = "gone"
  BY <1>1 DEF Disowned
<1>2. ASSUME main' \in {"pool", "end"}, NEW m \in Model, Holders(m)' = {}
      PROVE  step'[m] = "gone"
  BY <1>2 DEF Disowned
<1>3. QED
  BY <1>1, <1>2 DEF Disowned

LEMMA SameHolders ==
    ASSUME UNCHANGED <<fpc, model>>
    PROVE  (\A m : Holders(m)' = Holders(m)) /\ In(Executing)' = In(Executing)
BY DEF Holders, In

LEMMA DestroyGoes ==
    ASSUME LifeInv, NEW n \in Model, FreeMembers(n)
    PROVE  \A m \in Model : step[m] = "gone" => step'[m] = "gone"
<1>1. step[n] # "gone" /\ \E a : step' = [step EXCEPT ![n] = a]
  BY DEF FreeMembers, L!DestroyMembers, L!DestroyMem, L!FreeDma, L!DestroyContext, L!FreeRest,
         L!Goto, L!At
<1>2. QED
  BY <1>1 DEF LifeInv

LEMMA DisownedStep ==
    ASSUME TInv, [Next]_vars
    PROVE  Disowned'
<1>0. /\ Phases /\ Typed /\ LifeInv /\ Disowned /\ Queued /\ models \subseteq Model
      /\ DOMAIN dtor = Model
  BY DEF TInv, MInv, Disowned
<1>1. ASSUME NEW f \in Frame, Choose(f)
      PROVE  Disowned'
  <2>1. main = "run" /\ UNCHANGED <<main, models, dtor, step>>
    BY <1>1 DEF Choose, owners, life
  <2>2. models = Model
    BY <1>0, <2>1 DEF Phases, Untouched
  <2>3. QED
    BY <1>0, <2>1, <2>2 DEF Disowned
<1>2. ASSUME NEW f \in Frame, Submit(f) \/ Start(f) \/ Working(f) \/ Push(f)
      PROVE  Disowned'
  <2>1. /\ UNCHANGED <<main, models, dtor, step, model>> /\ fpc[f] \in Owing
        /\ \E to \in Held : Go(f, to)
    BY <1>0, <1>2 DEF Submit, Start, Working, Push, owners, life, Owing, InUse, Held, Executing,
                      Inside, Queued
  <2>2. PICK to \in Held : fpc' = [fpc EXCEPT ![f] = to]
    BY <2>1 DEF Go
  <2>3. \A g \in Frame : fpc[g] \in Held => fpc'[g] \in Held
    BY <1>0, <2>2, Moved
  <2>4. \A m \in Model : Holders(m)' = {} => Holders(m) = {}
    BY <2>1, <2>3, HoldersOf, HoldersNext
  <2>5. main # "end"
    BY <1>0, <2>1 DEF Phases, In
  <2>6. QED
    BY <1>0, <2>1, <2>4, <2>5, StillHeld
<1>3. ASSUME NEW f \in Frame, Unwind(f) \/ AfterDestroy(f)
      PROVE  Disowned'
  <2>1. /\ fpc[f] = "unwind" /\ UNCHANGED <<main, models, step, model>>
        /\ \/ UNCHANGED fpc /\ dtor' = [dtor EXCEPT ![model[f]] = "check"]
           \/ /\ fpc' = [fpc EXCEPT ![f] = "gone"] /\ UNCHANGED dtor
              /\ ~ LastHolder(model[f], f) \/ step[model[f]] = "gone"
    BY <1>3 DEF Unwind, AfterDestroy, Go, owners, life
  <2>2. main # "end"
    <3>1. "unwind" \in Executing
      BY DEF Executing
    <3>2. QED
      BY <1>0, <2>1, <3>1 DEF Disowned, In
  <2>3. CASE UNCHANGED fpc /\ dtor' = [dtor EXCEPT ![model[f]] = "check"]
    BY <1>0, <2>1, <2>2, <2>3, SameHolders, StillHeld
  <2>4. CASE /\ fpc' = [fpc EXCEPT ![f] = "gone"] /\ UNCHANGED dtor
             /\ ~ LastHolder(model[f], f) \/ step[model[f]] = "gone"
    <3>1. ASSUME NEW m \in Model, Holders(m)' = {}, Holders(m) # {}, m \notin models
          PROVE  step[m] = "gone"
      <4>1. \A g \in Frame : g # f => fpc'[g] = fpc[g]
        BY <1>0, <2>4, Moved
      <4>2. \A g \in Holders(m) : g = f
        BY <2>1, <3>1, <4>1, HoldersOf, HoldersNext
      <4>3. Holders(m) = {f} /\ model[f] = m
        BY <3>1, <4>2, HoldersOf
      <4>4. LastHolder(model[f], f)
        BY <3>1, <4>3 DEF LastHolder
      <4>5. QED
        BY <2>4, <4>3, <4>4
    <3>2. QED
      BY <1>0, <2>1, <2>2, <2>4, <3>1, StillHeld
  <2>5. QED
    BY <2>1, <2>3, <2>4
<1>4. CASE OutOfMemory
  <2>1. /\ main' = "drain" /\ UNCHANGED <<dtor, fpc, model>> /\ models' \subseteq Model
        /\ \A m \in Model \ models' : step'[m] = "gone"
    BY <1>4 DEF OutOfMemory, tasks
  <2>2. QED
    BY <1>0, <2>1 DEF Disowned
<1>5. CASE InitModels
  <2>1. main = "init" /\ UNCHANGED <<main, models, dtor>>
    BY <1>5 DEF InitModels
  <2>2. QED
    BY <1>0, <2>1 DEF Phases, Disowned
<1>6. CASE InitDone \/ CloseChannels \/ Drain \/ \E f \in Frame : Crash(f)
  <2>1. /\ UNCHANGED <<models, dtor, step, fpc, model>>
        /\ main' \in {"run", "drain", "models", "crashed"}
    BY <1>6 DEF InitDone, CloseChannels, Drain, Crash, tasks, life
  <2>2. QED
    BY <1>0, <2>1, SameHolders DEF Disowned
<1>7. CASE Get \/ UNCHANGED vars
  <2>1. UNCHANGED <<models, dtor, step, fpc, model, main>>
    BY <1>7 DEF Get, tasks, life, owners, vars
  <2>2. QED
    BY <1>0, <2>1, SameHolders, StillHeld
<1>8. ASSUME NEW m \in Model, DropModel(m)
      PROVE  Disowned'
  <2>1. /\ main = "models" /\ models' = models \ {m} /\ UNCHANGED <<main, step, fpc, model>>
        /\ dtor' = IF Holders(m) = {} THEN [dtor EXCEPT ![m] = "check"] ELSE dtor
    BY <1>8 DEF DropModel, tasks, life
  <2>2. DOMAIN dtor' = Model /\ \A n \in Model : n # m => dtor'[n] = dtor[n]
    BY <1>0, <2>1
  <2>3. Holders(m) = {} => dtor'[m] = "check"
    BY <1>0, <2>1
  <2>4. ASSUME NEW n \in Model \ models', Holders(n)' = {}
        PROVE  dtor'[n] # "no" \/ step'[n] = "gone"
    BY <1>0, <2>1, <2>2, <2>3, <2>4, SameHolders DEF Disowned
  <2>5. QED
    BY <1>0, <2>1, <2>2, <2>4 DEF Disowned
<1>9. CASE ModelsGone
  <2>1. /\ models = {} /\ ByMain = {} /\ main' = "pool"
        /\ UNCHANGED <<models, dtor, step, fpc, model>>
    BY <1>9 DEF ModelsGone, tasks, life
  <2>2. ASSUME NEW m \in Model, Holders(m) = {}
        PROVE  step[m] = "gone"
    BY <1>0, <2>1, <2>2 DEF ByMain, Destroying, Disowned
  <2>3. QED
    BY <1>0, <2>1, <2>2, SameHolders DEF Disowned
<1>10. CASE JoinWorkers
  <2>1. /\ main = "pool" /\ main' = "end" /\ In(Executing \union {"queued"}) = {}
        /\ UNCHANGED <<models, dtor, step, fpc, model>>
    BY <1>10 DEF JoinWorkers, tasks, life
  <2>2. In(Executing) = {}
    BY <2>1 DEF In
  <2>3. QED
    BY <1>0, <2>1, <2>2, SameHolders DEF Disowned
<1>11. ASSUME NEW m \in Model, CheckLabels(m) \/ FreeLabels(m) \/ FreeMembers(m)
       PROVE  Disowned'
  <2>1. /\ UNCHANGED <<main, models, fpc, model>>
        /\ UNCHANGED dtor \/ \E a \in {"free", "members"} : dtor' = [dtor EXCEPT ![m] = a]
    BY <1>11 DEF CheckLabels, FreeLabels, FreeMembers, tasks
  <2>2. DOMAIN dtor' = Model /\ \A n \in Model : dtor'[n] = "no" => dtor[n] = "no"
    BY <1>0, <2>1
  <2>3. UNCHANGED step \/ FreeMembers(m)
    BY <1>11 DEF CheckLabels, FreeLabels, life
  <2>4. \A n \in Model : step[n] = "gone" => step'[n] = "gone"
    BY <1>0, <2>3, DestroyGoes
  <2>5. QED
    BY <1>0, <2>1, <2>2, <2>4, SameHolders, StillHeld
<1>12. QED
  BY <1>1, <1>2, <1>3, <1>4, <1>5, <1>6, <1>7, <1>8, <1>9, <1>10, <1>11, Works
     DEF Next, Infer, Teardown

-----------------------------------------------------------------------------

LEMMA TInvInit == Init => TInv
<1> SUFFICES ASSUME Init
             PROVE  TInv
  OBVIOUS
<1>1. MInv
  BY ModelPoolAssumption
     DEF Init, MInv, Typed, OneInside, ResultOfOwnFrame, In, Places, Inside, Model
<1>2. LifeInv
  BY DEF Init, L!Init, LifeInv, Owned, Unheld, Steps, Things, Members
<1>3. Queued /\ completed \in Seq(Frame) /\ Len(completed) = 0
  BY DEF Init, Queued
<1>4. In(Owing) = {}
  BY DEF Init, In, Owing, InUse, Inside
<1>5. Counted
  BY <1>3, <1>4, FS_EmptySet DEF Counted, Init
<1>6. Phases
  BY DEF Phases, Init, Untouched
<1>7. Disowned
  BY DEF Disowned, Init
<1>8. QED
  BY <1>1, <1>2, <1>3, <1>5, <1>6, <1>7 DEF TInv

LEMMA TInvStep ==
    ASSUME TInv, [Next]_vars
    PROVE  TInv'
BY PoolStep, LifeStep, QueuedStep, CountedStep, PhasesStep, DisownedStep DEF TInv

\* The invariant of pool and models is inductive.
THEOREM PoolInvariance == Spec => []TInv
<1>1. QED
  BY TInvInit, TInvStep, PTL DEF Spec

\* A model is whole, and the label table is left alone, while a frame is in any
\* model, for any number of frames, models and workers and wherever an
\* initialisation stopped.
THEOREM UsedModelsAreWhole == Spec => []ModelOutlivesUse
<1>1. ASSUME TInv, NEW f \in In(Executing \ {"unwind"})
      PROVE  L!Usable(model[f]) /\ \A m \in Model : dtor[m] = "no"
  <2>1. f \in Frame /\ fpc[f] \in Owing /\ model[f] \in Model /\ fpc[f] # "new"
    BY <1>1 DEF In, Executing, Owing, InUse, Inside, TInv, MInv, Typed
  <2>2. main \in {"run", "crashed", "drain"} /\ Untouched
    BY <1>1, <2>1 DEF TInv, Phases, In
  <2>3. Owned("ready", held[model[f]], fields[model[f]])
    BY <1>1, <2>1, <2>2 DEF TInv, LifeInv, Untouched
  <2>4. L!Usable(model[f])
    BY <2>3 DEF Owned, L!Usable, L!Buffer
  <2>5. QED
    BY <1>1, <2>2, <2>4 DEF TInv, Phases
<1>2. TInv => ModelOutlivesUse
  BY <1>1 DEF ModelOutlivesUse
<1>3. QED
  BY <1>2, PoolInvariance, PTL

\* When the pool is gone every model is, and of what they held there is left
\* only what a failed dma_buf_alloc leaves.
THEOREM NothingElseLost == Spec => []OnlyHeapLost
<1>1. ASSUME TInv, main = "end", NEW m \in Model
      PROVE  \E left \in L!FailedAllocLeaves : held[m] = left
  <2>1. In(Owing) = {} /\ In(Executing) = {}
    BY <1>1 DEF TInv, Phases, Disowned
  <2>2. \A f \in Frame : fpc[f] \notin Held
    BY <2>1 DEF In, Owing, Held
  <2>3. Holders(m) = {}
    BY <2>2, HoldersOf
  <2>4. step[m] = "gone"
    BY <1>1, <2>3 DEF TInv, Disowned
  <2>5. Owned("gone", held[m], fields[m]) /\ held[m] \subseteq Things
    BY <1>1, <2>4 DEF TInv, LifeInv
  <2>6. held[m] \subseteq {"heap_fd", "unmapped"} /\ ("unmapped" \in held[m] => "heap_fd" \in held[m])
    BY <2>5 DEF Owned, Things
  <2>7. held[m] = {} \/ held[m] = {"heap_fd"} \/ held[m] = {"heap_fd", "unmapped"}
    BY <2>6
  <2>8. QED
    BY <2>7 DEF L!FailedAllocLeaves
<1>2. TInv => OnlyHeapLost
  BY <1>1 DEF OnlyHeapLost
<1>3. QED
  BY <1>2, PoolInvariance, PTL

-----------------------------------------------------------------------------
(* Every ctx is set before a frame is put *)

AllSet == (\E f \in Frame : fpc[f] # "new") => \A m \in Model : "ctx" \in fields[m]

\* No step unsets a ctx.
LEMMA StaysSet ==
    ASSUME LifeInv, [Next]_vars, NEW m \in Model, "ctx" \in fields[m]
    PROVE  "ctx" \in fields'[m]
<1>1. CASE UNCHANGED fields
  BY <1>1
<1>2. ASSUME NEW n \in Model, NEW R, NEW S, L!Gain(n, R, S)
      PROVE  "ctx" \in fields'[m]
  BY <1>2 DEF L!Gain, LifeInv
<1>3. ASSUME NEW n \in Model, NEW R, NEW S, "ctx" \notin S, L!Release(n, R, S)
      PROVE  "ctx" \in fields'[m]
  BY <1>3 DEF L!Release, LifeInv
<1>4. ASSUME NEW n \in Model, L!InitModel(n)
      PROVE  "ctx" \in fields'[m]
  BY <1>1, <1>2, <1>3, <1>4
     DEF L!InitModel, L!Load, L!Context, L!SetUp, L!InputAttrs, L!InputBuffer, L!InputMem,
         L!IoMem, L!OutputAttrs, L!Fail, L!Keep
<1>5. ASSUME NEW n \in Model, L!DestroyMembers(n)
      PROVE  "ctx" \in fields'[m]
  BY <1>1, <1>3, <1>5
     DEF L!DestroyMembers, L!DestroyMem, L!FreeDma, L!DestroyContext, L!FreeRest, L!Keep
<1>6. CASE InitModels \/ \E n \in Model : FreeMembers(n)
  BY <1>4, <1>5, <1>6 DEF InitModels, FreeMembers
<1>7. CASE OutOfMemory \/ InitDone \/ Get \/ CloseChannels \/ Drain \/ ModelsGone \/ JoinWorkers
           \/ \E n \in Model : DropModel(n) \/ CheckLabels(n) \/ FreeLabels(n)
  BY <1>1, <1>7 DEF OutOfMemory, InitDone, Get, CloseChannels, Drain, ModelsGone, JoinWorkers,
                    DropModel, CheckLabels, FreeLabels, owners, life
<1>8. CASE \E f \in Frame : Choose(f) \/ Submit(f) \/ Infer(f)
  BY <1>1, <1>8 DEF Choose, Submit, Infer, Start, Lock, Copy, Run, Post, Load, Flag, Names,
                    Crash, Push, Unwind, AfterDestroy, owners, life
<1>9. QED
  BY <1>1, <1>6, <1>7, <1>8 DEF Next, Teardown, vars, owners, life

LEMMA AllSetStep ==
    ASSUME TInv, AllSet, [Next]_vars
    PROVE  AllSet'
<1>0. LifeInv /\ Queued /\ Typed
  BY DEF TInv, MInv
<1>1. CASE \E f \in Frame : Choose(f)
  <2>1. main = "run" /\ UNCHANGED fields
    BY <1>1 DEF Choose, owners, life
  <2>2. \A m \in Model : Owned("ready", held[m], fields[m])
    BY <1>0, <2>1 DEF TInv, Phases, Untouched, LifeInv
  <2>3. QED
    BY <2>1, <2>2 DEF Owned, AllSet
<1>2. CASE \A f \in Frame : fpc[f] = "new" => fpc'[f] = "new"
  BY <1>0, <1>2, StaysSet DEF AllSet
<1>3. ASSUME NEW f \in Frame, Submit(f) \/ Infer(f)
      PROVE  \A g \in Frame : fpc[g] = "new" => fpc'[g] = "new"
  <2>1. UNCHANGED fpc \/ (fpc[f] # "new" /\ \E to : Go(f, to))
    BY <1>0, <1>3 DEF Submit, Infer, Start, Lock, Copy, Run, Post, Load, Flag, Names, Crash,
                      Push, Unwind, AfterDestroy, tasks, Queued
  <2>2. QED
    BY <1>0, <2>1 DEF Go, Typed
<1>4. CASE OutOfMemory \/ InitModels \/ InitDone \/ Get \/ Teardown \/ UNCHANGED vars
  <2>1. UNCHANGED fpc
    BY <1>4 DEF OutOfMemory, InitModels, InitDone, Get, Teardown, CloseChannels, Drain,
         ModelsGone, JoinWorkers, DropModel, CheckLabels, FreeLabels, FreeMembers, vars, tasks
  <2>2. QED
    BY <1>2, <2>1
<1>5. QED
  BY <1>1, <1>2, <1>3, <1>4 DEF Next

\* Whatever init could allocate before it gave up, and whichever thread
\* destroys the model: nothing is released twice, unheld or before what depends
\* on it, for any number of models, but a ctx that was never set; and not even
\* that once a frame has been put.
THEOREM NothingReleasedTwice == Spec => []ReleasedOnce
<1>1. Init => AllSet
  BY DEF Init, AllSet
<1>2. TInv /\ AllSet /\ [Next]_vars => AllSet'
  BY AllSetStep
<1>3. ASSUME TInv, AllSet
      PROVE  ReleasedOnce
  <2>1. ASSUME NEW m \in Model, "mem" \in held[m]
        PROVE  {"ctx"} \union L!Buffer \subseteq held[m]
    BY <1>3, <2>1 DEF TInv, LifeInv, Owned, L!Buffer
  <2>2. \A m \in Model : wrong[m] \subseteq {"ctx"} \ fields[m]
    BY <1>3 DEF TInv, LifeInv, Unheld
  <2>3. ASSUME \E f \in Frame : fpc[f] # "new", NEW m \in Model
        PROVE  wrong[m] = {}
    BY <1>3, <2>2, <2>3 DEF AllSet
  <2>4. QED
    BY <2>1, <2>2, <2>3 DEF ReleasedOnce, L!ReleasesInOrder
<1>4. QED
  BY <1>1, <1>2, <1>3, PoolInvariance, PTL DEF Spec
================================================================================
