------------------------------- MODULE ModelPool -------------------------------
(***************************************************************************)
(* rknnPool (src/include/rknnPool.hpp) over the models (ModelLife.tla),    *)
(* rkYolov5s::infer (src/src/rkYolov5s.cc) and the label table all models  *)
(* share (src/src/postprocess.cc): the models are initialised one after    *)
(* the other, frames are dealt to them and wait for them, and the pool is  *)
(* torn down, at the end or after an init that failed, with models that    *)
(* are destroyed by whichever thread drops the last reference to them.     *)
(* Thread start and idling are ThreadPool's.                               *)
(*                                                                         *)
(* A filling of the label table is a generation 1, 2, ...; 0 is the table  *)
(* of null pointers.  The static flag init and the table are read without  *)
(* synchronisation: a reader may still see init unset (Post), or init set  *)
(* but the pointers null, which ends the program (Crash).                  *)
(***************************************************************************)
EXTENDS Naturals, Sequences, FiniteSets

CONSTANTS
    Frames,    \* bound: frames 1 .. Frames may be put
    ThreadNum  \* threadNum (12): as many models as workers

ASSUME ModelPoolAssumption == Frames \in Nat /\ ThreadNum \in Nat \ {0}

Frame == 1 .. Frames
Model == 0 .. ThreadNum - 1

VARIABLES
    fpc,        \* where the task of each frame is: not put "new", in put
                \* "counted", "queued", in Executing below, "gone"
    model,      \* the model put has chosen for it
    id,         \* rknnPool::id
    queue,      \* tasks_ of the thread pool
    input,      \* the frame in the input buffer of each model, 0 at first
    output,     \* the frame whose outputs the model's context holds
    completed,  \* completed_outputs
    pending,    \* pending_count
    labels,     \* the generation in labels[]
    init,       \* post_process: init == 0
    loads,      \* generations loaded so far
    freed,      \* generations freed
    main,       \* rknnPool::init "init", "run", ~rknnPool "drain", "models",
                \* "pool", then "end"; or "crashed"
    models,     \* models the vector of the pool still refers to
    dtor,       \* ~rkYolov5s of each model: "no", in deinitPostProcess "check"
                \* and "free", "members" after it
    seen,       \* the generation its deinitPostProcess has read
    step, held, fields, wrong   \* ModelLife's

L == INSTANCE ModelLife

life == <<step, held, fields, wrong>>
tasks == <<fpc, model, id, queue>>
npu == <<input, output>>
results == <<completed, pending>>
table == <<labels, init, loads, freed>>
owners == <<main, models, dtor, seen, life>>
vars == <<tasks, npu, results, table, owners>>

In(S) == {f \in Frame : fpc[f] \in S}
Inside == {"copy", "run", "post", "load", "flag", "names"}
Executing == Inside \union {"lock", "push", "unwind"}
Go(f, to) == fpc' = [fpc EXCEPT ![f] = to]

Init ==
    /\ fpc = [f \in Frame |-> "new"] /\ model = [f \in Frame |-> 0]
    /\ id = 0 /\ queue = <<>>
    /\ input = [m \in Model |-> 0] /\ output = [m \in Model |-> 0]
    /\ completed = <<>> /\ pending = 0
    /\ labels = 0 /\ init = FALSE /\ loads = 0 /\ freed = {}
    /\ L!Init
    /\ main = "init" /\ models = Model
    /\ dtor = [m \in Model |-> "no"] /\ seen = [m \in Model |-> 0]

-----------------------------------------------------------------------------
(* init, on the main thread: model after model, until one fails *)

\* bad_alloc while the models are constructed: only some of them exist.
OutOfMemory ==
    /\ main = "init" /\ \A m \in Model : step[m] = "load"
    /\ main' = "drain"
    /\ \E made \in 0 .. ThreadNum - 1 :
          /\ models' = {m \in Model : m < made}
          /\ step' = [m \in Model |-> IF m < made THEN "load" ELSE "gone"]
    /\ UNCHANGED <<tasks, npu, results, table, dtor, seen, held, fields, wrong>>

Ready(m) == step[m] = "ready"
Failed == \E m \in Model : step[m] = "failed"

InitModels ==
    /\ main = "init" /\ ~ Failed
    /\ \E m \in Model : /\ ~ Ready(m) /\ \A n \in 0 .. m - 1 : Ready(n)
                       /\ L!InitModel(m)
    /\ UNCHANGED <<tasks, npu, results, table, main, models, dtor, seen>>

\* Mutant: the pool is used although a model could not be initialised.
InitDone_Ignored ==
    /\ main = "init"
    /\ Failed \/ \A m \in Model : Ready(m)
    /\ main' = "run"
    /\ UNCHANGED <<tasks, npu, results, table, models, dtor, seen, life>>

\* main returns, and with it goes the pool, when init has failed.
InitDone ==
    /\ main = "init"
    /\ Failed \/ \A m \in Model : Ready(m)
    /\ main' = IF Failed THEN "drain" ELSE "run"
    /\ UNCHANGED <<tasks, npu, results, table, models, dtor, seen, life>>

-----------------------------------------------------------------------------
(* put, on the decode threads *)

Choose(f) ==
    /\ fpc[f] = "new" /\ main = "run"
    /\ Go(f, "counted")
    /\ model' = [model EXCEPT ![f] = id % ThreadNum]
    /\ id' = id + 1
    /\ pending' = pending + 1
    /\ UNCHANGED <<queue, npu, completed, table, owners>>

Submit(f) ==
    /\ fpc[f] = "counted"
    /\ Go(f, "queued")
    /\ queue' = Append(queue, f)
    /\ UNCHANGED <<model, id, npu, results, table, owners>>

-----------------------------------------------------------------------------
(* the task, on a worker *)

Start(f) ==
    /\ queue # <<>> /\ f = Head(queue)
    /\ Cardinality(In(Executing)) < ThreadNum
    /\ Go(f, "lock")
    /\ queue' = Tail(queue)
    /\ UNCHANGED <<model, id, npu, results, table, owners>>

\* Mutant: infer does not take mtx.
Lock_None(f) ==
    /\ fpc[f] = "lock"
    /\ Go(f, "copy")
    /\ UNCHANGED <<model, id, queue, npu, results, table, owners>>

\* infer holds mtx from here until it returns.
Lock(f) ==
    /\ fpc[f] = "lock"
    /\ \A g \in In(Inside) : model[g] # model[f]
    /\ Go(f, "copy")
    /\ UNCHANGED <<model, id, queue, npu, results, table, owners>>

\* process_rga_zero_copy overwrites the model's input, or fails, and infer
\* returns with frame_id -1.
Copy(f) ==
    /\ fpc[f] = "copy"
    /\ \/ Go(f, "run") /\ input' = [input EXCEPT ![model[f]] = f]
       \/ Go(f, "push") /\ UNCHANGED input
    /\ UNCHANGED <<model, id, queue, output, results, table, owners>>

\* rknn_run and rknn_outputs_get
Run(f) ==
    /\ fpc[f] = "run"
    /\ Go(f, "post")
    /\ output' = [output EXCEPT ![model[f]] = input[model[f]]]
    /\ UNCHANGED <<model, id, queue, input, results, table, owners>>

\* post_process reads init, loads the labels, sets init, and copies the names
\* of its detections.
Post(f) ==
    /\ fpc[f] = "post"
    /\ \/ Go(f, "load")
       \/ init /\ Go(f, "names")
    /\ UNCHANGED <<model, id, queue, npu, results, table, owners>>

Load(f) ==
    /\ fpc[f] = "load"
    /\ Go(f, "flag")
    /\ loads' = loads + 1
    /\ labels' = loads'
    /\ UNCHANGED <<model, id, queue, npu, results, init, freed, owners>>

Flag(f) ==
    /\ fpc[f] = "flag"
    /\ Go(f, "names")
    /\ init' = TRUE
    /\ UNCHANGED <<model, id, queue, npu, results, labels, loads, freed, owners>>

Names(f) ==
    /\ fpc[f] = "names"
    /\ Go(f, "push")
    /\ UNCHANGED <<model, id, queue, npu, results, table, owners>>

Crash(f) ==
    /\ fpc[f] = "names"
    /\ main' = "crashed"
    /\ UNCHANGED <<tasks, npu, results, table, models, dtor, seen, life>>

Push(f) ==
    /\ fpc[f] = "push"
    /\ Go(f, "unwind")
    /\ completed' = Append(completed, f)
    /\ UNCHANGED <<model, id, queue, npu, pending, table, owners>>

\* The task is destroyed, and with it its reference to the model; the worker
\* that drops the last one runs the destructor.
Holders(m) == {f \in In(Executing \union {"counted", "queued"}) : model[f] = m}
LastHolder(m, f) == m \notin models /\ Holders(m) = {f}

Unwind(f) ==
    /\ fpc[f] = "unwind"
    /\ IF LastHolder(model[f], f)
       THEN /\ dtor[model[f]] = "no"
            /\ dtor' = [dtor EXCEPT ![model[f]] = "check"]
            /\ UNCHANGED fpc
       ELSE Go(f, "gone") /\ UNCHANGED dtor
    /\ UNCHANGED <<model, id, queue, npu, results, table, main, models, seen, life>>

-----------------------------------------------------------------------------
(* get, and ~rknnPool once the channels are gone *)

Get ==
    /\ main \in {"run", "drain"}
    /\ completed # <<>>
    /\ completed' = Tail(completed)
    /\ pending' = pending - 1
    /\ UNCHANGED <<tasks, npu, table, owners>>

CloseChannels ==
    /\ main = "run"
    /\ In({"counted"}) = {}
    /\ main' = "drain"
    /\ UNCHANGED <<tasks, npu, results, table, models, dtor, seen, life>>

\* Mutant: the destructor takes what is there and does not wait for the rest.
Drain_NoWait ==
    /\ main = "drain" /\ completed = <<>>
    /\ main' = "models"
    /\ UNCHANGED <<tasks, npu, results, table, models, dtor, seen, life>>

Drain ==
    /\ main = "drain" /\ pending = 0
    /\ main' = "models"
    /\ UNCHANGED <<tasks, npu, results, table, models, dtor, seen, life>>

\* The vector of models is destroyed, from the first to the last.  A model no
\* task refers to is destroyed at once, by this thread.
Destroying(m) == dtor[m] # "no" /\ step[m] # "gone"
ByMain == {m \in Model \ models : Destroying(m) /\ Holders(m) = {}}

DropModel(m) ==
    /\ main = "models" /\ ByMain = {}
    /\ m \in models /\ \A n \in models : m <= n
    /\ models' = models \ {m}
    /\ dtor' = IF Holders(m) = {} THEN [dtor EXCEPT ![m] = "check"] ELSE dtor
    /\ UNCHANGED <<tasks, npu, results, table, main, seen, life>>

ModelsGone ==
    /\ main = "models" /\ models = {} /\ ByMain = {}
    /\ main' = "pool"
    /\ UNCHANGED <<tasks, npu, results, table, models, dtor, seen, life>>

\* ~ThreadPool joins the workers.
JoinWorkers ==
    /\ main = "pool"
    /\ In(Executing \union {"queued"}) = {}
    /\ main' = "end"
    /\ UNCHANGED <<tasks, npu, results, table, models, dtor, seen, life>>

\* ~rkYolov5s, on whichever thread: deinitPostProcess tests each pointer of
\* the table, frees what it points to and clears it ...
CheckLabels(m) ==
    /\ dtor[m] = "check"
    /\ seen' = [seen EXCEPT ![m] = labels]
    /\ dtor' = [dtor EXCEPT ![m] = IF labels = 0 THEN "members" ELSE "free"]
    /\ UNCHANGED <<tasks, npu, results, table, main, models, life>>

FreeLabels(m) ==
    /\ dtor[m] = "free"
    /\ freed' = freed \union {seen[m]}
    /\ labels' = 0
    /\ dtor' = [dtor EXCEPT ![m] = "members"]
    /\ UNCHANGED <<tasks, npu, results, init, loads, main, models, seen, life>>

\* ... then the model's own members follow ...
FreeMembers(m) ==
    /\ dtor[m] = "members"
    /\ L!DestroyMembers(m)
    /\ UNCHANGED <<tasks, npu, results, table, main, models, dtor, seen>>

\* ... and the worker goes on when it was the one that destroyed the model.
AfterDestroy(f) ==
    /\ fpc[f] = "unwind" /\ LastHolder(model[f], f) /\ step[model[f]] = "gone"
    /\ Go(f, "gone")
    /\ UNCHANGED <<model, id, queue, npu, results, table, owners>>

Infer(f) ==
    \/ Start(f) \/ Lock(f) \/ Copy(f) \/ Run(f) \/ Post(f) \/ Load(f) \/ Flag(f)
    \/ Names(f) \/ Crash(f) \/ Push(f) \/ Unwind(f) \/ AfterDestroy(f)

Teardown ==
    \/ CloseChannels \/ Drain \/ ModelsGone \/ JoinWorkers
    \/ \E m \in Model : DropModel(m) \/ CheckLabels(m) \/ FreeLabels(m) \/ FreeMembers(m)

Next ==
    /\ main # "crashed"
    /\ \/ \E f \in Frame : Choose(f) \/ Submit(f) \/ Infer(f)
       \/ OutOfMemory \/ InitModels \/ InitDone \/ Get \/ Teardown

Spec == Init /\ [][Next]_vars

-----------------------------------------------------------------------------
(* Safety *)

\* The input buffer is reused for every frame of a model: between the copy of
\* a frame and the end of its post-processing nobody else writes the model's
\* input or outputs, so that a result is the result of its own frame.
ResultOfOwnFrame ==
    /\ \A f \in In({"run"}) : input[model[f]] = f
    /\ \A f \in In({"post", "load", "flag", "names"}) : output[model[f]] = f

\* A model is whole while a frame is in it, whichever thread may destroy it,
\* and nobody has begun to free the labels, which are those of all models,
\* while some inference is still to read names from the table.
ModelOutlivesUse ==
    /\ \A f \in In(Executing \ {"unwind"}) : L!Usable(model[f])
    /\ In(Executing \ {"unwind"}) # {} => \A m \in Model : dtor[m] = "no"

\* Wherever init stopped, for whichever model, and whichever thread destroys
\* a model: nothing is released twice, unheld or in the wrong order, but a ctx
\* that was never set; and that only in a program that ends for a failed init,
\* never once a frame has been put.
ReleasedOnce ==
    /\ L!ReleasesInOrder
    /\ (\E f \in Frame : fpc[f] # "new") => \A m \in Model : wrong[m] = {}

\* ... and nothing is left at the end but what dma_buf_alloc itself loses.
OnlyHeapLost ==
    main = "end" => \A m \in Model : \E left \in L!FailedAllocLeaves : held[m] = left

\* "Safe exit and release of resources" (main.cc:107): no destructor frees
\* labels that were freed already.
LabelsFreedOnce == \A m \in Model : dtor[m] = "free" => seen[m] \notin freed
================================================================================
