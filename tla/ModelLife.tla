------------------------------- MODULE ModelLife -------------------------------
(***************************************************************************)
(* What a model owns: rkYolov5s::init, which can return from the middle,   *)
(* and the rest of ~rkYolov5s after deinitPostProcess, which must cope     *)
(* with whatever init has left (src/src/rkYolov5s.cc).  ModelPool.tla says *)
(* which thread runs these steps and when.                                 *)
(*                                                                         *)
(* held is the truth, what the process has and has not given back; fields  *)
(* is what the members of the object say: "data", "in_attrs", "out_attrs", *)
(* "mem" are pointers that are not null, "dma" is input_dma_fd >= 0, "ctx" *)
(* is a handle that has been set, which the destructor cannot tell: the    *)
(* constructor gives ctx no value.                                         *)
(***************************************************************************)
EXTENDS Naturals, DmaHeap

CONSTANT Model   \* 0 is the model the others share their weights with

VARIABLES
    step,    \* of each model, where init is: "load", "context", "setup",
             \* "inputs", "dma", "mem", "io", "outputs", "ready", or "failed";
             \* or the destructor: "free dma", "destroy ctx", "free", "gone"
    held,    \* what it holds
    fields,  \* its members
    wrong    \* of each model, what was released that it did not hold (history)

Init ==
    /\ step = [m \in Model |-> "load"]
    /\ held = [m \in Model |-> {}] /\ fields = [m \in Model |-> {}]
    /\ wrong = [m \in Model |-> {}]

At(m, s) == step[m] = s
Goto(m, s) == step' = [step EXCEPT ![m] = s]
Fail(m) == Goto(m, "failed")

Gain(m, resources, members) ==
    /\ held' = [held EXCEPT ![m] = @ \union resources]
    /\ fields' = [fields EXCEPT ![m] = @ \union members]
    /\ UNCHANGED wrong

Release(m, resources, members) ==
    /\ held' = [held EXCEPT ![m] = @ \ resources]
    /\ fields' = [fields EXCEPT ![m] = @ \ members]
    /\ wrong' = [wrong EXCEPT ![m] = @ \union (resources \ held[m])]

Keep == UNCHANGED <<held, fields, wrong>>

-----------------------------------------------------------------------------
(* init *)

\* load_model gives null when the file cannot be read, which init ignores.
Load(m) ==
    /\ At(m, "load") /\ Goto(m, "context")
    /\ Keep \/ Gain(m, {"data"}, {"data"})

\* rknn_init for model 0, which is taken to refuse a model that is null, and
\* rknn_dup_context of its context for the others; where they fail, ctx stays
\* unset.
Context(m) ==
    /\ At(m, "context")
    /\ \/ /\ m = 0 => "data" \in fields[m]
          /\ Goto(m, "setup") /\ Gain(m, {"ctx"}, {"ctx"})
       \/ Fail(m) /\ Keep

\* rknn_set_core_mask and two queries
SetUp(m) ==
    /\ At(m, "setup") /\ Keep
    /\ Goto(m, "inputs") \/ Fail(m)

InputAttrs(m) ==
    /\ At(m, "inputs") /\ Gain(m, {"in_attrs"}, {"in_attrs"})
    /\ Goto(m, "dma") \/ Fail(m)

InputBuffer(m) ==
    /\ At(m, "dma")
    /\ \/ Goto(m, "mem") /\ Gain(m, Buffer, {"dma"})
       \/ Fail(m) /\ \E left \in FailedAllocLeaves : Gain(m, left, {})

InputMem(m) ==
    /\ At(m, "mem")
    /\ \/ Goto(m, "io") /\ Gain(m, {"mem"}, {"mem"})
       \/ Fail(m) /\ Release(m, Buffer, {"dma"})

\* Mutant: the pointer is not reset after the memory has been destroyed.
IoMem_NotReset(m) ==
    /\ At(m, "io")
    /\ \/ Goto(m, "outputs") /\ Keep
       \/ Fail(m) /\ Release(m, {"mem"} \union Buffer, {"dma"})

IoMem(m) ==
    /\ At(m, "io")
    /\ \/ Goto(m, "outputs") /\ Keep
       \/ Fail(m) /\ Release(m, {"mem"} \union Buffer, {"mem", "dma"})

\* The queries of the outputs are not checked.
OutputAttrs(m) ==
    /\ At(m, "outputs") /\ Goto(m, "ready")
    /\ Gain(m, {"out_attrs"}, {"out_attrs"})

InitModel(m) ==
    \/ Load(m) \/ Context(m) \/ SetUp(m) \/ InputAttrs(m) \/ InputBuffer(m)
    \/ InputMem(m) \/ IoMem(m) \/ OutputAttrs(m)

-----------------------------------------------------------------------------
(* ~rkYolov5s, also of a model whose init was never called *)

DestroyMem(m) ==
    /\ step[m] \in {"load", "ready", "failed"} /\ Goto(m, "free dma")
    /\ IF "mem" \in fields[m] THEN Release(m, {"mem"}, {}) ELSE Keep

\* Mutant: the buffer is left to rknn_destroy_mem.
FreeDma_Never(m) == At(m, "free dma") /\ Goto(m, "destroy ctx") /\ Keep

FreeDma(m) ==
    /\ At(m, "free dma") /\ Goto(m, "destroy ctx")
    /\ IF "dma" \in fields[m] THEN Release(m, Buffer, {"dma"}) ELSE Keep

\* rknn_destroy is called whether ctx was ever set or not.  What the vendor
\* library makes of an unset handle is not followed further than wrong.
DestroyContext(m) ==
    /\ At(m, "destroy ctx") /\ Goto(m, "free")
    /\ Release(m, {"ctx"}, {})

FreeRest(m) ==
    /\ At(m, "free") /\ Goto(m, "gone")
    /\ Release(m, {"data", "in_attrs", "out_attrs"} \intersect fields[m], {})

DestroyMembers(m) ==
    DestroyMem(m) \/ FreeDma(m) \/ DestroyContext(m) \/ FreeRest(m)

-----------------------------------------------------------------------------

\* What infer uses of a model, and what it does not own itself.
Usable(m) ==
    {"ctx", "mem", "in_attrs", "out_attrs"} \union Buffer \subseteq held[m]

\* Wherever init stopped, the error paths in it and the destructor together
\* release only what is held, each thing at most once, and the memory object
\* before the context and the buffer it wraps.  The one exception is ctx, which
\* is destroyed unset when init never came past rknn_init or rknn_dup_context.
ReleasesInOrder ==
    /\ \A m \in Model : wrong[m] \subseteq {"ctx"} \ fields[m]
    /\ \A m \in Model : "mem" \in held[m] => {"ctx"} \union Buffer \subseteq held[m]
================================================================================
