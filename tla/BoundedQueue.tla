------------------------------ MODULE BoundedQueue ------------------------------
(***************************************************************************)
(* What ThreadSafeQueue promises the threads that use it: items come out   *)
(* in the order they went in, never more than Max are kept, what is queued *)
(* is taken in the end, and after stop a consumer is told the end, but not *)
(* before the queue is empty.  There is no mutex and no waiting here.      *)
(***************************************************************************)
EXTENDS Naturals, Sequences

CONSTANTS Item, Consumer, Max

VARIABLES
    queue,
    phase,  \* "open" or "stopped"
    ended   \* consumers that have been told the end

queueVars == <<queue, phase, ended>>

Init == queue = <<>> /\ phase = "open" /\ ended = {}

Put(x) ==
    /\ Len(queue) < Max
    /\ queue' = Append(queue, x)
    /\ UNCHANGED <<phase, ended>>

Take ==
    /\ queue # <<>>
    /\ queue' = Tail(queue)
    /\ UNCHANGED <<phase, ended>>

Stop ==
    /\ phase' = "stopped"
    /\ UNCHANGED <<queue, ended>>

End(c) ==
    /\ phase = "stopped" /\ queue = <<>>
    /\ ended' = ended \union {c}
    /\ UNCHANGED <<queue, phase>>

Next ==
    \/ Take \/ Stop
    \/ \E x \in Item : Put(x)
    \/ \E c \in Consumer : End(c)

Safe == Init /\ [][Next]_queueVars

Spec == Safe /\ WF_queueVars(Take) /\ \A c \in Consumer : WF_queueVars(End(c))
=================================================================================
