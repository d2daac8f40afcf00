------------------------------- MODULE TaskPool -------------------------------
(***************************************************************************)
(* What dpool::ThreadPool promises the code that submits to it: tasks are  *)
(* started in the order of submission, each exactly once, no more than     *)
(* MaxThreads run at a time, and the destructor returns only when every    *)
(* task submitted has run.  ThreadPool.tla shows that the pool keeps it.   *)
(***************************************************************************)
EXTENDS Naturals, Sequences, FiniteSets

CONSTANTS Task, MaxThreads

VARIABLES queue, active, done, phase

poolVars == <<queue, active, done, phase>>

Init ==
    /\ queue = <<>>
    /\ active = {}
    /\ done = {}
    /\ phase = "open"

Submit(t) ==
    /\ phase = "open"
    /\ t \notin active \union done
    /\ \A i \in DOMAIN queue : queue[i] # t
    /\ queue' = Append(queue, t)
    /\ UNCHANGED <<active, done, phase>>

Start ==
    /\ queue # <<>>
    /\ Cardinality(active) < MaxThreads
    /\ active' = active \union {Head(queue)}
    /\ queue' = Tail(queue)
    /\ UNCHANGED <<done, phase>>

Finish(t) ==
    /\ t \in active
    /\ active' = active \ {t}
    /\ done' = done \union {t}
    /\ UNCHANGED <<queue, phase>>

Close ==
    /\ phase = "open"
    /\ phase' = "closed"
    /\ UNCHANGED <<queue, active, done>>

Destroy ==
    /\ phase = "closed"
    /\ queue = <<>> /\ active = {}
    /\ phase' = "gone"
    /\ UNCHANGED <<queue, active, done>>

Next == Start \/ Close \/ Destroy \/ \E t \in Task : Submit(t) \/ Finish(t)

Safe == Init /\ [][Next]_poolVars

Spec ==
    /\ Safe
    /\ WF_poolVars(Start) /\ WF_poolVars(Destroy)
    /\ \A t \in Task : WF_poolVars(Finish(t))
===============================================================================
