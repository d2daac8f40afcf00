---------------------------- MODULE ThreadSafeQueue ----------------------------
(***************************************************************************)
(* ThreadSafeQueue (src/include/ThreadSafeQueue.hpp), with its mutex and   *)
(* its condition variable.  A critical section is one step; push notifies  *)
(* after it has unlocked, so the notification is a step of its own, and a  *)
(* consumer that was woken tests the predicate of wait again when it gets  *)
(* the mutex.  BoundedQueue.tla is what users may rely on.                 *)
(***************************************************************************)
EXTENDS Naturals, Sequences

CONSTANTS
    Item,
    Producer, Consumer,  \* the threads that push and stop, and that pop
    Max                  \* m_max_size

VARIABLES
    queue,      \* m_queue
    phase,      \* m_stop: "open" or "stopped"
    consumer,   \* where each consumer is: "out" of pop or at its lock,
                \* "waiting" in m_cond.wait, "woken" and at the mutex again,
                \* "ended": pop has returned false
    notifying   \* producers between unlock and notify_one in push

vars == <<queue, phase, consumer, notifying>>

Init ==
    /\ queue = <<>> /\ phase = "open"
    /\ consumer = [c \in Consumer |-> "out"]
    /\ notifying = {}

Waiting == {c \in Consumer : consumer[c] = "waiting"}

\* c leaves the waiting ones with the mutex still to be locked.
Wake(c) == consumer' = [consumer EXCEPT ![c] = "woken"]

-----------------------------------------------------------------------------
(* push and stop *)

Full == Len(queue) >= Max

\* push returns false when the queue is full; m_stop is not looked at.
Push(p, x) ==
    /\ p \notin notifying
    /\ ~ Full
    /\ queue' = Append(queue, x)
    /\ notifying' = notifying \union {p}
    /\ UNCHANGED <<phase, consumer>>

\* Mutant: nobody is notified.
NotifyOne_Nobody(p) ==
    /\ p \in notifying
    /\ notifying' = notifying \ {p}
    /\ UNCHANGED <<queue, phase, consumer>>

NotifyOne(p) ==
    /\ p \in notifying
    /\ notifying' = notifying \ {p}
    /\ IF Waiting = {} THEN UNCHANGED consumer ELSE \E c \in Waiting : Wake(c)
    /\ UNCHANGED <<queue, phase>>

\* Mutant: stop does not notify.
Stop_Silent(p) ==
    /\ p \notin notifying
    /\ phase' = "stopped"
    /\ UNCHANGED <<queue, consumer, notifying>>

\* notify_all
Stop(p) ==
    /\ p \notin notifying
    /\ phase' = "stopped"
    /\ consumer' = [c \in Consumer |->
                      IF c \in Waiting THEN "woken" ELSE consumer[c]]
    /\ UNCHANGED <<queue, notifying>>

-----------------------------------------------------------------------------
(* pop *)

HasMutex(c) == consumer[c] \in {"out", "woken"}

\* The predicate of wait is false.
Wait(c) ==
    /\ HasMutex(c)
    /\ queue = <<>> /\ phase = "open"
    /\ consumer' = [consumer EXCEPT ![c] = "waiting"]
    /\ UNCHANGED <<queue, phase, notifying>>

\* wait may return without a notification.
Spurious(c) ==
    /\ c \in Waiting
    /\ Wake(c)
    /\ UNCHANGED <<queue, phase, notifying>>

Pop(c) ==
    /\ HasMutex(c)
    /\ queue # <<>>
    /\ queue' = Tail(queue)
    /\ consumer' = [consumer EXCEPT ![c] = "out"]
    /\ UNCHANGED <<phase, notifying>>

\* Mutant: the end is reported although results are queued.
PopEnd_NoDrain(c) ==
    /\ HasMutex(c)
    /\ phase = "stopped"
    /\ consumer' = [consumer EXCEPT ![c] = "ended"]
    /\ UNCHANGED <<queue, phase, notifying>>

PopEnd(c) ==
    /\ HasMutex(c)
    /\ queue = <<>> /\ phase = "stopped"
    /\ consumer' = [consumer EXCEPT ![c] = "ended"]
    /\ UNCHANGED <<queue, phase, notifying>>

Next ==
    \/ \E p \in Producer : NotifyOne(p) \/ Stop(p) \/ \E x \in Item : Push(p, x)
    \/ \E c \in Consumer : Wait(c) \/ Spurious(c) \/ Pop(c) \/ PopEnd(c)

Spec == Init /\ [][Next]_vars

-----------------------------------------------------------------------------
(* The queue implements BoundedQueue. *)

TypeOK ==
    /\ queue \in Seq(Item)
    /\ phase \in {"open", "stopped"}
    /\ consumer \in [Consumer -> {"out", "waiting", "woken", "ended"}]
    /\ notifying \subseteq Producer

Abstract == INSTANCE BoundedQueue
              WITH ended <- {c \in Consumer : consumer[c] = "ended"}
================================================================================
