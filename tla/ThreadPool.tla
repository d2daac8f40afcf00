------------------------------ MODULE ThreadPool ------------------------------
(***************************************************************************)
(* dpool::ThreadPool (src/include/ThreadPool.hpp), the pool that runs the  *)
(* inferences.  It starts threads on demand up to maxThreads_, lets a      *)
(* thread go after WAIT_SECONDS without work, and has each thread that     *)
(* goes join the ones that went before it.                                 *)
(*                                                                         *)
(* A critical section of mutex_ is one step, save for joinFinishedThreads, *)
(* which waits for other threads while it holds the mutex: a worker that   *)
(* is "joining" holds it until it leaves.  Thread ids are those the system *)
(* has free: an id returns to "none" when its thread has been joined.      *)
(***************************************************************************)
EXTENDS Naturals, Sequences, FiniteSets

CONSTANTS
    Worker,     \* thread ids
    Task,       \* the tasks that may be submitted
    MaxThreads  \* maxThreads_ (12)

ASSUME ThreadPoolAssumption ==
    /\ IsFiniteSet(Worker)
    /\ MaxThreads \in Nat \ {0}

VARIABLES
    wpc,       \* per id: where worker() is, see TypeOK
    job,       \* per id: the task it has popped, {} or {t}
    tasks,     \* tasks_
    threads,   \* keys of threads_
    finished,  \* finishedThreadIDs_
    current,   \* currentThreads_
    idle,      \* idleThreads_
    phase,     \* "open"; the destructor has set quit_ "quit", has called
               \* notify_all "joining", has returned "gone"
    done       \* tasks that have run (history)

vars == <<wpc, job, tasks, threads, finished, current, idle, phase, done>>

In(S) == {w \in Worker : wpc[w] \in S}
MutexFree == In({"joining"}) = {}
Quit == phase # "open"
Submitted == done \union (UNION {job[w] : w \in Worker}) \union {tasks[i] : i \in DOMAIN tasks}

Init ==
    /\ wpc = [w \in Worker |-> "none"]
    /\ job = [w \in Worker |-> {}]
    /\ tasks = <<>>
    /\ threads = {}
    /\ finished = <<>>
    /\ current = 0
    /\ idle = 0
    /\ phase = "open"
    /\ done = {}

-----------------------------------------------------------------------------
(* submit *)

\* Mutant: nobody is notified.
NotifyOne_Missing == UNCHANGED wpc

NotifyOne ==
    IF In({"waiting"}) = {}
    THEN UNCHANGED wpc
    ELSE \E w \in In({"waiting"}) : wpc' = [wpc EXCEPT ![w] = "woken"]

Spawn ==
    \E w \in In({"none"}) :
      /\ wpc' = [wpc EXCEPT ![w] = "start"]
      /\ threads' = threads \union {w}
      /\ current' = current + 1

Submit(t) ==
    /\ phase = "open"         \* assert(!quit_): the callers have been joined
    /\ MutexFree
    /\ t \notin Submitted
    /\ tasks' = Append(tasks, t)
    /\ \/ idle > 0 /\ NotifyOne /\ UNCHANGED <<threads, current>>
       \/ idle = 0 /\ current < MaxThreads /\ Spawn
       \/ idle = 0 /\ current >= MaxThreads /\ UNCHANGED <<wpc, threads, current>>
    /\ UNCHANGED <<job, finished, idle, phase, done>>

-----------------------------------------------------------------------------
(* worker() *)

\* task = std::move(tasks_.front()); tasks_.pop();
PopTask(w) ==
    /\ tasks # <<>>
    /\ wpc' = [wpc EXCEPT ![w] = "run"]
    /\ job' = [job EXCEPT ![w] = {Head(tasks)}]
    /\ tasks' = Tail(tasks)
    /\ UNCHANGED <<threads, finished, current, phase, done>>

\* Mutant: a thread returns as soon as quit_ is set.
LeaveOnQuit_TasksLeft(w) ==
    /\ Quit
    /\ wpc' = [wpc EXCEPT ![w] = "leaving"]
    /\ current' = current - 1
    /\ UNCHANGED <<job, tasks, threads, finished, phase, done>>

\* quit_ is set and the queue is empty: the thread returns.
LeaveOnQuit(w) ==
    /\ tasks = <<>> /\ Quit
    /\ wpc' = [wpc EXCEPT ![w] = "leaving"]
    /\ current' = current - 1
    /\ UNCHANGED <<job, tasks, threads, finished, phase, done>>

\* The predicate of wait_for is false: wait.
Wait(w) ==
    /\ tasks = <<>> /\ ~Quit
    /\ wpc' = [wpc EXCEPT ![w] = "waiting"]
    /\ UNCHANGED <<job, tasks, threads, finished, current, phase, done>>

\* Locks mutex_ and looks at the predicate for the first time: idleThreads_
\* is counted up, and down again unless the thread waits.
Enter(w) ==
    /\ wpc[w] = "start"
    /\ MutexFree
    /\ \/ PopTask(w) /\ UNCHANGED idle
       \/ LeaveOnQuit(w) /\ UNCHANGED idle
       \/ Wait(w) /\ idle' = idle + 1

\* Wakes up, notified or not, and has the mutex again.
Wake(w) ==
    /\ wpc[w] = "woken"
    /\ MutexFree
    /\ \/ PopTask(w) /\ idle' = idle - 1
       \/ LeaveOnQuit(w) /\ idle' = idle - 1
       \/ Wait(w) /\ UNCHANGED idle

Spurious(w) ==
    /\ wpc[w] = "waiting"
    /\ wpc' = [wpc EXCEPT ![w] = "woken"]
    /\ UNCHANGED <<job, tasks, threads, finished, current, idle, phase, done>>

\* WAIT_SECONDS have passed: the thread is no longer there to be notified,
\* and has to get the mutex before it can look.
TimeOut(w) ==
    /\ wpc[w] = "waiting"
    /\ wpc' = [wpc EXCEPT ![w] = "timedout"]
    /\ UNCHANGED <<job, tasks, threads, finished, current, idle, phase, done>>

\* Mutant: quit_ is not looked at after a timeout.
Retire_OnQuit(w) ==
    /\ tasks = <<>>
    /\ wpc' = [wpc EXCEPT ![w] = "joining"]
    /\ current' = current - 1
    /\ UNCHANGED <<job, tasks, threads, finished, phase, done>>

\* Timed out and nothing to do: the thread will go.
Retire(w) ==
    /\ tasks = <<>> /\ ~Quit
    /\ wpc' = [wpc EXCEPT ![w] = "joining"]
    /\ current' = current - 1
    /\ UNCHANGED <<job, tasks, threads, finished, phase, done>>

\* Mutant: a thread that timed out stays counted as idle.
AfterTimeOut_StillIdle(w) ==
    /\ wpc[w] = "timedout"
    /\ MutexFree
    /\ PopTask(w) \/ LeaveOnQuit(w) \/ Retire(w)
    /\ UNCHANGED idle

AfterTimeOut(w) ==
    /\ wpc[w] = "timedout"
    /\ MutexFree
    /\ PopTask(w) \/ LeaveOnQuit(w) \/ Retire(w)
    /\ idle' = idle - 1

\* joinFinishedThreads, holding the mutex: one join ...
Join(w) ==
    /\ wpc[w] = "joining"
    /\ finished # <<>>
    /\ wpc[Head(finished)] = "ended"
    /\ wpc' = [wpc EXCEPT ![Head(finished)] = "none"]
    /\ threads' = threads \ {Head(finished)}
    /\ finished' = Tail(finished)
    /\ UNCHANGED <<job, tasks, current, idle, phase, done>>

\* Mutant: the finished threads are not joined first.
Retired_NoJoin(w) ==
    /\ wpc[w] = "joining"
    /\ finished' = Append(finished, w)
    /\ wpc' = [wpc EXCEPT ![w] = "leaving"]
    /\ UNCHANGED <<job, tasks, threads, current, idle, phase, done>>

\* ... and, when there is none left, leave the own id behind and return.
Retired(w) ==
    /\ wpc[w] = "joining"
    /\ finished = <<>>
    /\ finished' = <<w>>
    /\ wpc' = [wpc EXCEPT ![w] = "leaving"]
    /\ UNCHANGED <<job, tasks, threads, current, idle, phase, done>>

\* The thread has ended and can be joined.
End(w) ==
    /\ wpc[w] = "leaving"
    /\ wpc' = [wpc EXCEPT ![w] = "ended"]
    /\ UNCHANGED <<job, tasks, threads, finished, current, idle, phase, done>>

Run(w) ==
    /\ wpc[w] = "run"
    /\ wpc' = [wpc EXCEPT ![w] = "start"]
    /\ done' = done \union job[w]
    /\ job' = [job EXCEPT ![w] = {}]
    /\ UNCHANGED <<tasks, threads, finished, current, idle, phase>>

WorkerStep(w) ==
    \/ Enter(w) \/ Wake(w) \/ AfterTimeOut(w)
    \/ Join(w) \/ Retired(w) \/ End(w) \/ Run(w)

-----------------------------------------------------------------------------
(* ~ThreadPool *)

SetQuit ==
    /\ phase = "open"
    /\ MutexFree
    /\ phase' = "quit"
    /\ UNCHANGED <<wpc, job, tasks, threads, finished, current, idle, done>>

\* Mutant: notify_one instead of notify_all.
NotifyAll_One ==
    /\ phase = "quit"
    /\ phase' = "joining"
    /\ NotifyOne
    /\ UNCHANGED <<job, tasks, threads, finished, current, idle, done>>

NotifyAll ==
    /\ phase = "quit"
    /\ phase' = "joining"
    /\ wpc' = [w \in Worker |-> IF wpc[w] = "waiting" THEN "woken" ELSE wpc[w]]
    /\ UNCHANGED <<job, tasks, threads, finished, current, idle, done>>

\* Every thread of threads_ has been joined.
JoinAll ==
    /\ phase = "joining"
    /\ \A w \in threads : wpc[w] = "ended"
    /\ phase' = "gone"
    /\ UNCHANGED <<wpc, job, tasks, threads, finished, current, idle, done>>

Destructor == SetQuit \/ NotifyAll \/ JoinAll

Next ==
    \/ \E t \in Task : Submit(t)
    \/ \E w \in Worker : WorkerStep(w) \/ Spurious(w) \/ TimeOut(w)
    \/ Destructor

Spec == Init /\ [][Next]_vars

\* Threads run, and a destructor that has begun goes on.  Neither a spurious
\* wake-up nor a timeout is needed for progress.
FairSpec ==
    /\ Spec
    /\ \A w \in Worker : WF_vars(WorkerStep(w))
    /\ WF_vars(NotifyAll \/ JoinAll)

-----------------------------------------------------------------------------
(* Safety *)

TypeOK ==
    /\ wpc \in [Worker -> {"none", "start", "waiting", "woken", "timedout",
                           "run", "joining", "leaving", "ended"}]
    /\ job \in [Worker -> SUBSET Task]
    /\ tasks \in Seq(Task)
    /\ threads \subseteq Worker
    /\ finished \in Seq(Worker)
    /\ current \in Nat
    /\ idle \in Nat
    /\ phase \in {"open", "quit", "joining", "gone"}
    /\ done \subseteq Task

Idle == In({"waiting", "woken", "timedout"})
Live == In({"start", "run"}) \union Idle

\* idleThreads_ and currentThreads_ are what their names say although each
\* is adjusted in several places, and the latter respects maxThreads_: submit
\* relies on both to notify or spawn.
CountersExact ==
    /\ idle = Cardinality(Idle)
    /\ current = Cardinality(Live)
    /\ current <= MaxThreads

\* threads_ holds every thread that was started and not joined (asserts at
\* :85, :145 and :146), the live ones and at most one that went.  That one has
\* given up the mutex for good, so that joining it under the mutex cannot
\* block for ever, and no thread joins itself.
FinishedJoinable ==
    /\ threads = Worker \ In({"none"})
    /\ Cardinality(threads) <= MaxThreads + 1
    /\ Len(finished) <= 1
    /\ \A i \in DOMAIN finished : finished[i] \in In({"leaving", "ended"})

\* A queued task does not depend on a timeout to be noticed: some thread is
\* awake, or busy and going to look at the queue afterwards.
NoTaskAbandoned ==
    tasks # <<>> => In({"start", "woken", "timedout", "run"}) # {}

\* While the destructor iterates over threads_ no worker changes it.
ThreadsFrozenOnJoin == [][phase = "joining" => threads' = threads]_vars

\* The pool implements the abstract task pool: tasks are started once and in
\* order, every task that is submitted runs, also while the pool is being
\* destroyed, and the destructor returns when, and only when, all have run.
Pool == INSTANCE TaskPool WITH
    queue  <- tasks,
    active <- UNION {job[w] : w \in Worker},
    phase  <- IF phase \in {"quit", "joining"} THEN "closed" ELSE phase

PoolSpec == Pool!Spec
===============================================================================
