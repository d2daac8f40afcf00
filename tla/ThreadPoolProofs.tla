---------------------------- MODULE ThreadPoolProofs ----------------------------
(***************************************************************************)
(* ThreadPool.tla keeps its safety properties for every set of thread ids, *)
(* every set of tasks and every maxThreads_.                               *)
(***************************************************************************)
EXTENDS ThreadPool, FiniteSetTheorems, TLAPS

IdleStates == {"waiting", "woken", "timedout"}
LiveStates == {"start", "run"} \union IdleStates
GoneStates == {"leaving", "ended"}

\* While the pool is open the only thread that has gone and is not yet joined
\* is the one in finishedThreadIDs_, and at most one worker joins; the threads
\* that return because of quit_ come later, when nobody joins any more.
GoneInTurn ==
    /\ finished = <<>> \/ \E w \in In(GoneStates) : finished = <<w>>
    /\ phase = "open" => \A w \in In(GoneStates) : finished = <<w>>
    /\ phase # "open" => MutexFree
    /\ \A v, w \in In({"joining"}) : v = w

IInv ==
    /\ TypeOK
    /\ CountersExact
    /\ GoneInTurn
    /\ threads = Worker \ In({"none"})
    /\ Cardinality(threads) <= MaxThreads + 1
    /\ NoTaskAbandoned

-----------------------------------------------------------------------------
(* Counting threads *)

LEMMA CountsTyped ==
    ASSUME NEW S
    PROVE  IsFiniteSet(In(S)) /\ Cardinality(In(S)) \in Nat
<1>1. In(S) \in SUBSET Worker
  BY DEF In
<1>2. IsFiniteSet(In(S))
  BY <1>1, FS_Subset, ThreadPoolAssumption
<1>3. QED
  BY <1>2, FS_CardinalityType

LEMMA OneMore ==
    ASSUME NEW S, NEW x, IsFiniteSet(S)
    PROVE  /\ Cardinality(S) \in Nat
           /\ IsFiniteSet(S \union {x})
           /\ Cardinality(S \union {x}) \in Nat
           /\ Cardinality(S \union {x}) <= Cardinality(S) + 1
<1>1. /\ IsFiniteSet(S \union {x})
      /\ \/ Cardinality(S \union {x}) = Cardinality(S)
         \/ Cardinality(S \union {x}) = Cardinality(S) + 1
  BY FS_AddElement
<1>2. Cardinality(S) \in Nat
  BY FS_CardinalityType
<1>3. QED
  BY <1>1, <1>2

LEMMA Groups ==
    Idle = In(IdleStates) /\ Live = In(LiveStates)
BY DEF Idle, Live, In, IdleStates, LiveStates

Moves(w, to) == wpc' = [wpc EXCEPT ![w] = to]

\* One thread moves from one place to another.
LEMMA OneMoves ==
    ASSUME TypeOK, NEW w \in Worker, NEW to, NEW S, Moves(w, to)
    PROVE  /\ In(S)' = IF to \in S THEN In(S) \union {w} ELSE In(S) \ {w}
           /\ Cardinality(In(S)') =
                IF to \in S /\ wpc[w] \notin S THEN Cardinality(In(S)) + 1
                ELSE IF to \notin S /\ wpc[w] \in S THEN Cardinality(In(S)) - 1
                ELSE Cardinality(In(S))
<1>1. w \in In(S) <=> wpc[w] \in S
  BY DEF In
<1>2. In(S)' = IF to \in S THEN In(S) \union {w} ELSE In(S) \ {w}
  BY DEF In, TypeOK, Moves
<1>3. IsFiniteSet(In(S))
  BY CountsTyped
<1>4. /\ Cardinality(In(S) \union {w}) =
           IF w \in In(S) THEN Cardinality(In(S)) ELSE Cardinality(In(S)) + 1
      /\ Cardinality(In(S) \ {w}) =
           IF w \in In(S) THEN Cardinality(In(S)) - 1 ELSE Cardinality(In(S))
  BY <1>3, FS_AddElement, FS_RemoveElement
<1>5. QED
  BY <1>1, <1>2, <1>4

\* The same for the two groups of threads the pool counts.
LEMMA CountsMove ==
    ASSUME TypeOK, NEW w \in Worker, NEW to, Moves(w, to)
    PROVE  /\ Cardinality(Idle') =
                IF to \in IdleStates /\ wpc[w] \notin IdleStates THEN Cardinality(Idle) + 1
                ELSE IF to \notin IdleStates /\ wpc[w] \in IdleStates THEN Cardinality(Idle) - 1
                ELSE Cardinality(Idle)
           /\ Cardinality(Live') =
                IF to \in LiveStates /\ wpc[w] \notin LiveStates THEN Cardinality(Live) + 1
                ELSE IF to \notin LiveStates /\ wpc[w] \in LiveStates THEN Cardinality(Live) - 1
                ELSE Cardinality(Live)
<1>1. Idle' = In(IdleStates)' /\ Live' = In(LiveStates)'
  BY DEF Idle, Live, In, IdleStates, LiveStates
<1>2. QED
  BY <1>1, Groups, OneMoves

-----------------------------------------------------------------------------
(* What a worker does once it has the mutex, wherever it was before *)

Counted(w) == IF wpc[w] = "start" THEN idle ELSE idle - 1

Takes(w) ==
    /\ wpc[w] \in {"start", "woken", "timedout"} /\ MutexFree
    /\ PopTask(w) /\ idle' = Counted(w)

Leaves(w) ==
    /\ wpc[w] \in {"start", "woken", "timedout"} /\ MutexFree
    /\ LeaveOnQuit(w) /\ idle' = Counted(w)

Waits(w) ==
    /\ wpc[w] \in {"start", "woken"} /\ MutexFree
    /\ Wait(w) /\ idle' = Counted(w) + 1

Retires(w) ==
    /\ wpc[w] = "timedout" /\ MutexFree
    /\ Retire(w) /\ idle' = idle - 1

LEMMA WithMutex ==
    ASSUME IInv, NEW w \in Worker, Enter(w) \/ Wake(w) \/ AfterTimeOut(w)
    PROVE  Takes(w) \/ Leaves(w) \/ Waits(w) \/ Retires(w)
<1>1. idle \in Nat
  BY DEF IInv, TypeOK
<1>2. CASE Enter(w)
  BY <1>1, <1>2 DEF Enter, Takes, Leaves, Waits, Counted
<1>3. CASE Wake(w)
  BY <1>1, <1>3 DEF Wake, Takes, Leaves, Waits, Counted
<1>4. CASE AfterTimeOut(w)
  BY <1>1, <1>4 DEF AfterTimeOut, Takes, Leaves, Retires, Counted
<1>5. QED
  BY <1>2, <1>3, <1>4

\* Either a task is submitted, a thread moves, or the destructor.
StepCases ==
    \/ \E t \in Task : Submit(t)
    \/ \E w \in Worker :
          \/ Takes(w) \/ Leaves(w) \/ Waits(w) \/ Retires(w)
          \/ Join(w) \/ Retired(w) \/ End(w) \/ Run(w)
          \/ Spurious(w) \/ TimeOut(w)
    \/ SetQuit \/ NotifyAll \/ JoinAll
    \/ UNCHANGED vars

LEMMA StepsSorted ==
    ASSUME IInv, [Next]_vars
    PROVE  StepCases
BY WithMutex DEF Next, WorkerStep, Destructor, StepCases

-----------------------------------------------------------------------------
(* idleThreads_ and currentThreads_ *)

LEMMA SubmitCounts ==
    ASSUME IInv, NEW t \in Task, Submit(t)
    PROVE  CountersExact'
<1> USE ThreadPoolAssumption DEF CountersExact
<1>1. /\ TypeOK /\ CountersExact /\ idle \in Nat /\ current \in Nat
      /\ idle' = idle
  BY DEF IInv, TypeOK, Submit
<1>2. CASE UNCHANGED <<wpc, current>>
  BY <1>1, <1>2 DEF Idle, Live, In
<1>3. CASE NotifyOne /\ wpc' # wpc /\ UNCHANGED current
  <2>1. PICK w \in In({"waiting"}) : Moves(w, "woken")
    BY <1>3 DEF NotifyOne, Moves
  <2>2. w \in Worker /\ wpc[w] = "waiting"
    BY <2>1 DEF In
  <2>3. QED
    BY <1>1, <1>3, <2>1, <2>2, CountsMove DEF IdleStates, LiveStates
<1>4. CASE Spawn /\ current < MaxThreads
  <2>1. PICK w \in In({"none"}) : Moves(w, "start") /\ current' = current + 1
    BY <1>4 DEF Spawn, Moves
  <2>2. w \in Worker /\ wpc[w] = "none"
    BY <2>1 DEF In
  <2>3. QED
    BY <1>1, <1>4, <2>1, <2>2, CountsMove DEF IdleStates, LiveStates
<1>5. QED
  BY <1>2, <1>3, <1>4 DEF Submit, NotifyOne

LEMMA WorkerCounts ==
    ASSUME IInv, NEW w \in Worker,
           \/ Takes(w) \/ Leaves(w) \/ Waits(w) \/ Retires(w)
           \/ Retired(w) \/ End(w) \/ Run(w) \/ Spurious(w) \/ TimeOut(w)
    PROVE  CountersExact'
<1> USE ThreadPoolAssumption DEF CountersExact
<1>1. TypeOK /\ CountersExact /\ idle \in Nat /\ current \in Nat
  BY DEF IInv, TypeOK
<1>2. CASE Takes(w)
  <2>1. Moves(w, "run") /\ current' = current
    BY <1>2 DEF Takes, PopTask, Moves
  <2>2. QED
    BY <1>1, <1>2, <2>1, CountsMove DEF Takes, Counted, IdleStates, LiveStates
<1>3. CASE Leaves(w)
  <2>1. Moves(w, "leaving") /\ current' = current - 1
    BY <1>3 DEF Leaves, LeaveOnQuit, Moves
  <2>2. QED
    BY <1>1, <1>3, <2>1, CountsMove DEF Leaves, Counted, IdleStates, LiveStates
<1>4. CASE Waits(w)
  <2>1. Moves(w, "waiting") /\ current' = current
    BY <1>4 DEF Waits, Wait, Moves
  <2>2. QED
    BY <1>1, <1>4, <2>1, CountsMove DEF Waits, Counted, IdleStates, LiveStates
<1>5. CASE Retires(w)
  <2>1. Moves(w, "joining") /\ current' = current - 1
    BY <1>5 DEF Retires, Retire, Moves
  <2>2. QED
    BY <1>1, <1>5, <2>1, CountsMove DEF Retires, IdleStates, LiveStates
<1>6. CASE Retired(w)
  <2>1. Moves(w, "leaving") /\ wpc[w] = "joining" /\ UNCHANGED <<idle, current>>
    BY <1>6 DEF Retired, Moves
  <2>2. QED
    BY <1>1, <2>1, CountsMove DEF IdleStates, LiveStates
<1>7. CASE End(w)
  <2>1. Moves(w, "ended") /\ wpc[w] = "leaving" /\ UNCHANGED <<idle, current>>
    BY <1>7 DEF End, Moves
  <2>2. QED
    BY <1>1, <2>1, CountsMove DEF IdleStates, LiveStates
<1>8. CASE Run(w)
  <2>1. Moves(w, "start") /\ wpc[w] = "run" /\ UNCHANGED <<idle, current>>
    BY <1>8 DEF Run, Moves
  <2>2. QED
    BY <1>1, <2>1, CountsMove DEF IdleStates, LiveStates
<1>9. CASE Spurious(w)
  <2>1. Moves(w, "woken") /\ wpc[w] = "waiting" /\ UNCHANGED <<idle, current>>
    BY <1>9 DEF Spurious, Moves
  <2>2. QED
    BY <1>1, <2>1, CountsMove DEF IdleStates, LiveStates
<1>10. CASE TimeOut(w)
  <2>1. Moves(w, "timedout") /\ wpc[w] = "waiting" /\ UNCHANGED <<idle, current>>
    BY <1>10 DEF TimeOut, Moves
  <2>2. QED
    BY <1>1, <2>1, CountsMove DEF IdleStates, LiveStates
<1>11. QED
  BY <1>2, <1>3, <1>4, <1>5, <1>6, <1>7, <1>8, <1>9, <1>10

LEMMA Counting ==
    ASSUME IInv, [Next]_vars
    PROVE  CountersExact'
<1>1. ASSUME NEW w \in Worker, Join(w) PROVE CountersExact'
  <2>1. PICK v \in Worker : wpc[v] = "ended" /\ Moves(v, "none")
    <3>1. finished \in Seq(Worker) /\ finished # <<>>
      BY <1>1 DEF Join, IInv, TypeOK
    <3>2. Head(finished) \in Worker
      BY <3>1
    <3>3. QED
      BY <1>1, <3>2 DEF Join, Moves
  <2>2. QED
    BY <1>1, <2>1, CountsMove DEF IInv, CountersExact, Join, IdleStates, LiveStates
<1>2. CASE NotifyAll
  <2>1. Idle' = Idle /\ Live' = Live
    BY <1>2 DEF NotifyAll, Idle, Live, In, IInv, TypeOK
  <2>2. QED
    BY <1>2, <2>1 DEF NotifyAll, IInv, CountersExact
<1>3. CASE SetQuit \/ JoinAll \/ UNCHANGED vars
  BY <1>3 DEF SetQuit, JoinAll, vars, IInv, CountersExact, Idle, Live, In
<1>4. QED
  BY <1>1, <1>2, <1>3, StepsSorted, SubmitCounts, WorkerCounts DEF StepCases
-----------------------------------------------------------------------------
(* The threads that were started, and those that have gone *)

LEMMA GoneKept ==
    ASSUME IInv, [Next]_vars
    PROVE  GoneInTurn'
<1> USE DEF GoneInTurn, GoneStates, In
<1> TypeOK /\ GoneInTurn
  BY DEF IInv
<1>1. ASSUME NEW t \in Task, Submit(t)
      PROVE  GoneInTurn'
  <2>1. CASE UNCHANGED wpc
    BY <1>1, <2>1 DEF Submit, MutexFree
  <2>2. CASE NotifyOne /\ wpc' # wpc
    <3>1. PICK w \in Worker : wpc[w] = "waiting" /\ wpc' = [wpc EXCEPT ![w] = "woken"]
      BY <2>2 DEF NotifyOne
    <3>2. QED
      BY <1>1, <3>1 DEF Submit, TypeOK, MutexFree
  <2>3. CASE Spawn
    <3>1. PICK w \in Worker : wpc[w] = "none" /\ wpc' = [wpc EXCEPT ![w] = "start"]
      BY <2>3 DEF Spawn
    <3>2. QED
      BY <1>1, <3>1 DEF Submit, TypeOK, MutexFree
  <2>4. QED
    BY <1>1, <2>1, <2>2, <2>3 DEF Submit, NotifyOne
<1>2. ASSUME NEW w \in Worker, Takes(w) \/ Waits(w)
      PROVE  GoneInTurn'
  BY <1>2 DEF Takes, Waits, PopTask, Wait, TypeOK, MutexFree
<1>3. ASSUME NEW w \in Worker, Leaves(w)
      PROVE  GoneInTurn'
  BY <1>3 DEF Leaves, LeaveOnQuit, Quit, TypeOK, MutexFree
<1>4. ASSUME NEW w \in Worker, Retires(w)
      PROVE  GoneInTurn'
  BY <1>4 DEF Retires, Retire, Quit, TypeOK, MutexFree
<1>5. ASSUME NEW w \in Worker, Join(w)
      PROVE  GoneInTurn'
  <2>1. PICK v \in Worker : finished = <<v>> /\ wpc[v] = "ended"
    BY <1>5 DEF Join
  <2>2. finished' = <<>> /\ wpc' = [wpc EXCEPT ![v] = "none"] /\ phase' = phase
    BY <1>5, <2>1 DEF Join
  <2>3. phase = "open"
    BY <1>5 DEF Join, MutexFree
  <2>4. QED
    BY <2>1, <2>2, <2>3 DEF TypeOK, MutexFree
<1>6. ASSUME NEW w \in Worker, Retired(w)
      PROVE  GoneInTurn'
  BY <1>6 DEF Retired, TypeOK, MutexFree
<1>7. ASSUME NEW w \in Worker, End(w)
      PROVE  GoneInTurn'
  BY <1>7 DEF End, TypeOK, MutexFree
<1>8. ASSUME NEW w \in Worker, Run(w) \/ Spurious(w) \/ TimeOut(w)
      PROVE  GoneInTurn'
  BY <1>8 DEF Run, Spurious, TimeOut, TypeOK, MutexFree
<1>9. CASE SetQuit \/ JoinAll \/ UNCHANGED vars
  BY <1>9 DEF SetQuit, JoinAll, vars, MutexFree
<1>10. CASE NotifyAll
  BY <1>10 DEF NotifyAll, TypeOK, MutexFree
<1>11. QED
  BY <1>1, <1>2, <1>3, <1>4, <1>5, <1>6, <1>7, <1>8, <1>9, <1>10, StepsSorted
     DEF StepCases

\* While the pool is open at most one of the threads is not counted in
\* currentThreads_, apart from one that is joining.
LEMMA Uncounted ==
    ASSUME IInv, phase = "open", MutexFree
    PROVE  Cardinality(threads) <= current + 1
<1>1. PICK v : In(GoneStates) \subseteq {v}
  BY DEF IInv, GoneInTurn
<1>2. threads = Live \union In(GoneStates)
  BY DEF IInv, TypeOK, In, Live, Idle, GoneStates, MutexFree
<1>3. IsFiniteSet(Live) /\ Cardinality(Live) \in Nat /\ current = Cardinality(Live)
  BY Groups, CountsTyped DEF IInv, CountersExact
<1>4. /\ IsFiniteSet(Live \union {v})
      /\ Cardinality(Live \union {v}) \in Nat
      /\ Cardinality(Live \union {v}) <= Cardinality(Live) + 1
  BY <1>3, OneMore
<1>5. threads \in SUBSET (Live \union {v})
  BY <1>1, <1>2
<1>6. /\ IsFiniteSet(threads) /\ Cardinality(threads) \in Nat
      /\ Cardinality(threads) <= Cardinality(Live \union {v})
  BY <1>4, <1>5, FS_Subset, FS_CardinalityType
<1>7. QED
  BY <1>3, <1>4, <1>6

LEMMA ThreadsKept ==
    ASSUME IInv, [Next]_vars
    PROVE  /\ threads' = Worker \ In({"none"})'
           /\ Cardinality(threads') <= MaxThreads + 1
<1> USE DEF In
<1> /\ TypeOK /\ GoneInTurn /\ threads = Worker \ In({"none"})
    /\ Cardinality(threads) <= MaxThreads + 1
  BY DEF IInv
<1> DEFINE Kept == /\ threads' = Worker \ In({"none"})'
                   /\ Cardinality(threads') <= MaxThreads + 1
<1>1. ASSUME NEW t \in Task, Submit(t)
      PROVE  Kept
  <2>1. CASE UNCHANGED <<wpc, threads>>
    BY <2>1
  <2>2. CASE NotifyOne /\ wpc' # wpc /\ UNCHANGED threads
    BY <2>2 DEF NotifyOne, TypeOK
  <2>3. CASE Spawn /\ current < MaxThreads
    <3>1. PICK w \in Worker : /\ wpc[w] = "none" /\ wpc' = [wpc EXCEPT ![w] = "start"]
                              /\ threads' = threads \union {w}
      BY <2>3 DEF Spawn
    <3>2. Cardinality(threads) <= current + 1
      BY <1>1, Uncounted DEF Submit
    <3>3. IsFiniteSet(threads) /\ Cardinality(threads) \in Nat
      BY FS_Subset, FS_CardinalityType, ThreadPoolAssumption DEF TypeOK
    <3>4. Cardinality(threads') <= Cardinality(threads) + 1 /\ Cardinality(threads') \in Nat
      BY <3>1, <3>3, OneMore
    <3>5. current \in Nat /\ MaxThreads \in Nat
      BY ThreadPoolAssumption DEF TypeOK
    <3>6. Cardinality(threads') <= MaxThreads + 1
      BY <2>3, <3>2, <3>3, <3>4, <3>5
    <3>7. threads' = Worker \ In({"none"})'
      BY <3>1 DEF TypeOK
    <3>8. QED
      BY <3>6, <3>7
  <2>4. QED
    BY <1>1, <2>1, <2>2, <2>3 DEF Submit, NotifyOne
<1>2. ASSUME NEW w \in Worker, Join(w)
      PROVE  Kept
  <2>1. PICK v \in Worker : finished = <<v>>
    BY <1>2 DEF Join, GoneInTurn
  <2>2. wpc' = [wpc EXCEPT ![v] = "none"] /\ threads' = threads \ {v}
    BY <1>2, <2>1 DEF Join
  <2>3. IsFiniteSet(threads) /\ Cardinality(threads) \in Nat
    BY FS_Subset, FS_CardinalityType, ThreadPoolAssumption DEF TypeOK
  <2>4. Cardinality(threads') <= Cardinality(threads) /\ Cardinality(threads') \in Nat
    BY <2>2, <2>3, FS_RemoveElement, FS_CardinalityType
  <2>5. threads' = Worker \ In({"none"})'
    BY <2>2 DEF TypeOK
  <2>6. QED
    BY <2>3, <2>4, <2>5, ThreadPoolAssumption
<1>3. ASSUME NEW w \in Worker,
             \/ Takes(w) \/ Leaves(w) \/ Waits(w) \/ Retires(w)
             \/ Retired(w) \/ End(w) \/ Run(w) \/ Spurious(w) \/ TimeOut(w)
      PROVE  Kept
  <2>1. threads' = threads /\ wpc[w] # "none"
    BY <1>3 DEF Takes, Leaves, Waits, Retires, PopTask, LeaveOnQuit, Wait, Retire,
                Retired, End, Run, Spurious, TimeOut
  <2>2. \E to : to # "none" /\ wpc' = [wpc EXCEPT ![w] = to]
    BY <1>3 DEF Takes, Leaves, Waits, Retires, PopTask, LeaveOnQuit, Wait, Retire,
                Retired, End, Run, Spurious, TimeOut
  <2>3. QED
    BY <2>1, <2>2 DEF TypeOK
<1>4. CASE SetQuit \/ JoinAll \/ UNCHANGED vars
  BY <1>4 DEF SetQuit, JoinAll, vars
<1>5. CASE NotifyAll
  BY <1>5 DEF NotifyAll, TypeOK
<1>6. QED
  BY <1>1, <1>2, <1>3, <1>4, <1>5, StepsSorted DEF StepCases

-----------------------------------------------------------------------------
(* The queue is looked at *)

\* The counters tell whether there is an idle, or a live, thread.
LEMMA Occupied ==
    ASSUME IInv
    PROVE  /\ idle = 0 <=> Idle = {}
           /\ current = 0 <=> Live = {}
<1>1. /\ IsFiniteSet(Idle) /\ idle = Cardinality(Idle)
      /\ IsFiniteSet(Live) /\ current = Cardinality(Live)
  BY Groups, CountsTyped DEF IInv, CountersExact
<1>2. QED
  BY <1>1, FS_EmptySet

LEMMA AttentionKept ==
    ASSUME IInv, [Next]_vars
    PROVE  NoTaskAbandoned'
<1> USE DEF In
<1> TypeOK /\ NoTaskAbandoned
  BY DEF IInv
<1> SUFFICES ASSUME tasks' # <<>>
             PROVE  \E v \in Worker : wpc'[v] \in {"start", "woken", "timedout", "run"}
  BY DEF NoTaskAbandoned
<1> DEFINE Attended == \E v \in Worker : wpc'[v] \in {"start", "woken", "timedout", "run"}
<1>1. ASSUME NEW t \in Task, Submit(t)
      PROVE  Attended
  <2>1. CASE idle > 0 /\ In({"waiting"}) # {} /\ NotifyOne
    BY <2>1 DEF NotifyOne, TypeOK
  <2>2. CASE idle > 0 /\ In({"waiting"}) = {} /\ UNCHANGED wpc
    <3>1. Idle # {}
      BY <2>2, Occupied
    <3>2. QED
      BY <2>2, <3>1 DEF Idle
  <2>3. CASE Spawn
    BY <2>3 DEF Spawn, TypeOK
  <2>4. CASE idle = 0 /\ current >= MaxThreads /\ UNCHANGED wpc
    <3>1. Idle = {}
      BY <2>4, Occupied
    <3>2. Live # {}
      <4>1. current # 0
        BY <2>4, ThreadPoolAssumption DEF TypeOK
      <4>2. QED
        BY <4>1, Occupied
    <3>3. QED
      BY <2>4, <3>1, <3>2 DEF Live
  <2>5. QED
    BY <1>1, <2>1, <2>2, <2>3, <2>4 DEF Submit, NotifyOne
<1>2. ASSUME NEW w \in Worker, Takes(w)
      PROVE  Attended
  BY <1>2 DEF Takes, PopTask, TypeOK
<1>3. ASSUME NEW w \in Worker, Leaves(w) \/ Waits(w) \/ Retires(w)
      PROVE  Attended
  BY <1>3 DEF Leaves, LeaveOnQuit, Waits, Wait, Retires, Retire
<1>4. ASSUME NEW v \in Worker, wpc[v] \in {"start", "woken", "timedout", "run"},
             NEW w \in Worker,
             Join(w) \/ Retired(w) \/ End(w) \/ Run(w) \/ Spurious(w) \/ TimeOut(w)
      PROVE  Attended
  <2>1. CASE Join(w)
    <3>1. PICK u : finished = <<u>>
      BY <2>1 DEF Join, IInv, GoneInTurn
    <3>2. Head(finished) = u
      BY <3>1
    <3>3. wpc[u] = "ended" /\ wpc' = [wpc EXCEPT ![u] = "none"]
      BY <2>1, <3>2 DEF Join
    <3>4. wpc'[v] = wpc[v]
      BY <1>4, <3>3 DEF TypeOK
    <3>5. QED
      BY <1>4, <3>4
  <2>2. CASE Retired(w) \/ End(w)
    <3>1. wpc'[v] = wpc[v]
      BY <1>4, <2>2 DEF Retired, End, TypeOK
    <3>2. QED
      BY <1>4, <3>1
  <2>3. CASE Run(w) \/ Spurious(w) \/ TimeOut(w)
    <3>1. wpc'[w] \in {"start", "woken", "timedout"}
      BY <2>3 DEF Run, Spurious, TimeOut, TypeOK
    <3>2. QED
      BY <3>1
  <2>4. QED
    BY <1>4, <2>1, <2>2, <2>3
<1>5. ASSUME NEW v \in Worker, wpc[v] \in {"start", "woken", "timedout", "run"},
             SetQuit \/ NotifyAll \/ JoinAll \/ UNCHANGED vars
      PROVE  Attended
  BY <1>5 DEF SetQuit, NotifyAll, JoinAll, vars
<1>6. CASE tasks # <<>>
  <2>1. \E v \in Worker : wpc[v] \in {"start", "woken", "timedout", "run"}
    BY <1>6 DEF NoTaskAbandoned
  <2>2. QED
    BY <2>1, <1>1, <1>2, <1>3, <1>4, <1>5, StepsSorted DEF StepCases
<1>7. CASE tasks = <<>>
  <2>1. \E t \in Task : Submit(t)
    BY <1>7, StepsSorted DEF StepCases, Takes, PopTask, Leaves, LeaveOnQuit, Waits, Wait,
       Retires, Retire, Join, Retired, End, Run, Spurious, TimeOut, SetQuit, NotifyAll,
       JoinAll, vars
  <2>2. QED
    BY <1>1, <2>1
<1>8. QED
  BY <1>6, <1>7

-----------------------------------------------------------------------------
(* The invariant *)

LEMMA TypeKept ==
    ASSUME IInv, [Next]_vars
    PROVE  TypeOK'
<1> TypeOK /\ GoneInTurn
  BY DEF IInv
<1>1. idle' \in Nat /\ current' \in Nat
  <2>1. CountersExact'
    BY Counting
  <2>2. Idle' = In(IdleStates)' /\ Live' = In(LiveStates)'
    BY DEF Idle, Live, In, IdleStates, LiveStates
  <2>3. \A S : IsFiniteSet(In(S)') /\ Cardinality(In(S)') \in Nat
    <3>1. TAKE S
    <3>2. In(S)' \in SUBSET Worker
      BY DEF In
    <3>3. QED
      BY <3>2, FS_Subset, FS_CardinalityType, ThreadPoolAssumption
  <2>4. QED
    BY <2>1, <2>2, <2>3 DEF CountersExact
<1> DEFINE Rest ==
      /\ wpc' \in [Worker -> {"none", "start", "waiting", "woken", "timedout",
                              "run", "joining", "leaving", "ended"}]
      /\ job' \in [Worker -> SUBSET Task]
      /\ tasks' \in Seq(Task)
      /\ threads' \subseteq Worker
      /\ finished' \in Seq(Worker)
      /\ phase' \in {"open", "quit", "joining", "gone"}
      /\ done' \subseteq Task
<1>2. ASSUME NEW t \in Task, Submit(t)
      PROVE  Rest
  BY <1>2 DEF Submit, NotifyOne, Spawn, In, TypeOK
<1>3. ASSUME NEW w \in Worker, Takes(w)
      PROVE  Rest
  BY <1>3 DEF Takes, PopTask, TypeOK
<1>4. ASSUME NEW w \in Worker, Leaves(w) \/ Waits(w) \/ Retires(w)
      PROVE  Rest
  BY <1>4 DEF Leaves, LeaveOnQuit, Waits, Wait, Retires, Retire, TypeOK
<1>5. ASSUME NEW w \in Worker, Join(w)
      PROVE  Rest
  BY <1>5 DEF Join, TypeOK
<1>6. ASSUME NEW w \in Worker, Run(w)
      PROVE  Rest
  BY <1>6 DEF Run, TypeOK
<1>7. ASSUME NEW w \in Worker, Retired(w) \/ End(w) \/ Spurious(w) \/ TimeOut(w)
      PROVE  Rest
  <2>1. <<w>> \in Seq(Worker)
    OBVIOUS
  <2>2. QED
    BY <1>7, <2>1 DEF Retired, End, Spurious, TimeOut, TypeOK
<1>8. Rest
  <2>1. CASE SetQuit \/ JoinAll \/ UNCHANGED vars
    BY <2>1 DEF SetQuit, JoinAll, vars, TypeOK
  <2>2. CASE NotifyAll
    BY <2>2 DEF NotifyAll, TypeOK
  <2>3. QED
    BY <2>1, <2>2, <1>2, <1>3, <1>4, <1>5, <1>6, <1>7, StepsSorted DEF StepCases
<1>9. QED
  BY <1>1, <1>8 DEF TypeOK

LEMMA Start ==
    ASSUME Init
    PROVE  IInv
<1>1. \A S : "none" \notin S => In(S) = {}
  BY DEF Init, In
<1>2. In({"none"}) = Worker /\ In(GoneStates) = {} /\ In({"joining"}) = {}
  BY <1>1 DEF Init, In, GoneStates
<1>3. Idle = {} /\ Live = {}
  BY <1>1 DEF Idle, Live
<1>4. Cardinality(Idle) = 0 /\ Cardinality(Live) = 0 /\ Cardinality(threads) = 0
  BY <1>3, FS_EmptySet DEF Init
<1>5. TypeOK
  BY DEF Init, TypeOK
<1>6. CountersExact
  BY <1>4, ThreadPoolAssumption DEF Init, CountersExact
<1>7. GoneInTurn
  BY <1>2 DEF Init, GoneInTurn, MutexFree
<1>8. QED
  BY <1>2, <1>4, <1>5, <1>6, <1>7, ThreadPoolAssumption DEF Init, IInv, NoTaskAbandoned

\* The invariant is inductive: it holds when the pool is constructed, and
\* submit, every step of worker() and the destructor keep it.
THEOREM Invariance == Spec => []IInv
<1>1. Init => IInv
  BY Start
<1>2. IInv /\ [Next]_vars => IInv'
  BY TypeKept, Counting, GoneKept, ThreadsKept, AttentionKept DEF IInv
<1>3. QED
  BY <1>1, <1>2, PTL DEF Spec

-----------------------------------------------------------------------------
(* What the pool keeps *)

\* idleThreads_ and currentThreads_ count exactly the threads that wait and
\* the threads that work for the pool, never more than maxThreads_, although
\* submit, worker() and a timeout adjust them in five places.
THEOREM Counters == Spec => []CountersExact
<1>1. IInv => CountersExact
  BY DEF IInv
<1>2. QED
  BY <1>1, Invariance, PTL

\* joinFinishedThreads and the destructor never wait for a thread that needs
\* the mutex, and threads_ never holds more than maxThreads_ + 1 threads.
THEOREM Joinable == Spec => []FinishedJoinable
<1>1. ASSUME IInv
      PROVE  FinishedJoinable
  <2>1. Len(finished) <= 1 /\ \A i \in DOMAIN finished : finished[i] \in In(GoneStates)
    <3>1. CASE finished = <<>>
      BY <3>1
    <3>2. ASSUME NEW w \in In(GoneStates), finished = <<w>>
          PROVE  Len(finished) <= 1 /\ \A i \in DOMAIN finished : finished[i] \in In(GoneStates)
      BY <3>2
    <3>3. QED
      BY <1>1, <3>1, <3>2 DEF IInv, GoneInTurn
  <2>2. QED
    BY <1>1, <2>1 DEF IInv, FinishedJoinable, GoneStates
<1>2. QED
  BY <1>1, Invariance, PTL

\* submit either wakes a thread, starts one, or leaves the task to a thread
\* that is busy: a queued task never depends on a timeout to be noticed.
THEOREM Attended == Spec => []NoTaskAbandoned
<1>1. IInv => NoTaskAbandoned
  BY DEF IInv
<1>2. QED
  BY <1>1, Invariance, PTL

\* The destructor iterates over threads_ without the mutex; no thread it has
\* yet to join joins others or is started meanwhile.
THEOREM Frozen == Spec => ThreadsFrozenOnJoin
<1>1. ASSUME IInv, [Next]_vars
      PROVE  [phase = "joining" => threads' = threads]_vars
  <2>1. SUFFICES ASSUME phase = "joining"
                 PROVE  threads' = threads
    OBVIOUS
  <2>2. \A w \in Worker : wpc[w] # "joining"
    BY <1>1, <2>1 DEF IInv, GoneInTurn, MutexFree, In
  <2>3. QED
    BY <1>1, <2>1, <2>2, StepsSorted
       DEF StepCases, Submit, Takes, PopTask, Leaves, LeaveOnQuit, Waits, Wait, Retires,
           Retire, Join, Retired, End, Run, Spurious, TimeOut, SetQuit, NotifyAll, JoinAll, vars
<1>2. QED
  BY <1>1, Invariance, PTL DEF Spec, ThreadsFrozenOnJoin

-----------------------------------------------------------------------------
(* The tasks: the pool implements the abstract one *)

Holding(w) == IF wpc[w] = "run" THEN \E t \in Task : job[w] = {t} ELSE job[w] = {}

\* A task is in one place: once in the queue, or with one thread that runs it.
OncePerTask ==
    /\ \A w \in Worker : Holding(w)
    /\ \A v, w \in Worker : v # w => job[v] \cap job[w] = {}
    /\ \A i, j \in DOMAIN tasks : i # j => tasks[i] # tasks[j]
    /\ \A w \in Worker, i \in DOMAIN tasks : tasks[i] \notin job[w]

Active == UNION {job[w] : w \in Worker}
Phase == IF phase \in {"quit", "joining"} THEN "closed" ELSE phase

LEMMA HeadAndTail ==
    ASSUME NEW T, NEW q \in Seq(T), q # <<>>
    PROVE  /\ Head(q) = q[1] /\ 1 \in DOMAIN q /\ Head(q) \in T
           /\ \A i \in DOMAIN Tail(q) : Tail(q)[i] = q[i + 1] /\ i + 1 \in DOMAIN q /\ i + 1 # 1
           /\ \A i, j \in DOMAIN Tail(q) : i # j => i + 1 # j + 1
<1>1. Len(q) \in Nat /\ Len(q) > 0 /\ DOMAIN q = 1 .. Len(q)
  OBVIOUS
<1>2. Tail(q) \in Seq(T) /\ Len(Tail(q)) = Len(q) - 1
  BY <1>1
<1>3. DOMAIN Tail(q) = 1 .. Len(q) - 1
  BY <1>2
<1>4. \A i \in 1 .. Len(q) - 1 : Tail(q)[i] = q[i + 1]
  BY <1>1
<1>5. QED
  BY <1>1, <1>3, <1>4

\* What is submitted has not been submitted before.
LEMMA Fresh ==
    ASSUME NEW t \in Task, Submit(t)
    PROVE  t \notin Active /\ t \notin done /\ \A i \in DOMAIN tasks : tasks[i] # t
<1> DEFINE Queued == {tasks[i] : i \in DOMAIN tasks}
<1>1. t \notin done \union Active \union Queued
  BY Zenon DEF Submit, Submitted, Active
<1>2. \A i \in DOMAIN tasks : tasks[i] \in Queued
  OBVIOUS
<1> HIDE DEF Queued
<1>3. QED
  BY <1>1, <1>2

LEMMA OnceKept ==
    ASSUME IInv, OncePerTask, [Next]_vars
    PROVE  OncePerTask'
<1> USE DEF OncePerTask, Holding
<1> TypeOK
  BY DEF IInv
<1>1. ASSUME NEW t \in Task, Submit(t)
      PROVE  OncePerTask'
  <2>1. /\ DOMAIN tasks' = DOMAIN tasks \union {Len(tasks) + 1}
        /\ \A i \in DOMAIN tasks : tasks'[i] = tasks[i] /\ i # Len(tasks) + 1
        /\ tasks'[Len(tasks) + 1] = t
    BY <1>1 DEF Submit, TypeOK
  <2>2. (\A i \in DOMAIN tasks : tasks[i] # t) /\ \A w \in Worker : t \notin job[w]
    BY <1>1, Fresh DEF Active
  <2>3. job' = job /\ \A w \in Worker : wpc'[w] = "run" <=> wpc[w] = "run"
    BY <1>1 DEF Submit, NotifyOne, Spawn, In, TypeOK
  <2>4. (\A w \in Worker : Holding(w))'
    BY <2>3
  <2>5. (\A i, j \in DOMAIN tasks : i # j => tasks[i] # tasks[j])'
    BY <2>1, <2>2
  <2>6. (\A w \in Worker, i \in DOMAIN tasks : tasks[i] \notin job[w])'
    BY <2>1, <2>2, <2>3
  <2>7. QED
    BY <2>3, <2>4, <2>5, <2>6
<1>2. ASSUME NEW w \in Worker, Takes(w)
      PROVE  OncePerTask'
  <2>1. /\ tasks # <<>> /\ tasks' = Tail(tasks) /\ wpc[w] # "run"
        /\ wpc' = [wpc EXCEPT ![w] = "run"] /\ job' = [job EXCEPT ![w] = {Head(tasks)}]
    BY <1>2 DEF Takes, PopTask
  <2>2. /\ Head(tasks) = tasks[1] /\ 1 \in DOMAIN tasks /\ Head(tasks) \in Task
        /\ \A i \in DOMAIN tasks' : tasks'[i] = tasks[i + 1] /\ i + 1 \in DOMAIN tasks /\ i + 1 # 1
        /\ \A i, j \in DOMAIN tasks' : i # j => i + 1 # j + 1
    BY <2>1, HeadAndTail DEF TypeOK
  <2>3. job'[w] = {tasks[1]} /\ \A v \in Worker : v # w => job'[v] = job[v] /\ wpc'[v] = wpc[v]
    BY <2>1, <2>2 DEF TypeOK
  <2>4. (\A v \in Worker : Holding(v))'
    BY <2>1, <2>2, <2>3 DEF TypeOK
  <2>5. (\A u, v \in Worker : u # v => job[u] \cap job[v] = {})'
    BY <2>2, <2>3
  <2>6. (\A i, j \in DOMAIN tasks : i # j => tasks[i] # tasks[j])'
    BY <2>2
  <2>7. (\A v \in Worker, i \in DOMAIN tasks : tasks[i] \notin job[v])'
    BY <2>2, <2>3
  <2>8. QED
    BY <2>4, <2>5, <2>6, <2>7
<1>3. ASSUME NEW w \in Worker, Run(w)
      PROVE  OncePerTask'
  BY <1>3 DEF Run, TypeOK
<1>4. ASSUME NEW w \in Worker,
             \/ Leaves(w) \/ Waits(w) \/ Retires(w)
             \/ Retired(w) \/ End(w) \/ Spurious(w) \/ TimeOut(w)
      PROVE  OncePerTask'
  <2>1. job' = job /\ tasks' = tasks /\ wpc[w] # "run"
    BY <1>4 DEF Leaves, LeaveOnQuit, Waits, Wait, Retires, Retire, Retired, End,
                Spurious, TimeOut
  <2>2. \E to : to # "run" /\ wpc' = [wpc EXCEPT ![w] = to]
    BY <1>4 DEF Leaves, LeaveOnQuit, Waits, Wait, Retires, Retire, Retired, End,
                Spurious, TimeOut
  <2>3. \A v \in Worker : wpc'[v] = "run" <=> wpc[v] = "run"
    BY <2>1, <2>2 DEF TypeOK
  <2>4. QED
    BY <2>1, <2>3
<1>5. ASSUME NEW w \in Worker, Join(w)
      PROVE  OncePerTask'
  <2>1. /\ job' = job /\ tasks' = tasks
        /\ \E v : wpc[v] = "ended" /\ wpc' = [wpc EXCEPT ![v] = "none"]
    BY <1>5 DEF Join
  <2>2. \A v \in Worker : wpc'[v] = "run" <=> wpc[v] = "run"
    BY <2>1 DEF TypeOK
  <2>3. QED
    BY <2>1, <2>2
<1>6. CASE SetQuit \/ JoinAll \/ UNCHANGED vars
  BY <1>6 DEF SetQuit, JoinAll, vars
<1>7. CASE NotifyAll
  <2>1. job' = job /\ tasks' = tasks /\ \A v \in Worker : wpc'[v] = "run" <=> wpc[v] = "run"
    BY <1>7 DEF NotifyAll, TypeOK
  <2>2. QED
    BY <2>1
<1>8. QED
  BY <1>1, <1>2, <1>3, <1>4, <1>5, <1>6, <1>7, StepsSorted DEF StepCases

\* A thread about to take a task is one of the MaxThreads that work for the
\* pool, and does not yet run one.
LEMMA RoomToStart ==
    ASSUME IInv, OncePerTask, NEW w \in Worker, Takes(w)
    PROVE  Cardinality(Active) < MaxThreads
<1> DEFINE Running == In({"run"})
           Held == [v \in Running |-> CHOOSE t \in Task : job[v] = {t}]
<1>1. \A v \in Running : Held[v] \in Active /\ job[v] = {Held[v]}
  BY DEF OncePerTask, Holding, In, Active
<1>2. \A t \in Active : \E v \in Running : Held[v] = t
  <2>1. TAKE t \in Active
  <2>2. PICK v \in Worker : t \in job[v]
    BY DEF Active
  <2>3. v \in Running
    BY <2>2 DEF OncePerTask, Holding, In
  <2>4. QED
    BY <1>1, <2>2, <2>3
<1>3. Held \in Surjection(Running, Active)
  BY <1>1, <1>2 DEF Surjection
<1>4. IsFiniteSet(Running) /\ Cardinality(Running) \in Nat
  BY CountsTyped
<1>5. Cardinality(Active) \in Nat /\ Cardinality(Active) <= Cardinality(Running)
  BY <1>3, <1>4, FS_Surjection, FS_CardinalityType
<1>6. /\ IsFiniteSet(Live) /\ Cardinality(Live) \in Nat
      /\ current = Cardinality(Live) /\ current <= MaxThreads
  BY Groups, CountsTyped DEF IInv, CountersExact
<1>7. w \in Live /\ Running \subseteq Live \ {w}
  BY DEF Takes, Live, Idle, In
<1>8. /\ IsFiniteSet(Live \ {w}) /\ Cardinality(Live \ {w}) = Cardinality(Live) - 1
      /\ Cardinality(Running) <= Cardinality(Live \ {w})
  BY <1>6, <1>7, FS_RemoveElement, FS_Subset
<1>9. QED
  BY <1>4, <1>5, <1>6, <1>8, ThreadPoolAssumption

\* The abstract actions, in terms of the pool's own state.
LEMMA PoolActions ==
    /\ Pool!Start <=> /\ tasks # <<>> /\ Cardinality(Active) < MaxThreads
                      /\ Active' = Active \union {Head(tasks)}
                      /\ tasks' = Tail(tasks) /\ done' = done /\ Phase' = Phase
    /\ \A t : Pool!Submit(t) <=> /\ Phase = "open" /\ t \notin Active \union done
                                 /\ \A i \in DOMAIN tasks : tasks[i] # t
                                 /\ tasks' = Append(tasks, t)
                                 /\ Active' = Active /\ done' = done /\ Phase' = Phase
    /\ \A t : Pool!Finish(t) <=> /\ t \in Active /\ Active' = Active \ {t}
                                 /\ done' = done \union {t}
                                 /\ tasks' = tasks /\ Phase' = Phase
    /\ Pool!Close <=> /\ Phase = "open" /\ Phase' = "closed"
                      /\ tasks' = tasks /\ Active' = Active /\ done' = done
    /\ Pool!Destroy <=> /\ Phase = "closed" /\ tasks = <<>> /\ Active = {}
                        /\ Phase' = "gone"
                        /\ tasks' = tasks /\ Active' = Active /\ done' = done
    /\ UNCHANGED Pool!poolVars <=> /\ tasks' = tasks /\ Active' = Active
                                   /\ done' = done /\ Phase' = Phase
<1>1. Pool!Start <=> /\ tasks # <<>> /\ Cardinality(Active) < MaxThreads
                     /\ Active' = Active \union {Head(tasks)}
                     /\ tasks' = Tail(tasks) /\ done' = done /\ Phase' = Phase
  <2>1. Pool!Cardinality(Active) = Cardinality(Active)
    BY Zenon DEF Pool!Cardinality, Cardinality
  <2>2. QED
    BY <2>1, Zenon DEF Pool!Start, Active, Phase
<1>2. \A t : Pool!Submit(t) <=> /\ Phase = "open" /\ t \notin Active \union done
                                /\ \A i \in DOMAIN tasks : tasks[i] # t
                                /\ tasks' = Append(tasks, t)
                                /\ Active' = Active /\ done' = done /\ Phase' = Phase
  BY DEF Pool!Submit, Active, Phase
<1>3. \A t : Pool!Finish(t) <=> /\ t \in Active /\ Active' = Active \ {t}
                                /\ done' = done \union {t}
                                /\ tasks' = tasks /\ Phase' = Phase
  BY Zenon DEF Pool!Finish, Active, Phase
<1>4. Pool!Close <=> /\ Phase = "open" /\ Phase' = "closed"
                     /\ tasks' = tasks /\ Active' = Active /\ done' = done
  BY Zenon DEF Pool!Close, Active, Phase
<1>5. Pool!Destroy <=> /\ Phase = "closed" /\ tasks = <<>> /\ Active = {}
                       /\ Phase' = "gone"
                       /\ tasks' = tasks /\ Active' = Active /\ done' = done
  BY Zenon DEF Pool!Destroy, Active, Phase
<1>6. UNCHANGED Pool!poolVars <=> /\ tasks' = tasks /\ Active' = Active
                                  /\ done' = done /\ Phase' = Phase
  BY Zenon DEF Pool!poolVars, Active, Phase
<1>7. QED
  BY <1>1, <1>2, <1>3, <1>4, <1>5, <1>6, Zenon

LEMMA StepImplements ==
    ASSUME IInv, OncePerTask, [Next]_vars
    PROVE  [Pool!Next]_(Pool!poolVars)
<1> TypeOK
  BY DEF IInv
<1>1. phase' = phase => Phase' = Phase
  BY DEF Phase
<1>2. job' = job => Active' = Active
  BY DEF Active
<1>3. ASSUME NEW t \in Task, Submit(t)
      PROVE  Pool!Submit(t)
  <2>1. Phase = "open"
    BY <1>3 DEF Submit, Phase
  <2>2. QED
    BY <1>1, <1>2, <1>3, <2>1, Fresh, PoolActions DEF Submit
<1>4. ASSUME NEW w \in Worker, Takes(w)
      PROVE  Pool!Start
  <2>1. /\ tasks # <<>> /\ tasks' = Tail(tasks) /\ job[w] = {} /\ UNCHANGED <<done, phase>>
        /\ job' = [job EXCEPT ![w] = {Head(tasks)}]
    BY <1>4 DEF Takes, PopTask, OncePerTask, Holding
  <2>2. Active' = Active \union {Head(tasks)}
    <3>1. job'[w] = {Head(tasks)} /\ \A v \in Worker : v # w => job'[v] = job[v]
      BY <2>1 DEF TypeOK
    <3>2. QED
      BY <2>1, <3>1 DEF Active
  <2>3. Cardinality(Active) < MaxThreads
    BY <1>4, RoomToStart
  <2>4. QED
    BY <1>1, <2>1, <2>2, <2>3, PoolActions
<1>5. ASSUME NEW w \in Worker, Run(w)
      PROVE  \E t \in Task : Pool!Finish(t)
  <2>1. PICK t \in Task : job[w] = {t}
    BY <1>5 DEF Run, OncePerTask, Holding
  <2>2. job' = [job EXCEPT ![w] = {}] /\ done' = done \union {t} /\ UNCHANGED <<tasks, phase>>
    BY <1>5, <2>1 DEF Run
  <2>3. \A v \in Worker : v # w => t \notin job[v]
    BY <2>1 DEF OncePerTask
  <2>4. t \in Active /\ Active' = Active \ {t}
    <3>1. job'[w] = {} /\ \A v \in Worker : v # w => job'[v] = job[v]
      BY <2>2 DEF TypeOK
    <3>2. QED
      BY <2>1, <2>3, <3>1 DEF Active
  <2>5. QED
    BY <1>1, <2>2, <2>4, PoolActions
<1>6. ASSUME JoinAll
      PROVE  Pool!Destroy
  <2>1. phase = "joining" /\ phase' = "gone" /\ \A w \in Worker : wpc[w] \in {"none", "ended"}
    BY <1>6 DEF JoinAll, IInv, In
  <2>2. tasks = <<>> /\ \A w \in Worker : job[w] = {}
    BY <2>1 DEF IInv, NoTaskAbandoned, In, OncePerTask, Holding
  <2>3. Active = {} /\ Phase = "closed" /\ Phase' = "gone"
    BY <2>1, <2>2 DEF Active, Phase
  <2>4. QED
    BY <1>2, <1>6, <2>2, <2>3, PoolActions DEF JoinAll
<1>7. ASSUME SetQuit
      PROVE  Pool!Close
  <2>1. Phase = "open" /\ Phase' = "closed"
    BY <1>7 DEF SetQuit, Phase
  <2>2. QED
    BY <1>2, <1>7, <2>1, PoolActions DEF SetQuit
<1>8. ASSUME NotifyAll
      PROVE  UNCHANGED Pool!poolVars
  <2>1. Phase' = Phase
    BY <1>8 DEF NotifyAll, Phase
  <2>2. QED
    BY <1>2, <1>8, <2>1, PoolActions DEF NotifyAll
<1>9. ASSUME UNCHANGED vars
      PROVE  UNCHANGED Pool!poolVars
  BY <1>1, <1>2, <1>9, PoolActions DEF vars
<1>10. ASSUME NEW w \in Worker,
              \/ Leaves(w) \/ Waits(w) \/ Retires(w)
              \/ Join(w) \/ Retired(w) \/ End(w) \/ Spurious(w) \/ TimeOut(w)
       PROVE  UNCHANGED Pool!poolVars
  <2>1. tasks' = tasks /\ job' = job /\ done' = done /\ phase' = phase
    BY <1>10 DEF Leaves, LeaveOnQuit, Waits, Wait, Retires, Retire, Join, Retired, End,
                 Spurious, TimeOut
  <2>2. QED
    BY <1>1, <1>2, <2>1, PoolActions
<1>11. QED
  BY <1>3, <1>4, <1>5, <1>6, <1>7, <1>8, <1>9, <1>10, StepsSorted DEF StepCases, Pool!Next

\* The thread pool keeps what TaskPool promises, for any number of threads and
\* tasks: tasks start in the order of submission and once each, at most
\* maxThreads_ run at a time, and the destructor returns only when every task
\* submitted has run.
THEOREM Implements == Spec => Pool!Safe
<1>1. Init => OncePerTask /\ Pool!Init
  BY DEF Init, OncePerTask, Holding, Pool!Init
<1>2. Spec => []OncePerTask
  <2>1. IInv /\ OncePerTask /\ [Next]_vars => OncePerTask'
    BY OnceKept
  <2>2. QED
    BY <1>1, <2>1, Invariance, PTL DEF Spec
<1>3. IInv /\ OncePerTask /\ [Next]_vars => [Pool!Next]_(Pool!poolVars)
  BY StepImplements
<1>4. QED
  BY <1>1, <1>2, <1>3, Invariance, PTL DEF Spec, Pool!Safe
================================================================================
