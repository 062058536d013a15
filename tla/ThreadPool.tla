----------------------------- MODULE ThreadPool -----------------------------
(***************************************************************************)
(* ThreadPool (src/Thread/ThreadPool.cpp): a queue under mutex_ with the   *)
(* conditions notEmpty_ and notFull_, the Workers that run runInThread(),  *)
(* and the Producers that call run().  A task is the number of its place   *)
(* in the queue's history; tasks may call run() themselves.                *)
(*                                                                         *)
(* mutex_ is held from one wait to the next, so what run() and take() do   *)
(* between them is one action.  running_ is a plain bool: stop() writes it *)
(* under mutex_, runInThread() reads it without.  A run() before start()   *)
(* runs its task on the spot and leaves the pool as it is.                 *)
(***************************************************************************)
EXTENDS Integers, Sequences, FiniteSets

CONSTANTS
    Workers,        \* threads_
    Producers,      \* the other threads that call run()
    MaxQueueSize,   \* maxQueueSize_; 0 for no limit
    MaxNested,      \* how many tasks can be inside run() at a time
    MaxTasks        \* bound: calls of run() in a behaviour

Threads == Workers \cup Producers

ASSUME ThreadsAssumption ==
    IsFiniteSet(Workers) /\ IsFiniteSet(Producers) /\ Workers \cap Producers = {}
ASSUME SizesAssumption == MaxQueueSize \in Nat /\ MaxTasks \in Nat
ASSUME MaxNestedAssumption == MaxNested \in Nat

VARIABLES
    queue,          \* queue_
    running,        \* running_
    pc,             \* where each thread is, see Pcs
    cpc,            \* the thread that owns the pool: new, started, joining, stopped
    \* History:
    calls,          \* calls of run() so far
    pushed,         \* tasks queued so far
    taken,          \* the tasks taken, in order
    beforeStop      \* pushed when stop() cleared running_

vars == <<queue, running, pc, cpc, calls, pushed, taken, beforeStop>>

(***************************************************************************)
(* A producer is "idle" or, inside run(), at "run" (about to test isFull() *)
(* with mutex_) or "notFull" (waiting on notFull_).  A worker is at "test" *)
(* (the while of runInThread()), "take" (about to test the queue with      *)
(* mutex_), "notEmpty" (waiting on notEmpty_), in its "task", in run() on  *)
(* behalf of its task, "none" before start() and "exit" after the loop.    *)
(***************************************************************************)
ProducerPcs == {"idle", "run", "notFull"}
WorkerPcs == {"none", "test", "take", "notEmpty", "task", "run", "notFull", "exit"}

TypeOK ==
    /\ queue \in Seq(1..MaxTasks)
    /\ running \in BOOLEAN
    /\ pc \in [Threads -> ProducerPcs \cup WorkerPcs]
    /\ \A x \in Threads : pc[x] \in IF x \in Workers THEN WorkerPcs ELSE ProducerPcs
    /\ cpc \in {"new", "started", "joining", "stopped"}
    /\ calls \in 0..MaxTasks
    /\ pushed \in 0..MaxTasks
    /\ taken \in Seq(1..MaxTasks)
    /\ beforeStop \in 0..MaxTasks

Init ==
    /\ queue = <<>>
    /\ running = FALSE
    /\ pc = [x \in Threads |-> IF x \in Workers THEN "none" ELSE "idle"]
    /\ cpc = "new"
    /\ calls = 0
    /\ pushed = 0
    /\ taken = <<>>
    /\ beforeStop = 0

-----------------------------------------------------------------------------

IsFull == MaxQueueSize > 0 /\ Len(queue) >= MaxQueueSize

Waiting(place) == {x \in Threads : pc[x] = place}

\* Where a thread waiting at place goes on when it is woken: it locks mutex_
\* and tests its condition again.
Retest(place) == IF place = "notEmpty" THEN "take" ELSE "run"

\* Thread x moves to its next place and one of those waiting, if any, is woken.
MoveAndNotifyOne(x, to, place) ==
    \/ /\ Waiting(place) = {}
       /\ pc' = [pc EXCEPT ![x] = to]
    \/ \E y \in Waiting(place) :
         pc' = [pc EXCEPT ![x] = to, ![y] = Retest(place)]

-----------------------------------------------------------------------------
(* run(), on a producer or on a worker whose task calls it.                *)

Nested == {w \in Workers : pc[w] \in {"run", "notFull"}}

CallRun(x) ==
    /\ cpc # "new"
    /\ pc[x] = "idle" \/ (pc[x] = "task" /\ Cardinality(Nested) < MaxNested)
    /\ calls < MaxTasks
    /\ calls' = calls + 1
    /\ pc' = [pc EXCEPT ![x] = "run"]
    /\ UNCHANGED <<queue, running, cpc, pushed, taken, beforeStop>>

RunWait(x) ==
    /\ pc[x] = "run"
    /\ IsFull
    /\ pc' = [pc EXCEPT ![x] = "notFull"]
    /\ UNCHANGED <<queue, running, cpc, calls, pushed, taken, beforeStop>>

Caller(x) == IF x \in Workers THEN "task" ELSE "idle"

\* Notifying only on the transition from empty: the second of two pushes in a
\* row wakes nobody.
RunPushIfEmpty(x) ==
    /\ pc[x] = "run"
    /\ ~IsFull
    /\ queue' = Append(queue, pushed + 1)
    /\ pushed' = pushed + 1
    /\ IF queue = <<>> THEN MoveAndNotifyOne(x, Caller(x), "notEmpty")
                       ELSE pc' = [pc EXCEPT ![x] = Caller(x)]
    /\ UNCHANGED <<running, cpc, calls, taken, beforeStop>>

RunPush(x) ==
    /\ pc[x] = "run"
    /\ ~IsFull
    /\ queue' = Append(queue, pushed + 1)
    /\ pushed' = pushed + 1
    /\ MoveAndNotifyOne(x, Caller(x), "notEmpty")
    /\ UNCHANGED <<running, cpc, calls, taken, beforeStop>>

-----------------------------------------------------------------------------
(* runInThread() and take(), on a worker.                                  *)

TestRunning(w) ==
    /\ pc[w] = "test"
    /\ pc' = [pc EXCEPT ![w] = IF running THEN "take" ELSE "exit"]
    /\ UNCHANGED <<queue, running, cpc, calls, pushed, taken, beforeStop>>

TakeWait(w) ==
    /\ pc[w] = "take"
    /\ queue = <<>> /\ running
    /\ pc' = [pc EXCEPT ![w] = "notEmpty"]
    /\ UNCHANGED <<queue, running, cpc, calls, pushed, taken, beforeStop>>

\* take() returns an empty task: the pool was stopped.
TakeNothing(w) ==
    /\ pc[w] = "take"
    /\ queue = <<>> /\ ~running
    /\ pc' = [pc EXCEPT ![w] = "test"]
    /\ UNCHANGED <<queue, running, cpc, calls, pushed, taken, beforeStop>>

\* take() without its notFull_.notify_one().
TakeQuietly(w) ==
    /\ pc[w] = "take"
    /\ queue # <<>>
    /\ queue' = Tail(queue)
    /\ taken' = Append(taken, Head(queue))
    /\ pc' = [pc EXCEPT ![w] = "task"]
    /\ UNCHANGED <<running, cpc, calls, pushed, beforeStop>>

\* take() from the wrong end.
TakeLast(w) ==
    /\ pc[w] = "take"
    /\ queue # <<>>
    /\ queue' = SubSeq(queue, 1, Len(queue) - 1)
    /\ taken' = Append(taken, queue[Len(queue)])
    /\ IF MaxQueueSize > 0 THEN MoveAndNotifyOne(w, "task", "notFull")
                           ELSE pc' = [pc EXCEPT ![w] = "task"]
    /\ UNCHANGED <<running, cpc, calls, pushed, beforeStop>>

Take(w) ==
    /\ pc[w] = "take"
    /\ queue # <<>>
    /\ queue' = Tail(queue)
    /\ taken' = Append(taken, Head(queue))
    /\ IF MaxQueueSize > 0 THEN MoveAndNotifyOne(w, "task", "notFull")
                           ELSE pc' = [pc EXCEPT ![w] = "task"]
    /\ UNCHANGED <<running, cpc, calls, pushed, beforeStop>>

TaskReturns(w) ==
    /\ pc[w] = "task"
    /\ pc' = [pc EXCEPT ![w] = "test"]
    /\ UNCHANGED <<queue, running, cpc, calls, pushed, taken, beforeStop>>

-----------------------------------------------------------------------------

\* A condition variable may wake a thread for no reason.
SpuriousWakeup(x) ==
    /\ pc[x] \in {"notEmpty", "notFull"}
    /\ pc' = [pc EXCEPT ![x] = Retest(pc[x])]
    /\ UNCHANGED <<queue, running, cpc, calls, pushed, taken, beforeStop>>

-----------------------------------------------------------------------------
(* The owner of the pool.                                                  *)

\* Thread::start() returns when the new thread runs, before runInThread()
\* has tested running_.
Start ==
    /\ cpc = "new"
    /\ running' = TRUE
    /\ pc' = [x \in Threads |-> IF x \in Workers THEN "test" ELSE pc[x]]
    /\ cpc' = "started"
    /\ UNCHANGED <<queue, calls, pushed, taken, beforeStop>>

\* notify_one() where every worker has to leave.
StopNotifyOne ==
    /\ cpc = "started"
    /\ running' = FALSE
    /\ \/ Waiting("notEmpty") = {} /\ pc' = pc
       \/ \E y \in Waiting("notEmpty") : pc' = [pc EXCEPT ![y] = "take"]
    /\ cpc' = "joining"
    /\ beforeStop' = pushed
    /\ UNCHANGED <<queue, calls, pushed, taken>>

\* The usleep(10) before it orders nothing.
Stop ==
    /\ cpc = "started"
    /\ running' = FALSE
    /\ pc' = [x \in Threads |-> IF pc[x] = "notEmpty" THEN "take" ELSE pc[x]]
    /\ cpc' = "joining"
    /\ beforeStop' = pushed
    /\ UNCHANGED <<queue, calls, pushed, taken>>

Join ==
    /\ cpc = "joining"
    /\ \A w \in Workers : pc[w] = "exit"
    /\ cpc' = "stopped"
    /\ UNCHANGED <<queue, running, pc, calls, pushed, taken, beforeStop>>

-----------------------------------------------------------------------------

RunStep(x) == RunWait(x) \/ RunPush(x)

WorkerStep(w) ==
    TestRunning(w) \/ TakeWait(w) \/ TakeNothing(w) \/ Take(w) \/ TaskReturns(w)

Next ==
    \/ \E x \in Threads : CallRun(x) \/ RunStep(x) \/ SpuriousWakeup(x)
    \/ \E w \in Workers : WorkerStep(w)
    \/ Start \/ Stop \/ Join

Spec == Init /\ [][Next]_vars

(***************************************************************************)
(* Threads run and tasks return.  Nobody has to call run() or stop(), and  *)
(* no spurious wakeup is counted on.                                       *)
(***************************************************************************)
Fairness ==
    /\ \A x \in Threads : WF_vars(RunStep(x))
    /\ \A w \in Workers : WF_vars(WorkerStep(w))
    /\ WF_vars(Join)

FairSpec == Spec /\ Fairness

-----------------------------------------------------------------------------
(* Correctness.                                                            *)

(***************************************************************************)
(* notify_one() is enough: while a worker sleeps on notEmpty_, every       *)
(* queued task has a worker of its own that was woken and is on its way to *)
(* take(); tasks taken by others in between, several pushes in a row and   *)
(* spurious wakeups included.                                              *)
(***************************************************************************)
WorkersWoken ==
    Waiting("notEmpty") # {} => Len(queue) <= Cardinality(Waiting("take"))

\* Likewise while a thread sleeps on notFull_ every free place has a woken one.
ProducersWoken ==
    Waiting("notFull") # {} =>
        MaxQueueSize - Len(queue) <= Cardinality(Waiting("run"))

Queue == INSTANCE TaskQueue WITH
    submitted <- pushed, ran <- taken, stopped <- cpc = "stopped"

\* Tasks are taken in the order of the pushes, each once, and none after
\* stop() has returned; also when full queues make the callers of run() wait.
ImplementsTaskQueue == Queue!Spec

\* stop() returns: no worker sleeps through it, save in a task that waits for a
\* place in the queue, which nobody will make any more.
StopReturns ==
    cpc = "joining" ~> cpc = "stopped" \/ \E w \in Workers : pc[w] = "notFull"

\* What was queued before stop() has been run when stop() has returned.  No
\* run checks it: it does not hold, as workers leave a queue that is not empty.
NoTaskLost == cpc = "stopped" => Len(taken) >= beforeStop
=============================================================================
