--------------------------- MODULE Threads_proofs ---------------------------
(***************************************************************************)
(* Proofs about the two kinds of threads of the program.                   *)
(*                                                                         *)
(* ThreadPool, for any number of workers and producers and any queue size: *)
(* types, that one notify_one() per push and per take is enough, and that  *)
(* the pool implements TaskQueue.                                          *)
(*                                                                         *)
(* TcpServer, for any number of loops, connections and descriptors: types, *)
(* that connections_ agrees with the connections, and that each of them    *)
(* ends with its connectDestroyed().                                       *)
(***************************************************************************)
EXTENDS ThreadPool, TcpServer, SequenceTheorems, FiniteSetTheorems, TLAPS

LEMMA WaitingFinite ==
  ASSUME NEW place
  PROVE  IsFiniteSet(Waiting(place)) /\ Cardinality(Waiting(place)) \in Nat
<1>1. IsFiniteSet(Threads)
  BY ThreadsAssumption, FS_Union DEF Threads
<1>2. Waiting(place) \in SUBSET Threads
  BY DEF Waiting
<1> QED BY <1>1, <1>2, FS_Subset, FS_CardinalityType

\* The threads inside run() are the calls that have not pushed yet: with this
\* the number of tasks stays below the bound on the calls.
InRun == Waiting("run") \cup Waiting("notFull")

CallsInv == pushed + Cardinality(InRun) = calls

LEMMA InRunFinite == IsFiniteSet(InRun) /\ Cardinality(InRun) \in Nat
  BY WaitingFinite, FS_Union, FS_CardinalityType DEF InRun

\* Before start() nobody is inside the pool; later the pool is not new.
NewInv == cpc = "new" => \A x \in Threads : pc[x] \in {"none", "idle"}

(***************************************************************************)
(* What the moves of the threads do to the sets of waiting threads.  Each  *)
(* lemma is about one kind of step and all places.                         *)
(***************************************************************************)
LEMMA MoveOne ==
  ASSUME TypeOK, NEW x \in Threads, NEW to, to # pc[x],
         pc' = [pc EXCEPT ![x] = to]
  PROVE  \A place : Waiting(place)' =
           IF place = to THEN Waiting(place) \cup {x} ELSE Waiting(place) \ {x}
BY DEF TypeOK, Waiting

LEMMA MoveTwo ==
  ASSUME TypeOK, NEW x \in Threads, NEW y \in Threads, NEW to, x # y,
         to # pc[x],
         pc' = [pc EXCEPT ![x] = to, ![y] = Retest(pc[y])],
         pc[y] \in {"notEmpty", "notFull"}
  PROVE  \A place : Waiting(place)' =
           ((Waiting(place) \ {x, y})
             \cup (IF place = to THEN {x} ELSE {}))
             \cup (IF place = Retest(pc[y]) THEN {y} ELSE {})
BY DEF TypeOK, Waiting, Retest

-----------------------------------------------------------------------------
(* CallsInv.                                                               *)

LEMMA InRunGains ==
  ASSUME TypeOK, NEW x \in Threads, x \notin InRun, InRun' = InRun \cup {x}
  PROVE  Cardinality(InRun') = Cardinality(InRun) + 1
BY InRunFinite, FS_AddElement

LEMMA InRunLoses ==
  ASSUME TypeOK, NEW x \in Threads, x \in InRun, InRun' = InRun \ {x}
  PROVE  Cardinality(InRun') = Cardinality(InRun) - 1
BY InRunFinite, FS_RemoveElement

LEMMA CallsStep ==
  ASSUME TypeOK, CallsInv, NewInv, [Next]_vars
  PROVE  CallsInv'
<1> USE DEF CallsInv
<1>0. /\ pushed \in Nat /\ calls \in Nat /\ Cardinality(InRun) \in Nat
  BY SizesAssumption, InRunFinite DEF TypeOK
<1>1. CASE UNCHANGED vars
  BY <1>1 DEF vars, InRun, Waiting
<1>2. ASSUME NEW x \in Threads, CallRun(x) PROVE CallsInv'
  <2>1. InRun' = InRun \cup {x} /\ x \notin InRun
    BY <1>2 DEF CallRun, TypeOK, InRun, Waiting
  <2>2. Cardinality(InRun') = Cardinality(InRun) + 1
    BY <2>1, InRunGains
  <2> QED BY <1>0, <1>2, <2>2 DEF CallRun
<1>3. ASSUME NEW x \in Threads, RunPush(x) PROVE CallsInv'
  <2>1. InRun' = InRun \ {x} /\ x \in InRun
    BY <1>3 DEF RunPush, MoveAndNotifyOne, Retest, Caller, TypeOK, InRun,
                Waiting
  <2>2. Cardinality(InRun') = Cardinality(InRun) - 1
    BY <2>1, InRunLoses
  <2> QED BY <1>0, <1>3, <2>2 DEF RunPush
<1>4. ASSUME NEW x \in Threads, RunWait(x) \/ SpuriousWakeup(x)
      PROVE CallsInv'
  <2>1. InRun' = InRun
    BY <1>4 DEF RunWait, SpuriousWakeup, Retest, TypeOK, InRun, Waiting
  <2> QED BY <1>4, <2>1 DEF RunWait, SpuriousWakeup
<1>5. ASSUME NEW w \in Workers, WorkerStep(w) PROVE CallsInv'
  <2>0. w \in Threads
    BY DEF Threads
  <2>1. CASE Take(w)
    <3>1. InRun' = InRun
      BY <2>0, <2>1 DEF Take, MoveAndNotifyOne, Retest, TypeOK, InRun, Waiting
    <3> QED BY <2>1, <3>1 DEF Take
  <2>2. CASE TestRunning(w) \/ TakeWait(w) \/ TakeNothing(w) \/ TaskReturns(w)
    <3>1. InRun' = InRun
      BY <2>0, <2>2 DEF TestRunning, TakeWait, TakeNothing, TaskReturns,
                        TypeOK, InRun, Waiting
    <3> QED BY <2>2, <3>1 DEF TestRunning, TakeWait, TakeNothing, TaskReturns
  <2> QED BY <1>5, <2>1, <2>2 DEF WorkerStep
<1>6. CASE Start
  <2>1. InRun' = InRun
    BY <1>6 DEF Start, TypeOK, NewInv, InRun, Waiting
  <2> QED BY <1>6, <2>1 DEF Start
<1>7. CASE Stop
  <2>1. InRun' = InRun
    BY <1>7 DEF Stop, TypeOK, InRun, Waiting
  <2> QED BY <1>7, <2>1 DEF Stop
<1>8. CASE Join
  BY <1>8 DEF Join, InRun, Waiting
<1> QED
  BY <1>1, <1>2, <1>3, <1>4, <1>5, <1>6, <1>7, <1>8 DEF Next, RunStep

\* A thread about to push is one of the calls not yet counted in pushed.
LEMMA PushBelowBound ==
  ASSUME TypeOK, CallsInv, NEW x \in Threads, pc[x] = "run"
  PROVE  pushed < MaxTasks
<1>1. InRun # {}
  BY DEF InRun, Waiting
<1>2. Cardinality(InRun) # 0
  BY <1>1, InRunFinite, FS_EmptySet
<1> QED
  BY <1>2, InRunFinite, SizesAssumption DEF CallsInv, TypeOK

-----------------------------------------------------------------------------
(* Types.                                                                  *)

LEMMA TypeStep ==
  ASSUME TypeOK, CallsInv, NewInv, [Next]_vars
  PROVE  TypeOK' /\ NewInv'
<1> USE SizesAssumption DEF TypeOK, NewInv, ProducerPcs, WorkerPcs
<1>1. CASE UNCHANGED vars
  BY <1>1 DEF vars
<1>2. ASSUME NEW x \in Threads, CallRun(x) PROVE TypeOK' /\ NewInv'
  BY <1>2 DEF CallRun
<1>3. ASSUME NEW x \in Threads, RunPush(x) PROVE TypeOK' /\ NewInv'
  <2>1. pushed + 1 \in 1..MaxTasks
    BY <1>3, PushBelowBound DEF RunPush
  <2>2. queue' \in Seq(1..MaxTasks) /\ pushed' \in 0..MaxTasks
    BY <1>3, <2>1 DEF RunPush
  <2>3. /\ pc' \in [Threads -> ProducerPcs \cup WorkerPcs]
        /\ \A y \in Threads :
             pc'[y] \in IF y \in Workers THEN WorkerPcs ELSE ProducerPcs
    BY <1>3 DEF RunPush, MoveAndNotifyOne, Retest, Caller, Waiting
  <2>4. NewInv'
    BY <1>3 DEF RunPush
  <2> QED BY <1>3, <2>2, <2>3, <2>4 DEF RunPush
<1>4. ASSUME NEW x \in Threads, RunWait(x) \/ SpuriousWakeup(x)
      PROVE TypeOK' /\ NewInv'
  BY <1>4 DEF RunWait, SpuriousWakeup, Retest
<1>5. ASSUME NEW w \in Workers, WorkerStep(w) PROVE TypeOK' /\ NewInv'
  <2>0. w \in Threads
    BY DEF Threads
  <2>1. CASE Take(w)
    <3>1. queue' \in Seq(1..MaxTasks) /\ taken' \in Seq(1..MaxTasks)
      BY <2>1 DEF Take
    <3>2. /\ pc' \in [Threads -> ProducerPcs \cup WorkerPcs]
          /\ \A y \in Threads :
               pc'[y] \in IF y \in Workers THEN WorkerPcs ELSE ProducerPcs
      BY <2>0, <2>1 DEF Take, MoveAndNotifyOne, Retest, Waiting
    <3>3. NewInv'
      BY <2>0, <2>1 DEF Take
    <3> QED BY <2>1, <3>1, <3>2, <3>3 DEF Take
  <2>2. CASE TestRunning(w) \/ TakeWait(w) \/ TakeNothing(w) \/ TaskReturns(w)
    BY <2>0, <2>2 DEF TestRunning, TakeWait, TakeNothing, TaskReturns
  <2> QED BY <1>5, <2>1, <2>2 DEF WorkerStep
<1>6. CASE Start
  BY <1>6 DEF Start
<1>7. CASE Stop
  BY <1>7 DEF Stop
<1>8. CASE Join
  BY <1>8 DEF Join
<1> QED
  BY <1>1, <1>2, <1>3, <1>4, <1>5, <1>6, <1>7, <1>8 DEF Next, RunStep

-----------------------------------------------------------------------------
(* Enough threads are woken.                                               *)

\* More threads at a place mean a larger count.
LEMMA WaitingGrows ==
  ASSUME NEW place, Waiting(place) \subseteq Waiting(place)',
         IsFiniteSet(Waiting(place)')
  PROVE  Cardinality(Waiting(place)) <= Cardinality(Waiting(place)')
BY FS_Subset

LEMMA WaitingFiniteNext ==
  ASSUME NEW place
  PROVE  /\ IsFiniteSet(Waiting(place)')
         /\ Cardinality(Waiting(place)') \in Nat
<1>1. IsFiniteSet(Threads)
  BY ThreadsAssumption, FS_Union DEF Threads
<1>2. Waiting(place)' \in SUBSET Threads
  BY DEF Waiting
<1> QED BY <1>1, <1>2, FS_Subset, FS_CardinalityType

\* push: the queue grows by one, and so do the woken workers if one slept.
LEMMA WorkersPush ==
  ASSUME TypeOK, WorkersWoken, NEW x \in Threads, RunPush(x)
  PROVE  WorkersWoken'
<1>1. Len(queue') = Len(queue) + 1 /\ Len(queue) \in Nat
  BY DEF RunPush, TypeOK
<1>2. CASE Waiting("notEmpty") = {} /\ pc' = [pc EXCEPT ![x] = Caller(x)]
  <2>1. Waiting("notEmpty")' = {}
    BY <1>2 DEF Waiting, TypeOK, Caller
  <2> QED BY <2>1 DEF WorkersWoken
<1>3. ASSUME NEW y \in Waiting("notEmpty"),
             pc' = [pc EXCEPT ![x] = Caller(x), ![y] = Retest("notEmpty")]
      PROVE  WorkersWoken'
  <2>1. Waiting("take")' = Waiting("take") \cup {y} /\ y \notin Waiting("take")
    BY <1>3 DEF Waiting, TypeOK, Caller, Retest, RunPush
  <2>2. Cardinality(Waiting("take")') = Cardinality(Waiting("take")) + 1
    BY <2>1, WaitingFinite, FS_AddElement
  <2>3. Len(queue) <= Cardinality(Waiting("take"))
    BY <1>3 DEF WorkersWoken
  <2>4. Cardinality(Waiting("take")) \in Nat
    BY WaitingFinite
  <2> QED BY <1>1, <2>2, <2>3, <2>4 DEF WorkersWoken
<1> QED BY <1>2, <1>3 DEF RunPush, MoveAndNotifyOne

\* take: the queue and the woken workers shrink together.
LEMMA WorkersTake ==
  ASSUME TypeOK, WorkersWoken, NEW w \in Workers, Take(w)
  PROVE  WorkersWoken'
<1>0. w \in Threads
  BY DEF Threads
<1>1. Len(queue') = Len(queue) - 1 /\ Len(queue) \in Nat
  BY DEF Take, TypeOK
<1>2. /\ Waiting("take")' = Waiting("take") \ {w}
      /\ w \in Waiting("take")
      /\ Waiting("notEmpty")' = Waiting("notEmpty")
  BY <1>0 DEF Take, MoveAndNotifyOne, Retest, Waiting, TypeOK
<1>3. Cardinality(Waiting("take")') = Cardinality(Waiting("take")) - 1
  BY <1>2, WaitingFinite, FS_RemoveElement
<1>4. Cardinality(Waiting("take")) \in Nat
  BY WaitingFinite
<1> QED BY <1>1, <1>2, <1>3, <1>4 DEF WorkersWoken

LEMMA WorkersStep ==
  ASSUME TypeOK, NewInv, WorkersWoken, [Next]_vars
  PROVE  WorkersWoken'
<1>0. Cardinality(Waiting("take")) \in Nat /\ Cardinality(Waiting("take")') \in Nat
      /\ Len(queue) \in Nat
  BY WaitingFinite, WaitingFiniteNext DEF TypeOK
<1>1. ASSUME queue' = queue, Waiting("notEmpty")' \subseteq Waiting("notEmpty"),
             Waiting("take") \subseteq Waiting("take")'
      PROVE  WorkersWoken'
  <2>1. Cardinality(Waiting("take")) <= Cardinality(Waiting("take")')
    BY <1>1, WaitingGrows, WaitingFiniteNext
  <2> QED BY <1>0, <1>1, <2>1 DEF WorkersWoken
<1>2. CASE UNCHANGED vars
  BY <1>1, <1>2 DEF vars, Waiting
<1>3. ASSUME NEW x \in Threads, CallRun(x) \/ RunWait(x) \/ SpuriousWakeup(x)
      PROVE WorkersWoken'
  <2>1. /\ queue' = queue
        /\ Waiting("notEmpty")' \subseteq Waiting("notEmpty")
        /\ Waiting("take") \subseteq Waiting("take")'
    BY <1>3 DEF CallRun, RunWait, SpuriousWakeup, Retest, Waiting, TypeOK
  <2> QED BY <1>1, <2>1
<1>4. ASSUME NEW w \in Workers, TestRunning(w) \/ TaskReturns(w)
      PROVE WorkersWoken'
  <2>1. /\ queue' = queue
        /\ Waiting("notEmpty")' \subseteq Waiting("notEmpty")
        /\ Waiting("take") \subseteq Waiting("take")'
    BY <1>4 DEF TestRunning, TaskReturns, Waiting, TypeOK
  <2> QED BY <1>1, <2>1
<1>5. ASSUME NEW w \in Workers, TakeWait(w) \/ TakeNothing(w)
      PROVE WorkersWoken'
  <2>1. Len(queue') = 0
    BY <1>5 DEF TakeWait, TakeNothing
  <2> QED BY <1>0, <2>1 DEF WorkersWoken
<1>6. CASE Start
  <2>1. Waiting("notEmpty")' = {}
    BY <1>6 DEF Start, Waiting, TypeOK, NewInv
  <2> QED BY <2>1 DEF WorkersWoken
<1>7. CASE Stop
  <2>1. Waiting("notEmpty")' = {}
    BY <1>7 DEF Stop, Waiting, TypeOK
  <2> QED BY <2>1 DEF WorkersWoken
<1>8. CASE Join
  BY <1>1, <1>8 DEF Join, Waiting
<1> QED
  BY <1>2, <1>3, <1>4, <1>5, <1>6, <1>7, <1>8, WorkersPush, WorkersTake
  DEF Next, RunStep, WorkerStep

\* push: a free place and a woken thread are used up together.
LEMMA ProducersPush ==
  ASSUME TypeOK, ProducersWoken, NEW x \in Threads, RunPush(x)
  PROVE  ProducersWoken'
<1>1. Len(queue') = Len(queue) + 1 /\ Len(queue) \in Nat
  BY DEF RunPush, TypeOK
<1>2. /\ Waiting("run")' = Waiting("run") \ {x}
      /\ x \in Waiting("run")
      /\ Waiting("notFull")' = Waiting("notFull")
  BY DEF RunPush, MoveAndNotifyOne, Retest, Caller, Waiting, TypeOK
<1>3. Cardinality(Waiting("run")') = Cardinality(Waiting("run")) - 1
  BY <1>2, WaitingFinite, FS_RemoveElement
<1>4. Cardinality(Waiting("run")) \in Nat
  BY WaitingFinite
<1> QED BY <1>1, <1>2, <1>3, <1>4, SizesAssumption DEF ProducersWoken

\* take: the free place it makes is offered to one of the waiting threads.
LEMMA ProducersTake ==
  ASSUME TypeOK, ProducersWoken, NEW w \in Workers, Take(w)
  PROVE  ProducersWoken'
<1>0. w \in Threads
  BY DEF Threads
<1>1. Len(queue') = Len(queue) - 1 /\ Len(queue) \in Nat /\ Len(queue') \in Nat
  BY DEF Take, TypeOK
<1>2. CASE MaxQueueSize = 0
  BY <1>1, <1>2, WaitingFiniteNext DEF ProducersWoken
<1>3. CASE MaxQueueSize > 0 /\ Waiting("notFull") = {}
           /\ pc' = [pc EXCEPT ![w] = "task"]
  <2>1. Waiting("notFull")' = {}
    BY <1>0, <1>3 DEF Waiting, TypeOK
  <2> QED BY <2>1 DEF ProducersWoken
<1>4. ASSUME NEW y \in Waiting("notFull"),
             pc' = [pc EXCEPT ![w] = "task", ![y] = Retest("notFull")]
      PROVE  ProducersWoken'
  <2>1. Waiting("run")' = Waiting("run") \cup {y} /\ y \notin Waiting("run")
    BY <1>0, <1>4 DEF Waiting, TypeOK, Retest, Take
  <2>2. Cardinality(Waiting("run")') = Cardinality(Waiting("run")) + 1
    BY <2>1, WaitingFinite, FS_AddElement
  <2>3. MaxQueueSize - Len(queue) <= Cardinality(Waiting("run"))
    BY <1>4 DEF ProducersWoken
  <2>4. Cardinality(Waiting("run")) \in Nat
    BY WaitingFinite
  <2> QED BY <1>1, <2>2, <2>3, <2>4, SizesAssumption DEF ProducersWoken
<1> QED BY <1>2, <1>3, <1>4, SizesAssumption DEF Take, MoveAndNotifyOne

LEMMA ProducersStep ==
  ASSUME TypeOK, NewInv, ProducersWoken, [Next]_vars
  PROVE  ProducersWoken'
<1>0. Cardinality(Waiting("run")) \in Nat /\ Cardinality(Waiting("run")') \in Nat
      /\ Len(queue) \in Nat /\ MaxQueueSize \in Nat
  BY WaitingFinite, WaitingFiniteNext, SizesAssumption DEF TypeOK
<1>1. ASSUME queue' = queue, Waiting("notFull")' \subseteq Waiting("notFull"),
             Waiting("run") \subseteq Waiting("run")'
      PROVE  ProducersWoken'
  <2>1. Cardinality(Waiting("run")) <= Cardinality(Waiting("run")')
    BY <1>1, WaitingGrows, WaitingFiniteNext
  <2> QED BY <1>0, <1>1, <2>1 DEF ProducersWoken
<1>2. CASE UNCHANGED vars
  BY <1>1, <1>2 DEF vars, Waiting
<1>3. ASSUME NEW x \in Threads, CallRun(x) \/ SpuriousWakeup(x)
      PROVE ProducersWoken'
  <2>1. /\ queue' = queue
        /\ Waiting("notFull")' \subseteq Waiting("notFull")
        /\ Waiting("run") \subseteq Waiting("run")'
    BY <1>3 DEF CallRun, SpuriousWakeup, Retest, Waiting, TypeOK
  <2> QED BY <1>1, <2>1
<1>4. ASSUME NEW x \in Threads, RunWait(x) PROVE ProducersWoken'
  <2>1. MaxQueueSize - Len(queue') <= 0
    BY <1>0, <1>4 DEF RunWait, IsFull
  <2> QED BY <1>0, <2>1 DEF ProducersWoken
<1>5. ASSUME NEW w \in Workers,
             TestRunning(w) \/ TaskReturns(w) \/ TakeWait(w) \/ TakeNothing(w)
      PROVE ProducersWoken'
  <2>1. /\ queue' = queue
        /\ Waiting("notFull")' \subseteq Waiting("notFull")
        /\ Waiting("run") \subseteq Waiting("run")'
    BY <1>5 DEF TestRunning, TaskReturns, TakeWait, TakeNothing, Waiting, TypeOK
  <2> QED BY <1>1, <2>1
<1>6. CASE Start
  <2>1. Waiting("notFull")' = {}
    BY <1>6 DEF Start, Waiting, TypeOK, NewInv
  <2> QED BY <2>1 DEF ProducersWoken
<1>7. CASE Stop
  <2>1. /\ queue' = queue
        /\ Waiting("notFull")' \subseteq Waiting("notFull")
        /\ Waiting("run") \subseteq Waiting("run")'
    BY <1>7 DEF Stop, Waiting, TypeOK
  <2> QED BY <1>1, <2>1
<1>8. CASE Join
  BY <1>1, <1>8 DEF Join, Waiting
<1> QED
  BY <1>2, <1>3, <1>4, <1>5, <1>6, <1>7, <1>8, ProducersPush, ProducersTake
  DEF Next, RunStep, WorkerStep

-----------------------------------------------------------------------------
(* The order of the tasks, for the refinement.                             *)

OrderInv ==
    /\ \A i \in 1..Len(taken) : taken[i] = i
    /\ \A i \in 1..Len(queue) : queue[i] = Len(taken) + i
    /\ pushed = Len(taken) + Len(queue)

LEMMA OrderPush ==
  ASSUME TypeOK, OrderInv, NEW x \in Threads, RunPush(x)
  PROVE  OrderInv'
<1>1. /\ Len(queue') = Len(queue) + 1
      /\ \A i \in 1..Len(queue) : queue'[i] = queue[i]
      /\ queue'[Len(queue) + 1] = pushed + 1
      /\ Len(queue) \in Nat /\ Len(taken) \in Nat
  BY DEF RunPush, TypeOK
<1>2. taken' = taken /\ pushed' = pushed + 1
  BY DEF RunPush
<1>3. \A i \in 1..Len(queue') : queue'[i] = Len(taken') + i
  <2> SUFFICES ASSUME NEW i \in 1..Len(queue) + 1
               PROVE queue'[i] = Len(taken') + i
    BY <1>1
  <2>1. CASE i \in 1..Len(queue)
    BY <1>1, <1>2, <2>1 DEF OrderInv
  <2>2. CASE i = Len(queue) + 1
    BY <1>1, <1>2, <2>2 DEF OrderInv
  <2> QED BY <1>1, <2>1, <2>2
<1> QED BY <1>1, <1>2, <1>3 DEF OrderInv

LEMMA OrderTake ==
  ASSUME TypeOK, OrderInv, NEW w \in Workers, Take(w)
  PROVE  /\ OrderInv'
         /\ taken' = Append(taken, Len(taken) + 1)
         /\ Len(taken) < pushed
<1>1. /\ Len(queue') = Len(queue) - 1
      /\ \A i \in 1..Len(queue) - 1 : queue'[i] = queue[i + 1]
      /\ Head(queue) = queue[1]
      /\ Len(queue) \in Nat /\ Len(queue) > 0
  BY DEF Take, TypeOK
<1>2. Head(queue) = Len(taken) + 1
  BY <1>1 DEF OrderInv
<1>3. taken' = Append(taken, Len(taken) + 1) /\ pushed' = pushed
  BY <1>2 DEF Take
<1>4. /\ Len(taken') = Len(taken) + 1
      /\ \A i \in 1..Len(taken) : taken'[i] = taken[i]
      /\ taken'[Len(taken) + 1] = Len(taken) + 1
      /\ Len(taken) \in Nat
  BY <1>3 DEF TypeOK
<1>5. \A i \in 1..Len(queue') : queue'[i] = Len(taken') + i
  <2> SUFFICES ASSUME NEW i \in 1..Len(queue) - 1
               PROVE queue'[i] = Len(taken') + i
    BY <1>1
  <2>1. i + 1 \in 1..Len(queue)
    BY <1>1
  <2>2. queue[i + 1] = Len(taken) + (i + 1)
    BY <2>1 DEF OrderInv
  <2> QED BY <1>1, <1>4, <2>2
<1>6. \A i \in 1..Len(taken') : taken'[i] = i
  BY <1>4 DEF OrderInv
<1>7. pushed' = Len(taken') + Len(queue') /\ Len(taken) < pushed
  BY <1>1, <1>3, <1>4 DEF OrderInv
<1> QED BY <1>3, <1>5, <1>6, <1>7 DEF OrderInv

(***************************************************************************)
(* A stopped pool takes no more tasks: its workers have left the loop.     *)
(***************************************************************************)
StoppedInv == cpc = "stopped" => \A w \in Workers : pc[w] = "exit"

LEMMA OrderStep ==
  ASSUME TypeOK, OrderInv, StoppedInv, [Next]_vars
  PROVE  /\ OrderInv' /\ StoppedInv'
         /\ [Queue!Next]_(Queue!tqVars) \/ \E x \in Threads : RunPush(x)
<1> USE DEF OrderInv, StoppedInv, Queue!Next, Queue!tqVars
<1>1. CASE UNCHANGED vars
  BY <1>1 DEF vars
<1>2. ASSUME NEW x \in Threads, CallRun(x) \/ RunWait(x) \/ SpuriousWakeup(x)
      PROVE OrderInv' /\ StoppedInv' /\ [Queue!Next]_(Queue!tqVars)
  BY <1>2 DEF CallRun, RunWait, SpuriousWakeup, TypeOK, Threads
<1>3. ASSUME NEW x \in Threads, RunPush(x)
      PROVE OrderInv' /\ StoppedInv'
  <2>1. StoppedInv'
    BY <1>3 DEF RunPush, MoveAndNotifyOne, Waiting, TypeOK, Threads
  <2> QED BY <1>3, <2>1, OrderPush
<1>4. ASSUME NEW w \in Workers, WorkerStep(w)
      PROVE OrderInv' /\ StoppedInv' /\ [Queue!Next]_(Queue!tqVars)
  <2>0. cpc # "stopped" /\ cpc' = cpc
    BY <1>4 DEF WorkerStep, TestRunning, TakeWait, TakeNothing, Take, TaskReturns
  <2>1. CASE Take(w)
    BY <2>0, <2>1, OrderTake DEF Take, Queue!Execute
  <2>2. CASE TestRunning(w) \/ TakeWait(w) \/ TakeNothing(w) \/ TaskReturns(w)
    BY <2>0, <2>2 DEF TestRunning, TakeWait, TakeNothing, TaskReturns
  <2> QED BY <1>4, <2>1, <2>2 DEF WorkerStep
<1>5. CASE Start \/ Stop
  BY <1>5 DEF Start, Stop
<1>6. CASE Join
  BY <1>6 DEF Join, Queue!Stop
<1> QED
  BY <1>1, <1>2, <1>3, <1>4, <1>5, <1>6 DEF Next, RunStep

-----------------------------------------------------------------------------

IInv ==
    /\ TypeOK /\ CallsInv /\ NewInv
    /\ WorkersWoken /\ ProducersWoken
    /\ OrderInv /\ StoppedInv

LEMMA InitIInv == Init => IInv
<1> SUFFICES ASSUME Init PROVE IInv
  OBVIOUS
<1>1. <<>> \in Seq(1..MaxTasks)
  OBVIOUS
<1>2. queue \in Seq(1..MaxTasks) /\ taken \in Seq(1..MaxTasks)
      /\ Len(queue) = 0 /\ Len(taken) = 0
  BY <1>1 DEF Init
<1>3. /\ calls \in 0..MaxTasks /\ pushed \in 0..MaxTasks
      /\ beforeStop \in 0..MaxTasks
  BY SizesAssumption DEF Init
<1>4. /\ pc \in [Threads -> ProducerPcs \cup WorkerPcs]
      /\ \A x \in Threads : pc[x] \in IF x \in Workers THEN WorkerPcs ELSE ProducerPcs
  BY DEF Init, ProducerPcs, WorkerPcs
<1>5. running \in BOOLEAN /\ cpc \in {"new", "started", "joining", "stopped"}
  BY DEF Init
<1>6. TypeOK
  BY <1>2, <1>3, <1>4, <1>5 DEF TypeOK
<1>7. InRun = {} /\ Waiting("notEmpty") = {} /\ Waiting("notFull") = {}
  BY DEF Init, InRun, Waiting
<1>8. CallsInv
  BY <1>7, FS_EmptySet DEF CallsInv, Init
<1>9. NewInv /\ StoppedInv
  BY DEF Init, NewInv, StoppedInv
<1>10. WorkersWoken /\ ProducersWoken
  BY <1>7 DEF WorkersWoken, ProducersWoken
<1>11. OrderInv
  BY <1>2 DEF Init, OrderInv
<1> QED BY <1>6, <1>8, <1>9, <1>10, <1>11 DEF IInv

LEMMA Invariance == Spec => []IInv
<1>1. IInv /\ [Next]_vars => IInv'
  BY CallsStep, TypeStep, WorkersStep, ProducersStep, OrderStep DEF IInv
<1> QED BY <1>1, InitIInv, PTL DEF Spec

\* The variables of the pool stay in their ranges.
THEOREM TypeCorrect == Spec => []TypeOK
<1>1. IInv => TypeOK
  BY DEF IInv
<1> QED BY <1>1, Invariance, PTL

\* One notify_one() per push suffices for any number of workers: while one of
\* them sleeps, each queued task has a woken worker of its own.
THEOREM WorkersWokenHolds == Spec => []WorkersWoken
<1>1. IInv => WorkersWoken
  BY DEF IInv
<1> QED BY <1>1, Invariance, PTL

\* One notify_one() per take suffices for any number of threads in run().
THEOREM ProducersWokenHolds == Spec => []ProducersWoken
<1>1. IInv => ProducersWoken
  BY DEF IInv
<1> QED BY <1>1, Invariance, PTL

\* Tasks are taken once each, in the order of the pushes, none after stop().
THEOREM ThreadPoolRefinesTaskQueue == Spec => ImplementsTaskQueue
<1>1. Init => Queue!Init
  BY DEF Init, Queue!Init
<1>2. IInv /\ [Next]_vars => [Queue!Next]_(Queue!tqVars)
  <2> SUFFICES ASSUME IInv, [Next]_vars PROVE [Queue!Next]_(Queue!tqVars)
    OBVIOUS
  <2>1. ASSUME NEW x \in Threads, RunPush(x) PROVE Queue!Submit
    BY <2>1, PushBelowBound DEF IInv, RunPush, Queue!Submit
  <2> QED BY <2>1, OrderStep DEF IInv, Queue!Next
<1> QED
  BY <1>1, <1>2, Invariance, PTL DEF Spec, ImplementsTaskQueue, Queue!Spec
-----------------------------------------------------------------------------
(* TcpServer: its queues of functors.                                      *)

\* No functor is in s twice.
Distinct(s) == \A i, j \in DOMAIN s : s[i] = s[j] => i = j

\* connectDestroyed() comes behind the connectEstablished() of the same connection.
Ordered(s) ==
    \A i, j \in DOMAIN s :
        s[i][1] = "connectDestroyed" /\ s[j][1] = "connectEstablished" /\ s[i][2] = s[j][2]
            => j < i

\* What is left of the batch b, and then the queue q.
Joined(b, q) == b \o q

LEMMA AppendBehind ==
  ASSUME NEW S, NEW b \in Seq(S), NEW q \in Seq(S), NEW e \in S
  PROVE  Joined(b, Append(q, e)) = Append(Joined(b, q), e)
<1> DEFINE x == b \o Append(q, e)
           y == Append(b \o q, e)
           n == Len(b) + Len(q) + 1
<1>1. /\ Len(b) \in Nat /\ Len(q) \in Nat /\ b \o q \in Seq(S) /\ Append(q, e) \in Seq(S)
      /\ Len(b \o q) = Len(b) + Len(q) /\ Len(Append(q, e)) = Len(q) + 1
  OBVIOUS
<1>2. /\ x \in Seq(S) /\ Len(x) = n
      /\ y \in Seq(S) /\ Len(y) = n
  BY <1>1
<1>3. \A i \in 1..n : x[i] = y[i]
  OBVIOUS
<1> HIDE DEF x, y, n
<1>4. x = y
  BY <1>2, <1>3, SeqEqual
<1> QED BY <1>4 DEF x, y, Joined

LEMMA TailOfConcat ==
  ASSUME NEW S, NEW b \in Seq(S), NEW q \in Seq(S), b # <<>>
  PROVE  /\ Joined(b, q) # <<>>
         /\ Joined(Tail(b), q) = Tail(Joined(b, q)) /\ Head(Joined(b, q)) = Head(b)
<1> DEFINE x == Tail(b) \o q
           y == Tail(b \o q)
           n == Len(b) + Len(q) - 1
<1>1. /\ Len(b) \in Nat \ {0} /\ Len(q) \in Nat
      /\ b \o q \in Seq(S) /\ Len(b \o q) = Len(b) + Len(q)
      /\ Tail(b) \in Seq(S) /\ Len(Tail(b)) = Len(b) - 1
  OBVIOUS
<1>2. b \o q # <<>>
  BY <1>1
<1>3. /\ x \in Seq(S) /\ Len(x) = n
      /\ y \in Seq(S) /\ Len(y) = n
  BY <1>1, <1>2
<1>4. \A i \in 1..n : x[i] = y[i]
  OBVIOUS
<1>5. Head(b \o q) = Head(b)
  BY <1>1
<1> HIDE DEF x, y, n
<1>6. x = y
  BY <1>3, <1>4, SeqEqual
<1> QED BY <1>2, <1>5, <1>6 DEF x, y, Joined

LEMMA AppendToQueue ==
  ASSUME NEW S, NEW s \in Seq(S), NEW e \in S
  PROVE  /\ Append(s, e) \in Seq(S) /\ ToSet(Append(s, e)) = ToSet(s) \cup {e}
         /\ Distinct(s) /\ e \notin ToSet(s) => Distinct(Append(s, e))
         /\ /\ Ordered(s)
            /\ e[1] = "connectEstablished" =>
                 \A f \in ToSet(s) : ~(f[1] = "connectDestroyed" /\ f[2] = e[2])
            => Ordered(Append(s, e))
<1> DEFINE t == Append(s, e)
           n == Len(s)
<1>1. /\ n \in Nat /\ DOMAIN s = 1..n /\ DOMAIN t = 1..(n + 1) /\ t \in Seq(S)
      /\ t[n + 1] = e /\ \A i \in 1..n : t[i] = s[i]
  OBVIOUS
<1>2. \A i \in 1..(n + 1) : i \in 1..n \/ i = n + 1
  BY <1>1
<1>3. /\ \A i \in 1..n : i \in 1..(n + 1) /\ i < n + 1
      /\ n + 1 \in 1..(n + 1)
  BY <1>1
<1> HIDE DEF t, n
<1>4. ToSet(t) = ToSet(s) \cup {e}
  BY <1>1, <1>2, <1>3 DEF ToSet
<1>5. \A i \in 1..n : s[i] \in ToSet(s)
  BY <1>1 DEF ToSet
<1>6. ASSUME Distinct(s), e \notin ToSet(s) PROVE Distinct(t)
  <2> SUFFICES ASSUME NEW i \in 1..(n + 1), NEW j \in 1..(n + 1), t[i] = t[j]
               PROVE  i = j
    BY <1>1 DEF Distinct
  <2>1. CASE i \in 1..n /\ j \in 1..n
    BY <1>1, <1>6, <2>1 DEF Distinct
  <2>2. CASE i = n + 1 \/ j = n + 1
    BY <1>1, <1>2, <1>5, <1>6, <2>2
  <2> QED BY <1>2, <2>1, <2>2
<1>7. ASSUME Ordered(s),
             e[1] = "connectEstablished" =>
               \A f \in ToSet(s) : ~(f[1] = "connectDestroyed" /\ f[2] = e[2])
      PROVE  Ordered(t)
  <2> SUFFICES ASSUME NEW i \in 1..(n + 1), NEW j \in 1..(n + 1),
                      t[i][1] = "connectDestroyed", t[j][1] = "connectEstablished",
                      t[i][2] = t[j][2]
               PROVE  j < i
    BY <1>1 DEF Ordered
  <2>1. CASE i \in 1..n /\ j \in 1..n
    BY <1>1, <1>7, <2>1 DEF Ordered
  <2>2. CASE i = n + 1 /\ j \in 1..n
    BY <1>3, <2>2
  <2>3. CASE j = n + 1 /\ i \in 1..n
    BY <1>1, <1>5, <1>7, <2>3
  <2>4. CASE i = n + 1 /\ j = n + 1
    BY <2>4
  <2> QED BY <1>2, <2>1, <2>2, <2>3, <2>4
<1> QED BY <1>1, <1>4, <1>6, <1>7 DEF t

LEMMA TakeFromQueue ==
  ASSUME NEW S, NEW s \in Seq(S), s # <<>>, Distinct(s), Ordered(s)
  PROVE  /\ Tail(s) \in Seq(S) /\ Head(s) \in S
         /\ ToSet(s) = ToSet(Tail(s)) \cup {Head(s)} /\ Head(s) \notin ToSet(Tail(s))
         /\ Distinct(Tail(s)) /\ Ordered(Tail(s))
         /\ Head(s)[1] = "connectDestroyed" =>
              \A f \in ToSet(s) : ~(f[1] = "connectEstablished" /\ f[2] = Head(s)[2])
<1> DEFINE t == Tail(s)
           h == Head(s)
           n == Len(s) - 1
<1>1. /\ n \in Nat /\ DOMAIN s = 1..(n + 1) /\ DOMAIN t = 1..n /\ t \in Seq(S)
      /\ h \in S /\ s[1] = h /\ \A i \in 1..n : t[i] = s[i + 1]
  OBVIOUS
<1>2. \A i \in 1..(n + 1) : i = 1 \/ (i - 1 \in 1..n /\ (i - 1) + 1 = i)
  BY <1>1
<1>3. /\ \A i \in 1..n : i + 1 \in 1..(n + 1) /\ i + 1 # 1
      /\ 1 \in 1..(n + 1)
  BY <1>1
<1> HIDE DEF t, n, h
<1>4. ToSet(s) = ToSet(t) \cup {h}
  <2>1. \A i \in 1..(n + 1) : s[i] \in ToSet(t) \cup {h}
    <3> SUFFICES ASSUME NEW i \in 1..(n + 1) PROVE s[i] \in ToSet(t) \cup {h}
      OBVIOUS
    <3>1. CASE i = 1
      BY <1>1, <3>1
    <3>2. CASE i - 1 \in 1..n /\ (i - 1) + 1 = i
      <4>1. t[i - 1] = s[i]
        BY <1>1, <3>2
      <4> QED BY <1>1, <3>2, <4>1 DEF ToSet
    <3> QED BY <1>2, <3>1, <3>2
  <2>2. h \in ToSet(s)
    BY <1>1, <1>3 DEF ToSet
  <2>3. \A i \in 1..n : t[i] \in ToSet(s)
    <3> TAKE i \in 1..n
    <3>1. i + 1 \in DOMAIN s /\ t[i] = s[i + 1]
      BY <1>1, <1>3
    <3> QED BY <3>1 DEF ToSet
  <2>4. ToSet(t) = {t[i] : i \in 1..n} /\ ToSet(s) = {s[i] : i \in 1..(n + 1)}
    BY <1>1 DEF ToSet
  <2> QED BY <2>1, <2>2, <2>3, <2>4
<1>5. h \notin ToSet(t)
  <2>1. \A i \in 1..n : s[i + 1] # s[1]
    BY <1>1, <1>3 DEF Distinct
  <2>2. \A i \in 1..n : t[i] # h
    BY <1>1, <2>1
  <2> QED BY <1>1, <2>2 DEF ToSet
<1>6. Distinct(t)
  <2> SUFFICES ASSUME NEW i \in 1..n, NEW j \in 1..n, t[i] = t[j] PROVE i = j
    BY <1>1 DEF Distinct
  <2>1. /\ i + 1 \in DOMAIN s /\ j + 1 \in DOMAIN s
        /\ s[i + 1] = s[j + 1]
    BY <1>1, <1>3
  <2>2. i + 1 = j + 1
    BY <2>1 DEF Distinct
  <2> QED BY <2>2
<1>7. Ordered(t)
  <2> SUFFICES ASSUME NEW i \in 1..n, NEW j \in 1..n,
                      t[i][1] = "connectDestroyed", t[j][1] = "connectEstablished",
                      t[i][2] = t[j][2]
               PROVE  j < i
    BY <1>1 DEF Ordered
  <2>1. j + 1 < i + 1
    BY <1>1, <1>3 DEF Ordered
  <2> QED BY <2>1
<1>8. ASSUME h[1] = "connectDestroyed"
      PROVE  \A f \in ToSet(s) : ~(f[1] = "connectEstablished" /\ f[2] = h[2])
  <2> SUFFICES ASSUME NEW j \in 1..(n + 1), s[j][1] = "connectEstablished", s[j][2] = h[2]
               PROVE  FALSE
    BY <1>1 DEF ToSet
  <2>1. j < 1
    BY <1>1, <1>3, <1>8 DEF Ordered
  <2> QED BY <1>1, <2>1
<1> QED BY <1>1, <1>4, <1>5, <1>6, <1>7, <1>8 DEF t, h
\* The functors of loop l that have still to run, in their order.
ToRun(l) == Joined(batch[l], pending[l])

Queued(l, f) == f \in ToSet(ToRun(l))

\* Each functor is queued once, and connectDestroyed() behind connectEstablished().
QueueInv ==
    \A l \in Loops : Distinct(ToRun(l)) /\ Ordered(ToRun(l))

LEMMA ToRunType ==
  ASSUME ServerTypeOK, NEW l \in Loops
  PROVE  /\ pending[l] \in Seq(Functors) /\ batch[l] \in Seq(Functors)
         /\ ToRun(l) \in Seq(Functors)
<1>1. pending[l] \in Seq(Functors) /\ batch[l] \in Seq(Functors)
  BY DEF ServerTypeOK
<1> QED BY <1>1 DEF ToRun, Joined

\* Nothing is queued and nothing taken.
LEMMA QueuesSame ==
  ASSUME numThreads' = numThreads, \A l \in Loops : ToRun(l)' = ToRun(l)
  PROVE  /\ \A l \in Loops, g \in Functors : Queued(l, g)' <=> Queued(l, g)
         /\ QueueInv => QueueInv'
<1>1. Loops' = Loops
  BY DEF Loops
<1>2. \A l \in Loops, g \in Functors : Queued(l, g)' <=> Queued(l, g)
  BY DEF Queued
<1>3. ASSUME QueueInv PROVE QueueInv'
  <2> SUFFICES ASSUME NEW l \in Loops PROVE Distinct(ToRun(l)') /\ Ordered(ToRun(l)')
    BY <1>1 DEF QueueInv, Distinct, Ordered
  <2> QED BY <1>3 DEF QueueInv
<1> QED BY <1>2, <1>3

\* queueInLoop(f) on loop k: f goes behind what the loop has.
QueueInLoop(k, f) == pending' = [pending EXCEPT ![k] = Append(@, f)]

LEMMA QueueGrows ==
  ASSUME ServerTypeOK, numThreads' = numThreads, batch' = batch,
         NEW k \in Loops, NEW f \in Functors, QueueInLoop(k, f)
  PROVE  /\ \A l \in Loops, g \in Functors :
              Queued(l, g)' <=> Queued(l, g) \/ (l = k /\ g = f)
         /\ /\ QueueInv /\ ~Queued(k, f)
            /\ f[1] = "connectEstablished" =>
                 \A g \in Functors : Queued(k, g) => ~(g[1] = "connectDestroyed" /\ g[2] = f[2])
            => QueueInv'
<1> DEFINE s == ToRun(k)
<1>1. s \in Seq(Functors) /\ pending[k] \in Seq(Functors) /\ batch[k] \in Seq(Functors)
  BY ToRunType
<1>2. /\ pending'[k] = Append(pending[k], f)
      /\ \A l \in Loops \ {k} : pending'[l] = pending[l]
      /\ Loops' = Loops
  BY DEF ServerTypeOK, Loops, QueueInLoop
<1>3. ToRun(k)' = Append(s, f)
  <2> DEFINE b == batch[k]
             q == pending[k]
  <2>1. ToRun(k)' = Joined(b, Append(q, f))
    BY <1>2 DEF ToRun
  <2>2. b \in Seq(Functors) /\ q \in Seq(Functors)
    BY <1>1
  <2> HIDE DEF b, q
  <2>3. Joined(b, Append(q, f)) = Append(Joined(b, q), f)
    BY <2>2, AppendBehind
  <2> QED BY <2>1, <2>3 DEF ToRun, b, q
<1>4. \A l \in Loops \ {k} : ToRun(l)' = ToRun(l)
  BY <1>2 DEF ToRun
<1>5. \A g \in ToSet(s) : g \in Functors
  BY <1>1 DEF ToSet
<1>6. ToSet(s) = {g \in Functors : Queued(k, g)}
  BY <1>5 DEF Queued
<1> HIDE DEF s
<1>7. /\ ToSet(Append(s, f)) = ToSet(s) \cup {f}
      /\ Distinct(s) /\ f \notin ToSet(s) => Distinct(Append(s, f))
      /\ /\ Ordered(s)
         /\ f[1] = "connectEstablished" =>
              \A g \in ToSet(s) : ~(g[1] = "connectDestroyed" /\ g[2] = f[2])
         => Ordered(Append(s, f))
  BY <1>1, AppendToQueue
<1>8. \A l \in Loops, g \in Functors : Queued(l, g)' <=> Queued(l, g) \/ (l = k /\ g = f)
  <2> TAKE l \in Loops, g \in Functors
  <2>1. CASE l = k
    <3>1. Queued(k, g)' <=> g \in ToSet(Append(s, f))
      BY <1>3 DEF Queued
    <3> QED BY <1>7, <2>1, <3>1 DEF Queued, s
  <2>2. CASE l # k
    BY <1>4, <2>2 DEF Queued
  <2> QED BY <2>1, <2>2
<1>9. ASSUME QueueInv, ~Queued(k, f),
             f[1] = "connectEstablished" =>
               \A g \in Functors : Queued(k, g) => ~(g[1] = "connectDestroyed" /\ g[2] = f[2])
      PROVE  QueueInv'
  <2>1. Distinct(s) /\ Ordered(s) /\ f \notin ToSet(s)
    BY <1>9 DEF QueueInv, Queued, s
  <2>2. Distinct(Append(s, f)) /\ Ordered(Append(s, f))
    BY <1>6, <1>7, <1>9, <2>1
  <2> SUFFICES ASSUME NEW l \in Loops PROVE Distinct(ToRun(l)') /\ Ordered(ToRun(l)')
    BY <1>2 DEF QueueInv, Distinct, Ordered
  <2>3. CASE l = k
    BY <1>3, <2>2, <2>3
  <2>4. CASE l # k
    BY <1>4, <1>9, <2>4 DEF QueueInv
  <2> QED BY <2>3, <2>4
<1> QED BY <1>8, <1>9

\* Loop k takes f, the next one.
LEMMA QueueShrinks ==
  ASSUME ServerTypeOK, QueueInv, NEW k \in Loops, NEW f, Running(k, f), pending' = pending
  PROVE  /\ f \in Functors /\ Queued(k, f)
         /\ \A l \in Loops, g \in Functors :
              Queued(l, g)' <=> Queued(l, g) /\ ~(l = k /\ g = f)
         /\ QueueInv'
         /\ f[1] = "connectDestroyed" =>
              \A g \in Functors : Queued(k, g) => ~(g[1] = "connectEstablished" /\ g[2] = f[2])
<1> DEFINE s == ToRun(k)
<1>1. s \in Seq(Functors) /\ pending[k] \in Seq(Functors) /\ batch[k] \in Seq(Functors)
  BY ToRunType
<1>2. /\ batch'[k] = Tail(batch[k]) /\ batch[k] # <<>> /\ Head(batch[k]) = f
      /\ \A l \in Loops \ {k} : batch'[l] = batch[l]
      /\ Loops' = Loops
  BY DEF ServerTypeOK, Loops, Running
<1>3. ToRun(k)' = Tail(s) /\ s # <<>> /\ Head(s) = f
  <2>1. ToRun(k)' = Joined(Tail(batch[k]), pending[k])
    BY <1>2 DEF ToRun
  <2> QED BY <1>1, <1>2, <2>1, TailOfConcat DEF ToRun
<1>4. \A l \in Loops \ {k} : ToRun(l)' = ToRun(l)
  BY <1>2 DEF ToRun
<1>5. \A g \in ToSet(s) : g \in Functors
  BY <1>1 DEF ToSet
<1>6. ToSet(s) = {g \in Functors : Queued(k, g)}
  BY <1>5 DEF Queued
<1>7. Distinct(s) /\ Ordered(s)
  BY DEF QueueInv
<1> HIDE DEF s
<1>8. /\ f \in Functors
      /\ ToSet(s) = ToSet(Tail(s)) \cup {f} /\ f \notin ToSet(Tail(s))
      /\ Distinct(Tail(s)) /\ Ordered(Tail(s))
      /\ f[1] = "connectDestroyed" =>
           \A g \in ToSet(s) : ~(g[1] = "connectEstablished" /\ g[2] = f[2])
  BY <1>1, <1>3, <1>7, TakeFromQueue
<1>9. \A l \in Loops, g \in Functors : Queued(l, g)' <=> Queued(l, g) /\ ~(l = k /\ g = f)
  <2> TAKE l \in Loops, g \in Functors
  <2>1. CASE l = k
    <3>1. Queued(k, g)' <=> g \in ToSet(Tail(s))
      BY <1>3 DEF Queued
    <3> QED BY <1>8, <2>1, <3>1 DEF Queued, s
  <2>2. CASE l # k
    BY <1>4, <2>2 DEF Queued
  <2> QED BY <2>1, <2>2
<1>10. QueueInv'
  <2> SUFFICES ASSUME NEW l \in Loops PROVE Distinct(ToRun(l)') /\ Ordered(ToRun(l)')
    BY <1>2 DEF QueueInv, Distinct, Ordered
  <2>3. CASE l = k
    BY <1>3, <1>8, <2>3
  <2>4. CASE l # k
    BY <1>4, <2>4 DEF QueueInv
  <2> QED BY <2>3, <2>4
<1> QED BY <1>6, <1>8, <1>9, <1>10

\* Loop k takes f, which queues e for another loop.
LEMMA QueueMoves ==
  ASSUME ServerTypeOK, QueueInv, NEW k \in Loops, NEW f, Running(k, f),
         NEW m \in Loops, m # k, NEW e \in Functors, QueueInLoop(m, e)
  PROVE  /\ f \in Functors /\ Queued(k, f)
         /\ \A l \in Loops, g \in Functors :
              Queued(l, g)' <=> \/ Queued(l, g) /\ ~(l = k /\ g = f)
                                \/ l = m /\ g = e
         /\ ~Queued(m, e) /\ e[1] # "connectEstablished" => QueueInv'
<1> DEFINE s == ToRun(k)
           t == ToRun(m)
<1>1. /\ s \in Seq(Functors) /\ pending[k] \in Seq(Functors) /\ batch[k] \in Seq(Functors)
      /\ t \in Seq(Functors) /\ pending[m] \in Seq(Functors) /\ batch[m] \in Seq(Functors)
  BY ToRunType
<1>2. /\ batch'[k] = Tail(batch[k]) /\ batch[k] # <<>> /\ Head(batch[k]) = f
      /\ \A l \in Loops \ {k} : batch'[l] = batch[l]
      /\ pending'[m] = Append(pending[m], e)
      /\ \A l \in Loops \ {m} : pending'[l] = pending[l]
      /\ Loops' = Loops
  BY DEF ServerTypeOK, Loops, Running, QueueInLoop
<1>3. ToRun(k)' = Tail(s) /\ s # <<>> /\ Head(s) = f
  <2>1. ToRun(k)' = Joined(Tail(batch[k]), pending[k])
    BY <1>2 DEF ToRun
  <2> QED BY <1>1, <1>2, <2>1, TailOfConcat DEF ToRun
<1>4. ToRun(m)' = Append(t, e)
  <2> DEFINE b == batch[m]
             q == pending[m]
  <2>1. ToRun(m)' = Joined(b, Append(q, e))
    BY <1>2 DEF ToRun
  <2>2. b \in Seq(Functors) /\ q \in Seq(Functors)
    BY <1>1
  <2> HIDE DEF b, q
  <2>3. Joined(b, Append(q, e)) = Append(Joined(b, q), e)
    BY <2>2, AppendBehind
  <2> QED BY <2>1, <2>3 DEF ToRun, b, q
<1>5. \A l \in Loops \ {k, m} : ToRun(l)' = ToRun(l)
  BY <1>2 DEF ToRun
<1>6. Distinct(s) /\ Ordered(s) /\ Distinct(t) /\ Ordered(t)
  BY DEF QueueInv
<1>7. /\ \A g \in Functors : Queued(k, g) <=> g \in ToSet(s)
      /\ \A g \in Functors : Queued(m, g) <=> g \in ToSet(t)
  BY DEF Queued
<1> HIDE DEF s, t
<1>8. /\ f \in Functors
      /\ ToSet(s) = ToSet(Tail(s)) \cup {f} /\ f \notin ToSet(Tail(s))
      /\ Distinct(Tail(s)) /\ Ordered(Tail(s))
  BY <1>1, <1>3, <1>6, TakeFromQueue
<1>9. /\ ToSet(Append(t, e)) = ToSet(t) \cup {e}
      /\ e \notin ToSet(t) => Distinct(Append(t, e))
      /\ e[1] # "connectEstablished" => Ordered(Append(t, e))
  BY <1>1, <1>6, AppendToQueue
<1>10. \A l \in Loops, g \in Functors :
         Queued(l, g)' <=> \/ Queued(l, g) /\ ~(l = k /\ g = f)
                           \/ l = m /\ g = e
  <2> TAKE l \in Loops, g \in Functors
  <2>1. CASE l = k
    <3>1. Queued(k, g)' <=> g \in ToSet(Tail(s))
      BY <1>3 DEF Queued
    <3> QED BY <1>7, <1>8, <2>1, <3>1
  <2>2. CASE l = m
    <3>1. Queued(m, g)' <=> g \in ToSet(Append(t, e))
      BY <1>4 DEF Queued
    <3> QED BY <1>7, <1>9, <2>2, <3>1
  <2>3. CASE l \notin {k, m}
    BY <1>5, <2>3 DEF Queued
  <2> QED BY <2>1, <2>2, <2>3
<1>11. ASSUME ~Queued(m, e), e[1] # "connectEstablished" PROVE QueueInv'
  <2> SUFFICES ASSUME NEW l \in Loops PROVE Distinct(ToRun(l)') /\ Ordered(ToRun(l)')
    BY <1>2 DEF QueueInv, Distinct, Ordered
  <2>1. CASE l = k
    BY <1>3, <1>8, <2>1
  <2>2. CASE l = m
    BY <1>4, <1>7, <1>9, <1>11, <2>2
  <2>3. CASE l \notin {k, m}
    BY <1>5, <2>3 DEF QueueInv
  <2> QED BY <2>1, <2>2, <2>3
<1> QED BY <1>7, <1>8, <1>10, <1>11

\* What loop k has still to run is destroyed with it.
LEMMA QueueDropped ==
  ASSUME ServerTypeOK, numThreads' = numThreads, NEW k \in Loops, batch[k] = <<>>,
         batch' = batch, pending' = [pending EXCEPT ![k] = <<>>]
  PROVE  /\ \A l \in Loops, g \in Functors : Queued(l, g)' <=> Queued(l, g) /\ l # k
         /\ QueueInv => QueueInv'
<1>1. /\ pending'[k] = <<>> /\ batch'[k] = <<>>
      /\ \A l \in Loops \ {k} : pending'[l] = pending[l] /\ batch'[l] = batch[l]
      /\ Loops' = Loops
  BY DEF ServerTypeOK, Loops
<1>2. ToRun(k)' = <<>>
  BY <1>1 DEF ToRun, Joined
<1>3. \A l \in Loops \ {k} : ToRun(l)' = ToRun(l)
  BY <1>1 DEF ToRun
<1>4. ToSet(<<>>) = {} /\ Distinct(<<>>) /\ Ordered(<<>>)
  BY DEF ToSet, Distinct, Ordered
<1>5. \A l \in Loops, g \in Functors : Queued(l, g)' <=> Queued(l, g) /\ l # k
  <2> TAKE l \in Loops, g \in Functors
  <2>1. CASE l = k
    <3>1. Queued(k, g)' <=> g \in ToSet(<<>>)
      BY <1>2 DEF Queued
    <3> QED BY <1>4, <2>1, <3>1
  <2>2. CASE l # k
    BY <1>3, <2>2 DEF Queued
  <2> QED BY <2>1, <2>2
<1>6. ASSUME QueueInv PROVE QueueInv'
  <2> SUFFICES ASSUME NEW l \in Loops PROVE Distinct(ToRun(l)') /\ Ordered(ToRun(l)')
    BY <1>1 DEF QueueInv, Distinct, Ordered
  <2>1. CASE l = k
    BY <1>2, <1>4, <2>1
  <2>2. CASE l # k
    BY <1>3, <1>6, <2>2 DEF QueueInv
  <2> QED BY <2>1, <2>2
<1> QED BY <1>5, <1>6
-----------------------------------------------------------------------------
(* TcpServer: types, and where the threads are.                            *)

\* Which thread the main thread is waiting for, and where it is.
ThreadInv ==
    /\ loopPc[0] \in {"start", "wait"} =>
         \A l \in Loops : l > thread => loopPc[l] = "none"
    /\ loopPc[0] \in {"wait", "join"} => thread \in 1..numThreads
    /\ loopPc[0] = "quit" => thread >= 1
    /\ loopPc[0] \in {"quit", "join", "done"} => connections = {}
    /\ \A l \in Loops : loopPc[l] # "drain" => batch[l] = <<>>

LEMMA LoopFacts ==
  ASSUME ServerTypeOK
  PROVE  /\ numThreads \in Nat /\ 0 \in Loops /\ Loops \subseteq Nat
         /\ \A l \in Loops : l # 0 => l \in 1..numThreads
         /\ \A l \in 1..numThreads : l \in Loops /\ l # 0
BY ThreadNumsAssumption DEF ServerTypeOK, Loops

LEMMA QueueTypes ==
  ASSUME ServerTypeOK, numThreads' = numThreads
  PROVE  /\ Loops' = Loops
         /\ \A k \in Loops, f \in Functors :
              QueueInLoop(k, f) => pending' \in [Loops -> Seq(Functors)]
         /\ \A k \in Loops :
              pending' = [pending EXCEPT ![k] = <<>>] => pending' \in [Loops -> Seq(Functors)]
         /\ \A k \in Loops : \A f : Running(k, f) => batch' \in [Loops -> Seq(Functors)]
<1>1. Loops' = Loops
  BY DEF Loops
<1>2. pending \in [Loops -> Seq(Functors)] /\ batch \in [Loops -> Seq(Functors)]
  BY DEF ServerTypeOK
<1>3. \A q \in Seq(Functors), f \in Functors : Append(q, f) \in Seq(Functors)
  OBVIOUS
<1>4. <<>> \in Seq(Functors)
  OBVIOUS
<1>5. \A q \in Seq(Functors) : q # <<>> => Tail(q) \in Seq(Functors)
  OBVIOUS
<1>6. \A k \in Loops, f \in Functors :
        QueueInLoop(k, f) => pending' \in [Loops -> Seq(Functors)]
  BY <1>2, <1>3 DEF QueueInLoop
<1>7. \A k \in Loops :
        pending' = [pending EXCEPT ![k] = <<>>] => pending' \in [Loops -> Seq(Functors)]
  BY <1>2, <1>4
<1>8. \A k \in Loops : \A f : Running(k, f) => batch' \in [Loops -> Seq(Functors)]
  BY <1>2, <1>5 DEF Running
<1> QED BY <1>1, <1>6, <1>7, <1>8

LEMMA TypeMain ==
  ASSUME ServerTypeOK, ThreadInv, MainStep
  PROVE  ServerTypeOK' /\ ThreadInv'
<1> USE LoopFacts
<1>1. numThreads' = numThreads /\ Loops' = Loops /\ numThreads \in Nat
  BY DEF MainStep, StartLoop, StartLoopReturns, AcceptFails, DropPeer, ReopenIdleFd,
         NewConnection, RemoveConnectionInLoop, DestroyConnection, DestroyPool, QuitThread,
         JoinThread, ServerDestroyed, Running, Loops
<1>2. CASE StartLoop
  <2>1. thread + 1 \in Loops /\ thread + 1 # 0 /\ thread \in Nat
    BY <1>1, <1>2 DEF StartLoop, ServerTypeOK
  <2>2. /\ loopPc' \in [Loops -> Pcs] /\ loopPc'[0] = "wait" /\ loopPc'[thread + 1] = "new"
        /\ \A l \in Loops \ {0, thread + 1} : loopPc'[l] = loopPc[l]
    BY <1>2, <2>1 DEF StartLoop, ServerTypeOK, Pcs, MainPcs
  <2>3. thread' \in 0..(numThreads + 1)
    BY <1>1, <1>2, <2>1 DEF StartLoop
  <2>4. ServerTypeOK'
    BY <1>1, <1>2, <2>2, <2>3 DEF StartLoop, ServerTypeOK, connVars, fdVars, MainPcs
  <2>5. loopPc[thread + 1] = "none" /\ loopPc[0] = "start"
    BY <1>2, <2>1 DEF ThreadInv, StartLoop
  <2>6. \A l \in Loops : l > thread + 1 => loopPc'[l] = "none"
    BY <1>2, <2>1, <2>2 DEF ThreadInv, StartLoop
  <2>7. \A l \in Loops : batch'[l] = batch[l] /\ (loopPc'[l] # "drain" => loopPc[l] # "drain")
    BY <1>2, <2>2, <2>5 DEF StartLoop
  <2> QED BY <1>1, <1>2, <2>1, <2>2, <2>4, <2>6, <2>7 DEF ThreadInv, StartLoop
<1>3. CASE StartLoopReturns
  <2>1. /\ loopPc' \in [Loops -> Pcs] /\ loopPc'[0] = "start"
        /\ \A l \in Loops \ {0} : loopPc'[l] = loopPc[l]
    BY <1>3 DEF StartLoopReturns, ServerTypeOK, Pcs, MainPcs
  <2>2. ServerTypeOK'
    BY <1>1, <1>3, <2>1 DEF StartLoopReturns, ServerTypeOK, connVars, fdVars, MainPcs
  <2> QED BY <1>1, <1>3, <2>1, <2>2 DEF ThreadInv, StartLoopReturns, ServerTypeOK
<1>4. CASE AcceptFails
  <2>1. /\ loopPc' \in [Loops -> Pcs] /\ loopPc'[0] = "spare" /\ loopPc[0] = "events"
        /\ \A l \in Loops \ {0} : loopPc'[l] = loopPc[l]
    BY <1>4 DEF AcceptFails, Accepting, ServerTypeOK, Pcs, MainPcs
  <2>2. ServerTypeOK'
    BY <1>1, <1>4, <2>1 DEF AcceptFails, Handled, ServerTypeOK, connVars, fdVars, MainPcs
  <2> QED BY <1>1, <1>4, <2>1, <2>2 DEF ThreadInv, AcceptFails
<1>5. CASE DropPeer
  <2>1. /\ loopPc' \in [Loops -> Pcs] /\ loopPc'[0] = "reopen" /\ loopPc[0] = "spare"
        /\ \A l \in Loops \ {0} : loopPc'[l] = loopPc[l]
    BY <1>5 DEF DropPeer, ServerTypeOK, Pcs, MainPcs
  <2>2. conn' \in [Conns -> States]
    BY <1>5 DEF DropPeer, ServerTypeOK, States
  <2>3. ServerTypeOK'
    BY <1>1, <1>5, <2>1, <2>2 DEF DropPeer, ServerTypeOK, fdVars, MainPcs
  <2> QED BY <1>1, <1>5, <2>1, <2>3 DEF ThreadInv, DropPeer
<1>6. CASE ReopenIdleFd
  <2>1. /\ loopPc' \in [Loops -> Pcs] /\ loopPc'[0] = "events" /\ loopPc[0] = "reopen"
        /\ \A l \in Loops \ {0} : loopPc'[l] = loopPc[l]
    BY <1>6 DEF ReopenIdleFd, ServerTypeOK, Pcs, MainPcs, Turning
  <2>2. idleFd' \in BOOLEAN
    BY <1>6 DEF ReopenIdleFd, FdAvailable
  <2>3. ServerTypeOK'
    BY <1>1, <1>6, <2>1, <2>2 DEF ReopenIdleFd, ServerTypeOK, connVars, MainPcs, Turning
  <2> QED BY <1>1, <1>6, <2>1, <2>3 DEF ThreadInv, ReopenIdleFd
<1>7. ASSUME NEW c \in Conns, NewConnection(c) PROVE ServerTypeOK' /\ ThreadInv'
  <2>1. loopPc' = loopPc /\ loopPc[0] = "events" /\ batch' = batch /\ thread' = thread
    BY <1>7 DEF NewConnection, Accepting
  <2>2. /\ pending' \in [Loops -> Seq(Functors)]
        /\ conn' \in [Conns -> States]
        /\ loopOf' \in [Conns -> Loops]
        /\ nextLoop' \in 0..numThreads
        /\ numThreads > 0 => nextLoop' < numThreads
    <3>1. CASE numThreads = 0
      BY <1>7, <3>1 DEF NewConnection, ServerTypeOK, States, Existing
    <3>2. CASE numThreads # 0
      <4>1. nextLoop + 1 \in Loops /\ nextLoop' \in 0..(numThreads - 1)
        <5>1. nextLoop + 1 \in Nat /\ nextLoop + 1 \in 1..numThreads
          BY <1>1, <3>2 DEF ServerTypeOK
        <5>2. nextLoop' = (nextLoop + 1) % numThreads
          BY <1>7, <3>2 DEF NewConnection, NextLoop
        <5> QED BY <1>1, <3>2, <5>1, <5>2
      <4>2. <<"connectEstablished", c>> \in Functors
        BY DEF Functors
      <4>3. pending' \in [Loops -> Seq(Functors)]
        BY <1>1, <1>7, <3>2, <4>1, <4>2, QueueTypes DEF NewConnection, QueueInLoop
      <4>4. conn' \in [Conns -> States]
        BY <1>7, <3>2 DEF NewConnection, ServerTypeOK, States, Existing
      <4>5. loopOf' \in [Conns -> Loops]
        <5> DEFINE k == nextLoop + 1
        <5>1. loopOf' = [loopOf EXCEPT ![c] = k] /\ loopOf \in [Conns -> Loops]
          BY <1>7, <3>2 DEF NewConnection, ServerTypeOK
        <5>2. k \in Loops
          BY <4>1
        <5> HIDE DEF k
        <5> QED BY <5>1, <5>2
      <4> QED BY <1>1, <4>1, <4>3, <4>4, <4>5
    <3> QED BY <3>1, <3>2
  <2>3. ServerTypeOK'
    BY <1>1, <1>7, <2>1, <2>2 DEF NewConnection, Handled, ServerTypeOK, fdVars
  <2> QED BY <1>1, <2>1, <2>3 DEF ThreadInv
<1>8. ASSUME NEW c \in Conns, RemoveConnectionInLoop(c) PROVE ServerTypeOK' /\ ThreadInv'
  <2>1. /\ loopPc' = loopPc /\ loopPc[0] = "drain" /\ thread' = thread
        /\ connections' \subseteq connections
        /\ \A l \in Loops \ {0} : batch'[l] = batch[l]
    BY <1>8 DEF RemoveConnectionInLoop, Running, ServerTypeOK
  <2>2. <<"connectDestroyed", c>> \in Functors /\ loopOf[c] \in Loops
    BY DEF Functors, ServerTypeOK
  <2>3. pending' \in [Loops -> Seq(Functors)] /\ batch' \in [Loops -> Seq(Functors)]
    BY <1>1, <1>8, <2>2, QueueTypes DEF RemoveConnectionInLoop, QueueInLoop
  <2>4. ServerTypeOK'
    BY <1>1, <1>8, <2>1, <2>3 DEF RemoveConnectionInLoop, Running, ServerTypeOK, fdVars
  <2> QED BY <1>1, <2>1, <2>4 DEF ThreadInv
<1>9. ASSUME NEW c \in Conns, DestroyConnection(c) PROVE ServerTypeOK' /\ ThreadInv'
  <2>1. /\ loopPc' = loopPc /\ loopPc[0] = "destroy" /\ thread' = thread
        /\ connections' \subseteq connections /\ batch' = batch
    BY <1>9 DEF DestroyConnection
  <2>2. pending' \in [Loops -> Seq(Functors)] /\ conn' \in [Conns -> States]
    <3>1. CASE loopOf[c] = 0
      BY <1>9, <3>1 DEF DestroyConnection, ServerTypeOK, States, Existing
    <3>2. CASE loopOf[c] # 0
      <4>1. <<"connectDestroyed", c>> \in Functors /\ loopOf[c] \in Loops
        BY DEF Functors, ServerTypeOK
      <4>2. pending' \in [Loops -> Seq(Functors)]
        BY <1>1, <1>9, <3>2, <4>1, QueueTypes DEF DestroyConnection, QueueInLoop
      <4> QED BY <1>9, <3>2, <4>2 DEF DestroyConnection, ServerTypeOK
    <3> QED BY <3>1, <3>2
  <2>3. ServerTypeOK'
    BY <1>1, <1>9, <2>1, <2>2 DEF DestroyConnection, ServerTypeOK, fdVars
  <2> QED BY <1>1, <2>1, <2>3 DEF ThreadInv
<1>10. CASE DestroyPool
  <2>1. /\ loopPc' \in [Loops -> Pcs] /\ loopPc'[0] = "quit" /\ loopPc[0] = "destroy"
        /\ \A l \in Loops \ {0} : loopPc'[l] = loopPc[l]
    BY <1>10 DEF DestroyPool, ServerTypeOK, Pcs, MainPcs
  <2>2. ServerTypeOK'
    BY <1>1, <1>10, <2>1 DEF DestroyPool, ServerTypeOK, connVars, fdVars, MainPcs
  <2> QED BY <1>1, <1>10, <2>1, <2>2 DEF ThreadInv, DestroyPool, connVars
<1>11. CASE QuitThread
  <2>1. /\ loopPc' \in [Loops -> Pcs] /\ loopPc'[0] = "join" /\ loopPc[0] = "quit"
        /\ \A l \in Loops \ {0} : loopPc'[l] = loopPc[l]
    BY <1>11 DEF QuitThread, ServerTypeOK, Pcs, MainPcs
  <2>2. thread \in 1..numThreads
    BY <1>1, <1>11, <2>1 DEF QuitThread, ThreadInv, ServerTypeOK
  <2>3. ServerTypeOK'
    BY <1>1, <1>11, <2>1, <2>2 DEF QuitThread, ServerTypeOK, connVars, fdVars, MainPcs
  <2> QED BY <1>1, <1>11, <2>1, <2>2, <2>3 DEF ThreadInv, QuitThread, connVars
<1>12. CASE JoinThread
  <2>1. /\ loopPc' \in [Loops -> Pcs] /\ loopPc'[0] = "quit" /\ loopPc[0] = "join"
        /\ \A l \in Loops \ {0} : loopPc'[l] = loopPc[l]
    BY <1>12 DEF JoinThread, ServerTypeOK, Pcs, MainPcs
  <2>2. thread \in 1..numThreads
    BY <2>1 DEF ThreadInv
  <2>3. thread' \in 0..(numThreads + 1) /\ thread' >= 1
    BY <1>1, <1>12, <2>2 DEF JoinThread
  <2>4. ServerTypeOK'
    BY <1>1, <1>12, <2>1, <2>3 DEF JoinThread, ServerTypeOK, connVars, fdVars, MainPcs
  <2> QED BY <1>1, <1>12, <2>1, <2>3, <2>4 DEF ThreadInv, JoinThread, connVars
<1>13. CASE ServerDestroyed
  <2>1. /\ loopPc' \in [Loops -> Pcs] /\ loopPc'[0] = "done" /\ loopPc[0] = "quit"
        /\ \A l \in Loops \ {0} : loopPc'[l] = loopPc[l]
    BY <1>13 DEF ServerDestroyed, ServerTypeOK, Pcs, MainPcs
  <2>2. pending' \in [Loops -> Seq(Functors)]
    BY <1>1, <1>13, QueueTypes DEF ServerDestroyed
  <2>3. ServerTypeOK'
    BY <1>1, <1>13, <2>1, <2>2 DEF ServerDestroyed, ServerTypeOK, connVars, MainPcs
  <2> QED BY <1>1, <1>13, <2>1, <2>3 DEF ThreadInv, ServerDestroyed, connVars
<1> QED BY <1>2, <1>3, <1>4, <1>5, <1>6, <1>7, <1>8, <1>9, <1>10, <1>11, <1>12, <1>13
        DEF MainStep
LEMMA TypeLoop ==
  ASSUME ServerTypeOK, ThreadInv, NEW l \in Loops, LoopStep(l)
  PROVE  ServerTypeOK' /\ ThreadInv'
<1> USE LoopFacts
<1>1. numThreads' = numThreads /\ Loops' = Loops /\ numThreads \in Nat
  BY DEF LoopStep, ThreadFunc, LoopBegins, LoopEnds, EnterPoll, Poll, DoPendingFunctors,
         HandleClose, RunConnectEstablished, RunConnectDestroyed, Running, Loops
<1>2. CASE ThreadFunc(l)
  <2>1. loopPc[l] = "new" /\ l # 0 /\ loopPc'[0] = loopPc[0]
    BY <1>2 DEF ThreadFunc, ServerTypeOK, MainPcs, Turning
  <2>2. /\ loopPc' \in [Loops -> Pcs] /\ loopPc'[l] = "ready"
        /\ \A k \in Loops \ {l} : loopPc'[k] = loopPc[k]
    BY <1>2 DEF ThreadFunc, ServerTypeOK, Pcs
  <2>3. ServerTypeOK'
    BY <1>1, <1>2, <2>1, <2>2 DEF ThreadFunc, ServerTypeOK, connVars, fdVars
  <2> QED BY <1>1, <1>2, <2>1, <2>2, <2>3 DEF ThreadInv, ThreadFunc, connVars
<1>3. CASE LoopBegins(l)
  <2>1. loopPc[l] # "none" /\ loopPc[l] # "drain" /\ (l = 0 => thread = numThreads)
    BY <1>3 DEF LoopBegins
  <2>2. /\ loopPc' \in [Loops -> Pcs] /\ loopPc'[l] = "check"
        /\ \A k \in Loops \ {l} : loopPc'[k] = loopPc[k]
    BY <1>3 DEF LoopBegins, ServerTypeOK, Pcs, MainPcs, Turning
  <2>3. loopPc'[0] \in MainPcs /\ quit' \in [Loops -> BOOLEAN]
    BY <1>3, <2>2 DEF LoopBegins, ServerTypeOK, MainPcs, Turning
  <2>4. ServerTypeOK'
    BY <1>1, <1>3, <2>2, <2>3 DEF LoopBegins, ServerTypeOK, connVars, fdVars
  <2> QED BY <1>1, <1>3, <2>1, <2>2, <2>4 DEF ThreadInv, LoopBegins, connVars
<1>4. CASE LoopEnds(l)
  <2>1. loopPc[l] # "none" /\ batch[l] = <<>> /\ batch' = batch
    BY <1>4 DEF LoopEnds, AtCheck, ThreadInv
  <2>2. /\ loopPc' \in [Loops -> Pcs]
        /\ loopPc'[l] = IF l = 0 THEN "destroy" ELSE "done"
        /\ \A k \in Loops \ {l} : loopPc'[k] = loopPc[k]
    BY <1>4 DEF LoopEnds, ServerTypeOK, Pcs, MainPcs
  <2>3. loopPc'[0] \in MainPcs
    BY <2>2 DEF ServerTypeOK, MainPcs
  <2>4. pending' \in [Loops -> Seq(Functors)]
    BY <1>1, <1>4, QueueTypes DEF LoopEnds, ServerTypeOK
  <2>5. ServerTypeOK'
    BY <1>1, <1>4, <2>2, <2>3, <2>4 DEF LoopEnds, ServerTypeOK, connVars, fdVars
  <2> QED BY <1>1, <1>4, <2>1, <2>2, <2>5 DEF ThreadInv, LoopEnds, connVars
<1>5. CASE EnterPoll(l)
  <2>1. loopPc[l] # "none" /\ batch[l] = <<>> /\ batch' = batch
    BY <1>5 DEF EnterPoll, AtCheck, ThreadInv
  <2>2. /\ loopPc' \in [Loops -> Pcs] /\ loopPc'[l] = "poll"
        /\ \A k \in Loops \ {l} : loopPc'[k] = loopPc[k]
    BY <1>5 DEF EnterPoll, ServerTypeOK, Pcs, MainPcs, Turning
  <2>3. loopPc'[0] \in MainPcs
    BY <2>2 DEF ServerTypeOK, MainPcs, Turning
  <2>4. ServerTypeOK'
    BY <1>1, <1>5, <2>2, <2>3 DEF EnterPoll, ServerTypeOK, connVars, fdVars
  <2> QED BY <1>1, <1>5, <2>1, <2>2, <2>4 DEF ThreadInv, EnterPoll, connVars
<1>6. CASE Poll(l)
  <2>1. loopPc[l] = "poll" /\ batch' = batch
    BY <1>6 DEF Poll
  <2>2. /\ loopPc' \in [Loops -> Pcs] /\ loopPc'[l] = "events"
        /\ \A k \in Loops \ {l} : loopPc'[k] = loopPc[k]
    BY <1>6 DEF Poll, ServerTypeOK, Pcs, MainPcs, Turning
  <2>3. loopPc'[0] \in MainPcs
    BY <2>2 DEF ServerTypeOK, MainPcs, Turning
  <2>4. Ready(l) \subseteq {Acceptor} \cup Conns
    BY DEF Ready, ServerTypeOK
  <2>5. active' \in [Loops -> SUBSET ({Acceptor} \cup Conns)]
    BY <1>6, <2>4 DEF Poll, ServerTypeOK
  <2>6. ServerTypeOK'
    BY <1>1, <1>6, <2>2, <2>3, <2>5 DEF Poll, ServerTypeOK, connVars, fdVars
  <2> QED BY <1>1, <1>6, <2>1, <2>2, <2>6 DEF ThreadInv, Poll, connVars
<1>7. CASE DoPendingFunctors(l)
  <2>1. loopPc[l] = "events" /\ \A k \in Loops \ {l} : batch'[k] = batch[k]
    BY <1>7 DEF DoPendingFunctors, ServerTypeOK
  <2>2. /\ loopPc' \in [Loops -> Pcs] /\ loopPc'[l] = "drain"
        /\ \A k \in Loops \ {l} : loopPc'[k] = loopPc[k]
    BY <1>7 DEF DoPendingFunctors, ServerTypeOK, Pcs, MainPcs, Turning
  <2>3. loopPc'[0] \in MainPcs
    BY <2>2 DEF ServerTypeOK, MainPcs, Turning
  <2>4. pending' \in [Loops -> Seq(Functors)]
    BY <1>1, <1>7, QueueTypes DEF DoPendingFunctors
  <2>5. batch' \in [Loops -> Seq(Functors)]
    BY <1>7 DEF DoPendingFunctors, ServerTypeOK
  <2>6. ServerTypeOK'
    BY <1>1, <1>7, <2>2, <2>3, <2>4, <2>5
       DEF DoPendingFunctors, ServerTypeOK, connVars, fdVars
  <2> QED BY <1>1, <1>7, <2>1, <2>2, <2>6 DEF ThreadInv, DoPendingFunctors, connVars
<1>8. ASSUME NEW c \in Conns, HandleClose(l, c) PROVE ServerTypeOK' /\ ThreadInv'
  <2>1. /\ loopPc' = loopPc /\ thread' = thread /\ batch' = batch
        /\ connections' \subseteq connections
    BY <1>8 DEF HandleClose
  <2>2. <<"connectDestroyed", c>> \in Functors /\ <<"removeConnection", c>> \in Functors
    BY DEF Functors
  <2>3. pending' \in [Loops -> Seq(Functors)]
    BY <1>1, <1>8, <2>2, QueueTypes DEF HandleClose, QueueInLoop
  <2>4. /\ conn' \in [Conns -> States]
        /\ active' \in [Loops -> SUBSET ({Acceptor} \cup Conns)]
    BY <1>8 DEF HandleClose, Handled, ServerTypeOK, States, Existing
  <2>5. ServerTypeOK'
    BY <1>1, <1>8, <2>1, <2>3, <2>4 DEF HandleClose, ServerTypeOK, fdVars
  <2> QED BY <1>1, <2>1, <2>5 DEF ThreadInv
<1>9. ASSUME NEW f, Running(l, f), pending' = pending, connections' = connections,
             conn' \in [Conns -> States]
      PROVE  ServerTypeOK' /\ ThreadInv'
  <2>1. /\ loopPc' = loopPc /\ loopPc[l] = "drain" /\ thread' = thread
        /\ \A k \in Loops \ {l} : batch'[k] = batch[k]
    BY <1>9 DEF Running, ServerTypeOK
  <2>2. batch' \in [Loops -> Seq(Functors)]
    BY <1>1, <1>9, QueueTypes
  <2>3. ServerTypeOK'
    BY <1>1, <1>9, <2>1, <2>2 DEF Running, ServerTypeOK, fdVars
  <2> QED BY <1>1, <1>9, <2>1, <2>3 DEF ThreadInv
<1>10. ASSUME NEW c \in Conns, RunConnectEstablished(l, c) PROVE ServerTypeOK' /\ ThreadInv'
  BY <1>9, <1>10 DEF RunConnectEstablished, ServerTypeOK, States, Existing
<1>11. ASSUME NEW c \in Conns, RunConnectDestroyed(l, c) PROVE ServerTypeOK' /\ ThreadInv'
  BY <1>9, <1>11 DEF RunConnectDestroyed, ServerTypeOK, States, Existing
<1> QED BY <1>2, <1>3, <1>4, <1>5, <1>6, <1>7, <1>8, <1>10, <1>11 DEF LoopStep

LEMMA TypeOutside ==
  ASSUME ServerTypeOK, ThreadInv, Outside
  PROVE  ServerTypeOK' /\ ThreadInv'
<1> USE LoopFacts
<1>1. /\ numThreads' = numThreads /\ Loops' = Loops /\ loopPc' = loopPc /\ thread' = thread
      /\ batch' = batch /\ connections' = connections
  BY DEF Outside, PeerConnects, BaseQuit, OthersUseFds, PeerCloses, loopVars, connVars, Loops
<1>2. ThreadInv'
  BY <1>1 DEF ThreadInv
<1>3. CASE PeerConnects
  <2>1. conn' \in [Conns -> States]
    BY <1>3 DEF PeerConnects, ServerTypeOK, States
  <2> QED BY <1>1, <1>2, <1>3, <2>1 DEF PeerConnects, ServerTypeOK, loopVars, fdVars
<1>4. CASE BaseQuit
  <2>1. quit' \in [Loops -> BOOLEAN]
    BY <1>4 DEF BaseQuit, ServerTypeOK
  <2> QED BY <1>1, <1>2, <1>4, <2>1 DEF BaseQuit, ServerTypeOK, connVars, fdVars
<1>5. CASE OthersUseFds
  <2>1. others' \in BOOLEAN
    BY <1>5 DEF OthersUseFds
  <2> QED BY <1>1, <1>2, <1>5, <2>1 DEF OthersUseFds, ServerTypeOK, loopVars, connVars
<1>6. CASE \E c \in Conns : PeerCloses(c)
  <2>1. peerGone' \subseteq Conns
    BY <1>6 DEF PeerCloses, ServerTypeOK
  <2> QED BY <1>1, <1>2, <1>6, <2>1 DEF PeerCloses, ServerTypeOK, loopVars, fdVars
<1> QED BY <1>3, <1>4, <1>5, <1>6 DEF Outside

LEMMA ServerTypeStep ==
  ASSUME ServerTypeOK, ThreadInv, [ServerNext]_serverVars
  PROVE  ServerTypeOK' /\ ThreadInv'
<1>1. ASSUME UNCHANGED serverVars PROVE ServerTypeOK' /\ ThreadInv'
  <2>1. Loops' = Loops
    BY <1>1 DEF serverVars, Loops
  <2> QED BY <1>1, <2>1
          DEF ServerTypeOK, ThreadInv, serverVars, loopVars, connVars, fdVars
<1> QED BY <1>1, TypeMain, TypeLoop, TypeOutside DEF ServerNext

LEMMA ServerTypeInit ==
  ASSUME ServerInit
  PROVE  ServerTypeOK /\ ThreadInv
<1>1. /\ numThreads \in Nat /\ 0 \in Loops /\ <<>> \in Seq(Functors)
      /\ loopPc[0] = "start" /\ \A l \in Loops : l > 0 => loopPc[l] = "none"
  BY ThreadNumsAssumption DEF ServerInit, Loops
<1> QED BY <1>1 DEF ServerInit, ServerTypeOK, ThreadInv, Pcs, MainPcs, States
-----------------------------------------------------------------------------
(* TcpServer: where a connection and its functors are.                     *)

\* ~TcpServer() has not begun.
Standing == loopPc[0] \notin {"destroy", "quit", "join", "done"}

InEvents == {"events", "spare", "reopen"}

Alive == {"connecting", "connected", "disconnected"}

\* A channel is handled only by the loop of its connection, and while that is open.
ActiveInv ==
    \A l \in Loops :
        /\ loopPc[l] \notin InEvents => active[l] = {}
        /\ \A c \in active[l] \cap Conns : loopOf[c] = l /\ conn[c] = "connected"

\* Where each functor may be, and what it then finds.
EstablishOK(c) ==
    \A l \in Loops : Queued(l, <<"connectEstablished", c>>) =>
        l = loopOf[c] /\ l # 0 /\ conn[c] = "connecting"

DestroyOK(c) ==
    \A l \in Loops : Queued(l, <<"connectDestroyed", c>>) =>
        /\ l = loopOf[c] /\ c \notin connections
        /\ conn[c] \in Alive
        /\ Standing => conn[c] = "disconnected"

RemoveOK(c) ==
    \A l \in Loops : Queued(l, <<"removeConnection", c>>) =>
        /\ l = 0 /\ loopOf[c] # 0
        /\ conn[c] \in {"disconnected", "removed"}
        /\ Standing => conn[c] = "disconnected" /\ c \in connections

\* A connection is in the map, or its end is queued, or it has ended.
EndComes(c) ==
    /\ c \in connections => conn[c] \in Alive
    /\ conn[c] = "connecting" => Queued(loopOf[c], <<"connectEstablished", c>>)
    /\ conn[c] \in Alive => c \in connections \/ Queued(loopOf[c], <<"connectDestroyed", c>>)
    /\ Standing /\ conn[c] = "disconnected" /\ c \in connections =>
         Queued(0, <<"removeConnection", c>>)

ConnOK(c) == EstablishOK(c) /\ DestroyOK(c) /\ RemoveOK(c) /\ EndComes(c)

ConnInv == \A c \in Conns : ConnOK(c)

\* The base loop stops only where it has run every connectDestroyed().
DrainedInv ==
    \A c \in Conns : <<"connectDestroyed", c>> \in ToSet(pending[0]) => loopPc[0] \in InEvents

\* A loop of the pool is told to stop when nothing will come to it any more.
QuitInv ==
    \A l \in Loops \ {0} : quit[l] =>
        /\ ~Standing /\ loopPc[0] # "destroy"
        /\ \A f \in Functors : ~Queued(l, f)

ServerBody == ActiveInv /\ QueueInv /\ ConnInv /\ DrainedInv /\ QuitInv

LEMMA FunctorNames ==
  /\ \A c \in Conns : /\ <<"connectEstablished", c>> \in Functors
                      /\ <<"connectDestroyed", c>> \in Functors
                      /\ <<"removeConnection", c>> \in Functors
  /\ \A c, d : /\ <<"connectEstablished", c>> # <<"connectDestroyed", d>>
               /\ <<"connectEstablished", c>> # <<"removeConnection", d>>
               /\ <<"connectDestroyed", c>> # <<"removeConnection", d>>
               /\ <<"connectEstablished", c>> = <<"connectEstablished", d>> => c = d
               /\ <<"connectDestroyed", c>> = <<"connectDestroyed", d>> => c = d
               /\ <<"removeConnection", c>> = <<"removeConnection", d>> => c = d
BY DEF Functors

\* Whatever happens to c, the other connections keep what they have.
LEMMA OthersKeep ==
  ASSUME ServerTypeOK, ConnInv, numThreads' = numThreads, Standing' => Standing,
         NEW C \in SUBSET Conns,
         \A d \in C : /\ conn'[d] = conn[d] /\ loopOf'[d] = loopOf[d]
                      /\ d \in connections' <=> d \in connections,
         \A l \in Loops, g \in Functors : g[2] \in C => (Queued(l, g)' <=> Queued(l, g))
  PROVE  \A d \in C : ConnOK(d)'
<1>1. Loops' = Loops /\ 0 \in Loops
  BY LoopFacts DEF Loops
<1> SUFFICES ASSUME NEW d \in C PROVE ConnOK(d)'
  OBVIOUS
<1>2. \A l \in Loops :
        /\ Queued(l, <<"connectEstablished", d>>)' <=> Queued(l, <<"connectEstablished", d>>)
        /\ Queued(l, <<"connectDestroyed", d>>)' <=> Queued(l, <<"connectDestroyed", d>>)
        /\ Queued(l, <<"removeConnection", d>>)' <=> Queued(l, <<"removeConnection", d>>)
  BY FunctorNames
<1>3. ConnOK(d) /\ loopOf[d] \in Loops
  BY DEF ConnInv, ServerTypeOK
<1>4. EstablishOK(d)'
  BY <1>1, <1>2, <1>3 DEF ConnOK, EstablishOK
<1>5. DestroyOK(d)'
  BY <1>1, <1>2, <1>3 DEF ConnOK, DestroyOK, Alive
<1>6. RemoveOK(d)'
  BY <1>1, <1>2, <1>3 DEF ConnOK, RemoveOK
<1>7. EndComes(d)'
  BY <1>1, <1>2, <1>3 DEF ConnOK, EndComes, Alive
<1> QED BY <1>4, <1>5, <1>6, <1>7 DEF ConnOK

\* A connection that does not exist yet, or was dropped at once, has nothing.
LEMMA NotExisting ==
  ASSUME ServerTypeOK, ConnInv, NEW c \in Conns, conn[c] \notin Existing
  PROVE  /\ c \notin connections
         /\ \A l \in Loops : /\ ~Queued(l, <<"connectEstablished", c>>)
                             /\ ~Queued(l, <<"connectDestroyed", c>>)
                             /\ ~Queued(l, <<"removeConnection", c>>)
BY DEF ConnInv, ConnOK, EstablishOK, DestroyOK, RemoveOK, EndComes, Alive, Existing

\* Nothing happens to a connection or a functor; at most ~TcpServer() begins.
LEMMA NoneMoves ==
  ASSUME ServerTypeOK, QueueInv, ConnInv,
         numThreads' = numThreads, \A l \in Loops : ToRun(l)' = ToRun(l),
         connections' = connections, loopOf' = loopOf,
         \A c \in Conns : conn'[c] = conn[c] \/ (conn[c] \notin Existing /\ conn'[c] \notin Existing),
         Standing' => Standing
  PROVE  QueueInv' /\ ConnInv'
<1>1. Loops' = Loops
  BY DEF Loops
<1>2. QueueInv' /\ \A l \in Loops, g \in Functors : Queued(l, g)' <=> Queued(l, g)
  BY QueuesSame
<1>3. \A c \in {d \in Conns : conn'[d] = conn[d]} : ConnOK(c)'
  BY <1>2, OthersKeep
<1>4. ASSUME NEW c \in Conns, conn[c] \notin Existing, conn'[c] \notin Existing
      PROVE  ConnOK(c)'
  <2>1. \A l \in Loops : /\ ~Queued(l, <<"connectEstablished", c>>)'
                         /\ ~Queued(l, <<"connectDestroyed", c>>)'
                         /\ ~Queued(l, <<"removeConnection", c>>)'
    BY <1>2, <1>4, FunctorNames, NotExisting
  <2> QED BY <1>1, <1>4, <2>1, NotExisting
          DEF ConnOK, EstablishOK, DestroyOK, RemoveOK, EndComes, Alive, Existing
<1> QED BY <1>2, <1>3, <1>4 DEF ConnInv

\* No event is added, and those that were reported have been handled.
LEMMA ActiveShrinks ==
  ASSUME ActiveInv, numThreads' = numThreads, loopOf' = loopOf,
         \A l \in Loops : active'[l] \subseteq active[l],
         \A l \in Loops : \A c \in active'[l] \cap Conns : conn'[c] = conn[c],
         \A l \in Loops : loopPc'[l] \notin InEvents =>
                            loopPc[l] \notin InEvents \/ active'[l] = {}
  PROVE  ActiveInv'
<1>1. Loops' = Loops
  BY DEF Loops
<1> QED BY <1>1 DEF ActiveInv

LEMMA DrainedStays ==
  ASSUME DrainedInv,
         \A c \in Conns : <<"connectDestroyed", c>> \in ToSet(pending'[0]) =>
                            <<"connectDestroyed", c>> \in ToSet(pending[0]),
         loopPc[0] \in InEvents => loopPc'[0] \in InEvents \/ pending'[0] = <<>>
  PROVE  DrainedInv'
<1>1. ToSet(<<>>) = {}
  BY DEF ToSet
<1> QED BY <1>1 DEF DrainedInv

LEMMA QuitStays ==
  ASSUME QuitInv, numThreads' = numThreads,
         \A l \in Loops \ {0} : quit'[l] => quit[l],
         \A l \in Loops, g \in Functors : Queued(l, g)' => Queued(l, g) \/ ~quit'[l] \/ l = 0,
         Standing' => Standing, loopPc'[0] = "destroy" => Standing \/ loopPc[0] = "destroy"
  PROVE  QuitInv'
<1>1. Loops' = Loops
  BY DEF Loops
<1> QED BY <1>1 DEF QuitInv
\* The steps that only move the threads, and those of the outside.
LEMMA BodyQuiet ==
  ASSUME ServerTypeOK, ThreadInv, ServerBody,
         numThreads' = numThreads, batch' = batch, pending' = pending,
         connections' = connections, loopOf' = loopOf, active' = active,
         \A c \in Conns : conn'[c] = conn[c] \/ (conn[c] \notin Existing /\ conn'[c] \notin Existing),
         \A l \in Loops \ {0} : quit'[l] => quit[l],
         \A l \in Loops : loopPc'[l] \in InEvents <=> loopPc[l] \in InEvents,
         Standing' => Standing, loopPc'[0] = "destroy" => Standing \/ loopPc[0] = "destroy"
  PROVE  ServerBody'
<1>1. \A l \in Loops : ToRun(l)' = ToRun(l)
  BY DEF ToRun
<1>2. QueueInv' /\ ConnInv'
  BY <1>1, NoneMoves DEF ServerBody
<1>3. ActiveInv'
  <2>1. \A l \in Loops : \A c \in active'[l] \cap Conns : conn'[c] = conn[c]
    BY DEF ServerBody, ActiveInv, Existing
  <2> QED BY <2>1, ActiveShrinks DEF ServerBody
<1>4. DrainedInv'
  BY LoopFacts, DrainedStays DEF ServerBody
<1>5. QuitInv'
  <2>1. \A l \in Loops, g \in Functors : Queued(l, g)' => Queued(l, g)
    BY <1>1 DEF Queued
  <2> QED BY <2>1, QuitStays DEF ServerBody
<1> QED BY <1>2, <1>3, <1>4, <1>5 DEF ServerBody

LEMMA BodyPool ==
  ASSUME ServerTypeOK, ThreadInv, ServerBody,
         \/ StartLoop \/ StartLoopReturns \/ DestroyPool \/ JoinThread
         \/ \E l \in Loops : ThreadFunc(l) \/ LoopBegins(l) \/ EnterPoll(l)
  PROVE  ServerBody'
<1> USE LoopFacts
<1>1. /\ numThreads' = numThreads /\ batch' = batch /\ pending' = pending
      /\ connections' = connections /\ loopOf' = loopOf /\ active' = active /\ conn' = conn
  BY DEF StartLoop, StartLoopReturns, DestroyPool, JoinThread, ThreadFunc, LoopBegins,
         EnterPoll, connVars
<1>2. \A l \in Loops \ {0} : quit'[l] => quit[l]
  <2>1. CASE StartLoop \/ StartLoopReturns \/ DestroyPool \/ JoinThread
    BY <2>1 DEF StartLoop, StartLoopReturns, DestroyPool, JoinThread
  <2>2. ASSUME NEW l \in Loops, ThreadFunc(l) \/ EnterPoll(l)
        PROVE  quit' = quit
    BY <2>2 DEF ThreadFunc, EnterPoll
  <2>3. ASSUME NEW l \in Loops, LoopBegins(l)
        PROVE  \A k \in Loops : quit'[k] => quit[k]
    BY <2>3 DEF LoopBegins, ServerTypeOK
  <2> QED BY <2>1, <2>2, <2>3
<1>3. CASE StartLoop
  <2>1. thread + 1 \in Loops \ {0} /\ loopPc[thread + 1] = "none" /\ loopPc[0] = "start"
    BY <1>3 DEF StartLoop, ServerTypeOK, ThreadInv
  <2>2. /\ loopPc'[0] = "wait" /\ loopPc'[thread + 1] = "new"
        /\ \A l \in Loops \ {0, thread + 1} : loopPc'[l] = loopPc[l]
    BY <1>3, <2>1 DEF StartLoop, ServerTypeOK
  <2>3. /\ \A l \in Loops : loopPc'[l] \in InEvents <=> loopPc[l] \in InEvents
        /\ Standing
    BY <2>1, <2>2 DEF InEvents, Standing
  <2> QED BY <1>1, <1>2, <2>3, BodyQuiet
<1>4. ASSUME NEW l \in Loops, NEW p, loopPc' = [loopPc EXCEPT ![l] = p],
             loopPc[l] \notin InEvents, p \notin InEvents,
             l = 0 => \/ p \notin {"destroy", "quit", "join", "done"} /\ Standing
                      \/ p \in {"quit", "join", "done"}
      PROVE  ServerBody'
  <2>1. loopPc'[l] = p /\ \A k \in Loops \ {l} : loopPc'[k] = loopPc[k]
    BY <1>4 DEF ServerTypeOK
  <2>2. \A k \in Loops : loopPc'[k] \in InEvents <=> loopPc[k] \in InEvents
    BY <1>4, <2>1
  <2>3. /\ Standing' => Standing
        /\ loopPc'[0] = "destroy" => Standing \/ loopPc[0] = "destroy"
    BY <1>4, <2>1 DEF Standing
  <2> QED BY <1>1, <1>2, <2>2, <2>3, BodyQuiet
<1>5. CASE StartLoopReturns
  BY <1>4, <1>5 DEF StartLoopReturns, InEvents, Standing
<1>6. CASE DestroyPool
  BY <1>4, <1>6 DEF DestroyPool, InEvents, Standing
<1>7. CASE JoinThread
  BY <1>4, <1>7 DEF JoinThread, InEvents, Standing
<1>8. ASSUME NEW l \in Loops, ThreadFunc(l) PROVE ServerBody'
  <2>1. l # 0
    BY <1>8 DEF ThreadFunc, ServerTypeOK, MainPcs, Turning
  <2> QED BY <1>4, <1>8, <2>1 DEF ThreadFunc, InEvents
<1>9. ASSUME NEW l \in Loops, LoopBegins(l) PROVE ServerBody'
  BY <1>4, <1>9 DEF LoopBegins, InEvents, Standing
<1>10. ASSUME NEW l \in Loops, EnterPoll(l) PROVE ServerBody'
  BY <1>4, <1>10 DEF EnterPoll, AtCheck, InEvents, Standing
<1> QED BY <1>3, <1>5, <1>6, <1>7, <1>8, <1>9, <1>10

LEMMA BodyOutside ==
  ASSUME ServerTypeOK, ThreadInv, ServerBody, Outside
  PROVE  ServerBody'
<1> USE LoopFacts
<1>1. /\ numThreads' = numThreads /\ batch' = batch /\ pending' = pending
      /\ connections' = connections /\ loopOf' = loopOf /\ active' = active
      /\ loopPc' = loopPc
  BY DEF Outside, PeerConnects, BaseQuit, OthersUseFds, PeerCloses, loopVars, connVars
<1>2. \A c \in Conns : conn'[c] = conn[c] \/ (conn[c] \notin Existing /\ conn'[c] \notin Existing)
  BY DEF Outside, PeerConnects, BaseQuit, OthersUseFds, PeerCloses, connVars, ServerTypeOK,
         Existing
<1>3. \A l \in Loops \ {0} : quit'[l] => quit[l]
  BY DEF Outside, PeerConnects, BaseQuit, OthersUseFds, PeerCloses, loopVars, ServerTypeOK
<1>4. Standing' <=> Standing
  BY <1>1 DEF Standing
<1> QED BY <1>1, <1>2, <1>3, <1>4, BodyQuiet DEF Standing

\* The steps inside Acceptor::handleRead() that establish nothing.
LEMMA BodyAcceptor ==
  ASSUME ServerTypeOK, ThreadInv, ServerBody, AcceptFails \/ DropPeer \/ ReopenIdleFd
  PROVE  ServerBody'
<1> USE LoopFacts
<1>1. /\ numThreads' = numThreads /\ batch' = batch /\ pending' = pending /\ quit' = quit
      /\ connections' = connections /\ loopOf' = loopOf
  BY DEF AcceptFails, DropPeer, ReopenIdleFd, connVars
<1>2. \A c \in Conns : conn'[c] = conn[c] \/ (conn[c] \notin Existing /\ conn'[c] \notin Existing)
  BY DEF AcceptFails, DropPeer, ReopenIdleFd, connVars, ServerTypeOK, Existing
<1>3. /\ loopPc[0] \in InEvents /\ loopPc'[0] \in InEvents
      /\ \A l \in Loops \ {0} : loopPc'[l] = loopPc[l]
  BY DEF AcceptFails, Accepting, DropPeer, ReopenIdleFd, ServerTypeOK, InEvents
<1>4. \A l \in Loops : active'[l] \subseteq active[l]
  BY DEF AcceptFails, Handled, DropPeer, ReopenIdleFd, ServerTypeOK
<1>5. \A l \in Loops : ToRun(l)' = ToRun(l)
  BY <1>1 DEF ToRun
<1>6. Standing /\ loopPc'[0] # "destroy"
  BY <1>3 DEF Standing, InEvents
<1>7. QueueInv' /\ ConnInv'
  BY <1>1, <1>2, <1>5, <1>6, NoneMoves DEF ServerBody
<1>8. ActiveInv'
  <2>1. \A l \in Loops : \A c \in active'[l] \cap Conns : conn'[c] = conn[c]
    BY <1>2, <1>4 DEF ServerBody, ActiveInv, Existing
  <2>2. \A l \in Loops : loopPc'[l] \notin InEvents => loopPc[l] \notin InEvents
    BY <1>3
  <2> QED BY <1>1, <1>4, <2>1, <2>2, ActiveShrinks DEF ServerBody
<1>9. DrainedInv'
  BY <1>3 DEF DrainedInv
<1>10. QuitInv'
  <2>1. \A l \in Loops, g \in Functors : Queued(l, g)' => Queued(l, g)
    BY <1>5 DEF Queued
  <2> QED BY <1>1, <1>6, <2>1, QuitStays DEF ServerBody
<1> QED BY <1>7, <1>8, <1>9, <1>10 DEF ServerBody

LEMMA BodyPoll ==
  ASSUME ServerTypeOK, ThreadInv, ServerBody, NEW l \in Loops, Poll(l)
  PROVE  ServerBody'
<1> USE LoopFacts
<1>1. /\ numThreads' = numThreads /\ batch' = batch /\ pending' = pending /\ quit' = quit
      /\ connections' = connections /\ loopOf' = loopOf /\ conn' = conn /\ Loops' = Loops
  BY DEF Poll, connVars, Loops
<1>2. /\ loopPc[l] = "poll" /\ loopPc'[l] = "events"
      /\ \A k \in Loops \ {l} : loopPc'[k] = loopPc[k]
      /\ active'[l] = Ready(l) /\ \A k \in Loops \ {l} : active'[k] = active[k]
  BY DEF Poll, ServerTypeOK
<1>3. \A k \in Loops : ToRun(k)' = ToRun(k)
  BY <1>1 DEF ToRun
<1>4. /\ Standing' <=> Standing
      /\ loopPc'[0] = "destroy" => loopPc[0] = "destroy"
  BY <1>2 DEF Standing
<1>5. QueueInv' /\ ConnInv'
  BY <1>1, <1>3, <1>4, NoneMoves DEF ServerBody
<1>6. ActiveInv'
  <2>1. \A c \in Ready(l) \cap Conns : loopOf[c] = l /\ conn[c] = "connected"
    BY DEF Ready, Conns, Acceptor
  <2> QED BY <1>1, <1>2, <2>1 DEF ServerBody, ActiveInv, InEvents
<1>7. DrainedInv'
  <2>1. loopPc[0] \in InEvents => loopPc'[0] \in InEvents
    BY <1>2 DEF InEvents
  <2> QED BY <1>1, <2>1, DrainedStays DEF ServerBody
<1>8. QuitInv'
  <2>1. \A k \in Loops, g \in Functors : Queued(k, g)' => Queued(k, g)
    BY <1>3 DEF Queued
  <2> QED BY <1>1, <1>4, <2>1, QuitStays DEF ServerBody
<1> QED BY <1>5, <1>6, <1>7, <1>8 DEF ServerBody

LEMMA BodyDoPendingFunctors ==
  ASSUME ServerTypeOK, ThreadInv, ServerBody, NEW l \in Loops, DoPendingFunctors(l)
  PROVE  ServerBody'
<1> USE LoopFacts
<1>1. /\ numThreads' = numThreads /\ quit' = quit /\ active' = active
      /\ connections' = connections /\ loopOf' = loopOf /\ conn' = conn
  BY DEF DoPendingFunctors, connVars
<1>2. /\ loopPc[l] = "events" /\ loopPc'[l] = "drain" /\ active[l] = {}
      /\ \A k \in Loops \ {l} : loopPc'[k] = loopPc[k]
  BY DEF DoPendingFunctors, ServerTypeOK
<1>3. /\ batch[l] = <<>> /\ batch'[l] = pending[l] /\ pending'[l] = <<>>
      /\ \A k \in Loops \ {l} : batch'[k] = batch[k] /\ pending'[k] = pending[k]
  BY <1>2 DEF DoPendingFunctors, ThreadInv, ServerTypeOK
<1>4. \A k \in Loops : ToRun(k)' = ToRun(k)
  <2>1. \A q \in Seq(Functors) : Joined(q, <<>>) = Joined(<<>>, q)
    BY DEF Joined
  <2>2. ToRun(l)' = Joined(pending[l], <<>>) /\ ToRun(l) = Joined(<<>>, pending[l])
    BY <1>3 DEF ToRun
  <2>3. ToRun(l)' = ToRun(l)
    BY <2>1, <2>2, ToRunType
  <2>4. \A k \in Loops \ {l} : ToRun(k)' = ToRun(k)
    BY <1>3 DEF ToRun
  <2> QED BY <2>3, <2>4
<1>5. /\ Standing' <=> Standing
      /\ loopPc'[0] = "destroy" => loopPc[0] = "destroy"
  BY <1>2 DEF Standing
<1>6. QueueInv' /\ ConnInv'
  BY <1>1, <1>4, <1>5, NoneMoves DEF ServerBody
<1>7. ActiveInv'
  <2>1. \A k \in Loops : loopPc'[k] \notin InEvents => loopPc[k] \notin InEvents \/ active'[k] = {}
    BY <1>1, <1>2
  <2> QED BY <1>1, <2>1, ActiveShrinks DEF ServerBody
<1>8. DrainedInv'
  <2>1. ToSet(<<>>) = {}
    BY DEF ToSet
  <2>2. CASE l = 0
    BY <1>3, <2>1, <2>2 DEF DrainedInv
  <2>3. CASE l # 0
    BY <1>2, <1>3, <2>3 DEF ServerBody, DrainedInv
  <2> QED BY <2>2, <2>3
<1>9. QuitInv'
  <2>1. \A k \in Loops, g \in Functors : Queued(k, g)' => Queued(k, g)
    BY <1>4 DEF Queued
  <2> QED BY <1>1, <1>5, <2>1, QuitStays DEF ServerBody
<1> QED BY <1>6, <1>7, <1>8, <1>9 DEF ServerBody
\* A loop of the pool ends with nothing queued; the base loop keeps its queue.
LEMMA BodyLoopEnds ==
  ASSUME ServerTypeOK, ThreadInv, ServerBody, NEW l \in Loops, LoopEnds(l)
  PROVE  ServerBody'
<1> USE LoopFacts
<1>1. /\ numThreads' = numThreads /\ quit' = quit /\ active' = active /\ batch' = batch
      /\ connections' = connections /\ loopOf' = loopOf /\ conn' = conn
  BY DEF LoopEnds, connVars
<1>2. /\ loopPc[l] \notin InEvents /\ loopPc'[l] \notin InEvents /\ quit[l]
      /\ batch[l] = <<>> /\ \A k \in Loops \ {l} : loopPc'[k] = loopPc[k]
  BY DEF LoopEnds, AtCheck, ThreadInv, InEvents, ServerTypeOK
<1>3. ActiveInv'
  <2>1. \A k \in Loops : loopPc'[k] \notin InEvents => loopPc[k] \notin InEvents
    BY <1>2
  <2> QED BY <1>1, <2>1, ActiveShrinks DEF ServerBody
<1>4. CASE l = 0
  <2>1. pending' = pending /\ Standing
    BY <1>4 DEF LoopEnds, AtCheck, Standing
  <2>2. \A k \in Loops : ToRun(k)' = ToRun(k)
    BY <1>1, <2>1 DEF ToRun
  <2>3. QueueInv' /\ ConnInv'
    BY <1>1, <2>1, <2>2, NoneMoves DEF ServerBody
  <2>4. DrainedInv'
    BY <1>2, <1>4, <2>1 DEF ServerBody, DrainedInv
  <2>5. QuitInv'
    <3>1. \A k \in Loops, g \in Functors : Queued(k, g)' => Queued(k, g)
      BY <2>2 DEF Queued
    <3> QED BY <1>1, <2>1, <3>1, QuitStays DEF ServerBody
  <2> QED BY <1>3, <2>3, <2>4, <2>5 DEF ServerBody
<1>5. CASE l # 0
  <2>1. pending' = [pending EXCEPT ![l] = <<>>] /\ loopPc'[0] = loopPc[0]
    BY <1>2, <1>5 DEF LoopEnds
  <2>2. \A g \in Functors : ~Queued(l, g)
    BY <1>2, <1>5 DEF ServerBody, QuitInv
  <2>3. ToRun(l) = <<>>
    <3>1. \A g \in ToSet(ToRun(l)) : g \in Functors
      BY ToRunType DEF ToSet
    <3>2. ToSet(ToRun(l)) = {}
      BY <2>2, <3>1 DEF Queued
    <3>3. \A s \in Seq(Functors) : s # <<>> => 1 \in DOMAIN s
      OBVIOUS
    <3> QED BY <3>2, <3>3, ToRunType DEF ToSet
  <2>4. \A k \in Loops : ToRun(k)' = ToRun(k)
    <3>1. pending'[l] = <<>> /\ \A k \in Loops \ {l} : pending'[k] = pending[k]
      BY <2>1 DEF ServerTypeOK
    <3>2. Joined(<<>>, <<>>) = <<>>
      BY DEF Joined
    <3> QED BY <1>1, <1>2, <2>3, <3>1, <3>2 DEF ToRun
  <2>5. /\ Standing' <=> Standing
        /\ loopPc'[0] = "destroy" => loopPc[0] = "destroy"
    BY <2>1 DEF Standing
  <2>6. QueueInv' /\ ConnInv'
    BY <1>1, <2>4, <2>5, NoneMoves DEF ServerBody
  <2>7. DrainedInv'
    <3>1. pending'[0] = pending[0]
      BY <1>5, <2>1 DEF ServerTypeOK
    <3> QED BY <2>1, <3>1, DrainedStays DEF ServerBody
  <2>8. QuitInv'
    <3>1. \A k \in Loops, g \in Functors : Queued(k, g)' => Queued(k, g)
      BY <2>4 DEF Queued
    <3> QED BY <1>1, <2>5, <3>1, QuitStays DEF ServerBody
  <2> QED BY <1>3, <2>6, <2>7, <2>8 DEF ServerBody
<1> QED BY <1>4, <1>5

\* The thread is at rest: nothing is queued for it, and nobody is left to queue.
LEMMA BodyQuitThread ==
  ASSUME ServerTypeOK, ThreadInv, ServerBody, SleepSuffices, QuitThread
  PROVE  ServerBody'
<1> USE LoopFacts
<1>1. /\ numThreads' = numThreads /\ batch' = batch /\ pending' = pending
      /\ connections' = connections /\ loopOf' = loopOf /\ active' = active /\ conn' = conn
      /\ Loops' = Loops
  BY DEF QuitThread, connVars, Loops
<1>2. /\ thread \in Loops \ {0} /\ loopPc[thread] = "poll" /\ pending[thread] = <<>>
      /\ loopPc[0] = "quit"
  BY DEF QuitThread, AtRest, ThreadInv, ServerTypeOK
<1>3. loopPc'[0] = "join" /\ \A l \in Loops \ {0} : loopPc'[l] = loopPc[l]
  BY DEF QuitThread, ServerTypeOK
<1>4. \A l \in Loops : ToRun(l)' = ToRun(l)
  BY <1>1 DEF ToRun
<1>5. ~Standing /\ ~Standing'
  BY <1>2, <1>3 DEF Standing
<1>6. QueueInv' /\ ConnInv'
  BY <1>1, <1>4, <1>5, NoneMoves DEF ServerBody
<1>7. ActiveInv'
  <2>1. \A l \in Loops : loopPc'[l] \notin InEvents => loopPc[l] \notin InEvents
    BY <1>2, <1>3 DEF InEvents
  <2> QED BY <1>1, <2>1, ActiveShrinks DEF ServerBody
<1>8. DrainedInv'
  <2>1. loopPc[0] \notin InEvents
    BY <1>2 DEF InEvents
  <2> QED BY <1>1, <2>1, DrainedStays DEF ServerBody
<1>9. QuitInv'
  <2>1. ToRun(thread) = <<>>
    <3>1. batch[thread] = <<>>
      BY <1>2 DEF ThreadInv
    <3>2. Joined(<<>>, <<>>) = <<>>
      BY DEF Joined
    <3> QED BY <1>2, <3>1, <3>2 DEF ToRun
  <2>2. \A f \in Functors : ~Queued(thread, f)
    BY <2>1 DEF Queued, ToSet
  <2>3. \A l \in Loops \ {0, thread} : quit'[l] = quit[l]
    BY DEF QuitThread, ServerTypeOK
  <2>4. \A l \in Loops \ {0} : quit'[l] => \A f \in Functors : ~Queued(l, f)
    BY <2>2, <2>3 DEF ServerBody, QuitInv
  <2>5. \A l \in Loops, g \in Functors : Queued(l, g)' <=> Queued(l, g)
    BY <1>4 DEF Queued
  <2> QED BY <1>1, <1>3, <1>5, <2>4, <2>5 DEF QuitInv
<1> QED BY <1>6, <1>7, <1>8, <1>9 DEF ServerBody

\* What the base loop has queued by then is no connectDestroyed().
LEMMA BodyServerDestroyed ==
  ASSUME ServerTypeOK, ThreadInv, ServerBody, ServerDestroyed
  PROVE  ServerBody'
<1> USE LoopFacts
<1>1. /\ numThreads' = numThreads /\ batch' = batch /\ quit' = quit
      /\ connections' = connections /\ loopOf' = loopOf /\ active' = active /\ conn' = conn
      /\ pending' = [pending EXCEPT ![0] = <<>>] /\ Loops' = Loops
  BY DEF ServerDestroyed, connVars, Loops
<1>2. loopPc[0] = "quit" /\ loopPc'[0] = "done" /\ \A l \in Loops \ {0} : loopPc'[l] = loopPc[l]
  BY DEF ServerDestroyed, ServerTypeOK
<1>3. batch[0] = <<>>
  BY <1>2 DEF ThreadInv
<1>4. /\ \A l \in Loops, g \in Functors : Queued(l, g)' <=> Queued(l, g) /\ l # 0
      /\ QueueInv'
  BY <1>1, <1>3, QueueDropped DEF ServerBody
<1>5. \A l \in Loops, c \in Conns :
        /\ Queued(l, <<"connectEstablished", c>>)' <=> Queued(l, <<"connectEstablished", c>>) /\ l # 0
        /\ Queued(l, <<"connectDestroyed", c>>)' <=> Queued(l, <<"connectDestroyed", c>>) /\ l # 0
        /\ Queued(l, <<"removeConnection", c>>)' <=> Queued(l, <<"removeConnection", c>>) /\ l # 0
  BY <1>4, FunctorNames
<1>6. ~Standing /\ ~Standing'
  BY <1>2 DEF Standing
<1>7. ConnInv'
  <2> SUFFICES ASSUME NEW c \in Conns PROVE ConnOK(c)'
    BY DEF ConnInv
  <2>1. ConnOK(c) /\ loopOf[c] \in Loops
    BY DEF ServerBody, ConnInv, ServerTypeOK
  <2>2. ~Queued(0, <<"connectDestroyed", c>>)
    <3>1. ToRun(0) = pending[0]
      BY <1>3, ToRunType DEF ToRun, Joined
    <3>2. loopPc[0] \notin InEvents
      BY <1>2 DEF InEvents
    <3> QED BY <3>1, <3>2 DEF ServerBody, DrainedInv, Queued
  <2>3. EstablishOK(c)' /\ DestroyOK(c)' /\ RemoveOK(c)'
    BY <1>1, <1>5, <1>6, <2>1 DEF ConnOK, EstablishOK, DestroyOK, RemoveOK
  <2>4. EndComes(c)'
    BY <1>1, <1>5, <1>6, <2>1, <2>2 DEF ConnOK, EstablishOK, EndComes
  <2> QED BY <2>3, <2>4 DEF ConnOK
<1>8. ActiveInv'
  <2>1. \A l \in Loops : loopPc'[l] \notin InEvents => loopPc[l] \notin InEvents
    BY <1>2 DEF InEvents
  <2> QED BY <1>1, <2>1, ActiveShrinks DEF ServerBody
<1>9. DrainedInv'
  <2>1. pending'[0] = <<>>
    BY <1>1 DEF ServerTypeOK
  <2> QED BY <2>1 DEF DrainedInv, ToSet
<1>10. QuitInv'
  BY <1>1, <1>2, <1>4, <1>6, QuitStays DEF ServerBody
<1> QED BY <1>4, <1>7, <1>8, <1>9, <1>10 DEF ServerBody
\* newConnection() on a server without threads, and with them.
LEMMA BodyNewConnection ==
  ASSUME ServerTypeOK, ThreadInv, ServerBody, NEW c \in Conns, NewConnection(c)
  PROVE  ServerBody'
<1> USE LoopFacts
<1> DEFINE k == nextLoop + 1
           f == <<"connectEstablished", c>>
<1>1. /\ numThreads' = numThreads /\ batch' = batch /\ quit' = quit /\ loopPc' = loopPc
      /\ connections' = connections \cup {c} /\ conn[c] = "waiting" /\ loopPc[0] = "events"
      /\ Loops' = Loops
      /\ \A l \in Loops : active'[l] \subseteq active[l]
  BY DEF NewConnection, Accepting, Handled, Loops, ServerTypeOK
<1>2. Standing /\ Standing'
  BY <1>1 DEF Standing
<1>3. \A l \in Loops :
        /\ ~Queued(l, <<"connectEstablished", c>>) /\ ~Queued(l, <<"connectDestroyed", c>>)
        /\ ~Queued(l, <<"removeConnection", c>>)
  BY <1>1, NotExisting DEF ServerBody, Existing
<1>4. \A l \in Loops : c \notin active[l]
  BY <1>1 DEF ServerBody, ActiveInv
<1>5. DrainedInv'
  BY <1>1 DEF DrainedInv, InEvents
<1>6. QuitInv'
  BY <1>1, <1>2 DEF ServerBody, QuitInv
<1>7. CASE numThreads = 0
  <2>1. /\ conn' = [conn EXCEPT ![c] = "connected"] /\ loopOf' = loopOf /\ pending' = pending
    BY <1>7 DEF NewConnection
  <2>2. conn'[c] = "connected" /\ \A d \in Conns \ {c} : conn'[d] = conn[d]
    BY <2>1 DEF ServerTypeOK
  <2>3. \A l \in Loops : ToRun(l)' = ToRun(l)
    BY <1>1, <2>1 DEF ToRun
  <2>4. QueueInv' /\ \A l \in Loops, g \in Functors : Queued(l, g)' <=> Queued(l, g)
    BY <1>1, <2>3, QueuesSame DEF ServerBody
  <2>5. ActiveInv'
    BY <1>1, <1>4, <2>1, <2>2 DEF ServerBody, ActiveInv
  <2>6. \A d \in Conns \ {c} : ConnOK(d)'
    BY <1>1, <1>2, <2>1, <2>2, <2>4, OthersKeep DEF ServerBody
  <2>7. \A l \in Loops :
          /\ ~Queued(l, <<"connectEstablished", c>>)' /\ ~Queued(l, <<"connectDestroyed", c>>)'
          /\ ~Queued(l, <<"removeConnection", c>>)'
    BY <1>3, <2>4, FunctorNames
  <2>8. ConnOK(c)'
    BY <1>1, <2>2, <2>7 DEF ConnOK, EstablishOK, DestroyOK, RemoveOK, EndComes, Alive
  <2> QED BY <1>5, <1>6, <2>4, <2>5, <2>6, <2>8 DEF ServerBody, ConnInv
<1>8. CASE numThreads # 0
  <2>1. k \in Loops /\ k # 0
    BY <1>8 DEF ServerTypeOK
  <2>2. /\ conn' = [conn EXCEPT ![c] = "connecting"] /\ loopOf' = [loopOf EXCEPT ![c] = k]
        /\ QueueInLoop(k, f)
    BY <1>8 DEF NewConnection, QueueInLoop
  <2> HIDE DEF k
  <2>3. /\ conn'[c] = "connecting" /\ \A d \in Conns \ {c} : conn'[d] = conn[d]
        /\ loopOf'[c] = k /\ \A d \in Conns \ {c} : loopOf'[d] = loopOf[d]
    BY <2>1, <2>2 DEF ServerTypeOK
  <2>4. f \in Functors /\ f[1] = "connectEstablished" /\ f[2] = c
    BY FunctorNames
  <2>5. /\ \A l \in Loops, g \in Functors : Queued(l, g)' <=> Queued(l, g) \/ (l = k /\ g = f)
        /\ QueueInv'
    <3>1. \A g \in Functors : Queued(k, g) => ~(g[1] = "connectDestroyed" /\ g[2] = c)
      <4> SUFFICES ASSUME NEW g \in Functors, Queued(k, g), g[1] = "connectDestroyed", g[2] = c
                   PROVE  FALSE
        OBVIOUS
      <4>1. g = <<"connectDestroyed", c>>
        BY DEF Functors
      <4> QED BY <1>3, <2>1, <4>1
    <3>2. ~Queued(k, f)
      BY <1>3, <2>1
    <3> HIDE DEF f
    <3> QED BY <1>1, <2>1, <2>2, <2>4, <3>1, <3>2, QueueGrows DEF ServerBody
  <2>6. ActiveInv'
    BY <1>1, <1>4, <2>3 DEF ServerBody, ActiveInv
  <2>7. \A d \in Conns \ {c} : ConnOK(d)'
    BY <1>1, <1>2, <2>3, <2>4, <2>5, OthersKeep DEF ServerBody
  <2>8. \A l \in Loops :
          /\ Queued(l, <<"connectEstablished", c>>)' <=> l = k
          /\ ~Queued(l, <<"connectDestroyed", c>>)'
          /\ ~Queued(l, <<"removeConnection", c>>)'
    BY <1>3, <2>5, FunctorNames
  <2>9. ConnOK(c)'
    BY <1>1, <2>1, <2>3, <2>8 DEF ConnOK, EstablishOK, DestroyOK, RemoveOK, EndComes, Alive
  <2> QED BY <1>5, <1>6, <2>5, <2>6, <2>7, <2>9 DEF ServerBody, ConnInv
<1> QED BY <1>7, <1>8

LEMMA BodyHandleClose ==
  ASSUME ServerTypeOK, ThreadInv, ServerBody, NEW l \in Loops, NEW c \in Conns,
         HandleClose(l, c)
  PROVE  ServerBody'
<1> USE LoopFacts
<1> DEFINE f == IF l = 0 THEN <<"connectDestroyed", c>> ELSE <<"removeConnection", c>>
<1>1. /\ numThreads' = numThreads /\ batch' = batch /\ quit' = quit /\ loopPc' = loopPc
      /\ loopOf' = loopOf /\ Loops' = Loops
      /\ conn'[c] = "disconnected" /\ \A d \in Conns \ {c} : conn'[d] = conn[d]
      /\ active'[l] = active[l] \ {c} /\ \A k \in Loops \ {l} : active'[k] = active[k]
      /\ connections' = IF l = 0 THEN connections \ {c} ELSE connections
      /\ loopPc[l] = "events" /\ c \in active[l]
  BY DEF HandleClose, Handled, Loops, ServerTypeOK
<1>2. QueueInLoop(0, f)
  BY DEF HandleClose, QueueInLoop
<1>3. loopOf[c] = l /\ conn[c] = "connected" /\ \A k \in Loops \ {l} : c \notin active[k]
  BY <1>1 DEF ServerBody, ActiveInv
<1>4. /\ Standing' <=> Standing
      /\ l = 0 => Standing
  BY <1>1 DEF Standing
<1>5. ConnOK(c)
  BY DEF ServerBody, ConnInv
<1>6. /\ \A k \in Loops : /\ ~Queued(k, <<"connectEstablished", c>>)
                          /\ ~Queued(k, <<"removeConnection", c>>)
                          /\ Standing => ~Queued(k, <<"connectDestroyed", c>>)
      /\ Standing => c \in connections
  BY <1>3, <1>5 DEF ConnOK, EstablishOK, DestroyOK, RemoveOK, EndComes, Alive
<1>7. f \in Functors /\ f[1] # "connectEstablished" /\ f[2] = c /\ ~Queued(0, f)
  BY <1>4, <1>6, FunctorNames
<1>8. /\ \A k \in Loops, g \in Functors : Queued(k, g)' <=> Queued(k, g) \/ (k = 0 /\ g = f)
      /\ QueueInv'
  <2> HIDE DEF f
  <2> QED BY <1>1, <1>2, <1>7, QueueGrows DEF ServerBody
<1>9. ActiveInv'
  BY <1>1, <1>3 DEF ServerBody, ActiveInv
<1>10. \A d \in Conns \ {c} : ConnOK(d)'
  <2> HIDE DEF f
  <2>1. \A k \in Loops, g \in Functors : g[2] \in Conns \ {c} => (Queued(k, g)' <=> Queued(k, g))
    BY <1>7, <1>8
  <2> QED BY <1>1, <1>4, <2>1, OthersKeep DEF ServerBody
<1>11. ConnOK(c)'
  <2>1. \A k \in Loops :
          /\ ~Queued(k, <<"connectEstablished", c>>)'
          /\ Queued(k, <<"connectDestroyed", c>>)' <=>
               Queued(k, <<"connectDestroyed", c>>) \/ (k = 0 /\ l = 0)
          /\ Queued(k, <<"removeConnection", c>>)' <=> k = 0 /\ l # 0
    BY <1>6, <1>8, FunctorNames
  <2>2. EstablishOK(c)' /\ RemoveOK(c)'
    BY <1>1, <1>3, <1>4, <1>6, <2>1 DEF EstablishOK, RemoveOK
  <2>3. DestroyOK(c)'
    BY <1>1, <1>3, <1>4, <1>5, <2>1 DEF ConnOK, DestroyOK, Alive
  <2>4. EndComes(c)'
    BY <1>1, <1>3, <1>4, <1>5, <2>1 DEF ConnOK, EndComes, Alive
  <2> QED BY <2>2, <2>3, <2>4 DEF ConnOK
<1>12. DrainedInv'
  <2>1. CASE l = 0
    BY <1>1, <2>1 DEF DrainedInv, InEvents
  <2>2. CASE l # 0
    <3>1. pending'[0] = Append(pending[0], f) /\ pending[0] \in Seq(Functors)
      BY <1>2 DEF ServerTypeOK, QueueInLoop
    <3>2. ToSet(pending'[0]) = ToSet(pending[0]) \cup {f}
      <4> HIDE DEF f
      <4>1. ToSet(Append(pending[0], f)) = ToSet(pending[0]) \cup {f}
        BY <1>7, <3>1, AppendToQueue
      <4> QED BY <3>1, <4>1
    <3>3. \A d \in Conns : <<"connectDestroyed", d>> # f
      BY <2>2, FunctorNames
    <3> QED BY <1>1, <3>2, <3>3, DrainedStays DEF ServerBody
  <2> QED BY <2>1, <2>2
<1>13. QuitInv'
  <2> HIDE DEF f
  <2>1. \A k \in Loops, g \in Functors : Queued(k, g)' => Queued(k, g) \/ k = 0
    BY <1>8
  <2> QED BY <1>1, <1>4, <2>1, QuitStays DEF ServerBody
<1> QED BY <1>8, <1>9, <1>10, <1>11, <1>12, <1>13 DEF ServerBody, ConnInv
LEMMA BodyConnectEstablished ==
  ASSUME ServerTypeOK, ThreadInv, ServerBody, NEW l \in Loops, NEW c \in Conns,
         RunConnectEstablished(l, c)
  PROVE  ServerBody'
<1> USE LoopFacts
<1> DEFINE f == <<"connectEstablished", c>>
<1>1. /\ numThreads' = numThreads /\ quit' = quit /\ loopPc' = loopPc /\ active' = active
      /\ loopOf' = loopOf /\ Loops' = Loops /\ pending' = pending /\ connections' = connections
      /\ conn'[c] = "connected" /\ \A d \in Conns \ {c} : conn'[d] = conn[d]
  BY DEF RunConnectEstablished, Running, Loops, ServerTypeOK
<1>2. /\ f \in Functors /\ Queued(l, f) /\ QueueInv' /\ f[2] = c
      /\ \A k \in Loops, g \in Functors : Queued(k, g)' <=> Queued(k, g) /\ ~(k = l /\ g = f)
  <2> HIDE DEF f
  <2>1. Running(l, f)
    BY DEF RunConnectEstablished, f
  <2> QED BY <1>1, <2>1, QueueShrinks, FunctorNames DEF ServerBody, f
<1>3. /\ Standing' <=> Standing
      /\ loopPc'[0] = "destroy" => loopPc[0] = "destroy"
  BY <1>1 DEF Standing
<1>4. ConnOK(c)
  BY DEF ServerBody, ConnInv
<1>5. /\ loopOf[c] = l /\ conn[c] = "connecting"
      /\ \A k \in Loops : ~Queued(k, <<"removeConnection", c>>)
      /\ Standing => \A k \in Loops : ~Queued(k, <<"connectDestroyed", c>>)
  BY <1>2, <1>4 DEF ConnOK, EstablishOK, DestroyOK, RemoveOK
<1>6. ActiveInv'
  BY <1>1, <1>5 DEF ServerBody, ActiveInv
<1>7. \A d \in Conns \ {c} : ConnOK(d)'
  <2> HIDE DEF f
  <2>1. \A k \in Loops, g \in Functors : g[2] \in Conns \ {c} => (Queued(k, g)' <=> Queued(k, g))
    BY <1>2
  <2> QED BY <1>1, <1>3, <2>1, OthersKeep DEF ServerBody
<1>8. ConnOK(c)'
  <2>1. \A k \in Loops :
          /\ Queued(k, <<"connectEstablished", c>>)' => Queued(k, <<"connectEstablished", c>>) /\ k # l
          /\ Queued(k, <<"connectDestroyed", c>>)' <=> Queued(k, <<"connectDestroyed", c>>)
          /\ ~Queued(k, <<"removeConnection", c>>)'
    BY <1>2, <1>5, FunctorNames
  <2>2. EstablishOK(c)' /\ RemoveOK(c)'
    BY <1>1, <1>4, <1>5, <2>1 DEF ConnOK, EstablishOK, RemoveOK
  <2>3. DestroyOK(c)'
    BY <1>1, <1>3, <1>4, <1>5, <2>1 DEF ConnOK, DestroyOK, Alive
  <2>4. EndComes(c)'
    BY <1>1, <1>4, <1>5, <2>1 DEF ConnOK, EndComes, Alive
  <2> QED BY <2>2, <2>3, <2>4 DEF ConnOK
<1>9. DrainedInv'
  BY <1>1 DEF ServerBody, DrainedInv
<1>10. QuitInv'
  <2>1. \A k \in Loops, g \in Functors : Queued(k, g)' => Queued(k, g)
    BY <1>2
  <2> QED BY <1>1, <1>3, <2>1, QuitStays DEF ServerBody
<1> QED BY <1>2, <1>6, <1>7, <1>8, <1>9, <1>10 DEF ServerBody, ConnInv

\* connectDestroyed() finds that connectEstablished() has run.
LEMMA BodyConnectDestroyed ==
  ASSUME ServerTypeOK, ThreadInv, ServerBody, NEW l \in Loops, NEW c \in Conns,
         RunConnectDestroyed(l, c)
  PROVE  ServerBody'
<1> USE LoopFacts
<1> DEFINE f == <<"connectDestroyed", c>>
           e == <<"connectEstablished", c>>
<1>1. /\ numThreads' = numThreads /\ quit' = quit /\ loopPc' = loopPc /\ active' = active
      /\ loopOf' = loopOf /\ Loops' = Loops /\ pending' = pending /\ connections' = connections
      /\ conn'[c] = "removed" /\ \A d \in Conns \ {c} : conn'[d] = conn[d]
      /\ loopPc[l] = "drain"
  BY DEF RunConnectDestroyed, Running, Loops, ServerTypeOK
<1>2. /\ f \in Functors /\ Queued(l, f) /\ QueueInv' /\ f[2] = c
      /\ \A k \in Loops, g \in Functors : Queued(k, g)' <=> Queued(k, g) /\ ~(k = l /\ g = f)
      /\ ~Queued(l, e)
  <2>1. f[1] = "connectDestroyed" /\ f[2] = c
    OBVIOUS
  <2>2. e \in Functors /\ e[1] = "connectEstablished" /\ e[2] = c
    BY FunctorNames
  <2> HIDE DEF f, e
  <2>3. Running(l, f)
    BY DEF RunConnectDestroyed, f
  <2> QED BY <1>1, <2>1, <2>2, <2>3, QueueShrinks DEF ServerBody
<1>3. /\ Standing' <=> Standing
      /\ loopPc'[0] = "destroy" => loopPc[0] = "destroy"
  BY <1>1 DEF Standing
<1>4. ConnOK(c)
  BY DEF ServerBody, ConnInv
<1>5. /\ loopOf[c] = l /\ c \notin connections
      /\ \A k \in Loops : ~Queued(k, <<"connectEstablished", c>>)
      /\ Standing => \A k \in Loops : ~Queued(k, <<"removeConnection", c>>)
  BY <1>2, <1>4 DEF ConnOK, EstablishOK, DestroyOK, RemoveOK
<1>6. ActiveInv'
  <2>1. \A k \in Loops : c \notin active[k]
    BY <1>1, <1>5 DEF ServerBody, ActiveInv, InEvents
  <2> QED BY <1>1, <2>1 DEF ServerBody, ActiveInv
<1>7. \A d \in Conns \ {c} : ConnOK(d)'
  <2> HIDE DEF f
  <2>1. \A k \in Loops, g \in Functors : g[2] \in Conns \ {c} => (Queued(k, g)' <=> Queued(k, g))
    BY <1>2
  <2> QED BY <1>1, <1>3, <2>1, OthersKeep DEF ServerBody
<1>8. ConnOK(c)'
  <2>1. \A k \in Loops :
          /\ ~Queued(k, <<"connectEstablished", c>>)'
          /\ Queued(k, <<"connectDestroyed", c>>)' => Queued(k, <<"connectDestroyed", c>>) /\ k # l
          /\ Queued(k, <<"removeConnection", c>>)' <=> Queued(k, <<"removeConnection", c>>)
    BY <1>2, <1>5, FunctorNames
  <2>2. EstablishOK(c)' /\ DestroyOK(c)'
    BY <1>1, <1>4, <1>5, <2>1 DEF ConnOK, EstablishOK, DestroyOK
  <2>3. RemoveOK(c)'
    BY <1>1, <1>3, <1>4, <1>5, <2>1 DEF ConnOK, RemoveOK
  <2>4. EndComes(c)'
    BY <1>1, <1>5 DEF EndComes, Alive
  <2> QED BY <2>2, <2>3, <2>4 DEF ConnOK
<1>9. DrainedInv'
  BY <1>1 DEF ServerBody, DrainedInv
<1>10. QuitInv'
  <2>1. \A k \in Loops, g \in Functors : Queued(k, g)' => Queued(k, g)
    BY <1>2
  <2> QED BY <1>1, <1>3, <2>1, QuitStays DEF ServerBody
<1> QED BY <1>2, <1>6, <1>7, <1>8, <1>9, <1>10 DEF ServerBody, ConnInv

LEMMA BodyRemoveConnection ==
  ASSUME ServerTypeOK, ThreadInv, ServerBody, NEW c \in Conns, RemoveConnectionInLoop(c)
  PROVE  ServerBody'
<1> USE LoopFacts
<1> PICK m \in Loops : m = loopOf[c]
  BY DEF ServerTypeOK
<1> DEFINE f == <<"removeConnection", c>>
           e == <<"connectDestroyed", c>>
<1>1. /\ numThreads' = numThreads /\ quit' = quit /\ loopPc' = loopPc /\ active' = active
      /\ loopOf' = loopOf /\ Loops' = Loops /\ connections' = connections \ {c} /\ conn' = conn
      /\ loopPc[0] = "drain" /\ Head(batch[0]) = f /\ batch[0] # <<>>
  BY DEF RemoveConnectionInLoop, Running, Loops, ServerTypeOK
<1>2. Running(0, f) /\ QueueInLoop(m, e)
  BY DEF RemoveConnectionInLoop, QueueInLoop
<1>3. Standing /\ Standing'
  BY <1>1 DEF Standing
<1>4. ConnOK(c)
  BY DEF ServerBody, ConnInv
<1>5. f \in Functors /\ e \in Functors /\ e # f /\ e[1] # "connectEstablished" /\ e[2] = c /\ f[2] = c
  BY FunctorNames
<1>6. Queued(0, f)
  <2>1. /\ batch[0] \in Seq(Functors) /\ pending[0] \in Seq(Functors)
        /\ ToRun(0) \in Seq(Functors) /\ ToRun(0) = Joined(batch[0], pending[0])
    BY ToRunType DEF ToRun
  <2>2. ToRun(0) # <<>> /\ Head(ToRun(0)) = f
    <3>1. \A b, q \in Seq(Functors) :
            b # <<>> => Joined(b, q) # <<>> /\ Head(Joined(b, q)) = Head(b)
      BY TailOfConcat
    <3> HIDE DEF f
    <3> QED BY <1>1, <2>1, <3>1
  <2>3. \A s \in Seq(Functors) : s # <<>> => Head(s) = s[1] /\ 1 \in DOMAIN s
    OBVIOUS
  <2> QED BY <2>1, <2>2, <2>3 DEF Queued, ToSet
<1>7. /\ m # 0 /\ c \in connections /\ conn[c] = "disconnected"
      /\ \A k \in Loops : ~Queued(k, <<"connectDestroyed", c>>)
      /\ \A k \in Loops : ~Queued(k, <<"connectEstablished", c>>)
  BY <1>3, <1>4, <1>6 DEF ConnOK, EstablishOK, DestroyOK, RemoveOK
<1>8. /\ \A k \in Loops, g \in Functors :
           Queued(k, g)' <=> \/ Queued(k, g) /\ ~(k = 0 /\ g = f)
                             \/ k = m /\ g = e
      /\ QueueInv'
  <2>1. ~Queued(m, e) /\ m # 0 /\ QueueInv
    BY <1>7 DEF ServerBody
  <2> HIDE DEF e, f
  <2> QED BY <1>2, <1>5, <2>1, QueueMoves
<1>9. ActiveInv'
  BY <1>1 DEF ServerBody, ActiveInv
<1>10. \A d \in Conns \ {c} : ConnOK(d)'
  <2> HIDE DEF e, f
  <2>1. \A k \in Loops, g \in Functors : g[2] \in Conns \ {c} => (Queued(k, g)' <=> Queued(k, g))
    BY <1>5, <1>8
  <2> QED BY <1>1, <1>3, <2>1, OthersKeep DEF ServerBody
<1>11. ConnOK(c)'
  <2>1. \A k \in Loops :
          /\ ~Queued(k, <<"connectEstablished", c>>)'
          /\ Queued(k, <<"connectDestroyed", c>>)' <=> k = m
          /\ Queued(k, <<"removeConnection", c>>)' => Queued(k, <<"removeConnection", c>>) /\ k # 0
    BY <1>7, <1>8, FunctorNames
  <2>2. EstablishOK(c)' /\ DestroyOK(c)'
    BY <1>1, <1>7, <2>1 DEF EstablishOK, DestroyOK, Alive
  <2>3. RemoveOK(c)'
    BY <1>1, <1>4, <2>1 DEF ConnOK, RemoveOK
  <2>4. EndComes(c)'
    BY <1>1, <1>7, <2>1 DEF EndComes, Alive
  <2> QED BY <2>2, <2>3, <2>4 DEF ConnOK
<1>12. DrainedInv'
  <2>1. pending'[0] = pending[0]
    BY <1>2, <1>7 DEF ServerTypeOK, QueueInLoop
  <2> QED BY <1>1, <2>1 DEF ServerBody, DrainedInv
<1>13. QuitInv'
  BY <1>1, <1>3 DEF ServerBody, QuitInv
<1> QED BY <1>8, <1>9, <1>10, <1>11, <1>12, <1>13 DEF ServerBody, ConnInv

LEMMA BodyDestroyConnection ==
  ASSUME ServerTypeOK, ThreadInv, ServerBody, NEW c \in Conns, DestroyConnection(c)
  PROVE  ServerBody'
<1> USE LoopFacts
<1> DEFINE m == loopOf[c]
           e == <<"connectDestroyed", c>>
<1>1. /\ numThreads' = numThreads /\ quit' = quit /\ loopPc' = loopPc /\ active' = active
      /\ loopOf' = loopOf /\ Loops' = Loops /\ connections' = connections \ {c}
      /\ batch' = batch /\ loopPc[0] = "destroy" /\ m \in Loops /\ c \in connections
  BY DEF DestroyConnection, Loops, ServerTypeOK
<1>2. ~Standing /\ ~Standing'
  BY <1>1 DEF Standing
<1>3. ConnOK(c)
  BY DEF ServerBody, ConnInv
<1>4. conn[c] \in Alive /\ \A k \in Loops : ~Queued(k, e)
  BY <1>1, <1>3 DEF ConnOK, DestroyOK, EndComes
<1>5. CASE m = 0
  <2>1. /\ conn' = [conn EXCEPT ![c] = "removed"] /\ pending' = pending
    BY <1>5 DEF DestroyConnection
  <2>2. conn'[c] = "removed" /\ \A d \in Conns \ {c} : conn'[d] = conn[d]
    BY <2>1 DEF ServerTypeOK
  <2>3. \A k \in Loops : ToRun(k)' = ToRun(k)
    BY <1>1, <2>1 DEF ToRun
  <2>4. QueueInv' /\ \A k \in Loops, g \in Functors : Queued(k, g)' <=> Queued(k, g)
    BY <1>1, <2>3, QueuesSame DEF ServerBody
  <2>5. ActiveInv'
    <3>1. \A k \in Loops : c \notin active[k]
      BY <1>1, <1>5 DEF ServerBody, ActiveInv, InEvents
    <3> QED BY <1>1, <2>2, <3>1 DEF ServerBody, ActiveInv
  <2>6. \A d \in Conns \ {c} : ConnOK(d)'
    BY <1>1, <1>2, <2>2, <2>4, OthersKeep DEF ServerBody
  <2>7. \A k \in Loops :
          /\ ~Queued(k, <<"connectEstablished", c>>)' /\ ~Queued(k, <<"connectDestroyed", c>>)'
          /\ ~Queued(k, <<"removeConnection", c>>)'
    <3>1. \A k \in Loops :
          /\ ~Queued(k, <<"connectEstablished", c>>) /\ ~Queued(k, <<"connectDestroyed", c>>)
          /\ ~Queued(k, <<"removeConnection", c>>)
      BY <1>3, <1>4, <1>5 DEF ConnOK, EstablishOK, RemoveOK
    <3> QED BY <2>4, <3>1, FunctorNames
  <2>8. ConnOK(c)'
    BY <1>1, <2>2, <2>7 DEF ConnOK, EstablishOK, DestroyOK, RemoveOK, EndComes, Alive
  <2>9. DrainedInv'
    BY <1>1, <2>1 DEF ServerBody, DrainedInv
  <2>10. QuitInv'
    BY <1>1, <1>2, <2>4, QuitStays DEF ServerBody
  <2> QED BY <2>4, <2>5, <2>6, <2>8, <2>9, <2>10 DEF ServerBody, ConnInv
<1>6. CASE m # 0
  <2>1. conn' = conn /\ QueueInLoop(m, e)
    BY <1>6 DEF DestroyConnection, QueueInLoop
  <2>2. e \in Functors /\ e[1] # "connectEstablished" /\ e[2] = c
    BY FunctorNames
  <2>3. /\ \A k \in Loops, g \in Functors : Queued(k, g)' <=> Queued(k, g) \/ (k = m /\ g = e)
        /\ QueueInv'
    <3> HIDE DEF e, m
    <3> QED BY <1>1, <1>4, <2>1, <2>2, QueueGrows DEF ServerBody
  <2>4. ActiveInv'
    BY <1>1, <2>1 DEF ServerBody, ActiveInv
  <2>5. \A d \in Conns \ {c} : ConnOK(d)'
    <3> HIDE DEF e, m
    <3>1. \A k \in Loops, g \in Functors : g[2] \in Conns \ {c} => (Queued(k, g)' <=> Queued(k, g))
      BY <2>2, <2>3
    <3> QED BY <1>1, <1>2, <2>1, <3>1, OthersKeep DEF ServerBody
  <2>6. ConnOK(c)'
    <3>1. \A k \in Loops :
            /\ Queued(k, <<"connectEstablished", c>>)' <=> Queued(k, <<"connectEstablished", c>>)
            /\ Queued(k, <<"connectDestroyed", c>>)' <=> k = m
            /\ Queued(k, <<"removeConnection", c>>)' <=> Queued(k, <<"removeConnection", c>>)
      BY <1>4, <2>3, FunctorNames
    <3>2. EstablishOK(c)' /\ RemoveOK(c)'
      BY <1>1, <1>2, <1>3, <2>1, <3>1 DEF ConnOK, EstablishOK, RemoveOK
    <3>3. DestroyOK(c)'
      BY <1>1, <1>2, <1>4, <2>1, <3>1 DEF DestroyOK, Alive
    <3>4. EndComes(c)'
      BY <1>1, <1>2, <1>3, <2>1, <3>1 DEF ConnOK, EndComes, Alive
    <3> QED BY <3>2, <3>3, <3>4 DEF ConnOK
  <2>7. DrainedInv'
    <3>1. pending'[0] = pending[0]
      BY <1>6, <2>1 DEF ServerTypeOK, QueueInLoop
    <3> QED BY <1>1, <3>1 DEF ServerBody, DrainedInv
  <2>8. QuitInv'
    BY <1>1 DEF ServerBody, QuitInv
  <2> QED BY <2>3, <2>4, <2>5, <2>6, <2>7, <2>8 DEF ServerBody, ConnInv
<1> QED BY <1>5, <1>6
-----------------------------------------------------------------------------
(* TcpServer: the invariant and the theorems.                              *)

ServerInv ==
    /\ ServerTypeOK /\ ThreadInv
    /\ SleepSuffices \/ Standing => ServerBody

LEMMA ServerInvInit == ServerInit => ServerInv
<1> SUFFICES ASSUME ServerInit PROVE ServerInv
  OBVIOUS
<1>1. ServerTypeOK /\ ThreadInv
  BY ServerTypeInit
<1>2. \A l \in Loops : ToRun(l) = <<>> /\ active[l] = {} /\ quit[l] = FALSE
  BY DEF ServerInit, ToRun, Joined
<1>3. ToSet(<<>>) = {} /\ Distinct(<<>>) /\ Ordered(<<>>)
  BY DEF ToSet, Distinct, Ordered
<1>4. \A l \in Loops : \A f : ~Queued(l, f)
  BY <1>2, <1>3 DEF Queued
<1>5. ActiveInv /\ QueueInv /\ QuitInv
  BY <1>2, <1>3 DEF ActiveInv, QueueInv, QuitInv
<1>6. ConnInv
  <2>1. \A c \in Conns : conn[c] = "none" /\ c \notin connections
    BY DEF ServerInit
  <2> QED BY <1>4, <2>1
          DEF ConnInv, ConnOK, EstablishOK, DestroyOK, RemoveOK, EndComes, Alive
<1>7. DrainedInv
  <2>1. pending[0] = <<>>
    BY <1>1, LoopFacts DEF ServerInit
  <2> QED BY <1>3, <2>1 DEF DrainedInv
<1> QED BY <1>1, <1>5, <1>6, <1>7 DEF ServerInv, ServerBody

\* Only QuitThread depends on usleep(10), and ~TcpServer() has begun by then.
LEMMA ServerInvStep ==
  ASSUME ServerInv, [ServerNext]_serverVars
  PROVE  ServerInv'
<1>1. ServerTypeOK /\ ThreadInv /\ ServerTypeOK' /\ ThreadInv'
  BY ServerTypeStep DEF ServerInv
<1> SUFFICES ASSUME SleepSuffices \/ Standing' PROVE ServerBody'
  BY <1>1 DEF ServerInv
<1>2. Standing' => Standing
  <2> SUFFICES ASSUME ~Standing PROVE ~Standing'
    OBVIOUS
  <2>1. loopPc[0] \in {"destroy", "quit", "join", "done"} /\ 0 \in Loops
    BY <1>1, LoopFacts DEF Standing
  <2>2. CASE MainStep
    BY <1>1, <2>1, <2>2
       DEF MainStep, StartLoop, StartLoopReturns, AcceptFails, Accepting, DropPeer,
           ReopenIdleFd, NewConnection, RemoveConnectionInLoop, Running, DestroyConnection,
           DestroyPool, QuitThread, JoinThread, ServerDestroyed, Standing, ServerTypeOK
  <2>3. CASE Outside
    BY <2>1, <2>3 DEF Outside, PeerConnects, BaseQuit, OthersUseFds, PeerCloses, loopVars,
                      Standing
  <2>4. ASSUME NEW l \in Loops, LoopStep(l) PROVE ~Standing'
    <3>1. loopPc'[0] = loopPc[0]
      BY <1>1, <2>1, <2>4
         DEF LoopStep, ThreadFunc, LoopBegins, LoopEnds, AtCheck, EnterPoll, Poll,
             DoPendingFunctors, HandleClose, RunConnectEstablished, RunConnectDestroyed,
             Running, ServerTypeOK
    <3> QED BY <2>1, <3>1 DEF Standing
  <2>5. CASE UNCHANGED serverVars
    BY <2>1, <2>5 DEF serverVars, loopVars, Standing
  <2> QED BY <2>2, <2>3, <2>4, <2>5 DEF ServerNext
<1>3. ServerBody
  BY <1>2 DEF ServerInv
<1>4. CASE MainStep
  <2>1. CASE StartLoop \/ StartLoopReturns \/ DestroyPool \/ JoinThread
    BY <1>1, <1>3, <2>1, BodyPool
  <2>2. CASE AcceptFails \/ DropPeer \/ ReopenIdleFd
    BY <1>1, <1>3, <2>2, BodyAcceptor
  <2>3. CASE \E c \in Conns : NewConnection(c)
    BY <1>1, <1>3, <2>3, BodyNewConnection
  <2>4. CASE \E c \in Conns : RemoveConnectionInLoop(c)
    BY <1>1, <1>3, <2>4, BodyRemoveConnection
  <2>5. CASE \E c \in Conns : DestroyConnection(c)
    BY <1>1, <1>3, <2>5, BodyDestroyConnection
  <2>6. CASE QuitThread
    <3>1. ~Standing'
      BY <1>1, <2>6, LoopFacts DEF QuitThread, ServerTypeOK, Standing
    <3> QED BY <1>1, <1>3, <2>6, <3>1, BodyQuitThread
  <2>7. CASE ServerDestroyed
    BY <1>1, <1>3, <2>7, BodyServerDestroyed
  <2> QED BY <1>4, <2>1, <2>2, <2>3, <2>4, <2>5, <2>6, <2>7 DEF MainStep
<1>5. CASE Outside
  BY <1>1, <1>3, <1>5, BodyOutside
<1>6. ASSUME NEW l \in Loops, LoopStep(l) PROVE ServerBody'
  <2>1. CASE ThreadFunc(l) \/ LoopBegins(l) \/ EnterPoll(l)
    BY <1>1, <1>3, <2>1, BodyPool
  <2>2. CASE LoopEnds(l)
    BY <1>1, <1>3, <2>2, BodyLoopEnds
  <2>3. CASE Poll(l)
    BY <1>1, <1>3, <2>3, BodyPoll
  <2>4. CASE DoPendingFunctors(l)
    BY <1>1, <1>3, <2>4, BodyDoPendingFunctors
  <2>5. CASE \E c \in Conns : HandleClose(l, c)
    BY <1>1, <1>3, <2>5, BodyHandleClose
  <2>6. CASE \E c \in Conns : RunConnectEstablished(l, c)
    BY <1>1, <1>3, <2>6, BodyConnectEstablished
  <2>7. CASE \E c \in Conns : RunConnectDestroyed(l, c)
    BY <1>1, <1>3, <2>7, BodyConnectDestroyed
  <2> QED BY <1>6, <2>1, <2>2, <2>3, <2>4, <2>5, <2>6, <2>7 DEF LoopStep
<1>7. CASE UNCHANGED serverVars
  <2>1. Loops' = Loops /\ (Standing' <=> Standing)
    BY <1>7 DEF serverVars, loopVars, Loops, Standing
  <2> QED BY <1>1, <1>3, <1>7, <2>1, BodyQuiet, LoopFacts
          DEF serverVars, loopVars, connVars, Standing
<1> QED BY <1>4, <1>5, <1>6, <1>7 DEF ServerNext

LEMMA ServerInvariance == ServerSpec => []ServerInv
<1>1. ServerInv /\ [ServerNext]_serverVars => ServerInv'
  BY ServerInvStep
<1> QED BY ServerInvInit, <1>1, PTL DEF ServerSpec

\* Every variable keeps to its type, whatever usleep(10) does.
THEOREM ServerTypeCorrect == ServerSpec => []ServerTypeOK
<1>1. ServerInv => ServerTypeOK
  BY DEF ServerInv
<1> QED BY <1>1, ServerInvariance, PTL

\* The removals of c that the base loop has to run are none or one.
LEMMA RemovalsCounted ==
  ASSUME ServerTypeOK, QueueInv, NEW c \in Conns
  PROVE  Removals(c) = IF Queued(0, <<"removeConnection", c>>) THEN 1 ELSE 0
<1> DEFINE f == <<"removeConnection", c>>
           b == batch[0]
           q == pending[0]
           B == {i \in DOMAIN b : b[i] = f}
           Q == {i \in DOMAIN q : q[i] = f}
<1>1. b \in Seq(Functors) /\ q \in Seq(Functors) /\ ToRun(0) = Joined(b, q)
  BY LoopFacts, ToRunType DEF ToRun
<1>2. Distinct(Joined(b, q)) /\ (Queued(0, f) <=> f \in ToSet(Joined(b, q)))
  BY <1>1, LoopFacts DEF QueueInv, Queued
<1>3. Removals(c) = Cardinality(Q) + Cardinality(B)
  BY DEF Removals
<1> HIDE DEF b, q, f
<1>4. /\ Len(b) \in Nat /\ Len(q) \in Nat /\ DOMAIN b = 1..Len(b) /\ DOMAIN q = 1..Len(q)
      /\ DOMAIN Joined(b, q) = 1..(Len(b) + Len(q))
      /\ \A i \in 1..Len(b) : Joined(b, q)[i] = b[i]
      /\ \A i \in 1..Len(q) : Joined(b, q)[Len(b) + i] = q[i]
  BY <1>1 DEF Joined
<1> DEFINE s == Joined(b, q)
<1> HIDE DEF s
<1>5. \A i, j \in DOMAIN s : s[i] = s[j] => i = j
  BY <1>2 DEF Distinct, s
<1>6. /\ \A i \in 1..Len(b) : i \in DOMAIN s /\ s[i] = b[i]
      /\ \A i \in 1..Len(q) : Len(b) + i \in DOMAIN s /\ s[Len(b) + i] = q[i]
  BY <1>4 DEF s
<1>7. /\ \A i, j \in B : i = j
      /\ \A i, j \in Q : i = j
      /\ B = {} \/ Q = {}
  <2>1. \A i, j \in B : i = j
    BY <1>4, <1>5, <1>6
  <2>2. \A i, j \in Q : Len(b) + i = Len(b) + j
    BY <1>4, <1>5, <1>6
  <2>3. \A i, j \in Q : i = j
    BY <1>4, <2>2
  <2>4. ASSUME NEW i \in B, NEW j \in Q PROVE FALSE
    <3>1. i = Len(b) + j
      BY <1>4, <1>5, <1>6
    <3> QED BY <1>4, <3>1
  <2> QED BY <2>1, <2>3, <2>4
<1>8. f \in ToSet(s) <=> B # {} \/ Q # {}
  <2>1. ASSUME f \in ToSet(s) PROVE B # {} \/ Q # {}
    <3>1. PICK i \in DOMAIN s : s[i] = f
      BY <2>1 DEF ToSet
    <3>2. i \in 1..Len(b) \/ (i - Len(b) \in 1..Len(q) /\ Len(b) + (i - Len(b)) = i)
      BY <1>4 DEF s
    <3>3. CASE i \in 1..Len(b)
      BY <1>4, <1>6, <3>1, <3>3
    <3>4. CASE i - Len(b) \in 1..Len(q) /\ Len(b) + (i - Len(b)) = i
      <4>1. q[i - Len(b)] = f
        BY <1>6, <3>1, <3>4
      <4> QED BY <1>4, <3>4, <4>1
    <3> QED BY <3>2, <3>3, <3>4
  <2>2. ASSUME B # {} \/ Q # {} PROVE f \in ToSet(s)
    BY <1>4, <1>6, <2>2 DEF ToSet
  <2> QED BY <2>1, <2>2
<1> HIDE DEF B, Q
<1>9. ASSUME NEW X, \A i, j \in X : i = j
      PROVE  Cardinality(X) = IF X = {} THEN 0 ELSE 1
  <2>1. CASE X = {}
    BY <2>1, FS_EmptySet
  <2>2. CASE X # {}
    <3>1. PICK x : X = {x}
      BY <1>9, <2>2
    <3> QED BY <2>2, <3>1, FS_Singleton
  <2> QED BY <2>1, <2>2
<1>10. /\ Cardinality(B) = IF B = {} THEN 0 ELSE 1
       /\ Cardinality(Q) = IF Q = {} THEN 0 ELSE 1
  BY <1>7, <1>9
<1>11. Queued(0, f) <=> B # {} \/ Q # {}
  BY <1>2, <1>8 DEF s
<1> QED BY <1>3, <1>7, <1>10, <1>11 DEF f

\* While the server serves, connections_ and the ends that are under way agree.
THEOREM MapStaysRight == ServerSpec => []MapAgrees
<1>1. ASSUME ServerInv PROVE MapAgrees
  <2> SUFFICES ASSUME Serving, NEW c \in Conns
               PROVE  /\ conn[c] \in {"connecting", "connected"} => c \in connections
                      /\ conn[c] = "removed" => c \notin connections
                      /\ Removals(c) = IF conn[c] = "disconnected" /\ c \in connections
                                       THEN 1 ELSE 0
    BY DEF MapAgrees
  <2>1. Standing
    BY DEF Serving, Turning, Standing
  <2>2. ServerTypeOK /\ QueueInv /\ ConnOK(c)
    BY <1>1, <2>1 DEF ServerInv, ServerBody, ConnInv
  <2>3. loopOf[c] \in Loops /\ 0 \in Loops
    BY <2>2, LoopFacts DEF ServerTypeOK
  <2>4. Queued(0, <<"removeConnection", c>>) <=> conn[c] = "disconnected" /\ c \in connections
    BY <2>1, <2>2, <2>3 DEF ConnOK, RemoveOK, EndComes
  <2>5. /\ conn[c] \in {"connecting", "connected"} => c \in connections
        /\ conn[c] = "removed" => c \notin connections
    BY <2>1, <2>2, <2>3 DEF ConnOK, DestroyOK, EndComes, Alive
  <2> QED BY <2>2, <2>4, <2>5, RemovalsCounted
<1> QED BY <1>1, ServerInvariance, PTL

\* No TcpConnection dies before its connectDestroyed(), if the threads of the
\* pool come to rest in the usleep(10) of ~EventLoopThread().
THEOREM ConnectionsEnd ==
  ASSUME SleepSuffices
  PROVE  ServerSpec => []DestructorAsserts
<1>1. ASSUME ServerInv PROVE DestructorAsserts
  <2> SUFFICES ASSUME NEW c \in Conns, conn[c] \in Existing, ~Referenced(c),
                      conn[c] # "removed"
               PROVE  FALSE
    BY DEF DestructorAsserts
  <2>1. ServerTypeOK /\ ConnOK(c) /\ c \notin connections
    BY <1>1 DEF ServerInv, ServerBody, ConnInv, Referenced
  <2>2. Queued(loopOf[c], <<"connectDestroyed", c>>) /\ loopOf[c] \in Loops
    BY <2>1 DEF ConnOK, EndComes, Existing, Alive, ServerTypeOK
  <2>3. PICK l \in Loops : l = loopOf[c]
    BY <2>2
  <2> DEFINE f == <<"connectDestroyed", c>>
             b == batch[l]
             q == pending[l]
  <2>4. b \in Seq(Functors) /\ q \in Seq(Functors) /\ f \in ToSet(Joined(b, q)) /\ f[2] = c
    BY <2>1, <2>2, <2>3, ToRunType DEF Queued, ToRun
  <2>5. f \notin Range(q) /\ f \notin Range(b)
    BY <2>4 DEF Referenced
  <2> HIDE DEF f, b, q
  <2>6. /\ Len(b) \in Nat /\ Len(q) \in Nat /\ DOMAIN b = 1..Len(b) /\ DOMAIN q = 1..Len(q)
        /\ DOMAIN Joined(b, q) = 1..(Len(b) + Len(q))
        /\ \A i \in 1..Len(b) : Joined(b, q)[i] = b[i]
        /\ \A i \in 1..Len(q) : Joined(b, q)[Len(b) + i] = q[i]
    BY <2>4 DEF Joined
  <2>7. PICK i \in DOMAIN Joined(b, q) : Joined(b, q)[i] = f
    BY <2>4 DEF ToSet
  <2>8. i \in 1..Len(b) \/ (i - Len(b) \in 1..Len(q) /\ Len(b) + (i - Len(b)) = i)
    BY <2>6
  <2>9. CASE i \in 1..Len(b)
    BY <2>5, <2>6, <2>7, <2>9 DEF Range
  <2>10. CASE i - Len(b) \in 1..Len(q) /\ Len(b) + (i - Len(b)) = i
    <3>1. q[i - Len(b)] = f
      BY <2>6, <2>7, <2>10
    <3> QED BY <2>5, <2>6, <2>10, <3>1 DEF Range
  <2> QED BY <2>8, <2>9, <2>10
<1> QED BY <1>1, ServerInvariance, PTL
=============================================================================
