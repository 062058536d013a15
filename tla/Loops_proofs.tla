---------------------------- MODULE Loops_proofs ----------------------------
(***************************************************************************)
(* Proofs about the two loops that other threads hand their work to.       *)
(*                                                                         *)
(* EventLoop, for any number of Callers, Channels and functors: it is type *)
(* correct, it never sleeps over work, it keeps the functors in order, and *)
(* it implements TaskQueue.                                                *)
(*                                                                         *)
(* AsyncLogging, for any size and number of buffers, any lines and any     *)
(* number of starts and stops: its types, that the asserts of threadFunc() *)
(* about its spare buffers never fail, that no filled buffer waits unnoticed *)
(* and that no line is lost or overtaken.  LogFile, for any sizes, intervals *)
(* and lines: its types and SizeBound however the clock is set, DayBound and *)
(* FlushedInTime for one that is never set back.                           *)
(***************************************************************************)
EXTENDS EventLoop, AsyncLogging, LogFile,
        SequenceTheorems, FiniteSetTheorems, WellFoundedInduction, TLAPS

\* What is left to say when no variable moves.
LEMMA TypeStutter == LoopTypeOK /\ UNCHANGED loopVars => LoopTypeOK'
  BY DEF LoopTypeOK, loopVars, LoopPcs

\* The steps of the Callers keep every variable in its range.
LEMMA TypeCallers ==
  ASSUME LoopTypeOK, NEW t \in Callers, CallerStep(t) PROVE LoopTypeOK'
<1> USE MaxTasksAssumption, EventfdMaxAssumption
<1>1. CASE QueueInLoop(t)
  BY <1>1 DEF LoopTypeOK, QueueInLoop, PushBack, ownerVars, LoopPcs
<1>2. CASE Quit(t)
  BY <1>2 DEF LoopTypeOK, Quit, ownerVars, LoopPcs
<1>3. CASE Wakeup(t)
  BY <1>3 DEF LoopTypeOK, Wakeup, Woken, ownerVars, LoopPcs
<1> QED BY <1>1, <1>2, <1>3 DEF CallerStep

\* So do the steps of user code on the owner thread.
LEMMA TypeOwner ==
  ASSUME LoopTypeOK, OwnerQueueInLoop \/ OwnerQuit PROVE LoopTypeOK'
<1> USE MaxTasksAssumption, EventfdMaxAssumption
<1>1. CASE OwnerQueueInLoop
  BY <1>1 DEF LoopTypeOK, OwnerQueueInLoop, PushBack, Woken, ownerVars, LoopPcs
<1>2. CASE OwnerQuit
  BY <1>2 DEF LoopTypeOK, OwnerQuit, ownerVars, LoopPcs
<1> QED BY <1>1, <1>2

\* So do the steps of loop() itself, the arrival of events and the timeout.
LEMMA TypeLoop ==
  ASSUME LoopTypeOK,
         LoopStep \/ PollTimeout \/ \E c \in Channels : ChannelReady(c)
  PROVE  LoopTypeOK'
<1> USE MaxTasksAssumption, EventfdMaxAssumption DEF LoopTypeOK, LoopPcs
<1>1. CASE LoopStart
  BY <1>1 DEF LoopStart
<1>2. CASE LoopCheck
  BY <1>2 DEF LoopCheck
<1>3. CASE PollReturn
  BY <1>3 DEF PollReturn, PollResult
<1>4. CASE HandleRead
  BY <1>4 DEF HandleRead
<1>5. ASSUME NEW c \in Channels, HandleEvent(c) PROVE LoopTypeOK'
  BY <1>5 DEF HandleEvent
<1>6. CASE OwnerReturn
  BY <1>6 DEF OwnerReturn
<1>7. CASE DoPendingFunctors
  BY <1>7 DEF DoPendingFunctors
<1>8. CASE RunFunctor
  BY <1>8 DEF RunFunctor
<1>9. CASE EndPendingFunctors
  BY <1>9 DEF EndPendingFunctors
<1>10. CASE PollTimeout
  BY <1>10 DEF PollTimeout
<1>11. ASSUME NEW c \in Channels, ChannelReady(c) PROVE LoopTypeOK'
  BY <1>11 DEF ChannelReady, ownerVars
<1> QED
  BY <1>1, <1>2, <1>3, <1>4, <1>5, <1>6, <1>7, <1>8, <1>9, <1>10, <1>11
  DEF LoopStep

\* Every variable of the loop stays in its range, for every thread that uses it.
THEOREM LoopTypeCorrect == LoopSpec => []LoopTypeOK
<1>1. LoopInit => LoopTypeOK
  <2> SUFFICES ASSUME LoopInit PROVE LoopTypeOK
    OBVIOUS
  <2>1. <<>> \in Seq(1..MaxTasks)
    OBVIOUS
  <2>2. pending \in Seq(1..MaxTasks) /\ functors \in Seq(1..MaxTasks)
        /\ ran \in Seq(1..MaxTasks)
    BY <2>1 DEF LoopInit
  <2>3. pc \in [Callers -> {"idle", "wakeup"}]
    BY DEF LoopInit
  <2>4. eventfd \in 0..EventfdMax /\ submitted \in 0..MaxTasks
    BY MaxTasksAssumption, EventfdMaxAssumption DEF LoopInit
  <2>5. quit \in BOOLEAN /\ callingPending \in BOOLEAN /\ loopPc \in LoopPcs
    BY DEF LoopInit, LoopPcs
  <2>6. active \subseteq Channels \cup {WakeupFd} /\ ready \subseteq Channels
        /\ early \subseteq 1..MaxTasks
    BY DEF LoopInit
  <2> QED
    BY <2>2, <2>3, <2>4, <2>5, <2>6 DEF LoopTypeOK
<1>2. LoopTypeOK /\ [LoopNext]_loopVars => LoopTypeOK'
  BY TypeStutter, TypeCallers, TypeOwner, TypeLoop DEF LoopNext
<1> QED BY <1>1, <1>2, PTL DEF LoopSpec

-----------------------------------------------------------------------------
(***************************************************************************)
(* NoSleepOverWork is not inductive: the functors the owner has not yet    *)
(* fetched when it decides to poll must already be covered by a wakeup.    *)
(* They are from the moment doPendingFunctors() has emptied the queue      *)
(* until poll() returns; between handleRead() and the next swap they need  *)
(* not be.                                                                 *)
(***************************************************************************)
Uncovered == \E i \in DOMAIN pending : pending[i] \notin early

WakeupInv ==
    /\ callingPending <=> loopPc \in {"drain", "functor"}
    /\ loopPc = "poll" /\ quit => WakeupOnTheWay
    /\ loopPc \notin {"dispatch", "callback", "done"} /\ Uncovered
         => WakeupOnTheWay

\* Appending to the queue uncovers at most the new functor.
LEMMA PushUncovers ==
  ASSUME LoopTypeOK, PushBack
  PROVE  /\ DOMAIN pending' = 1..Len(pending) + 1
         /\ \A i \in DOMAIN pending : pending'[i] = pending[i]
         /\ pending'[Len(pending) + 1] = submitted + 1
         /\ DOMAIN pending = 1..Len(pending)
         /\ Len(pending) \in Nat
BY MaxTasksAssumption DEF LoopTypeOK, PushBack

\* The steps of the Callers: a queued functor or a quit is covered by the
\* Caller's own coming wakeup, and a wakeup leaves the counter positive.
LEMMA WakeupCallers ==
  ASSUME LoopTypeOK, WakeupInv, NEW t \in Callers, CallerStep(t)
  PROVE  WakeupInv'
<1> USE DEF WakeupInv
<1>1. CASE QueueInLoop(t)
  <2>1. pc'[t] = "wakeup"
    BY <1>1 DEF QueueInLoop, LoopTypeOK
  <2>2. WakeupOnTheWay'
    BY <2>1 DEF WakeupOnTheWay
  <2> QED
    BY <1>1, <2>2 DEF QueueInLoop, ownerVars
<1>2. CASE Quit(t)
  <2>1. pc'[t] = "wakeup"
    BY <1>2 DEF Quit, LoopTypeOK
  <2>2. WakeupOnTheWay'
    BY <2>1 DEF WakeupOnTheWay
  <2> QED
    BY <1>2, <2>2 DEF Quit, ownerVars
<1>3. CASE Wakeup(t)
  <2>1. eventfd' > 0
    BY <1>3, EventfdMaxAssumption DEF Wakeup, Woken, LoopTypeOK
  <2>2. WakeupOnTheWay'
    BY <2>1 DEF WakeupOnTheWay
  <2> QED
    BY <1>3, <2>2 DEF Wakeup, ownerVars
<1> QED BY <1>1, <1>2, <1>3 DEF CallerStep

\* User code on the owner thread: outside a functor its functors are either
\* early ones or fetched before the next poll; inside, it writes a wakeup.
LEMMA WakeupOwner ==
  ASSUME LoopTypeOK, WakeupInv, OwnerQueueInLoop \/ OwnerQuit
  PROVE  WakeupInv'
<1> USE DEF WakeupInv
<1>1. CASE OwnerQueueInLoop
  <2>1. CASE loopPc = "before"
    <3>1. Uncovered' => Uncovered
      BY <1>1, <2>1, PushUncovers DEF OwnerQueueInLoop, Uncovered
    <3>2. WakeupOnTheWay => WakeupOnTheWay'
      BY <1>1, <2>1, EventfdMaxAssumption
      DEF OwnerQueueInLoop, WakeupOnTheWay, Woken, LoopTypeOK
    <3> QED
      BY <1>1, <2>1, <3>1, <3>2 DEF OwnerQueueInLoop, ownerVars
  <2>2. CASE loopPc = "callback"
    BY <1>1, <2>2 DEF OwnerQueueInLoop, ownerVars
  <2>3. CASE loopPc = "functor"
    <3>1. eventfd' > 0
      BY <1>1, <2>3, EventfdMaxAssumption DEF OwnerQueueInLoop, Woken, LoopTypeOK
    <3>2. WakeupOnTheWay'
      BY <3>1 DEF WakeupOnTheWay
    <3> QED
      BY <1>1, <2>3, <3>2 DEF OwnerQueueInLoop, ownerVars
  <2> QED
    BY <1>1, <2>1, <2>2, <2>3 DEF OwnerQueueInLoop, InUserCode
<1>2. CASE OwnerQuit
  <2>1. (Uncovered <=> Uncovered') /\ (WakeupOnTheWay <=> WakeupOnTheWay')
    BY <1>2 DEF OwnerQuit, Uncovered, WakeupOnTheWay
  <2> QED
    BY <1>2, <2>1 DEF OwnerQuit, InUserCode, ownerVars
<1> QED BY <1>1, <1>2

\* loop() polls only after it found quit_ false and after it emptied the queue.
LEMMA WakeupLoop ==
  ASSUME LoopTypeOK, WakeupInv,
         LoopStep \/ PollTimeout \/ \E c \in Channels : ChannelReady(c)
  PROVE  WakeupInv'
<1> USE DEF WakeupInv, Uncovered, WakeupOnTheWay
<1>1. CASE LoopStart
  BY <1>1 DEF LoopStart
<1>2. CASE LoopCheck
  BY <1>2 DEF LoopCheck
<1>3. CASE PollReturn
  BY <1>3 DEF PollReturn
<1>4. CASE HandleRead
  BY <1>4 DEF HandleRead
<1>5. ASSUME NEW c \in Channels, HandleEvent(c) PROVE WakeupInv'
  BY <1>5 DEF HandleEvent
<1>6. CASE OwnerReturn
  BY <1>6 DEF OwnerReturn
<1>7. CASE DoPendingFunctors
  BY <1>7 DEF DoPendingFunctors
<1>8. CASE RunFunctor
  BY <1>8 DEF RunFunctor
<1>9. CASE EndPendingFunctors
  BY <1>9 DEF EndPendingFunctors
<1>10. CASE PollTimeout
  BY <1>10 DEF PollTimeout
<1>11. ASSUME NEW c \in Channels, ChannelReady(c) PROVE WakeupInv'
  BY <1>11 DEF ChannelReady, ownerVars
<1> QED
  BY <1>1, <1>2, <1>3, <1>4, <1>5, <1>6, <1>7, <1>8, <1>9, <1>10, <1>11
  DEF LoopStep

\* The owner never blocks in poll() over a functor or a quit request without a
\* wakeup written or about to be written, whatever the number of threads.
THEOREM NoSleepOverWorkHolds == LoopSpec => []NoSleepOverWork
<1>1. LoopInit => WakeupInv
  BY DEF LoopInit, WakeupInv, Uncovered
<1>2. LoopTypeOK /\ WakeupInv /\ [LoopNext]_loopVars => WakeupInv'
  <2> SUFFICES ASSUME LoopTypeOK, WakeupInv, [LoopNext]_loopVars PROVE WakeupInv'
    OBVIOUS
  <2>1. CASE UNCHANGED loopVars
    BY <2>1 DEF loopVars, WakeupInv, Uncovered, WakeupOnTheWay
  <2> QED
    BY <2>1, WakeupCallers, WakeupOwner, WakeupLoop DEF LoopNext
<1>3. WakeupInv => NoSleepOverWork
  BY DEF WakeupInv, NoSleepOverWork, Uncovered
<1> QED BY <1>1, <1>2, <1>3, LoopTypeCorrect, PTL DEF LoopSpec

-----------------------------------------------------------------------------
(* QueueOrder is inductive as it stands, given the types.                  *)

\* What the sequence operators of the three actions that move functors yield.
LEMMA AppendFacts ==
  ASSUME NEW S, NEW s \in Seq(S), NEW e
  PROVE  /\ Len(Append(s, e)) = Len(s) + 1
         /\ DOMAIN Append(s, e) = 1..Len(s) + 1
         /\ \A i \in 1..Len(s) : Append(s, e)[i] = s[i]
         /\ Append(s, e)[Len(s) + 1] = e
         /\ DOMAIN s = 1..Len(s)
         /\ Len(s) \in Nat
OBVIOUS

LEMMA TailFacts ==
  ASSUME NEW S, NEW s \in Seq(S), s # <<>>
  PROVE  /\ Len(Tail(s)) = Len(s) - 1
         /\ DOMAIN Tail(s) = 1..Len(s) - 1
         /\ \A i \in 1..Len(s) - 1 : Tail(s)[i] = s[i + 1]
         /\ Head(s) = s[1]
         /\ DOMAIN s = 1..Len(s)
         /\ Len(s) \in Nat /\ Len(s) > 0
OBVIOUS

\* push_back() puts the next functor behind all others.
LEMMA OrderPush ==
  ASSUME LoopTypeOK, QueueOrder, PushBack, UNCHANGED <<functors, ran>>
  PROVE  QueueOrder'
<1>1. /\ Len(pending') = Len(pending) + 1
      /\ DOMAIN pending' = 1..Len(pending) + 1
      /\ \A i \in 1..Len(pending) : pending'[i] = pending[i]
      /\ pending'[Len(pending) + 1] = submitted + 1
      /\ DOMAIN pending = 1..Len(pending)
      /\ Len(pending) \in Nat
  BY AppendFacts DEF PushBack, LoopTypeOK
<1>2. Len(ran) \in Nat /\ Len(functors) \in Nat
  BY DEF LoopTypeOK
<1> QED
  BY <1>1, <1>2 DEF QueueOrder, PushBack

\* The swap hands the whole queue, in order, to an empty vector.
LEMMA OrderSwap ==
  ASSUME LoopTypeOK, QueueOrder, functors = <<>>, DoPendingFunctors
  PROVE  QueueOrder'
<1>1. Len(functors) = 0 /\ Len(<<>>) = 0 /\ DOMAIN <<>> = {}
  OBVIOUS
<1>2. Len(ran) \in Nat /\ Len(pending) \in Nat /\ DOMAIN pending = 1..Len(pending)
  BY DEF LoopTypeOK
<1>3. ran' = ran /\ functors' = pending /\ pending' = <<>> /\ submitted' = submitted
  BY DEF DoPendingFunctors
<1>4. \A i \in DOMAIN pending : pending[i] = Len(ran) + i
  BY <1>1, <1>2 DEF QueueOrder
<1>5. submitted = Len(ran) + Len(pending)
  BY <1>1, <1>2 DEF QueueOrder
<1> QED
  BY <1>1, <1>2, <1>3, <1>4, <1>5 DEF QueueOrder

\* Running the head of the vector appends the next number to the history.
LEMMA OrderRun ==
  ASSUME LoopTypeOK, QueueOrder, RunFunctor
  PROVE  QueueOrder' /\ ran' = Append(ran, Len(ran) + 1) /\ Len(ran) < submitted
<1>1. /\ Len(functors') = Len(functors) - 1
      /\ DOMAIN functors' = 1..Len(functors) - 1
      /\ \A i \in 1..Len(functors) - 1 : functors'[i] = functors[i + 1]
      /\ Head(functors) = functors[1]
      /\ DOMAIN functors = 1..Len(functors)
      /\ Len(functors) \in Nat /\ Len(functors) > 0
  BY TailFacts DEF RunFunctor, LoopTypeOK
<1>2. Head(functors) = Len(ran) + 1
  BY <1>1 DEF QueueOrder
<1>3. ran' = Append(ran, Len(ran) + 1)
  BY <1>2 DEF RunFunctor
<1>4. /\ Len(ran') = Len(ran) + 1
      /\ DOMAIN ran' = 1..Len(ran) + 1
      /\ \A i \in 1..Len(ran) : ran'[i] = ran[i]
      /\ ran'[Len(ran) + 1] = Len(ran) + 1
      /\ DOMAIN ran = 1..Len(ran)
      /\ Len(ran) \in Nat
  BY <1>3, AppendFacts DEF LoopTypeOK
<1>5. pending' = pending /\ submitted' = submitted /\ Len(pending) \in Nat
      /\ DOMAIN pending = 1..Len(pending)
  BY DEF RunFunctor, LoopTypeOK
<1>6. \A i \in DOMAIN functors' : functors'[i] = Len(ran') + i
  <2> SUFFICES ASSUME NEW i \in 1..Len(functors) - 1
               PROVE functors'[i] = Len(ran') + i
    BY <1>1
  <2>1. i + 1 \in 1..Len(functors)
    BY <1>1
  <2>2. functors[i + 1] = Len(ran) + (i + 1)
    BY <1>1, <2>1 DEF QueueOrder
  <2> QED
    BY <1>1, <1>4, <2>2
<1>7. \A i \in DOMAIN pending' : pending'[i] = Len(ran') + Len(functors') + i
  BY <1>1, <1>4, <1>5 DEF QueueOrder
<1>8. \A i \in DOMAIN ran' : ran'[i] = i
  BY <1>4 DEF QueueOrder
<1>9. /\ submitted' = Len(ran') + Len(functors') + Len(pending')
      /\ Len(ran) < submitted
  BY <1>1, <1>4, <1>5 DEF QueueOrder
<1> QED
  BY <1>3, <1>6, <1>7, <1>8, <1>9 DEF QueueOrder

\* doPendingFunctors() is entered with an empty vector.
OrderInv ==
    /\ QueueOrder
    /\ loopPc \in {"dispatch", "check", "poll", "callback", "before"}
         => functors = <<>>

LEMMA OrderStep ==
  ASSUME LoopTypeOK, OrderInv, [LoopNext]_loopVars
  PROVE  OrderInv'
<1> USE DEF OrderInv
<1>1. CASE UNCHANGED loopVars
  BY <1>1 DEF loopVars, QueueOrder
<1>2. ASSUME NEW t \in Callers, CallerStep(t) PROVE OrderInv'
  <2>1. CASE QueueInLoop(t)
    BY <2>1, OrderPush DEF QueueInLoop, ownerVars
  <2>2. CASE Quit(t) \/ Wakeup(t)
    BY <2>2 DEF Quit, Wakeup, ownerVars, QueueOrder
  <2> QED BY <1>2, <2>1, <2>2 DEF CallerStep
<1>3. CASE OwnerQueueInLoop
  BY <1>3, OrderPush DEF OwnerQueueInLoop, ownerVars
<1>4. CASE OwnerQuit \/ \E c \in Channels : ChannelReady(c)
  BY <1>4 DEF OwnerQuit, ChannelReady, ownerVars, QueueOrder
<1>5. CASE DoPendingFunctors
  BY <1>5, OrderSwap DEF DoPendingFunctors
<1>6. CASE RunFunctor
  BY <1>6, OrderRun DEF RunFunctor
<1>7. CASE \/ LoopStart \/ LoopCheck \/ PollReturn \/ PollTimeout \/ HandleRead
           \/ OwnerReturn \/ EndPendingFunctors
  BY <1>7 DEF LoopStart, LoopCheck, PollReturn, PollTimeout, HandleRead,
              OwnerReturn, EndPendingFunctors, QueueOrder
<1>8. ASSUME NEW c \in Channels, HandleEvent(c) PROVE OrderInv'
  BY <1>8 DEF HandleEvent, QueueOrder
<1> QED
  BY <1>1, <1>2, <1>3, <1>4, <1>5, <1>6, <1>7, <1>8 DEF LoopNext, LoopStep

LEMMA OrderInit == LoopInit => OrderInv
<1> SUFFICES ASSUME LoopInit PROVE OrderInv
  OBVIOUS
<1>1. Len(<<>>) = 0 /\ DOMAIN <<>> = {}
  OBVIOUS
<1> QED
  BY <1>1 DEF LoopInit, OrderInv, QueueOrder

LEMMA OrderInvariant == LoopSpec => [](LoopTypeOK /\ OrderInv)
  BY OrderInit, OrderStep, LoopTypeCorrect, PTL DEF LoopSpec

\* However many threads queue functors, none is lost, doubled or reordered.
THEOREM QueueOrderHolds == LoopSpec => []QueueOrder
<1>1. OrderInv => QueueOrder
  BY DEF OrderInv
<1> QED BY <1>1, OrderInvariant, PTL

-----------------------------------------------------------------------------
(* The refinement: every step is a step of TaskQueue or leaves it alone.   *)

LEMMA RefinementInit == LoopInit => Queue!Init
  BY DEF LoopInit, Queue!Init

LEMMA RefinementStep ==
  ASSUME LoopTypeOK, OrderInv, [LoopNext]_loopVars
  PROVE  [Queue!Next]_(Queue!tqVars)
<1> USE DEF Queue!Next, Queue!tqVars
<1>1. CASE UNCHANGED loopVars
  BY <1>1 DEF loopVars
<1>2. ASSUME NEW t \in Callers, CallerStep(t)
      PROVE [Queue!Next]_(Queue!tqVars)
  BY <1>2 DEF CallerStep, QueueInLoop, Quit, Wakeup, PushBack, ownerVars,
              Queue!Submit
<1>3. CASE OwnerQueueInLoop
  BY <1>3 DEF OwnerQueueInLoop, PushBack, ownerVars, Queue!Submit
<1>4. CASE OwnerQuit \/ \E c \in Channels : ChannelReady(c)
  BY <1>4 DEF OwnerQuit, ChannelReady, ownerVars
<1>5. CASE RunFunctor
  BY <1>5, OrderRun DEF RunFunctor, Queue!Execute, OrderInv
<1>6. CASE LoopCheck
  BY <1>6 DEF LoopCheck, Queue!Stop
<1>7. CASE \/ LoopStart \/ PollReturn \/ PollTimeout \/ HandleRead
           \/ OwnerReturn \/ DoPendingFunctors \/ EndPendingFunctors
  BY <1>7 DEF LoopStart, PollReturn, PollTimeout, HandleRead, OwnerReturn,
              DoPendingFunctors, EndPendingFunctors
<1>8. ASSUME NEW c \in Channels, HandleEvent(c)
      PROVE [Queue!Next]_(Queue!tqVars)
  BY <1>8 DEF HandleEvent
<1> QED
  BY <1>1, <1>2, <1>3, <1>4, <1>5, <1>6, <1>7, <1>8 DEF LoopNext, LoopStep

\* The loop with its mutex, swap, eventfd and poll is a TaskQueue.
THEOREM EventLoopRefinesTaskQueue == LoopSpec => ImplementsTaskQueue
<1>1. LoopTypeOK /\ OrderInv /\ [LoopNext]_loopVars => [Queue!Next]_(Queue!tqVars)
  BY RefinementStep
<1> QED
  BY <1>1, RefinementInit, OrderInvariant, PTL
  DEF LoopSpec, ImplementsTaskQueue, Queue!Spec

-----------------------------------------------------------------------------
(* AsyncLogging.                                                           *)

LEMMA EmptyIsBuffer == EmptyBuffer \in Buffer
<1>1. <<>> \in Seq(1..MaxLines)
  OBVIOUS
<1>2. 0 \in 0..BufferSize
  BY LengthsAssumption
<1> QED BY <1>1, <1>2 DEF EmptyBuffer, Buffer

\* A buffer with one more line in it is still a buffer.
LEMMA FilledIsBuffer ==
  ASSUME NEW b \in Buffer, NEW line \in 1..MaxLines, NEW len \in Lengths
  PROVE  Filled(b, line, len) \in Buffer
<1>1. len \in Nat /\ BufferSize \in Nat
  BY LengthsAssumption
<1>2. Append(b.lines, line) \in Seq(1..MaxLines)
  BY DEF Buffer
<1>3. CASE BufferSize - b.used > len
  <2>1. b.used + len \in 0..BufferSize
    BY <1>1, <1>3 DEF Buffer
  <2> QED
    BY <1>2, <1>3, <2>1 DEF Filled, Buffer
<1>4. CASE ~(BufferSize - b.used > len)
  BY <1>4 DEF Filled
<1> QED BY <1>3, <1>4

(***************************************************************************)
(* The asserts depend on where the four buffers are.  Whenever the front   *)
(* end has used up nextBuffer_, some filled buffer waits in buffers_: so   *)
(* the backend, which must then part with both its spare buffers, swaps    *)
(* out at least two, enough to replace them.                               *)
(***************************************************************************)
InRound == bpc \in {"loop", "lock", "waiting", "awake"}

SpareInv ==
    /\ cpc = "stopped" => bpc = "none"
    /\ next = NoBuffer => buffers # <<>>
    /\ newBuffer2 \in {EmptyBuffer, NoBuffer}
    /\ InRound => newBuffer1 = EmptyBuffer /\ newBuffer2 = EmptyBuffer
    /\ InRound \/ bpc \in {"none", "begin", "exit", "aborted"} => toWrite = <<>>
    /\ bpc \in {"write", "recycle"} =>
         /\ newBuffer1 = NoBuffer
         /\ toWrite # <<>>
         /\ newBuffer2 = NoBuffer => Len(toWrite) >= 2

IInv == TypeOK /\ SpareInv

LEMMA InitIInv == Init => IInv
<1> SUFFICES ASSUME Init PROVE IInv
  OBVIOUS
<1>1. <<>> \in Seq(Buffer)
  OBVIOUS
<1>2. current \in Buffer /\ next \in Buffer /\ newBuffer1 = NoBuffer
      /\ newBuffer2 = NoBuffer
  BY EmptyIsBuffer DEF Init
<1>3. buffers \in Seq(Buffer) /\ toWrite \in Seq(Buffer)
  BY <1>1 DEF Init
<1>4. appended \in 0..MaxLines /\ starts \in 0..MaxStarts
      /\ beforeStop \in 0..MaxLines
  BY BoundsAssumption DEF Init
<1>a. running \in BOOLEAN
  BY DEF Init
<1>b. latch \in Int
  BY DEF Init
<1>c. /\ bpc \in BackendPcs
      /\ cpc \in {"stopped", "starting", "started", "stopping", "joining"}
  BY DEF Init, BackendPcs
<1>5. TypeOK
  BY <1>2, <1>3, <1>4, <1>a, <1>b, <1>c DEF TypeOK
<1>6. next # NoBuffer
  BY <1>2, NoBufferAssumption
<1>7. SpareInv
  BY <1>6 DEF Init, SpareInv, InRound
<1> QED BY <1>5, <1>7 DEF IInv

\* append() gives nextBuffer_ away only when it fills buffers_.
LEMMA AppendIInv ==
  ASSUME IInv, NEW len \in Lengths, AppendFits(len) \/ AppendSwitches(len)
  PROVE  IInv'
<1> USE DEF IInv
<1>0. appended + 1 \in 1..MaxLines
  BY BoundsAssumption DEF TypeOK, AppendFits, AppendSwitches
<1>1. CASE AppendFits(len)
  <2>1. current' \in Buffer
    BY <1>0, <1>1, FilledIsBuffer DEF AppendFits, TypeOK
  <2>2. TypeOK'
    BY <1>0, <1>1, <2>1 DEF AppendFits, TypeOK, backVars, ctlVars
  <2>3. SpareInv'
    BY <1>1 DEF AppendFits, SpareInv, InRound, backVars, ctlVars
  <2> QED BY <2>2, <2>3
<1>2. CASE AppendSwitches(len)
  <2>1. (IF next # NoBuffer THEN next ELSE EmptyBuffer) \in Buffer
    BY EmptyIsBuffer DEF TypeOK
  <2>2. current' \in Buffer
    BY <1>0, <1>2, <2>1, FilledIsBuffer DEF AppendSwitches
  <2>3. buffers' \in Seq(Buffer) /\ buffers' # <<>>
    BY <1>2 DEF AppendSwitches, TypeOK
  <2>4. bpc' \in BackendPcs
    BY <1>2 DEF AppendSwitches, Notified, TypeOK, BackendPcs
  <2>5. TypeOK'
    BY <1>0, <1>2, <2>2, <2>3, <2>4
    DEF AppendSwitches, TypeOK, backVars, ctlVars
  <2>6. SpareInv'
    BY <1>2, <2>3 DEF AppendSwitches, Notified, SpareInv, InRound, backVars, ctlVars
  <2> QED BY <2>5, <2>6
<1> QED BY <1>1, <1>2

\* start() and stop() move no buffer; join finds the thread's vector empty.
LEMMA ControlIInv == IInv /\ Control => IInv'
<1> SUFFICES ASSUME IInv, Control PROVE IInv'
  OBVIOUS
<1> USE DEF IInv, TypeOK, SpareInv, InRound, BackendPcs, frontVars, backVars
<1>1. CASE Start
  BY <1>1, BoundsAssumption DEF Start
<1>2. CASE LatchWait
  BY <1>2 DEF LatchWait
<1>3. CASE Stop
  BY <1>3 DEF Stop
<1>4. CASE StopNotify
  BY <1>4 DEF StopNotify, Notified
<1>5. CASE Join
  BY <1>5 DEF Join
<1> QED BY <1>1, <1>2, <1>3, <1>4, <1>5 DEF Control

\* The swap takes one buffer more than there were filled ones.
LEMMA SwapIInv == IInv /\ Swap => IInv'
<1> SUFFICES ASSUME IInv, Swap PROVE IInv'
  OBVIOUS
<1> USE DEF IInv
<1>1. newBuffer1 = EmptyBuffer /\ newBuffer2 = EmptyBuffer
  BY DEF Swap, SpareInv, InRound
<1>2. /\ toWrite' \in Seq(Buffer)
      /\ Len(toWrite') = Len(buffers) + 1
      /\ toWrite' # <<>>
  BY DEF Swap, TypeOK
<1>3. next = NoBuffer => Len(buffers) >= 1
  BY DEF SpareInv, TypeOK
<1>4. <<>> \in Seq(Buffer)
  OBVIOUS
<1>5. EmptyBuffer # NoBuffer
  BY EmptyIsBuffer, NoBufferAssumption
<1>6. next' # NoBuffer
  BY <1>1, <1>5 DEF Swap
<1>7. TypeOK'
  BY <1>1, <1>2, <1>4, EmptyIsBuffer
  DEF Swap, TypeOK, ctlVars, BackendPcs
<1>8. newBuffer2' = NoBuffer => Len(toWrite') >= 2
  <2>1. newBuffer2' = NoBuffer => next = NoBuffer
    BY <1>1, <1>5 DEF Swap
  <2>2. Len(buffers) \in Nat
    BY DEF TypeOK
  <2> QED BY <1>2, <1>3, <2>1, <2>2
<1>9. SpareInv'
  BY <1>1, <1>2, <1>6, <1>8 DEF Swap, SpareInv, InRound, ctlVars
<1> QED BY <1>7, <1>9

\* Dropping the backlog leaves two buffers, so the spare ones can be replaced.
LEMMA WriteIInv == IInv /\ Write => IInv'
<1> SUFFICES ASSUME IInv, Write PROVE IInv'
  OBVIOUS
<1> USE DEF IInv
<1>1. /\ toWrite \in Seq(Buffer) /\ Len(toWrite) \in Nat
      /\ toWrite # <<>>
  BY DEF TypeOK, Write, SpareInv
<1>2. CASE Len(toWrite) > MaxBacklog
  <2>1. Len(toWrite) >= 2
    BY <1>1, <1>2, MaxBacklogAssumption
  <2>2. SubSeq(toWrite, 1, 2) \in Seq(Buffer) /\ Len(SubSeq(toWrite, 1, 2)) = 2
    BY <1>1, <2>1
  <2>3. toWrite' \in Seq(Buffer) /\ Len(toWrite') = 2
    BY <1>2, <2>2 DEF Write, Kept
  <2>4. toWrite' # <<>>
    BY <2>3
  <2>5. TypeOK'
    BY <2>3 DEF Write, TypeOK, frontVars, ctlVars, BackendPcs
  <2>6. SpareInv'
    BY <2>3, <2>4 DEF Write, SpareInv, InRound, frontVars, ctlVars
  <2> QED BY <2>5, <2>6
<1>3. CASE ~(Len(toWrite) > MaxBacklog)
  <2>1. toWrite' = toWrite
    BY <1>3 DEF Write, Kept
  <2>2. TypeOK'
    BY <2>1 DEF Write, TypeOK, frontVars, ctlVars, BackendPcs
  <2>3. SpareInv'
    BY <2>1 DEF Write, SpareInv, InRound, frontVars, ctlVars
  <2> QED BY <2>2, <2>3
<1> QED BY <1>2, <1>3

LEMMA BackendIInv == IInv /\ Backend => IInv'
<1> SUFFICES ASSUME IInv, Backend PROVE IInv'
  OBVIOUS
<1>0. <<>> \in Seq(Buffer)
  OBVIOUS
<1> USE DEF IInv, frontVars, backVars, ctlVars
<1>1. CASE ThreadBegin
  <2>1. TypeOK'
    BY <1>1, EmptyIsBuffer DEF ThreadBegin, TypeOK, BackendPcs
  <2>2. SpareInv'
    BY <1>1 DEF ThreadBegin, SpareInv, InRound
  <2> QED BY <2>1, <2>2
<1>2. CASE ThreadBeginAborts \/ ThreadLoop \/ Wait \/ WaitTimeout
  <2>1. TypeOK'
    BY <1>2 DEF ThreadBeginAborts, ThreadLoop, Wait, WaitTimeout, TypeOK,
                BackendPcs
  <2>2. SpareInv'
    BY <1>2 DEF ThreadBeginAborts, ThreadLoop, Wait, WaitTimeout, SpareInv,
                InRound
  <2> QED BY <2>1, <2>2
<1>3. CASE Recycle
  <2>1. TypeOK'
    BY <1>0, <1>3, EmptyIsBuffer DEF Recycle, TypeOK, BackendPcs
  <2>2. SpareInv'
    BY <1>3 DEF Recycle, SpareInv, InRound
  <2> QED BY <2>1, <2>2
<1> QED
  BY <1>1, <1>2, <1>3, SwapIInv, WriteIInv DEF Backend

LEMMA Invariance == Spec => []IInv
<1>1. IInv /\ [Next]_vars => IInv'
  <2> SUFFICES ASSUME IInv, [Next]_vars PROVE IInv'
    OBVIOUS
  <2>1. CASE UNCHANGED vars
    BY <2>1 DEF IInv, TypeOK, SpareInv, InRound, vars, frontVars, backVars,
                ctlVars
  <2> QED BY <2>1, AppendIInv, ControlIInv, BackendIInv DEF Next
<1> QED BY <1>1, InitIInv, PTL DEF Spec

\* Every variable of the logger stays in its range.
THEOREM TypeCorrect == Spec => []TypeOK
<1>1. IInv => TypeOK
  BY DEF IInv
<1> QED BY <1>1, Invariance, PTL

\* The asserts on the backend's buffers hold in every round, whatever the
\* front end appends in the meantime and however large the backlog was.
THEOREM AssertsNeverFail == Spec => []AssertsHold
<1>1. IInv => AssertsHold
  <2> SUFFICES ASSUME IInv PROVE AssertsHold
    OBVIOUS
  <2>1. toWrite # <<>> => Len(toWrite) >= 1
    BY DEF IInv, TypeOK
  <2> QED BY <2>1 DEF IInv, SpareInv, InRound, AssertsHold
<1> QED BY <1>1, Invariance, PTL

\* No filled buffer waits for the flush interval while the backend waits for
\* notEmpty: append() notifies whenever it fills one, and the test of buffers_
\* and wait_for() are under the one mutex (append(), threadFunc()).
THEOREM NoBufferUnnoticed == Spec => []FullBuffersNoticed
<1> USE DEF FullBuffersNoticed, frontVars, backVars, ctlVars
<1>1. Init => FullBuffersNoticed
  BY DEF Init
<1>2. FullBuffersNoticed /\ [Next]_vars => FullBuffersNoticed'
  <2> SUFFICES ASSUME FullBuffersNoticed, [Next]_vars PROVE FullBuffersNoticed'
    OBVIOUS
  <2>1. ASSUME NEW len \in Lengths, AppendFits(len) \/ AppendSwitches(len)
        PROVE  FullBuffersNoticed'
    BY <2>1 DEF AppendFits, AppendSwitches, Notified
  <2>2. CASE Control
    BY <2>2 DEF Control, Start, LatchWait, Stop, StopNotify, Join, Notified
  <2>3. CASE Wait
    BY <2>3 DEF Wait
  <2>4. CASE Backend /\ ~Wait
    BY <2>4 DEF Backend, ThreadBegin, ThreadBeginAborts, ThreadLoop, WaitTimeout,
                Swap, Write, Recycle
  <2>5. CASE UNCHANGED vars
    BY <2>5 DEF vars
  <2> QED BY <2>1, <2>2, <2>3, <2>4, <2>5 DEF Next
<1> QED BY <1>1, <1>2, PTL DEF Spec

-----------------------------------------------------------------------------
(* FlattenSeq, by the function it is defined with.                         *)

\* A set of numbers has a smallest one: in the place of an induction, the first
\* index at which something fails.
LEMMA Smallest ==
  ASSUME NEW T, T \subseteq Nat, T # {}
  PROVE  \E x \in T : \A y \in T : x <= y
<1> DEFINE R == OpToRel(<, Nat)
<1>1. IsWellFoundedOn(R, Nat)
  BY NatLessThanWellFounded
<1>2. \A x, y \in Nat : <<y, x>> \in R <=> y < x
  BY DEF OpToRel
<1> HIDE DEF R
<1>3. PICK x \in T : \A y \in T : ~ (<<y, x>> \in R)
  BY <1>1, WFMin
<1>4. ASSUME NEW y \in T
      PROVE  x <= y
  <2>1. x \in Nat /\ y \in Nat
    OBVIOUS
  <2>2. ~(y < x)
    BY <1>2, <1>3, <2>1
  <2> QED BY <2>1, <2>2
<1> QED BY <1>4

\* The function by which FlattenSeq is defined.
Flattens(f, s, n) == f = [i \in 1..n |-> IF i = 1 THEN s[i] ELSE f[i - 1] \o s[i]]

\* There is one, as there is one for the first line and with each one for the next.
LEMMA FlattenExists ==
  ASSUME NEW s, NEW n \in Nat \ {0}
  PROVE  \E f : Flattens(f, s, n)
<1> DEFINE Bad == {m \in Nat \ {0} : ~\E f : Flattens(f, s, m)}
<1>1. ASSUME Bad # {} PROVE FALSE
  <2>1. PICK m \in Bad : \A k \in Bad : m <= k
    <3>1. Bad \subseteq Nat
      OBVIOUS
    <3> HIDE DEF Bad
    <3> QED BY <1>1, <3>1, Smallest
  <2>2. m \in Nat \ {0} /\ ~\E f : Flattens(f, s, m)
    BY <2>1
  <2>3. CASE m = 1
    <3>1. Flattens([i \in 1..1 |-> s[i]], s, 1)
      BY DEF Flattens
    <3> QED BY <2>2, <2>3, <3>1
  <2>4. CASE m # 1
    <3>1. m - 1 \in Nat \ {0} /\ m - 1 \notin Bad
      BY <2>1, <2>2, <2>4
    <3>2. PICK f : Flattens(f, s, m - 1)
      BY <3>1
    <3> DEFINE g == [i \in 1..m |-> IF i = m THEN f[m - 1] \o s[m] ELSE f[i]]
    <3>3. Flattens(g, s, m)
      <4>1. \A i \in 1..(m - 1) : f[i] = IF i = 1 THEN s[i] ELSE f[i - 1] \o s[i]
        BY <3>2 DEF Flattens
      <4>2. \A i \in 1..m : g[i] = IF i = 1 THEN s[i] ELSE g[i - 1] \o s[i]
        <5> SUFFICES ASSUME NEW i \in 1..m
                     PROVE  g[i] = IF i = 1 THEN s[i] ELSE g[i - 1] \o s[i]
          OBVIOUS
        <5>1. CASE i = m
          <6>1. m - 1 \in 1..m /\ m - 1 # m /\ i # 1
            BY <2>2, <2>4, <5>1
          <6> QED BY <5>1, <6>1
        <5>2. CASE i # m
          <6>1. i \in 1..(m - 1) /\ (i # 1 => i - 1 \in 1..m /\ i - 1 # m)
            BY <2>2, <5>2
          <6> QED BY <4>1, <5>2, <6>1
        <5> QED BY <5>1, <5>2
      <4> QED BY <4>2 DEF Flattens
    <3> QED BY <2>2, <3>3
  <2> QED BY <2>3, <2>4
<1>2. n \notin Bad
  BY <1>1
<1> QED BY <1>2

\* FlattenSeq gives its last value.
LEMMA FlattenFunction ==
  ASSUME NEW S, NEW s \in Seq(S), s # <<>>
  PROVE  \E f : Flattens(f, s, Len(s)) /\ FlattenSeq(s) = f[Len(s)]
<1>1. Len(s) \in Nat \ {0}
  BY EmptySeq, LenProperties
<1>2. \E f : Flattens(f, s, Len(s))
  BY <1>1, FlattenExists
<1> DEFINE f == CHOOSE f : Flattens(f, s, Len(s))
<1>3. Flattens(f, s, Len(s))
  BY <1>2
<1>4. FlattenSeq(s) = f[Len(s)]
  BY <1>1, Zenon DEF FlattenSeq, Flattens
<1> QED BY <1>3, <1>4
\* The first k elements are the same.
SameUpTo(f, g, k) == \A i \in 1..k : f[i] = g[i]

\* Such functions agree as long as the sequences do.
LEMMA FlattensAgree ==
  ASSUME NEW f, NEW g, NEW s, NEW t, NEW m \in Nat, NEW n \in Nat, NEW k \in Nat,
         k <= m, k <= n, Flattens(f, s, m), Flattens(g, t, n),
         SameUpTo(s, t, k)
  PROVE  SameUpTo(f, g, k)
<1>1. /\ \A i \in 1..k : f[i] = IF i = 1 THEN s[i] ELSE f[i - 1] \o s[i]
      /\ \A i \in 1..k : g[i] = IF i = 1 THEN s[i] ELSE g[i - 1] \o s[i]
  <2>1. /\ \A i \in 1..m : f[i] = IF i = 1 THEN s[i] ELSE f[i - 1] \o s[i]
        /\ \A i \in 1..n : g[i] = IF i = 1 THEN t[i] ELSE g[i - 1] \o t[i]
    BY DEF Flattens
  <2>2. \A i \in 1..k : i \in 1..m /\ i \in 1..n
    OBVIOUS
  <2> QED BY <2>1, <2>2 DEF SameUpTo
<1> DEFINE Bad == {i \in 1..k : f[i] # g[i]}
<1>2. ASSUME Bad # {} PROVE FALSE
  <2>1. PICK i \in Bad : \A j \in Bad : i <= j
    <3>1. Bad \subseteq Nat
      OBVIOUS
    <3> HIDE DEF Bad
    <3> QED BY <1>2, <3>1, Smallest
  <2>2. i \in 1..k /\ f[i] # g[i]
    BY <2>1
  <2>3. CASE i = 1
    BY <1>1, <2>2, <2>3
  <2>4. CASE i # 1
    <3>1. i - 1 \in 1..k /\ ~(i <= i - 1)
      BY <2>2, <2>4
    <3>2. f[i - 1] = g[i - 1]
      BY <2>1, <3>1
    <3> QED BY <1>1, <2>2, <2>4, <3>2
  <2> QED BY <2>3, <2>4
<1> QED BY <1>2 DEF SameUpTo

\* Concatenation is associative.
Associative(a, b, c) == (a \o b) \o c = a \o (b \o c)

LEMMA Concat3 ==
  ASSUME NEW S, NEW a \in Seq(S), NEW b \in Seq(S), NEW c \in Seq(S)
  PROVE  Associative(a, b, c)
BY DEF Associative

\* The sequence x of elements of S begins with y.
BeginsWith(x, y, S) == \E r \in Seq(S) : x = y \o r

\* All of what such a function gives begins with what it gave before.
LEMMA FlattensGrow ==
  ASSUME NEW S, NEW s \in Seq(Seq(S)), NEW f, Flattens(f, s, Len(s)), NEW k \in 1..Len(s)
  PROVE  /\ f[k] \in Seq(S)
         /\ BeginsWith(f[Len(s)], f[k], S)
<1>1. /\ Len(s) \in Nat /\ \A i \in 1..Len(s) : s[i] \in Seq(S)
      /\ \A i \in 1..Len(s) : f[i] = IF i = 1 THEN s[i] ELSE f[i - 1] \o s[i]
  <2>1. Len(s) \in Nat
    BY LenProperties
  <2>2. \A i \in 1..Len(s) : s[i] \in Seq(S)
    BY ElementOfSeq
  <2>3. \A i \in 1..Len(s) : f[i] = IF i = 1 THEN s[i] ELSE f[i - 1] \o s[i]
    BY DEF Flattens
  <2> QED BY <2>1, <2>2, <2>3
<1> DEFINE Bad == {i \in 1..Len(s) : f[i] \notin Seq(S)}
<1>2. ASSUME Bad # {} PROVE FALSE
  <2>1. PICK i \in Bad : \A j \in Bad : i <= j
    <3>1. Bad \subseteq Nat
      OBVIOUS
    <3> HIDE DEF Bad
    <3> QED BY <1>2, <3>1, Smallest
  <2>2. i \in 1..Len(s) /\ f[i] \notin Seq(S)
    BY <2>1
  <2>3. i # 1
    BY <1>1, <2>2
  <2>4. i - 1 \in 1..Len(s) /\ ~(i <= i - 1)
    BY <1>1, <2>2, <2>3
  <2>5. f[i - 1] \in Seq(S) /\ s[i] \in Seq(S)
    BY <1>1, <2>1, <2>2, <2>4
  <2>6. f[i - 1] \o s[i] \in Seq(S)
    BY <2>5, ConcatProperties
  <2> QED BY <1>1, <2>2, <2>3, <2>6
<1>3. \A i \in 1..Len(s) : f[i] \in Seq(S)
  BY <1>2
<1> HIDE DEF Bad
<1> DEFINE Worse == {i \in k..Len(s) : ~\E r \in Seq(S) : f[i] = f[k] \o r}
<1>4. ASSUME Worse # {} PROVE FALSE
  <2>1. PICK i \in Worse : \A j \in Worse : i <= j
    <3>1. Worse \subseteq Nat
      OBVIOUS
    <3> HIDE DEF Worse
    <3> QED BY <1>4, <3>1, Smallest
  <2>2. i \in k..Len(s) /\ ~\E r \in Seq(S) : f[i] = f[k] \o r
    BY <2>1
  <2>3. CASE i = k
    <3>1. f[k] \o <<>> = f[k] /\ <<>> \in Seq(S)
      BY <1>3, ConcatEmptySeq
    <3> QED BY <2>2, <2>3, <3>1
  <2>4. CASE i # k
    <3>0. i - 1 \in k..Len(s) /\ ~(i <= i - 1) /\ i \in 1..Len(s) /\ i # 1
      BY <1>1, <2>2, <2>4
    <3>1. i - 1 \in k..Len(s) /\ i - 1 \notin Worse /\ i \in 1..Len(s) /\ i # 1
      BY <2>1, <3>0
    <3>2. PICK r \in Seq(S) : f[i - 1] = f[k] \o r
      BY <3>1
    <3>3. f[k] \in Seq(S) /\ s[i] \in Seq(S) /\ r \in Seq(S)
      BY <1>1, <1>3, <3>1
    <3>4. (f[k] \o r) \o s[i] = f[k] \o (r \o s[i])
      <4> DEFINE a == f[k]
                 c == s[i]
      <4>1. a \in Seq(S) /\ c \in Seq(S) /\ r \in Seq(S)
        BY <3>3
      <4> HIDE DEF a, c
      <4>2. Associative(a, r, c)
        BY <4>1, Concat3
      <4> QED BY <4>2, Zenon DEF a, c, Associative
    <3>5. f[i] = f[k] \o (r \o s[i]) /\ r \o s[i] \in Seq(S)
      BY <1>1, <3>1, <3>2, <3>3, <3>4, ConcatProperties
    <3> QED BY <2>2, <3>5
  <2> QED BY <2>3, <2>4
<1>5. Len(s) \in k..Len(s)
  BY <1>1
<1>6. BeginsWith(f[Len(s)], f[k], S)
  BY <1>4, <1>5 DEF BeginsWith
<1> QED BY <1>3, <1>6

\* No sequences to join.
LEMMA FlattenEmpty == FlattenSeq(<<>>) = <<>>
BY EmptySeq DEF FlattenSeq

\* One sequence more comes behind the others.
LEMMA FlattenAppend ==
  ASSUME NEW S, NEW s \in Seq(Seq(S)), NEW x \in Seq(S)
  PROVE  /\ FlattenSeq(s) \in Seq(S)
         /\ FlattenSeq(Append(s, x)) = FlattenSeq(s) \o x
<1> DEFINE t == Append(s, x)
<1>1. /\ Len(s) \in Nat /\ t \in Seq(Seq(S)) /\ Len(t) = Len(s) + 1 /\ t # <<>>
      /\ t[Len(t)] = x /\ \A i \in 1..Len(s) : s[i] = t[i]
  BY AppendProperties, LenProperties, EmptySeq
<1> HIDE DEF t
<1>2. PICK g : Flattens(g, t, Len(t)) /\ FlattenSeq(t) = g[Len(t)]
  BY <1>1, FlattenFunction
<1>3. \A i \in 1..Len(t) : g[i] = IF i = 1 THEN t[i] ELSE g[i - 1] \o t[i]
  BY <1>2 DEF Flattens
<1>4. CASE s = <<>>
  <2>1. Len(t) = 1 /\ FlattenSeq(s) = <<>> /\ <<>> \in Seq(S)
    BY <1>1, <1>4, FlattenEmpty, EmptySeq
  <2>2. FlattenSeq(t) = x
    <3>1. 1 \in 1..Len(t) /\ t[1] = x
      BY <1>1, <2>1
    <3> QED BY <1>2, <1>3, <2>1, <3>1
  <2>3. <<>> \o x = x
    BY ConcatEmptySeq
  <2> QED BY <2>1, <2>2, <2>3 DEF t
<1>5. CASE s # <<>>
  <2>1. PICK f : Flattens(f, s, Len(s)) /\ FlattenSeq(s) = f[Len(s)]
    BY <1>5, FlattenFunction
  <2>2. Len(s) \in 1..Len(s) /\ Len(t) \in 1..Len(t) /\ Len(t) # 1 /\ Len(t) - 1 = Len(s)
    <3>1. Len(s) # 0
      BY <1>5, EmptySeq
    <3> QED BY <1>1, <3>1
  <2>3. f[Len(s)] = g[Len(s)]
    <3>1. Len(s) \in Nat /\ Len(t) \in Nat /\ Len(s) <= Len(s) /\ Len(s) <= Len(t)
      BY <1>1
    <3> DEFINE m == Len(s)
               n == Len(t)
    <3>2. /\ Flattens(f, s, m) /\ Flattens(g, t, n) /\ m \in Nat /\ n \in Nat
          /\ m <= m /\ m <= n /\ SameUpTo(s, t, m)
      BY <1>1, <1>2, <2>1, <3>1 DEF SameUpTo
    <3> HIDE DEF m, n
    <3>3. SameUpTo(f, g, m)
      BY <3>2, FlattensAgree
    <3>4. \A i \in 1..Len(s) : f[i] = g[i]
      BY <3>3 DEF m, SameUpTo
    <3> QED BY <2>2, <3>4
  <2>4. f[Len(s)] \in Seq(S)
    BY <2>1, <2>2, FlattensGrow
  <2>5. g[Len(t)] = g[Len(s)] \o x
    BY <1>1, <1>3, <2>2
  <2> QED BY <1>2, <2>1, <2>3, <2>4, <2>5 DEF t
<1> QED BY <1>4, <1>5

\* The first k of them make the beginning of the whole.
LEMMA FlattenPrefix ==
  ASSUME NEW S, NEW s \in Seq(Seq(S)), NEW k \in 1..Len(s)
  PROVE  /\ FlattenSeq(SubSeq(s, 1, k)) \in Seq(S)
         /\ BeginsWith(FlattenSeq(s), FlattenSeq(SubSeq(s, 1, k)), S)
<1> DEFINE t == SubSeq(s, 1, k)
<1>1. /\ Len(s) \in Nat /\ t \in Seq(Seq(S)) /\ Len(t) = k
      /\ \A i \in 1..k : t[i] = s[i]
  <2>1. Len(s) \in Nat /\ \A i \in 1..k : s[i] \in Seq(S)
    BY LenProperties
  <2> QED BY <2>1, SubSeqProperties
<1> HIDE DEF t
<1>2. s # <<>> /\ t # <<>> /\ k \in Nat /\ k <= Len(s) /\ k \in 1..k
  <2>1. Len(s) # 0 /\ Len(t) # 0
    BY <1>1
  <2> QED BY <1>1, <2>1, EmptySeq
<1>3. PICK f : Flattens(f, s, Len(s)) /\ FlattenSeq(s) = f[Len(s)]
  BY <1>2, FlattenFunction
<1>4. PICK g : Flattens(g, t, Len(t)) /\ FlattenSeq(t) = g[Len(t)]
  BY <1>1, <1>2, FlattenFunction
<1>5. f[k] = g[k]
  <2> DEFINE m == Len(s)
             n == Len(t)
  <2>1. /\ Flattens(f, s, m) /\ Flattens(g, t, n) /\ m \in Nat /\ n \in Nat
        /\ k \in Nat /\ k <= m /\ k <= n /\ SameUpTo(s, t, k)
    BY <1>1, <1>2, <1>3, <1>4 DEF SameUpTo
  <2> HIDE DEF m, n
  <2>2. SameUpTo(f, g, k)
    BY <2>1, FlattensAgree
  <2> QED BY <1>2, <2>2 DEF SameUpTo
<1>6. f[k] \in Seq(S) /\ BeginsWith(f[Len(s)], f[k], S)
  BY <1>3, FlattensGrow
<1> QED BY <1>1, <1>3, <1>4, <1>5, <1>6 DEF t

-----------------------------------------------------------------------------
(* The lines of buffers.                                                   *)

Numbers == 1..MaxLines

\* What LinesIn does with one buffer more, as append() fills it, and with only the
\* first buffers, as the backend keeps them.
LEMMA LinesInProperties ==
  ASSUME NEW bufs \in Seq(Buffer)
  PROVE  /\ LinesIn(bufs) \in Seq(Numbers)
         /\ \A b \in Buffer : LinesIn(Append(bufs, b)) = LinesIn(bufs) \o b.lines
         /\ \A k \in 1..Len(bufs) :
                /\ LinesIn(SubSeq(bufs, 1, k)) \in Seq(Numbers)
                /\ BeginsWith(LinesIn(bufs), LinesIn(SubSeq(bufs, 1, k)), Numbers)
<1> DEFINE m == [i \in DOMAIN bufs |-> bufs[i].lines]
<1>1. /\ DOMAIN bufs = 1..Len(bufs) /\ Len(bufs) \in Nat
      /\ \A i \in 1..Len(bufs) : bufs[i] \in Buffer
  BY LenProperties, ElementOfSeq
<1>2. \A b \in Buffer : b.lines \in Seq(Numbers)
  BY DEF Buffer, Numbers
<1>3. /\ m \in Seq(Seq(Numbers)) /\ Len(m) = Len(bufs)
      /\ \A i \in 1..Len(bufs) : m[i] = bufs[i].lines
  BY <1>1, <1>2
<1>4. LinesIn(bufs) = FlattenSeq(m)
  BY DEF LinesIn
<1> HIDE DEF m
<1>5. FlattenSeq(m) \in Seq(Numbers)
  <2>1. <<>> \in Seq(Numbers)
    BY EmptySeq
  <2> QED BY <1>3, <2>1, FlattenAppend
<1>6. ASSUME NEW b \in Buffer
      PROVE  LinesIn(Append(bufs, b)) = LinesIn(bufs) \o b.lines
  <2> DEFINE ab == Append(bufs, b)
             ma == [i \in DOMAIN ab |-> ab[i].lines]
  <2>1. /\ DOMAIN ab = 1..(Len(bufs) + 1) /\ ab[Len(bufs) + 1] = b
        /\ \A i \in 1..Len(bufs) : ab[i] = bufs[i]
    BY AppendProperties
  <2>2. ma = Append(m, b.lines)
    <3> HIDE DEF ab
    <3> DEFINE am == Append(m, b.lines)
    <3>1. /\ am \in Seq(Seq(Numbers)) /\ Len(am) = Len(bufs) + 1
          /\ am[Len(bufs) + 1] = b.lines /\ \A i \in 1..Len(bufs) : am[i] = m[i]
      BY <1>2, <1>3, AppendProperties
    <3>2. DOMAIN am = 1..(Len(bufs) + 1) /\ am = [i \in DOMAIN am |-> am[i]]
      BY <3>1
    <3> HIDE DEF am
    <3>3. \A i \in 1..(Len(bufs) + 1) : i \in 1..Len(bufs) \/ i = Len(bufs) + 1
      BY <1>1
    <3>4. \A i \in 1..(Len(bufs) + 1) : am[i] = ab[i].lines
      BY <1>3, <2>1, <3>1, <3>3
    <3>5. am = ma
      BY <2>1, <3>2, <3>4
    <3> QED BY <3>5 DEF am
  <2>3. LinesIn(ab) = FlattenSeq(ma)
    BY DEF LinesIn
  <2> HIDE DEF ab, ma
  <2>4. FlattenSeq(Append(m, b.lines)) = FlattenSeq(m) \o b.lines
    BY <1>2, <1>3, FlattenAppend
  <2> QED BY <1>4, <2>2, <2>3, <2>4 DEF ab
<1>7. ASSUME NEW k \in 1..Len(bufs)
      PROVE  /\ LinesIn(SubSeq(bufs, 1, k)) \in Seq(Numbers)
             /\ BeginsWith(LinesIn(bufs), LinesIn(SubSeq(bufs, 1, k)), Numbers)
  <2> DEFINE sb == SubSeq(bufs, 1, k)
             ms == [i \in DOMAIN sb |-> sb[i].lines]
  <2>1. /\ DOMAIN sb = 1..k /\ \A i \in 1..k : sb[i] = bufs[i]
    BY <1>1, SubSeqProperties
  <2>2. ms = SubSeq(m, 1, k)
    <3> HIDE DEF sb
    <3> DEFINE sm == SubSeq(m, 1, k)
    <3>0. k \in Nat /\ k <= Len(m) /\ \A i \in 1..k : m[i] \in Seq(Numbers)
      BY <1>1, <1>3
    <3>1. /\ sm \in Seq(Seq(Numbers)) /\ Len(sm) = k
          /\ \A i \in 1..k : sm[i] = m[i]
      BY <1>3, <3>0, SubSeqProperties
    <3>2. DOMAIN sm = 1..k /\ sm = [i \in DOMAIN sm |-> sm[i]]
      BY <3>1
    <3> HIDE DEF sm
    <3>3. \A i \in 1..k : sm[i] = sb[i].lines
      <4>1. \A i \in 1..k : i \in 1..Len(bufs)
        BY <1>1
      <4> QED BY <1>3, <2>1, <3>1, <4>1
    <3>4. sm = ms
      BY <2>1, <3>2, <3>3
    <3> QED BY <3>4 DEF sm
  <2>3. LinesIn(sb) = FlattenSeq(ms)
    BY DEF LinesIn
  <2> HIDE DEF sb, ms
  <2>4. /\ FlattenSeq(SubSeq(m, 1, k)) \in Seq(Numbers)
        /\ BeginsWith(FlattenSeq(m), FlattenSeq(SubSeq(m, 1, k)), Numbers)
    BY <1>3, FlattenPrefix
  <2> QED BY <1>4, <2>2, <2>3, <2>4 DEF sb
<1> QED BY <1>4, <1>5, <1>6, <1>7

\* No buffers, no lines.
LEMMA LinesInEmpty == LinesIn(<<>>) = <<>>
<1> DEFINE e == <<>>
           m == [i \in DOMAIN e |-> e[i].lines]
<1>1. m = <<>>
  <2>1. DOMAIN e = {}
    OBVIOUS
  <2> QED BY <2>1
<1>2. LinesIn(e) = FlattenSeq(m)
  BY DEF LinesIn
<1> QED BY <1>1, <1>2, FlattenEmpty

-----------------------------------------------------------------------------
(* Ascending sequences of lines.                                           *)

Ascending(s) == \A i, j \in 1..Len(s) : i < j => s[i] < s[j]

\* The lines of two parts, ...
LEMMA ConcatSet ==
  ASSUME NEW a \in Seq(Numbers), NEW b \in Seq(Numbers)
  PROVE  ToSet(a \o b) = ToSet(a) \cup ToSet(b)
<1>1. /\ Len(a) \in Nat /\ Len(b) \in Nat /\ a \o b \in Seq(Numbers)
      /\ Len(a \o b) = Len(a) + Len(b)
      /\ DOMAIN a = 1..Len(a) /\ DOMAIN b = 1..Len(b)
      /\ DOMAIN (a \o b) = 1..(Len(a) + Len(b))
  BY ConcatProperties, LenProperties
<1>2. \A i \in 1..(Len(a) + Len(b)) : (a \o b)[i] = IF i <= Len(a) THEN a[i] ELSE b[i - Len(a)]
  BY ConcatProperties
<1> DEFINE c == a \o b
<1>3. /\ DOMAIN c = 1..(Len(a) + Len(b))
      /\ \A i \in 1..(Len(a) + Len(b)) : c[i] = IF i <= Len(a) THEN a[i] ELSE b[i - Len(a)]
  BY <1>1, <1>2
<1> HIDE DEF c
<1>4. ASSUME NEW x \in ToSet(c) PROVE x \in ToSet(a) \cup ToSet(b)
  <2>1. PICK i \in 1..(Len(a) + Len(b)) : x = c[i]
    BY <1>3 DEF ToSet
  <2>2. CASE i <= Len(a)
    BY <1>1, <1>3, <2>1, <2>2 DEF ToSet
  <2>3. CASE ~(i <= Len(a))
    <3>1. i - Len(a) \in 1..Len(b)
      BY <1>1, <2>3
    <3> QED BY <1>1, <1>3, <2>1, <2>3, <3>1 DEF ToSet
  <2> QED BY <2>2, <2>3
<1>5. ASSUME NEW x \in ToSet(a) PROVE x \in ToSet(c)
  <2>1. PICK i \in 1..Len(a) : x = a[i]
    BY <1>1 DEF ToSet
  <2>2. i \in 1..(Len(a) + Len(b)) /\ i <= Len(a)
    BY <1>1
  <2> QED BY <1>3, <2>1, <2>2 DEF ToSet
<1>6. ASSUME NEW x \in ToSet(b) PROVE x \in ToSet(c)
  <2>1. PICK i \in 1..Len(b) : x = b[i]
    BY <1>1 DEF ToSet
  <2>2. i + Len(a) \in 1..(Len(a) + Len(b)) /\ ~(i + Len(a) <= Len(a)) /\ (i + Len(a)) - Len(a) = i
    BY <1>1
  <2>3. c[i + Len(a)] = b[i]
    BY <1>3, <2>2
  <2> QED BY <1>3, <2>1, <2>2, <2>3 DEF ToSet
<1> QED BY <1>4, <1>5, <1>6 DEF c

\* One sequence after the other is ascending if both are and all of one is
\* below all of the other.
\* ... which ascend if each part does and the second comes after the first.
LEMMA ConcatAscending ==
  ASSUME NEW a \in Seq(Numbers), NEW b \in Seq(Numbers)
  PROVE  Ascending(a \o b) <=>
           Ascending(a) /\ Ascending(b) /\ \A x \in ToSet(a), y \in ToSet(b) : x < y
<1> DEFINE c == a \o b
           la == Len(a)
           lb == Len(b)
<1>1. /\ la \in Nat /\ lb \in Nat /\ c \in Seq(Numbers) /\ Len(c) = la + lb
      /\ Len(a) = la /\ Len(b) = lb /\ DOMAIN a = 1..la /\ DOMAIN b = 1..lb
  BY ConcatProperties, LenProperties
<1>2. \A i \in 1..(la + lb) : c[i] = IF i <= la THEN a[i] ELSE b[i - la]
  BY ConcatProperties
<1> HIDE DEF c, la, lb
<1>a. \A i \in 1..la : i \in 1..(la + lb) /\ c[i] = a[i]
  BY <1>1, <1>2
<1>b. \A i \in 1..lb : i + la \in 1..(la + lb) /\ c[i + la] = b[i]
  <2> SUFFICES ASSUME NEW i \in 1..lb PROVE i + la \in 1..(la + lb) /\ c[i + la] = b[i]
    OBVIOUS
  <2>1. i + la \in 1..(la + lb) /\ ~(i + la <= la) /\ (i + la) - la = i
    BY <1>1
  <2> QED BY <1>2, <2>1
<1>3. ASSUME Ascending(c)
      PROVE  Ascending(a) /\ Ascending(b) /\ \A x \in ToSet(a), y \in ToSet(b) : x < y
  <2>1. \A i, j \in 1..(la + lb) : i < j => c[i] < c[j]
    BY <1>1, <1>3 DEF Ascending
  <2>2. Ascending(a)
    BY <1>1, <1>a, <2>1 DEF Ascending
  <2>3. ASSUME NEW i \in 1..lb, NEW j \in 1..lb, i < j PROVE b[i] < b[j]
    <3>1. i + la < j + la
      BY <1>1, <2>3
    <3> QED BY <1>b, <2>1, <3>1
  <2>4. ASSUME NEW x \in ToSet(a), NEW y \in ToSet(b) PROVE x < y
    <3>1. PICK i \in 1..la : x = a[i]
      BY <1>1 DEF ToSet
    <3>2. PICK j \in 1..lb : y = b[j]
      BY <1>1 DEF ToSet
    <3>3. i < j + la
      BY <1>1
    <3> QED BY <1>a, <1>b, <2>1, <3>1, <3>2, <3>3
  <2> QED BY <1>1, <2>2, <2>3, <2>4 DEF Ascending
<1>4. ASSUME Ascending(a), Ascending(b), \A x \in ToSet(a), y \in ToSet(b) : x < y
      PROVE  Ascending(c)
  <2> SUFFICES ASSUME NEW i \in 1..(la + lb), NEW j \in 1..(la + lb), i < j
               PROVE  c[i] < c[j]
    BY <1>1 DEF Ascending
  <2>1. CASE j <= la
    <3>1. i \in 1..la /\ j \in 1..la
      BY <1>1, <2>1
    <3> QED BY <1>1, <1>4, <1>a, <3>1 DEF Ascending
  <2>2. CASE i <= la /\ ~(j <= la)
    <3>1. i \in 1..la /\ j - la \in 1..lb
      BY <1>1, <2>2
    <3>2. c[i] = a[i] /\ c[j] = b[j - la]
      BY <1>2, <2>2
    <3>3. a[i] \in ToSet(a) /\ b[j - la] \in ToSet(b)
      BY <1>1, <3>1 DEF ToSet
    <3> QED BY <1>4, <3>2, <3>3
  <2>3. CASE ~(i <= la) /\ ~(j <= la)
    <3>1. i - la \in 1..lb /\ j - la \in 1..lb /\ i - la < j - la
      BY <1>1, <2>3
    <3>2. c[i] = b[i - la] /\ c[j] = b[j - la]
      BY <1>2, <2>3
    <3> QED BY <1>1, <1>4, <3>1, <3>2 DEF Ascending
  <2>4. j <= la \/ (i <= la /\ ~(j <= la)) \/ (~(i <= la) /\ ~(j <= la))
    BY <1>1
  <2> QED BY <2>1, <2>2, <2>3, <2>4
<1> QED BY <1>3, <1>4 DEF c

\* Four parts in a row, and the same as two halves.
Joined(a, b, c, d) == ((a \o b) \o c) \o d
Halves(a, b, c, d) == (a \o b) \o (c \o d)

\* By Concat3.
LEMMA JoinedHalves ==
  ASSUME NEW a \in Seq(Numbers), NEW b \in Seq(Numbers),
         NEW c \in Seq(Numbers), NEW d \in Seq(Numbers)
  PROVE  Joined(a, b, c, d) = Halves(a, b, c, d)
<1> DEFINE ab == a \o b
<1>1. ab \in Seq(Numbers)
  BY ConcatProperties
<1> HIDE DEF ab
<1>2. Associative(ab, c, d)
  BY <1>1, Concat3
<1> QED BY <1>2, Zenon DEF Associative, ab, Joined, Halves

\* The next line comes behind all the others.
LEMMA LineBehind ==
  ASSUME NEW all \in Seq(Numbers), NEW n \in Nat, n + 1 \in Numbers, NEW D \in SUBSET (1..n),
         Ascending(all), ToSet(all) = (1..n) \ D
  PROVE  Ascending(all \o <<n + 1>>) /\ ToSet(all \o <<n + 1>>) = (1..(n + 1)) \ D
<1> DEFINE m == n + 1
           b == <<m>>
<1>1. b \in Seq(Numbers) /\ Len(b) = 1 /\ b[1] = m /\ DOMAIN b = 1..1
  OBVIOUS
<1>m. m \in Nat /\ \A x \in 1..n : x < m
  OBVIOUS
<1>s. 1..m = (1..n) \cup {m} /\ m \notin 1..n
  OBVIOUS
<1> HIDE DEF b, m
<1>2. ToSet(b) = {m}
  BY <1>1 DEF ToSet
<1>3. Ascending(b)
  BY <1>1 DEF Ascending
<1>4. \A x \in ToSet(all), y \in ToSet(b) : x < y
  BY <1>2, <1>m
<1>5. Ascending(all \o b)
  BY <1>1, <1>3, <1>4, ConcatAscending
<1>6. ToSet(all \o b) = (1..m) \ D
  <2>1. ToSet(all \o b) = ToSet(all) \cup {m}
    BY <1>1, <1>2, ConcatSet
  <2> QED BY <2>1, <1>s
<1> QED BY <1>5, <1>6 DEF b, m

\* Lines that are left out of the middle leave the others as they are.
LEMMA LinesLeftOut ==
  ASSUME NEW a \in Seq(Numbers), NEW p \in Seq(Numbers), NEW r \in Seq(Numbers), NEW c \in Seq(Numbers),
         Ascending((a \o (p \o r)) \o c)
  PROVE  /\ Ascending((a \o p) \o c)
         /\ ToSet((a \o p) \o c) = ToSet((a \o (p \o r)) \o c) \ (ToSet(p \o r) \ ToSet(p))
<1>1. p \o r \in Seq(Numbers) /\ a \o (p \o r) \in Seq(Numbers) /\ a \o p \in Seq(Numbers)
  BY ConcatProperties
<1>2. /\ ToSet(p \o r) = ToSet(p) \cup ToSet(r)
      /\ ToSet(a \o (p \o r)) = ToSet(a) \cup ToSet(p) \cup ToSet(r)
      /\ ToSet((a \o (p \o r)) \o c) = ToSet(a) \cup ToSet(p) \cup ToSet(r) \cup ToSet(c)
      /\ ToSet(a \o p) = ToSet(a) \cup ToSet(p)
      /\ ToSet((a \o p) \o c) = ToSet(a) \cup ToSet(p) \cup ToSet(c)
  <2>1. ToSet(p \o r) = ToSet(p) \cup ToSet(r) /\ ToSet(a \o p) = ToSet(a) \cup ToSet(p)
    BY ConcatSet
  <2>2. ToSet(a \o (p \o r)) = ToSet(a) \cup ToSet(p \o r)
    BY <1>1, ConcatSet
  <2>3. /\ ToSet((a \o (p \o r)) \o c) = ToSet(a \o (p \o r)) \cup ToSet(c)
        /\ ToSet((a \o p) \o c) = ToSet(a \o p) \cup ToSet(c)
    BY <1>1, ConcatSet
  <2> QED BY <2>1, <2>2, <2>3
<1>3. /\ Ascending(a \o (p \o r)) /\ Ascending(c)
      /\ \A x \in ToSet(a \o (p \o r)), y \in ToSet(c) : x < y
  BY <1>1, ConcatAscending
<1>4. /\ Ascending(a) /\ Ascending(p \o r)
      /\ \A x \in ToSet(a), y \in ToSet(p \o r) : x < y
  BY <1>1, <1>3, ConcatAscending
<1>5. Ascending(p) /\ Ascending(r) /\ \A x \in ToSet(p), y \in ToSet(r) : x < y
  BY <1>4, ConcatAscending
<1>6. Ascending(a \o p)
  BY <1>2, <1>4, <1>5, ConcatAscending
<1>7. Ascending((a \o p) \o c)
  BY <1>1, <1>2, <1>3, <1>6, ConcatAscending
<1>8. \A x \in ToSet(r) : x \notin ToSet(a) /\ x \notin ToSet(p) /\ x \notin ToSet(c)
  <2>1. \A i \in DOMAIN r : r[i] \in Numbers
    BY ElementOfSeq
  <2>2. \A x \in ToSet(r) : x \in Numbers
    BY <2>1 DEF ToSet
  <2>3. \A x \in Numbers : ~(x < x)
    BY DEF Numbers
  <2> QED BY <1>2, <1>3, <1>4, <1>5, <2>2, <2>3
<1> QED BY <1>2, <1>7, <1>8

-----------------------------------------------------------------------------
(* No line is lost.                                                        *)

\* All lines there are, in the order LinesKept names.
AllLines == output \o InBackend \o LinesIn(buffers) \o current.lines

\* What LinesKept says, with what it needs: the spare buffer of the front end is
\* an empty one, and only appended lines were dropped.
LinesInv ==
    /\ next \in {EmptyBuffer, NoBuffer}
    /\ output \in Seq(Numbers)
    /\ dropped \subseteq 1..appended
    /\ Ascending(AllLines)
    /\ ToSet(AllLines) = (1..appended) \ dropped

\* The parts of AllLines are sequences of lines.
LEMMA LinesTypes ==
  ASSUME TypeOK, LinesInv
  PROVE  /\ output \in Seq(Numbers) /\ InBackend \in Seq(Numbers)
         /\ LinesIn(buffers) \in Seq(Numbers) /\ current.lines \in Seq(Numbers)
         /\ LinesIn(toWrite) \in Seq(Numbers)
         /\ AllLines \in Seq(Numbers)
<1>1. output \in Seq(Numbers) /\ current.lines \in Seq(Numbers)
  BY DEF TypeOK, LinesInv, Buffer, Numbers
<1>2. LinesIn(buffers) \in Seq(Numbers) /\ LinesIn(toWrite) \in Seq(Numbers)
  BY LinesInProperties DEF TypeOK
<1>3. InBackend \in Seq(Numbers)
  BY <1>2, EmptySeq DEF InBackend
<1>4. output \o InBackend \in Seq(Numbers)
  BY <1>1, <1>3, ConcatProperties
<1>5. (output \o InBackend) \o LinesIn(buffers) \in Seq(Numbers)
  BY <1>2, <1>4, ConcatProperties
<1>6. ((output \o InBackend) \o LinesIn(buffers)) \o current.lines \in Seq(Numbers)
  BY <1>1, <1>5, ConcatProperties
<1> QED BY <1>1, <1>2, <1>3, <1>6 DEF AllLines

\* A step that moves no line.
LEMMA LinesStay ==
  ASSUME LinesInv, UNCHANGED <<frontVars, output, dropped>>, InBackend' = InBackend
  PROVE  LinesInv'
BY DEF LinesInv, AllLines, LinesIn, frontVars

\* There are none at first.
LEMMA LinesInitially == Init => LinesInv
<1> SUFFICES ASSUME Init PROVE LinesInv
  OBVIOUS
<1>1. /\ output = <<>> /\ InBackend = <<>> /\ buffers = <<>> /\ current.lines = <<>>
      /\ next = EmptyBuffer /\ dropped = {} /\ appended = 0
  BY DEF Init, InBackend, EmptyBuffer
<1>2. LinesIn(buffers) = <<>>
  BY <1>1, LinesInEmpty
<1>3. AllLines = <<>> /\ output \in Seq(Numbers)
  <2>1. <<>> \in Seq(Numbers) /\ <<>> \o <<>> = <<>>
    OBVIOUS
  <2> QED BY <1>1, <1>2, <2>1 DEF AllLines
<1>4. Ascending(<<>>) /\ ToSet(<<>>) = {}
  BY DEF Ascending, ToSet
<1> QED BY <1>1, <1>3, <1>4 DEF LinesInv

\* append(): the line goes behind all others, into this buffer or the next.
LEMMA LinesAppend ==
  ASSUME TypeOK, LinesInv, NEW len \in Lengths, AppendFits(len) \/ AppendSwitches(len)
  PROVE  LinesInv'
<1> DEFINE n == appended
           o == output
           b == InBackend
           l == LinesIn(buffers)
           d == current.lines
<1>1. /\ o \in Seq(Numbers) /\ b \in Seq(Numbers) /\ l \in Seq(Numbers) /\ d \in Seq(Numbers)
      /\ ((o \o b) \o l) \o d \in Seq(Numbers) /\ AllLines = ((o \o b) \o l) \o d
  BY LinesTypes DEF AllLines
<1>2. /\ n \in Nat /\ n + 1 \in Numbers /\ dropped \subseteq 1..n
      /\ appended' = n + 1 /\ output' = o /\ dropped' = dropped
  BY BoundsAssumption DEF TypeOK, LinesInv, AppendFits, AppendSwitches, backVars, Numbers
<1>3. InBackend' = b
  BY DEF InBackend, AppendFits, AppendSwitches, backVars, Notified, LinesIn
<1>4. /\ Ascending(AllLines \o <<n + 1>>)
      /\ ToSet(AllLines \o <<n + 1>>) = (1..(n + 1)) \ dropped
  <2>1. /\ AllLines \in Seq(Numbers) /\ n \in Nat /\ n + 1 \in Numbers /\ dropped \in SUBSET (1..n)
        /\ Ascending(AllLines) /\ ToSet(AllLines) = (1..n) \ dropped
    BY <1>1, <1>2 DEF LinesInv
  <2> HIDE DEF n
  <2> QED BY <2>1, LineBehind
<1>5. next' \in {EmptyBuffer, NoBuffer}
  BY DEF LinesInv, AppendFits, AppendSwitches
<1>6. AllLines' = AllLines \o <<n + 1>>
  <2>1. <<n + 1>> \in Seq(Numbers)
    BY <1>2
  <2>2. CASE AppendFits(len)
    <3>1. buffers' = buffers /\ current' = [lines |-> Append(d, n + 1), used |-> current.used + len]
      BY <2>2 DEF AppendFits, Filled
    <3>2. current'.lines = d \o <<n + 1>>
      BY <1>1, <1>2, <3>1, AppendIsConcat
    <3>3. LinesIn(buffers)' = l
      BY <3>1 DEF LinesIn
    <3>4. AllLines' = ((o \o b) \o l) \o (d \o <<n + 1>>)
      BY <1>2, <1>3, <3>2, <3>3 DEF AllLines
    <3>5. (o \o b) \o l \in Seq(Numbers)
      BY <1>1, ConcatProperties
    <3> HIDE DEF n, o, b, l, d
    <3>6. Associative((o \o b) \o l, d, <<n + 1>>)
      BY <1>1, <2>1, <3>5, Concat3
    <3> QED BY <1>1, <3>4, <3>6, Zenon DEF Associative
  <2>3. CASE AppendSwitches(len)
    <3>1. /\ buffers' = Append(buffers, current)
          /\ current' = Filled(EmptyBuffer, n + 1, len)
      BY <2>3, NoBufferAssumption DEF AppendSwitches, LinesInv
    <3>2. current'.lines = <<n + 1>>
      <4>1. BufferSize - 0 > len
        BY LengthsAssumption
      <4>2. Append(<<>>, n + 1) = <<n + 1>>
        OBVIOUS
      <4> QED BY <3>1, <4>1, <4>2 DEF Filled, EmptyBuffer
    <3>3. LinesIn(buffers)' = l \o d
      <4>1. LinesIn(buffers') = LinesIn(buffers) \o current.lines
        BY <3>1, LinesInProperties DEF TypeOK
      <4>2. LinesIn(buffers)' = LinesIn(buffers')
        BY DEF LinesIn
      <4> QED BY <4>1, <4>2
    <3>4. AllLines' = ((o \o b) \o (l \o d)) \o <<n + 1>>
      BY <1>2, <1>3, <3>2, <3>3 DEF AllLines
    <3> HIDE DEF n, o, b, l, d
    <3> DEFINE ob == o \o b
    <3>5. ob \in Seq(Numbers)
      BY <1>1, ConcatProperties
    <3> HIDE DEF ob
    <3>6. Associative(ob, l, d)
      BY <1>1, <3>5, Concat3
    <3> QED BY <1>1, <3>4, <3>6, Zenon DEF ob, Associative
  <2> QED BY <2>2, <2>3
<1> QED BY <1>2, <1>4, <1>5, <1>6 DEF LinesInv

\* The swap: what was in buffers_ and currentBuffer_ is the backend's, in order.
LEMMA LinesSwap ==
  ASSUME TypeOK, SpareInv, LinesInv, Swap
  PROVE  LinesInv'
<1> DEFINE o == output
           l == LinesIn(buffers)
           d == current.lines
<1>1. /\ o \in Seq(Numbers) /\ l \in Seq(Numbers) /\ d \in Seq(Numbers)
      /\ InBackend = <<>> /\ AllLines = ((o \o <<>>) \o l) \o d
  BY LinesTypes DEF AllLines, InBackend, Swap
<1>2. /\ newBuffer1 = EmptyBuffer /\ newBuffer2 = EmptyBuffer
      /\ toWrite' = Append(buffers, current) /\ buffers' = <<>> /\ bpc' = "write"
      /\ current'.lines = <<>> /\ next' \in {EmptyBuffer, NoBuffer}
      /\ UNCHANGED <<appended, output, dropped>>
  BY DEF Swap, SpareInv, InRound, EmptyBuffer, LinesInv
<1>3. InBackend' = l \o d
  <2>1. LinesIn(toWrite') = LinesIn(buffers) \o current.lines
    BY <1>2, LinesInProperties DEF TypeOK
  <2>2. InBackend' = LinesIn(toWrite')
    BY <1>2 DEF InBackend, LinesIn
  <2> QED BY <2>1, <2>2
<1>4. LinesIn(buffers)' = <<>>
  <2>1. LinesIn(buffers)' = LinesIn(buffers')
    BY DEF LinesIn
  <2> QED BY <1>2, <2>1, LinesInEmpty
<1>5. AllLines' = ((o \o (l \o d)) \o <<>>) \o <<>>
  BY <1>2, <1>3, <1>4 DEF AllLines
<1> HIDE DEF o, l, d
<1>6. ((o \o (l \o d)) \o <<>>) \o <<>> = ((o \o <<>>) \o l) \o d
  <2>1. /\ o \o <<>> = o /\ l \o d \in Seq(Numbers) /\ o \o (l \o d) \in Seq(Numbers)
    BY <1>1, ConcatEmptySeq, ConcatProperties
  <2>2. (o \o (l \o d)) \o <<>> = o \o (l \o d)
    BY <2>1, ConcatEmptySeq
  <2>3. Associative(o, l, d)
    BY <1>1, Concat3
  <2> QED BY <2>1, <2>2, <2>3, Zenon DEF Associative
<1> QED BY <1>1, <1>2, <1>5, <1>6 DEF LinesInv

\* The backend writes what it has, or the first two buffers of it.
LEMMA LinesWrite ==
  ASSUME TypeOK, LinesInv, Write
  PROVE  LinesInv'
<1> DEFINE o == output
           w == LinesIn(toWrite)
           k == LinesIn(Kept)
           l == LinesIn(buffers)
           d == current.lines
<1>1. /\ o \in Seq(Numbers) /\ w \in Seq(Numbers) /\ l \in Seq(Numbers) /\ d \in Seq(Numbers)
      /\ InBackend = w /\ AllLines = ((o \o w) \o l) \o d
      /\ Ascending(AllLines) /\ ToSet(AllLines) = (1..appended) \ dropped
      /\ dropped \subseteq 1..appended
  BY LinesTypes DEF AllLines, InBackend, Write, LinesInv
<1>2. /\ output' = o \o k /\ dropped' = dropped \cup (ToSet(w) \ ToSet(k))
      /\ bpc' = "recycle" /\ UNCHANGED frontVars
  BY DEF Write
<1>3. k \in Seq(Numbers) /\ BeginsWith(w, k, Numbers)
  <2>1. CASE Len(toWrite) > MaxBacklog
    <3>1. toWrite \in Seq(Buffer) /\ 2 \in 1..Len(toWrite)
      BY <2>1, MaxBacklogAssumption DEF TypeOK
    <3>2. Kept = SubSeq(toWrite, 1, 2)
      BY <2>1 DEF Kept
    <3> QED BY <3>1, <3>2, LinesInProperties
  <2>2. CASE ~(Len(toWrite) > MaxBacklog)
    <3>1. k = w
      BY <2>2 DEF Kept
    <3>2. w \o <<>> = w /\ <<>> \in Seq(Numbers)
      BY <1>1, ConcatEmptySeq, EmptySeq
    <3> QED BY <1>1, <3>1, <3>2 DEF BeginsWith
  <2> QED BY <2>1, <2>2
<1>4. AllLines' = (((o \o k) \o <<>>) \o l) \o d
  <2>1. InBackend' = <<>> /\ LinesIn(buffers)' = l /\ current'.lines = d
    BY <1>2 DEF InBackend, LinesIn, frontVars
  <2> QED BY <1>2, <2>1 DEF AllLines
<1>5. next' = next /\ appended' = appended
  BY <1>2 DEF frontVars
<1>c. Joined(o, w, l, d) = Halves(o, w, l, d) /\ Joined(o, k, l, d) = Halves(o, k, l, d)
  <2> HIDE DEF o, w, k, l, d
  <2>1. /\ o \in Seq(Numbers) /\ w \in Seq(Numbers) /\ k \in Seq(Numbers)
        /\ l \in Seq(Numbers) /\ d \in Seq(Numbers)
    BY <1>1, <1>3
  <2> QED BY <2>1, JoinedHalves
<1> HIDE DEF o, w, k, l, d
<1>6. PICK r \in Seq(Numbers) : w = k \o r
  BY <1>3 DEF BeginsWith
<1>7. /\ o \o k \in Seq(Numbers) /\ o \o w \in Seq(Numbers) /\ l \o d \in Seq(Numbers)
      /\ (o \o k) \o <<>> = o \o k
  <2>1. o \o k \in Seq(Numbers) /\ o \o w \in Seq(Numbers) /\ l \o d \in Seq(Numbers)
    BY <1>1, <1>3, ConcatProperties
  <2> QED BY <2>1, ConcatEmptySeq
<1> DEFINE ow == o \o w
           ok == o \o k
           ld == l \o d
<1>8. AllLines = ow \o ld /\ AllLines' = ok \o ld
  <2>1. AllLines = Joined(o, w, l, d) /\ AllLines' = Joined(o, k, l, d)
    BY <1>1, <1>4, <1>7 DEF Joined
  <2> QED BY <1>c, <2>1 DEF Halves
<1>ld. ld \in Seq(Numbers)
  BY <1>7
<1> HIDE DEF ld
<1>9. /\ Ascending(AllLines')
      /\ ToSet(AllLines') = ToSet(AllLines) \ (ToSet(w) \ ToSet(k))
  <2>1. AllLines = (o \o (k \o r)) \o ld /\ AllLines' = (o \o k) \o ld
    BY <1>6, <1>8 DEF ow, ok
  <2>2. Ascending((o \o (k \o r)) \o ld)
    BY <1>1, <2>1
  <2>3. /\ Ascending((o \o k) \o ld)
        /\ ToSet((o \o k) \o ld) = ToSet((o \o (k \o r)) \o ld) \ (ToSet(k \o r) \ ToSet(k))
    BY <1>1, <1>3, <1>6, <1>ld, <2>2, LinesLeftOut
  <2> QED BY <1>6, <2>1, <2>3
<1>10. ToSet(w) \subseteq 1..appended
  <2>1. ToSet(ow) = ToSet(o) \cup ToSet(w)
    BY <1>1, ConcatSet
  <2>2. ow \in Seq(Numbers)
    BY <1>7
  <2> HIDE DEF ow
  <2>3. ToSet(AllLines) = ToSet(ow) \cup ToSet(ld)
    BY <1>8, <1>ld, <2>2, ConcatSet
  <2> QED BY <1>1, <2>1, <2>3
<1>11. Ascending(AllLines)' /\ ToSet(AllLines)' = (1..appended) \ (dropped \cup (ToSet(w) \ ToSet(k)))
  <2>1. Ascending(AllLines)' /\ ToSet(AllLines)' = ToSet(AllLines')
    BY <1>9 DEF Ascending, ToSet
  <2> QED BY <1>1, <1>9, <2>1
<1>12. output' \in Seq(Numbers) /\ dropped' \subseteq 1..appended
  BY <1>1, <1>2, <1>7, <1>10
<1> QED BY <1>2, <1>5, <1>11, <1>12 DEF LinesInv

\* Between "write" and the rest the backend holds no lines of its own.
LEMMA LinesElsewhere ==
  ASSUME LinesInv, UNCHANGED <<frontVars, output, dropped>>, UNCHANGED toWrite,
         bpc = "write" <=> bpc' = "write"
  PROVE  LinesInv'
<1>1. InBackend' = InBackend
  BY DEF InBackend, LinesIn
<1> QED BY <1>1, LinesStay

\* Only append(), the swap and the writing move lines.
LEMMA LinesInductive == TypeOK /\ SpareInv /\ LinesInv /\ [Next]_vars => LinesInv'
<1> SUFFICES ASSUME TypeOK, SpareInv, LinesInv, [Next]_vars PROVE LinesInv'
  OBVIOUS
<1>1. CASE \E len \in Lengths : AppendFits(len) \/ AppendSwitches(len)
  BY <1>1, LinesAppend
<1>2. CASE Control
  <2>1. UNCHANGED <<frontVars, output, dropped>> /\ UNCHANGED toWrite
    BY <1>2 DEF Control, Start, LatchWait, Stop, StopNotify, Join, backVars
  <2>2. bpc = "write" <=> bpc' = "write"
    BY <1>2 DEF Control, Start, LatchWait, Stop, StopNotify, Join, Notified, SpareInv
  <2> QED BY <2>1, <2>2, LinesElsewhere
<1>3. CASE ThreadBegin \/ ThreadBeginAborts \/ ThreadLoop \/ Wait \/ WaitTimeout
  <2>1. UNCHANGED <<frontVars, output, dropped>> /\ UNCHANGED toWrite
    BY <1>3 DEF ThreadBegin, ThreadBeginAborts, ThreadLoop, Wait, WaitTimeout, backVars
  <2>2. bpc = "write" <=> bpc' = "write"
    BY <1>3 DEF ThreadBegin, ThreadBeginAborts, ThreadLoop, Wait, WaitTimeout
  <2> QED BY <2>1, <2>2, LinesElsewhere
<1>4. CASE Swap
  BY <1>4, LinesSwap
<1>5. CASE Write
  BY <1>5, LinesWrite
<1>6. CASE Recycle
  <2>1. InBackend = <<>> /\ InBackend' = <<>> /\ UNCHANGED <<frontVars, output, dropped>>
    BY <1>6 DEF Recycle, InBackend
  <2> QED BY <2>1, LinesStay
<1>7. CASE UNCHANGED vars
  BY <1>7, LinesElsewhere DEF vars, backVars
<1> QED BY <1>1, <1>2, <1>3, <1>4, <1>5, <1>6, <1>7 DEF Next, Backend

\* Every appended line is in the file, with the backend, in buffers_ or in
\* currentBuffer_, exactly once and in the order of the appends, for as many lines,
\* buffers, starts and stops as one likes, and only lines of a backlog that was too
\* large are missing (append(), threadFunc()).
THEOREM NoLineLost == Spec => []LinesKept
<1>1. TypeOK /\ LinesInv => LinesKept
  <2> SUFFICES ASSUME TypeOK, LinesInv PROVE LinesKept
    OBVIOUS
  <2> DEFINE all == output \o InBackend \o LinesIn(buffers) \o current.lines
  <2>1. all = AllLines /\ all \in Seq(Numbers) /\ Ascending(all) /\ ToSet(all) = (1..appended) \ dropped
    BY LinesTypes DEF AllLines, LinesInv
  <2> HIDE DEF all
  <2>2. \A i \in 1..Len(all) - 1 : all[i] < all[i + 1]
    <3> SUFFICES ASSUME NEW i \in 1..Len(all) - 1 PROVE all[i] < all[i + 1]
      OBVIOUS
    <3>1. Len(all) \in Nat
      BY <2>1, LenProperties
    <3>2. i \in 1..Len(all) /\ i + 1 \in 1..Len(all) /\ i < i + 1
      BY <3>1
    <3> QED BY <2>1, <3>2 DEF Ascending
  <2> QED BY <2>1, <2>2 DEF LinesKept, all
<1>2. IInv /\ LinesInv /\ [Next]_vars => LinesInv'
  BY LinesInductive DEF IInv
<1>3. IInv => TypeOK
  BY DEF IInv
<1> QED BY <1>1, <1>2, <1>3, LinesInitially, Invariance, PTL DEF Spec

-----------------------------------------------------------------------------
(* LogFile.                                                                *)

\* A line of the current file that made it too large came no later than the
\* second the file was opened in; of the other files the last line may.
LinesInBounds(f, last) ==
    \A k \in 1..Len(f.lines) :
        k # last /\ BytesOf(f, k) > RollSize => f.lines[k].time <= f.opened

\* What FileNext keeps; lastRoll_ is the name of the current file.
FileInv ==
    /\ FileTypeOK
    /\ file.opened = lastRoll
    /\ LinesInBounds(file, 0)
    /\ \A i \in DOMAIN files : LinesInBounds(files[i], Len(files[i].lines))

-----------------------------------------------------------------------------
(* Days and files.                                                         *)

LEMMA DayProperties ==
  ASSUME NEW t \in 0..MaxTime
  PROVE  Day(t) \in 0..MaxTime
BY LogFileParametersAssumption, LogFileBoundsAssumption DEF Day

\* The files after the current one was replaced.
LEMMA CurrentProperties ==
  ASSUME FileTypeOK, NEW f \in Files
  PROVE  /\ Current(f) \in Seq(Files)
         /\ Len(Current(f)) = Len(files) /\ Len(files) \in Nat \ {0}
         /\ file \in Files
         /\ \A i \in 1..Len(files) :
              Current(f)[i] = IF i = Len(files) THEN f ELSE files[i]
<1>1. files \in Seq(Files) /\ Len(files) \in Nat /\ Len(files) # 0
  BY EmptySeq, LenProperties DEF FileTypeOK
<1>2. file \in Files
  BY <1>1, ElementOfSeq DEF file
<1>3. /\ Current(f) \in Seq(Files) /\ Len(Current(f)) = Len(files)
      /\ \A i \in 1..Len(files) :
              Current(f)[i] = IF i = Len(files) THEN f ELSE files[i]
  BY <1>1 DEF Current
<1> QED BY <1>1, <1>2, <1>3

\* The files after another was begun.
LEMMA BegunProperties ==
  ASSUME FileTypeOK, NEW f \in Files, NEW g \in Files
  PROVE  LET s == Append(Current(f), g) IN
         /\ s \in Seq(Files) /\ Len(s) = Len(files) + 1
         /\ s[Len(s)] = g
         /\ \A i \in 1..Len(files) :
              s[i] = IF i = Len(files) THEN f ELSE files[i]
<1>1. /\ Current(f) \in Seq(Files)
      /\ Len(Current(f)) = Len(files) /\ Len(files) \in Nat \ {0}
      /\ \A i \in 1..Len(files) :
              Current(f)[i] = IF i = Len(files) THEN f ELSE files[i]
  BY CurrentProperties
<1> DEFINE c == Current(f)
           s == Append(c, g)
<1>2. c \in Seq(Files)
  BY <1>1
<1>3. Len(c) = Len(files) /\ \A i \in 1..Len(files) :
              c[i] = IF i = Len(files) THEN f ELSE files[i]
  BY <1>1
<1> HIDE DEF c
<1>4. /\ s \in Seq(Files) /\ Len(s) = Len(c) + 1
      /\ \A i \in 1..Len(c) : s[i] = c[i]
      /\ s[Len(c) + 1] = g
  BY <1>2, AppendProperties
<1> HIDE DEF s
<1>5. /\ s \in Seq(Files) /\ Len(s) = Len(files) + 1
      /\ s[Len(s)] = g
      /\ \A i \in 1..Len(files) : s[i] = IF i = Len(files) THEN f ELSE files[i]
  BY <1>3, <1>4
<1> QED BY <1>5 DEF s, c

-----------------------------------------------------------------------------
(* Lines.                                                                  *)

LEMMA NewFileProperties ==
  ASSUME NEW t \in 1..MaxTime
  PROVE  NewFile(t) \in Files /\ NewFile(t).opened = t
         /\ LinesInBounds(NewFile(t), 0)
         /\ LinesInBounds(NewFile(t), Len(NewFile(t).lines))
<1>1. <<>> \in Seq(Lines) /\ Len(<<>>) = 0
  BY EmptySeq
<1>2. NewFile(t) \in Files /\ NewFile(t).opened = t /\ Len(NewFile(t).lines) = 0
  BY <1>1 DEF NewFile, Files
<1> QED BY <1>2 DEF LinesInBounds

\* A file that is flushed has the lines it had.
LEMMA FlushedProperties ==
  ASSUME NEW f \in Files, NEW n
  PROVE  /\ Flushed(f) \in Files /\ Flushed(f).opened = f.opened
         /\ Flushed(f).lines = f.lines
         /\ LinesInBounds(Flushed(f), n) <=> LinesInBounds(f, n)
<1>1. Len(f.lines) \in Nat
  BY LenProperties DEF Files
<1>2. /\ Flushed(f) \in Files /\ Flushed(f).opened = f.opened
      /\ Flushed(f).lines = f.lines
  BY <1>1 DEF Flushed, Files
<1> QED BY <1>2 DEF LinesInBounds, BytesOf

\* A line that is written comes behind the others and leaves them in bounds;
\* it is itself, unless the file is too large with it.
LEMMA WrittenProperties ==
  ASSUME NEW f \in Files, NEW line \in Lines, LinesInBounds(f, 0)
  PROVE  LET g == Written(f, line) IN
         /\ g \in Files /\ g.opened = f.opened
         /\ LinesInBounds(g, Len(g.lines))
         /\ ~TooLarge(g) \/ line.time <= f.opened => LinesInBounds(g, 0)
<1> DEFINE g == Written(f, line)
           s == f.lines
<1>1. s \in Seq(Lines) /\ Len(s) \in Nat
  BY LenProperties DEF Files
<1>2. g.opened = f.opened /\ g.lines = Append(s, line)
  BY DEF Written, Files
<1>3. /\ Append(s, line) \in Seq(Lines) /\ Len(Append(s, line)) = Len(s) + 1
      /\ \A i \in 1..Len(s) : Append(s, line)[i] = s[i]
      /\ Append(s, line)[Len(s) + 1] = line
  <2> HIDE DEF s
  <2> QED BY <1>1, AppendProperties
<1>4. g \in Files
  BY <1>3 DEF Written, Files
<1>5. ASSUME NEW k \in 1..Len(s)
      PROVE  BytesOf(g, k) = BytesOf(f, k)
  <2>1. SubSeq(Append(s, line), 1, k) = SubSeq(s, 1, k)
    <3>1. Append(s, line) = s \o <<line>> /\ <<line>> \in Seq(Lines)
      BY <1>1, AppendIsConcat
    <3>2. 1 \in 1..Len(s) /\ k \in 1..Len(s)
      BY <1>1
    <3> HIDE DEF s
    <3> QED BY <1>1, <3>1, <3>2, SubSeqOfConcat1
  <2> QED BY <1>2, <2>1 DEF BytesOf
<1> HIDE DEF g
<1>6. Len(g.lines) = Len(s) + 1
  BY <1>2, <1>3
<1>7. ASSUME NEW k \in 1..Len(s), BytesOf(g, k) > RollSize
      PROVE  g.lines[k].time <= g.opened
  <2>1. g.lines[k] = s[k] /\ k # 0
    BY <1>1, <1>2, <1>3
  <2>2. s[k].time <= f.opened
    BY <1>5, <1>7, <2>1 DEF LinesInBounds
  <2> QED BY <1>2, <2>1, <2>2
<1>8. LinesInBounds(g, Len(g.lines))
  <2>1. \A k \in 1..Len(g.lines) : k # Len(g.lines) => k \in 1..Len(s)
    BY <1>1, <1>6
  <2> QED BY <1>7, <2>1 DEF LinesInBounds
<1>9. ASSUME ~TooLarge(g) \/ line.time <= f.opened
      PROVE  LinesInBounds(g, 0)
  <2>1. \A k \in 1..Len(g.lines) : k = Len(g.lines) \/ k \in 1..Len(s)
    BY <1>1, <1>6
  <2>2. BytesOf(g, Len(g.lines)) > RollSize => g.lines[Len(g.lines)].time <= g.opened
    <3>1. g.lines[Len(g.lines)] = line
      BY <1>2, <1>3, <1>6
    <3> QED BY <1>2, <1>9, <3>1 DEF TooLarge, WrittenBytes
  <2> QED BY <1>7, <2>1, <2>2 DEF LinesInBounds
<1> QED BY <1>2, <1>4, <1>8, <1>9 DEF g

-----------------------------------------------------------------------------
(* The inductive invariant.                                                *)

LEMMA FileInitially == FileInit => FileInv
<1> SUFFICES ASSUME FileInit PROVE FileInv
  OBVIOUS
<1>1. now \in 1..MaxTime /\ now \in 0..MaxTime
  BY LogFileBoundsAssumption DEF FileInit
<1>2. /\ NewFile(now) \in Files /\ NewFile(now).opened = now
      /\ LinesInBounds(NewFile(now), 0)
      /\ LinesInBounds(NewFile(now), Len(NewFile(now).lines))
  BY <1>1, NewFileProperties
<1>3. /\ files \in Seq(Files) /\ Len(files) = 1 /\ files[1] = NewFile(now)
      /\ files # <<>> /\ DOMAIN files = {1}
  <2>1. files = <<NewFile(now)>>
    BY DEF FileInit
  <2> QED BY <1>2, <2>1
<1>4. Day(now) \in 0..MaxTime
  BY <1>1, DayProperties
<1>5. FileTypeOK
  BY <1>1, <1>3, <1>4, LogFileParametersAssumption, LogFileBoundsAssumption
  DEF FileInit, FileTypeOK
<1> QED BY <1>2, <1>3, <1>5 DEF FileInit, FileInv, file

\* The current file was replaced by one of its lines and name.
LEMMA Replaced ==
  ASSUME FileInv, NEW f \in Files, f.opened = file.opened,
         LinesInBounds(f, 0), files' = Current(f)
  PROVE  /\ files' \in Seq(Files) /\ files' # <<>>
         /\ file'.opened = file.opened /\ LinesInBounds(file', 0)
         /\ \A i \in DOMAIN files' : LinesInBounds(files'[i], Len(files'[i].lines))
<1>1. /\ files' \in Seq(Files) /\ Len(files') = Len(files)
      /\ Len(files) \in Nat \ {0}
      /\ \A i \in 1..Len(files) : files'[i] = IF i = Len(files) THEN f ELSE files[i]
  BY CurrentProperties DEF FileInv
<1>2. file' = f /\ files' # <<>>
  <2>1. file' = files'[Len(files)]
    BY <1>1 DEF file
  <2> QED BY <1>1, <2>1, EmptySeq
<1>3. LinesInBounds(f, Len(f.lines))
  BY DEF LinesInBounds
<1>4. ASSUME NEW i \in 1..Len(files)
      PROVE  LinesInBounds(files'[i], Len(files'[i].lines))
  <2>1. DOMAIN files = 1..Len(files)
    BY LenProperties DEF FileInv, FileTypeOK
  <2> QED BY <1>1, <1>3, <2>1 DEF FileInv
<1>5. DOMAIN files' = 1..Len(files)
  BY <1>1, LenProperties
<1> QED BY <1>1, <1>2, <1>4, <1>5

\* Another file was begun behind the current one.
LEMMA Begun ==
  ASSUME FileInv, NEW f \in Files, LinesInBounds(f, Len(f.lines)),
         now \in 1..MaxTime, files' = Append(Current(f), NewFile(now))
  PROVE  /\ files' \in Seq(Files) /\ files' # <<>>
         /\ file'.opened = now /\ LinesInBounds(file', 0)
         /\ \A i \in DOMAIN files' : LinesInBounds(files'[i], Len(files'[i].lines))
<1> DEFINE g == NewFile(now)
<1>1. /\ g \in Files /\ g.opened = now
      /\ LinesInBounds(g, 0) /\ LinesInBounds(g, Len(g.lines))
  BY NewFileProperties
<1> HIDE DEF g
<1>2. /\ files' \in Seq(Files) /\ Len(files') = Len(files) + 1
      /\ files'[Len(files')] = g
      /\ \A i \in 1..Len(files) : files'[i] = IF i = Len(files) THEN f ELSE files[i]
  BY <1>1, BegunProperties DEF FileInv, g
<1>3. Len(files) \in Nat /\ DOMAIN files = 1..Len(files)
      /\ DOMAIN files' = 1..Len(files')
  BY <1>2, LenProperties DEF FileInv, FileTypeOK
<1>4. file' = g /\ files' # <<>>
  <2>1. file' = files'[Len(files')]
    BY DEF file
  <2>2. Len(files') # 0
    <3>1. Len(files) + 1 # 0
      BY <1>3
    <3> QED BY <1>2, <3>1
  <2>3. files' # <<>>
    BY <2>2, EmptySeq
  <2> QED BY <1>2, <2>1, <2>3
<1>5. ASSUME NEW i \in DOMAIN files'
      PROVE  LinesInBounds(files'[i], Len(files'[i].lines))
  <2>1. CASE i \in 1..Len(files)
    BY <1>2, <1>3, <2>1 DEF FileInv
  <2>2. CASE i = Len(files')
    BY <1>1, <1>2, <2>2
  <2>3. i \in 1..Len(files) \/ i = Len(files')
    <3>1. i \in 1..(Len(files) + 1)
      BY <1>2, <1>3
    <3>2. i \in 1..Len(files) \/ i = Len(files) + 1
      BY <1>3, <3>1
    <3> QED BY <1>2, <3>2
  <2> QED BY <2>1, <2>2, <2>3
<1> QED BY <1>1, <1>2, <1>4, <1>5

LEMMA FileInductive == FileInv /\ [FileNext]_fileVars => FileInv'
<1> SUFFICES ASSUME FileInv, [FileNext]_fileVars PROVE FileInv'
  OBVIOUS
<1>0. /\ FileTypeOK /\ file \in Files /\ file.opened = lastRoll
      /\ LinesInBounds(file, 0)
  <2>1. FileTypeOK
    BY DEF FileInv
  <2>2. \A f \in Files : file \in Files
    BY <2>1, CurrentProperties
  <2>3. file \in Files
    <3>1. files \in Seq(Files) /\ Len(files) \in Nat /\ Len(files) # 0
      BY <2>1, EmptySeq, LenProperties DEF FileTypeOK
    <3> QED BY <3>1, ElementOfSeq DEF file
  <2> QED BY <2>1, <2>3 DEF FileInv
<1>t. /\ now \in 0..MaxTime /\ count \in 0..(CheckEveryN - 1)
      /\ startOfPeriod \in 0..MaxTime /\ lastRoll \in 1..MaxTime
      /\ lastFlush \in lastRoll..MaxTime
      /\ MaxTime \in Nat /\ FlushInterval \in Nat /\ CheckEveryN \in Nat \ {0}
  BY <1>0, LogFileParametersAssumption, LogFileBoundsAssumption DEF FileTypeOK
<1>1. CASE Tick
  <2>1. now' \in 0..MaxTime
    BY <1>1 DEF Tick
  <2> QED BY <1>1, <2>1 DEF Tick, FileInv, FileTypeOK, file
<1>2. CASE Flush
  <2>1. Flushed(file) \in Files /\ Flushed(file).opened = file.opened
        /\ LinesInBounds(Flushed(file), 0)
    BY <1>0, FlushedProperties
  <2>2. /\ files' \in Seq(Files) /\ files' # <<>>
        /\ file'.opened = file.opened /\ LinesInBounds(file', 0)
        /\ \A i \in DOMAIN files' : LinesInBounds(files'[i], Len(files'[i].lines))
    BY <1>2, <2>1, Replaced DEF Flush
  <2> QED BY <1>0, <1>2, <1>t, <2>2 DEF Flush, FileInv, FileTypeOK
<1>3. ASSUME NEW len \in LineLengths, AppendUnlocked(len)
      PROVE  FileInv'
  <2> DEFINE line == [len |-> len, time |-> now]
             f == Written(file, line)
  <2>1. line \in Lines /\ line.time = now
    BY <1>t DEF Lines
  <2> HIDE DEF line
  <2>2. /\ f \in Files /\ f.opened = file.opened
        /\ LinesInBounds(f, Len(f.lines))
        /\ ~TooLarge(f) \/ now <= file.opened => LinesInBounds(f, 0)
    BY <1>0, <2>1, WrittenProperties
  <2>3. /\ UNCHANGED now
        /\ \/ TooLarge(f) /\ RollFile(f) /\ UNCHANGED count
           \/ /\ ~TooLarge(f) /\ count + 1 < CheckEveryN
              /\ count' = count + 1
              /\ files' = Current(f)
              /\ UNCHANGED <<startOfPeriod, lastRoll, lastFlush>>
           \/ /\ ~TooLarge(f)
              /\ count' = 0
              /\ RollFile(f) \/ FlushIfDue(f)
    BY <1>3 DEF AppendUnlocked, line
  <2> HIDE DEF f
  <2>4. count' \in 0..(CheckEveryN - 1)
    BY <1>t, <2>3
  <2>5. ASSUME NEW g \in Files, g.opened = file.opened, LinesInBounds(g, 0),
               files' = Current(g), UNCHANGED <<lastRoll, startOfPeriod>>,
               lastFlush' \in lastRoll..MaxTime
        PROVE  FileInv'
    <3>1. /\ files' \in Seq(Files) /\ files' # <<>>
          /\ file'.opened = file.opened /\ LinesInBounds(file', 0)
          /\ \A i \in DOMAIN files' : LinesInBounds(files'[i], Len(files'[i].lines))
      BY <2>5, Replaced
    <3> QED BY <1>0, <1>t, <2>3, <2>4, <2>5, <3>1 DEF FileInv, FileTypeOK
  <2>6. CASE RollFile(f) /\ now > lastRoll
    <3>1. now \in 1..MaxTime
      BY <1>t, <2>6
    <3>2. /\ Flushed(f) \in Files /\ Flushed(f).lines = f.lines
          /\ LinesInBounds(Flushed(f), Len(Flushed(f).lines))
      BY <2>2, FlushedProperties
    <3>3. /\ lastRoll' = now /\ lastFlush' = now /\ startOfPeriod' = Day(now)
          /\ files' = Append(Current(Flushed(f)), NewFile(now))
      BY <2>6 DEF RollFile
    <3>4. /\ files' \in Seq(Files) /\ files' # <<>>
          /\ file'.opened = now /\ LinesInBounds(file', 0)
          /\ \A i \in DOMAIN files' : LinesInBounds(files'[i], Len(files'[i].lines))
      BY <3>1, <3>2, <3>3, Begun
    <3>5. Day(now) \in 0..MaxTime
      BY <1>t, DayProperties
    <3>6. lastFlush' \in lastRoll'..MaxTime
      BY <3>1, <3>3
    <3> QED BY <1>t, <2>3, <2>4, <3>1, <3>3, <3>4, <3>5, <3>6 DEF FileInv, FileTypeOK
  <2>7. CASE RollFile(f) /\ ~(now > lastRoll)
    <3>1. /\ files' = Current(f)
          /\ UNCHANGED <<lastRoll, lastFlush, startOfPeriod>>
      BY <2>7 DEF RollFile
    <3>2. LinesInBounds(f, 0)
      BY <1>0, <1>t, <2>2, <2>7
    <3> QED BY <1>t, <2>2, <2>5, <3>1, <3>2
  <2>8. CASE ~TooLarge(f) /\ files' = Current(f)
             /\ UNCHANGED <<startOfPeriod, lastRoll, lastFlush>>
    BY <1>t, <2>2, <2>5, <2>8
  <2>9. CASE ~TooLarge(f) /\ FlushIfDue(f)
    <3>1. Flushed(f) \in Files /\ Flushed(f).opened = file.opened
          /\ LinesInBounds(Flushed(f), 0)
      BY <2>2, <2>9, FlushedProperties
    <3>2. lastFlush' \in lastRoll..MaxTime
      BY <1>t, <2>9 DEF FlushIfDue, FlushDue
    <3> QED BY <2>2, <2>5, <2>9, <3>1, <3>2 DEF FlushIfDue
  <2> QED BY <2>3, <2>6, <2>7, <2>8, <2>9
<1>4. CASE UNCHANGED fileVars
  BY <1>4 DEF fileVars, FileInv, FileTypeOK, file
<1> QED BY <1>1, <1>2, <1>3, <1>4 DEF FileNext

\* FileTypeOK always holds: among others lastRoll_ <= lastFlush_, so that a new
\* file is not flushed before its time, however the clock is set.
THEOREM FileTypeCorrect == FileSpec => []FileTypeOK
<1>1. FileInv => FileTypeOK
  BY DEF FileInv
<1> QED BY <1>1, FileInitially, FileInductive, PTL DEF FileSpec

\* SizeBound always holds, whatever the sizes and however the clock is set:
\* a file goes on after a line that made it too large only within the second
\* it was opened in (append_unlocked, rollFile).
THEOREM FilesBounded == FileSpec => []SizeBound
<1>1. FileInv => SizeBound
  <2> SUFFICES ASSUME FileInv, NEW i \in DOMAIN files,
                      NEW k \in 1..(Len(files[i].lines) - 1),
                      BytesOf(files[i], k) > RollSize
               PROVE  files[i].lines[k].time <= files[i].opened
    BY DEF SizeBound
  <2>1. Len(files[i].lines) \in Nat
    <3>1. files[i] \in Files
      BY LenProperties, ElementOfSeq DEF FileInv, FileTypeOK
    <3> QED BY <3>1, LenProperties DEF Files
  <2>2. k \in 1..Len(files[i].lines) /\ k # Len(files[i].lines)
    BY <2>1
  <2> QED BY <2>2 DEF FileInv, LinesInBounds
<1> QED BY <1>1, FileInitially, FileInductive, PTL DEF FileSpec
-----------------------------------------------------------------------------
(* A clock that is never set back.                                         *)

\* The current file: its lines came since it was opened, those of another day
\* are counted in count_, and so are, for a line that was not flushed, the ones
\* that came too long after it; it came after the last flush.
CurrentOK(f) ==
    /\ \A k \in 1..Len(f.lines) : f.lines[k].time \in f.opened..now
    /\ Cardinality(OffDay(f)) <= count
    /\ \A k \in (f.flushed + 1)..Len(f.lines) :
         lastFlush <= f.lines[k].time /\ Cardinality(Late(f, k)) <= count

\* What FileNext keeps when the clock is never set back.
TimeInv ==
    /\ lastRoll <= now /\ lastFlush <= now
    /\ startOfPeriod = Day(lastRoll)
    /\ CurrentOK(file)
    /\ \A i \in DOMAIN files : Cardinality(OffDay(files[i])) <= CheckEveryN

\* Between two times of one day it is that day.
LEMMA SameDay ==
  ASSUME NEW s \in Nat, NEW u \in Nat, NEW t \in s..u, Day(s) = Day(u)
  PROVE  Day(t) = Day(s)
<1> DEFINE R == RollPerSeconds
<1>1. R \in Nat \ {0} /\ t \in Nat
  BY LogFileParametersAssumption
<1> HIDE DEF R
<1>2. /\ s \div R \in Nat /\ t \div R \in Nat /\ u \div R \in Nat
      /\ s \div R <= t \div R /\ t \div R <= u \div R
  <2>1. ASSUME NEW m \in Nat, NEW n \in Nat, m <= n
        PROVE  m \div R \in Nat /\ n \div R \in Nat /\ m \div R <= n \div R
    BY <1>1, <2>1
  <2> QED BY <1>1, <2>1
<1>3. s \div R = u \div R
  <2>1. (s \div R) * R = (u \div R) * R
    BY DEF Day, R
  <2> QED BY <1>1, <1>2, <2>1
<1>4. t \div R = s \div R
  BY <1>2, <1>3
<1> QED BY <1>4 DEF Day, R
\* A set of lines of a file has at most one more with the line behind them.
LEMMA OneMore ==
  ASSUME NEW n \in Nat, NEW S \in SUBSET (1..n), NEW T \in SUBSET (S \cup {n + 1})
  PROVE  /\ Cardinality(S) \in Nat /\ Cardinality(T) \in Nat
         /\ Cardinality(T) <= Cardinality(S) + 1
<1>1. IsFiniteSet(S)
  <2>1. IsFiniteSet(1..n)
    BY FS_Interval
  <2> QED BY <2>1, FS_Subset
<1>2. n + 1 \notin S
  OBVIOUS
<1>3. IsFiniteSet(S \cup {n + 1}) /\ Cardinality(S \cup {n + 1}) = Cardinality(S) + 1
  BY <1>1, <1>2, FS_AddElement
<1>4. IsFiniteSet(T) /\ Cardinality(T) <= Cardinality(S \cup {n + 1})
  BY <1>3, FS_Subset
<1> QED BY <1>1, <1>3, <1>4, FS_CardinalityType

\* What becomes of OffDay and Late when a line is written.
LEMMA WrittenCounts ==
  ASSUME NEW f \in Files, NEW line \in Lines
  PROVE  LET g == Written(f, line)
             n == Len(f.lines)
         IN  /\ g \in Files /\ n \in Nat /\ Len(g.lines) = n + 1
             /\ g.opened = f.opened /\ g.flushed = f.flushed
             /\ g.lines[n + 1] = line /\ \A k \in 1..n : g.lines[k] = f.lines[k]
             /\ Cardinality(OffDay(f)) \in Nat /\ Cardinality(OffDay(g)) \in Nat
             /\ Cardinality(OffDay(g)) <= Cardinality(OffDay(f)) + 1
             /\ \A k \in 1..n :
                  /\ Cardinality(Late(f, k)) \in Nat /\ Cardinality(Late(g, k)) \in Nat
                  /\ Cardinality(Late(g, k)) <= Cardinality(Late(f, k)) + 1
<1> DEFINE g == Written(f, line)
           s == f.lines
           n == Len(s)
<1>1. s \in Seq(Lines) /\ n \in Nat
  BY LenProperties DEF Files
<1>2. g.opened = f.opened /\ g.flushed = f.flushed /\ g.lines = Append(s, line)
  BY DEF Written, Files
<1>3. /\ Append(s, line) \in Seq(Lines) /\ Len(Append(s, line)) = n + 1
      /\ \A i \in 1..n : Append(s, line)[i] = s[i]
      /\ Append(s, line)[n + 1] = line
  <2> HIDE DEF s
  <2> QED BY <1>1, AppendProperties
<1>4. g \in Files
  BY <1>3 DEF Written, Files
<1>5. DOMAIN s = 1..n /\ DOMAIN g.lines = 1..(n + 1)
  BY <1>1, <1>2, <1>3, LenProperties
<1> HIDE DEF g, s, n
<1>6. OffDay(f) \in SUBSET (1..n) /\ OffDay(g) \in SUBSET (OffDay(f) \cup {n + 1})
  <2>1. OffDay(f) = {k \in 1..n : Day(s[k].time) # Day(f.opened)}
    BY <1>5 DEF OffDay, s
  <2>2. OffDay(g) = {k \in 1..(n + 1) : Day(g.lines[k].time) # Day(f.opened)}
    BY <1>2, <1>5 DEF OffDay
  <2>3. \A k \in 1..(n + 1) : k \in 1..n \/ k = n + 1
    BY <1>1
  <2> QED BY <1>2, <1>3, <2>1, <2>2, <2>3
<1>7. ASSUME NEW k \in 1..n
      PROVE  Late(f, k) \in SUBSET (1..n) /\ Late(g, k) \in SUBSET (Late(f, k) \cup {n + 1})
  <2>1. Late(f, k) = {j \in 1..n : s[j].time - s[k].time > FlushInterval}
    BY <1>5 DEF Late, s
  <2>2. Late(g, k) = {j \in 1..(n + 1) : g.lines[j].time - s[k].time > FlushInterval}
    BY <1>2, <1>3, <1>5 DEF Late
  <2>3. \A j \in 1..(n + 1) : j \in 1..n \/ j = n + 1
    BY <1>1
  <2> QED BY <1>2, <1>3, <2>1, <2>2, <2>3
<1>8. /\ Cardinality(OffDay(f)) \in Nat /\ Cardinality(OffDay(g)) \in Nat
      /\ Cardinality(OffDay(g)) <= Cardinality(OffDay(f)) + 1
  BY <1>1, <1>6, OneMore
<1>9. \A k \in 1..n :
        /\ Cardinality(Late(f, k)) \in Nat /\ Cardinality(Late(g, k)) \in Nat
        /\ Cardinality(Late(g, k)) <= Cardinality(Late(f, k)) + 1
  BY <1>1, <1>7, OneMore
<1> QED BY <1>1, <1>2, <1>3, <1>4, <1>8, <1>9 DEF g, s, n

\* A file whose lines all came between two times of its day has none of another
\* day, and none late if these are no more than FlushInterval apart.
LEMMA NoneCounted ==
  ASSUME NEW f \in Files, NEW u \in Nat,
         \A k \in 1..Len(f.lines) : f.lines[k].time \in f.opened..u
  PROVE  /\ Day(u) = Day(f.opened) => OffDay(f) = {} /\ Cardinality(OffDay(f)) = 0
         /\ \A k \in 1..Len(f.lines) :
              u - f.lines[k].time <= FlushInterval => Late(f, k) = {} /\ Cardinality(Late(f, k)) = 0
<1>1. f.opened \in Nat /\ DOMAIN f.lines = 1..Len(f.lines)
  BY LogFileBoundsAssumption, LenProperties DEF Files
<1>2. ASSUME Day(u) = Day(f.opened)
      PROVE  OffDay(f) = {}
  <2>1. \A k \in 1..Len(f.lines) : Day(f.lines[k].time) = Day(f.opened)
    BY <1>1, <1>2, SameDay
  <2> QED BY <1>1, <2>1 DEF OffDay
<1>3. ASSUME NEW k \in 1..Len(f.lines), u - f.lines[k].time <= FlushInterval
      PROVE  Late(f, k) = {}
  <2>1. ASSUME NEW j \in 1..Len(f.lines)
        PROVE  ~(f.lines[j].time - f.lines[k].time > FlushInterval)
    <3>1. f.lines[j].time \in Nat /\ f.lines[k].time \in Nat /\ f.lines[j].time <= u
      BY <1>1
    <3> QED BY <1>3, <3>1, LogFileParametersAssumption
  <2> QED BY <1>1, <2>1 DEF Late
<1> QED BY <1>2, <1>3, FS_EmptySet

\* A new or a flushed file.
LEMMA FileCounts ==
  ASSUME NEW f \in Files, NEW t \in 1..MaxTime
  PROVE  /\ NewFile(t) \in Files /\ NewFile(t).opened = t /\ Len(NewFile(t).lines) = 0
         /\ NewFile(t).flushed = 0
         /\ Cardinality(OffDay(NewFile(t))) = 0
         /\ Flushed(f) \in Files /\ Flushed(f).opened = f.opened /\ Flushed(f).lines = f.lines
         /\ Flushed(f).flushed = Len(f.lines)
         /\ OffDay(Flushed(f)) = OffDay(f)
         /\ \A k : Late(Flushed(f), k) = Late(f, k)
<1>1. <<>> \in Seq(Lines) /\ Len(<<>>) = 0 /\ DOMAIN <<>> = {}
  BY EmptySeq
<1>2. NewFile(t) \in Files /\ NewFile(t).opened = t /\ NewFile(t).lines = <<>> /\ NewFile(t).flushed = 0
  BY <1>1 DEF NewFile, Files
<1>3. OffDay(NewFile(t)) = {}
  BY <1>1, <1>2 DEF OffDay
<1>4. /\ Flushed(f) \in Files /\ Flushed(f).opened = f.opened
      /\ Flushed(f).lines = f.lines /\ Flushed(f).flushed = Len(f.lines)
  <2>1. Len(f.lines) \in Nat
    BY LenProperties DEF Files
  <2> QED BY <2>1 DEF Flushed, Files
<1> QED BY <1>1, <1>2, <1>3, <1>4, FS_EmptySet DEF OffDay, Late

\* The files after a step that replaces the current one.
LEMMA TimeReplaced ==
  ASSUME FileTypeOK, NEW f \in Files, files' = Current(f),
         \A i \in DOMAIN files : Cardinality(OffDay(files[i])) <= CheckEveryN,
         Cardinality(OffDay(f)) <= CheckEveryN
  PROVE  file' = f /\ \A i \in DOMAIN files' : Cardinality(OffDay(files'[i])) <= CheckEveryN
<1>1. /\ files' \in Seq(Files) /\ Len(files') = Len(files)
      /\ Len(files) \in Nat \ {0} /\ DOMAIN files = 1..Len(files) /\ DOMAIN files' = 1..Len(files)
      /\ \A i \in 1..Len(files) : files'[i] = IF i = Len(files) THEN f ELSE files[i]
  BY CurrentProperties, LenProperties DEF FileTypeOK
<1>2. file' = files'[Len(files)]
  BY <1>1 DEF file
<1>3. ASSUME NEW i \in DOMAIN files'
      PROVE  Cardinality(OffDay(files'[i])) <= CheckEveryN
  <2>1. i \in DOMAIN files /\ (files'[i] = f \/ files'[i] = files[i])
    BY <1>1
  <2> QED BY <2>1
<1>4. file' = f
  <2>1. Len(files) \in 1..Len(files)
    <3>1. \A m \in Nat \ {0} : m \in 1..m
      OBVIOUS
    <3> QED BY <1>1, <3>1
  <2> QED BY <1>1, <1>2, <2>1
<1> QED BY <1>3, <1>4

\* ... and after one that begins another.
LEMMA TimeBegun ==
  ASSUME FileTypeOK, NEW f \in Files, now \in 1..MaxTime,
         files' = Append(Current(f), NewFile(now)),
         \A i \in DOMAIN files : Cardinality(OffDay(files[i])) <= CheckEveryN,
         Cardinality(OffDay(f)) <= CheckEveryN
  PROVE  file' = NewFile(now)
         /\ \A i \in DOMAIN files' : Cardinality(OffDay(files'[i])) <= CheckEveryN
<1> DEFINE g == NewFile(now)
<1>1. g \in Files /\ Cardinality(OffDay(g)) = 0
  BY FileCounts
<1>a. files' = Append(Current(f), g)
  OBVIOUS
<1> HIDE DEF g
<1>2. /\ files' \in Seq(Files) /\ Len(files') = Len(files) + 1
      /\ files'[Len(files')] = g
      /\ \A i \in 1..Len(files) : files'[i] = IF i = Len(files) THEN f ELSE files[i]
  <2> DEFINE s == Append(Current(f), g)
  <2>1. /\ s \in Seq(Files) /\ Len(s) = Len(files) + 1 /\ s[Len(s)] = g
        /\ \A i \in 1..Len(files) : s[i] = IF i = Len(files) THEN f ELSE files[i]
    BY <1>1, BegunProperties
  <2>2. files' = s
    BY <1>a
  <2> HIDE DEF s
  <2> QED BY <2>1, <2>2
<1>3. Len(files) \in Nat /\ DOMAIN files = 1..Len(files) /\ DOMAIN files' = 1..Len(files')
  BY <1>2, LenProperties DEF FileTypeOK
<1>4. file' = g
  BY <1>2 DEF file
<1>5. CheckEveryN \in Nat
  BY LogFileParametersAssumption
<1>6. ASSUME NEW i \in DOMAIN files'
      PROVE  Cardinality(OffDay(files'[i])) <= CheckEveryN
  <2>1. i \in 1..(Len(files) + 1)
    BY <1>2, <1>3
  <2>2. i \in 1..Len(files) \/ i = Len(files) + 1
    BY <1>3, <2>1
  <2>3. files'[i] = g \/ files'[i] = f \/ (i \in DOMAIN files /\ files'[i] = files[i])
    BY <1>2, <1>3, <2>2
  <2>4. Cardinality(OffDay(g)) <= CheckEveryN
    BY <1>1, <1>5
  <2> QED BY <2>3, <2>4
<1> QED BY <1>4, <1>6 DEF g

\* The first file has no lines.
LEMMA TimeInitially == FileInit => TimeInv
<1> SUFFICES ASSUME FileInit PROVE TimeInv
  OBVIOUS
<1>1. FileInv /\ CheckEveryN \in Nat /\ now \in 1..MaxTime
  BY FileInitially, LogFileParametersAssumption DEF FileInit
<1>2. file = NewFile(now) /\ DOMAIN files = {1} /\ files[1] = file
  <2>1. files = <<NewFile(now)>> /\ Len(files) = 1
    BY DEF FileInit
  <2> QED BY <2>1 DEF file
<1>3. /\ file \in Files /\ Len(file.lines) = 0 /\ file.flushed = 0
      /\ Cardinality(OffDay(file)) = 0
  <2>1. \E f : f \in Files
    BY <1>1, NewFileProperties
  <2> QED BY <1>1, <1>2, <2>1, FileCounts
<1>4. CurrentOK(file)
  BY <1>3 DEF CurrentOK, FileInit
<1> QED BY <1>1, <1>2, <1>3, <1>4 DEF TimeInv, FileInit

\* Every append, flush and second keeps the counts.
LEMMA TimeInductive ==
  ASSUME ClockSteps \subseteq Nat
  PROVE  FileInv /\ TimeInv /\ [FileNext]_fileVars => TimeInv'
<1> SUFFICES ASSUME FileInv, TimeInv, [FileNext]_fileVars PROVE TimeInv'
  OBVIOUS
<1>1. /\ FileTypeOK /\ file \in Files /\ file.opened = lastRoll
  <2>1. FileTypeOK /\ file.opened = lastRoll
    BY DEF FileInv
  <2>2. files \in Seq(Files) /\ Len(files) \in Nat /\ Len(files) # 0
    BY <2>1, EmptySeq, LenProperties DEF FileTypeOK
  <2> QED BY <2>1, <2>2, ElementOfSeq DEF file
<1>2. /\ now \in Nat /\ now \in 0..MaxTime /\ count \in 0..(CheckEveryN - 1)
      /\ lastRoll \in Nat /\ lastRoll \in 1..MaxTime /\ lastFlush \in Nat
      /\ lastFlush \in lastRoll..MaxTime
      /\ MaxTime \in Nat /\ FlushInterval \in Nat /\ CheckEveryN \in Nat \ {0}
      /\ lastRoll <= now /\ lastFlush <= now /\ startOfPeriod = Day(lastRoll)
  BY <1>1, LogFileParametersAssumption, LogFileBoundsAssumption DEF FileTypeOK, TimeInv
<1>3. /\ \A k \in 1..Len(file.lines) : file.lines[k].time \in lastRoll..now
      /\ Cardinality(OffDay(file)) <= count
      /\ \A k \in (file.flushed + 1)..Len(file.lines) :
           lastFlush <= file.lines[k].time /\ Cardinality(Late(file, k)) <= count
      /\ \A i \in DOMAIN files : Cardinality(OffDay(files[i])) <= CheckEveryN
  BY <1>1 DEF TimeInv, CurrentOK
<1>4. CASE Tick
  <2>1. now' \in Nat /\ now <= now' /\ UNCHANGED <<count, startOfPeriod, lastRoll, lastFlush, files>>
    <3>1. PICK d \in ClockSteps : now' = now + d
      BY <1>4 DEF Tick
    <3> QED BY <1>2, <1>4, <3>1 DEF Tick
  <2>2. \A k \in 1..Len(file.lines) : file.lines[k].time \in lastRoll..now'
    BY <1>2, <1>3, <2>1
  <2> QED BY <1>1, <1>2, <1>3, <2>1, <2>2 DEF TimeInv, CurrentOK, file
<1>5. ASSUME Len(file.lines) \in Nat, Flush
      PROVE  TimeInv'
  <2>1. /\ files' = Current(Flushed(file))
        /\ UNCHANGED <<now, count, startOfPeriod, lastRoll, lastFlush>>
    BY <1>5 DEF Flush
  <2> DEFINE g == Flushed(file)
  <2>2. /\ g \in Files /\ g.opened = lastRoll /\ g.lines = file.lines
        /\ g.flushed = Len(file.lines) /\ OffDay(g) = OffDay(file)
    BY <1>1, <1>2, FileCounts
  <2>3. Cardinality(OffDay(file)) <= CheckEveryN
    <3>1. Len(files) \in DOMAIN files
      BY <1>1, EmptySeq, LenProperties DEF FileTypeOK
    <3> QED BY <1>3, <3>1 DEF file
  <2> HIDE DEF g
  <2>4. file' = g /\ \A i \in DOMAIN files' : Cardinality(OffDay(files'[i])) <= CheckEveryN
    BY <1>1, <1>3, <2>1, <2>2, <2>3, TimeReplaced DEF g
  <2>5. CurrentOK(file)'
    BY <1>3, <1>5, <2>1, <2>2, <2>4 DEF CurrentOK
  <2> QED BY <1>2, <2>1, <2>4, <2>5 DEF TimeInv
<1>6. ASSUME NEW len \in LineLengths, AppendUnlocked(len)
      PROVE  TimeInv'
  <2> DEFINE line == [len |-> len, time |-> now]
             f == Written(file, line)
             n == Len(file.lines)
  <2>1. line \in Lines /\ line.time = now
    BY <1>2 DEF Lines
  <2> HIDE DEF line
  <2>2. /\ f \in Files /\ n \in Nat /\ Len(f.lines) = n + 1
        /\ f.opened = lastRoll /\ f.flushed = file.flushed
        /\ f.lines[n + 1].time = now /\ \A k \in 1..n : f.lines[k] = file.lines[k]
        /\ Cardinality(OffDay(file)) \in Nat /\ Cardinality(OffDay(f)) \in Nat
        /\ Cardinality(OffDay(f)) <= Cardinality(OffDay(file)) + 1
        /\ \A k \in 1..n :
             /\ Cardinality(Late(file, k)) \in Nat /\ Cardinality(Late(f, k)) \in Nat
             /\ Cardinality(Late(f, k)) <= Cardinality(Late(file, k)) + 1
    BY <1>1, <2>1, WrittenCounts
  <2>3. /\ now' = now
        /\ \/ TooLarge(f) /\ RollFile(f) /\ UNCHANGED count
           \/ /\ ~TooLarge(f) /\ count + 1 < CheckEveryN
              /\ count' = count + 1
              /\ files' = Current(f)
              /\ UNCHANGED <<startOfPeriod, lastRoll, lastFlush>>
           \/ /\ ~TooLarge(f) /\ count + 1 >= CheckEveryN
              /\ count' = 0
              /\ \/ NewPeriod /\ RollFile(f)
                 \/ ~NewPeriod /\ FlushIfDue(f)
    BY <1>6 DEF AppendUnlocked, line
  <2> HIDE DEF f, n
  <2>4. \A k \in 1..Len(f.lines) : k \in 1..n \/ k = n + 1
    BY <2>2
  <2>5. \A k \in 1..Len(f.lines) : f.lines[k].time \in lastRoll..now
    <3> SUFFICES ASSUME NEW k \in 1..Len(f.lines) PROVE f.lines[k].time \in lastRoll..now
      OBVIOUS
    <3>1. CASE k = n + 1
      BY <1>2, <2>2, <3>1
    <3>2. CASE k \in 1..n
      BY <1>3, <2>2, <3>2 DEF n
    <3> QED BY <2>4, <3>1, <3>2
  <2>6. /\ Day(now) = Day(lastRoll) => Cardinality(OffDay(f)) = 0
        /\ \A k \in 1..Len(f.lines) :
             now - f.lines[k].time <= FlushInterval => Cardinality(Late(f, k)) = 0
    BY <1>2, <2>2, <2>5, NoneCounted
  <2>7. Cardinality(OffDay(f)) <= CheckEveryN /\ Cardinality(OffDay(f)) <= count + 1
    BY <1>2, <1>3, <2>2
  <2>8. ASSUME NEW k \in (f.flushed + 1)..Len(f.lines), k \in 1..Len(f.lines)
        PROVE  /\ lastFlush <= f.lines[k].time
               /\ Cardinality(Late(f, k)) \in Nat
               /\ Cardinality(Late(f, k)) <= count + 1
    <3>1. CASE k = n + 1
      <4>1. f.lines[k].time = now /\ now - now <= FlushInterval
        BY <1>2, <2>2, <3>1
      <4>2. Cardinality(Late(f, k)) = 0
        BY <2>6, <2>8, <4>1
      <4> QED BY <1>2, <4>1, <4>2
    <3>2. CASE k \in 1..n
      <4>1. k \in (file.flushed + 1)..n
        BY <2>2, <2>8, <3>2
      <4>2. lastFlush <= file.lines[k].time /\ Cardinality(Late(file, k)) <= count
        BY <1>3, <4>1 DEF n
      <4> DEFINE c == Cardinality(Late(file, k))
                 d == Cardinality(Late(f, k))
      <4>3. c \in Nat /\ d \in Nat /\ d <= c + 1 /\ c <= count /\ f.lines[k] = file.lines[k]
        BY <2>2, <3>2, <4>2
      <4> HIDE DEF c, d
      <4>4. d <= count + 1
        BY <1>2, <4>3
      <4> QED BY <4>2, <4>3, <4>4 DEF d
    <3> QED BY <2>4, <2>8, <3>1, <3>2
  <2>9. ASSUME NEW k \in (f.flushed + 1)..Len(f.lines)
        PROVE  k \in 1..Len(f.lines)
    <3>1. f.flushed \in Nat /\ Len(f.lines) \in Nat
      BY <2>2 DEF Files
    <3> QED BY <3>1
  <2>10. CASE RollFile(f) /\ now > lastRoll
    <3>1. /\ lastRoll' = now /\ lastFlush' = now /\ startOfPeriod' = Day(now)
          /\ files' = Append(Current(Flushed(f)), NewFile(now))
      BY <2>10 DEF RollFile
    <3>2. now \in 1..MaxTime
      BY <1>2, <2>10
    <3>3. Flushed(f) \in Files /\ OffDay(Flushed(f)) = OffDay(f)
      BY <2>2, <3>2, FileCounts
    <3>4. /\ file' = NewFile(now)
          /\ \A i \in DOMAIN files' : Cardinality(OffDay(files'[i])) <= CheckEveryN
      BY <1>1, <1>3, <2>7, <3>1, <3>2, <3>3, TimeBegun
    <3>5. Len(file'.lines) = 0 /\ file'.flushed = 0 /\ Cardinality(OffDay(file')) = 0
      BY <2>2, <3>2, <3>4, FileCounts
    <3>6. count' \in Nat
      BY <1>2, <2>3
    <3>7. CurrentOK(file)'
      BY <3>5, <3>6 DEF CurrentOK, OffDay
    <3> QED BY <1>2, <2>3, <3>1, <3>4, <3>7 DEF TimeInv
  <2>11. ASSUME files' = Current(f), UNCHANGED <<startOfPeriod, lastRoll, lastFlush>>,
                Cardinality(OffDay(f)) <= count',
                \A k \in 1..Len(f.lines) : k \in (f.flushed + 1)..Len(f.lines) => Cardinality(Late(f, k)) <= count'
         PROVE  TimeInv'
    <3>1. file' = f /\ \A i \in DOMAIN files' : Cardinality(OffDay(files'[i])) <= CheckEveryN
      BY <1>1, <1>3, <2>2, <2>7, <2>11, TimeReplaced
    <3>2. CurrentOK(file)'
      BY <2>2, <2>3, <2>5, <2>8, <2>9, <2>11, <3>1 DEF CurrentOK
    <3> QED BY <1>2, <2>3, <2>11, <3>1, <3>2 DEF TimeInv
  <2>12. CASE RollFile(f) /\ ~(now > lastRoll)
    <3>1. files' = Current(f) /\ UNCHANGED <<lastRoll, lastFlush, startOfPeriod>>
      BY <2>12 DEF RollFile
    <3>2. now = lastRoll /\ count' \in Nat
      BY <1>2, <2>3, <2>12
    <3>3. ASSUME NEW k \in 1..Len(f.lines)
          PROVE  Cardinality(Late(f, k)) <= count'
      <4>1. now - f.lines[k].time <= FlushInterval
        BY <1>2, <2>5, <3>2
      <4> QED BY <2>6, <3>2, <4>1
    <3>4. Cardinality(OffDay(f)) <= count'
      BY <2>6, <3>2
    <3> QED BY <2>11, <3>1, <3>3, <3>4
  <2>13. CASE /\ count' = count + 1 /\ files' = Current(f)
              /\ UNCHANGED <<startOfPeriod, lastRoll, lastFlush>>
    BY <2>7, <2>8, <2>11, <2>13
  <2>14. CASE count' = 0 /\ ~NewPeriod /\ FlushIfDue(f)
    <3>1. Cardinality(OffDay(f)) = 0
      BY <1>2, <2>6, <2>14 DEF NewPeriod
    <3>2. CASE FlushDue
      <4> DEFINE g == Flushed(f)
      <4>1. /\ lastFlush' = now /\ files' = Current(g) /\ UNCHANGED <<lastRoll, startOfPeriod>>
        BY <2>14, <3>2 DEF FlushIfDue
      <4>2. /\ g \in Files /\ g.opened = lastRoll /\ g.lines = f.lines
            /\ g.flushed = Len(f.lines) /\ OffDay(g) = OffDay(f)
        BY <1>2, <2>2, FileCounts
      <4> HIDE DEF g
      <4>3. file' = g /\ \A i \in DOMAIN files' : Cardinality(OffDay(files'[i])) <= CheckEveryN
        BY <1>1, <1>3, <2>7, <4>1, <4>2, TimeReplaced
      <4>4. CurrentOK(file)'
        <5>1. (g.flushed + 1)..Len(g.lines) = {}
          BY <2>2, <4>2
        <5>2. \A k \in 1..Len(g.lines) : g.lines[k].time \in g.opened..now'
          BY <2>2, <2>3, <2>5, <4>2
        <5>3. Cardinality(OffDay(g)) <= count'
          BY <2>14, <3>1, <4>2
        <5> QED BY <4>3, <5>1, <5>2, <5>3 DEF CurrentOK
      <4> QED BY <1>2, <2>3, <4>1, <4>3, <4>4 DEF TimeInv
    <3>3. CASE ~FlushDue
      <4>1. files' = Current(f) /\ UNCHANGED <<lastRoll, lastFlush, startOfPeriod>>
        BY <2>14, <3>3 DEF FlushIfDue
      <4>2. ASSUME NEW k \in 1..Len(f.lines), k \in (f.flushed + 1)..Len(f.lines)
            PROVE  Cardinality(Late(f, k)) <= count'
        <5>1. lastFlush <= f.lines[k].time /\ f.lines[k].time \in Nat
          BY <1>2, <2>5, <2>8, <4>2
        <5>2. now - lastFlush <= FlushInterval
          BY <1>2, <3>3 DEF FlushDue
        <5>3. now - f.lines[k].time <= FlushInterval
          BY <1>2, <5>1, <5>2
        <5> QED BY <2>6, <2>14, <5>3
      <4> QED BY <2>11, <2>14, <3>1, <4>1, <4>2
    <3> QED BY <3>2, <3>3
  <2> QED BY <2>3, <2>10, <2>12, <2>13, <2>14
<1>7. CASE UNCHANGED fileVars
  BY <1>3, <1>7 DEF fileVars, TimeInv, CurrentOK, file, OffDay, Late
<1>8. Len(file.lines) \in Nat
  BY <1>1, LenProperties DEF Files
<1> QED BY <1>4, <1>5, <1>6, <1>7, <1>8 DEF FileNext

\* The invariants hold throughout.
LEMMA TimeHolds ==
  ASSUME ClockSteps \subseteq Nat
  PROVE  FileSpec => [](FileInv /\ TimeInv)
<1>1. FileInv /\ TimeInv /\ [FileNext]_fileVars => (FileInv /\ TimeInv)'
  BY FileInductive, TimeInductive
<1> QED BY <1>1, FileInitially, TimeInitially, PTL DEF FileSpec

\* DayBound holds whatever the sizes if the clock is never set back: a line of
\* another day is counted in count_ unless the file is rolled, and then it is,
\* as the clock has passed lastRoll_ (append_unlocked, rollFile).
THEOREM DaysBounded ==
  ASSUME ClockSteps \subseteq Nat
  PROVE  FileSpec => []DayBound
<1>1. TimeInv => DayBound
  BY DEF TimeInv, DayBound
<1> QED BY <1>1, TimeHolds, PTL

\* FlushedInTime holds if the clock is never set back: lines that come late
\* after one that was not flushed are counted in count_, and the append that
\* resets count_ finds that lastFlush_ is long ago, or rolls the file.
THEOREM LinesFlushedInTime ==
  ASSUME ClockSteps \subseteq Nat
  PROVE  FileSpec => []FlushedInTime
<1>1. FileInv /\ TimeInv => FlushedInTime
  <2> SUFFICES ASSUME FileTypeOK, TimeInv, NEW k \in (file.flushed + 1)..Len(file.lines)
               PROVE  Cardinality(Late(file, k)) < CheckEveryN
    BY DEF FileInv, FlushedInTime
  <2>1. file.flushed \in Nat /\ Len(file.lines) \in Nat /\ k \in 1..Len(file.lines)
    <3>1. file \in Files
      <4>1. files \in Seq(Files) /\ Len(files) \in Nat /\ Len(files) # 0
        BY EmptySeq, LenProperties DEF FileTypeOK
      <4> QED BY <4>1, ElementOfSeq DEF file
    <3>2. file.flushed \in Nat /\ Len(file.lines) \in Nat
      BY <3>1, LenProperties DEF Files
    <3> QED BY <3>2
  <2>2. Cardinality(Late(file, k)) <= count
    BY DEF TimeInv, CurrentOK
  <2>3. Cardinality(Late(file, k)) \in Nat
    <3>1. Late(file, k) \in SUBSET (1..Len(file.lines))
      <4>1. DOMAIN file.lines = 1..Len(file.lines)
        BY <2>1 DEF Late
      <4> QED BY <4>1 DEF Late
    <3> QED BY <2>1, <3>1, OneMore
  <2> QED BY <2>2, <2>3, LogFileParametersAssumption DEF FileTypeOK
<1> QED BY <1>1, TimeHolds, PTL
=============================================================================
