----------------------------- MODULE EventLoop -----------------------------
(***************************************************************************)
(* One EventLoop (src/Reactor/EventLoop.cpp): the owner thread runs        *)
(* loop(): poll, handle the active channels, run the queued functors.      *)
(* Other threads, the Callers, hand it functors with queueInLoop() and end *)
(* it with quit(); both then write to an eventfd whose only purpose is to  *)
(* bring the owner back from poll().  A functor is a number: the position  *)
(* at which it entered pendingFunctors_.                                   *)
(*                                                                         *)
(* runInLoop() adds no action: from a Caller it is queueInLoop(), from the *)
(* owner it runs the functor on the spot, that is, inside the callback or  *)
(* functor the owner is already executing.                                 *)
(***************************************************************************)
EXTENDS Integers, Sequences

CONSTANTS
    Callers,        \* the threads other than the owner that use the loop
    Channels,       \* the channels registered with the poller, but for:
    WakeupFd,       \* wakeupChannel_, the channel of the eventfd
    MaxTasks,       \* bound: functors queued in a behaviour
    EventfdMax      \* the largest value of the eventfd counter

ASSUME WakeupFdAssumption == WakeupFd \notin Channels
ASSUME MaxTasksAssumption == MaxTasks \in Nat
ASSUME EventfdMaxAssumption == EventfdMax \in Nat \ {0}

VARIABLES
    pending,        \* pendingFunctors_ (guarded by mutex_)
    eventfd,        \* the kernel's counter behind wakeupFd_
    quit,           \* quit_
    loopPc,         \* where the owner is, see LoopPcs
    active,         \* activeChannels_ still to be handled
    functors,       \* the rest of the vector swapped out by doPendingFunctors()
    callingPending, \* callingPendingFunctors_
    ready,          \* channels with an event nobody has consumed
    pc,             \* where each Caller is
    \* History, read by no guard but the bound:
    submitted,      \* how many functors were queued
    ran,            \* the functors started, in order
    early           \* functors the owner queued before calling loop()

loopVars == <<pending, eventfd, quit, loopPc, active, functors, callingPending,
          ready, pc, submitted, ran, early>>

ownerVars == <<loopPc, active, functors, callingPending, ran>>

(***************************************************************************)
(* "before" loop() is called; "check" the while condition; "poll" inside   *)
(* poll(); "dispatch" between two active channels; "callback" inside a     *)
(* channel's callback; "drain" between two functors; "functor" inside one; *)
(* "done" after loop() returned.                                           *)
(***************************************************************************)
LoopPcs == {"before", "check", "poll", "dispatch", "callback", "drain",
            "functor", "done"}

\* User code runs on the owner thread only at these places.
InUserCode == loopPc \in {"before", "callback", "functor"}

LoopTypeOK ==
    /\ pending \in Seq(1..MaxTasks)
    /\ eventfd \in 0..EventfdMax
    /\ quit \in BOOLEAN
    /\ loopPc \in LoopPcs
    /\ active \subseteq Channels \cup {WakeupFd}
    /\ functors \in Seq(1..MaxTasks)
    /\ callingPending \in BOOLEAN
    /\ ready \subseteq Channels
    /\ pc \in [Callers -> {"idle", "wakeup"}]
    /\ submitted \in 0..MaxTasks
    /\ ran \in Seq(1..MaxTasks)
    /\ early \subseteq 1..MaxTasks

LoopInit ==
    /\ pending = <<>>
    /\ eventfd = 0
    /\ quit = FALSE
    /\ loopPc = "before"
    /\ active = {}
    /\ functors = <<>>
    /\ callingPending = FALSE
    /\ ready = {}
    /\ pc = [t \in Callers |-> "idle"]
    /\ submitted = 0
    /\ ran = <<>>
    /\ early = {}

-----------------------------------------------------------------------------
(* The pieces both kinds of thread share.                                  *)

\* pendingFunctors_.push_back(cb) under mutex_.
PushBack ==
    /\ submitted < MaxTasks
    /\ submitted' = submitted + 1
    /\ pending' = Append(pending, submitted + 1)

\* The counter after wakeup()'s write: at its maximum the write fails
\* (the eventfd does not block), is logged, and the counter stays positive.
Woken == IF eventfd < EventfdMax THEN eventfd + 1 ELSE eventfd

-----------------------------------------------------------------------------
(* A thread other than the owner.                                          *)

QueueInLoop(t) ==
    /\ pc[t] = "idle"
    /\ PushBack
    /\ pc' = [pc EXCEPT ![t] = "wakeup"]
    /\ UNCHANGED <<eventfd, quit, ready, early, ownerVars>>

\* quit() relying on the poll timeout.
QuitNoWakeup(t) ==
    /\ pc[t] = "idle"
    /\ quit' = TRUE
    /\ UNCHANGED <<pending, eventfd, ready, submitted, early, pc, ownerVars>>

Quit(t) ==
    /\ pc[t] = "idle"
    /\ quit' = TRUE
    /\ pc' = [pc EXCEPT ![t] = "wakeup"]
    /\ UNCHANGED <<pending, eventfd, ready, submitted, early, ownerVars>>

Wakeup(t) ==
    /\ pc[t] = "wakeup"
    /\ eventfd' = Woken
    /\ pc' = [pc EXCEPT ![t] = "idle"]
    /\ UNCHANGED <<pending, quit, ready, submitted, early, ownerVars>>

-----------------------------------------------------------------------------
(* User code on the owner thread.                                          *)

\* A reader who sees isInLoopThread() may take the wakeup to be superfluous.
OwnerQueueInLoopNoWakeup ==
    /\ InUserCode
    /\ PushBack
    /\ early' = IF loopPc = "before" THEN early \cup {submitted + 1} ELSE early
    /\ UNCHANGED <<eventfd, quit, ready, pc, ownerVars>>

OwnerQueueInLoop ==
    /\ InUserCode
    /\ PushBack
    /\ eventfd' = IF callingPending THEN Woken ELSE eventfd
    /\ early' = IF loopPc = "before" THEN early \cup {submitted + 1} ELSE early
    /\ UNCHANGED <<quit, ready, pc, ownerVars>>

OwnerQuit ==
    /\ InUserCode
    /\ quit' = TRUE
    /\ UNCHANGED <<pending, eventfd, ready, pc, submitted, early, ownerVars>>

\* The callback or the functor returns.
OwnerReturn ==
    /\ loopPc \in {"callback", "functor"}
    /\ loopPc' = IF loopPc = "callback" THEN "dispatch" ELSE "drain"
    /\ UNCHANGED <<pending, eventfd, quit, active, functors, callingPending,
                   ready, pc, submitted, ran, early>>

-----------------------------------------------------------------------------
(* loop() on the owner thread.                                             *)

LoopStart ==
    /\ loopPc = "before"
    /\ quit' = FALSE
    /\ loopPc' = "check"
    /\ UNCHANGED <<pending, eventfd, active, functors, callingPending, ready,
                   pc, submitted, ran, early>>

LoopCheck ==
    /\ loopPc = "check"
    /\ loopPc' = IF quit THEN "done" ELSE "poll"
    /\ active' = {}
    /\ UNCHANGED <<pending, eventfd, quit, functors, callingPending, ready,
                   pc, submitted, ran, early>>

\* The poller is level triggered and reports every fd that is readable.
PollResult == ready \cup (IF eventfd > 0 THEN {WakeupFd} ELSE {})

PollReturn ==
    /\ loopPc = "poll"
    /\ PollResult # {}
    /\ active' = PollResult
    /\ loopPc' = "dispatch"
    /\ UNCHANGED <<pending, eventfd, quit, functors, callingPending, ready,
                   pc, submitted, ran, early>>

\* kPollTimeMs elapsed, or poll() was interrupted by a signal.
PollTimeout ==
    /\ loopPc = "poll"
    /\ PollResult = {}
    /\ loopPc' = "dispatch"
    /\ UNCHANGED <<pending, eventfd, quit, active, functors, callingPending,
                   ready, pc, submitted, ran, early>>

\* The pollers fix no order among the active channels.
HandleRead ==
    /\ loopPc = "dispatch"
    /\ WakeupFd \in active
    /\ active' = active \ {WakeupFd}
    /\ eventfd' = 0
    /\ UNCHANGED <<pending, quit, loopPc, functors, callingPending, ready, pc,
                   submitted, ran, early>>

HandleEvent(c) ==
    /\ loopPc = "dispatch"
    /\ c \in active
    /\ active' = active \ {c}
    /\ ready' = ready \ {c}
    /\ loopPc' = "callback"
    /\ UNCHANGED <<pending, eventfd, quit, functors, callingPending, pc,
                   submitted, ran, early>>

DoPendingFunctors ==
    /\ loopPc = "dispatch"
    /\ active = {}
    /\ callingPending' = TRUE
    /\ functors' = pending
    /\ pending' = <<>>
    /\ loopPc' = "drain"
    /\ UNCHANGED <<eventfd, quit, active, ready, pc, submitted, ran, early>>

\* Running the vector from its end.
RunFunctorLast ==
    /\ loopPc = "drain"
    /\ functors # <<>>
    /\ ran' = Append(ran, functors[Len(functors)])
    /\ functors' = SubSeq(functors, 1, Len(functors) - 1)
    /\ loopPc' = "functor"
    /\ UNCHANGED <<pending, eventfd, quit, active, callingPending, ready, pc,
                   submitted, early>>

RunFunctor ==
    /\ loopPc = "drain"
    /\ functors # <<>>
    /\ ran' = Append(ran, Head(functors))
    /\ functors' = Tail(functors)
    /\ loopPc' = "functor"
    /\ UNCHANGED <<pending, eventfd, quit, active, callingPending, ready, pc,
                   submitted, early>>

EndPendingFunctors ==
    /\ loopPc = "drain"
    /\ functors = <<>>
    /\ callingPending' = FALSE
    /\ loopPc' = "check"
    /\ UNCHANGED <<pending, eventfd, quit, active, functors, ready, pc,
                   submitted, ran, early>>

-----------------------------------------------------------------------------
(* A registered descriptor becomes readable.                               *)

ChannelReady(c) ==
    /\ c \notin ready
    /\ ready' = ready \cup {c}
    /\ UNCHANGED <<pending, eventfd, quit, pc, submitted, early, ownerVars>>

-----------------------------------------------------------------------------

CallerStep(t) == QueueInLoop(t) \/ Quit(t) \/ Wakeup(t)

\* What the owner does without being told to by user code or the clock.
LoopStep ==
    \/ LoopStart \/ LoopCheck \/ PollReturn
    \/ HandleRead
    \/ \E c \in Channels : HandleEvent(c)
    \/ OwnerReturn
    \/ DoPendingFunctors \/ RunFunctor \/ EndPendingFunctors

LoopNext ==
    \/ \E t \in Callers : CallerStep(t)
    \/ OwnerQueueInLoop \/ OwnerQuit
    \/ LoopStep
    \/ PollTimeout
    \/ \E c \in Channels : ChannelReady(c)

LoopSpec == LoopInit /\ [][LoopNext]_loopVars

(***************************************************************************)
(* The owner keeps running and user code returns; a Caller that changed    *)
(* the shared state goes on to its wakeup().  Nothing is assumed of        *)
(* PollTimeout: what holds under LoopFairSpec needs no waiting for the     *)
(* ten seconds of kPollTimeMs.                                             *)
(***************************************************************************)
LoopFairness ==
    /\ WF_loopVars(LoopStep)
    /\ \A t \in Callers : WF_loopVars(Wakeup(t))

LoopFairSpec == LoopSpec /\ LoopFairness

-----------------------------------------------------------------------------
(* Correctness.                                                            *)

WakeupOnTheWay == eventfd > 0 \/ \E t \in Callers : pc[t] = "wakeup"

(***************************************************************************)
(* The owner never sits in poll() over a queued functor or a quit request  *)
(* without a wakeup having been, or being about to be, written: the race   *)
(* of queueInLoop()/quit() with the swap in doPendingFunctors(), with the  *)
(* reset of the eventfd in handleRead() and with functors that queue       *)
(* functors.  Functors the owner queued before loop() are the exception    *)
(* the condition in queueInLoop() leaves.                                  *)
(***************************************************************************)
NoSleepOverWork ==
    loopPc = "poll" /\ (quit \/ \E i \in DOMAIN pending : pending[i] \notin early)
        => WakeupOnTheWay

(***************************************************************************)
(* No functor is lost, duplicated or reordered on its way through          *)
(* pendingFunctors_ and the swapped-out vector, also after loop() ended    *)
(* (then the rest stays in pending).                                       *)
(***************************************************************************)
QueueOrder ==
    /\ \A i \in DOMAIN ran : ran[i] = i
    /\ \A i \in DOMAIN functors : functors[i] = Len(ran) + i
    /\ \A i \in DOMAIN pending : pending[i] = Len(ran) + Len(functors) + i
    /\ submitted = Len(ran) + Len(functors) + Len(pending)

\* A functor queued by any thread while or after loop() started runs, unless
\* the loop is told to quit, and it does not take a poll timeout.
FunctorsRun ==
    \A i \in 1..MaxTasks :
        submitted >= i /\ i \notin early ~> Len(ran) >= i \/ loopPc = "done"

\* quit(), from any thread, ends a loop that has started.
QuitEndsLoop == quit /\ loopPc # "before" ~> loopPc = "done"

Queue == INSTANCE TaskQueue WITH stopped <- loopPc = "done"

\* The detailed queue does what TaskQueue promises.
ImplementsTaskQueue == Queue!Spec
=============================================================================
