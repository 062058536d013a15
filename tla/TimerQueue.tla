----------------------------- MODULE TimerQueue -----------------------------
(***************************************************************************)
(* TimerQueue (src/Timer/TimerQueue.cpp) and the one timerfd behind it.    *)
(* The owner thread runs the event loop: poll, handle the active channels  *)
(* (the timerfd's is one of them), run the queued functors.  User code on  *)
(* the owner adds and cancels timers directly, from timer callbacks too;   *)
(* the other threads, the Callers, do so through functors.                 *)
(*                                                                         *)
(* Timer objects live at addresses that are used again after delete, so a  *)
(* timer is told apart by its sequence number.  Time is counted in units   *)
(* of the least delay the timerfd is armed with (100 microseconds).        *)
(***************************************************************************)
EXTENDS Integers, FiniteSets, SequencesExt

CONSTANTS
    Callers,        \* threads other than the owner
    Addrs,          \* the addresses operator new returns, numbers
    Free,           \* what is at an address with no object
    None,           \* no time, no timer
    Intervals,      \* the intervals of timers; 0 for one that runs once
    MaxTime,        \* bound: the last instant modelled
    MaxTimers,      \* bound: timers created
    MaxFunctors     \* bound: functors waiting at a time

ASSUME BoundsAssumption ==
    Addrs \subseteq Nat /\ MaxTime \in Nat /\ MaxTimers \in Nat
    /\ MaxFunctors \in Nat /\ Intervals \subseteq Nat

Times == 0..MaxTime

VARIABLES
    heap,           \* heap[a]: the Timer at address a, or Free
    created,        \* Timer::s_numCreated_
    functors,       \* the loop's pendingFunctors_, oldest first
    todo,           \* how many of them doPendingFunctors() has swapped out
    loopPc,         \* where the owner is, see LoopPcs
    timers,         \* timers_, a set of <<expiration, address>>
    activeTimers,   \* activeTimers_, a set of <<address, sequence>>
    canceling,      \* cancelingTimers_
    expired,        \* the expired timers handleRead() is working on
    next,           \* the index in expired of the next callback
    batchNow,       \* the time handleRead() read
    now,            \* the clock
    armed,          \* when the timerfd expires next, or None
    readable,       \* the timerfd has expired and was not read
    reported,       \* poll() returned with the timerfd active
    pc,             \* pc[t]: the timer whose id caller t has yet to read, or None
    ids,            \* every TimerId returned by addTimer()
    \* History:
    hasRun,         \* sequence numbers whose callback was called
    cancelled,      \* ... whose cancelInLoop() found them queued or expired
    wrongId         \* an id was returned that is not that of the timer added

loopVars == <<loopPc, todo, expired, next, batchNow, canceling, reported>>
fdVars   == <<armed, readable>>
setVars  == <<timers, activeTimers>>
vars == <<heap, created, functors, loopVars, setVars, fdVars, now, pc, ids,
          hasRun, cancelled, wrongId>>

(***************************************************************************)
(* "poll": in poll(); "dispatch": among the active channels (and before    *)
(* loop()); "calling", "callback": in handleRead(), between and inside     *)
(* timer callbacks; "functors": in doPendingFunctors().                    *)
(***************************************************************************)
LoopPcs == {"poll", "dispatch", "calling", "callback", "functors"}

callingExpiredTimers == loopPc \in {"calling", "callback"}

InUserCode == loopPc \in {"dispatch", "callback", "functors"}

Timer == [sequence : 1..MaxTimers, expiration : Nat, interval : Intervals]
ASSUME ValuesAssumption == Free \notin Timer /\ None \notin Nat

Id == Addrs \X (0..MaxTimers)
Functor == [op : {"add"}, timer : Addrs] \cup [op : {"cancel"}, id : Id]

TypeOK ==
    /\ heap \in [Addrs -> Timer \cup {Free}]
    /\ created \in 0..MaxTimers
    /\ functors \in Seq(Functor) /\ Len(functors) <= MaxFunctors
    /\ todo \in 0..Len(functors)
    /\ loopPc \in LoopPcs
    /\ timers \subseteq Nat \X Addrs
    /\ activeTimers \subseteq Id
    /\ canceling \subseteq Id
    /\ expired \in Seq(Addrs)
    /\ next \in 1..(Len(expired) + 1)
    /\ batchNow \in Times
    /\ now \in Times
    /\ armed \in Nat \cup {None}
    /\ readable \in BOOLEAN /\ reported \in BOOLEAN
    /\ pc \in [Callers -> Id \cup {None}]
    /\ ids \subseteq Id
    /\ hasRun \subseteq 1..MaxTimers
    /\ cancelled \subseteq 1..MaxTimers
    /\ wrongId \in BOOLEAN

Init ==
    /\ heap = [a \in Addrs |-> Free]
    /\ created = 0
    /\ functors = <<>> /\ todo = 0
    /\ loopPc = "dispatch"
    /\ timers = {} /\ activeTimers = {} /\ canceling = {}
    /\ expired = <<>> /\ next = 1 /\ batchNow = 0
    /\ now = 0
    /\ armed = None /\ readable = FALSE /\ reported = FALSE
    /\ pc = [t \in Callers |-> None]
    /\ ids = {}
    /\ hasRun = {} /\ cancelled = {} /\ wrongId = FALSE

-----------------------------------------------------------------------------
(* The timerfd.                                                            *)

\* resetTimerfd(): at least one unit from now; the count of expirations, and
\* with it the readability, starts anew.
ResetTimerfd(expiration) ==
    /\ armed' = IF expiration > now THEN expiration ELSE now + 1
    /\ readable' = FALSE

\* The kernel lets it expire.  At MaxTime whatever time remains has passed.
TimerfdExpires ==
    /\ armed # None
    /\ now >= armed \/ now = MaxTime
    /\ readable' = TRUE
    /\ armed' = None
    /\ UNCHANGED <<heap, created, functors, loopVars, setVars, now, pc, ids,
                   hasRun, cancelled, wrongId>>

Tick ==
    /\ now < MaxTime
    /\ now' = now + 1
    /\ UNCHANGED <<heap, created, functors, loopVars, setVars, fdVars, pc, ids,
                   hasRun, cancelled, wrongId>>

-----------------------------------------------------------------------------
(* addTimer() and cancel().                                                *)

\* new Timer: any free address.
NewTimer(a, when, interval) ==
    /\ created < MaxTimers
    /\ heap[a] = Free
    /\ created' = created + 1
    /\ heap' = [heap EXCEPT ![a] = [sequence |-> created + 1,
                                    expiration |-> when, interval |-> interval]]

EarliestChanged(when) == \A x \in timers : when < x[1]

\* Arming the timerfd for the first timer only.
AddTimerInLoopFirst(a, obj) ==
    /\ timers' = timers \cup {<<obj.expiration, a>>}
    /\ activeTimers' = activeTimers \cup {<<a, obj.sequence>>}
    /\ IF timers = {} THEN ResetTimerfd(obj.expiration) ELSE UNCHANGED fdVars

\* addTimerInLoop() with timer object obj at a: insert() and, for a new
\* earliest timer, resetTimerfd().
AddTimerInLoop(a, obj) ==
    /\ timers' = timers \cup {<<obj.expiration, a>>}
    /\ activeTimers' = activeTimers \cup {<<a, obj.sequence>>}
    /\ IF EarliestChanged(obj.expiration)
       THEN ResetTimerfd(obj.expiration)
       ELSE UNCHANGED fdVars

\* The timers that can still be called off: queued, or in the batch.
Cancellable(id) ==
    \/ id \in activeTimers
    \/ /\ callingExpiredTimers
       /\ \E i \in DOMAIN expired :
            expired[i] = id[1] /\ heap[id[1]].sequence = id[2]

\* Looking the timer up by its address only.
CancelInLoopByAddress(id) ==
    /\ \/ /\ \E x \in activeTimers : x[1] = id[1]
          /\ timers' = timers \ {<<heap[id[1]].expiration, id[1]>>}
          /\ activeTimers' = {x \in activeTimers : x[1] # id[1]}
          /\ heap' = [heap EXCEPT ![id[1]] = Free]
          /\ canceling' = canceling
       \/ /\ ~\E x \in activeTimers : x[1] = id[1]
          /\ canceling' = IF callingExpiredTimers THEN canceling \cup {id}
                                                  ELSE canceling
          /\ UNCHANGED <<heap, setVars>>
    /\ cancelled' = IF Cancellable(id) THEN cancelled \cup {id[2]} ELSE cancelled

\* The entry of timers_ is left behind.
CancelInLoopActiveOnly(id) ==
    /\ \/ /\ id \in activeTimers
          /\ activeTimers' = activeTimers \ {id}
          /\ heap' = [heap EXCEPT ![id[1]] = Free]
          /\ UNCHANGED <<timers, canceling>>
       \/ /\ id \notin activeTimers
          /\ canceling' = IF callingExpiredTimers THEN canceling \cup {id}
                                                  ELSE canceling
          /\ UNCHANGED <<heap, setVars>>
    /\ cancelled' = IF Cancellable(id) THEN cancelled \cup {id[2]} ELSE cancelled

\* A queued timer is removed and deleted; otherwise, while callbacks run, it is
\* noted for reset().
CancelInLoop(id) ==
    /\ \/ /\ id \in activeTimers
          /\ timers' = timers \ {<<heap[id[1]].expiration, id[1]>>}
          /\ activeTimers' = activeTimers \ {id}
          /\ heap' = [heap EXCEPT ![id[1]] = Free]
          /\ canceling' = canceling
       \/ /\ id \notin activeTimers
          /\ canceling' = IF callingExpiredTimers THEN canceling \cup {id}
                                                  ELSE canceling
          /\ UNCHANGED <<heap, setVars>>
    /\ cancelled' = IF Cancellable(id) THEN cancelled \cup {id[2]} ELSE cancelled

\* addTimer() on the owner: runInLoop() runs addTimerInLoop() at once.
OwnerAddTimer(a, when, interval) ==
    /\ InUserCode
    /\ NewTimer(a, when, interval)
    /\ AddTimerInLoop(a, heap'[a])
    /\ ids' = ids \cup {<<a, created + 1>>}
    /\ UNCHANGED <<functors, loopVars, now, pc, hasRun, cancelled, wrongId>>

OwnerCancel(id) ==
    /\ InUserCode
    /\ CancelInLoop(id)
    /\ UNCHANGED <<created, functors, loopPc, todo, expired, next, batchNow,
                   reported, fdVars, now, pc, ids, hasRun, wrongId>>

\* addTimer() on a caller: the functor is queued ...
CallerAddTimer(t, a, when, interval) ==
    /\ pc[t] = None
    /\ Len(functors) < MaxFunctors
    /\ NewTimer(a, when, interval)
    /\ functors' = Append(functors, [op |-> "add", timer |-> a])
    /\ pc' = [pc EXCEPT ![t] = <<a, created + 1>>]
    /\ UNCHANGED <<loopVars, setVars, fdVars, now, ids, hasRun, cancelled, wrongId>>

\* ... and then timer->sequence() is read from the object.  If it was deleted
\* in the meantime the memory may be unchanged, hold anything, or a new timer.
CallerGetId(t) ==
    /\ pc[t] # None
    /\ \E s \in IF heap[pc[t][1]] = Free THEN {pc[t][2], 0}
                                         ELSE {heap[pc[t][1]].sequence} :
         /\ ids' = ids \cup {<<pc[t][1], s>>}
         /\ wrongId' = (wrongId \/ s # pc[t][2])
    /\ pc' = [pc EXCEPT ![t] = None]
    /\ UNCHANGED <<heap, created, functors, loopVars, setVars, fdVars, now,
                   hasRun, cancelled>>

CallerCancel(t, id) ==
    /\ pc[t] = None
    /\ Len(functors) < MaxFunctors
    /\ functors' = Append(functors, [op |-> "cancel", id |-> id])
    /\ UNCHANGED <<heap, created, loopVars, setVars, fdVars, now, pc, ids, hasRun,
                   cancelled, wrongId>>

-----------------------------------------------------------------------------
(* The event loop, as far as the TimerQueue sees it.                       *)

\* poll() returns, for the timerfd or for something else.
Poll ==
    /\ loopPc = "poll"
    /\ reported' = readable
    /\ loopPc' = "dispatch"
    /\ UNCHANGED <<heap, created, functors, todo, expired, next, batchNow,
                   canceling, setVars, fdVars, now, pc, ids, hasRun, cancelled,
                   wrongId>>

EndDispatch ==
    /\ loopPc = "dispatch"
    /\ ~reported
    /\ loopPc' = "functors"
    /\ todo' = Len(functors)
    /\ UNCHANGED <<heap, created, functors, expired, next, batchNow, canceling,
                   reported, setVars, fdVars, now, pc, ids, hasRun, cancelled,
                   wrongId>>

RunAddTimer ==
    /\ loopPc = "functors" /\ todo > 0
    /\ Head(functors).op = "add"
    /\ LET a == Head(functors).timer IN AddTimerInLoop(a, heap[a])
    /\ functors' = Tail(functors)
    /\ todo' = todo - 1
    /\ UNCHANGED <<heap, created, loopPc, expired, next, batchNow, canceling,
                   reported, now, pc, ids, hasRun, cancelled, wrongId>>

RunCancel ==
    /\ loopPc = "functors" /\ todo > 0
    /\ Head(functors).op = "cancel"
    /\ CancelInLoop(Head(functors).id)
    /\ functors' = Tail(functors)
    /\ todo' = todo - 1
    /\ UNCHANGED <<created, loopPc, expired, next, batchNow, reported, fdVars,
                   now, pc, ids, hasRun, wrongId>>

EndFunctors ==
    /\ loopPc = "functors" /\ todo = 0
    /\ loopPc' = "poll"
    /\ UNCHANGED <<heap, created, functors, todo, expired, next, batchNow,
                   canceling, reported, setVars, fdVars, now, pc, ids, hasRun,
                   cancelled, wrongId>>

-----------------------------------------------------------------------------
(* handleRead().                                                           *)

Before(x, y) == x[1] < y[1] \/ (x[1] = y[1] /\ x[2] < y[2])

\* readTimerfd() and getExpired(): the entries up to <<now, UINTPTR_MAX>>.
HandleRead ==
    /\ loopPc = "dispatch"
    /\ reported
    /\ reported' = FALSE
    /\ readable' = FALSE
    /\ batchNow' = now
    /\ LET due == {x \in timers : x[1] <= now}
       IN  /\ \E row \in SetToSeqs(due) :
                /\ \A i, j \in DOMAIN row : i < j => Before(row[i], row[j])
                /\ expired' = [i \in DOMAIN row |-> row[i][2]]
           /\ timers' = timers \ due
           /\ activeTimers' = activeTimers
                                \ {<<x[2], heap[x[2]].sequence>> : x \in due}
    /\ next' = 1
    /\ canceling' = {}
    /\ loopPc' = "calling"
    /\ UNCHANGED <<heap, created, functors, todo, armed, now, pc, ids, hasRun,
                   cancelled, wrongId>>

RunTimer ==
    /\ loopPc = "calling"
    /\ next <= Len(expired)
    /\ hasRun' = hasRun \cup {heap[expired[next]].sequence}
    /\ next' = next + 1
    /\ loopPc' = "callback"
    /\ UNCHANGED <<heap, created, functors, todo, expired, batchNow, canceling,
                   reported, setVars, fdVars, now, pc, ids, cancelled, wrongId>>

CallbackReturns ==
    /\ loopPc = "callback"
    /\ loopPc' = "calling"
    /\ UNCHANGED <<heap, created, functors, todo, expired, next, batchNow,
                   canceling, reported, setVars, fdVars, now, pc, ids, hasRun,
                   cancelled, wrongId>>

\* Forgetting the cancellations made in callbacks.
RestartedAll == {a \in ToSet(expired) : heap[a].interval > 0}

\* The expired timers that go back into the queue.
Restarted == {a \in ToSet(expired) :
                 /\ heap[a].interval > 0
                 /\ <<a, heap[a].sequence>> \notin canceling}

\* reset(): repeating timers are restarted, the others deleted, and the timerfd
\* is armed for the earliest timer, whose expiration must be valid().
Reset ==
    /\ loopPc = "calling"
    /\ next > Len(expired)
    /\ heap' = [a \in Addrs |->
                  IF a \in Restarted
                  THEN [heap[a] EXCEPT !.expiration = batchNow + heap[a].interval]
                  ELSE IF a \in ToSet(expired) THEN Free ELSE heap[a]]
    /\ timers' = timers \cup {<<heap'[a].expiration, a>> : a \in Restarted}
    /\ activeTimers' = activeTimers \cup {<<a, heap[a].sequence>> : a \in Restarted}
    /\ IF \E x \in timers' : x[1] > 0 /\ \A y \in timers' : x[1] <= y[1]
       THEN \E x \in timers' : (\A y \in timers' : x[1] <= y[1]) /\ ResetTimerfd(x[1])
       ELSE UNCHANGED fdVars
    /\ loopPc' = "dispatch"
    /\ expired' = <<>>
    /\ next' = 1
    /\ UNCHANGED <<created, functors, todo, batchNow, canceling, reported, now, pc,
                   ids, hasRun, cancelled, wrongId>>

-----------------------------------------------------------------------------

CallerStep(t) ==
    \/ \E a \in Addrs, when \in Times, i \in Intervals : CallerAddTimer(t, a, when, i)
    \/ CallerGetId(t)
    \/ \E id \in ids : CallerCancel(t, id)

OwnerCode ==
    \/ \E a \in Addrs, when \in Times, i \in Intervals : OwnerAddTimer(a, when, i)
    \/ \E id \in ids : OwnerCancel(id)

LoopStep ==
    \/ Poll \/ EndDispatch \/ RunAddTimer \/ RunCancel \/ EndFunctors
    \/ HandleRead \/ RunTimer \/ CallbackReturns \/ Reset

Next ==
    \/ \E t \in Callers : CallerStep(t)
    \/ OwnerCode
    \/ LoopStep
    \/ TimerfdExpires \/ Tick

Spec == Init /\ [][Next]_vars

\* The loop and the clock go on, and an armed timerfd expires.
Fairness == WF_vars(LoopStep) /\ WF_vars(TimerfdExpires) /\ WF_vars(Tick)

FairSpec == Spec /\ Fairness

-----------------------------------------------------------------------------
(* Correctness.                                                            *)

(***************************************************************************)
(* timers_ and activeTimers_ hold the same timers (the asserts in insert,  *)
(* getExpired and cancelInLoop), under their present expiration and        *)
(* sequence number, and these objects exist.                               *)
(***************************************************************************)
SameTimers ==
    /\ \A x \in timers : heap[x[2]] # Free /\ heap[x[2]].expiration = x[1]
    /\ activeTimers = {<<x[2], heap[x[2]].sequence>> : x \in timers}

(***************************************************************************)
(* While timers are queued, and handleRead() is not about to look at them, *)
(* the timerfd expires no later than the earliest of them is due (or one   *)
(* unit from now, for one already due).  Cancelling the earliest, adding   *)
(* an earlier one in a callback and arming an expired timerfd included.    *)
(***************************************************************************)
TimerfdArmed ==
    timers # {} /\ ~callingExpiredTimers
        => \/ readable \/ reported
           \/ /\ armed # None
              /\ \A x \in timers : armed <= IF x[1] > now THEN x[1] ELSE now + 1

(***************************************************************************)
(* A timer that was cancelled, a repeating one in its own callback too, is *)
(* not in the queue again, where it would be called: reset() leaves out    *)
(* the timers of cancelingTimers_.                                         *)
(***************************************************************************)
CancelledGone ==
    \A x \in timers : heap[x[2]].sequence \notin cancelled

(***************************************************************************)
(* A queued timer is called once it is due, unless it is cancelled: the    *)
(* timerfd does not stay unarmed, and a stale TimerId cancels no other     *)
(* timer at the same address.                                              *)
(***************************************************************************)
TimersRun ==
    \A s \in 1..MaxTimers :
        (\E x \in timers : heap[x[2]].sequence = s /\ x[1] <= MaxTime)
            ~> s \in hasRun \cup cancelled

(***************************************************************************)
(* What the comment on addTimer() says: the TimerId returned is the id of  *)
(* the timer that was added.  No run checks it: it does not hold where the *)
(* owner may delete the timer before addTimer() has read it.               *)
(***************************************************************************)
IdNamesTimer == ~wrongId
=============================================================================
