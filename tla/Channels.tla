------------------------------ MODULE Channels ------------------------------
(***************************************************************************)
(* The channels of one EventLoop (src/Reactor/Channel.cpp and the part of  *)
(* EventLoop.cpp that dispatches events) over its Poller, which is an      *)
(* EPollPoller or, if MUDUO_USE_POLL is set, a PollPoller.  All of it runs *)
(* on the thread of the loop: poll(), then the active channels one after   *)
(* the other, then the functors.  Callbacks and functors change what       *)
(* channels want, remove and create them.                                  *)
(*                                                                         *)
(* Several channels can be about the same descriptor, one after the other: *)
(* a Connector's channel is followed by the one of the TcpConnection.      *)
(*                                                                         *)
(* Callers keep to the rules of CanUpdate and CanRemove, which are those   *)
(* the library keeps to; AssertsHold says that the pollers' asserts follow.*)
(***************************************************************************)
EXTENDS Integers, Sequences, FiniteSets

CONSTANTS
    Channels,       \* Channel objects
    Fds,            \* descriptors
    FdOf,           \* fd_ of each channel
    Happenings,     \* what can happen to a descriptor while in poll()
    InitEventListSize,
    Careful         \* whether nobody disables a channel that wants nothing

Events == {"IN", "OUT"}     \* kReadEvent, kWriteEvent
Always == {"HUP"}           \* POLLHUP and POLLERR

ASSUME FdsAssumption ==
    /\ Fds \subseteq Nat /\ IsFiniteSet(Fds)
    /\ FdOf \in [Channels -> Fds]
ASSUME InitEventListSizeAssumption == InitEventListSize \in Nat \ {0}
ASSUME HappeningsAssumption == Happenings \subseteq SUBSET (Events \cup Always)
ASSUME CarefulAssumption == Careful \in BOOLEAN

VARIABLES
    usePoll,        \* newDefaultPoller() made a PollPoller
    events,         \* events_ of each channel
    added,          \* addedToLoop_
    removed,        \* the channels that remove() took out for good
    index,          \* index_
    channels,       \* the poller's channels_
    interest,       \* EPollPoller: the kernel's interest list
    capacity,       \* EPollPoller: events_.size()
    pollfds,        \* PollPoller: pollfds_
    ready,          \* what has happened to each descriptor while in poll()
    phase,          \* "poll", "handle" or "functors"
    active,         \* activeChannels_ still to be handled, with their revents_
    current         \* {currentActiveChannel_} while its callbacks run, or {}

chanVars   == <<events, added, removed>>
pollerVars == <<index, channels, interest, capacity, pollfds>>
eventVars    == <<ready, phase, active, current>>
channelsVars == <<usePoll, chanVars, pollerVars, eventVars>>

E == INSTANCE EPollPoller
P == INSTANCE PollPoller

Quiet == [f \in Fds |-> {}]

ChannelsTypeOK ==
    /\ usePoll \in BOOLEAN
    /\ events \in [Channels -> SUBSET Events]
    /\ added \subseteq Channels
    /\ removed \subseteq Channels
    /\ IF usePoll THEN P!TypeOK ELSE E!TypeOK
    /\ ready \in [Fds -> SUBSET (Events \cup Always)]
    /\ phase \in {"poll", "handle", "functors"}
    /\ active \subseteq Channels \X SUBSET (Events \cup Always)
    /\ current = {} \/ \E c \in Channels : current = {c}

ChannelsInit ==
    /\ usePoll \in BOOLEAN
    /\ events = [c \in Channels |-> {}]
    /\ added = {}
    /\ removed = {}
    /\ E!Init
    /\ pollfds = <<>>
    /\ ready = Quiet
    /\ phase = "functors"       \* channels can be set up before loop()
    /\ active = {}
    /\ current = {}

-----------------------------------------------------------------------------
(* What callbacks and functors do.                                         *)

InCallback == phase = "functors" \/ current # {}

\* A removed channel is not used again, and no other channel is registered
\* with the descriptor.
CanUpdate(c, ev) ==
    /\ InCallback
    /\ c \notin removed
    /\ \A d \in added \ {c} : FdOf[d] # FdOf[c]
    /\ Careful => events[c] # {} \/ ev # {}

UpdateAsserts(c) == IF usePoll THEN P!UpdateAsserts(c) ELSE E!UpdateAsserts(c)

\* What enableReading(), disableWriting(), ... and disableAll() make of events_.
Changes(ev) == {ev \cup {e} : e \in Events} \cup {ev \ {e} : e \in Events} \cup {{}}

\* Channel::update(), down to the poller.
Update(c, ev) ==
    /\ CanUpdate(c, ev)
    /\ events' = [events EXCEPT ![c] = ev]
    /\ added' = added \cup {c}
    /\ IF usePoll THEN P!UpdateChannel(c, ev) /\ UNCHANGED <<interest, capacity>>
                  ELSE E!UpdateChannel(c, ev) /\ UNCHANGED pollfds
    /\ UNCHANGED <<usePoll, removed, eventVars>>

\* While events are handled only the current channel may be removed: this is
\* what EventLoop::removeChannel() asserts of channels that are active.
CanRemove(c) ==
    /\ InCallback
    /\ c \in added /\ events[c] = {}
    /\ phase = "handle" => c \in current

RemoveAsserts(c) == IF usePoll THEN P!RemoveAsserts(c) ELSE E!RemoveAsserts(c)

\* Channel::remove(), down to the poller.
RemoveFromLoop(c) ==
    /\ CanRemove(c)
    /\ added' = added \ {c}
    /\ removed' = removed \cup {c}
    /\ IF usePoll THEN P!RemoveChannel(c) /\ UNCHANGED <<interest, capacity>>
                  ELSE E!RemoveChannel(c) /\ UNCHANGED pollfds
    /\ UNCHANGED <<usePoll, events, eventVars>>

HasChannel(c) == FdOf[c] \in DOMAIN channels /\ channels[FdOf[c]] = c

\* A removed channel is deleted, in a functor, and another one created.
Renew(c) ==
    /\ phase = "functors" /\ c \in removed
    /\ removed' = removed \ {c}
    /\ events' = [events EXCEPT ![c] = {}]
    /\ index' = [index EXCEPT ![c] = -1]
    /\ UNCHANGED <<usePoll, added, channels, interest, capacity, pollfds, eventVars>>

-----------------------------------------------------------------------------
(* The loop.                                                               *)

EnterPoll ==
    /\ phase = "functors"
    /\ phase' = "poll"
    /\ ready' \in [Fds -> Happenings]
    /\ UNCHANGED <<usePoll, chanVars, pollerVars, active, current>>

\* poll() returns with activeChannels_.
PollReturns ==
    /\ phase = "poll"
    /\ IF usePoll
       THEN /\ P!Poll(ready, active')
            /\ UNCHANGED <<interest, capacity>>
       ELSE \E fds \in SUBSET E!Pending(ready) :
              /\ E!Poll(ready, fds, active')
              /\ UNCHANGED pollfds
    /\ ready' = Quiet
    /\ phase' = "handle"
    /\ UNCHANGED <<usePoll, chanVars, current>>

\* Channel::handleEvent() of the next channel begins.
HandleEvent ==
    /\ phase = "handle" /\ current = {}
    /\ \E e \in active : active' = active \ {e} /\ current' = {e[1]}
    /\ UNCHANGED <<usePoll, chanVars, pollerVars, ready, phase>>

HandleEventReturns ==
    /\ current # {}
    /\ current' = {}
    /\ UNCHANGED <<usePoll, chanVars, pollerVars, ready, phase, active>>

\* All are handled, doPendingFunctors() is next.
EventsHandled ==
    /\ phase = "handle" /\ current = {} /\ active = {}
    /\ phase' = "functors"
    /\ UNCHANGED <<usePoll, chanVars, pollerVars, ready, active, current>>

ChannelsNext ==
    \/ \E c \in Channels : \/ \E ev \in Changes(events[c]) : Update(c, ev)
                           \/ RemoveFromLoop(c) \/ Renew(c)
    \/ EnterPoll \/ PollReturns \/ HandleEvent \/ HandleEventReturns \/ EventsHandled

ChannelsSpec == ChannelsInit /\ [][ChannelsNext]_channelsVars

-----------------------------------------------------------------------------
(* Properties.                                                             *)

\* No assert of either poller fails and epoll_ctl() never ends the program,
\* whatever order callbacks enable, disable, remove and recreate channels in,
\* with descriptors passed on and entries of pollfds_ moved about; nor does
\* the one in ~Channel(), that the poller does not have the channel any more.
AssertsHold ==
    /\ \A c \in Channels :
         /\ CanRemove(c) => RemoveAsserts(c)
         /\ \A ev \in Changes(events[c]) : CanUpdate(c, ev) => UpdateAsserts(c)
    /\ \A c \in removed : ~HasChannel(c)
    /\ phase = "poll" => IF usePoll THEN P!FillAsserts(ready)
                          ELSE E!FillAsserts(E!Pending(ready))

Watched == IF usePoll THEN P!Watched ELSE E!Watched

Abstract == INSTANCE Poller WITH watched <- Watched, reported <- active

\* Both pollers implement Poller: after any history they watch exactly the
\* registered channels, each for the events it wants, and poll() reports what
\* happened among these.
ImplementsPoller == Abstract!Spec
=============================================================================
