----------------------------- MODULE EPollPoller -----------------------------
(***************************************************************************)
(* EPollPoller (src/Reactor/EpollPoller.cpp) over the kernel's interest    *)
(* list.  A channel that wants nothing is taken from the interest list but *)
(* stays in channels_; the three values of index_ keep track of that.      *)
(* Each operation comes with what its asserts and update() demand: where   *)
(* that fails, the program ends.                                           *)
(***************************************************************************)
EXTENDS Integers, FiniteSets

CONSTANTS
    Channels,
    Fds,
    FdOf,
    Events,
    Always,
    InitEventListSize   \* kInitEventListSize

VARIABLES
    index,          \* index_ of each channel
    channels,       \* channels_: from descriptors to channels
    interest,       \* the kernel's list: events and data.ptr by descriptor
    capacity        \* events_.size()

pollerVars == <<index, channels, interest, capacity>>

kNew == -1
kAdded == 1
kDeleted == 2

Indices == {kNew, kAdded, kDeleted}

TypeOK ==
    /\ index \in [Channels -> Indices]
    /\ DOMAIN channels \subseteq Fds
    /\ \A f \in DOMAIN channels : channels[f] \in Channels
    /\ DOMAIN interest \subseteq Fds
    /\ \A f \in DOMAIN interest :
         interest[f] \in [ptr : Channels, events : SUBSET Events]
    /\ capacity \in Nat \ {0}

Init ==
    /\ index = [c \in Channels |-> kNew]
    /\ channels = <<>>
    /\ interest = <<>>
    /\ capacity = InitEventListSize

Put(m, f, v) == [g \in DOMAIN m \cup {f} |-> IF g = f THEN v ELSE m[g]]
Drop(m, f) == [g \in DOMAIN m \ {f} |-> m[g]]

Mapped(c) == FdOf[c] \in DOMAIN channels /\ channels[FdOf[c]] = c

\* EPOLL_CTL_ADD wants a descriptor that is not in the list, MOD one that is;
\* update() ends the program otherwise.
UpdateAsserts(c) ==
    /\ IF index[c] = kNew THEN FdOf[c] \notin DOMAIN channels ELSE Mapped(c)
    /\ FdOf[c] \in DOMAIN interest <=> index[c] = kAdded

\* updateChannel() that only modifies an added channel: the kernel goes on
\* reporting hangups of one that wants nothing.
UpdateOnlyModifies(c, ev) ==
    LET f == FdOf[c] IN
    /\ channels' = IF index[c] = kNew THEN Put(channels, f, c) ELSE channels
    /\ interest' = Put(interest, f, [ptr |-> c, events |-> ev])
    /\ index' = [index EXCEPT ![c] = kAdded]
    /\ UNCHANGED capacity

\* EPOLL_CTL_DEL for an added channel that wants nothing any more, else
\* EPOLL_CTL_MOD; and EPOLL_CTL_ADD for one that is not in the list, whatever
\* it wants.
UpdateChannel(c, ev) ==
    LET f == FdOf[c]
        off == index[c] = kAdded /\ ev = {}
    IN  /\ channels' = IF index[c] = kNew THEN Put(channels, f, c) ELSE channels
        /\ interest' = IF off THEN Drop(interest, f)
                       ELSE Put(interest, f, [ptr |-> c, events |-> ev])
        /\ index' = [index EXCEPT ![c] = IF off THEN kDeleted ELSE kAdded]
        /\ UNCHANGED capacity

RemoveAsserts(c) == Mapped(c) /\ index[c] \in {kAdded, kDeleted}

RemoveChannel(c) ==
    /\ channels' = Drop(channels, FdOf[c])
    /\ interest' = IF index[c] = kAdded THEN Drop(interest, FdOf[c]) ELSE interest
    /\ index' = [index EXCEPT ![c] = kNew]
    /\ UNCHANGED capacity

\* What epoll_wait() has to say of the descriptor f.
Revents(ready, f) == ready[f] \cap (interest[f].events \cup Always)

Pending(ready) == {f \in DOMAIN interest : Revents(ready, f) # {}}

\* fillActiveChannels() expects of what is reported.
FillAsserts(fds) == \A f \in fds : Mapped(interest[f].ptr)

\* poll(): as many as events_ has room for; when it was full it grows.
Poll(ready, fds, active) ==
    /\ fds \subseteq Pending(ready)
    /\ Cardinality(fds) = IF Cardinality(Pending(ready)) < capacity
                          THEN Cardinality(Pending(ready)) ELSE capacity
    /\ active = {<<interest[f].ptr, Revents(ready, f)>> : f \in fds}
    /\ capacity' = IF Cardinality(fds) = capacity THEN 2 * capacity ELSE capacity
    /\ UNCHANGED <<index, channels, interest>>

\* What the poller watches, for the refinement.
Watched == [c \in {channels[f] : f \in DOMAIN channels} |->
              IF FdOf[c] \in DOMAIN interest THEN interest[FdOf[c]].events ELSE {}]
=============================================================================
