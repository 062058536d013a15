----------------------------- MODULE PollPoller -----------------------------
(***************************************************************************)
(* PollPoller (src/Reactor/PollPoller.cpp): the vector pollfds_ is what    *)
(* poll(2) is called with, and index_ is a channel's place in it.  A       *)
(* channel that wants nothing has its descriptor f replaced by -f - 1,     *)
(* which poll(2) ignores; a channel that is removed has its place filled   *)
(* with the last one.                                                      *)
(***************************************************************************)
EXTENDS Integers, SequencesExt

CONSTANTS
    Channels,
    Fds,
    FdOf,
    Events,
    Always

VARIABLES
    index,          \* index_ of each channel: -1, or its place from 0 on
    channels,       \* channels_: from descriptors to channels
    pollfds         \* pollfds_

pollerVars == <<index, channels, pollfds>>

Ignored(f) == -f - 1

TypeOK ==
    /\ index \in [Channels -> Int]
    /\ DOMAIN channels \subseteq Fds
    /\ \A f \in DOMAIN channels : channels[f] \in Channels
    /\ pollfds \in Seq([fd : Fds \cup {Ignored(f) : f \in Fds}, events : SUBSET Events])

Init ==
    /\ index = [c \in Channels |-> -1]
    /\ channels = <<>>
    /\ pollfds = <<>>

Put(m, f, v) == [g \in DOMAIN m \cup {f} |-> IF g = f THEN v ELSE m[g]]
Drop(m, f) == [g \in DOMAIN m \ {f} |-> m[g]]

Mapped(c) == FdOf[c] \in DOMAIN channels /\ channels[FdOf[c]] = c
InVector(c) == index[c] \in 0..(Len(pollfds) - 1)
Entry(c) == pollfds[index[c] + 1]

UpdateAsserts(c) ==
    IF index[c] < 0
    THEN FdOf[c] \notin DOMAIN channels
    ELSE /\ Mapped(c)
         /\ InVector(c) /\ Entry(c).fd \in {FdOf[c], Ignored(FdOf[c])}

\* A new channel goes to the end, with its descriptor even if it wants nothing.
UpdateChannel(c, ev) ==
    LET f == FdOf[c] IN
    IF index[c] < 0
    THEN /\ pollfds' = Append(pollfds, [fd |-> f, events |-> ev])
         /\ index' = [index EXCEPT ![c] = Len(pollfds)]
         /\ channels' = Put(channels, f, c)
    ELSE /\ pollfds' = [pollfds EXCEPT ![index[c] + 1] =
                          [fd |-> IF ev = {} THEN Ignored(f) ELSE f, events |-> ev]]
         /\ UNCHANGED <<index, channels>>

RemoveAsserts(c) ==
    /\ Mapped(c)
    /\ InVector(c) /\ Entry(c) = [fd |-> Ignored(FdOf[c]), events |-> {}]

\* The descriptor of an entry, ignored or not.
Original(fd) == IF fd < 0 THEN -fd - 1 ELSE fd

\* removeChannel() that forgets to tell the channel moved of its new place.
RemoveNoReindex(c) ==
    /\ pollfds' = Front([pollfds EXCEPT ![index[c] + 1] = Last(pollfds)])
    /\ channels' = Drop(channels, FdOf[c])
    /\ UNCHANGED index

\* The last entry takes the place, and its channel is told; the index of the
\* channel that is removed stays what it was.
RemoveChannel(c) ==
    LET moved == channels[Original(Last(pollfds).fd)] IN
    /\ pollfds' = Front([pollfds EXCEPT ![index[c] + 1] = Last(pollfds)])
    /\ channels' = Drop(channels, FdOf[c])
    /\ index' = [index EXCEPT ![moved] = index[c]]

\* What poll(2) writes into revents of an entry; it ignores negative ones.
Revents(ready, p) == IF p.fd < 0 THEN {} ELSE ready[p.fd] \cap (p.events \cup Always)

\* fillActiveChannels() finds the channels by descriptor.
FillAsserts(ready) ==
    \A i \in DOMAIN pollfds :
        Revents(ready, pollfds[i]) # {} => pollfds[i].fd \in DOMAIN channels

Poll(ready, active) ==
    /\ active = {<<channels[p.fd], Revents(ready, p)>> :
                   p \in {q \in Range(pollfds) : Revents(ready, q) # {}}}
    /\ UNCHANGED pollerVars

\* What the poller watches, for the refinement.
Watched == [c \in {channels[f] : f \in DOMAIN channels} |-> Entry(c).events]
=============================================================================
