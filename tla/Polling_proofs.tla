--------------------------- MODULE Polling_proofs ---------------------------
(***************************************************************************)
(* Proofs about what an EventLoop waits for in poll(): its channels and its *)
(* timers.                                                                 *)
(*                                                                         *)
(* Channels, for any number of channels and descriptors and for both       *)
(* pollers: the pollers' asserts hold and both implement Poller, if callers *)
(* are careful.                                                            *)
(*                                                                         *)
(* TimerQueue, for every number of threads, addresses, intervals and bounds: *)
(* what makes the asserts of insert(), getExpired() and cancelInLoop() hold *)
(* is who owns a timer object: a functor of addTimer() that has not run, the *)
(* queue, or the batch handleRead() is working on, and never two of them.  *)
(* With the sequence numbers being unique this gives SameTimers;           *)
(* CancelledGone needs in addition that a cancelled timer of the batch is  *)
(* among cancelingTimers_, and TimerfdArmed that a timer added in a callback *)
(* arms the timerfd itself when reset() does not (an expiration of 0 is not *)
(* valid()).                                                               *)
(***************************************************************************)
EXTENDS Channels, TimerQueue,
        SequenceTheorems, FiniteSetTheorems, WellFoundedInduction, TLAPS

\* channels_ has the channels that are registered, each under its
\* descriptor, which it shares with no other of them.
Registered ==
    /\ added \cap removed = {}
    /\ \A c, d \in added : FdOf[c] = FdOf[d] => c = d
    /\ DOMAIN channels = {FdOf[c] : c \in added}
    /\ \A c \in added : channels[FdOf[c]] = c

\* A channel that was never registered looks new.
Fresh ==
    \A c \in Channels \ (added \cup removed) : index[c] = -1 /\ events[c] = {}

\* EPollPoller: the kernel's list has the channels that want something, with
\* what they want, and index_ knows which these are.
InterestListed ==
    /\ DOMAIN interest \subseteq {FdOf[c] : c \in added}
    /\ \A c \in added :
         /\ index[c] = IF events[c] = {} THEN E!kDeleted ELSE E!kAdded
         /\ FdOf[c] \in DOMAIN interest <=> events[c] # {}
         /\ events[c] # {} =>
              interest[FdOf[c]] = [ptr |-> c, events |-> events[c]]

\* PollPoller: each registered channel has its entry where index_ says, and
\* there are no other entries.
EntryOf(c) ==
    [fd |-> IF events[c] = {} THEN P!Ignored(FdOf[c]) ELSE FdOf[c],
     events |-> events[c]]
EntriesIndexed ==
    /\ \A c \in added : index[c] \in 0..(Len(pollfds) - 1)
                     /\ pollfds[index[c] + 1] = EntryOf(c)
    /\ \A i \in 1..Len(pollfds) : \E c \in added : index[c] = i - 1

\* The list of active channels is only used while they are handled.
ActiveHandled == phase # "handle" => active = {} /\ current = {}

ChannelsInv ==
    /\ ChannelsTypeOK /\ Registered /\ Fresh /\ ActiveHandled
    /\ ~usePoll => InterestListed
    /\ usePoll => EntriesIndexed

-----------------------------------------------------------------------------
LEMMA ChangesTyped ==
  ASSUME NEW old \in SUBSET Events, NEW ev \in Changes(old)
  PROVE  ev \in SUBSET Events
BY DEF Changes

LEMMA InitHolds == ChannelsInit => ChannelsInv
<1> SUFFICES ASSUME ChannelsInit
             PROVE  ChannelsInv
  OBVIOUS
<1> USE DEF ChannelsInit, E!Init, E!kNew
<1>1. ChannelsTypeOK
  <2>1. E!TypeOK
    BY InitEventListSizeAssumption DEF E!TypeOK, E!Indices
  <2>2. P!TypeOK
    BY DEF P!TypeOK
  <2>3. ready \in [Fds -> SUBSET (Events \cup Always)]
    BY DEF Quiet
  <2> QED BY <2>1, <2>2, <2>3 DEF ChannelsTypeOK
<1>2. Registered /\ Fresh /\ ActiveHandled
  BY DEF Registered, Fresh, ActiveHandled
<1>3. InterestListed
  BY DEF InterestListed
<1>4. EntriesIndexed
  BY DEF EntriesIndexed
<1> QED BY <1>1, <1>2, <1>3, <1>4 DEF ChannelsInv

-----------------------------------------------------------------------------
(* The asserts, which follow from the invariant.                           *)

\* A channel that is not registered, but may be, has no entry anywhere.
LEMMA UpdateAsserted ==
  ASSUME ChannelsInv, Careful, NEW c \in Channels, NEW ev, CanUpdate(c, ev)
  PROVE  UpdateAsserts(c)
<1> USE DEF ChannelsInv, ChannelsTypeOK
<1>0. FdOf[c] \in Nat
  BY FdsAssumption
<1>1. CASE c \in added /\ ~usePoll
  <2>1. FdOf[c] \in DOMAIN channels /\ channels[FdOf[c]] = c
    BY <1>1 DEF Registered
  <2>2. /\ index[c] = IF events[c] = {} THEN 2 ELSE 1
        /\ FdOf[c] \in DOMAIN interest <=> events[c] # {}
    BY <1>1 DEF InterestListed, E!kAdded, E!kDeleted
  <2> QED
    BY <1>1, <2>1, <2>2 DEF UpdateAsserts, E!UpdateAsserts, E!Mapped, E!kNew, E!kAdded
<1>2. CASE c \in added /\ usePoll
  <2>1. FdOf[c] \in DOMAIN channels /\ channels[FdOf[c]] = c
    BY <1>2 DEF Registered
  <2>2. index[c] \in 0..(Len(pollfds) - 1) /\ pollfds[index[c] + 1] = EntryOf(c)
    BY <1>2 DEF EntriesIndexed
  <2>3. EntryOf(c).fd \in {FdOf[c], P!Ignored(FdOf[c])}
    BY DEF EntryOf
  <2>4. ~(index[c] < 0)
    BY <2>2
  <2> QED
    BY <1>2, <2>1, <2>2, <2>3, <2>4
    DEF UpdateAsserts, P!UpdateAsserts, P!Mapped, P!InVector, P!Entry
<1>3. CASE c \notin added
  <2>1. index[c] = -1
    BY <1>3 DEF CanUpdate, Fresh
  <2>2. FdOf[c] \notin DOMAIN channels
    BY <1>3 DEF CanUpdate, Registered
  <2>3. ~usePoll => FdOf[c] \notin DOMAIN interest
    BY <2>2 DEF InterestListed, Registered
  <2> QED
    BY <2>1, <2>2, <2>3
    DEF UpdateAsserts, E!UpdateAsserts, P!UpdateAsserts, E!kNew, E!kAdded
<1> QED BY <1>1, <1>2, <1>3

LEMMA RemoveAsserted ==
  ASSUME ChannelsInv, NEW c \in Channels, CanRemove(c)
  PROVE  RemoveAsserts(c)
<1>1. c \in added /\ events[c] = {}
  BY DEF CanRemove
<1>2. FdOf[c] \in DOMAIN channels /\ channels[FdOf[c]] = c
  BY <1>1 DEF ChannelsInv, Registered
<1>3. CASE ~usePoll
  BY <1>1, <1>2, <1>3
  DEF ChannelsInv, InterestListed, RemoveAsserts, E!RemoveAsserts, E!Mapped
<1>4. CASE usePoll
  BY <1>1, <1>2, <1>4
  DEF ChannelsInv, EntriesIndexed, EntryOf, RemoveAsserts, P!RemoveAsserts, P!Mapped,
      P!InVector, P!Entry
<1> QED BY <1>3, <1>4

LEMMA FillAsserted ==
  ASSUME ChannelsInv
  PROVE  IF usePoll THEN P!FillAsserts(ready) ELSE E!FillAsserts(E!Pending(ready))
<1>1. CASE ~usePoll
  <2> SUFFICES ASSUME NEW f \in DOMAIN interest
               PROVE  E!Mapped(interest[f].ptr)
    BY <1>1 DEF E!FillAsserts, E!Pending
  <2>1. PICK c \in added : f = FdOf[c]
    BY <1>1 DEF ChannelsInv, InterestListed
  <2>2. interest[f] = [ptr |-> c, events |-> events[c]]
    <3>1. InterestListed /\ f \in DOMAIN interest
      BY <1>1 DEF ChannelsInv
    <3> QED BY <2>1, <3>1 DEF InterestListed
  <2> QED BY <2>1, <2>2 DEF ChannelsInv, Registered, E!Mapped
<1>2. CASE usePoll
  <2> SUFFICES ASSUME NEW i \in 1..Len(pollfds), P!Revents(ready, pollfds[i]) # {}
               PROVE  pollfds[i].fd \in DOMAIN channels
    <3>1. DOMAIN pollfds = 1..Len(pollfds)
      BY <1>2 DEF ChannelsInv, ChannelsTypeOK, P!TypeOK
    <3> QED BY <1>2, <3>1 DEF P!FillAsserts
  <2>1. PICK c \in added : index[c] = i - 1
    BY <1>2 DEF ChannelsInv, EntriesIndexed
  <2>2. pollfds[i] = EntryOf(c)
    BY <1>2, <2>1 DEF ChannelsInv, EntriesIndexed
  <2>3. c \in Channels /\ FdOf[c] \in Nat
    BY FdsAssumption DEF ChannelsInv, ChannelsTypeOK
  <2>4. pollfds[i].fd = FdOf[c]
    <3>1. ~(pollfds[i].fd < 0)
      BY DEF P!Revents
    <3>2. P!Ignored(FdOf[c]) < 0
      BY <2>3 DEF P!Ignored
    <3> QED BY <2>2, <3>1, <3>2 DEF EntryOf
  <2> QED BY <2>4 DEF ChannelsInv, Registered
<1> QED BY <1>1, <1>2

LEMMA InvImpliesAsserts ==
  ASSUME ChannelsInv, Careful
  PROVE  AssertsHold
<1>1. ASSUME NEW c \in removed
      PROVE  ~HasChannel(c)
  BY <1>1 DEF HasChannel, ChannelsInv, Registered
<1> QED
  BY <1>1, UpdateAsserted, RemoveAsserted, FillAsserted DEF AssertsHold

-----------------------------------------------------------------------------
(* Channel::update() keeps the invariant.                                  *)

\* Two entries of pollfds_ are never of the same channel.
LEMMA IndexInjective ==
  ASSUME ChannelsInv, usePoll, NEW c \in added, NEW d \in added, index[c] = index[d]
  PROVE  c = d
<1>1. FdOf[c] \in Nat /\ FdOf[d] \in Nat
  BY FdsAssumption DEF ChannelsInv, ChannelsTypeOK
<1>2. EntryOf(c) = EntryOf(d)
  BY DEF ChannelsInv, EntriesIndexed
<1>3. EntryOf(c).fd = EntryOf(d).fd
  BY <1>2
<1>4. FdOf[c] = FdOf[d]
  BY <1>1, <1>3 DEF EntryOf, P!Ignored
<1> QED BY <1>4 DEF ChannelsInv, Registered

\* What both pollers do alike.
LEMMA UpdateMaps ==
  ASSUME ChannelsInv, NEW c \in Channels, NEW ev \in Changes(events[c]), Update(c, ev)
  PROVE  /\ channels' = IF c \in added THEN channels
                        ELSE [g \in DOMAIN channels \cup {FdOf[c]} |->
                                IF g = FdOf[c] THEN c ELSE channels[g]]
         /\ events' = [events EXCEPT ![c] = ev]
         /\ added' = added \cup {c} /\ removed' = removed
         /\ UNCHANGED <<usePoll, ready, phase, active, current>>
<1>1. c \in added \/ index[c] = -1
  BY DEF Update, CanUpdate, ChannelsInv, Fresh
<1>2. CASE ~usePoll
  <2>1. c \in added => index[c] \in {1, 2}
    <3>1. c \in added => index[c] \in {E!kDeleted, E!kAdded}
      BY <1>2 DEF ChannelsInv, InterestListed
    <3> QED BY <3>1 DEF E!kAdded, E!kDeleted
  <2> QED BY <1>1, <1>2, <2>1
          DEF Update, eventVars, E!UpdateChannel, E!Put, E!kNew
<1>3. CASE usePoll
  <2>1. c \in added => ~(index[c] < 0)
    BY <1>3 DEF ChannelsInv, EntriesIndexed
  <2>2. index[c] = -1 => index[c] < 0
    OBVIOUS
  <2> QED BY <1>1, <1>3, <2>1, <2>2 DEF Update, eventVars, P!UpdateChannel, P!Put
<1> QED BY <1>2, <1>3

LEMMA UpdateKeepsRegistered ==
  ASSUME ChannelsInv, NEW c \in Channels, NEW ev \in Changes(events[c]), Update(c, ev)
  PROVE  Registered'
<1>1. /\ added \cap removed = {} /\ c \notin removed
      /\ \A d, e \in added : FdOf[d] = FdOf[e] => d = e
      /\ DOMAIN channels = {FdOf[d] : d \in added}
      /\ \A d \in added : channels[FdOf[d]] = d
      /\ \A d \in added \ {c} : FdOf[d] # FdOf[c]
  BY DEF ChannelsInv, Registered, Update, CanUpdate
<1>2. CASE c \in added
  <2>1. channels' = channels /\ added' = added /\ removed' = removed
    BY <1>2, UpdateMaps
  <2> QED BY <1>1, <2>1 DEF Registered
<1>3. CASE c \notin added
  <2>1. /\ channels' = [g \in DOMAIN channels \cup {FdOf[c]} |->
                          IF g = FdOf[c] THEN c ELSE channels[g]]
        /\ added' = added \cup {c} /\ removed' = removed
    BY <1>3, UpdateMaps
  <2>2. DOMAIN channels' = {FdOf[d] : d \in added'}
    BY <1>1, <2>1
  <2>3. \A d \in added' : channels'[FdOf[d]] = d
    BY <1>1, <1>3, <2>1
  <2>4. \A d, e \in added' : FdOf[d] = FdOf[e] => d = e
    BY <1>1, <1>3, <2>1
  <2>5. added' \cap removed' = {}
    BY <1>1, <2>1
  <2> QED BY <2>2, <2>3, <2>4, <2>5 DEF Registered
<1> QED BY <1>2, <1>3

LEMMA UpdateKeepsMapTyped ==
  ASSUME ChannelsInv, NEW c \in Channels, NEW ev \in Changes(events[c]), Update(c, ev)
  PROVE  /\ DOMAIN channels' \subseteq Fds
         /\ \A g \in DOMAIN channels' : channels'[g] \in Channels
<1>1. /\ DOMAIN channels \subseteq Fds /\ FdOf[c] \in Fds
      /\ \A g \in DOMAIN channels : channels[g] \in Channels
  BY FdsAssumption DEF ChannelsInv, ChannelsTypeOK, E!TypeOK, P!TypeOK
<1>2. CASE c \in added
  <2>1. channels' = channels
    BY <1>2, UpdateMaps
  <2> QED BY <1>1, <2>1
<1>3. CASE c \notin added
  <2>1. channels' = [g \in DOMAIN channels \cup {FdOf[c]} |->
                       IF g = FdOf[c] THEN c ELSE channels[g]]
    BY <1>3, UpdateMaps
  <2> QED BY <1>1, <2>1
<1> QED BY <1>2, <1>3

LEMMA UpdateKeepsInterest ==
  ASSUME ChannelsInv, Careful, ~usePoll,
         NEW c \in Channels, NEW ev \in Changes(events[c]), Update(c, ev)
  PROVE  /\ E!TypeOK' /\ InterestListed'
         /\ \A d \in Channels \ {c} : index'[d] = index[d]
<1> DEFINE f == FdOf[c]
           off == index[c] = E!kAdded /\ ev = {}
<1>0. /\ E!TypeOK /\ InterestListed
      /\ f \in Fds /\ ev \in SUBSET Events /\ events[c] \in SUBSET Events
      /\ events \in [Channels -> SUBSET Events] /\ added \subseteq Channels
  BY FdsAssumption, ChangesTyped DEF ChannelsInv, ChannelsTypeOK
<1>1. /\ interest' = IF off THEN E!Drop(interest, f)
                     ELSE E!Put(interest, f, [ptr |-> c, events |-> ev])
      /\ index' = [index EXCEPT ![c] = IF off THEN E!kDeleted ELSE E!kAdded]
      /\ capacity' = capacity
  BY DEF Update, E!UpdateChannel
<1>2. /\ events' = [events EXCEPT ![c] = ev] /\ added' = added \cup {c}
      /\ events[c] # {} \/ ev # {}
      /\ \A d \in added \ {c} : FdOf[d] # f
  BY UpdateMaps DEF Update, CanUpdate
<1>3. off <=> ev = {}
  <2>1. ev = {} => c \in added
    BY <1>2 DEF ChannelsInv, Fresh, Update, CanUpdate
  <2>2. c \in added /\ events[c] # {} => index[c] = E!kAdded
    BY <1>0 DEF InterestListed
  <2> QED BY <1>2, <2>1, <2>2
<1> HIDE DEF off
<1>4. index' \in [Channels -> E!Indices]
  BY <1>0, <1>1 DEF E!TypeOK, E!Indices
<1>5. /\ DOMAIN channels' \subseteq Fds
      /\ \A g \in DOMAIN channels' : channels'[g] \in Channels
  BY UpdateKeepsMapTyped
<1>6. /\ DOMAIN interest' \subseteq Fds
      /\ \A g \in DOMAIN interest' :
           interest'[g] \in [ptr : Channels, events : SUBSET Events]
  <2>1. CASE off
    BY <1>0, <1>1, <2>1 DEF E!TypeOK, E!Drop
  <2>2. CASE ~off
    <3> DEFINE new == [ptr |-> c, events |-> ev]
    <3>1. new \in [ptr : Channels, events : SUBSET Events]
      BY <1>0
    <3>2. interest' = E!Put(interest, f, new)
      BY <1>1, <2>2
    <3> HIDE DEF new
    <3> QED BY <1>0, <3>1, <3>2 DEF E!TypeOK, E!Put
  <2> QED BY <2>1, <2>2
<1>7. E!TypeOK'
  BY <1>0, <1>1, <1>4, <1>5, <1>6 DEF E!TypeOK
<1>8. DOMAIN interest' \subseteq {FdOf[d] : d \in added'}
  BY <1>0, <1>1, <1>2 DEF InterestListed, E!Put, E!Drop
<1>9. ASSUME NEW d \in added', d # c
      PROVE  /\ index'[d] = IF events'[d] = {} THEN E!kDeleted ELSE E!kAdded
             /\ FdOf[d] \in DOMAIN interest' <=> events'[d] # {}
             /\ events'[d] # {} =>
                  interest'[FdOf[d]] = [ptr |-> d, events |-> events'[d]]
  <2>1. d \in added /\ d \in Channels /\ FdOf[d] # f
    BY <1>0, <1>2, <1>9
  <2>2. events'[d] = events[d] /\ index'[d] = index[d]
    BY <1>0, <1>1, <1>2, <1>9, <2>1 DEF E!TypeOK
  <2>3. /\ FdOf[d] \in DOMAIN interest' <=> FdOf[d] \in DOMAIN interest
        /\ FdOf[d] \in DOMAIN interest => interest'[FdOf[d]] = interest[FdOf[d]]
    BY <1>1, <2>1 DEF E!Put, E!Drop
  <2> QED BY <1>0, <2>1, <2>2, <2>3 DEF InterestListed
<1>10. /\ index'[c] = IF events'[c] = {} THEN E!kDeleted ELSE E!kAdded
       /\ f \in DOMAIN interest' <=> events'[c] # {}
       /\ events'[c] # {} => interest'[f] = [ptr |-> c, events |-> events'[c]]
  <2>1. events'[c] = ev
    BY <1>0, <1>2
  <2>2. index'[c] = IF off THEN E!kDeleted ELSE E!kAdded
    BY <1>0, <1>1 DEF E!TypeOK
  <2>3. CASE off
    <3>1. f \notin DOMAIN interest'
      BY <1>1, <2>3 DEF E!Drop
    <3> QED BY <1>3, <2>1, <2>2, <2>3, <3>1
  <2>4. CASE ~off
    <3>1. f \in DOMAIN interest' /\ interest'[f] = [ptr |-> c, events |-> ev]
      BY <1>1, <2>4 DEF E!Put
    <3> QED BY <1>3, <2>1, <2>2, <2>4, <3>1
  <2> QED BY <2>3, <2>4
<1>11. InterestListed'
  BY <1>8, <1>9, <1>10 DEF InterestListed
<1> QED BY <1>0, <1>1, <1>7, <1>11 DEF E!TypeOK

LEMMA UpdateKeepsEntries ==
  ASSUME ChannelsInv, Careful, usePoll,
         NEW c \in Channels, NEW ev \in Changes(events[c]), Update(c, ev)
  PROVE  /\ P!TypeOK' /\ EntriesIndexed'
         /\ \A d \in Channels \ {c} : index'[d] = index[d]
<1> DEFINE Entries == [fd : Fds \cup {P!Ignored(f) : f \in Fds}, events : SUBSET Events]
           new == [fd |-> IF ev = {} THEN P!Ignored(FdOf[c]) ELSE FdOf[c], events |-> ev]
<1>0. /\ EntriesIndexed
      /\ index \in [Channels -> Int] /\ pollfds \in Seq(Entries)
      /\ FdOf[c] \in Fds /\ ev \in SUBSET Events
      /\ events \in [Channels -> SUBSET Events] /\ added \subseteq Channels
  BY FdsAssumption, ChangesTyped DEF ChannelsInv, ChannelsTypeOK, P!TypeOK
<1>1. /\ events' = [events EXCEPT ![c] = ev] /\ added' = added \cup {c}
      /\ events[c] # {} \/ ev # {}
      /\ \A d \in added \ {c} : FdOf[d] # FdOf[c]
  BY UpdateMaps DEF Update, CanUpdate
<1>2. /\ DOMAIN channels' \subseteq Fds
      /\ \A g \in DOMAIN channels' : channels'[g] \in Channels
  BY UpdateKeepsMapTyped
<1>3. new \in Entries /\ Len(pollfds) \in Nat
  <2>1. Len(pollfds) \in Nat
    BY <1>0, LenProperties
  <2> QED BY <1>0, <2>1
<1>4. ASSUME NEW d \in added', d # c
      PROVE  d \in added /\ EntryOf(d)' = EntryOf(d)
  <2>1. d \in added /\ d \in Channels
    BY <1>0, <1>1, <1>4
  <2>2. events'[d] = events[d]
    BY <1>0, <1>1, <1>4, <2>1
  <2> QED BY <2>1, <2>2 DEF EntryOf
<1>5. EntryOf(c)' = new
  <2>1. events'[c] = ev
    BY <1>0, <1>1
  <2> QED BY <2>1 DEF EntryOf
<1> HIDE DEF Entries
<1>6. CASE c \notin added
  <2>1. index[c] = -1 /\ ev # {}
    BY <1>1, <1>6 DEF ChannelsInv, Fresh, Update, CanUpdate
  <2>2. index[c] < 0
    BY <2>1
  <2>3. new = [fd |-> FdOf[c], events |-> ev]
    BY <2>1
  <2>4. /\ pollfds' = Append(pollfds, new)
        /\ index' = [index EXCEPT ![c] = Len(pollfds)]
    BY <2>2, <2>3 DEF Update, P!UpdateChannel
  <2> HIDE DEF new
  <2>5. /\ pollfds' \in Seq(Entries) /\ Len(pollfds') = Len(pollfds) + 1
        /\ \A i \in 1..Len(pollfds) : pollfds'[i] = pollfds[i]
        /\ pollfds'[Len(pollfds) + 1] = new
    BY <1>0, <1>3, <2>4, AppendProperties
  <2>6. /\ index' \in [Channels -> Int] /\ index'[c] = Len(pollfds)
        /\ \A d \in Channels \ {c} : index'[d] = index[d]
    BY <1>0, <1>3, <2>4
  <2>7. ASSUME NEW d \in added'
        PROVE  /\ index'[d] \in 0..(Len(pollfds') - 1)
               /\ pollfds'[index'[d] + 1] = EntryOf(d)'
    <3>1. CASE d = c
      <4>1. index'[d] + 1 = Len(pollfds) + 1
        BY <2>6, <3>1
      <4>2. index'[d] \in 0..(Len(pollfds') - 1)
        BY <1>3, <2>5, <2>6, <3>1
      <4> QED BY <1>5, <2>5, <3>1, <4>1, <4>2
    <3>2. CASE d # c
      <4>1. /\ index[d] \in 0..(Len(pollfds) - 1)
            /\ pollfds[index[d] + 1] = EntryOf(d)
            /\ index'[d] = index[d]
        BY <1>0, <1>4, <2>6, <3>2 DEF EntriesIndexed
      <4>2. index[d] + 1 \in 1..Len(pollfds)
        BY <1>3, <4>1
      <4>3. index[d] \in 0..(Len(pollfds') - 1)
        BY <1>3, <2>5, <4>1
      <4> QED BY <1>4, <2>5, <3>2, <4>1, <4>2, <4>3
    <3> QED BY <3>1, <3>2
  <2>8. ASSUME NEW i \in 1..Len(pollfds')
        PROVE  \E d \in added' : index'[d] = i - 1
    <3>1. CASE i = Len(pollfds) + 1
      <4>1. index'[c] = i - 1 /\ c \in added'
        BY <1>1, <1>3, <2>6, <3>1
      <4> QED BY <4>1
    <3>2. CASE i # Len(pollfds) + 1
      <4>1. i \in 1..Len(pollfds)
        BY <1>3, <2>5, <3>2
      <4>2. PICK d \in added : index[d] = i - 1
        BY <1>0, <4>1 DEF EntriesIndexed
      <4>3. d # c /\ d \in Channels /\ d \in added'
        BY <1>0, <1>1, <1>6
      <4> QED BY <2>6, <4>2, <4>3
    <3> QED BY <3>1, <3>2
  <2>9. EntriesIndexed'
    BY <2>7, <2>8 DEF EntriesIndexed
  <2> QED BY <1>2, <2>5, <2>6, <2>9 DEF P!TypeOK, Entries
<1>7. CASE c \in added
  <2> DEFINE k == index[c] + 1
  <2>1. index[c] \in 0..(Len(pollfds) - 1)
    BY <1>0, <1>7 DEF EntriesIndexed
  <2>2. ~(index[c] < 0) /\ k \in 1..Len(pollfds)
    BY <1>3, <2>1
  <2>3. pollfds' = [pollfds EXCEPT ![k] = new] /\ index' = index
    BY <2>2 DEF Update, P!UpdateChannel
  <2>k. k = index[c] + 1
    OBVIOUS
  <2> HIDE DEF new, k
  <2>4. /\ pollfds' \in Seq(Entries) /\ Len(pollfds') = Len(pollfds)
        /\ pollfds'[k] = new
        /\ \A i \in 1..Len(pollfds) : i # k => pollfds'[i] = pollfds[i]
    BY <1>0, <1>3, <2>2, <2>3, ExceptSeq
  <2>5. added' = added
    BY <1>1, <1>7
  <2>6. ASSUME NEW d \in added'
        PROVE  /\ index'[d] \in 0..(Len(pollfds') - 1)
               /\ pollfds'[index'[d] + 1] = EntryOf(d)'
    <3>1. CASE d = c
      BY <1>5, <2>1, <2>3, <2>4, <2>k, <3>1
    <3>2. CASE d # c
      <4>1. /\ index[d] \in 0..(Len(pollfds) - 1)
            /\ pollfds[index[d] + 1] = EntryOf(d)
        BY <1>0, <1>4, <3>2 DEF EntriesIndexed
      <4>2. index[d] # index[c]
        BY <1>4, <1>7, <3>2, IndexInjective
      <4>3. index[d] + 1 \in 1..Len(pollfds) /\ index[d] + 1 # k
        BY <1>3, <2>1, <2>k, <4>1, <4>2
      <4> QED BY <1>4, <2>3, <2>4, <3>2, <4>1, <4>3
    <3> QED BY <3>1, <3>2
  <2>7. \A i \in 1..Len(pollfds') : \E d \in added' : index'[d] = i - 1
    BY <1>0, <2>3, <2>4, <2>5 DEF EntriesIndexed
  <2>8. EntriesIndexed'
    BY <2>6, <2>7 DEF EntriesIndexed
  <2> QED BY <1>0, <1>2, <2>3, <2>4, <2>8 DEF P!TypeOK, Entries
<1> QED BY <1>6, <1>7

LEMMA UpdateKeeps ==
  ASSUME ChannelsInv, Careful,
         NEW c \in Channels, NEW ev \in Changes(events[c]), Update(c, ev)
  PROVE  ChannelsInv'
<1>1. /\ events' = [events EXCEPT ![c] = ev] /\ added' = added \cup {c}
      /\ UNCHANGED <<removed, usePoll, ready, phase, active, current>>
  BY UpdateMaps
<1>2. /\ \A d \in Channels \ {c} : index'[d] = index[d]
      /\ IF usePoll THEN P!TypeOK' /\ EntriesIndexed' ELSE E!TypeOK' /\ InterestListed'
  BY UpdateKeepsInterest, UpdateKeepsEntries
<1>3. /\ events \in [Channels -> SUBSET Events]
      /\ ev \in SUBSET Events
  BY ChangesTyped DEF ChannelsInv, ChannelsTypeOK
<1>4. ChannelsTypeOK'
  BY <1>1, <1>2, <1>3 DEF ChannelsInv, ChannelsTypeOK
<1>5. Fresh'
  BY <1>1, <1>2, <1>3 DEF ChannelsInv, Fresh
<1>6. ActiveHandled'
  BY <1>1 DEF ChannelsInv, ActiveHandled
<1> QED BY <1>1, <1>2, <1>4, <1>5, <1>6, UpdateKeepsRegistered DEF ChannelsInv

-----------------------------------------------------------------------------
(* Channel::remove() and the deletion of a channel keep the invariant.     *)

LEMMA RemoveMaps ==
  ASSUME ChannelsInv, NEW c \in Channels, RemoveFromLoop(c)
  PROVE  /\ c \in added /\ events[c] = {}
         /\ channels' = [g \in DOMAIN channels \ {FdOf[c]} |-> channels[g]]
         /\ added' = added \ {c} /\ removed' = removed \cup {c}
         /\ UNCHANGED <<usePoll, events, ready, phase, active, current>>
BY DEF RemoveFromLoop, CanRemove, eventVars, E!RemoveChannel, P!RemoveChannel, E!Drop, P!Drop

LEMMA RemoveKeepsRegistered ==
  ASSUME ChannelsInv, NEW c \in Channels, RemoveFromLoop(c)
  PROVE  Registered'
<1>1. /\ added \cap removed = {}
      /\ \A d, e \in added : FdOf[d] = FdOf[e] => d = e
      /\ DOMAIN channels = {FdOf[d] : d \in added}
      /\ \A d \in added : channels[FdOf[d]] = d
  BY DEF ChannelsInv, Registered
<1>2. /\ c \in added /\ added' = added \ {c} /\ removed' = removed \cup {c}
      /\ channels' = [g \in DOMAIN channels \ {FdOf[c]} |-> channels[g]]
  BY RemoveMaps
<1>3. \A d \in added' : d \in added /\ FdOf[d] # FdOf[c]
  BY <1>1, <1>2
<1>4. DOMAIN channels' = {FdOf[d] : d \in added'}
  BY <1>1, <1>2, <1>3
<1>5. \A d \in added' : channels'[FdOf[d]] = d
  BY <1>1, <1>2, <1>3
<1>6. added' \cap removed' = {}
  BY <1>1, <1>2
<1> QED BY <1>1, <1>3, <1>4, <1>5, <1>6 DEF Registered

LEMMA RemoveKeepsMapTyped ==
  ASSUME ChannelsInv, NEW c \in Channels, RemoveFromLoop(c)
  PROVE  /\ DOMAIN channels' \subseteq Fds
         /\ \A g \in DOMAIN channels' : channels'[g] \in Channels
<1>1. /\ DOMAIN channels \subseteq Fds
      /\ \A g \in DOMAIN channels : channels[g] \in Channels
  BY DEF ChannelsInv, ChannelsTypeOK, E!TypeOK, P!TypeOK
<1>2. channels' = [g \in DOMAIN channels \ {FdOf[c]} |-> channels[g]]
  BY RemoveMaps
<1> QED BY <1>1, <1>2

LEMMA RemoveKeepsInterest ==
  ASSUME ChannelsInv, ~usePoll, NEW c \in Channels, RemoveFromLoop(c)
  PROVE  /\ E!TypeOK' /\ InterestListed'
         /\ \A d \in Channels \ {c} : index'[d] = index[d]
<1>0. /\ E!TypeOK /\ InterestListed /\ added \subseteq Channels
  BY DEF ChannelsInv, ChannelsTypeOK
<1>1. /\ c \in added /\ events[c] = {} /\ added' = added \ {c} /\ events' = events
      /\ \A d \in added' : FdOf[d] # FdOf[c]
  <2>1. /\ c \in added /\ events[c] = {} /\ added' = added \ {c} /\ events' = events
    BY RemoveMaps
  <2> QED BY <2>1 DEF ChannelsInv, Registered
<1>2. /\ index' = [index EXCEPT ![c] = E!kNew] /\ capacity' = capacity
      /\ interest' = interest
  <2>1. index[c] = E!kDeleted
    BY <1>0, <1>1 DEF InterestListed
  <2>2. index[c] # E!kAdded
    BY <2>1 DEF E!kDeleted, E!kAdded
  <2> QED BY <2>2 DEF RemoveFromLoop, E!RemoveChannel
<1>3. index' \in [Channels -> E!Indices]
  BY <1>0, <1>2 DEF E!TypeOK, E!Indices
<1>4. E!TypeOK'
  BY <1>0, <1>2, <1>3, RemoveKeepsMapTyped DEF E!TypeOK
<1>5. \A d \in Channels \ {c} : index'[d] = index[d]
  BY <1>0, <1>2 DEF E!TypeOK
<1>6. \A d \in added' : d \in added /\ d \in Channels \ {c}
  BY <1>0, <1>1
<1>7. DOMAIN interest \subseteq {FdOf[d] : d \in added'}
  <2> SUFFICES ASSUME NEW f \in DOMAIN interest
               PROVE  \E d \in added' : f = FdOf[d]
    OBVIOUS
  <2>1. PICK d \in added : f = FdOf[d]
    BY <1>0 DEF InterestListed
  <2>2. events[d] # {}
    BY <1>0, <2>1 DEF InterestListed
  <2>3. d \in added'
    BY <1>1, <2>2
  <2> QED BY <2>1, <2>3
<1>8. InterestListed'
  BY <1>0, <1>1, <1>2, <1>5, <1>6, <1>7 DEF InterestListed
<1> QED BY <1>4, <1>5, <1>8

LEMMA RemoveKeepsEntries ==
  ASSUME ChannelsInv, usePoll, NEW c \in Channels, RemoveFromLoop(c)
  PROVE  /\ P!TypeOK' /\ EntriesIndexed'
         /\ \A d \in Channels \ added : index'[d] = index[d]
<1> DEFINE Entries == [fd : Fds \cup {P!Ignored(f) : f \in Fds}, events : SUBSET Events]
           n == Len(pollfds)
           k == index[c] + 1
           filled == [pollfds EXCEPT ![k] = pollfds[n]]
<1>0. /\ EntriesIndexed /\ Registered
      /\ index \in [Channels -> Int] /\ pollfds \in Seq(Entries)
      /\ added \subseteq Channels
  BY DEF ChannelsInv, ChannelsTypeOK, P!TypeOK
<1>1. /\ c \in added /\ added' = added \ {c} /\ events' = events
  BY RemoveMaps
<1> HIDE DEF Entries
<1>2. n \in Nat /\ index[c] \in 0..(n - 1)
  BY <1>0, <1>1, LenProperties DEF EntriesIndexed
<1>3. k \in 1..n /\ n \in 1..n /\ n - 1 \in Nat /\ k = index[c] + 1
  BY <1>2
\* The channel whose entry is the last.
<1>4. PICK m \in added : index[m] = n - 1
  BY <1>0, <1>3 DEF EntriesIndexed
<1>5. channels[P!Original(pollfds[n].fd)] = m
  <2>1. index[m] + 1 = n
    BY <1>2, <1>4
  <2>2. pollfds[n] = EntryOf(m)
    BY <1>0, <2>1 DEF EntriesIndexed
  <2>3. FdOf[m] \in Nat
    BY <1>0, FdsAssumption
  <2>4. P!Original(pollfds[n].fd) = FdOf[m]
    BY <2>2, <2>3 DEF P!Original, P!Ignored, EntryOf
  <2> QED BY <1>0, <2>4 DEF Registered
<1>6. /\ pollfds' = SubSeq(filled, 1, Len(filled) - 1)
      /\ index' = [index EXCEPT ![m] = index[c]]
  BY <1>5 DEF RemoveFromLoop, P!RemoveChannel, P!Last, P!Front
<1> HIDE DEF k
<1>7. /\ filled \in Seq(Entries) /\ Len(filled) = n
      /\ \A i \in 1..n : filled[i] = IF i = k THEN pollfds[n] ELSE pollfds[i]
  <2>1. pollfds[n] \in Entries
    BY <1>0, <1>3, ElementOfSeq
  <2> QED BY <1>0, <1>3, <2>1, ExceptSeq
<1> HIDE DEF filled
<1>8. /\ pollfds' \in Seq(Entries) /\ Len(pollfds') = n - 1
      /\ \A i \in 1..(n - 1) : pollfds'[i] = IF i = k THEN pollfds[n] ELSE pollfds[i]
  <2> DEFINE s == SubSeq(filled, 1, n - 1)
  <2>1. \A i \in 1..(n - 1) : filled[i] \in Entries
    <3>1. \A i \in 1..(n - 1) : i \in 1..Len(filled)
      BY <1>3, <1>7
    <3> QED BY <1>7, <3>1, ElementOfSeq
  <2>2. 1 \in Int /\ n - 1 \in Int
    BY <1>3
  <2>3. /\ s \in Seq(Entries) /\ Len(s) = IF 1 <= n - 1 THEN (n - 1) - 1 + 1 ELSE 0
        /\ \A i \in 1..((n - 1) - 1 + 1) : s[i] = filled[1 + i - 1]
    BY <2>1, <2>2, SubSeqProperties
  <2>4. pollfds' = s
    BY <1>6, <1>7
  <2> HIDE DEF s
  <2>5. Len(s) = n - 1 /\ (n - 1) - 1 + 1 = n - 1
    <3>1. Len(s) = IF 1 <= n - 1 THEN (n - 1) - 1 + 1 ELSE 0
      BY <2>3
    <3>2. n - 1 \in Nat
      BY <1>3
    <3> HIDE DEF n
    <3> QED BY <1>2, <3>1, <3>2
  <2>6. ASSUME NEW i \in 1..(n - 1)
        PROVE  s[i] = IF i = k THEN pollfds[n] ELSE pollfds[i]
    <3>1. 1 + i - 1 = i /\ i \in 1..n
      BY <1>3
    <3>2. s[i] = filled[i]
      BY <2>3, <2>5, <3>1
    <3> QED BY <1>7, <3>1, <3>2
  <2> QED BY <2>3, <2>4, <2>5, <2>6
<1>9. /\ index' \in [Channels -> Int] /\ index'[m] = index[c]
      /\ \A d \in Channels \ {m} : index'[d] = index[d]
  BY <1>0, <1>1, <1>6
<1>10. ASSUME NEW d \in added'
       PROVE  /\ index'[d] \in 0..(Len(pollfds') - 1)
              /\ pollfds'[index'[d] + 1] = EntryOf(d)'
  <2>1. d \in added /\ d # c /\ EntryOf(d)' = EntryOf(d)
    BY <1>1 DEF EntryOf
  <2>2. index[d] \in 0..(n - 1) /\ pollfds[index[d] + 1] = EntryOf(d)
    BY <1>0, <2>1 DEF EntriesIndexed
  <2>3. index[d] # index[c]
    BY <1>1, <2>1, IndexInjective
  <2>4. CASE d = m
    <3>1. index'[d] = index[c] /\ index[d] = n - 1
      BY <1>4, <1>9, <2>4
    <3>2. k \in 1..(n - 1) /\ index[d] + 1 = n
      BY <1>2, <1>3, <2>3, <3>1
    <3>3. index'[d] + 1 = k /\ index'[d] \in 0..((n - 1) - 1)
      <4>1. index'[d] + 1 = k /\ index'[d] \in Int
        BY <1>2, <1>3, <3>1
      <4> HIDE DEF n
      <4> QED BY <1>2, <3>2, <4>1
    <3>4. pollfds'[k] = pollfds[n]
      BY <1>8, <3>2
    <3> QED BY <1>8, <2>1, <2>2, <3>2, <3>3, <3>4
  <2>5. CASE d # m
    <3>1. index'[d] = index[d]
      BY <1>0, <1>9, <2>1, <2>5
    <3>2. index[d] # n - 1
      BY <1>4, <2>1, <2>5, IndexInjective
    <3>3. /\ index[d] + 1 \in 1..(n - 1) /\ index[d] + 1 # k
          /\ index[d] \in 0..((n - 1) - 1)
      BY <1>2, <1>3, <2>2, <2>3, <3>2
    <3> QED BY <1>8, <2>1, <2>2, <3>1, <3>3
  <2> QED BY <2>4, <2>5
<1>11. ASSUME NEW i \in 1..Len(pollfds')
       PROVE  \E d \in added' : index'[d] = i - 1
  <2>1. i \in 1..(n - 1) /\ i \in 1..n /\ i - 1 # n - 1
    BY <1>3, <1>8
  <2>2. CASE i = k
    <3>1. index'[m] = i - 1 /\ index[m] # index[c]
      BY <1>2, <1>3, <1>4, <1>9, <2>1, <2>2
    <3>2. m \in added'
      BY <1>1, <3>1
    <3> QED BY <3>1, <3>2
  <2>3. CASE i # k
    <3>1. PICK d \in added : index[d] = i - 1
      BY <1>0, <2>1 DEF EntriesIndexed
    <3>2. d # m
      BY <1>4, <2>1, <3>1
    <3>3. d # c
      BY <1>2, <1>3, <2>1, <2>3, <3>1
    <3>4. index'[d] = i - 1 /\ d \in added'
      BY <1>0, <1>1, <1>9, <3>1, <3>2, <3>3
    <3> QED BY <3>4
  <2> QED BY <2>2, <2>3
<1>12. EntriesIndexed'
  BY <1>10, <1>11 DEF EntriesIndexed
<1>13. P!TypeOK'
  BY <1>8, <1>9, RemoveKeepsMapTyped DEF P!TypeOK, Entries
<1> QED BY <1>0, <1>9, <1>12, <1>13

LEMMA RemoveKeeps ==
  ASSUME ChannelsInv, NEW c \in Channels, RemoveFromLoop(c)
  PROVE  ChannelsInv'
<1>1. /\ c \in added /\ added' = added \ {c} /\ removed' = removed \cup {c}
      /\ UNCHANGED <<usePoll, events, ready, phase, active, current>>
  BY RemoveMaps
<1>2. /\ \A d \in Channels \ (added \cup removed) : index'[d] = index[d]
      /\ IF usePoll THEN P!TypeOK' /\ EntriesIndexed' ELSE E!TypeOK' /\ InterestListed'
  BY <1>1, RemoveKeepsInterest, RemoveKeepsEntries
<1>3. ChannelsTypeOK'
  BY <1>1, <1>2 DEF ChannelsInv, ChannelsTypeOK
<1>4. Fresh'
  BY <1>1, <1>2 DEF ChannelsInv, Fresh
<1>5. ActiveHandled'
  BY <1>1 DEF ChannelsInv, ActiveHandled
<1> QED BY <1>1, <1>2, <1>3, <1>4, <1>5, RemoveKeepsRegistered DEF ChannelsInv

LEMMA RenewKeeps ==
  ASSUME ChannelsInv, NEW c \in Channels, Renew(c)
  PROVE  ChannelsInv'
<1>0. /\ c \notin added /\ ChannelsTypeOK /\ Registered /\ Fresh /\ ActiveHandled
      /\ events \in [Channels -> SUBSET Events] /\ added \subseteq Channels
      /\ DOMAIN index = Channels
  BY DEF Renew, ChannelsInv, Registered, ChannelsTypeOK, E!TypeOK, P!TypeOK
<1>1. /\ removed' = removed \ {c}
      /\ events' = [events EXCEPT ![c] = {}] /\ index' = [index EXCEPT ![c] = -1]
      /\ UNCHANGED <<usePoll, added, channels, interest, capacity, pollfds,
                     ready, phase, active, current>>
  BY DEF Renew, eventVars
<1>2. \A d \in added : index'[d] = index[d] /\ events'[d] = events[d]
  BY <1>0, <1>1
<1>3. /\ ~usePoll => E!TypeOK'
      /\ usePoll => P!TypeOK'
  BY <1>1 DEF ChannelsInv, ChannelsTypeOK, E!TypeOK, P!TypeOK, E!Indices, E!kNew
<1>4. events' \in [Channels -> SUBSET Events]
  BY <1>0, <1>1
<1>5. ChannelsTypeOK'
  BY <1>0, <1>1, <1>3, <1>4 DEF ChannelsTypeOK
<1>6. Registered'
  BY <1>0, <1>1 DEF Registered
<1>7. Fresh'
  BY <1>0, <1>1 DEF Fresh
<1>8. ActiveHandled'
  BY <1>0, <1>1 DEF ActiveHandled
<1>9. ASSUME ~usePoll
      PROVE  InterestListed'
  <2>1. InterestListed /\ added' = added /\ interest' = interest
    BY <1>1, <1>9 DEF ChannelsInv
  <2> QED BY <1>2, <2>1 DEF InterestListed
<1>10. ASSUME usePoll
       PROVE  EntriesIndexed'
  <2>1. EntriesIndexed /\ added' = added /\ pollfds' = pollfds
    BY <1>1, <1>10 DEF ChannelsInv
  <2>2. \A d \in added : EntryOf(d)' = EntryOf(d)
    BY <1>2 DEF EntryOf
  <2> QED BY <1>2, <2>1, <2>2 DEF EntriesIndexed
<1> QED BY <1>1, <1>5, <1>6, <1>7, <1>8, <1>9, <1>10 DEF ChannelsInv

-----------------------------------------------------------------------------
(* What poll() reports, whichever poller it is.                            *)

ReventsOf(c) == ready[FdOf[c]] \cap (events[c] \cup Always)
DueOf == {c \in added : events[c] # {} /\ ReventsOf(c) # {}}

\* The cardinality that EPollPoller takes from FiniteSets is the one here.
LEMMA SameCardinality ==
  ASSUME NEW S
  PROVE  E!Cardinality(S) = Cardinality(S)
BY Zenon DEF E!Cardinality, Cardinality

LEMMA InterestReports ==
  ASSUME ChannelsInv, ~usePoll, PollReturns
  PROVE  /\ active' \subseteq {<<c, ReventsOf(c)>> : c \in DueOf}
         /\ DueOf # {} => active' # {}
         /\ capacity' \in Nat \ {0} /\ UNCHANGED <<index, channels, interest>>
<1>0. /\ InterestListed /\ added \subseteq Channels /\ capacity \in Nat \ {0}
      /\ DOMAIN interest \subseteq Fds
  BY DEF ChannelsInv, ChannelsTypeOK, E!TypeOK
<1>1. PICK fds \in SUBSET E!Pending(ready) : E!Poll(ready, fds, active')
  BY DEF PollReturns
<1> DEFINE pending == E!Pending(ready)
<1>2. IsFiniteSet(pending)
  <2>1. pending \in SUBSET Fds
    BY <1>0 DEF E!Pending
  <2> QED BY <2>1, FdsAssumption, FS_Subset
<1>3. \A f \in pending : \E c \in DueOf :
            f = FdOf[c] /\ interest[f].ptr = c /\ E!Revents(ready, f) = ReventsOf(c)
  <2> SUFFICES ASSUME NEW f \in pending
               PROVE  \E c \in DueOf : f = FdOf[c] /\ interest[f].ptr = c
                                    /\ E!Revents(ready, f) = ReventsOf(c)
    OBVIOUS
  <2>1. f \in DOMAIN interest /\ E!Revents(ready, f) # {}
    BY DEF E!Pending
  <2>2. PICK c \in added : f = FdOf[c]
    BY <1>0, <2>1 DEF InterestListed
  <2>3. events[c] # {} /\ interest[f] = [ptr |-> c, events |-> events[c]]
    BY <1>0, <2>1, <2>2 DEF InterestListed
  <2>4. E!Revents(ready, f) = ReventsOf(c)
    BY <2>2, <2>3 DEF E!Revents, ReventsOf
  <2>5. c \in DueOf
    BY <2>1, <2>2, <2>3, <2>4 DEF DueOf
  <2> QED BY <2>2, <2>3, <2>4, <2>5
<1>4. \A c \in DueOf : FdOf[c] \in pending
  <2> SUFFICES ASSUME NEW c \in DueOf
               PROVE  FdOf[c] \in pending
    OBVIOUS
  <2>1. c \in added /\ events[c] # {} /\ ReventsOf(c) # {}
    BY DEF DueOf
  <2>2. /\ FdOf[c] \in DOMAIN interest
        /\ interest[FdOf[c]] = [ptr |-> c, events |-> events[c]]
    BY <1>0, <2>1 DEF InterestListed
  <2>3. E!Revents(ready, FdOf[c]) = ReventsOf(c)
    BY <2>2 DEF E!Revents, ReventsOf
  <2> QED BY <2>1, <2>2, <2>3 DEF E!Pending
<1>5. /\ active' = {<<interest[f].ptr, E!Revents(ready, f)>> : f \in fds}
      /\ Cardinality(fds) = IF Cardinality(pending) < capacity
                            THEN Cardinality(pending) ELSE capacity
      /\ capacity' = IF Cardinality(fds) = capacity THEN 2 * capacity ELSE capacity
      /\ UNCHANGED <<index, channels, interest>>
      /\ fds \subseteq pending
  BY <1>1, SameCardinality DEF E!Poll
<1> HIDE DEF pending
<1>6. active' \subseteq {<<c, ReventsOf(c)>> : c \in DueOf}
  BY <1>3, <1>5
<1>7. DueOf # {} => fds # {}
  <2> SUFFICES ASSUME DueOf # {}
               PROVE  Cardinality(fds) # 0
    BY FS_EmptySet
  <2>1. pending # {}
    BY <1>4
  <2>2. Cardinality(pending) \in Nat /\ Cardinality(pending) # 0
    BY <1>2, <2>1, FS_CardinalityType, FS_EmptySet
  <2> QED BY <1>0, <1>5, <2>2
<1>8. fds # {} => active' # {}
  BY <1>5
<1>9. capacity' \in Nat \ {0}
  BY <1>0, <1>5
<1> QED BY <1>5, <1>6, <1>7, <1>8, <1>9

LEMMA VectorReports ==
  ASSUME ChannelsInv, usePoll, PollReturns
  PROVE  /\ active' \subseteq {<<c, ReventsOf(c)>> : c \in DueOf}
         /\ DueOf # {} => active' # {}
         /\ UNCHANGED <<index, channels, pollfds>>
<1>0. /\ EntriesIndexed /\ Registered /\ added \subseteq Channels
      /\ DOMAIN pollfds = 1..Len(pollfds) /\ Len(pollfds) \in Nat
  <2>1. pollfds \in Seq([fd : Fds \cup {P!Ignored(f) : f \in Fds}, events : SUBSET Events])
    BY DEF ChannelsInv, ChannelsTypeOK, P!TypeOK
  <2>2. DOMAIN pollfds = 1..Len(pollfds) /\ Len(pollfds) \in Nat
    BY <2>1, LenProperties
  <2> QED BY <2>2 DEF ChannelsInv, ChannelsTypeOK
<1>1. /\ active' = {<<channels[p.fd], P!Revents(ready, p)>> :
                      p \in {q \in P!Range(pollfds) : P!Revents(ready, q) # {}}}
      /\ UNCHANGED <<index, channels, pollfds>>
  BY DEF PollReturns, P!Poll, P!pollerVars
\* An entry is reported for what its channel is due for.
<1>2. ASSUME NEW c \in added
      PROVE  /\ EntryOf(c) \in P!Range(pollfds)
             /\ P!Revents(ready, EntryOf(c)) # {} <=> c \in DueOf
             /\ c \in DueOf => /\ channels[EntryOf(c).fd] = c
                               /\ P!Revents(ready, EntryOf(c)) = ReventsOf(c)
  <2>1. FdOf[c] \in Nat
    BY <1>0, FdsAssumption
  <2>2. EntryOf(c) \in P!Range(pollfds)
    <3>1. index[c] \in 0..(Len(pollfds) - 1) /\ pollfds[index[c] + 1] = EntryOf(c)
      BY <1>0 DEF EntriesIndexed
    <3>2. index[c] + 1 \in DOMAIN pollfds
      BY <1>0, <3>1
    <3> QED BY <3>1, <3>2 DEF P!Range
  <2>3. CASE events[c] = {}
    <3>1. EntryOf(c).fd = P!Ignored(FdOf[c])
      BY <2>3 DEF EntryOf
    <3>2. EntryOf(c).fd < 0
      BY <2>1, <3>1 DEF P!Ignored
    <3>3. P!Revents(ready, EntryOf(c)) = {} /\ c \notin DueOf
      BY <2>3, <3>2 DEF P!Revents, DueOf
    <3> QED BY <2>2, <3>3
  <2>4. CASE events[c] # {}
    <3>1. EntryOf(c).fd = FdOf[c] /\ EntryOf(c).events = events[c]
      BY <2>4 DEF EntryOf
    <3>2. ~(EntryOf(c).fd < 0)
      BY <2>1, <3>1
    <3>3. P!Revents(ready, EntryOf(c)) = ReventsOf(c)
      BY <3>1, <3>2 DEF P!Revents, ReventsOf
    <3>4. channels[FdOf[c]] = c
      BY <1>0 DEF Registered
    <3> QED BY <2>2, <2>4, <3>1, <3>3, <3>4 DEF DueOf
  <2> QED BY <2>3, <2>4
<1>3. ASSUME NEW p \in P!Range(pollfds)
      PROVE  \E c \in added : p = EntryOf(c)
  <2>1. PICK i \in 1..Len(pollfds) : p = pollfds[i]
    BY <1>0 DEF P!Range
  <2>2. PICK c \in added : index[c] = i - 1
    BY <1>0 DEF EntriesIndexed
  <2>3. index[c] + 1 = i
    BY <2>2
  <2> QED BY <1>0, <2>1, <2>3 DEF EntriesIndexed
<1>4. active' \subseteq {<<c, ReventsOf(c)>> : c \in DueOf}
  <2> SUFFICES ASSUME NEW p \in P!Range(pollfds), P!Revents(ready, p) # {}
               PROVE  \E c \in DueOf :
                        <<channels[p.fd], P!Revents(ready, p)>> = <<c, ReventsOf(c)>>
    BY <1>1
  <2>1. PICK c \in added : p = EntryOf(c)
    BY <1>3
  <2> QED BY <1>2, <2>1
<1>5. DueOf # {} => active' # {}
  <2> SUFFICES ASSUME NEW c \in DueOf
               PROVE  active' # {}
    OBVIOUS
  <2>1. /\ EntryOf(c) \in P!Range(pollfds)
        /\ P!Revents(ready, EntryOf(c)) # {}
    BY <1>2 DEF DueOf
  <2> QED BY <1>1, <2>1
<1> QED BY <1>1, <1>4, <1>5

LEMMA PollReports ==
  ASSUME ChannelsInv, PollReturns
  PROVE  /\ active = {} /\ ready' = Quiet
         /\ active' \subseteq {<<c, ReventsOf(c)>> : c \in DueOf}
         /\ DueOf # {} => active' # {}
         /\ UNCHANGED <<events, added>>
<1>1. active = {}
  BY DEF PollReturns, ChannelsInv, ActiveHandled
<1> QED BY <1>1, InterestReports, VectorReports DEF PollReturns, chanVars

-----------------------------------------------------------------------------
(* The loop keeps the invariant.                                           *)

LEMMA PollReturnsKeeps ==
  ASSUME ChannelsInv, PollReturns
  PROVE  ChannelsInv'
<1>0. ChannelsTypeOK /\ Registered /\ Fresh /\ ActiveHandled /\ added \subseteq Channels
  BY DEF ChannelsInv, ChannelsTypeOK
<1>1. /\ phase = "poll" /\ phase' = "handle" /\ ready' = Quiet
      /\ UNCHANGED <<usePoll, events, added, removed, current, index, channels>>
  BY InterestReports, VectorReports DEF PollReturns, chanVars
<1>2. /\ usePoll => UNCHANGED <<interest, capacity, pollfds>>
      /\ ~usePoll => UNCHANGED <<interest, pollfds>> /\ capacity' \in Nat \ {0}
  BY InterestReports, VectorReports DEF PollReturns
<1>3. active' \subseteq Channels \X SUBSET (Events \cup Always)
  <2>1. \A c \in DueOf : c \in Channels /\ ReventsOf(c) \in SUBSET (Events \cup Always)
    BY <1>0 DEF DueOf, ReventsOf, ChannelsTypeOK
  <2> QED BY <2>1, PollReports
<1>4. ready' \in [Fds -> SUBSET (Events \cup Always)]
  BY <1>1 DEF Quiet
<1>5. IF usePoll THEN P!TypeOK' ELSE E!TypeOK'
  BY <1>0, <1>1, <1>2 DEF ChannelsTypeOK, P!TypeOK, E!TypeOK
<1>6. ChannelsTypeOK'
  BY <1>0, <1>1, <1>3, <1>4, <1>5 DEF ChannelsTypeOK
<1>7. Registered' /\ Fresh' /\ ActiveHandled'
  BY <1>0, <1>1 DEF Registered, Fresh, ActiveHandled
<1>8. ~usePoll => InterestListed'
  BY <1>1, <1>2 DEF ChannelsInv, InterestListed
<1>9. usePoll => EntriesIndexed'
  BY <1>1, <1>2 DEF ChannelsInv, EntriesIndexed, EntryOf
<1> QED BY <1>1, <1>6, <1>7, <1>8, <1>9 DEF ChannelsInv

\* A step that leaves the channels and the poller alone.
LEMMA LoopVarsKeep ==
  ASSUME ChannelsInv, UNCHANGED <<usePoll, chanVars, pollerVars>>,
         ready' \in [Fds -> SUBSET (Events \cup Always)],
         phase' \in {"poll", "handle", "functors"},
         active' \subseteq Channels \X SUBSET (Events \cup Always),
         current' = {} \/ \E c \in Channels : current' = {c},
         ActiveHandled'
  PROVE  ChannelsInv'
<1>1. ChannelsTypeOK'
  BY DEF ChannelsInv, ChannelsTypeOK, chanVars, pollerVars, P!TypeOK, E!TypeOK
<1>2. Registered' /\ Fresh'
  BY DEF ChannelsInv, Registered, Fresh, chanVars, pollerVars
<1>3. ~usePoll => InterestListed'
  BY DEF ChannelsInv, InterestListed, chanVars, pollerVars
<1>4. usePoll => EntriesIndexed'
  BY DEF ChannelsInv, EntriesIndexed, EntryOf, chanVars, pollerVars
<1> QED BY <1>1, <1>2, <1>3, <1>4 DEF ChannelsInv

LEMMA NextKeeps ==
  ASSUME ChannelsInv, Careful, [ChannelsNext]_channelsVars
  PROVE  ChannelsInv'
<1> USE DEF ActiveHandled
<1>0. /\ ready \in [Fds -> SUBSET (Events \cup Always)]
      /\ phase \in {"poll", "handle", "functors"}
      /\ active \subseteq Channels \X SUBSET (Events \cup Always)
      /\ current = {} \/ \E c \in Channels : current = {c}
      /\ ActiveHandled
  BY DEF ChannelsInv, ChannelsTypeOK
<1>1. CASE EnterPoll
  <2>1. ready' \in [Fds -> SUBSET (Events \cup Always)]
    <3>1. Happenings \subseteq SUBSET (Events \cup Always)
      BY HappeningsAssumption
    <3> QED BY <1>1, <3>1 DEF EnterPoll
  <2> QED BY <1>0, <1>1, <2>1, LoopVarsKeep DEF EnterPoll
<1>2. CASE PollReturns
  BY <1>2, PollReturnsKeeps
<1>3. CASE HandleEvent
  <2>1. PICK e \in active : active' = active \ {e} /\ current' = {e[1]}
    BY <1>3 DEF HandleEvent
  <2>2. e[1] \in Channels
    BY <1>0, <2>1
  <2> QED BY <1>0, <1>3, <2>1, <2>2, LoopVarsKeep DEF HandleEvent
<1>4. CASE HandleEventReturns
  BY <1>0, <1>4, LoopVarsKeep DEF HandleEventReturns
<1>5. CASE EventsHandled
  BY <1>0, <1>5, LoopVarsKeep DEF EventsHandled
<1>6. CASE UNCHANGED channelsVars
  BY <1>0, <1>6, LoopVarsKeep DEF channelsVars, eventVars
<1> QED
  BY <1>1, <1>2, <1>3, <1>4, <1>5, <1>6, UpdateKeeps, RemoveKeeps, RenewKeeps DEF ChannelsNext

THEOREM ChannelsInvariance ==
  ASSUME Careful
  PROVE  ChannelsSpec => []ChannelsInv
<1>1. ChannelsInit => ChannelsInv
  BY InitHolds
<1>2. ChannelsInv /\ [ChannelsNext]_channelsVars => ChannelsInv'
  BY NextKeeps
<1> QED BY <1>1, <1>2, PTL DEF ChannelsSpec

(***************************************************************************)
(* The variables of the channels, the loop and the poller keep their types *)
(* (Channel.cpp, EpollPoller.cpp, PollPoller.cpp).                         *)
(***************************************************************************)
THEOREM ChannelsTypeCorrect ==
  ASSUME Careful
  PROVE  ChannelsSpec => []ChannelsTypeOK
<1>1. ChannelsInv => ChannelsTypeOK
  BY DEF ChannelsInv
<1> QED BY <1>1, ChannelsInvariance, PTL

(***************************************************************************)
(* No assert of updateChannel(), removeChannel(), fillActiveChannels() or  *)
(* ~Channel() fails and epoll_ctl() is never called for a descriptor in    *)
(* the wrong state, for any number of channels and descriptors.            *)
(***************************************************************************)
THEOREM PollersAssertsHold ==
  ASSUME Careful
  PROVE  ChannelsSpec => []AssertsHold
<1>1. ChannelsInv => AssertsHold
  BY InvImpliesAsserts
<1> QED BY <1>1, ChannelsInvariance, PTL

-----------------------------------------------------------------------------
(* Both pollers implement Poller: what they watch is what the registered   *)
(* channels want, so that each step is one of Poller's or none.            *)

WatchedAre == Watched = [c \in added |-> events[c]]

LEMMA WatchedFromInv == ChannelsInv => WatchedAre
<1> SUFFICES ASSUME ChannelsInv
             PROVE  WatchedAre
  OBVIOUS
<1>1. {channels[f] : f \in DOMAIN channels} = added
  BY DEF ChannelsInv, Registered
<1>2. CASE ~usePoll
  <2>1. ASSUME NEW c \in added
        PROVE  IF FdOf[c] \in DOMAIN interest
               THEN interest[FdOf[c]].events = events[c] ELSE events[c] = {}
    <3>1. /\ FdOf[c] \in DOMAIN interest <=> events[c] # {}
          /\ events[c] # {} =>
               interest[FdOf[c]] = [ptr |-> c, events |-> events[c]]
      BY <1>2 DEF ChannelsInv, InterestListed
    <3> QED BY <3>1
  <2> QED BY <1>1, <1>2, <2>1 DEF WatchedAre, Watched, E!Watched
<1>3. CASE usePoll
  <2>1. ASSUME NEW c \in added
        PROVE  P!Entry(c).events = events[c]
    <3>1. P!Entry(c) = EntryOf(c)
      BY <1>3 DEF ChannelsInv, EntriesIndexed, P!Entry
    <3> QED BY <3>1 DEF EntryOf
  <2> QED BY <1>1, <1>3, <2>1 DEF WatchedAre, Watched, P!Watched
<1> QED BY <1>2, <1>3

LEMMA InitRefines == ChannelsInit => Abstract!Init
<1> SUFFICES ASSUME ChannelsInit
             PROVE  Abstract!Init
  OBVIOUS
<1>1. WatchedAre
  BY InitHolds, WatchedFromInv
<1>2. added = {} /\ active = {} /\ ready = Quiet
  BY DEF ChannelsInit
<1>3. Watched = <<>>
  BY <1>1, <1>2 DEF WatchedAre
<1> QED BY <1>2, <1>3 DEF Abstract!Init, Abstract!Quiet, Quiet

LEMMA NextRefines ==
  ASSUME ChannelsInv, WatchedAre, WatchedAre', [ChannelsNext]_channelsVars
  PROVE  [Abstract!Next]_(Abstract!vars)
<1>0. /\ Watched = [d \in added |-> events[d]]
      /\ Watched' = [d \in added' |-> events'[d]]
      /\ events \in [Channels -> SUBSET Events] /\ added \subseteq Channels
  BY DEF WatchedAre, ChannelsInv, ChannelsTypeOK
<1>w. /\ DOMAIN Watched = added
      /\ \A d \in added : Watched[d] = events[d]
  BY <1>0
<1>s. ASSUME UNCHANGED <<events, added, ready, active>>
      PROVE  UNCHANGED Abstract!vars
  BY <1>0, <1>s DEF Abstract!vars
<1>1. ASSUME NEW c \in Channels, NEW ev \in Changes(events[c]), Update(c, ev)
      PROVE  Abstract!Next
  <2>1. /\ events' = [events EXCEPT ![c] = ev] /\ added' = added \cup {c}
        /\ UNCHANGED <<ready, active>>
    BY <1>1, UpdateMaps
  <2>2. ev \in SUBSET Events
    BY <1>0, ChangesTyped
  <2>3. Watched' = [d \in DOMAIN Watched \cup {c} |-> IF d = c THEN ev ELSE Watched[d]]
    BY <1>0, <1>w, <2>1
  <2>4. Abstract!Update(c, ev)
    BY <2>1, <2>3 DEF Abstract!Update
  <2> QED BY <2>2, <2>4 DEF Abstract!Next
<1>2. ASSUME NEW c \in Channels, RemoveFromLoop(c)
      PROVE  Abstract!Next
  <2>1. /\ c \in added /\ events[c] = {} /\ added' = added \ {c} /\ events' = events
        /\ UNCHANGED <<ready, active>>
    BY <1>2, RemoveMaps
  <2>2. Watched' = [d \in DOMAIN Watched \ {c} |-> Watched[d]]
    BY <1>0, <1>w, <2>1
  <2>3. Abstract!Remove(c)
    BY <1>w, <2>1, <2>2 DEF Abstract!Remove
  <2> QED BY <2>3 DEF Abstract!Next
<1>3. ASSUME NEW c \in Channels, Renew(c)
      PROVE  UNCHANGED Abstract!vars
  <2>1. /\ c \notin added /\ events' = [events EXCEPT ![c] = {}]
        /\ UNCHANGED <<added, ready, active>>
    BY <1>3 DEF Renew, ChannelsInv, Registered, eventVars
  <2>2. Watched' = Watched
    BY <1>0, <2>1
  <2> QED BY <2>1, <2>2 DEF Abstract!vars
<1>4. CASE EnterPoll
  <2>1. ready' \in [Fds -> SUBSET (Events \cup Always)]
    <3>1. Happenings \subseteq SUBSET (Events \cup Always)
      BY HappeningsAssumption
    <3> QED BY <1>4, <3>1 DEF EnterPoll
  <2>2. Watched' = Watched /\ active' = active
    BY <1>0, <1>4 DEF EnterPoll, chanVars
  <2> QED BY <2>1, <2>2 DEF Abstract!Next, Abstract!Happens
<1>5. CASE PollReturns
  <2>1. /\ active = {} /\ ready' = Quiet
        /\ active' \subseteq {<<c, ReventsOf(c)>> : c \in DueOf}
        /\ DueOf # {} => active' # {}
        /\ UNCHANGED <<events, added>>
    BY <1>5, PollReports
  <2>2. \A c \in added : Abstract!Revents(c) = ReventsOf(c)
    BY <1>w DEF Abstract!Revents, ReventsOf
  <2>3. Abstract!Due = DueOf
    BY <1>w, <2>2 DEF Abstract!Due, DueOf
  <2>4. \A c \in DueOf : Abstract!Revents(c) = ReventsOf(c)
    BY <2>2 DEF DueOf
  <2>5. active' \subseteq {<<c, Abstract!Revents(c)>> : c \in Abstract!Due}
    BY <2>1, <2>3, <2>4
  <2>6. Watched' = Watched
    BY <1>0, <2>1
  <2>7. Abstract!Poll
    BY <2>1, <2>3, <2>5, <2>6 DEF Abstract!Poll, Abstract!Quiet, Quiet
  <2> QED BY <2>7 DEF Abstract!Next
<1>6. CASE HandleEvent
  <2>1. \E e \in active : active' = active \ {e}
    BY <1>6 DEF HandleEvent
  <2>2. Watched' = Watched /\ ready' = ready
    BY <1>0, <1>6 DEF HandleEvent, chanVars
  <2> QED BY <2>1, <2>2 DEF Abstract!Next, Abstract!Take
<1>7. CASE HandleEventReturns
  BY <1>7, <1>s DEF HandleEventReturns, chanVars
<1>8. CASE EventsHandled
  BY <1>8, <1>s DEF EventsHandled, chanVars
<1>9. CASE UNCHANGED channelsVars
  BY <1>9, <1>s DEF channelsVars, chanVars, eventVars
<1> QED
  BY <1>1, <1>2, <1>3, <1>4, <1>5, <1>6, <1>7, <1>8, <1>9 DEF ChannelsNext

(***************************************************************************)
(* EPollPoller with the kernel's list and PollPoller with its vector both  *)
(* implement Poller, for any number of channels and descriptors and any    *)
(* size of events_.                                                        *)
(***************************************************************************)
THEOREM PollersImplementPoller ==
  ASSUME Careful
  PROVE  ChannelsSpec => ImplementsPoller
<1>1. ChannelsInit => Abstract!Init
  BY InitRefines
<1>2. ChannelsInv => WatchedAre
  BY WatchedFromInv
<1>3. ChannelsInv /\ WatchedAre /\ WatchedAre' /\ [ChannelsNext]_channelsVars => [Abstract!Next]_(Abstract!vars)
  BY NextRefines
<1> QED
  BY <1>1, <1>2, <1>3, ChannelsInvariance, PTL DEF ChannelsSpec, ImplementsPoller, Abstract!Spec

-----------------------------------------------------------------------------
(* TimerQueue.                                                             *)

\* The functors of addTimer() that have not run.
Adds == {i \in DOMAIN functors : functors[i].op = "add"}

\* An object belongs to one functor, to the queue or to the batch, and exists
\* as long as it does; only handleRead() has a batch.
OneOwner ==
    /\ \A i \in Adds : heap[functors[i].timer] # Free
    /\ \A i \in DOMAIN expired : heap[expired[i]] # Free
    /\ \A i, j \in Adds : functors[i].timer = functors[j].timer => i = j
    /\ \A x \in timers :
         /\ \A i \in Adds : functors[i].timer # x[2]
         /\ \A i \in DOMAIN expired : expired[i] # x[2]
    /\ \A i \in Adds : \A j \in DOMAIN expired : functors[i].timer # expired[j]
    /\ expired # <<>> => callingExpiredTimers

\* No two objects have the same sequence number, which is one already given.
Sequences ==
    /\ \A a \in Addrs : heap[a] # Free => heap[a].sequence <= created
    /\ \A a, b \in Addrs :
         heap[a] # Free /\ heap[b] # Free /\ heap[a].sequence = heap[b].sequence => a = b

\* A cancelled timer is neither queued nor on its way into the queue, unless
\* in the batch, where it is noted in cancelingTimers_.
Cancellations ==
    /\ \A s \in cancelled : s <= created
    /\ CancelledGone
    /\ \A i \in Adds : heap[functors[i].timer].sequence \notin cancelled
    /\ \A i \in DOMAIN expired :
         heap[expired[i]].sequence \in cancelled
           => <<expired[i], heap[expired[i]].sequence>> \in canceling

\* The timerfd, with what holds while callbacks run.
Arming ==
    /\ TimerfdArmed
    /\ reported => loopPc = "dispatch"
    /\ callingExpiredTimers /\ (\E x \in timers : x[1] = 0)
         => readable \/ (armed # None /\ armed <= now + 1)

\* The objects and the two sets that name them.
Objects == IsFiniteSet(timers) /\ SameTimers /\ OneOwner /\ Sequences

\* The inductive invariant.
IInv == TypeOK /\ Objects /\ Cancellations /\ Arming

\* The queue starts empty, so the invariant holds.
LEMMA InitIInv == Init => IInv
<1> SUFFICES ASSUME Init PROVE IInv
  OBVIOUS
<1> USE DEF Init
<1>1. TypeOK
  <2>1. /\ heap \in [Addrs -> Timer \cup {Free}] /\ created \in 0..MaxTimers
        /\ now \in Times /\ batchNow \in Times /\ pc \in [Callers -> Id \cup {None}]
    BY BoundsAssumption DEF Times
  <2>2. /\ functors \in Seq(Functor) /\ Len(functors) <= MaxFunctors
        /\ todo \in 0..Len(functors)
        /\ expired \in Seq(Addrs) /\ next \in 1..(Len(expired) + 1)
    BY BoundsAssumption
  <2> QED BY <2>1, <2>2 DEF TypeOK, LoopPcs
<1>2. IsFiniteSet(timers)
  BY FS_EmptySet
<1>3. SameTimers /\ OneOwner /\ Sequences /\ Cancellations /\ Arming
  BY DEF SameTimers, OneOwner, Adds, Sequences, Cancellations, CancelledGone, Arming, TimerfdArmed, callingExpiredTimers
<1> QED BY <1>1, <1>2, <1>3 DEF IInv, Objects

-----------------------------------------------------------------------------
(* What the helpers do. *)

\* new Timer puts an object with a new sequence number at a free address.
LEMMA NewTimerDoes ==
  ASSUME TypeOK, Sequences, NEW a \in Addrs, NEW when \in Times, NEW i \in Intervals,
         NewTimer(a, when, i)
  PROVE  /\ heap' \in [Addrs -> Timer \cup {Free}] /\ created' \in 0..MaxTimers
         /\ heap[a] = Free /\ heap'[a] # Free /\ heap'[a].sequence = created + 1
         /\ heap'[a].expiration = when
         /\ \A b \in Addrs \ {a} : heap'[b] = heap[b]
         /\ created' = created + 1
         /\ Sequences'
<1> DEFINE obj == [sequence |-> created + 1, expiration |-> when, interval |-> i]
<1>1. obj \in Timer
  BY BoundsAssumption DEF TypeOK, NewTimer, Timer, Times
<1>2. heap' = [heap EXCEPT ![a] = obj] /\ created' = created + 1 /\ created < MaxTimers /\ heap[a] = Free
  BY DEF NewTimer
<1>3. heap'[a] = obj /\ \A b \in Addrs \ {a} : heap'[b] = heap[b]
  BY <1>2 DEF TypeOK
<1>4. heap' \in [Addrs -> Timer \cup {Free}] /\ created' \in 0..MaxTimers
  BY <1>1, <1>2, BoundsAssumption DEF TypeOK
<1>5. heap'[a] # Free
  BY <1>1, <1>3, ValuesAssumption
<1>6. \A b \in Addrs : heap[b] # Free => heap[b] \in Timer /\ heap[b].sequence \in 1..created
  BY DEF TypeOK, Sequences, Timer
<1>7. Sequences'
  <2>1. \A b \in Addrs : heap'[b] # Free => heap'[b].sequence <= created'
    BY <1>2, <1>3, <1>6 DEF TypeOK
  <2>2. ASSUME NEW b \in Addrs, NEW c \in Addrs, heap'[b] # Free, heap'[c] # Free,
               heap'[b].sequence = heap'[c].sequence
        PROVE  b = c
    BY <1>2, <1>3, <1>6, <2>2 DEF TypeOK, Sequences
  <2> QED BY <2>1, <2>2 DEF Sequences
<1> QED BY <1>2, <1>3, <1>4, <1>5, <1>7

\* A sequence with one element more.
LEMMA QueueAppend ==
  ASSUME NEW S, NEW q \in Seq(S), NEW e \in S
  PROVE  /\ Append(q, e) \in Seq(S) /\ Len(Append(q, e)) = Len(q) + 1
         /\ DOMAIN Append(q, e) = 1..(Len(q) + 1) /\ DOMAIN q = 1..Len(q) /\ Len(q) \in Nat
         /\ \A i \in DOMAIN q : Append(q, e)[i] = q[i]
         /\ Append(q, e)[Len(q) + 1] = e
OBVIOUS

\* A sequence without its first element.
LEMMA QueueTail ==
  ASSUME NEW S, NEW q \in Seq(S), q # <<>>
  PROVE  /\ Tail(q) \in Seq(S) /\ Len(Tail(q)) = Len(q) - 1
         /\ DOMAIN q = 1..Len(q) /\ Len(q) \in Nat \ {0}
         /\ Head(q) = q[1] /\ q[1] \in S
         /\ \A i \in DOMAIN Tail(q) : i + 1 \in DOMAIN q /\ Tail(q)[i] = q[i + 1] /\ i \in Nat \ {0}
OBVIOUS

\* cancelInLoop() deletes one queued timer and its two entries, or nothing.
LEMMA CancelDoes ==
  ASSUME TypeOK, SameTimers, Sequences, NEW id \in Id, CancelInLoop(id)
  PROVE  /\ \/ /\ id \in activeTimers
               /\ id[1] \in Addrs /\ heap[id[1]] # Free /\ heap[id[1]].sequence = id[2]
               /\ heap' = [heap EXCEPT ![id[1]] = Free]
               /\ timers' = {x \in timers : x[2] # id[1]}
               /\ activeTimers' = {<<x[2], heap[x[2]].sequence>> : x \in timers'}
               /\ canceling' = canceling
               /\ \E x \in timers : x[2] = id[1]
            \/ /\ id \notin activeTimers
               /\ UNCHANGED <<heap, timers, activeTimers>>
               /\ canceling' = IF callingExpiredTimers THEN canceling \cup {id} ELSE canceling
         /\ SameTimers'
         /\ heap' \in [Addrs -> Timer \cup {Free}]
         /\ \A a \in Addrs : heap'[a] # Free => heap'[a] = heap[a]
         /\ timers' \subseteq timers
         /\ Sequences' \/ created' # created
<1>1. CASE id \notin activeTimers
  <2>1. /\ UNCHANGED <<heap, timers, activeTimers>>
        /\ canceling' = IF callingExpiredTimers THEN canceling \cup {id} ELSE canceling
    BY <1>1 DEF CancelInLoop, setVars
  <2> QED BY <1>1, <2>1 DEF SameTimers, TypeOK, Sequences
<1>2. CASE id \in activeTimers
  <2>1. PICK y \in timers : id = <<y[2], heap[y[2]].sequence>>
    BY <1>2 DEF SameTimers
  <2>2. /\ \A x \in timers : x[1] \in Nat /\ x[2] \in Addrs /\ x = <<x[1], x[2]>>
        /\ \A x \in timers : heap[x[2]] # Free /\ heap[x[2]].expiration = x[1]
    BY DEF TypeOK, SameTimers
  <2>3. id[1] = y[2] /\ id[2] = heap[y[2]].sequence
    BY <2>1
  <2>4. /\ timers' = timers \ {<<heap[y[2]].expiration, y[2]>>}
        /\ activeTimers' = activeTimers \ {id}
        /\ heap' = [heap EXCEPT ![y[2]] = Free]
        /\ canceling' = canceling
    BY <1>2, <2>3 DEF CancelInLoop
  <2>5. timers' = {x \in timers : x[2] # y[2]}
    BY <2>2, <2>4
  <2>6. activeTimers' = {<<x[2], heap[x[2]].sequence>> : x \in timers'}
    <3>1. \A x \in timers : <<x[2], heap[x[2]].sequence>> = id <=> x[2] = y[2]
      BY <2>1
    <3> QED BY <3>1, <2>4, <2>5 DEF SameTimers
  <2>7. /\ heap' \in [Addrs -> Timer \cup {Free}]
        /\ \A a \in Addrs : heap'[a] # Free => heap'[a] = heap[a]
        /\ \A a \in Addrs \ {y[2]} : heap'[a] = heap[a]
    BY <2>2, <2>4 DEF TypeOK
  <2>8. SameTimers'
    <3>1. \A x \in timers' : x[2] \in Addrs /\ heap'[x[2]] = heap[x[2]]
      BY <2>2, <2>5, <2>7
    <3> QED BY <3>1, <2>2, <2>5, <2>6 DEF SameTimers
  <2>9. Sequences' \/ created' # created
    BY <2>7 DEF Sequences
  <2> QED BY <1>2, <2>2, <2>3, <2>4, <2>5, <2>6, <2>7, <2>8, <2>9
<1> QED BY <1>1, <1>2

\* addTimerInLoop() adds one timer to both sets.
LEMMA AddDoes ==
  ASSUME SameTimers, TypeOK, NEW a \in Addrs, NEW obj \in Timer, AddTimerInLoop(a, obj),
         heap'[a] = obj, \A x \in timers : x[2] # a /\ heap'[x[2]] = heap[x[2]]
  PROVE  SameTimers' /\ timers' = timers \cup {<<obj.expiration, a>>}
         /\ armed' \in Nat \cup {None} /\ readable' \in BOOLEAN
         /\ timers' \subseteq Nat \X Addrs
<1>1. /\ timers' = timers \cup {<<obj.expiration, a>>}
      /\ activeTimers' = activeTimers \cup {<<a, obj.sequence>>}
  BY DEF AddTimerInLoop
<1>2. obj # Free /\ obj.expiration \in Nat
  BY ValuesAssumption DEF Timer
<1>3. armed' \in Nat \cup {None} /\ readable' \in BOOLEAN
  <2>1. CASE EarliestChanged(obj.expiration)
    <3>1. now \in Nat /\ now + 1 \in Nat
      BY BoundsAssumption DEF TypeOK, Times
    <3>2. armed' = (IF obj.expiration > now THEN obj.expiration ELSE now + 1) /\ readable' = FALSE
      BY <2>1 DEF AddTimerInLoop, ResetTimerfd
    <3>3. CASE obj.expiration > now
      BY <3>2, <3>3, <1>2
    <3>4. CASE ~(obj.expiration > now)
      BY <3>1, <3>2, <3>4
    <3> QED BY <3>3, <3>4
  <2>2. CASE ~EarliestChanged(obj.expiration)
    BY <2>2 DEF AddTimerInLoop, fdVars, TypeOK
  <2> QED BY <2>1, <2>2
<1>4. \A x \in timers' : heap'[x[2]] # Free /\ heap'[x[2]].expiration = x[1]
  BY <1>1, <1>2 DEF SameTimers
<1>5. activeTimers' = {<<x[2], heap'[x[2]].sequence>> : x \in timers'}
  <2> DEFINE Entry(x) == <<x[2], heap'[x[2]].sequence>>
  <2>1. activeTimers' = {Entry(x) : x \in timers} \cup {<<a, obj.sequence>>}
    BY <1>1 DEF SameTimers
  <2>2. Entry(<<obj.expiration, a>>) = <<a, obj.sequence>>
    OBVIOUS
  <2> HIDE DEF Entry
  <2>3. activeTimers' = {Entry(x) : x \in timers'}
    BY <2>1, <2>2, <1>1
  <2> QED BY <2>3 DEF Entry
<1>6. SameTimers'
  BY <1>4, <1>5 DEF SameTimers
<1> QED BY <1>1, <1>2, <1>3, <1>6 DEF TypeOK

\* The addresses named by the queue, the batch and the functors are addresses.
LEMMA TimersTyped ==
  ASSUME TypeOK
  PROVE  /\ \A x \in timers : x[1] \in Nat /\ x[2] \in Addrs /\ x = <<x[1], x[2]>>
         /\ \A i \in DOMAIN expired : expired[i] \in Addrs
         /\ \A i \in Adds : functors[i].timer \in Addrs
         /\ functors \in Seq(Functor) /\ expired \in Seq(Addrs)
         /\ \A i \in DOMAIN functors : functors[i].op # "add" => functors[i].op = "cancel" /\ functors[i].id \in Id
BY DEF TypeOK, Functor, Adds

\* A step that leaves the objects and their owners alone leaves Objects true.
LEMMA ObjectsStay ==
  ASSUME Objects, UNCHANGED <<heap, created, timers, activeTimers, functors, expired>>,
         callingExpiredTimers => callingExpiredTimers'
  PROVE  Objects'
BY DEF Objects, SameTimers, OneOwner, Sequences, Adds

\* A functor queued at the end leaves the others in their places.
LEMMA AddsAppend ==
  ASSUME TypeOK, NEW f \in Functor, functors' = Append(functors, f)
  PROVE  \A i \in Adds' :
            \/ i \in Adds /\ functors'[i] = functors[i]
            \/ i = Len(functors) + 1 /\ functors'[i] = f /\ f.op = "add"
<1>1. functors \in Seq(Functor)
  BY DEF TypeOK
<1> QED BY <1>1, QueueAppend DEF Adds

\* The functors left when the first is taken are the same, one place ahead.
LEMMA AddsTail ==
  ASSUME TypeOK, functors # <<>>, functors' = Tail(functors)
  PROVE  \A i \in Adds' :
            i \in Nat \ {0} /\ i + 1 \in Adds /\ functors'[i] = functors[i + 1]
<1>1. functors \in Seq(Functor)
  BY DEF TypeOK
<1> QED BY <1>1, QueueTail DEF Adds

\* addTimerInLoop() of an object that was no one's, or the functor's.
LEMMA ObjectsAdd ==
  ASSUME TypeOK, Objects, NEW a \in Addrs, NEW obj \in Timer,
         AddTimerInLoop(a, obj), heap'[a] = obj, heap'[a] # Free,
         \A b \in Addrs \ {a} : heap'[b] = heap[b],
         \A x \in timers : x[2] # a,
         \A i \in DOMAIN expired : expired[i] # a,
         \A i \in Adds' : \E k \in Adds : functors'[i] = functors[k] /\ functors[k].timer # a,
         \A i, j \in Adds' : functors'[i].timer = functors'[j].timer => i = j,
         expired' = expired, callingExpiredTimers => callingExpiredTimers', Sequences'
  PROVE  Objects' /\ timers' \subseteq Nat \X Addrs
         /\ armed' \in Nat \cup {None} /\ readable' \in BOOLEAN
<1>1. \A x \in timers : x[2] \in Addrs /\ heap'[x[2]] = heap[x[2]]
  BY TimersTyped
<1>2. /\ SameTimers' /\ timers' = timers \cup {<<obj.expiration, a>>}
      /\ timers' \subseteq Nat \X Addrs
      /\ armed' \in Nat \cup {None} /\ readable' \in BOOLEAN
  BY <1>1, AddDoes DEF Objects
<1>3. IsFiniteSet(timers')
  BY <1>2, FS_AddElement DEF Objects
<1>4. \A i \in Adds' : functors'[i].timer \in Addrs \ {a}
  BY TimersTyped
<1>5. OneOwner'
  <2>1. \A i \in Adds' : heap'[functors'[i].timer] # Free
    BY <1>4 DEF Objects, OneOwner
  <2>2. \A i \in DOMAIN expired' : heap'[expired'[i]] # Free
    BY TimersTyped DEF Objects, OneOwner
  <2>3. \A x \in timers' :
         /\ \A i \in Adds' : functors'[i].timer # x[2]
         /\ \A i \in DOMAIN expired' : expired'[i] # x[2]
    BY <1>2, <1>4 DEF Objects, OneOwner
  <2>4. \A i \in Adds' : \A j \in DOMAIN expired' : functors'[i].timer # expired'[j]
    BY DEF Objects, OneOwner
  <2>5. expired' # <<>> => callingExpiredTimers'
    BY DEF Objects, OneOwner
  <2> QED BY <2>1, <2>2, <2>3, <2>4, <2>5 DEF OneOwner
<1> QED BY <1>2, <1>3, <1>5 DEF Objects

\* cancelInLoop() takes away an object the queue owned, and no other.
LEMMA ObjectsCancel ==
  ASSUME TypeOK, Objects, NEW id \in Id, CancelInLoop(id), created' = created,
         \A i \in Adds' : \E k \in Adds : functors'[i] = functors[k],
         \A i, j \in Adds' : functors'[i].timer = functors'[j].timer => i = j,
         expired' = expired, callingExpiredTimers => callingExpiredTimers'
  PROVE  Objects'
<1>1. /\ SameTimers' /\ Sequences' /\ timers' \subseteq timers
      /\ \/ \E x \in timers : x[2] = id[1] /\ heap' = [heap EXCEPT ![id[1]] = Free]
         \/ heap' = heap
  BY CancelDoes DEF Objects
<1>2. IsFiniteSet(timers')
  BY <1>1, FS_Subset DEF Objects
<1>3. \A b \in Addrs : (\A x \in timers : x[2] # b) => heap'[b] = heap[b]
  BY <1>1 DEF TypeOK
<1>4. OneOwner'
  <2>1. \A i \in Adds' : heap'[functors'[i].timer] # Free
    BY <1>3, TimersTyped DEF Objects, OneOwner
  <2>2. \A i \in DOMAIN expired' : heap'[expired'[i]] # Free
    BY <1>3, TimersTyped DEF Objects, OneOwner
  <2>3. \A x \in timers' :
         /\ \A i \in Adds' : functors'[i].timer # x[2]
         /\ \A i \in DOMAIN expired' : expired'[i] # x[2]
    BY <1>1 DEF Objects, OneOwner
  <2>4. \A i \in Adds' : \A j \in DOMAIN expired' : functors'[i].timer # expired'[j]
    BY DEF Objects, OneOwner
  <2>5. expired' # <<>> => callingExpiredTimers'
    BY DEF Objects, OneOwner
  <2> QED BY <2>1, <2>2, <2>3, <2>4, <2>5 DEF OneOwner
<1> QED BY <1>1, <1>2, <1>4 DEF Objects

\* handleRead() takes the timers that are due out of both sets.
LEMMA HandleReadDoes ==
  ASSUME TypeOK, Objects, HandleRead
  PROVE  /\ timers' = {x \in timers : ~(x[1] <= now)}
         /\ expired' \in Seq(Addrs)
         /\ \A i \in DOMAIN expired' : \E x \in timers : x[2] = expired'[i] /\ x[1] <= now
         /\ SameTimers'
<1> DEFINE due == {x \in timers : x[1] <= now}
           Entry(x) == <<x[2], heap[x[2]].sequence>>
<1>1. PICK row \in SetToSeqs(due) :
         /\ \A i, j \in DOMAIN row : i < j => Before(row[i], row[j])
         /\ expired' = [i \in DOMAIN row |-> row[i][2]]
  BY DEF HandleRead
<1>2. /\ timers' = timers \ due /\ heap' = heap
      /\ activeTimers' = activeTimers \ {Entry(x) : x \in due}
  BY DEF HandleRead
<1>3. Cardinality(due) \in Nat
  BY FS_Subset, FS_CardinalityType DEF Objects
<1>4. row \in [1..Cardinality(due) -> due]
  BY <1>1 DEF SetToSeqs
<1>5. \A i \in 1..Cardinality(due) : row[i] \in timers /\ row[i][1] <= now
  BY <1>4
<1>6. expired' \in [1..Cardinality(due) -> Addrs] /\ \A i \in DOMAIN expired' : expired'[i] = row[i][2]
  <2>1. expired' = [i \in 1..Cardinality(due) |-> row[i][2]]
    BY <1>1, <1>4
  <2>2. \A i \in 1..Cardinality(due) : row[i][2] \in Addrs
    BY <1>5, TimersTyped
  <2> QED BY <2>1, <2>2
<1>7. expired' \in Seq(Addrs)
  <2>1. \A n \in Nat : [1..n -> Addrs] \subseteq Seq(Addrs)
    OBVIOUS
  <2> QED BY <2>1, <1>3, <1>6
<1>8. \A i \in DOMAIN expired' : \E x \in timers : x[2] = expired'[i] /\ x[1] <= now
  BY <1>5, <1>6
<1>9. SameTimers'
  <2>1. \A x, y \in timers : Entry(x) = Entry(y) => x = y
    <3>1. \A x \in timers : x = <<x[1], x[2]>> /\ x[1] = heap[x[2]].expiration
      BY TimersTyped DEF Objects, SameTimers
    <3> QED BY <3>1
  <2>2. activeTimers = {Entry(x) : x \in timers}
    BY DEF Objects, SameTimers
  <2> HIDE DEF Entry
  <2>3. activeTimers' = {Entry(x) : x \in timers'}
    BY <1>2, <2>1, <2>2
  <2> QED BY <2>3, <1>2 DEF Entry, Objects, SameTimers
<1> QED BY <1>2, <1>7, <1>8, <1>9

\* reset() restarts finitely many timers.
LEMMA RestartedFinite ==
  ASSUME TypeOK
  PROVE  /\ IsFiniteSet(Restarted) /\ Restarted \subseteq ToSet(expired)
         /\ IsFiniteSet({<<heap'[a].expiration, a>> : a \in Restarted})
<1>1. expired \in Surjection(1..Len(expired), ToSet(expired)) /\ Len(expired) \in Nat
  BY DEF TypeOK, ToSet, Surjection
<1>2. IsFiniteSet(ToSet(expired))
  BY <1>1, FS_Interval, FS_Surjection
<1>3. Restarted \subseteq ToSet(expired)
  BY DEF Restarted
<1>4. IsFiniteSet(Restarted)
  BY <1>2, <1>3, FS_Subset
<1> DEFINE f == [a \in Restarted |-> <<heap'[a].expiration, a>>]
<1>5. f \in Surjection(Restarted, {<<heap'[a].expiration, a>> : a \in Restarted})
  BY DEF Surjection
<1> QED BY <1>3, <1>4, <1>5, FS_Surjection

\* reset() gives the batch back: each timer to the queue, with its new
\* expiration and its old sequence number, or to operator delete.
LEMMA ResetDoes ==
  ASSUME TypeOK, Objects, Reset
  PROVE  /\ heap' \in [Addrs -> Timer \cup {Free}]
         /\ timers' = timers \cup {<<heap'[a].expiration, a>> : a \in Restarted}
         /\ Restarted \subseteq Addrs
         /\ \A a \in Restarted : /\ heap'[a] # Free /\ heap'[a].sequence = heap[a].sequence
                                 /\ heap'[a].expiration \in Nat \ {0}
                                 /\ <<a, heap[a].sequence>> \notin canceling
         /\ \A a \in Addrs : a \notin ToSet(expired) => heap'[a] = heap[a]
         /\ timers' \subseteq Nat \X Addrs
         /\ Objects'
<1>1. ToSet(expired) \subseteq Addrs /\ Restarted \subseteq ToSet(expired)
  BY TimersTyped DEF ToSet, Restarted
<1>2. \A a \in Restarted : heap[a] \in Timer /\ heap[a] # Free
  <2>1. \A a \in ToSet(expired) : heap[a] # Free
    BY DEF ToSet, Objects, OneOwner
  <2> QED BY <1>1, <2>1 DEF TypeOK
<1> DEFINE Again(a) == batchNow + heap[a].interval
<1>3. \A a \in Restarted : /\ Again(a) \in Nat \ {0}
                           /\ <<a, heap[a].sequence>> \notin canceling
  <2>1. batchNow \in Nat
    BY BoundsAssumption DEF TypeOK, Times
  <2>2. \A a \in Restarted : heap[a].interval \in Nat
    BY <1>2, BoundsAssumption DEF Timer
  <2>3. \A a \in Restarted : heap[a].interval > 0 /\ <<a, heap[a].sequence>> \notin canceling
    BY DEF Restarted
  <2>4. \A m, n \in Nat : n > 0 => m + n \in Nat \ {0}
    OBVIOUS
  <2> QED BY <2>1, <2>2, <2>3, <2>4
<1> HIDE DEF Again
<1>4. \A a \in Restarted :
         heap'[a] \in Timer /\ heap'[a].sequence = heap[a].sequence /\ heap'[a].expiration = Again(a)
  <2> SUFFICES ASSUME NEW a \in Restarted
               PROVE  /\ heap'[a] \in Timer /\ heap'[a].sequence = heap[a].sequence
                      /\ heap'[a].expiration = Again(a)
    OBVIOUS
  <2>1. heap'[a] = [heap[a] EXCEPT !.expiration = Again(a)]
    BY <1>1 DEF Reset, Again
  <2>2. heap[a] \in Timer /\ Again(a) \in Nat
    BY <1>2, <1>3
  <2> QED BY <2>1, <2>2 DEF Timer
<1>5. \A a \in Addrs : /\ a \notin ToSet(expired) => heap'[a] = heap[a]
                       /\ a \in ToSet(expired) /\ a \notin Restarted => heap'[a] = Free
  BY <1>1 DEF Reset
<1>6. heap' \in [Addrs -> Timer \cup {Free}]
  <2>1. DOMAIN heap' = Addrs /\ heap' = [a \in Addrs |-> heap'[a]]
    BY DEF Reset
  <2>2. \A a \in Addrs : heap'[a] \in Timer \cup {Free}
    BY <1>4, <1>5 DEF TypeOK
  <2> QED BY <2>1, <2>2
<1>7. \A a \in Restarted : /\ heap'[a] # Free /\ heap'[a].sequence = heap[a].sequence
                           /\ heap'[a].expiration \in Nat \ {0}
  <2>1. \A a \in Restarted : heap'[a] # Free
    BY <1>4, ValuesAssumption
  <2> QED BY <1>3, <1>4, <2>1
<1>8. /\ timers' = timers \cup {<<heap'[a].expiration, a>> : a \in Restarted}
      /\ activeTimers' = activeTimers \cup {<<a, heap[a].sequence>> : a \in Restarted}
      /\ created' = created /\ functors' = functors /\ expired' = <<>>
  BY DEF Reset
<1>9. timers' \subseteq Nat \X Addrs
  <2>1. timers \subseteq Nat \X Addrs
    BY DEF TypeOK
  <2>2. \A a \in Restarted : <<heap'[a].expiration, a>> \in Nat \X Addrs
    BY <1>1, <1>7
  <2> QED BY <1>8, <2>1, <2>2
<1>10. IsFiniteSet(timers')
  BY <1>8, RestartedFinite, FS_Union DEF Objects
<1>11. \A x \in timers : x[2] \in Addrs /\ x[2] \notin ToSet(expired) /\ heap'[x[2]] = heap[x[2]]
  BY <1>5, TimersTyped DEF Objects, OneOwner, ToSet
<1>12. SameTimers'
  <2>1. \A x \in timers' : heap'[x[2]] # Free /\ heap'[x[2]].expiration = x[1]
    BY <1>7, <1>8, <1>11 DEF Objects, SameTimers
  <2> DEFINE Entry(x) == <<x[2], heap'[x[2]].sequence>>
             Back(a) == <<heap'[a].expiration, a>>
  <2>2. activeTimers = {Entry(x) : x \in timers}
    BY <1>11 DEF Objects, SameTimers
  <2>3. \A a \in Restarted : Entry(Back(a)) = <<a, heap[a].sequence>>
    BY <1>7
  <2>4. activeTimers' = {Entry(x) : x \in timers} \cup {Entry(Back(a)) : a \in Restarted}
    BY <1>8, <2>2, <2>3
  <2>5. timers' = timers \cup {Back(a) : a \in Restarted}
    BY <1>8
  <2> HIDE DEF Entry, Back
  <2>6. activeTimers' = {Entry(x) : x \in timers'}
    BY <2>4, <2>5
  <2> QED BY <2>1, <2>6 DEF Entry, SameTimers
<1>13. Sequences'
  <2>1. \A a \in Addrs : heap'[a] # Free => heap[a] # Free /\ heap'[a].sequence = heap[a].sequence
    BY <1>2, <1>5, <1>7
  <2> QED BY <2>1, <1>8 DEF Objects, Sequences
<1>14. OneOwner'
  <2>1. \A i \in Adds : functors[i].timer \in Addrs /\ functors[i].timer \notin ToSet(expired)
    BY TimersTyped DEF Objects, OneOwner, ToSet
  <2>2. Adds' = Adds
    BY <1>8 DEF Adds
  <2>3. \A i \in Adds' : heap'[functors'[i].timer] # Free
    BY <2>1, <2>2, <1>5, <1>8 DEF Objects, OneOwner
  <2>4. \A x \in timers' : x[2] \in ToSet(expired) \/ x \in timers
    BY <1>1, <1>8
  <2>5. \A x \in timers' : \A i \in Adds' : functors'[i].timer # x[2]
    BY <2>1, <2>2, <2>4, <1>8 DEF Objects, OneOwner
  <2> QED BY <2>2, <2>3, <2>5, <1>8 DEF Objects, OneOwner
<1> QED BY <1>1, <1>3, <1>5, <1>6, <1>7, <1>8, <1>9, <1>10, <1>12, <1>13, <1>14 DEF Objects

-----------------------------------------------------------------------------
(* Steps that leave the objects where they are. *)

\* The steps that change neither an object nor who owns it.
LEMMA QuietSteps ==
  ASSUME IInv,
         \/ TimerfdExpires \/ Tick \/ Poll \/ EndDispatch \/ EndFunctors \/ RunTimer
         \/ CallbackReturns \/ (\E t \in Callers : CallerGetId(t)) \/ UNCHANGED vars
  PROVE  /\ UNCHANGED <<heap, created, timers, activeTimers, functors, expired, canceling, cancelled>>
         /\ callingExpiredTimers' = callingExpiredTimers
<1> USE DEF loopVars, fdVars, setVars, callingExpiredTimers
<1>1. CASE TimerfdExpires \/ Tick \/ UNCHANGED vars
  BY <1>1 DEF TimerfdExpires, Tick, vars
<1>2. CASE Poll \/ EndDispatch \/ EndFunctors \/ RunTimer \/ CallbackReturns
  BY <1>2 DEF Poll, EndDispatch, EndFunctors, RunTimer, CallbackReturns
<1>3. CASE \E t \in Callers : CallerGetId(t)
  BY <1>3 DEF CallerGetId
<1> QED BY <1>1, <1>2, <1>3

\* Every step keeps the objects and the two sets in agreement.
LEMMA ObjectsNext == IInv /\ [Next]_vars => Objects'
<1> SUFFICES ASSUME IInv, [Next]_vars PROVE Objects'
  OBVIOUS
<1>1. TypeOK /\ Objects /\ functors \in Seq(Functor) /\ Sequences
  BY DEF IInv, Objects, TypeOK
<1>2. ASSUME NEW a \in Addrs, NEW when \in Times, NEW i \in Intervals, OwnerAddTimer(a, when, i)
      PROVE  Objects'
  <2>1. /\ heap'[a] \in Timer /\ heap[a] = Free /\ heap'[a] # Free /\ Sequences'
        /\ \A b \in Addrs \ {a} : heap'[b] = heap[b]
    <3>1. NewTimer(a, when, i)
      BY <1>2 DEF OwnerAddTimer
    <3> QED BY <1>1, <3>1, NewTimerDoes
  <2>2. /\ AddTimerInLoop(a, heap'[a]) /\ functors' = functors /\ expired' = expired
        /\ callingExpiredTimers' = callingExpiredTimers
    BY <1>2 DEF OwnerAddTimer, loopVars, callingExpiredTimers
  <2>3. Adds' = Adds
    BY <2>2 DEF Adds
  <2>4. /\ \A x \in timers : x[2] # a
        /\ \A j \in DOMAIN expired : expired[j] # a
        /\ \A j \in Adds : functors[j].timer # a
    BY <2>1, <1>1 DEF Objects, SameTimers, OneOwner
  <2>5. \A j, k \in Adds' : functors'[j].timer = functors'[k].timer => j = k
    BY <2>2, <2>3, <1>1 DEF Objects, OneOwner
  <2> QED BY <1>1, <2>1, <2>2, <2>3, <2>4, <2>5, ObjectsAdd
<1>3. ASSUME NEW id \in ids, OwnerCancel(id)
      PROVE  Objects'
  <2>1. id \in Id
    BY <1>1 DEF TypeOK
  <2>2. /\ CancelInLoop(id) /\ functors' = functors /\ expired' = expired /\ created' = created
        /\ callingExpiredTimers' = callingExpiredTimers
    BY <1>3 DEF OwnerCancel, callingExpiredTimers
  <2>3. Adds' = Adds
    BY <2>2 DEF Adds
  <2>4. \A j, k \in Adds' : functors'[j].timer = functors'[k].timer => j = k
    BY <2>2, <2>3, <1>1 DEF Objects, OneOwner
  <2> QED BY <1>1, <2>1, <2>2, <2>3, <2>4, ObjectsCancel
<1>4. ASSUME NEW t \in Callers, NEW a \in Addrs, NEW when \in Times, NEW i \in Intervals,
             CallerAddTimer(t, a, when, i)
      PROVE  Objects'
  <2>1. /\ heap[a] = Free /\ heap'[a] # Free /\ Sequences'
        /\ \A b \in Addrs \ {a} : heap'[b] = heap[b]
    <3>1. NewTimer(a, when, i)
      BY <1>4 DEF CallerAddTimer
    <3> QED BY <1>1, <3>1, NewTimerDoes
  <2> DEFINE f == [op |-> "add", timer |-> a]
  <2>2. /\ functors' = Append(functors, f) /\ timers' = timers /\ activeTimers' = activeTimers
        /\ expired' = expired /\ callingExpiredTimers' = callingExpiredTimers
    BY <1>4 DEF CallerAddTimer, loopVars, setVars, callingExpiredTimers
  <2>3. f \in Functor /\ f.timer = a
    BY DEF Functor
  <2>4. \A j \in Adds' : (j \in Adds /\ functors'[j] = functors[j])
                           \/ (j = Len(functors) + 1 /\ functors'[j] = f)
    BY <1>1, <2>2, <2>3, AddsAppend
  <2>5. /\ \A x \in timers : x[2] \in Addrs \ {a}
        /\ \A j \in DOMAIN expired : expired[j] \in Addrs \ {a}
        /\ \A j \in Adds : functors[j].timer \in Addrs \ {a}
    BY <2>1, <1>1, TimersTyped DEF Objects, SameTimers, OneOwner
  <2>6. SameTimers'
    BY <1>1, <2>1, <2>2, <2>5 DEF Objects, SameTimers
  <2>7. OneOwner'
    <3>1. \A j \in Adds' : heap'[functors'[j].timer] # Free
      BY <1>1, <2>1, <2>3, <2>4, <2>5 DEF Objects, OneOwner
    <3>2. \A j \in DOMAIN expired' : heap'[expired'[j]] # Free
      BY <1>1, <2>1, <2>2, <2>5 DEF Objects, OneOwner
    <3>3. \A j, k \in Adds' : functors'[j].timer = functors'[k].timer => j = k
      BY <1>1, <2>3, <2>4, <2>5 DEF Objects, OneOwner
    <3> DEFINE q == functors'
    <3>4. \A j \in Adds' : q[j].timer = a \/ (j \in Adds /\ q[j].timer = functors[j].timer)
      BY <2>3, <2>4
    <3> HIDE DEF q
    <3>5. \A x \in timers : /\ \A j \in Adds' : q[j].timer # x[2]
                            /\ \A j \in DOMAIN expired : expired[j] # x[2]
      BY <1>1, <2>5, <3>4 DEF Objects, OneOwner
    <3>6. \A j \in Adds' : \A k \in DOMAIN expired : q[j].timer # expired[k]
      BY <1>1, <2>5, <3>4 DEF Objects, OneOwner
    <3> QED BY <1>1, <2>2, <3>1, <3>2, <3>3, <3>5, <3>6 DEF q, Objects, OneOwner
  <2> QED BY <1>1, <2>1, <2>2, <2>6, <2>7 DEF Objects
<1>5. ASSUME NEW t \in Callers, NEW id \in ids, CallerCancel(t, id)
      PROVE  Objects'
  <2> DEFINE f == [op |-> "cancel", id |-> id]
  <2>1. /\ functors' = Append(functors, f)
        /\ UNCHANGED <<heap, created, timers, activeTimers, expired>>
        /\ callingExpiredTimers' = callingExpiredTimers
    BY <1>5 DEF CallerCancel, loopVars, setVars, callingExpiredTimers
  <2>2. f \in Functor /\ f.op # "add"
    BY <1>1 DEF Functor, TypeOK
  <2>3. \A j \in Adds' : j \in Adds /\ functors'[j] = functors[j]
    BY <1>1, <2>1, <2>2, AddsAppend
  <2> DEFINE q == functors'
  <2> HIDE DEF q
  <2>4. \A j \in Adds' : j \in Adds /\ q[j] = functors[j]
    BY <2>3 DEF q
  <2>5. /\ \A j \in Adds' : heap[q[j].timer] # Free
        /\ \A j, k \in Adds' : q[j].timer = q[k].timer => j = k
        /\ \A x \in timers : \A j \in Adds' : q[j].timer # x[2]
        /\ \A j \in Adds' : \A k \in DOMAIN expired : q[j].timer # expired[k]
    BY <1>1, <2>4 DEF Objects, OneOwner
  <2>6. OneOwner'
    BY <1>1, <2>1, <2>5 DEF q, Objects, OneOwner
  <2> QED BY <1>1, <2>1, <2>6 DEF Objects, SameTimers, Sequences
<1>6. ASSUME RunAddTimer
      PROVE  Objects'
  <2> DEFINE a == Head(functors).timer
  <2>1. functors # <<>> /\ functors' = Tail(functors) /\ Head(functors).op = "add"
    BY <1>1, <1>6 DEF RunAddTimer, TypeOK
  <2>2. /\ AddTimerInLoop(a, heap[a])
        /\ UNCHANGED <<heap, created, expired>> /\ callingExpiredTimers' = callingExpiredTimers
    BY <1>6 DEF RunAddTimer, callingExpiredTimers
  <2>3. 1 \in Adds /\ functors[1] = Head(functors) /\ a \in Addrs
    BY <1>1, <2>1, QueueTail, TimersTyped DEF Adds
  <2>4. /\ heap[a] # Free /\ heap[a] \in Timer
        /\ \A x \in timers : x[2] # a
        /\ \A j \in DOMAIN expired : expired[j] # a
    BY <1>1, <2>3 DEF Objects, OneOwner, TypeOK
  <2>5. \A j \in Adds' : j \in Nat \ {0} /\ j + 1 \in Adds /\ functors'[j] = functors[j + 1]
    BY <1>1, <2>1, AddsTail
  <2>6. \A j \in Adds' : \E k \in Adds : functors'[j] = functors[k] /\ functors[k].timer # a
    <3> SUFFICES ASSUME NEW j \in Adds'
                 PROVE  functors[j + 1].timer # a
      BY <2>5
    <3>1. j + 1 # 1 /\ j + 1 \in Adds
      BY <2>5
    <3> QED BY <1>1, <2>3, <3>1 DEF Objects, OneOwner
  <2>7. \A j, k \in Adds' : functors'[j].timer = functors'[k].timer => j = k
    <3> SUFFICES ASSUME NEW j \in Adds', NEW k \in Adds',
                        functors[j + 1].timer = functors[k + 1].timer
                 PROVE  j = k
      BY <2>5
    <3>1. j + 1 = k + 1
      BY <1>1, <2>5 DEF Objects, OneOwner
    <3> QED BY <2>5, <3>1
  <2>8. Sequences'
    BY <1>1, <2>2 DEF Sequences
  <2> HIDE DEF a
  <2> QED BY <1>1, <2>2, <2>3, <2>4, <2>6, <2>7, <2>8, ObjectsAdd
<1>7. ASSUME RunCancel
      PROVE  Objects'
  <2> DEFINE id == Head(functors).id
  <2>1. functors # <<>> /\ functors' = Tail(functors) /\ Head(functors).op = "cancel"
    BY <1>1, <1>7 DEF RunCancel, TypeOK
  <2>2. /\ CancelInLoop(id)
        /\ UNCHANGED <<created, expired>> /\ callingExpiredTimers' = callingExpiredTimers
    BY <1>7 DEF RunCancel, callingExpiredTimers
  <2>3. id \in Id
    BY <1>1, <2>1, QueueTail, TimersTyped
  <2>5. \A j \in Adds' : j \in Nat \ {0} /\ j + 1 \in Adds /\ functors'[j] = functors[j + 1]
    BY <1>1, <2>1, AddsTail
  <2>7. \A j, k \in Adds' : functors'[j].timer = functors'[k].timer => j = k
    <3> SUFFICES ASSUME NEW j \in Adds', NEW k \in Adds',
                        functors[j + 1].timer = functors[k + 1].timer
                 PROVE  j = k
      BY <2>5
    <3>1. j + 1 = k + 1
      BY <1>1, <2>5 DEF Objects, OneOwner
    <3> QED BY <2>5, <3>1
  <2> HIDE DEF id
  <2> QED BY <1>1, <2>2, <2>3, <2>5, <2>7, ObjectsCancel
<1>8. ASSUME HandleRead
      PROVE  Objects'
  <2>1. /\ timers' = {x \in timers : ~(x[1] <= now)}
        /\ \A i \in DOMAIN expired' : \E x \in timers : x[2] = expired'[i] /\ x[1] <= now
        /\ SameTimers'
    BY <1>1, <1>8, HandleReadDoes
  <2>2. UNCHANGED <<heap, created, functors>> /\ callingExpiredTimers'
    BY <1>8 DEF HandleRead, callingExpiredTimers
  <2>3. IsFiniteSet(timers')
    BY <1>1, <2>1, FS_Subset DEF Objects
  <2>4. Adds' = Adds
    BY <2>2 DEF Adds
  <2>5. \A x \in timers : \A j \in DOMAIN expired' : x[2] = expired'[j] => x[1] <= now
    BY <1>1, <2>1 DEF Objects, SameTimers
  <2>6. OneOwner'
    <3>1. \A j \in DOMAIN expired' : heap'[expired'[j]] # Free
      BY <1>1, <2>1, <2>2 DEF Objects, SameTimers
    <3>2. \A x \in timers' :
           /\ \A j \in Adds' : functors'[j].timer # x[2]
           /\ \A j \in DOMAIN expired' : expired'[j] # x[2]
      BY <1>1, <2>1, <2>2, <2>4, <2>5 DEF Objects, OneOwner
    <3>3. \A j \in Adds' : \A k \in DOMAIN expired' : functors'[j].timer # expired'[k]
      BY <1>1, <2>1, <2>2, <2>4 DEF Objects, OneOwner
    <3> QED BY <1>1, <2>2, <2>4, <3>1, <3>2, <3>3 DEF Objects, OneOwner
  <2> QED BY <1>1, <2>1, <2>2, <2>3, <2>6 DEF Objects, Sequences
<1>9. ASSUME Reset
      PROVE  Objects'
  BY <1>1, <1>9, ResetDoes
<1>10. ASSUME \/ TimerfdExpires \/ Tick \/ Poll \/ EndDispatch \/ EndFunctors \/ RunTimer
              \/ CallbackReturns \/ (\E t \in Callers : CallerGetId(t)) \/ UNCHANGED vars
       PROVE  Objects'
  BY <1>1, <1>10, QuietSteps, ObjectsStay
<1> QED BY <1>2, <1>3, <1>4, <1>5, <1>6, <1>7, <1>8, <1>9, <1>10
        DEF Next, CallerStep, OwnerCode, LoopStep

-----------------------------------------------------------------------------
(* The timerfd.                                                            *)

\* What resetTimerfd() arms the timerfd with at time n for expiration e.
Latest(e, n) == IF e > n THEN e ELSE n + 1

\* Arming for a later expiration, or at a later time, expires no earlier.
LEMMA LatestBounds ==
  ASSUME NEW e \in Nat, NEW n \in Nat
  PROVE  /\ Latest(e, n) \in Nat /\ n + 1 \in Nat /\ n + 1 <= Latest(e, n)
         /\ Latest(0, n) = n + 1
         /\ Latest(e, n) <= Latest(e, n + 1)
         /\ \A m \in Nat : e <= m => Latest(e, n) <= Latest(m, n)
         /\ \A m \in Nat : m <= Latest(e, n) => m <= Latest(e, n + 1)
         /\ \A m \in Nat : m <= n + 1 => m <= n + 2 /\ m <= Latest(e, n)
BY DEF Latest

\* The timerfd expires in time for every timer queued.
ArmedForAll == \A x \in timers : armed <= Latest(x[1], now)

\* TimerfdArmed in terms of Latest.
LEMMA ArmedMeans ==
  TimerfdArmed <=>
    (timers # {} /\ ~callingExpiredTimers
        => readable \/ reported \/ (armed # None /\ ArmedForAll))
BY DEF TimerfdArmed, ArmedForAll, Latest

\* Times are numbers.
LEMMA NowTyped ==
  ASSUME TypeOK
  PROVE  now \in Nat /\ now + 1 \in Nat /\ batchNow \in Nat
         /\ (armed # None => armed \in Nat)
BY BoundsAssumption DEF TypeOK, Times

\* resetTimerfd() arms the timerfd and makes it unreadable.
LEMMA ResetTimerfdDoes ==
  ASSUME TypeOK, NEW e \in Nat, ResetTimerfd(e)
  PROVE  armed' = Latest(e, now) /\ armed' \in Nat /\ armed' # None /\ readable' = FALSE
<1>1. armed' = Latest(e, now) /\ readable' = FALSE
  BY DEF ResetTimerfd, Latest
<1> QED BY <1>1, NowTyped, LatestBounds, ValuesAssumption

\* addTimerInLoop() arms the timerfd when the new timer is the earliest, and
\* otherwise it was armed for one that is not later.
LEMMA ArmingAdd ==
  ASSUME TypeOK, Arming, NEW a, NEW obj \in Timer, AddTimerInLoop(a, obj),
         UNCHANGED <<now, reported, loopPc>>
  PROVE  Arming'
<1> DEFINE e == obj.expiration
           new == <<e, a>>
<1>1. e \in Nat /\ timers' = timers \cup {new} /\ new[1] = e
  BY DEF Timer, AddTimerInLoop
<1> HIDE DEF e, new
<1>2. /\ \A x \in timers : x[1] \in Nat
      /\ now \in Nat /\ (armed # None => armed \in Nat)
  BY TimersTyped, NowTyped
<1>3. callingExpiredTimers' = callingExpiredTimers
  BY DEF callingExpiredTimers
<1>4. CASE EarliestChanged(e)
  <2>1. armed' = Latest(e, now) /\ armed' \in Nat /\ armed' # None
    <3>1. ResetTimerfd(e)
      BY <1>4 DEF AddTimerInLoop, e
    <3> QED BY <1>1, <3>1, ResetTimerfdDoes
  <2>2. \A x \in timers : e <= x[1]
    <3>1. \A x \in timers : e < x[1]
      BY <1>4 DEF EarliestChanged
    <3> QED BY <3>1, <1>1, <1>2
  <2>3. \A x \in timers' : armed' <= Latest(x[1], now)
    <3>1. \A x \in timers' : x[1] \in Nat /\ e <= x[1]
      BY <1>1, <1>2, <2>2
    <3> QED BY <2>1, <3>1, <1>1, <1>2, LatestBounds
  <2>4. TimerfdArmed'
    BY <2>1, <2>3 DEF TimerfdArmed, Latest
  <2>5. (\E x \in timers' : x[1] = 0) => armed' <= now + 1
    <3>1. ASSUME NEW x \in timers', x[1] = 0
          PROVE  armed' <= now + 1
      BY <2>3, <3>1, <1>2, LatestBounds
    <3> QED BY <3>1
  <2> QED BY <2>1, <2>4, <2>5, <1>3 DEF Arming
<1>5. CASE ~EarliestChanged(e)
  <2>1. armed' = armed /\ readable' = readable
    BY <1>5 DEF AddTimerInLoop, fdVars, e
  <2>2. PICK y \in timers : y[1] <= e
    <3>1. PICK y \in timers : ~(e < y[1])
      BY <1>5 DEF EarliestChanged
    <3> QED BY <3>1, <1>1, <1>2
  <2>3. TimerfdArmed'
    <3> SUFFICES ASSUME ~callingExpiredTimers, ~readable, ~reported
                 PROVE  armed # None /\ \A x \in timers' : armed <= Latest(x[1], now)
      BY <1>3, <2>1 DEF TimerfdArmed, Latest
    <3>1. armed # None /\ \A x \in timers : armed <= Latest(x[1], now)
      BY <2>2, ArmedMeans DEF Arming, ArmedForAll
    <3>2. armed <= Latest(e, now)
      <4>1. armed <= Latest(y[1], now) /\ Latest(y[1], now) <= Latest(e, now)
        BY <3>1, <2>2, <1>1, <1>2, LatestBounds
      <4>2. Latest(y[1], now) \in Nat /\ Latest(e, now) \in Nat /\ armed \in Nat
        BY <3>1, <2>2, <1>1, <1>2, LatestBounds
      <4> QED BY <4>1, <4>2
    <3> QED BY <3>1, <3>2, <1>1
  <2>4. (\E x \in timers' : x[1] = 0) => \E x \in timers : x[1] = 0
    <3>1. new[1] = 0 => y[1] = 0
      BY <1>1, <1>2, <2>2
    <3> QED BY <3>1, <2>2, <1>1
  <2> QED BY <2>1, <2>3, <2>4, <1>3 DEF Arming
<1> QED BY <1>4, <1>5

\* Fewer timers need no earlier timerfd.
LEMMA ArmingShrink ==
  ASSUME Arming, timers' \subseteq timers, UNCHANGED <<armed, readable, reported, now, loopPc>>
  PROVE  Arming'
BY DEF Arming, TimerfdArmed, callingExpiredTimers

\* Some timer is the earliest.
LEMMA EarliestTimer ==
  ASSUME NEW S \in SUBSET (Nat \X Addrs), S # {}
  PROVE  \E x \in S : \A y \in S : x[1] <= y[1]
<1> DEFINE T == {x[1] : x \in S}
           R == OpToRel(<, Nat)
<1>1. T \subseteq Nat /\ T # {}
  OBVIOUS
<1>2. IsWellFoundedOn(R, Nat)
  BY NatLessThanWellFounded
<1>3. \A x, y \in Nat : <<y, x>> \in R <=> y < x
  BY DEF OpToRel
<1> HIDE DEF R
<1>4. PICK m \in T : \A n \in T : ~ (<<n, m>> \in R)
  BY <1>1, <1>2, WFMin
<1>5. ASSUME NEW n \in T
      PROVE  m <= n
  <2>1. m \in Nat /\ n \in Nat
    BY <1>1
  <2>2. ~(n < m)
    BY <1>3, <1>4, <2>1
  <2> QED BY <2>1, <2>2
<1> QED BY <1>5

\* reset() arms the timerfd for the earliest timer; only when that timer's
\* expiration is 0 it does not, and then addTimer() has, in a callback.
LEMMA ArmingReset ==
  ASSUME TypeOK, Objects, Arming, Reset
  PROVE  Arming' /\ armed' \in Nat \cup {None} /\ readable' \in BOOLEAN
<1>1. /\ timers' = timers \cup {<<heap'[a].expiration, a>> : a \in Restarted}
      /\ \A a \in Restarted : heap'[a].expiration \in Nat \ {0}
      /\ timers' \in SUBSET (Nat \X Addrs)
  BY ResetDoes
<1>2. /\ callingExpiredTimers /\ ~callingExpiredTimers' /\ loopPc' = "dispatch"
      /\ now' = now /\ reported' = reported
  BY DEF Reset, callingExpiredTimers
<1>3. now \in Nat /\ now + 1 \in Nat /\ (armed # None => armed \in Nat) /\ \A x \in timers' : x[1] \in Nat
  BY <1>1, NowTyped
<1>4. CASE \E x \in timers' : x[1] > 0 /\ \A y \in timers' : x[1] <= y[1]
  <2>1. PICK x \in timers' : (\A y \in timers' : x[1] <= y[1]) /\ ResetTimerfd(x[1])
    BY <1>4 DEF Reset
  <2>2. armed' = Latest(x[1], now) /\ armed' # None /\ armed' \in Nat /\ readable' = FALSE
    BY <1>3, <2>1, ResetTimerfdDoes
  <2>3. \A y \in timers' : armed' <= Latest(y[1], now)
    BY <1>3, <2>1, <2>2, LatestBounds
  <2> QED BY <1>2, <2>2, <2>3 DEF Arming, TimerfdArmed, Latest
<1>5. CASE ~\E x \in timers' : x[1] > 0 /\ \A y \in timers' : x[1] <= y[1]
  <2>1. armed' = armed /\ readable' = readable
    BY <1>5 DEF Reset, fdVars
  <2>2. ASSUME timers' # {}
        PROVE  readable \/ (armed # None /\ \A y \in timers' : armed <= Latest(y[1], now))
    <3>1. PICK x \in timers' : \A y \in timers' : x[1] <= y[1]
      BY <1>1, <2>2, EarliestTimer
    <3>2. x[1] = 0
      BY <1>3, <1>5, <3>1
    <3>3. x \in timers
      BY <1>1, <3>2
    <3>4. readable \/ (armed # None /\ armed <= now + 1)
      BY <3>2, <3>3, <1>2 DEF Arming
    <3> QED BY <3>4, <1>3, LatestBounds
  <2> QED BY <1>2, <2>1, <2>2 DEF Arming, TimerfdArmed, Latest, TypeOK
<1> QED BY <1>4, <1>5

\* Every step leaves the timerfd armed in time.
LEMMA ArmingNext == IInv /\ [Next]_vars => Arming'
<1> SUFFICES ASSUME IInv, [Next]_vars PROVE Arming'
  OBVIOUS
<1>1. /\ TypeOK /\ Objects /\ Arming /\ Sequences /\ functors \in Seq(Functor)
      /\ now \in Nat /\ now + 1 \in Nat /\ (armed # None => armed \in Nat)
      /\ \A x \in timers : x[1] \in Nat
  BY NowTyped, TimersTyped DEF IInv, Objects, TypeOK
<1>2. ASSUME NEW a \in Addrs, NEW when \in Times, NEW i \in Intervals, OwnerAddTimer(a, when, i)
      PROVE  Arming'
  <2>1. heap'[a] \in Timer
    <3>1. NewTimer(a, when, i)
      BY <1>2 DEF OwnerAddTimer
    <3> QED BY <1>1, <3>1, NewTimerDoes
  <2>2. AddTimerInLoop(a, heap'[a]) /\ UNCHANGED <<now, reported, loopPc>>
    BY <1>2 DEF OwnerAddTimer, loopVars
  <2> QED BY <1>1, <2>1, <2>2, ArmingAdd
<1>3. ASSUME RunAddTimer
      PROVE  Arming'
  <2> DEFINE a == Head(functors).timer
  <2>1. functors # <<>> /\ Head(functors).op = "add"
    BY <1>1, <1>3 DEF RunAddTimer, TypeOK
  <2>2. 1 \in Adds /\ functors[1] = Head(functors) /\ a \in Addrs
    BY <1>1, <2>1, QueueTail, TimersTyped DEF Adds
  <2>3. heap[a] \in Timer
    BY <1>1, <2>2 DEF Objects, OneOwner, TypeOK
  <2>4. AddTimerInLoop(a, heap[a]) /\ UNCHANGED <<now, reported, loopPc>>
    BY <1>3 DEF RunAddTimer
  <2> QED BY <1>1, <2>3, <2>4, ArmingAdd
<1>4. ASSUME NEW id \in ids, OwnerCancel(id)
      PROVE  Arming'
  <2>1. id \in Id
    BY <1>1 DEF TypeOK
  <2>2. CancelInLoop(id) /\ UNCHANGED <<armed, readable, reported, now, loopPc>>
    BY <1>4 DEF OwnerCancel, fdVars
  <2>3. timers' \subseteq timers
    BY <1>1, <2>1, <2>2, CancelDoes DEF Objects
  <2> QED BY <1>1, <2>2, <2>3, ArmingShrink
<1>5. ASSUME RunCancel
      PROVE  Arming'
  <2> DEFINE id == Head(functors).id
  <2>1. functors # <<>> /\ Head(functors).op = "cancel"
    BY <1>1, <1>5 DEF RunCancel, TypeOK
  <2>2. id \in Id
    BY <1>1, <2>1, QueueTail, TimersTyped
  <2>3. CancelInLoop(id) /\ UNCHANGED <<armed, readable, reported, now, loopPc>>
    BY <1>5 DEF RunCancel, fdVars
  <2>4. timers' \subseteq timers
    BY <1>1, <2>2, <2>3, CancelDoes DEF Objects
  <2> QED BY <1>1, <2>3, <2>4, ArmingShrink
<1>6. ASSUME HandleRead
      PROVE  Arming'
  <2>1. /\ timers' = {x \in timers : ~(x[1] <= now)}
        /\ callingExpiredTimers' /\ ~reported'
    BY <1>1, <1>6, HandleReadDoes DEF HandleRead, callingExpiredTimers
  <2>2. \A x \in timers' : x[1] # 0
    BY <1>1, <2>1
  <2> QED BY <2>1, <2>2 DEF Arming, TimerfdArmed
<1>7. ASSUME Reset
      PROVE  Arming'
  BY <1>1, <1>7, ArmingReset
<1>8. ASSUME Tick
      PROVE  Arming'
  <2>1. /\ now' = now + 1 /\ UNCHANGED <<timers, armed, readable, reported, loopPc>>
        /\ callingExpiredTimers' = callingExpiredTimers
    BY <1>8 DEF Tick, loopVars, setVars, fdVars, callingExpiredTimers
  <2>2. armed # None => \A x \in timers : armed <= Latest(x[1], now) => armed <= Latest(x[1], now')
    BY <1>1, <2>1, LatestBounds
  <2>3. TimerfdArmed'
    <3> SUFFICES ASSUME timers # {}, ~callingExpiredTimers, ~readable, ~reported
                 PROVE  armed # None /\ \A x \in timers : armed <= Latest(x[1], now')
      BY <2>1 DEF TimerfdArmed, Latest
    <3>1. armed # None /\ \A x \in timers : armed <= Latest(x[1], now)
      BY <1>1, ArmedMeans DEF Arming, ArmedForAll
    <3> QED BY <2>2, <3>1
  <2>4. armed # None /\ armed <= now + 1 => armed <= now' + 1
    BY <1>1, <2>1
  <2> QED BY <1>1, <2>1, <2>3, <2>4 DEF Arming
<1>9. ASSUME TimerfdExpires
      PROVE  Arming'
  BY <1>1, <1>9 DEF TimerfdExpires, Arming, TimerfdArmed, loopVars
<1>10. ASSUME Poll
       PROVE  Arming'
  <2>1. /\ reported' = readable /\ loopPc' = "dispatch" /\ ~callingExpiredTimers /\ ~reported
        /\ UNCHANGED <<timers, armed, readable, now>>
    BY <1>1, <1>10 DEF Poll, setVars, fdVars, Arming, callingExpiredTimers
  <2> QED BY <1>1, <2>1 DEF Arming, TimerfdArmed, callingExpiredTimers
<1>11. ASSUME EndDispatch \/ EndFunctors \/ RunTimer \/ CallbackReturns
       PROVE  Arming'
  <2>1. /\ UNCHANGED <<timers, armed, readable, now, reported>> /\ ~reported
        /\ callingExpiredTimers' = callingExpiredTimers
    BY <1>1, <1>11 DEF EndDispatch, EndFunctors, RunTimer, CallbackReturns, setVars, fdVars, Arming,
                  callingExpiredTimers
  <2> QED BY <1>1, <2>1 DEF Arming, TimerfdArmed
<1>12. ASSUME \/ UNCHANGED vars
              \/ \E t \in Callers : CallerGetId(t)
              \/ \E t \in Callers, a \in Addrs, when \in Times, i \in Intervals :
                   CallerAddTimer(t, a, when, i)
              \/ \E t \in Callers, id \in ids : CallerCancel(t, id)
       PROVE  Arming'
  <2>1. UNCHANGED <<timers, armed, readable, now, reported, loopPc>>
    BY <1>12 DEF vars, CallerGetId, CallerAddTimer, CallerCancel, setVars, fdVars, loopVars
  <2> QED BY <1>1, <2>1, ArmingShrink
<1> QED BY <1>2, <1>3, <1>4, <1>5, <1>6, <1>7, <1>8, <1>9, <1>10, <1>11, <1>12
        DEF Next, CallerStep, OwnerCode, LoopStep

-----------------------------------------------------------------------------
(* Cancellations.                                                          *)

\* cancelInLoop() takes a cancelled timer out of the queue or notes it in
\* cancelingTimers_, and a stale TimerId, whose sequence number no object has,
\* marks nothing.
LEMMA CancelMarks ==
  ASSUME TypeOK, Objects, Cancellations, NEW id \in Id, CancelInLoop(id), created' = created,
         \A i \in Adds' : \E k \in Adds : functors'[i] = functors[k],
         expired' = expired
  PROVE  Cancellations' /\ cancelled' \subseteq 1..MaxTimers
<1>1. /\ \A a \in Addrs : heap'[a] # Free => heap'[a] = heap[a]
      /\ timers' \subseteq timers
  BY CancelDoes DEF Objects
<1>2. /\ \A x \in timers : x[2] \in Addrs /\ heap[x[2]] # Free
      /\ \A j \in DOMAIN expired : expired[j] \in Addrs /\ heap[expired[j]] # Free
      /\ \A k \in Adds : functors[k].timer \in Addrs /\ heap[functors[k].timer] # Free
  BY TimersTyped DEF Objects, OneOwner, SameTimers
<1>4. CASE ~Cancellable(id)
  <2>1. cancelled' = cancelled /\ canceling \subseteq canceling'
    BY <1>4 DEF CancelInLoop
  <2>2. CASE id \in activeTimers
    BY <1>4, <2>2 DEF Cancellable
  <2>3. CASE id \notin activeTimers
    <3>1. heap' = heap
      BY <2>3 DEF CancelInLoop
    <3> QED BY <1>1, <2>1, <3>1 DEF Cancellations, CancelledGone, TypeOK
  <2> QED BY <2>2, <2>3
<1>5. CASE id \in activeTimers
  <2>1. /\ cancelled' = cancelled \cup {id[2]} /\ canceling' = canceling
        /\ id[1] \in Addrs /\ heap[id[1]] # Free /\ heap[id[1]].sequence = id[2]
        /\ timers' = {x \in timers : x[2] # id[1]}
        /\ \E x \in timers : x[2] = id[1]
        /\ \A a \in Addrs \ {id[1]} : heap'[a] = heap[a]
    <3>1. cancelled' = cancelled \cup {id[2]}
      BY <1>5 DEF CancelInLoop, Cancellable
    <3> QED BY <3>1, <1>5, CancelDoes DEF Objects, TypeOK
  <2>2. \A a \in Addrs \ {id[1]} : heap[a] # Free => heap[a].sequence # id[2]
    BY <2>1 DEF Objects, Sequences
  <2>3. id[2] \in 1..MaxTimers /\ id[2] <= created
    BY <2>1 DEF Objects, Sequences, TypeOK, Timer
  <2>4. \A x \in timers' : heap'[x[2]].sequence \notin cancelled'
    BY <1>2, <2>1, <2>2 DEF Cancellations, CancelledGone
  <2>5. \A j \in DOMAIN expired : expired[j] # id[1]
    BY <2>1 DEF Objects, OneOwner
  <2>6. \A k \in Adds : functors[k].timer # id[1]
    BY <2>1 DEF Objects, OneOwner
  <2>7. \A k \in Adds : heap'[functors[k].timer].sequence \notin cancelled'
    BY <1>2, <2>1, <2>2, <2>6 DEF Cancellations
  <2>8. \A j \in DOMAIN expired : heap'[expired[j]].sequence \in cancelled'
           => <<expired[j], heap'[expired[j]].sequence>> \in canceling'
    BY <1>2, <2>1, <2>2, <2>5 DEF Cancellations
  <2> QED BY <2>1, <2>3, <2>4, <2>7, <2>8 DEF Cancellations, CancelledGone, TypeOK
<1>6. CASE Cancellable(id) /\ id \notin activeTimers
  <2>1. /\ cancelled' = cancelled \cup {id[2]} /\ canceling' = canceling \cup {id}
        /\ heap' = heap /\ timers' = timers
        /\ id = <<id[1], id[2]>>
    BY <1>6 DEF CancelInLoop, Cancellable, setVars, Id
  <2>2. PICK i \in DOMAIN expired : expired[i] = id[1] /\ heap[id[1]].sequence = id[2]
    BY <1>6 DEF Cancellable
  <2>3. \A a \in Addrs \ {id[1]} : heap[a] # Free => heap[a].sequence # id[2]
    BY <1>2, <2>2 DEF Objects, Sequences
  <2>4. id[2] \in 1..MaxTimers /\ id[2] <= created
    BY <1>2, <2>2 DEF Objects, Sequences, TypeOK, Timer
  <2>5. \A x \in timers : heap[x[2]].sequence \notin cancelled'
    <3>1. \A x \in timers : x[2] # id[1]
      BY <2>2 DEF Objects, OneOwner
    <3> QED BY <1>2, <2>1, <2>3, <3>1 DEF Cancellations, CancelledGone
  <2>6. \A k \in Adds : heap[functors[k].timer].sequence \notin cancelled'
    <3>1. \A k \in Adds : functors[k].timer # id[1]
      BY <2>2 DEF Objects, OneOwner
    <3> QED BY <1>2, <2>1, <2>3, <3>1 DEF Cancellations
  <2>7. \A j \in DOMAIN expired : heap[expired[j]].sequence \in cancelled'
           => <<expired[j], heap[expired[j]].sequence>> \in canceling'
    BY <1>2, <2>1, <2>3 DEF Cancellations
  <2> QED BY <2>1, <2>4, <2>5, <2>6, <2>7 DEF Cancellations, CancelledGone, TypeOK
<1> QED BY <1>4, <1>5, <1>6 DEF Cancellable

\* No step puts a cancelled timer back.
LEMMA CancellationsNext == IInv /\ [Next]_vars => Cancellations'
<1> SUFFICES ASSUME IInv, [Next]_vars PROVE Cancellations'
  OBVIOUS
<1>1. /\ TypeOK /\ Objects /\ Cancellations /\ Sequences /\ functors \in Seq(Functor)
      /\ created \in Nat
      /\ \A x \in timers : x[2] \in Addrs /\ heap[x[2]] # Free
      /\ \A j \in DOMAIN expired : expired[j] \in Addrs /\ heap[expired[j]] # Free
      /\ \A k \in Adds : functors[k].timer \in Addrs /\ heap[functors[k].timer] # Free
      /\ \A n \in cancelled : n \in Nat /\ n <= created
  BY BoundsAssumption, TimersTyped
     DEF IInv, Objects, OneOwner, SameTimers, Cancellations, TypeOK
<1>2. ASSUME NEW a \in Addrs, NEW when \in Times, NEW i \in Intervals, NewTimer(a, when, i)
      PROVE  /\ heap[a] = Free /\ heap'[a].sequence \notin cancelled /\ heap'[a].expiration = when
             /\ \A b \in Addrs \ {a} : heap'[b] = heap[b]
             /\ \A n \in cancelled : n <= created'
  <2>1. /\ heap'[a].sequence = created + 1 /\ created' = created + 1 /\ heap[a] = Free
        /\ heap'[a].expiration = when /\ \A b \in Addrs \ {a} : heap'[b] = heap[b]
    BY <1>1, <1>2, NewTimerDoes
  <2>2. \A n \in cancelled : n # created + 1 /\ n <= created + 1
    BY <1>1
  <2> QED BY <2>1, <2>2
<1>3. ASSUME NEW a \in Addrs, NEW when \in Times, NEW i \in Intervals, OwnerAddTimer(a, when, i)
      PROVE  Cancellations'
  <2>1. /\ NewTimer(a, when, i) /\ timers' = timers \cup {<<heap'[a].expiration, a>>}
        /\ UNCHANGED <<functors, expired, canceling, cancelled>>
    BY <1>3 DEF OwnerAddTimer, AddTimerInLoop, loopVars
  <2>2. Adds' = Adds
    BY <2>1 DEF Adds
  <2>3. CancelledGone'
    BY <1>1, <1>2, <2>1 DEF CancelledGone, Cancellations
  <2>4. \A k \in Adds' : heap'[functors'[k].timer].sequence \notin cancelled'
    BY <1>1, <1>2, <2>1, <2>2 DEF Cancellations
  <2>5. \A k \in DOMAIN expired : heap'[expired[k]] = heap[expired[k]]
    BY <1>1, <1>2, <2>1
  <2> QED BY <1>1, <1>2, <2>1, <2>3, <2>4, <2>5 DEF Cancellations
<1>4. ASSUME NEW t \in Callers, NEW a \in Addrs, NEW when \in Times, NEW i \in Intervals,
             CallerAddTimer(t, a, when, i)
      PROVE  Cancellations'
  <2> DEFINE f == [op |-> "add", timer |-> a]
  <2>1. /\ NewTimer(a, when, i) /\ functors' = Append(functors, f)
        /\ UNCHANGED <<timers, expired, canceling, cancelled>>
    BY <1>4 DEF CallerAddTimer, loopVars, setVars
  <2>2. f \in Functor /\ f.timer = a
    BY DEF Functor
  <2>3. \A j \in Adds' : functors'[j].timer = a \/ (j \in Adds /\ functors'[j] = functors[j])
    BY <1>1, <2>1, <2>2, AddsAppend
  <2>4. CancelledGone'
    BY <1>1, <1>2, <2>1 DEF CancelledGone, Cancellations
  <2>5. ASSUME NEW k \in Adds'
        PROVE  heap'[functors'[k].timer].sequence \notin cancelled'
    <3> DEFINE b == functors'[k].timer
    <3>1. heap[a] = Free /\ heap'[a].sequence \notin cancelled
          /\ \A c \in Addrs \ {a} : heap'[c] = heap[c]
      BY <1>2, <2>1
    <3>2. b = a \/ (b \in Addrs /\ heap[b] # Free /\ heap[b].sequence \notin cancelled)
      BY <1>1, <2>3 DEF Cancellations
    <3> HIDE DEF b
    <3>3. heap'[b].sequence \notin cancelled
      BY <3>1, <3>2
    <3> QED BY <2>1, <3>3 DEF b
  <2>6. \A k \in DOMAIN expired : heap'[expired[k]] = heap[expired[k]]
    BY <1>1, <1>2, <2>1
  <2> QED BY <1>1, <1>2, <2>1, <2>4, <2>5, <2>6 DEF Cancellations
<1>5. ASSUME NEW id \in ids, OwnerCancel(id)
      PROVE  Cancellations'
  <2>1. id \in Id
    BY <1>1 DEF TypeOK
  <2>2. CancelInLoop(id) /\ UNCHANGED <<functors, expired, created>>
    BY <1>5 DEF OwnerCancel
  <2>3. Adds' = Adds
    BY <2>2 DEF Adds
  <2> QED BY <1>1, <2>1, <2>2, <2>3, CancelMarks
<1>6. ASSUME RunCancel
      PROVE  Cancellations'
  <2> DEFINE id == Head(functors).id
  <2>1. functors # <<>> /\ functors' = Tail(functors) /\ Head(functors).op = "cancel"
    BY <1>1, <1>6 DEF RunCancel, TypeOK
  <2>2. id \in Id
    BY <1>1, <2>1, QueueTail, TimersTyped
  <2>3. CancelInLoop(id) /\ UNCHANGED <<expired, created>>
    BY <1>6 DEF RunCancel
  <2>4. \A j \in Adds' : j + 1 \in Adds /\ functors'[j] = functors[j + 1]
    BY <1>1, <2>1, AddsTail
  <2> HIDE DEF id
  <2> QED BY <1>1, <2>2, <2>3, <2>4, CancelMarks
<1>7. ASSUME RunAddTimer
      PROVE  Cancellations'
  <2> DEFINE a == Head(functors).timer
  <2>1. functors # <<>> /\ functors' = Tail(functors) /\ Head(functors).op = "add"
    BY <1>1, <1>7 DEF RunAddTimer, TypeOK
  <2>2. 1 \in Adds /\ functors[1] = Head(functors) /\ a \in Addrs
    BY <1>1, <2>1, QueueTail, TimersTyped DEF Adds
  <2>3. /\ timers' = timers \cup {<<heap[a].expiration, a>>}
        /\ UNCHANGED <<heap, created, expired, canceling, cancelled>>
    BY <1>7 DEF RunAddTimer, AddTimerInLoop
  <2>4. \A j \in Adds' : j + 1 \in Adds /\ functors'[j] = functors[j + 1]
    BY <1>1, <2>1, AddsTail
  <2>5. heap[a].sequence \notin cancelled
    BY <1>1, <2>2 DEF Cancellations
  <2>6. CancelledGone'
    BY <1>1, <2>3, <2>5 DEF Cancellations, CancelledGone
  <2>7. \A j \in Adds' : heap[functors'[j].timer].sequence \notin cancelled
    BY <1>1, <2>4 DEF Cancellations
  <2> QED BY <1>1, <2>3, <2>6, <2>7 DEF Cancellations
<1>8. ASSUME HandleRead
      PROVE  Cancellations'
  <2>1. /\ timers' \subseteq timers
        /\ \A i \in DOMAIN expired' : \E x \in timers : x[2] = expired'[i]
    BY <1>1, <1>8, HandleReadDoes
  <2>2. UNCHANGED <<heap, created, functors, cancelled>>
    BY <1>8 DEF HandleRead
  <2>3. \A i \in DOMAIN expired' : heap[expired'[i]].sequence \notin cancelled
    BY <1>1, <2>1 DEF Cancellations, CancelledGone
  <2>4. CancelledGone'
    BY <1>1, <2>1, <2>2 DEF Cancellations, CancelledGone
  <2> QED BY <1>1, <2>2, <2>3, <2>4 DEF Cancellations, Adds
<1>9. ASSUME Reset
      PROVE  Cancellations'
  <2>1. /\ timers' = timers \cup {<<heap'[a].expiration, a>> : a \in Restarted}
        /\ \A a \in Restarted : /\ heap'[a].sequence = heap[a].sequence
                                /\ <<a, heap[a].sequence>> \notin canceling
        /\ \A a \in Addrs : a \notin ToSet(expired) => heap'[a] = heap[a]
    BY <1>1, <1>9, ResetDoes
  <2>2. UNCHANGED <<created, functors, cancelled>> /\ expired' = <<>>
    BY <1>9 DEF Reset
  <2>3. \A a \in Restarted : heap'[a].sequence \notin cancelled
    <3> SUFFICES ASSUME NEW a \in Restarted PROVE heap'[a].sequence \notin cancelled
      OBVIOUS
    <3>1. PICK i \in DOMAIN expired : a = expired[i]
      BY DEF Restarted, ToSet
    <3>2. heap[a].sequence \in cancelled => <<a, heap[a].sequence>> \in canceling
      BY <1>1, <3>1 DEF Cancellations
    <3> QED BY <2>1, <3>2
  <2>4. \A x \in timers : heap'[x[2]] = heap[x[2]]
    BY <1>1, <2>1 DEF Objects, OneOwner, ToSet
  <2>5. CancelledGone'
    BY <1>1, <2>1, <2>2, <2>3, <2>4 DEF Cancellations, CancelledGone
  <2>6. \A k \in Adds : heap'[functors[k].timer] = heap[functors[k].timer]
    BY <1>1, <2>1 DEF Objects, OneOwner, ToSet
  <2> QED BY <1>1, <2>2, <2>5, <2>6 DEF Cancellations, Adds
<1>10. ASSUME NEW t \in Callers, NEW id \in ids, CallerCancel(t, id)
       PROVE  Cancellations'
  <2> DEFINE f == [op |-> "cancel", id |-> id]
  <2>1. /\ functors' = Append(functors, f)
        /\ UNCHANGED <<heap, created, timers, expired, canceling, cancelled>>
    BY <1>10 DEF CallerCancel, loopVars, setVars
  <2>2. f \in Functor /\ f.op # "add"
    BY <1>1 DEF Functor, TypeOK
  <2>3. \A j \in Adds' : j \in Adds /\ functors'[j] = functors[j]
    BY <1>1, <2>1, <2>2, AddsAppend
  <2>4. \A j \in Adds' : heap[functors'[j].timer].sequence \notin cancelled
    BY <1>1, <2>3 DEF Cancellations
  <2> QED BY <1>1, <2>1, <2>4 DEF Cancellations, CancelledGone
<1>11. ASSUME \/ TimerfdExpires \/ Tick \/ Poll \/ EndDispatch \/ EndFunctors \/ RunTimer
              \/ CallbackReturns \/ (\E t \in Callers : CallerGetId(t)) \/ UNCHANGED vars
       PROVE  Cancellations'
  <2>1. UNCHANGED <<heap, created, timers, functors, expired, canceling, cancelled>>
    BY <1>11, QuietSteps
  <2> QED BY <1>1, <2>1 DEF Cancellations, CancelledGone, Adds
<1> QED BY <1>3, <1>4, <1>5, <1>6, <1>7, <1>8, <1>9, <1>10, <1>11
        DEF Next, CallerStep, OwnerCode, LoopStep

-----------------------------------------------------------------------------
(* Types, and the theorems. *)

\* activeTimers_ is typed once timers_ and the objects are.
LEMMA ActiveTyped ==
  ASSUME heap' \in [Addrs -> Timer \cup {Free}], timers' \subseteq Nat \X Addrs, SameTimers'
  PROVE  activeTimers' \subseteq Id
<1> SUFFICES ASSUME NEW x \in timers' PROVE <<x[2], heap'[x[2]].sequence>> \in Id
  BY DEF SameTimers
<1>1. x[2] \in Addrs /\ heap'[x[2]] \in Timer
  BY DEF SameTimers
<1>2. heap'[x[2]].sequence \in 0..MaxTimers
  BY <1>1, BoundsAssumption DEF Timer
<1> QED BY <1>1, <1>2 DEF Id

\* cancelInLoop() writes values of their types.
LEMMA CancelTyped ==
  ASSUME TypeOK, Objects, Cancellations, NEW id \in Id, CancelInLoop(id), created' = created,
         \A i \in Adds' : \E k \in Adds : functors'[i] = functors[k],
         expired' = expired
  PROVE  /\ heap' \in [Addrs -> Timer \cup {Free}] /\ timers' \subseteq Nat \X Addrs
         /\ canceling' \subseteq Id /\ cancelled' \subseteq 1..MaxTimers
<1>1. heap' \in [Addrs -> Timer \cup {Free}] /\ timers' \subseteq timers
  BY CancelDoes DEF Objects
<1>2. cancelled' \subseteq 1..MaxTimers
  BY CancelMarks
<1>3. canceling' \subseteq Id
  BY DEF CancelInLoop, TypeOK
<1> QED BY <1>1, <1>2, <1>3 DEF TypeOK

\* Every step writes values of their types.
LEMMA TypeNext == IInv /\ [Next]_vars => TypeOK'
<1> SUFFICES ASSUME IInv, [Next]_vars PROVE TypeOK'
  OBVIOUS
<1>1. /\ TypeOK /\ Objects /\ Cancellations /\ Arming /\ Sequences /\ SameTimers
      /\ functors \in Seq(Functor) /\ Len(functors) \in Nat /\ todo \in 0..Len(functors)
      /\ Len(functors) <= MaxFunctors
      /\ MaxFunctors \in Nat /\ MaxTimers \in Nat /\ MaxTime \in Nat
  BY BoundsAssumption DEF IInv, Objects, TypeOK
<1>2. /\ SameTimers'
      /\ heap' \in [Addrs -> Timer \cup {Free}] /\ timers' \subseteq Nat \X Addrs
           => activeTimers' \subseteq Id
  BY ObjectsNext, ActiveTyped DEF Objects
<1>3. ASSUME NEW a \in Addrs, NEW when \in Times, NEW i \in Intervals, NewTimer(a, when, i)
      PROVE  /\ heap' \in [Addrs -> Timer \cup {Free}] /\ heap'[a] \in Timer
             /\ created' \in 0..MaxTimers /\ <<a, created + 1>> \in Id
             /\ \A x \in timers : x[2] # a /\ heap'[x[2]] = heap[x[2]]
  <2>1. /\ heap' \in [Addrs -> Timer \cup {Free}] /\ heap'[a] # Free /\ heap[a] = Free
        /\ created' \in 0..MaxTimers /\ created' = created + 1
        /\ \A b \in Addrs \ {a} : heap'[b] = heap[b]
    BY <1>1, <1>3, NewTimerDoes
  <2> QED BY <1>1, <2>1, TimersTyped DEF Id, SameTimers
<1>4. ASSUME NEW a \in Addrs, NEW when \in Times, NEW i \in Intervals, OwnerAddTimer(a, when, i)
      PROVE  TypeOK'
  <2>1. NewTimer(a, when, i) /\ AddTimerInLoop(a, heap'[a]) /\ ids' = ids \cup {<<a, created + 1>>}
        /\ UNCHANGED <<functors, loopVars, now, pc, hasRun, cancelled, wrongId>>
    BY <1>4 DEF OwnerAddTimer
  <2>2. /\ heap' \in [Addrs -> Timer \cup {Free}] /\ created' \in 0..MaxTimers /\ <<a, created + 1>> \in Id
        /\ timers' \subseteq Nat \X Addrs /\ armed' \in Nat \cup {None} /\ readable' \in BOOLEAN
    BY <1>1, <1>3, <2>1, AddDoes
  <2> QED BY <1>1, <1>2, <2>1, <2>2 DEF TypeOK, loopVars
<1>5. ASSUME NEW id \in ids, OwnerCancel(id)
      PROVE  TypeOK'
  <2>1. /\ CancelInLoop(id)
        /\ UNCHANGED <<created, functors, loopPc, todo, expired, next, batchNow,
                       reported, fdVars, now, pc, ids, hasRun, wrongId>>
    BY <1>5 DEF OwnerCancel
  <2>2. id \in Id /\ Adds' = Adds
    BY <1>1, <2>1 DEF TypeOK, Adds
  <2>3. /\ heap' \in [Addrs -> Timer \cup {Free}] /\ timers' \subseteq Nat \X Addrs
        /\ canceling' \subseteq Id /\ cancelled' \subseteq 1..MaxTimers
    BY <1>1, <2>1, <2>2, CancelTyped
  <2> QED BY <1>1, <1>2, <2>1, <2>3 DEF TypeOK, fdVars
<1>6. ASSUME NEW t \in Callers, NEW a \in Addrs, NEW when \in Times, NEW i \in Intervals,
             CallerAddTimer(t, a, when, i)
      PROVE  TypeOK'
  <2> DEFINE f == [op |-> "add", timer |-> a]
  <2>1. /\ NewTimer(a, when, i) /\ Len(functors) < MaxFunctors /\ functors' = Append(functors, f)
        /\ pc' = [pc EXCEPT ![t] = <<a, created + 1>>]
        /\ UNCHANGED <<loopVars, setVars, fdVars, now, ids, hasRun, cancelled, wrongId>>
    BY <1>6 DEF CallerAddTimer
  <2>2. heap' \in [Addrs -> Timer \cup {Free}] /\ created' \in 0..MaxTimers /\ <<a, created + 1>> \in Id
    BY <1>3, <2>1
  <2>3. f \in Functor
    BY DEF Functor
  <2> HIDE DEF f
  <2>4. functors' \in Seq(Functor) /\ Len(functors') <= MaxFunctors /\ todo \in 0..Len(functors')
    BY <1>1, <2>1, <2>3, QueueAppend
  <2>5. pc' \in [Callers -> Id \cup {None}]
    BY <1>1, <2>1, <2>2 DEF TypeOK
  <2> QED BY <1>1, <1>2, <2>1, <2>2, <2>4, <2>5 DEF TypeOK, loopVars, setVars, fdVars
<1>7. ASSUME NEW t \in Callers, CallerGetId(t)
      PROVE  TypeOK'
  <2>1. PICK s \in IF heap[pc[t][1]] = Free THEN {pc[t][2], 0} ELSE {heap[pc[t][1]].sequence} :
          /\ ids' = ids \cup {<<pc[t][1], s>>}
          /\ wrongId' = (wrongId \/ s # pc[t][2])
    BY <1>7 DEF CallerGetId
  <2>2. pc[t] \in Id
    BY <1>1, <1>7 DEF CallerGetId, TypeOK
  <2>3. s \in 0..MaxTimers
    <3>1. pc[t][1] \in Addrs /\ pc[t][2] \in 0..MaxTimers /\ 0 \in 0..MaxTimers
      BY <1>1, <2>2 DEF Id
    <3>2. heap[pc[t][1]] # Free => heap[pc[t][1]].sequence \in 0..MaxTimers
      BY <1>1, <3>1 DEF TypeOK, Timer
    <3> QED BY <2>1, <3>1, <3>2
  <2>4. <<pc[t][1], s>> \in Id
    BY <2>2, <2>3 DEF Id
  <2>5. ids' \subseteq Id /\ wrongId' \in BOOLEAN
    BY <1>1, <2>1, <2>4 DEF TypeOK
  <2>6. /\ pc' \in [Callers -> Id \cup {None}]
        /\ UNCHANGED <<heap, created, functors, loopVars, setVars, fdVars, now, hasRun, cancelled>>
    BY <1>1, <1>7 DEF CallerGetId, TypeOK
  <2> QED BY <1>1, <2>5, <2>6 DEF TypeOK, loopVars, setVars, fdVars
<1>8. ASSUME NEW t \in Callers, NEW id \in ids, CallerCancel(t, id)
      PROVE  TypeOK'
  <2> DEFINE f == [op |-> "cancel", id |-> id]
  <2>1. /\ Len(functors) < MaxFunctors /\ functors' = Append(functors, f)
        /\ UNCHANGED <<heap, created, loopVars, setVars, fdVars, now, pc, ids, hasRun,
                       cancelled, wrongId>>
    BY <1>8 DEF CallerCancel
  <2>2. f \in Functor
    BY <1>1 DEF Functor, TypeOK
  <2> HIDE DEF f
  <2>3. functors' \in Seq(Functor) /\ Len(functors') <= MaxFunctors /\ todo \in 0..Len(functors')
    BY <1>1, <2>1, <2>2, QueueAppend
  <2> QED BY <1>1, <2>1, <2>3 DEF TypeOK, loopVars, setVars, fdVars
<1>9. ASSUME todo > 0
      PROVE  /\ functors # <<>> /\ Tail(functors) \in Seq(Functor)
             /\ Len(Tail(functors)) <= MaxFunctors /\ todo - 1 \in 0..Len(Tail(functors))
  <2>1. functors # <<>>
    BY <1>1, <1>9
  <2> QED BY <1>1, <1>9, <2>1, QueueTail
<1>10. ASSUME RunAddTimer
       PROVE  TypeOK'
  <2> DEFINE a == Head(functors).timer
  <2>1. /\ todo > 0 /\ Head(functors).op = "add" /\ AddTimerInLoop(a, heap[a])
        /\ functors' = Tail(functors) /\ todo' = todo - 1
        /\ UNCHANGED <<heap, created, loopPc, expired, next, batchNow, canceling,
                       reported, now, pc, ids, hasRun, cancelled, wrongId>>
    BY <1>10 DEF RunAddTimer
  <2>2. 1 \in Adds /\ functors[1] = Head(functors) /\ a \in Addrs
    BY <1>1, <1>9, <2>1, QueueTail, TimersTyped DEF Adds
  <2>3. heap[a] \in Timer /\ \A x \in timers : x[2] # a
    BY <1>1, <2>2 DEF Objects, OneOwner, TypeOK
  <2> HIDE DEF a
  <2>4. timers' \subseteq Nat \X Addrs /\ armed' \in Nat \cup {None} /\ readable' \in BOOLEAN
    BY <1>1, <2>1, <2>2, <2>3, AddDoes
  <2> QED BY <1>1, <1>2, <1>9, <2>1, <2>4 DEF TypeOK
<1>11. ASSUME RunCancel
       PROVE  TypeOK'
  <2> DEFINE id == Head(functors).id
  <2>1. /\ todo > 0 /\ Head(functors).op = "cancel" /\ CancelInLoop(id)
        /\ functors' = Tail(functors) /\ todo' = todo - 1
        /\ UNCHANGED <<created, loopPc, expired, next, batchNow, reported, fdVars,
                       now, pc, ids, hasRun, wrongId>>
    BY <1>11 DEF RunCancel
  <2>2. id \in Id
    BY <1>1, <1>9, <2>1, QueueTail, TimersTyped
  <2>3. \A j \in Adds' : j + 1 \in Adds /\ functors'[j] = functors[j + 1]
    BY <1>1, <1>9, <2>1, AddsTail
  <2> HIDE DEF id
  <2>4. /\ heap' \in [Addrs -> Timer \cup {Free}] /\ timers' \subseteq Nat \X Addrs
        /\ canceling' \subseteq Id /\ cancelled' \subseteq 1..MaxTimers
    BY <1>1, <2>1, <2>2, <2>3, CancelTyped
  <2> QED BY <1>1, <1>2, <1>9, <2>1, <2>4 DEF TypeOK, fdVars
<1>12. ASSUME HandleRead
       PROVE  TypeOK'
  <2>1. expired' \in Seq(Addrs) /\ timers' \subseteq timers
    BY <1>1, <1>12, HandleReadDoes
  <2>2. /\ reported' = FALSE /\ readable' = FALSE /\ batchNow' = now /\ next' = 1
        /\ canceling' = {} /\ loopPc' = "calling"
        /\ UNCHANGED <<heap, created, functors, todo, armed, now, pc, ids, hasRun,
                       cancelled, wrongId>>
    BY <1>12 DEF HandleRead
  <2>3. next' \in 1..(Len(expired') + 1)
    BY <2>1, <2>2
  <2> QED BY <1>1, <1>2, <2>1, <2>2, <2>3 DEF TypeOK, LoopPcs
<1>13. ASSUME RunTimer
       PROVE  TypeOK'
  <2>1. /\ next <= Len(expired) /\ next \in 1..(Len(expired) + 1) /\ expired \in Seq(Addrs)
        /\ hasRun' = hasRun \cup {heap[expired[next]].sequence}
        /\ next' = next + 1 /\ loopPc' = "callback"
        /\ UNCHANGED <<heap, created, functors, todo, expired, batchNow, canceling,
                       reported, setVars, fdVars, now, pc, ids, cancelled, wrongId>>
    BY <1>1, <1>13 DEF RunTimer, TypeOK
  <2>2. next \in DOMAIN expired /\ next' \in 1..(Len(expired) + 1)
    BY <2>1
  <2>3. heap[expired[next]] \in Timer
    BY <1>1, <2>1, <2>2 DEF TypeOK, Objects, OneOwner
  <2>4. hasRun' \subseteq 1..MaxTimers
    BY <1>1, <2>1, <2>3 DEF TypeOK, Timer
  <2> QED BY <1>1, <2>1, <2>2, <2>4 DEF TypeOK, LoopPcs, setVars, fdVars
<1>14. ASSUME Reset
       PROVE  TypeOK'
  <2>1. heap' \in [Addrs -> Timer \cup {Free}] /\ timers' \subseteq Nat \X Addrs
    BY <1>1, <1>14, ResetDoes
  <2>2. armed' \in Nat \cup {None} /\ readable' \in BOOLEAN
    BY <1>1, <1>14, ArmingReset
  <2>3. /\ loopPc' = "dispatch" /\ expired' = <<>> /\ next' = 1
        /\ UNCHANGED <<created, functors, todo, batchNow, canceling, reported, now, pc,
                       ids, hasRun, cancelled, wrongId>>
    BY <1>14 DEF Reset
  <2>4. expired' \in Seq(Addrs) /\ next' \in 1..(Len(expired') + 1)
    BY <2>3
  <2> QED BY <1>1, <1>2, <2>1, <2>2, <2>3, <2>4 DEF TypeOK, LoopPcs
<1>15. ASSUME TimerfdExpires \/ Tick
       PROVE  TypeOK'
  <2>1. /\ UNCHANGED <<heap, created, functors, loopVars, setVars, pc, ids, hasRun, cancelled, wrongId>>
        /\ now' \in Times
        /\ armed' \in Nat \cup {None} /\ readable' \in BOOLEAN
    <3>1. UNCHANGED <<heap, created, functors, loopVars, setVars, pc, ids, hasRun, cancelled, wrongId>>
      BY <1>15 DEF TimerfdExpires, Tick
    <3>2. now' \in Times
      BY <1>1, <1>15 DEF TimerfdExpires, Tick, TypeOK, Times
    <3>3. armed' \in Nat \cup {None} /\ readable' \in BOOLEAN
      BY <1>1, <1>15 DEF TimerfdExpires, Tick, TypeOK, fdVars
    <3> QED BY <3>1, <3>2, <3>3
  <2> QED BY <1>1, <2>1 DEF TypeOK, loopVars, setVars
<1>16. ASSUME Poll \/ EndDispatch \/ EndFunctors \/ CallbackReturns
       PROVE  TypeOK'
  <2>1. /\ UNCHANGED <<heap, created, functors, expired, next, batchNow, canceling, setVars,
                       fdVars, now, pc, ids, hasRun, cancelled, wrongId>>
        /\ loopPc' \in LoopPcs /\ todo' \in 0..Len(functors) /\ reported' \in BOOLEAN
    BY <1>1, <1>16 DEF Poll, EndDispatch, EndFunctors, CallbackReturns, TypeOK, LoopPcs
  <2> QED BY <1>1, <2>1 DEF TypeOK, setVars, fdVars
<1>17. ASSUME UNCHANGED vars
       PROVE  TypeOK'
  BY <1>1, <1>17 DEF TypeOK, vars, loopVars, setVars, fdVars
<1> QED BY <1>4, <1>5, <1>6, <1>7, <1>8, <1>10, <1>11, <1>12, <1>13, <1>14, <1>15, <1>16, <1>17
        DEF Next, CallerStep, OwnerCode, LoopStep

\* The invariant holds throughout, whatever the owner's callbacks and the other
\* threads add and cancel.
THEOREM Invariance == Spec => []IInv
<1>1. IInv /\ [Next]_vars => IInv'
  BY TypeNext, ObjectsNext, CancellationsNext, ArmingNext DEF IInv
<1> QED BY <1>1, InitIInv, PTL DEF Spec

\* Every variable of TimerQueue keeps its type: the indices of handleRead()
\* stay in the batch, and a callback is called through an object that exists.
THEOREM TypeCorrect == Spec => []TypeOK
<1>1. IInv => TypeOK
  BY DEF IInv
<1> QED BY <1>1, Invariance, PTL

\* timers_ and activeTimers_ name the same, existing timers in every state: the
\* asserts of insert(), getExpired() and cancelInLoop() cannot fail.
THEOREM SameTimersHeld == Spec => []SameTimers
<1>1. IInv => SameTimers
  BY DEF IInv, Objects
<1> QED BY <1>1, Invariance, PTL

\* The timerfd is armed for the earliest timer, or has expired, whenever timers
\* are queued outside handleRead().
THEOREM TimerfdIsArmed == Spec => []TimerfdArmed
<1>1. IInv => TimerfdArmed
  BY DEF IInv, Arming
<1> QED BY <1>1, Invariance, PTL

\* A cancelled timer is never in the queue again, reset() included.
THEOREM CancelledStaysOut == Spec => []CancelledGone
<1>1. IInv => CancelledGone
  BY DEF IInv, Cancellations
<1> QED BY <1>1, Invariance, PTL
=============================================================================
