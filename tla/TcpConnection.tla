--------------------------- MODULE TcpConnection ---------------------------
(***************************************************************************)
(* One TcpConnection (src/WebServer/TcpConnection.cpp) of a TcpServer, from *)
(* newConnection() to its destructor.  Its methods run on the thread of    *)
(* its loop; the server, with the map that owns the connection, runs on    *)
(* the base loop's thread; the Users are other threads with a shared       *)
(* pointer to it.  The loop is its EventLoop as far as one connection sees *)
(* it: poll, handle the events of the channel, run the queued functors.    *)
(* Between two of these steps code of the application runs on the loop's   *)
(* thread (callbacks, other functors) and may call the connection.  The    *)
(* optional writeComplete and highWaterMark callbacks only queue more such *)
(* code and are left out.  The server outlives the connection.             *)
(*                                                                         *)
(* The object exists as long as a shared pointer to it does (Referenced).  *)
(* Data is bytes, numbered in the order of sendInLoop().                   *)
(***************************************************************************)
EXTENDS Integers, SequencesExt

CONSTANTS
    Users,          \* threads that hold the connection
    Lengths,        \* lengths of messages
    Careful,        \* whether the users keep to the rules below
    TimerFirst,     \* whether timers can come before the connection's events
    MaxSends        \* bound: calls of send()

ASSUME SizesAssumption ==
    Lengths \subseteq Nat \ {0} /\ MaxSends \in Nat
ASSUME FlagsAssumption == Careful \in BOOLEAN /\ TimerFirst \in BOOLEAN

VARIABLES
    state,          \* state_
    want,           \* the channel's events_: a subset of {"IN", "OUT"}
    added,          \* the channel's addedToLoop_
    reading,        \* reading_
    output,         \* outputBuffer_
    sent,           \* what the kernel took, in order
    accepted,       \* how many bytes sendInLoop() took
    shut,           \* the write side was shut down
    peer,           \* the other end, see Peers
    functors,       \* the loop's pendingFunctors_
    batch,          \* what doPendingFunctors() swapped out
    next,           \* the index in batch of the next functor to run
    loopPc,         \* "events" or "functors" (poll() is part of Poll)
    revents,        \* the events of the channel still to be handled
    delayed,        \* the timer of forceCloseWithDelay(): "none", "set" or, when
                    \* poll() has reported it, "due"
    base,           \* functors removeConnectionInLoop() in the base loop
    inMap,          \* the connection is in the server's connections_
    holds,          \* holds[u]: user u has a pointer to the connection
    pc,             \* pc[u]: the call user u is in, after its test of state_
    \* History:
    sends,          \* calls of send()
    downs           \* calls of connectionCallback_ for the end of the connection

chan == <<want, added, reading>>
data == <<output, sent, accepted>>
eff  == <<state, chan, data, shut, peer, functors, base, downs>>
loop == <<batch, next, loopPc, revents>>
usr  == <<holds, pc, sends>>
vars == <<eff, loop, delayed, inMap, usr>>

States == {"kConnecting", "kConnected", "kDisconnecting", "kDisconnected"}

\* "reset": it was reset and the error not yet read; "dead": it was.
Peers == {"open", "fin", "reset", "dead"}

Call(op, len) == [op |-> op, len |-> len]
NoCall == Call("none", 0)

\* Functors bound to a shared pointer, and those bound to the bare this.
Strong == {"connectEstablished", "connectDestroyed", "forceCloseInLoop"}
Bare == {"sendInLoop", "shutdownInLoop"}

Functor == [op : Strong \cup Bare, len : Lengths \cup {0}]
UserCall == [op : {"none", "send", "shutdown", "forceClose"}, len : Lengths \cup {0}]

TypeOK ==
    /\ state \in States
    /\ want \subseteq {"IN", "OUT"}
    /\ added \in BOOLEAN /\ reading \in BOOLEAN
    /\ output \in Seq(Nat) /\ sent \in Seq(Nat) /\ accepted \in Nat
    /\ shut \in BOOLEAN /\ peer \in Peers
    /\ functors \in Seq(Functor) /\ batch \in Seq(Functor)
    /\ next \in 1..(Len(batch) + 1)
    /\ loopPc \in {"events", "functors"}
    /\ revents \subseteq {"HUP", "ERR", "IN", "OUT"}
    /\ delayed \in {"none", "set", "due"}
    /\ base \in 0..1 /\ inMap \in BOOLEAN
    /\ holds \in [Users -> BOOLEAN] /\ pc \in [Users -> UserCall]
    /\ sends \in 0..MaxSends /\ downs \in 0..1

\* After newConnection(), which queued connectEstablished().
Init ==
    /\ state = "kConnecting"
    /\ want = {} /\ added = FALSE /\ reading = TRUE
    /\ output = <<>> /\ sent = <<>> /\ accepted = 0
    /\ shut = FALSE /\ peer = "open"
    /\ functors = <<Call("connectEstablished", 0)>>
    /\ batch = <<>> /\ next = 1 /\ loopPc = "functors" /\ revents = {}
    /\ delayed = "none"
    /\ base = 0 /\ inMap = TRUE
    /\ holds = [u \in Users |-> FALSE] /\ pc = [u \in Users |-> NoCall]
    /\ sends = 0 /\ downs = 0

Holders(q) == \E i \in DOMAIN q : q[i].op \in Strong

\* A shared pointer to the connection exists: in the map, in a functor of one of
\* the loops, in a timer, as the guard of handleEvent(), or with a user.
Referenced ==
    \/ inMap \/ base > 0 \/ delayed # "none" \/ revents # {}
    \/ Holders(functors) \/ Holders(batch)
    \/ \E u \in Users : holds[u]

Open == state \in {"kConnected", "kDisconnecting"}

-----------------------------------------------------------------------------
(* What the methods do on the loop's thread: each operator says what       *)
(* becomes of the variables of eff.                                        *)

NoEffect == UNCHANGED eff

SetWant(w) == want' = w /\ added' = TRUE /\ UNCHANGED reading

\* connectionCallback_ and closeCallback_, which is removeConnection().
HandleClose ==
    /\ state' = "kDisconnected"
    /\ SetWant({})
    /\ downs' = downs + 1
    /\ base' = base + 1
    /\ UNCHANGED <<data, shut, peer, functors>>

ConnectEstablished ==
    /\ state' = "kConnected"
    /\ SetWant(want \cup {"IN"})
    /\ UNCHANGED <<data, shut, peer, functors, base, downs>>

\* The channel leaves the poller; only a connection that is still kConnected is
\* closed first.
ConnectDestroyed ==
    /\ state' = IF state = "kConnected" THEN "kDisconnected" ELSE state
    /\ want' = IF state = "kConnected" THEN {} ELSE want
    /\ downs' = IF state = "kConnected" THEN downs + 1 ELSE downs
    /\ added' = FALSE
    /\ UNCHANGED <<reading, data, shut, peer, functors, base>>

\* Whatever the state, so that a closed connection is destroyed as if it was not.
ForceCloseUnchecked == HandleClose

ForceCloseInLoop == IF Open THEN HandleClose ELSE NoEffect

\* Not waiting for the output to be written.
ShutAtOnce == TRUE

\* What shutdownInLoop() makes of shut: while output is written it does nothing.
ShutUnlessWriting == shut \/ "OUT" \notin want

ShutdownInLoop ==
    /\ shut' = ShutUnlessWriting
    /\ UNCHANGED <<state, chan, data, peer, functors, base, downs>>

StartReadInLoop ==
    /\ IF ~reading \/ "IN" \notin want
       THEN want' = want \cup {"IN"} /\ added' = TRUE /\ reading' = TRUE
       ELSE UNCHANGED chan
    /\ UNCHANGED <<state, data, shut, peer, functors, base, downs>>

StopReadInLoop ==
    /\ IF reading \/ "IN" \in want
       THEN want' = want \ {"IN"} /\ added' = TRUE /\ reading' = FALSE
       ELSE UNCHANGED chan
    /\ UNCHANGED <<state, data, shut, peer, functors, base, downs>>

WriteFails == shut \/ peer \in {"reset", "dead"}

\* The rest of a message goes to outputBuffer_, and the channel waits for POLLOUT.
Buffered(rest) ==
    /\ output' = output \o rest
    /\ IF rest # <<>> THEN SetWant(want \cup {"OUT"}) ELSE UNCHANGED chan

\* Writing at once even if there is output waiting.
WriteAlwaysDirectly == TRUE

CanWriteDirectly == "OUT" \notin want /\ output = <<>>

\* A write that fails (EPIPE, ECONNRESET) gives the message up; one that takes
\* only a part, or nothing, leaves the rest to handleWrite().
SendInLoop(len) ==
    LET bytes == [i \in 1..len |-> accepted + i]
    IN  \/ /\ state = "kDisconnected" \/ (CanWriteDirectly /\ WriteFails)
           /\ peer' = IF state # "kDisconnected" /\ peer = "reset" THEN "dead" ELSE peer
           /\ UNCHANGED <<state, chan, data, shut, functors, base, downs>>
        \/ /\ state # "kDisconnected" /\ CanWriteDirectly /\ ~WriteFails
           /\ \E n \in 0..len :
                /\ sent' = sent \o SubSeq(bytes, 1, n)
                /\ Buffered(SubSeq(bytes, n + 1, len))
           /\ accepted' = accepted + len
           /\ UNCHANGED <<state, shut, peer, functors, base, downs>>
        \/ /\ state # "kDisconnected" /\ ~CanWriteDirectly
           /\ Buffered(bytes)
           /\ accepted' = accepted + len
           /\ UNCHANGED <<sent, state, shut, peer, functors, base, downs>>

-----------------------------------------------------------------------------
(* The loop.                                                               *)

\* What the kernel reports for a channel that is registered.
Ready ==
    IF want = {} \/ ~added THEN {}
    ELSE (IF peer \in {"reset", "dead"} \/ (shut /\ peer = "fin") THEN {"HUP"} ELSE {})
         \cup (IF peer = "reset" THEN {"ERR"} ELSE {})
         \cup (IF peer # "open" THEN want \cap {"IN"} ELSE {})

\* When the functors have run, batch is destroyed and poll() waits and returns;
\* whether the socket is writable or has data is up to the other end.  With POLLIN
\* a POLLHUP is left to read().
Poll ==
    /\ loopPc = "functors" /\ next > Len(batch)
    /\ \E more \in SUBSET (IF added THEN want ELSE {}) :
         LET all == Ready \cup more
         IN  revents' = IF "IN" \in all THEN all \ {"HUP"} ELSE all
    /\ loopPc' = "events"
    /\ batch' = <<>> /\ next' = 1
    /\ delayed' \in {delayed} \cup IF delayed = "set" THEN {"due"} ELSE {}
    /\ UNCHANGED <<eff, inMap, usr>>

\* handleEvent() takes the events in this order.
Turn == <<"HUP", "ERR", "IN", "OUT">>

Handle(e) ==
    /\ loopPc = "events"
    /\ e \in revents
    /\ \E i \in DOMAIN Turn : e = Turn[i] /\ \A j \in 1..(i - 1) : Turn[j] \notin revents
    /\ revents' = revents \ {e}
    /\ UNCHANGED <<batch, next, loopPc, delayed, inMap, usr>>

HangUp == Handle("HUP") /\ HandleClose

\* handleError() reads, and so clears, the error of the socket.
HandleError ==
    /\ Handle("ERR")
    /\ peer' = IF peer = "reset" THEN "dead" ELSE peer
    /\ UNCHANGED <<state, chan, data, shut, functors, base, downs>>

\* handleRead(): data for messageCallback_, the end of the stream, or an error.
HandleRead ==
    /\ Handle("IN")
    /\ \/ peer = "open" /\ NoEffect
       \/ peer \in {"fin", "dead"} /\ HandleClose
       \/ /\ peer = "reset"
          /\ peer' = "dead"
          /\ UNCHANGED <<state, chan, data, shut, functors, base, downs>>

\* Not coming back to a shutdown() that had to wait.
ShutForgotten(rest) == shut

\* With the last of the output goes a shutdown() that had to wait.
ShutAfter(rest) == shut \/ (rest = <<>> /\ state = "kDisconnecting")

\* handleWrite(): a writable socket takes some of the output, at least a byte.
HandleWrite ==
    /\ Handle("OUT")
   
    /\ \/ ("OUT" \notin want \/ WriteFails) /\ NoEffect
       \/ /\ "OUT" \in want /\ ~WriteFails
          /\ \E n \in 1..Len(output) :
               LET rest == SubSeq(output, n + 1, Len(output))
               IN  /\ sent' = sent \o SubSeq(output, 1, n)
                   /\ output' = rest
                   /\ SetWant(IF rest = <<>> THEN want \ {"OUT"} ELSE want)
                   /\ shut' = ShutAfter(rest)
          /\ UNCHANGED <<accepted, state, peer, functors, base, downs>>

EndEvents ==
    /\ loopPc = "events" /\ revents = {} /\ delayed # "due"
    /\ loopPc' = "functors"
    /\ batch' = functors /\ functors' = <<>> /\ next' = 1
    /\ UNCHANGED <<state, chan, data, shut, peer, base, downs, revents,
                   delayed, inMap, usr>>

\* The functor is run; batch keeps it, and its pointer, until the end.
Run(op) ==
    /\ loopPc = "functors" /\ next <= Len(batch)
    /\ batch[next].op = op
    /\ next' = next + 1
    /\ UNCHANGED <<batch, loopPc, revents, delayed, inMap, pc, sends>>

\* The connectionCallback_ hands the connection out.
RunConnectEstablished ==
    /\ Run("connectEstablished")
    /\ ConnectEstablished
    /\ holds' = [u \in Users |-> TRUE]

RunConnectDestroyed ==
    Run("connectDestroyed") /\ ConnectDestroyed /\ UNCHANGED holds

RunFunctor ==
    /\ UNCHANGED holds
    /\ \/ Run("sendInLoop") /\ SendInLoop(batch[next].len)
       \/ Run("shutdownInLoop") /\ ShutdownInLoop
       \/ Run("forceCloseInLoop") /\ ForceCloseInLoop

\* The timer of forceCloseWithDelay(): the timerfd is an active channel like the
\* connection's, and may come before or after it.
DelayExpires ==
    /\ loopPc = "events" /\ delayed = "due"
    /\ TimerFirst \/ revents = {}
    /\ delayed' = "none"
    /\ ForceCloseInLoop
    /\ UNCHANGED <<loop, inMap, usr>>

-----------------------------------------------------------------------------
(* Calls from application code on the loop's thread.                       *)

OnLoop == Referenced /\ state # "kConnecting"

LoopSend(len) ==
    /\ OnLoop /\ state = "kConnected"
    /\ sends < MaxSends /\ sends' = sends + 1
    /\ SendInLoop(len)
    /\ UNCHANGED <<loop, delayed, inMap, holds, pc>>

\* shutdown(): setState() and, at once, shutdownInLoop().
LoopShutdown ==
    /\ OnLoop /\ state = "kConnected"
    /\ state' = "kDisconnecting"
    /\ shut' = ShutUnlessWriting
    /\ UNCHANGED <<chan, data, peer, functors, base, downs>>
    /\ UNCHANGED <<loop, delayed, inMap, usr>>

LoopForceClose ==
    /\ OnLoop /\ Open
    /\ ~\E i \in DOMAIN functors : functors[i].op = "forceCloseInLoop" \* bound
    /\ state' = "kDisconnecting"
    /\ functors' = Append(functors, Call("forceCloseInLoop", 0))
    /\ UNCHANGED <<chan, data, shut, peer, base, downs>>
    /\ UNCHANGED <<loop, delayed, inMap, usr>>

LoopForceCloseWithDelay ==
    /\ OnLoop /\ Open
    /\ delayed = "none"                               \* bound: one such timer
    /\ state' = "kDisconnecting"
    /\ delayed' = "set"
    /\ UNCHANGED <<chan, data, shut, peer, functors, base, downs>>
    /\ UNCHANGED <<loop, inMap, usr>>

LoopRead ==
    /\ OnLoop
    /\ Careful => Open
    /\ StartReadInLoop \/ StopReadInLoop
    /\ UNCHANGED <<loop, delayed, inMap, usr>>

-----------------------------------------------------------------------------
(* Calls from other threads.  Careful users do not close a connection that *)
(* is being closed, keep their pointer until their functors have run, and  *)
(* call startRead() and stopRead() on the loop's thread, while it is open. *)

Pending(op) ==
    \/ \E i \in DOMAIN functors : functors[i].op = op
    \/ \E i \in next..Len(batch) : batch[i].op = op

\* send(), shutdown() and forceClose() test state_ ...
UserTest(u, call) ==
    /\ holds[u] /\ pc[u] = NoCall
    /\ IF call.op = "forceClose" THEN Open ELSE state = "kConnected"
    /\ call.op = "forceClose" => ~Pending("forceCloseInLoop")          \* bound
    /\ IF call.op = "send" THEN sends < MaxSends /\ sends' = sends + 1
                           ELSE UNCHANGED sends
    /\ pc' = [pc EXCEPT ![u] = call]
    /\ UNCHANGED <<eff, loop, delayed, inMap, holds>>

\* ... and then queue their functor, after setState() for those that close.
UserSend(u) ==
    /\ pc[u].op = "send"
    /\ functors' = Append(functors, Call("sendInLoop", pc[u].len))
    /\ pc' = [pc EXCEPT ![u] = NoCall]
    /\ UNCHANGED <<state, chan, data, shut, peer, base, downs>>
    /\ UNCHANGED <<loop, delayed, inMap, holds, sends>>

UserClose(u) ==
    /\ pc[u].op \in {"shutdown", "forceClose"}
    /\ Careful => state # "kDisconnected"
    /\ state' = "kDisconnecting"
    /\ functors' = Append(functors, Call(IF pc[u].op = "shutdown"
                             THEN "shutdownInLoop" ELSE "forceCloseInLoop", 0))
    /\ pc' = [pc EXCEPT ![u] = NoCall]
    /\ UNCHANGED <<chan, data, shut, peer, base, downs>>
    /\ UNCHANGED <<loop, delayed, inMap, holds, sends>>

\* A careful user whose close came too late does not go on with it.
UserGivesUp(u) ==
    /\ Careful /\ state = "kDisconnected"
    /\ pc[u].op \in {"shutdown", "forceClose"}
    /\ pc' = [pc EXCEPT ![u] = NoCall]
    /\ UNCHANGED <<eff, loop, delayed, inMap, holds, sends>>

UserDrops(u) ==
    /\ holds[u] /\ pc[u] = NoCall
    /\ Careful => \A op \in Bare : ~Pending(op)
    /\ holds' = [holds EXCEPT ![u] = FALSE]
    /\ UNCHANGED <<eff, loop, delayed, inMap, pc, sends>>

-----------------------------------------------------------------------------
(* The server, on the base loop's thread, and the other end.               *)

\* removeConnectionInLoop() that only forgets the connection.
RemoveConnectionOnly ==
    /\ base > 0
    /\ base' = base - 1
    /\ inMap' = FALSE
    /\ UNCHANGED <<state, chan, data, shut, peer, functors, downs, loop,
                   delayed, usr>>

RemoveConnectionInLoop ==
    /\ base > 0
    /\ base' = base - 1
    /\ inMap' = FALSE
    /\ functors' = Append(functors, Call("connectDestroyed", 0))
    /\ UNCHANGED <<state, chan, data, shut, peer, downs, loop, delayed,
                   usr>>

PeerCloses(how) ==
    /\ peer = "open" \/ (peer = "fin" /\ how = "reset")
    /\ peer' = how
    /\ UNCHANGED <<state, chan, data, shut, functors, base, downs, loop,
                   delayed, inMap, usr>>

-----------------------------------------------------------------------------

LoopStep ==
    \/ Poll \/ HangUp \/ HandleError \/ HandleRead \/ HandleWrite \/ EndEvents
    \/ DelayExpires \/ RunConnectEstablished \/ RunConnectDestroyed \/ RunFunctor

UserStep(u) ==
    \/ \E len \in Lengths : UserTest(u, Call("send", len))
    \/ \E op \in {"shutdown", "forceClose"} : UserTest(u, Call(op, 0))
    \/ UserSend(u) \/ UserClose(u) \/ UserGivesUp(u) \/ UserDrops(u)

LoopCode ==
    \/ \E len \in Lengths : LoopSend(len)
    \/ LoopShutdown \/ LoopForceClose \/ LoopForceCloseWithDelay \/ LoopRead

Next ==
    \/ LoopStep \/ LoopCode
    \/ \E u \in Users : UserStep(u)
    \/ RemoveConnectionInLoop
    \/ \E how \in {"fin", "reset"} : PeerCloses(how)

Spec == Init /\ [][Next]_vars

(***************************************************************************)
(* Both loops go on, timers expire, and a peer that is waited for reads.   *)
(***************************************************************************)
Fairness ==
    /\ WF_vars(LoopStep)
    /\ SF_vars(Poll /\ delayed = "set" /\ delayed' = "due")
    /\ WF_vars(RemoveConnectionInLoop)
    /\ SF_vars(Poll /\ "OUT" \in revents')

FairSpec == Spec /\ Fairness

-----------------------------------------------------------------------------
(* Correctness.                                                            *)

(***************************************************************************)
(* The kernel was given exactly the bytes sendInLoop() took, in order, the *)
(* rest of them being in outputBuffer_: a message is never written past    *)
(* one that waits there, partial writes lose nothing, and shutdown() does  *)
(* not cut off what waits (unless the connection was closed).             *)
(***************************************************************************)
BytesInOrder ==
    /\ sent \o output = [i \in 1..accepted |-> i]
    /\ shut /\ state # "kDisconnected" => output = <<>>

\* The assert of ~TcpConnection(): when the last pointer goes, so that the
\* destructor runs, the connection is kDisconnected.
DestructorAssert == ~Referenced => state = "kDisconnected"

(***************************************************************************)
(* The assert of handleClose(): only an open connection is closed, so that *)
(* the server removes it once (the assert of removeConnectionInLoop()).    *)
(* forceClose(), its timer, the end of the stream and hangup compete.      *)
(***************************************************************************)
CloseOnce == [][base' > base => Open]_vars

(***************************************************************************)
(* A shutdown() is carried out once the output is written, or the          *)
(* connection is closed.                                                   *)
(***************************************************************************)
ShutdownCompletes ==
    state = "kDisconnecting" ~> shut \/ state = "kDisconnected"

\* A closed connection leaves the server's map and the poller.
CloseCompletes == state = "kDisconnected" ~> ~inMap /\ ~added
=============================================================================
