------------------------------ MODULE TcpClient ------------------------------
(***************************************************************************)
(* A TcpClient and its Connector (src/WebServer/{TcpClient,Connector}.cpp): *)
(* connect, retry, reconnect, stop, disconnect and destruction.  The       *)
(* Connector lives on the client's loop, which is its EventLoop as far as  *)
(* they see it: poll, handle the active channels and timers, run the       *)
(* queued functors.  Calls of TcpClient come from its thread, between its  *)
(* handlers, and those named in Foreign from another thread, too.          *)
(*                                                                         *)
(* A connection is only open or not: TcpConnection has the rest of it, the *)
(* functor connectDestroyed() included.  Retry delays are left out: timers *)
(* expire at some time, but after the functors queued before them (half a  *)
(* second and more against functors that run at once).                     *)
(***************************************************************************)
EXTENDS Naturals, SequencesExt

CONSTANTS
    Foreign,        \* the calls that may come from another thread, too
    Careful,        \* whether the application keeps to the rules below
    MaxStarts       \* bound: calls of connect()

Calls == {"connect", "disconnect", "stop", "enableRetry"}

ASSUME CallsAssumption == Foreign \subseteq Calls
ASSUME CarefulAssumption == Careful \in BOOLEAN
ASSUME StartsAssumption == MaxStarts \in Nat

VARIABLES
    \* The Connector:
    connect,        \* connect_
    state,          \* state_
    channel,        \* channel_: "none", "watching" (in the poller) or "removed"
                    \* (taken out of it, the object not yet deleted)
    timers,         \* timers that will call startInLoop()
    \* The TcpClient:
    alive,          \* it was not destroyed
    wanted,         \* its own connect_
    connection,     \* connection_ is set
    reconnects,     \* retry_
    keeper,         \* the timer of ~TcpClient() that holds the Connector
    \* The connection:
    conn,           \* state_ of the last TcpConnection
    closeCb,        \* its closeCallback_: the "client"'s or the "loop"'s
    \* The loop:
    functors,       \* pendingFunctors_
    batch,          \* those being run
    active,         \* activeChannels_ (and timers) still to be handled
    phase,          \* "events" or "functors"
    handler,        \* where a handler is that other threads can come between
    \* History:
    failed,         \* an assert failed
    gaveUp,         \* the last attempt met an error that is not retried
    starts,         \* calls of connect()
    stopped         \* stop() was called, and connect() not since

connVars == <<conn, closeCb>>
attempt == <<connect, state, channel, timers, gaveUp, failed>>
client == <<alive, wanted, reconnects, connection, keeper>>
loop == <<batch, active, phase, handler>>
calls == <<starts, stopped>>
vars == <<attempt, client, connVars, functors, loop, calls>>

Functors == {"startInLoop", "stopInLoop", "resetChannel", "forceCloseInLoop"}
Sources == {"connector", "connection", "timer", "keeper"}

TypeOK ==
    /\ connect \in BOOLEAN /\ gaveUp \in BOOLEAN /\ failed \in BOOLEAN
    /\ state \in {"kDisconnected", "kConnecting", "kConnected"}
    /\ channel \in {"none", "watching", "removed"}
    /\ timers \in 0..1
    /\ alive \in BOOLEAN /\ wanted \in BOOLEAN /\ connection \in BOOLEAN
    /\ reconnects \in BOOLEAN /\ keeper \in BOOLEAN
    /\ conn \in {"none", "kConnecting", "kConnected", "kDisconnecting", "kDisconnected"}
    /\ closeCb \in {"client", "loop"}
    /\ functors \in Seq(Functors) /\ batch \in Seq(Functors)
    /\ active \subseteq Sources
    /\ phase \in {"events", "functors"}
    /\ handler \in {"none", "newConnection", "connectEstablished", "restart"}
    /\ starts \in 0..MaxStarts /\ stopped \in BOOLEAN

Init ==
    /\ connect = FALSE /\ state = "kDisconnected" /\ channel = "none"
    /\ timers = 0 /\ gaveUp = FALSE /\ failed = FALSE
    /\ alive = TRUE /\ wanted = TRUE /\ connection = FALSE
    /\ reconnects = FALSE /\ keeper = FALSE
    /\ conn = "none" /\ closeCb = "client"
    /\ functors = <<>> /\ batch = <<>> /\ active = {} /\ phase = "functors"
    /\ handler = "none"
    /\ starts = 0 /\ stopped = FALSE

Pending(f) == f \in ToSet(functors) \cup ToSet(batch)

\* Functors that are bound to the bare Connector.
BareFunctors == {"startInLoop", "stopInLoop", "resetChannel"}

Settled == \A f \in BareFunctors : ~Pending(f)

\* No shared pointer to the Connector is left: its destructor has run.
ConnectorGone == ~alive /\ timers = 0 /\ ~keeper

Open == conn \in {"kConnected", "kDisconnecting"}

-----------------------------------------------------------------------------
(* What the methods of the Connector do on the loop's thread.  Each says   *)
(* what becomes of attempt and, where it can queue something, of functors. *)

\* connect() with t timers set already: a new channel waits for the socket to become
\* writable (connecting()), or it is closed and tried later, or given up.
ConnectSocket(t) ==
    \/ /\ state' = "kConnecting" /\ channel' = "watching"
       /\ failed' = (channel # "none")
       /\ timers' = t /\ gaveUp' = FALSE
    \/ /\ state' = "kDisconnected"
       /\ timers' = t + 1 /\ gaveUp' = FALSE
       /\ UNCHANGED <<channel, failed>>
    \/ /\ state' = "kDisconnected"
       /\ timers' = t /\ gaveUp' = TRUE
       /\ UNCHANGED <<channel, failed>>

\* startInLoop() that does not look at connect_.
StartInLoopAlways(t) ==
    /\ state = "kDisconnected" /\ ConnectSocket(t)
    /\ UNCHANGED connect

StartInLoop(t) ==
    /\ \/ state = "kDisconnected" /\ connect /\ ConnectSocket(t)
       \/ /\ state = "kDisconnected" => ~connect
          /\ failed' = (state # "kDisconnected")
          /\ timers' = t
          /\ UNCHANGED <<state, channel, gaveUp>>
    /\ UNCHANGED connect

\* removeAndResetChannel() without the functor that deletes the channel.
RemoveChannelOnly ==
    /\ channel' = "removed"
    /\ UNCHANGED <<functors, failed>>

RemoveAndResetChannel ==
    /\ channel' = "removed"
    /\ functors' = Append(functors, "resetChannel")
    /\ UNCHANGED failed

\* retry() that never sets its timer.
RetryNever == state' = "kDisconnected" /\ UNCHANGED <<connect, timers, gaveUp>>

\* retry(), which closes the socket.
RetryLater ==
    /\ state' = "kDisconnected"
    /\ timers' = IF connect THEN timers + 1 ELSE timers
    /\ UNCHANGED <<connect, gaveUp>>

StopInLoop ==
    IF state = "kConnecting" THEN RemoveAndResetChannel /\ RetryLater
                             ELSE UNCHANGED <<attempt, functors>>

-----------------------------------------------------------------------------
(* The loop.                                                               *)

Idle == ~failed /\ handler = "none"

\* A timer expires only when what was queued before it has run.
Ready ==
    (IF channel = "watching" THEN {"connector"} ELSE {})
    \cup (IF Open THEN {"connection"} ELSE {})
    \cup (IF timers > 0 /\ ~Pending("resetChannel") THEN {"timer"} ELSE {})
    \cup (IF keeper /\ Settled THEN {"keeper"} ELSE {})

Poll ==
    /\ Idle /\ phase = "functors" /\ batch = <<>>
    /\ phase' = "events"
    /\ active' \in SUBSET Ready
    /\ UNCHANGED <<attempt, client, connVars, functors, batch, handler, calls>>

Handle(source) ==
    /\ Idle /\ phase = "events"
    /\ source \in active
    /\ active' = active \ {source}
    /\ UNCHANGED <<batch, phase, calls>>

EndEvents ==
    /\ Idle /\ phase = "events" /\ active = {}
    /\ phase' = "functors"
    /\ batch' = functors /\ functors' = <<>>
    /\ UNCHANGED <<attempt, client, connVars, active, handler, calls>>

\* handleWrite() of a socket with an error or connected to itself; or handleError(),
\* after which handleWrite() finds nothing to do.
ConnectFails ==
    /\ Handle("connector") /\ state = "kConnecting"
    /\ RemoveAndResetChannel /\ RetryLater
    /\ UNCHANGED <<client, connVars, handler>>

\* handleWrite(): connected.  If nobody wants it any more the socket is closed.
HandleWrite ==
    /\ Handle("connector") /\ state = "kConnecting"
    /\ RemoveAndResetChannel
    /\ state' = "kConnected"
    /\ handler' = IF connect THEN "newConnection" ELSE "none"
    /\ UNCHANGED <<connect, timers, gaveUp, client, connVars>>

\* newConnection() of the client ...
NewConnection ==
    /\ ~failed /\ handler = "newConnection"
    /\ connection' = TRUE
    /\ conn' = "kConnecting" /\ closeCb' = "client"
    /\ handler' = "connectEstablished"
    /\ UNCHANGED <<attempt, alive, wanted, reconnects, keeper, functors, batch,
                   active, phase, calls>>

\* ... which ends with connectEstablished().
ConnectEstablished ==
    /\ ~failed /\ handler = "connectEstablished"
    /\ conn' = "kConnected"
    /\ handler' = "none"
    /\ UNCHANGED <<attempt, client, closeCb, functors, batch, active, phase, calls>>

\* handleClose() of the connection, with the closeCallback_ it has: removal by the
\* client, which tests whether to connect again, or by the loop alone.
HandleClose ==
    /\ conn' = "kDisconnected"
    /\ IF closeCb = "client"
       THEN /\ connection' = FALSE
            /\ failed' = ~connection
            /\ handler' = IF reconnects /\ wanted THEN "restart" ELSE "none"
       ELSE UNCHANGED <<connection, failed, handler>>
    /\ UNCHANGED <<connect, state, channel, timers, gaveUp, alive, wanted, reconnects,
                   keeper, closeCb>>

ConnectionCloses ==
    /\ Handle("connection")
    /\ IF Open THEN HandleClose
               ELSE UNCHANGED <<attempt, client, connVars, handler>>
    /\ UNCHANGED functors

\* restart(), after the test: whatever was called in between, connect_ is set.
Restart ==
    /\ ~failed /\ handler = "restart"
    /\ handler' = "none"
    /\ ConnectSocket(timers)
    /\ connect' = TRUE
    /\ UNCHANGED <<client, connVars, functors, batch, active, phase, calls>>

TimerExpires ==
    /\ Handle("timer")
    /\ StartInLoop(timers - 1)
    /\ UNCHANGED <<client, connVars, functors, handler>>

\* removeConnector() only lets the pointer go.
KeeperExpires ==
    /\ Handle("keeper")
    /\ keeper' = FALSE
    /\ UNCHANGED <<attempt, alive, wanted, reconnects, connection, connVars, functors, handler>>

\* The next functor; one that is bound to a Connector that is gone must not run.
Run(f) ==
    /\ Idle /\ phase = "functors" /\ batch # <<>>
    /\ Head(batch) = f
    /\ f \in BareFunctors => ~ConnectorGone
    /\ batch' = Tail(batch)
    /\ UNCHANGED <<active, phase, calls>>

\* resetChannel() deletes the channel.
RunConnectorFunctor ==
    /\ \/ Run("startInLoop") /\ StartInLoop(timers) /\ UNCHANGED functors
       \/ Run("stopInLoop") /\ StopInLoop
       \/ /\ Run("resetChannel") /\ channel' = "none"
          /\ UNCHANGED <<connect, state, timers, gaveUp, failed, functors>>
    /\ UNCHANGED <<client, connVars, handler>>

RunForceCloseInLoop ==
    /\ Run("forceCloseInLoop")
    /\ IF Open THEN HandleClose
               ELSE UNCHANGED <<attempt, client, connVars, handler>>
    /\ UNCHANGED functors

-----------------------------------------------------------------------------
(* Calls of the application.  Those on the loop's thread come between two  *)
(* handlers, the others at any time; the destructor is one of the former.  *)
(* A careful application calls connect() again and destroys the client     *)
(* only when no functor is queued that is bound to the bare Connector, and *)
(* connect() moreover only when the last attempt is over.                  *)

May(call) ==
    /\ alive /\ ~failed
    /\ call \notin Foreign => handler = "none"

Queue(f) == functors' = Append(functors, f)

Connect ==
    /\ starts < MaxStarts
    /\ Careful => state = "kDisconnected" /\ timers = 0 /\ Settled
    /\ starts' = starts + 1 /\ stopped' = FALSE
    /\ wanted' = TRUE
    /\ connect' = TRUE
    /\ UNCHANGED <<alive, reconnects, connection, keeper, connVars, loop>>

\* On the loop's thread start() runs startInLoop() at once, on another it queues it.
CallConnect ==
    /\ May("connect") /\ handler = "none"
    /\ Connect
    /\ IF state = "kDisconnected"
       THEN ConnectSocket(timers)
       ELSE failed' = TRUE /\ UNCHANGED <<state, channel, timers, gaveUp>>
    /\ UNCHANGED functors

ForeignConnect ==
    /\ May("connect") /\ "connect" \in Foreign
    /\ Connect
    /\ Queue("startInLoop")
    /\ gaveUp' = FALSE
    /\ UNCHANGED <<state, channel, timers, failed>>

CallStop ==
    /\ May("stop")
    /\ ~Pending("stopInLoop")                         \* bound
    /\ wanted' = FALSE /\ connect' = FALSE
    /\ Queue("stopInLoop")
    /\ stopped' = TRUE
    /\ UNCHANGED <<state, channel, timers, gaveUp, failed, alive, reconnects, connection,
                   keeper, connVars, loop, starts>>

\* disconnect(), with the shutdown() of the connection.
CallDisconnect ==
    /\ May("disconnect")
    /\ wanted' = FALSE
    /\ conn' = IF connection /\ conn = "kConnected" THEN "kDisconnecting" ELSE conn
    /\ UNCHANGED <<attempt, alive, reconnects, connection, keeper, closeCb, functors, loop,
                   calls>>

\* ~TcpClient() that leaves the connection the callback it has.
KeepCloseCallback == UNCHANGED closeCb

SetCloseCallback == closeCb' = "loop"

\* ~TcpClient().  Whether it has the only pointer to its connection, and then
\* closes it, depends on the application.  Without a connection it stops the
\* Connector and keeps it for a second.
CallDestroy ==
    /\ May("destroy")
    /\ Careful => Settled
    /\ alive' = FALSE
    /\ IF connection
       THEN /\ SetCloseCallback
            /\ \/ UNCHANGED <<conn, functors>>
               \/ Open /\ conn' = "kDisconnecting" /\ Queue("forceCloseInLoop")
            /\ UNCHANGED <<connect, keeper, stopped>>
       ELSE /\ connect' = FALSE
            /\ Queue("stopInLoop")
            /\ keeper' = TRUE
            /\ stopped' = TRUE
            /\ UNCHANGED connVars
    /\ UNCHANGED <<state, channel, timers, gaveUp, failed, wanted, reconnects,
                   connection, loop, starts>>

CallEnableRetry ==
    /\ May("enableRetry")
    /\ reconnects' = TRUE
    /\ UNCHANGED <<attempt, alive, wanted, connection, keeper, connVars, functors,
                   loop, calls>>

-----------------------------------------------------------------------------

LoopStep ==
    \/ Poll \/ EndEvents \/ ConnectFails \/ HandleWrite \/ NewConnection
    \/ ConnectEstablished \/ ConnectionCloses \/ Restart \/ TimerExpires
    \/ KeeperExpires \/ RunConnectorFunctor \/ RunForceCloseInLoop

Next ==
    \/ LoopStep
    \/ CallConnect \/ ForeignConnect \/ CallStop \/ CallDisconnect
    \/ CallDestroy \/ CallEnableRetry

Spec == Init /\ [][Next]_vars

(***************************************************************************)
(* The loop goes on, reports what stays ready, and a server that is tried  *)
(* again and again accepts at last.                                        *)
(***************************************************************************)
Fairness ==
    /\ WF_vars(LoopStep)
    /\ SF_vars(Poll /\ {"connector", "timer"} \cap Ready \subseteq active')
    /\ SF_vars(LoopStep /\ channel' = "watching" /\ channel # "watching")
    /\ SF_vars(HandleWrite)

FairSpec == Spec /\ Fairness

-----------------------------------------------------------------------------
(* Correctness.                                                            *)

(***************************************************************************)
(* No assert fails: an attempt starts when the one before is over and its  *)
(* channel deleted (startInLoop(), connecting()), which the order of the   *)
(* functors and timers of retry(), stop() and restart() has to see to, and *)
(* the client removes the connection it has (removeConnection()).          *)
(***************************************************************************)
AssertsHold == ~failed

(***************************************************************************)
(* When the Connector goes its channel was deleted (the assert of its      *)
(* destructor) and no functor is bound to it; a client that is gone is not *)
(* called by its Connector nor by its connection.                          *)
(***************************************************************************)
NoDangling ==
    /\ ConnectorGone => channel = "none" /\ Settled
    /\ ~alive => handler = "none" /\ (Open => closeCb = "loop")

(***************************************************************************)
(* After stop() no attempt to connect is begun, whatever was on its way: a *)
(* retry timer, a functor, the end of a connection.                        *)
(***************************************************************************)
StopStops ==
    [][stopped /\ stopped' => ~(channel # "watching" /\ channel' = "watching")]_vars

(***************************************************************************)
(* A client that wants a connection gets one, at first and, with retry_,   *)
(* after each loss: no failed attempt is left without another to follow,   *)
(* unless its error is one that is not retried.                            *)
(***************************************************************************)
Connects ==
    starts > 0 /\ connect /\ ~gaveUp /\ state # "kConnected"
        ~> state = "kConnected" \/ ~connect \/ gaveUp
=============================================================================
