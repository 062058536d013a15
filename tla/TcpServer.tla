------------------------------ MODULE TcpServer ------------------------------
(***************************************************************************)
(* A TcpServer (src/WebServer/TcpServer.cpp) with its Acceptor, its pool   *)
(* of EventLoopThreads and the connections it hands to them, from start()  *)
(* to the end of ~TcpServer().  The server lives on the stack of the main  *)
(* thread, which runs the base loop and destroys the server after loop()   *)
(* returned; this is how every program of the repository does it.          *)
(*                                                                         *)
(* Loop 0 is the base loop, loops 1..numThreads are those of the pool.     *)
(* What module EventLoop shows of a loop is used here: what is queued      *)
(* brings it back from poll().  A connection is reduced to when it is      *)
(* established, closed and destroyed; module TcpConnection has the rest.   *)
(* The names that ThreadPool has, too, carry the server's: the proofs      *)
(* about both kinds of threads are in one module, Threads_proofs.          *)
(***************************************************************************)
EXTENDS Integers, SequencesExt

CONSTANTS
    Sizes,          \* arguments of setThreadNum()
    MaxConns,       \* bound: peers that ever connect
    Limits,         \* numbers of descriptors there may be for connections
    SleepSuffices   \* whether usleep(10) in ~EventLoopThread() is long enough
                    \* for the thread to come to rest in poll()

ASSUME ThreadNumsAssumption == Sizes \subseteq Nat
ASSUME BoundsAssumption == MaxConns \in Nat /\ Limits \subseteq Nat
ASSUME SleepSufficesAssumption == SleepSuffices \in BOOLEAN

Conns == 1..MaxConns
Acceptor == 0       \* the listening channel, beside those of connections

VARIABLES
    numThreads,     \* numThreads_ of the pool
    loopPc,             \* loopPc[l]: where the thread of loop l is, see Pcs
    thread,         \* the EventLoopThread the main thread starts or destroys
    quit,           \* quit_ of each loop
    pending,        \* pendingFunctors_ of each loop
    batch,          \* what doPendingFunctors() has still to run
    active,         \* activeChannels_ still to be handled
    nextLoop,       \* next_
    connections,    \* connections_
    conn,           \* conn[c]: the state of connection c, see States
    loopOf,         \* getLoop() of each connection
    peerGone,       \* the connections whose peer has closed them
    idleFd,         \* whether idleFd_ is open
    fdLimit,        \* RLIMIT_NOFILE, less what the process holds anyway
    others          \* whether another thread holds a descriptor

loopVars == <<loopPc, thread, quit, pending, batch, active>>
fdVars   == <<idleFd, others, fdLimit>>
connVars == <<nextLoop, connections, conn, loopOf, peerGone>>
serverVars     == <<numThreads, loopVars, connVars, fdVars>>

Loops == 0..numThreads

(***************************************************************************)
(* Loops of the pool: "none" before startLoop(), "new" until threadFunc()  *)
(* has set loop_, "ready" until loop() has reset quit_; then "check",      *)
(* "poll", "events", "drain" go round in loop(); "done" when the thread    *)
(* has ended.  The main thread: "start" and "wait" in start(), the same    *)
(* round, "spare" and "reopen" inside the branch of Acceptor::handleRead() *)
(* for EMFILE, then "destroy", "quit" and "join" in ~TcpServer().          *)
(***************************************************************************)
Turning == {"check", "poll", "events", "drain"}
MainPcs == Turning \cup {"start", "wait", "spare", "reopen", "destroy",
                         "quit", "join", "done"}
Pcs == MainPcs \cup {"none", "new", "ready"}

\* A peer waits in the backlog, or was accepted only to be closed at once.
\* A TcpConnection is kConnecting, kConnected, kDisconnected; "removed" is
\* kDisconnected after connectDestroyed() took its channel from the poller.
Existing == {"connecting", "connected", "disconnected", "removed"}
States == {"none", "waiting", "dropped"} \cup Existing

Functors == {"connectEstablished", "connectDestroyed", "removeConnection"} \X Conns

ServerTypeOK ==
    /\ numThreads \in Sizes
    /\ loopPc \in [Loops -> Pcs]
    /\ loopPc[0] \in MainPcs
    /\ thread \in 0..(numThreads + 1)
    /\ quit \in [Loops -> BOOLEAN]
    /\ pending \in [Loops -> Seq(Functors)]
    /\ batch \in [Loops -> Seq(Functors)]
    /\ active \in [Loops -> SUBSET ({Acceptor} \cup Conns)]
    /\ nextLoop \in 0..numThreads
    /\ numThreads > 0 => nextLoop < numThreads
    /\ connections \subseteq Conns
    /\ conn \in [Conns -> States]
    /\ loopOf \in [Conns -> Loops]
    /\ peerGone \subseteq Conns
    /\ idleFd \in BOOLEAN
    /\ fdLimit \in Limits
    /\ others \in BOOLEAN

ServerInit ==
    /\ numThreads \in Sizes
    /\ loopPc = [l \in Loops |-> IF l = 0 THEN "start" ELSE "none"]
    /\ thread = 0
    /\ quit = [l \in Loops |-> FALSE]
    /\ pending = [l \in Loops |-> <<>>]
    /\ batch = [l \in Loops |-> <<>>]
    /\ active = [l \in Loops |-> {}]
    /\ nextLoop = 0
    /\ connections = {}
    /\ conn = [c \in Conns |-> "none"]
    /\ loopOf = [c \in Conns |-> 0]
    /\ peerGone = {}
    /\ idleFd = TRUE
    /\ fdLimit \in Limits
    /\ others = FALSE

-----------------------------------------------------------------------------
(* Who holds a connection, and which descriptors are in use.               *)

\* The shared pointers to c: the map's and those bound into functors.
Referenced(c) ==
    \/ c \in connections
    \/ \E l \in Loops : \E f \in Range(pending[l]) \cup Range(batch[l]) : f[2] = c

\* The Socket of a connection is closed by its destructor.
OpenSockets == {c \in Conns : conn[c] \in Existing /\ Referenced(c)}

FdsInUse == Cardinality(OpenSockets) + (IF idleFd THEN 1 ELSE 0)
                                     + (IF others THEN 1 ELSE 0)

FdAvailable == FdsInUse < fdLimit + 1

-----------------------------------------------------------------------------
(* start(): one EventLoopThread after the other, each waited for.          *)

\* EventLoopThreadPool::start() creates the next thread; startLoop() begins.
StartLoop ==
    /\ loopPc[0] = "start" /\ thread < numThreads
    /\ thread' = thread + 1
    /\ loopPc' = [loopPc EXCEPT ![0] = "wait", ![thread + 1] = "new"]
    /\ UNCHANGED <<numThreads, quit, pending, batch, active, connVars, fdVars>>

\* threadFunc() creates the EventLoop, sets loop_ and notifies.
ThreadFunc(l) ==
    /\ loopPc[l] = "new"
    /\ loopPc' = [loopPc EXCEPT ![l] = "ready"]
    /\ UNCHANGED <<numThreads, thread, quit, pending, batch, active, connVars, fdVars>>

\* startLoop() returns once loop_ is set.
StartLoopReturns ==
    /\ loopPc[0] = "wait" /\ loopPc[thread] \notin {"none", "new"}
    /\ loopPc' = [loopPc EXCEPT ![0] = "start"]
    /\ UNCHANGED <<numThreads, thread, quit, pending, batch, active, connVars, fdVars>>

\* loop() resets quit_.  A loop of the pool comes from threadFunc(), the base
\* loop after start(), which ended with Acceptor::listen().
LoopBegins(l) ==
    /\ IF l = 0 THEN loopPc[0] = "start" /\ thread = numThreads ELSE loopPc[l] = "ready"
    /\ loopPc' = [loopPc EXCEPT ![l] = "check"]
    /\ quit' = [quit EXCEPT ![l] = FALSE]
    /\ UNCHANGED <<numThreads, thread, pending, batch, active, connVars, fdVars>>

-----------------------------------------------------------------------------
(* One turn of a loop.                                                     *)

\* The channels of loop l that poll() would report.
Ready(l) ==
    {c \in peerGone : loopOf[c] = l /\ conn[c] = "connected"}
        \cup (IF l = 0 /\ \E c \in Conns : conn[c] = "waiting"
              THEN {Acceptor} ELSE {})

\* loop() tests quit_ when it begins and after each turn.
AtCheck(l) == loopPc[l] = "check" \/ (loopPc[l] = "drain" /\ batch[l] = <<>>)

\* while (!quit_): the thread of a pool's loop ends, and its EventLoop with
\* all that is still queued; the main thread goes on to ~TcpServer().
LoopEnds(l) ==
    /\ AtCheck(l) /\ quit[l]
    /\ loopPc' = [loopPc EXCEPT ![l] = IF l = 0 THEN "destroy" ELSE "done"]
    /\ pending' = IF l = 0 THEN pending ELSE [pending EXCEPT ![l] = <<>>]
    /\ UNCHANGED <<numThreads, thread, quit, batch, active, connVars, fdVars>>

EnterPoll(l) ==
    /\ AtCheck(l) /\ ~quit[l]
    /\ loopPc' = [loopPc EXCEPT ![l] = "poll"]
    /\ UNCHANGED <<numThreads, thread, quit, pending, batch, active, connVars, fdVars>>

\* poll() returns: there are events, or a wakeup() for a functor or a quit().
Poll(l) ==
    /\ loopPc[l] = "poll"
    /\ Ready(l) # {} \/ pending[l] # <<>> \/ quit[l]
    /\ active' = [active EXCEPT ![l] = Ready(l)]
    /\ loopPc' = [loopPc EXCEPT ![l] = "events"]
    /\ UNCHANGED <<numThreads, thread, quit, pending, batch, connVars, fdVars>>

\* All events are handled: doPendingFunctors() swaps the queue.
DoPendingFunctors(l) ==
    /\ loopPc[l] = "events" /\ active[l] = {}
    /\ loopPc' = [loopPc EXCEPT ![l] = "drain"]
    /\ batch' = [batch EXCEPT ![l] = pending[l]]
    /\ pending' = [pending EXCEPT ![l] = <<>>]
    /\ UNCHANGED <<numThreads, thread, quit, active, connVars, fdVars>>

-----------------------------------------------------------------------------
(* Acceptor and newConnection(), on the base loop.                         *)

Handled(l, ch) == active' = [active EXCEPT ![l] = @ \ {ch}]

Accepting(c) ==
    /\ loopPc[0] = "events" /\ Acceptor \in active[0]
    /\ conn[c] = "waiting"

\* getNextLoop(): what next_ becomes.
NextLoop == (nextLoop + 1) % numThreads

\* handleRead() accepts: newConnection() picks a loop, puts the connection
\* into the map and hands connectEstablished() to the loop, which is at once
\* if that is the base loop.
NewConnection(c) ==
    /\ Accepting(c) /\ FdAvailable
    /\ Handled(0, Acceptor)
    /\ connections' = connections \cup {c}
    /\ IF numThreads = 0
       THEN /\ conn' = [conn EXCEPT ![c] = "connected"]
            /\ UNCHANGED <<nextLoop, loopOf, pending>>
       ELSE /\ conn' = [conn EXCEPT ![c] = "connecting"]
            /\ nextLoop' = NextLoop
            /\ loopOf' = [loopOf EXCEPT ![c] = nextLoop + 1]
            /\ pending' = [pending EXCEPT ![nextLoop + 1] =
                             Append(@, <<"connectEstablished", c>>)]
    /\ UNCHANGED <<numThreads, loopPc, thread, quit, batch, peerGone, fdVars>>

\* An Acceptor that only logs the failure.
AcceptFailsOnly ==
    /\ \E c \in Conns : Accepting(c)
    /\ ~FdAvailable
    /\ Handled(0, Acceptor)
    /\ UNCHANGED <<numThreads, loopPc, thread, quit, pending, batch, connVars, fdVars>>

\* accept() fails with EMFILE: idleFd_ is closed to make room.
AcceptFails ==
    /\ \E c \in Conns : Accepting(c)
    /\ ~FdAvailable
    /\ Handled(0, Acceptor)
    /\ idleFd' = FALSE
    /\ loopPc' = [loopPc EXCEPT ![0] = "spare"]
    /\ UNCHANGED <<numThreads, thread, quit, pending, batch, connVars, others, fdLimit>>

\* The peer is accepted in that room and closed, unless the room is gone.
DropPeer ==
    /\ loopPc[0] = "spare"
    /\ loopPc' = [loopPc EXCEPT ![0] = "reopen"]
    /\ IF FdAvailable
       THEN \E c \in Conns : /\ conn[c] = "waiting"
                             /\ conn' = [conn EXCEPT ![c] = "dropped"]
       ELSE UNCHANGED conn
    /\ UNCHANGED <<numThreads, thread, quit, pending, batch, active, nextLoop,
                   connections, loopOf, peerGone, fdVars>>

\* idleFd_ is opened again, if it can be.
ReopenIdleFd ==
    /\ loopPc[0] = "reopen"
    /\ idleFd' = FdAvailable
    /\ loopPc' = [loopPc EXCEPT ![0] = "events"]
    /\ UNCHANGED <<numThreads, thread, quit, pending, batch, active, connVars, others,
                   fdLimit>>

-----------------------------------------------------------------------------
(* The end of a connection, which crosses from its loop to the base loop   *)
(* and back.                                                               *)

\* TcpConnection::handleClose(), with the close callback removeConnection():
\* on the base loop it is removeConnectionInLoop() at once.
HandleClose(l, c) ==
    /\ loopPc[l] = "events" /\ c \in active[l] \cap Conns
    /\ Handled(l, c)
    /\ conn' = [conn EXCEPT ![c] = "disconnected"]
    /\ IF l = 0
       THEN /\ connections' = connections \ {c}
            /\ pending' = [pending EXCEPT ![0] = Append(@, <<"connectDestroyed", c>>)]
       ELSE /\ pending' = [pending EXCEPT ![0] = Append(@, <<"removeConnection", c>>)]
            /\ UNCHANGED connections
    /\ UNCHANGED <<numThreads, loopPc, thread, quit, batch, nextLoop, loopOf,
                   peerGone, fdVars>>

\* The next functor of the batch is f.
Running(l, f) ==
    /\ loopPc[l] = "drain" /\ batch[l] # <<>> /\ Head(batch[l]) = f
    /\ batch' = [batch EXCEPT ![l] = Tail(@)]
    /\ UNCHANGED <<numThreads, loopPc, thread, quit, active, nextLoop, loopOf,
                   peerGone, fdVars>>

RunConnectEstablished(l, c) ==
    /\ Running(l, <<"connectEstablished", c>>)
    /\ conn' = [conn EXCEPT ![c] = "connected"]
    /\ UNCHANGED <<pending, connections>>

RunConnectDestroyed(l, c) ==
    /\ Running(l, <<"connectDestroyed", c>>)
    /\ conn' = [conn EXCEPT ![c] = "removed"]
    /\ UNCHANGED <<pending, connections>>

\* removeConnectionInLoop() that leaves the connection in the map.
RemoveConnectionNoErase(c) ==
    /\ Running(0, <<"removeConnection", c>>)
    /\ pending' = [pending EXCEPT ![loopOf[c]] =
                     Append(@, <<"connectDestroyed", c>>)]
    /\ UNCHANGED <<conn, connections>>

RemoveConnectionInLoop(c) ==
    /\ Running(0, <<"removeConnection", c>>)
    /\ connections' = connections \ {c}
    /\ pending' = [pending EXCEPT ![loopOf[c]] =
                     Append(@, <<"connectDestroyed", c>>)]
    /\ UNCHANGED conn

-----------------------------------------------------------------------------
(* ~TcpServer(): the connections, then the threads of the pool, one after  *)
(* the other.                                                              *)

\* The destructor that leaves the connections to the map's destructor.
DropConnection(c) ==
    /\ loopPc[0] = "destroy" /\ c \in connections
    /\ connections' = connections \ {c}
    /\ UNCHANGED <<numThreads, loopPc, thread, quit, pending, batch, active, nextLoop,
                   conn, loopOf, peerGone, fdVars>>

\* connectDestroyed() is handed to the connection's loop.
DestroyConnection(c) ==
    /\ loopPc[0] = "destroy" /\ c \in connections
    /\ connections' = connections \ {c}
    /\ IF loopOf[c] = 0
       THEN /\ conn' = [conn EXCEPT ![c] = "removed"]
            /\ UNCHANGED pending
       ELSE /\ pending' = [pending EXCEPT ![loopOf[c]] =
                             Append(@, <<"connectDestroyed", c>>)]
            /\ UNCHANGED conn
    /\ UNCHANGED <<numThreads, loopPc, thread, quit, batch, active, nextLoop, loopOf,
                   peerGone, fdVars>>

\* The members are destroyed: threads_ first, from the first one on.
DestroyPool ==
    /\ loopPc[0] = "destroy" /\ connections = {}
    /\ thread' = 1
    /\ loopPc' = [loopPc EXCEPT ![0] = "quit"]
    /\ UNCHANGED <<numThreads, quit, pending, batch, active, connVars, fdVars>>

AtRest(l) == loopPc[l] = "poll" /\ Ready(l) = {} /\ pending[l] = <<>>

\* ~EventLoopThread() without usleep(10).
QuitThreadAtOnce ==
    /\ loopPc[0] = "quit" /\ thread <= numThreads
    /\ quit' = [quit EXCEPT ![thread] = TRUE]
    /\ loopPc' = [loopPc EXCEPT ![0] = "join"]
    /\ UNCHANGED <<numThreads, thread, pending, batch, active, connVars, fdVars>>

\* ~EventLoopThread(): usleep(10), then loop_->quit().
QuitThread ==
    /\ loopPc[0] = "quit" /\ thread <= numThreads
    /\ SleepSuffices => AtRest(thread)
    /\ quit' = [quit EXCEPT ![thread] = TRUE]
    /\ loopPc' = [loopPc EXCEPT ![0] = "join"]
    /\ UNCHANGED <<numThreads, thread, pending, batch, active, connVars, fdVars>>

JoinThread ==
    /\ loopPc[0] = "join" /\ loopPc[thread] = "done"
    /\ thread' = thread + 1
    /\ loopPc' = [loopPc EXCEPT ![0] = "quit"]
    /\ UNCHANGED <<numThreads, quit, pending, batch, active, connVars, fdVars>>

\* The pool is gone, ~Acceptor() runs, and then the base loop is destroyed
\* with the functors that nobody will run any more.
ServerDestroyed ==
    /\ loopPc[0] = "quit" /\ thread > numThreads
    /\ loopPc' = [loopPc EXCEPT ![0] = "done"]
    /\ pending' = [pending EXCEPT ![0] = <<>>]
    /\ idleFd' = FALSE
    /\ UNCHANGED <<numThreads, thread, quit, batch, active, connVars, others, fdLimit>>

-----------------------------------------------------------------------------
(* The outside.                                                            *)

Serving == loopPc[0] \in Turning \cup {"spare", "reopen"}

\* Peers are told apart by nothing but the order in which they connect.
PeerConnects ==
    /\ Serving
    /\ \E c \in Conns :
         /\ conn[c] = "none" /\ \A d \in 1..(c - 1) : conn[d] # "none"
         /\ conn' = [conn EXCEPT ![c] = "waiting"]
    /\ UNCHANGED <<numThreads, loopVars, nextLoop, connections, loopOf, peerGone, fdVars>>

PeerCloses(c) ==
    /\ conn[c] \in Existing \ {"removed"} /\ c \notin peerGone
    /\ peerGone' = peerGone \cup {c}
    /\ UNCHANGED <<numThreads, loopVars, nextLoop, connections, conn, loopOf, fdVars>>

\* The application ends the base loop, from a callback or another thread.
BaseQuit ==
    /\ Serving /\ ~quit[0]
    /\ quit' = [quit EXCEPT ![0] = TRUE]
    /\ UNCHANGED <<numThreads, loopPc, thread, pending, batch, active, connVars, fdVars>>

\* A thread that opens a file (the logger, when it rolls) or closes it.
OthersUseFds ==
    /\ Serving
    /\ others \/ FdAvailable
    /\ others' = ~others
    /\ UNCHANGED <<numThreads, loopVars, connVars, idleFd, fdLimit>>

LoopStep(l) ==
    \/ ThreadFunc(l) \/ LoopBegins(l) \/ LoopEnds(l) \/ EnterPoll(l) \/ Poll(l)
    \/ DoPendingFunctors(l)
    \/ \E c \in Conns : \/ HandleClose(l, c) \/ RunConnectEstablished(l, c)
                        \/ RunConnectDestroyed(l, c)

MainStep ==
    \/ StartLoop \/ StartLoopReturns
    \/ AcceptFails \/ DropPeer \/ ReopenIdleFd
    \/ \E c \in Conns : \/ NewConnection(c) \/ RemoveConnectionInLoop(c)
                        \/ DestroyConnection(c)
    \/ DestroyPool \/ QuitThread \/ JoinThread \/ ServerDestroyed

Outside ==
    \/ PeerConnects \/ BaseQuit \/ OthersUseFds
    \/ \E c \in Conns : PeerCloses(c)

ServerNext == MainStep \/ Outside \/ \E l \in Loops : LoopStep(l)

ServerSpec == ServerInit /\ [][ServerNext]_serverVars

\* Threads run.  Peers and the application promise nothing.
ServerFairSpec ==
    /\ ServerSpec
    /\ WF_serverVars(MainStep \/ LoopStep(0))
    /\ \A l \in UNION {1..n : n \in Sizes} : WF_serverVars(l \in Loops /\ LoopStep(l))

-----------------------------------------------------------------------------
(* Properties.                                                             *)

\* How many removeConnectionInLoop() for c the base loop has still to run.
Removals(c) ==
    Cardinality({i \in DOMAIN pending[0] : pending[0][i] = <<"removeConnection", c>>})
  + Cardinality({i \in DOMAIN batch[0] : batch[0][i] = <<"removeConnection", c>>})

\* While the server serves, connections_ is right: it has every connection
\* that is being set up or is open; of one that its loop has closed it keeps
\* the entry exactly as long as one removal is on its way between the two
\* loops (so that erase() in removeConnectionInLoop() finds it, as its assert
\* says); and never one that connectDestroyed() is done with.
MapAgrees ==
    Serving =>
        \A c \in Conns :
            /\ conn[c] \in {"connecting", "connected"} => c \in connections
            /\ conn[c] = "removed" => c \notin connections
            /\ Removals(c) = IF conn[c] = "disconnected" /\ c \in connections
                             THEN 1 ELSE 0

\* A TcpConnection is destroyed only after connectDestroyed() has run on its
\* loop: the asserts in ~TcpConnection() (kDisconnected) and in ~Channel()
\* (no longer in the loop), also while the server and its loops are going.
DestructorAsserts ==
    \A c \in Conns : conn[c] \in Existing /\ ~Referenced(c) => conn[c] = "removed"

\* A peer in the backlog is accepted, or dropped when there is no descriptor
\* left for it, as long as the server is there: it never waits for ever with
\* the base loop polling the same event again and again.  The descriptors may
\* be used up by connections, not by other threads (others): one of those can
\* take the place that handleRead() has just made.
PeersServed ==
    \A c \in Conns :
        conn[c] = "waiting" ~> (conn[c] # "waiting" \/ ~Serving \/ others)

\* ~TcpServer() returns: every thread of the pool sees the quit() meant for it.
ServerStops == loopPc[0] = "destroy" ~> loopPc[0] = "done"
=============================================================================
