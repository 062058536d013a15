-------------------------------- MODULE Chat --------------------------------
(***************************************************************************)
(* The chat of src/chat: clients write lines to a server, which sends      *)
(* every line to all clients (server.cpp, client.cpp, codec.h).  Both ends *)
(* of a connection read with Buffer::readFd() whatever part of the stream  *)
(* has come, and split it into messages with the codec.                    *)
(*                                                                         *)
(* The server has one loop, whose handlers are the steps of this module.   *)
(* A connection is a TcpConnection at each end and two streams between;    *)
(* what send() does with them is in module TcpConnection, here the bytes   *)
(* go into the stream at once.  A client that connects again, as           *)
(* enableRetry() has it do, comes as another connection.                   *)
(***************************************************************************)
EXTENDS Codec, FiniteSets

CONSTANTS
    Conns,          \* the connections
    Lines,          \* what users write; some may be too long
    MaxLines        \* bound: lines written in all

ASSUME LinesAssumption == \A t \in Lines : t \in Seq(Bytes) /\ Len(t) < Power(HeaderLen)
ASSUME MaxLinesAssumption == MaxLines \in Nat

VARIABLES
    server,         \* the server's TcpConnection of each connection
    connections,    \* connections_ of the ChatServer
    client,         \* the client's TcpConnection
    serverBuf,      \* inputBuffer_ at the server
    clientBuf,      \* inputBuffer_ at the client
    toServer,       \* the bytes under way to the server
    toClient,       \* the bytes under way to the client
    serverFin,      \* whether the server has shut down or closed its end
    clientFin,      \* whether the client has
    written,        \* the lines the client has sent
    log,            \* what the server has sent to all: the sender and the line
    joined,         \* how long log was when the connection was established
    left,           \* and when the server stopped sending to it
    got             \* the messages the client has received

streams == <<toServer, toClient, serverFin, clientFin>>
history == <<written, log, joined, left, got>>
chatVars == <<server, connections, client, serverBuf, clientBuf, streams, history>>

ConnStates == {"kConnecting", "kConnected", "kDisconnecting", "kDisconnected"}

ChatTypeOK ==
    /\ server \in [Conns -> ConnStates]
    /\ client \in [Conns -> ConnStates]
    /\ connections \subseteq Conns
    /\ serverBuf \in [Conns -> Buffers]
    /\ clientBuf \in [Conns -> Buffers]
    /\ \A c \in Conns : BufferOK(serverBuf[c]) /\ BufferOK(clientBuf[c])
    /\ toServer \in [Conns -> Seq(Bytes)]
    /\ toClient \in [Conns -> Seq(Bytes)]
    /\ serverFin \in [Conns -> BOOLEAN]
    /\ clientFin \in [Conns -> BOOLEAN]
    /\ written \in [Conns -> Seq(Lines)]
    /\ log \in Seq(Conns \X Seq(Bytes))
    /\ joined \in [Conns -> Nat]
    /\ left \in [Conns -> Nat]
    /\ got \in [Conns -> Seq(Seq(Bytes))]

ChatInit ==
    /\ server = [c \in Conns |-> "kConnecting"]
    /\ client = [c \in Conns |-> "kConnecting"]
    /\ connections = {}
    /\ serverBuf = [c \in Conns |-> NewBuffer(InitialSize)]
    /\ clientBuf = [c \in Conns |-> NewBuffer(InitialSize)]
    /\ toServer = [c \in Conns |-> <<>>]
    /\ toClient = [c \in Conns |-> <<>>]
    /\ serverFin = [c \in Conns |-> FALSE]
    /\ clientFin = [c \in Conns |-> FALSE]
    /\ written = [c \in Conns |-> <<>>]
    /\ log = <<>>
    /\ joined = [c \in Conns |-> 0]
    /\ left = [c \in Conns |-> 0]
    /\ got = [c \in Conns |-> <<>>]

-----------------------------------------------------------------------------
(* The clients.                                                            *)

\* onConnection(): from here on connection_ is set.
ClientUp(c) ==
    /\ client[c] = "kConnecting"
    /\ client' = [client EXCEPT ![c] = "kConnected"]
    /\ UNCHANGED <<server, connections, serverBuf, clientBuf, streams, history>>

Total(f) == FoldLeft(LAMBDA n, c : n + Len(f[c]), 0, SetToSeq(Conns))

\* write(): a line of the user's.
ClientWrite(c, line) ==
    /\ client[c] = "kConnected"
    /\ Total(written) < MaxLines
    /\ toServer' = [toServer EXCEPT ![c] = @ \o Encode(line)]
    /\ written' = [written EXCEPT ![c] = Append(@, line)]
    /\ UNCHANGED <<server, connections, client, serverBuf, clientBuf, toClient,
                   serverFin, clientFin, log, joined, left, got>>

\* disconnect(): what was written goes out before the end of the stream.
ClientDisconnect(c) ==
    /\ client[c] = "kConnected"
    /\ client' = [client EXCEPT ![c] = "kDisconnecting"]
    /\ clientFin' = [clientFin EXCEPT ![c] = TRUE]
    /\ UNCHANGED <<server, connections, serverBuf, clientBuf, toServer, toClient,
                   serverFin, history>>

StillReads(s) == s \in {"kConnected", "kDisconnecting"}

\* handleRead() of the client for the first n bytes under way.
ClientRead(c, n) ==
    /\ StillReads(client[c])
    /\ n <= ReadFdRoom(clientBuf[c])
    /\ toClient' = [toClient EXCEPT ![c] = SubSeq(@, n + 1, Len(@))]
    /\ \E r \in {OnMessage(ReadFd(clientBuf[c], SubSeq(toClient[c], 1, n)))} :
        /\ clientBuf' = [clientBuf EXCEPT ![c] = r.buffer]
        /\ got' = [got EXCEPT ![c] = @ \o r.messages]
        /\ client' = [client EXCEPT ![c] = IF r.shutdown THEN "kDisconnecting" ELSE @]
        /\ clientFin' = [clientFin EXCEPT ![c] = @ \/ r.shutdown]
    /\ UNCHANGED <<server, connections, serverBuf, toServer, serverFin, written,
                   log, joined, left>>

\* handleRead() that reads 0 bytes: handleClose().
ClientClose(c) ==
    /\ StillReads(client[c])
    /\ toClient[c] = <<>> /\ serverFin[c]
    /\ client' = [client EXCEPT ![c] = "kDisconnected"]
    /\ clientFin' = [clientFin EXCEPT ![c] = TRUE]
    /\ UNCHANGED <<server, connections, serverBuf, clientBuf, toServer, toClient,
                   serverFin, history>>

-----------------------------------------------------------------------------
(* The server.                                                             *)

\* connectEstablished() and onConnection().
ServerUp(c) ==
    /\ server[c] = "kConnecting"
    /\ server' = [server EXCEPT ![c] = "kConnected"]
    /\ connections' = connections \cup {c}
    /\ joined' = [joined EXCEPT ![c] = Len(log)]
    /\ UNCHANGED <<client, serverBuf, clientBuf, streams, written, log, left,
                   got>>

\* The messages as codec_.send() puts them into a stream.
EncodeAll(messages) == FlattenSeq([i \in DOMAIN messages |-> Encode(messages[i])])

\* The connections of connections_ whose send() still sends.
Listening == {d \in connections : server[d] = "kConnected"}

\* onStringMessage() for all of the messages, without the sender.
BroadcastToOthers(c, messages) ==
    [d \in Conns |-> IF d \in Listening \ {c}
                     THEN toClient[d] \o EncodeAll(messages) ELSE toClient[d]]

\* onStringMessage() for all of the messages: codec_.send() to everyone.
Broadcast(c, messages) ==
    [d \in Conns |-> IF d \in Listening
                     THEN toClient[d] \o EncodeAll(messages) ELSE toClient[d]]

\* handleRead() of the server for the first n bytes under way.  After
\* shutdown() the connection is read on, but nothing is sent to it.
ServerRead(c, n) ==
    /\ StillReads(server[c])
    /\ n <= ReadFdRoom(serverBuf[c])
    /\ toServer' = [toServer EXCEPT ![c] = SubSeq(@, n + 1, Len(@))]
    /\ \E r \in {OnMessage(ReadFd(serverBuf[c], SubSeq(toServer[c], 1, n)))} :
        /\ serverBuf' = [serverBuf EXCEPT ![c] = r.buffer]
        /\ toClient' = Broadcast(c, r.messages)
        /\ log' = log \o [i \in DOMAIN r.messages |-> <<c, r.messages[i]>>]
        /\ server' = [server EXCEPT ![c] = IF r.shutdown THEN "kDisconnecting" ELSE @]
        /\ serverFin' = [serverFin EXCEPT ![c] = @ \/ r.shutdown]
    /\ left' = [left EXCEPT ![c] = IF server[c] = "kConnected" THEN Len(log') ELSE @]
    /\ UNCHANGED <<connections, client, clientBuf, clientFin, written, joined, got>>

\* handleRead() that reads 0 bytes: handleClose(), with onConnection().
ServerClose(c) ==
    /\ StillReads(server[c])
    /\ toServer[c] = <<>> /\ clientFin[c]
    /\ server' = [server EXCEPT ![c] = "kDisconnected"]
    /\ connections' = connections \ {c}
    /\ serverFin' = [serverFin EXCEPT ![c] = TRUE]
    /\ left' = [left EXCEPT ![c] = IF server[c] = "kConnected" THEN Len(log) ELSE @]
    /\ UNCHANGED <<client, serverBuf, clientBuf, toServer, toClient, clientFin,
                   written, log, joined, got>>

\* What the user of a client does.
User(c) ==
    \/ \E line \in Lines : ClientWrite(c, line)
    \/ ClientDisconnect(c)

\* What the loops of the client and of the server do.
ClientLoop(c) ==
    \/ ClientUp(c)
    \/ \E n \in 1..Len(toClient[c]) : ClientRead(c, n)
    \/ ClientClose(c)
ServerLoop(c) ==
    \/ ServerUp(c)
    \/ \E n \in 1..Len(toServer[c]) : ServerRead(c, n)
    \/ ServerClose(c)

ChatNext == \E c \in Conns : User(c) \/ ClientLoop(c) \/ ServerLoop(c)

ChatSpec == ChatInit /\ [][ChatNext]_chatVars

\* Connections get established and the loops handle what poll() reports,
\* which for one end of a connection is one thing at a time.  Nobody has to
\* write, or to disconnect.
ChatFairness == \A c \in Conns : WF_chatVars(ClientLoop(c)) /\ WF_chatVars(ServerLoop(c))

ChatFairSpec == ChatSpec /\ ChatFairness

-----------------------------------------------------------------------------
(* Properties.                                                             *)

Texts(entries) == [i \in DOMAIN entries |-> entries[i][2]]

\* The lines of c in a log.
SaidIn(entries, c) ==
    LET said[i \in 0..Len(entries)] ==
            IF i = 0 THEN <<>>
            ELSE IF entries[i][1] = c THEN Append(said[i - 1], entries[i][2])
                 ELSE said[i - 1]
    IN  said[Len(entries)]
SaidBy(c) == SaidIn(log, c)

\* However the stream is cut into reads and however the buffer moves and
\* grows, what the server takes from a connection are the lines that were
\* written there, whole and in their order; after a line that is too long
\* nothing is taken any more, although its bytes are read
\* (LengthHeaderCodec::onMessage, Buffer::readFd).
LinesWhole == \A c \in Conns : IsPrefix(SaidBy(c), written[c])

\* Every client sees the one conversation: what it has received is, from
\* where it joined and without a gap, what the server sent to all
\* (ChatServer::onStringMessage, onConnection).
SameConversation ==
    \A c \in Conns :
        IsPrefix(got[c], Texts(SubSeq(log, joined[c] + 1, Len(log))))

TooLong(line) == Len(line) > MaxLength

\* The lines of c that the server should take.
Acceptable(c) ==
    LET bad == {i \in DOMAIN written[c] : TooLong(written[c][i])}
    IN  IF bad = {} THEN written[c] ELSE SubSeq(written[c], 1, Min(bad) - 1)

\* How much of the conversation was sent to c.
SentTo(c) == (IF server[c] = "kConnected" THEN Len(log) ELSE left[c]) - joined[c]

\* A line is taken by the server if it is not too long and no line before it
\* was, even when the client disconnects right after it; and what is sent
\* while a connection is kConnected reaches its client.  Nobody writes for
\* ever here, so that all comes to rest.
AllHeard ==
    []<>(\A c \in Conns : SaidBy(c) = Acceptable(c) /\ Len(got[c]) = SentTo(c))
=============================================================================
