----------------------------- MODULE HttpServer -----------------------------
(***************************************************************************)
(* One connection of a server and what its messageCallback_ does with the  *)
(* input buffer.  The callback is HttpServer::onMessage (src/http), or     *)
(* that of some application, which may call whatever Buffer offers, like   *)
(* the servers in src/Example.                                             *)
(*                                                                         *)
(* The peer of an HTTP connection sends requests.  A polite peer waits for *)
(* the answer before it sends the next, its requests come in one read and  *)
(* have no body, as the comment at ExpectBody in parseRequest() says of    *)
(* those it was tested with; other peers send what they have, and TCP cuts *)
(* their stream as it likes.                                               *)
(***************************************************************************)
EXTENDS HttpParse

CONSTANTS
    Requests,       \* the requests of peers, see RequestBytes
    MaxRequests,    \* bound: requests of a peer
    Data,           \* what an application prepends and appends
    Reserves,       \* arguments of shrink() and of ensureWritableBytes()
    MaxCalls        \* bound: calls of an application

ASSUME RequestBoundsAssumption == MaxRequests \in Nat \ {0} /\ MaxCalls \in Nat
ASSUME ApplicationAssumption == Data \subseteq Seq(Bytes) /\ Reserves \subseteq Nat

VARIABLES
    http,           \* whether the callback is HttpServer::onMessage
    polite,         \* whether the peer is polite
    requests,       \* the requests the peer has to send
    sent,           \* how many of them it has sent
    stream,         \* the bytes under way to the server
    peerFin,        \* whether the peer has closed its end
    state,          \* the state of the TcpConnection
    pc,             \* "poll", "parse" in onMessage(), "app" in an application
    buf,            \* inputBuffer_
    parser,         \* the HttpParse of the onMessage() under way
    answers,        \* what was sent: the responses, in their order
    calls           \* how often an application has called Buffer

peerVars == <<requests, sent, stream, peerFin>>
vars == <<http, polite, peerVars, state, pc, buf, parser, answers, calls>>

-----------------------------------------------------------------------------
(* Requests and responses.                                                 *)

\* A request as its bytes.
RequestBytes(r) ==
    <<r.method, "SP", r.path>> \o r.query \o <<"SP", r.version>> \o CRLF
        \o FlattenSeq([i \in DOMAIN r.headers |-> r.headers[i] \o CRLF])
        \o CRLF \o r.body

\* A request is some bytes.
ASSUME RequestsAssumption ==
    \A r \in Requests : RequestBytes(r) \in Seq(Bytes) /\ Len(RequestBytes(r)) # 0

\* A request by the grammar: its words hold no other word, only a query begins
\* with a '?', no header could be a request line, and no body could begin one.
WellFormed(r) ==
    LET words == Bytes \ {"CR", "LF", "SP"} IN
    /\ r.method \in words /\ r.path \in words \ {"?"} /\ r.version \in words
    /\ r.query \in Seq(words) /\ (r.query # <<>> => r.query[1] = "?")
    /\ r.headers \in Seq(Seq(Bytes \ {"CR"}))
    /\ \A h \in Range(r.headers) : h # <<>> /\ ~LineOK(h)
    /\ r.body \in Seq(Bytes) /\ (r.body # <<>> => r.body[1] \notin Methods)

\* WriteResponse(): the status and whether there is a body, and with it a
\* Content-Length.
StatusOf(request) ==
    IF \E path \in {"/hello", "/favicon.ico", "/"} : request.path = <<path>>
    THEN 200 ELSE 404
HasBody(request) ==
    \/ request.path = <<"/hello">> /\ request.method = "GET"
    \/ request.path \in {<<"/favicon.ico">>, <<"/">>}

KeepAlive == {<<"Keep-Alive">>, <<"keep-alive">>}

\* ReplyRequest(): whether the connection is to be closed after the answer.
CloseAfter(request) ==
    \/ GetHeader(request, <<"Connection">>) \notin KeepAlive
    \/ StatusOf(request) = 404

Response(request) ==
    [version |-> IF request.version = "HTTP/1.0" THEN "HTTP/1.0" ELSE "HTTP/1.1",
     status |-> StatusOf(request), body |-> HasBody(request), close |-> CloseAfter(request)]

BadResponse == [version |-> "HTTP/1.1", status |-> 400, body |-> FALSE, close |-> TRUE]

Responses == [version : Versions, status : {200, 400, 404},
              body : BOOLEAN, close : BOOLEAN]

TypeOK ==
    /\ http \in BOOLEAN /\ polite \in BOOLEAN
    /\ requests \in Seq(Requests)
    /\ sent \in 0..Len(requests)
    /\ stream \in Seq(Bytes)
    /\ peerFin \in BOOLEAN
    /\ state \in {"kConnected", "kDisconnecting", "kDisconnected"}
    /\ pc \in {"poll", "parse", "app"}
    /\ BufferOK(buf)
    /\ parser.state \in ParserStates
    /\ parser.ok \in BOOLEAN /\ parser.hasMore \in BOOLEAN
    /\ answers \in Seq(Responses)
    /\ calls \in 0..MaxCalls

Init ==
    /\ http \in BOOLEAN /\ polite \in BOOLEAN
    /\ requests \in UNION {[1..n -> Requests] : n \in 1..MaxRequests}
    /\ polite => http /\ \A i \in DOMAIN requests : requests[i].body = <<>>
    /\ ~http => Len(requests) = 1
    /\ sent = 0
    /\ stream = <<>>
    /\ peerFin = FALSE
    /\ state = "kConnected"
    /\ pc = "poll"
    /\ buf = NewBuffer(InitialSize)
    /\ parser = NewParser
    /\ answers = <<>>
    /\ calls = 0

-----------------------------------------------------------------------------
(* The peer.                                                               *)

Answered == Len(answers) = sent
AskedToClose == answers # <<>> /\ answers[Len(answers)].close

PeerSends ==
    /\ ~peerFin
    /\ sent < Len(requests)
    /\ polite => Answered /\ ~AskedToClose
    /\ sent' = sent + 1
    /\ stream' = stream \o RequestBytes(requests[sent + 1])
    /\ UNCHANGED <<http, polite, requests, peerFin, state, pc, buf, parser,
                   answers, calls>>

PeerCloses ==
    /\ ~peerFin
    /\ polite => AskedToClose \/ (Answered /\ sent = Len(requests))
    /\ peerFin' = TRUE
    /\ UNCHANGED <<http, polite, requests, sent, stream, state, pc, buf, parser,
                   answers, calls>>

-----------------------------------------------------------------------------
(* TcpConnection::handleRead().                                            *)

Reading == pc = "poll" /\ state # "kDisconnected"

\* It reads the first n bytes of the stream and calls messageCallback_.
HandleRead(n) ==
    /\ Reading
    /\ n <= ReadFdRoom(buf)
    /\ polite => n = Len(stream)
    /\ buf' = ReadFd(buf, SubSeq(stream, 1, n))
    /\ stream' = SubSeq(stream, n + 1, Len(stream))
    /\ parser' = NewParser
    /\ pc' = IF http THEN "parse" ELSE "app"
    /\ UNCHANGED <<http, polite, requests, sent, peerFin, state, answers, calls>>

HandleClose ==
    /\ Reading
    /\ stream = <<>> /\ peerFin
    /\ state' = "kDisconnected"
    /\ UNCHANGED <<http, polite, peerVars, pc, buf, parser, answers, calls>>

-----------------------------------------------------------------------------
(* HttpServer::onMessage().                                                *)

Parse ==
    /\ pc = "parse" /\ Parsing(parser)
    /\ \E r \in {ParseRound(parser, buf)} : parser' = r.parser /\ buf' = r.buffer
    /\ UNCHANGED <<http, polite, peerVars, state, pc, answers, calls>>

\* send(), which sends nothing after shutdown().
Send(response) ==
    answers' = IF state = "kConnected" THEN Append(answers, response) ELSE answers

\* shutdown()
Shutdown == state' = IF state = "kConnected" THEN "kDisconnecting" ELSE state

\* The connection left open after a bad request.
BadRequestStays ==
    /\ pc = "parse" /\ ~parser.ok
    /\ Send(BadResponse)
    /\ pc' = "poll"
    /\ UNCHANGED <<http, polite, peerVars, state, buf, parser, calls>>

BadRequest ==
    /\ pc = "parse" /\ ~parser.ok
    /\ Send(BadResponse)
    /\ Shutdown
    /\ pc' = "poll"
    /\ UNCHANGED <<http, polite, peerVars, buf, parser, calls>>

ReplyRequest ==
    /\ pc = "parse" /\ Success(parser)
    /\ Send(Response(parser.request))
    /\ IF CloseAfter(parser.request) THEN Shutdown ELSE UNCHANGED state
    /\ pc' = "poll"
    /\ UNCHANGED <<http, polite, peerVars, buf, parser, calls>>

-----------------------------------------------------------------------------
(* The callback of an application.                                         *)

CallsBuffer(b) ==
    /\ pc = "app" /\ calls < MaxCalls
    /\ buf' = b
    /\ calls' = calls + 1
    /\ UNCHANGED <<http, polite, peerVars, state, pc, parser, answers>>

AppRetrieves(n) == n <= ReadableBytes(buf) /\ CallsBuffer(Retrieve(buf, n))
AppRetrievesAll == CallsBuffer(RetrieveAll(buf))
AppAppends(d)   == CallsBuffer(AppendBytes(buf, d))
AppPrepends(d)  == PrependAsserts(buf, d) /\ CallsBuffer(Prepend(buf, d))
AppEnsures(n)   == CallsBuffer(EnsureWritableBytes(buf, n))
AppShrinks(n)   == CallsBuffer(Shrink(buf, n))

AppReturns ==
    /\ pc = "app"
    /\ pc' = "poll"
    /\ UNCHANGED <<http, polite, peerVars, state, buf, parser, answers, calls>>

-----------------------------------------------------------------------------
App ==
    \/ \E n \in 1..ReadableBytes(buf) : AppRetrieves(n)
    \/ AppRetrievesAll
    \/ \E d \in Data : AppAppends(d) \/ AppPrepends(d)
    \/ \E n \in Reserves : AppEnsures(n) \/ AppShrinks(n)

OnMessage == Parse \/ BadRequest \/ ReplyRequest

Loop ==
    \/ \E n \in 1..Len(stream) : HandleRead(n)
    \/ HandleClose
    \/ OnMessage
    \/ AppReturns

Next == PeerSends \/ PeerCloses \/ Loop \/ App

Spec == Init /\ [][Next]_vars

\* The loop handles what poll() reports, and a polite peer goes on once it is
\* answered.  Nothing is asked of the other peers, or of applications.
FairSpec == Spec /\ WF_vars(polite /\ Loop) /\ WF_vars(polite /\ PeerSends)

-----------------------------------------------------------------------------
(* Properties.                                                             *)

\* The input buffer is a queue of bytes for all that is done with it:
\* reads with and without extrabuf, retrieve(), prepend(), moves to the front
\* and growth, shrink() (all of Buffer).
Q == INSTANCE ByteQueue WITH bytes <- Contents(buf)
ImplementsByteQueue == Q!Spec

\* A header that asks to keep the connection.
KeepsAlive(h) ==
    Before(h, ":") = <<"Connection">> /\ Trim(Behind(h, ":")) \in KeepAlive

\* What a request should be answered with.
Expected(r) ==
    LET status == CASE r.method \notin Methods \/ r.version \notin Versions -> 400
                    [] OTHER -> IF r.path \in {"/hello", "/favicon.ico", "/"}
                                THEN 200 ELSE 404
    IN  [status |-> status,
         close |-> status # 200 \/ \A h \in Range(r.headers) : ~KeepsAlive(h)]

Rightly(k) == [status |-> answers[k].status, close |-> answers[k].close]
                = Expected(requests[k])

\* However requests are cut, run together or left with a body, an answer is
\* never given to the wrong request: the k-th one is that of the k-th request,
\* except that the connection may be closed where it was to be kept, or the
\* request be called bad; and what announces the end is the last answer
\* (HttpServer::onMessage, ReplyRequest, HttpParse::parseRequest).
AnswersInOrder ==
    \A k \in DOMAIN answers :
        /\ answers[k].close => k = Len(answers)
        /\ \/ answers[k].status = 400
           \/ /\ k <= sent
              /\ answers[k].status = Expected(requests[k]).status
              /\ Expected(requests[k]).close => answers[k].close

\* A polite peer gets all of its requests answered, up to the first that ends
\* the connection, each with what it should (the same code, for the peers it
\* was written for).
PoliteAnswered ==
    []<>(polite =>
            /\ \A k \in DOMAIN answers : Rightly(k)
            /\ AskedToClose \/ Len(answers) = Len(requests))
=============================================================================
