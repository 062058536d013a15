------------------------- MODULE HttpServer_proofs --------------------------
(***************************************************************************)
(* Proofs about HttpServer, for any sizes of the Buffer and any calls of   *)
(* applications: for any requests its types, and that the input buffer is a *)
(* queue of bytes; for requests by the grammar, that no answer is given to *)
(* the wrong one.                                                          *)
(*                                                                         *)
(* The last is an invariant of the bytes that nobody has taken, those in   *)
(* the buffer and those under way: as long as answers can be sent, they    *)
(* are what is left of the request that is next, and then the whole of     *)
(* those behind it; or they begin with something that is no request, a     *)
(* header or a body that was left, and then the answer is BadResponse.     *)
(***************************************************************************)
EXTENDS HttpServer, Buffer_proofs
-----------------------------------------------------------------------------
(* HttpServer.                                                             *)

\* A parser's fields; it has more to parse until it succeeds.
ParserOK(p) ==
    /\ p \in [state : ParserStates, ok : BOOLEAN, hasMore : BOOLEAN,
              request : {p.request}]
    /\ p.state = "Success" => ~p.hasMore

\* What Next keeps: the types, the buffer's spaces, and a parser's fields.
IInv ==
    /\ TypeOK
    /\ ParserOK(parser)

-----------------------------------------------------------------------------
(* A line ends among the readable bytes, so that retrieveUntil(crlf + 2)   *)
(* retrieves what there is.                                                *)

LEMMA FindProperties ==
  ASSUME NEW b, BufferOK(b), HasLine(b)
  PROVE  Find(b, CRLF) + 1 \in 1..ReadableBytes(b)
<1> DEFINE c  == Contents(b)
           at == {i \in 1..(Len(c) - Len(CRLF) + 1) :
                    SubSeq(c, i, i + Len(CRLF) - 1) = CRLF}
<1>1. Len(c) = ReadableBytes(b) /\ ReadableBytes(b) \in Nat
  BY ContentsProperties, BufferTypes
<1>2. Len(CRLF) = 2
  BY DEF CRLF
<1>3. at \subseteq Nat /\ \A i \in at : i \in 1..(ReadableBytes(b) - 1)
  BY <1>1, <1>2
<1>4. Find(b, CRLF) =
        IF at = {} THEN 0 ELSE CHOOSE i \in at : \A j \in at : i <= j
  BY DEF Find
<1> HIDE DEF at
<1>5. at # {}
  BY <1>4 DEF HasLine
<1>6. \E i \in at : \A j \in at : i <= j
  BY <1>3, <1>5, Smallest
<1>7. Find(b, CRLF) \in at
  BY <1>4, <1>5, <1>6
<1>8. Find(b, CRLF) \in 1..(ReadableBytes(b) - 1)
  BY <1>3, <1>7
<1> HIDE DEF c
<1> QED BY <1>1, <1>8

\* Where a line is taken, at least its end is retrieved.
LEMMA SkipLineRetrieves ==
  ASSUME NEW b, BufferOK(b), HasLine(b)
  PROVE  \E n \in 1..ReadableBytes(b) : SkipLine(b) = Retrieve(b, n)
BY FindProperties DEF SkipLine

\* A round of parseRequest() takes a line or leaves the buffer alone.
LEMMA ParseRoundProperties ==
  ASSUME NEW b, BufferOK(b), NEW p, ParserOK(p), Parsing(p)
  PROVE  /\ \/ ParseRound(p, b).buffer = b
            \/ \E n \in 1..ReadableBytes(b) :
                 ParseRound(p, b).buffer = Retrieve(b, n)
         /\ ParserOK(ParseRound(p, b).parser)
<1> DEFINE Fine(g) == /\ \/ g.buffer = b
                         \/ \E n \in 1..ReadableBytes(b) : g.buffer = Retrieve(b, n)
                      /\ ParserOK(g.parser)
<1>1. Fine(Fail(p, b))
  BY DEF Fail, Goes, ParserOK
<1>2. ASSUME HasLine(b), NEW x, ParserOK(x), NEW s \in ParserStates \ {"Success"}
      PROVE  Fine(Advance(x, b, s))
  <2>1. \E n \in 1..ReadableBytes(b) : Advance(x, b, s).buffer = Retrieve(b, n)
    BY <1>2, SkipLineRetrieves DEF Advance, Goes
  <2>2. ParserOK(Advance(x, b, s).parser)
    BY <1>2 DEF Advance, Goes, ParserStates, ParserOK
  <2> QED BY <2>1, <2>2, SeqDef
<1>3. ASSUME NEW r
      PROVE  ParserOK([p EXCEPT !.request = r])
  BY DEF ParserOK
<1>4. ASSUME NEW s \in ParserStates \ {"Success"}
      PROVE  Fine(Goes([p EXCEPT !.state = s], b))
  BY DEF Goes, ParserOK
<1>5. Fine(ParseBody(p, b))
  BY DEF ParseBody, Goes, ParserStates, ParserOK
<1>s. {"ExpectHeaders", "ExpectEmptyline", "ExpectBody"}
        \subseteq ParserStates \ {"Success"}
  BY DEF ParserStates
<1> HIDE DEF Fine
<1>6. Fine(ParseRequestLine(p, b))
  BY <1>1, <1>2, <1>3, <1>s DEF ParseRequestLine
<1>7. Fine(ParseHeader(p, b))
  <2>1. CASE ~HasLine(b)
    BY <1>1, <2>1 DEF ParseHeader
  <2>2. CASE HasLine(b) /\ Has(Line(b), ":")
    <3> DEFINE r == AddHeader(p.request, Line(b))
    <3>1. ParseHeader(p, b) = Advance([p EXCEPT !.request = r], b, "ExpectHeaders")
      BY <2>2 DEF ParseHeader
    <3> HIDE DEF r
    <3> QED BY <1>2, <1>3, <1>s, <2>2, <3>1
  <2>3. CASE HasLine(b) /\ ~Has(Line(b), ":")
    <3>1. ParseHeader(p, b) = Goes([p EXCEPT !.state = "ExpectEmptyline"], b)
      BY <2>3 DEF ParseHeader
    <3> QED BY <1>4, <1>s, <3>1
  <2> QED BY <2>1, <2>2, <2>3
<1>8. Fine(ParseEmptyLine(p, b))
  BY <1>1, <1>2, <1>s DEF ParseEmptyLine
<1>9. p.state \in {"ExpectRequestLine", "ExpectHeaders", "ExpectEmptyline",
                   "ExpectBody"}
  BY DEF ParserOK, Parsing, ParserStates
<1>10. Fine(ParseRound(p, b))
  BY <1>5, <1>6, <1>7, <1>8, <1>9 DEF ParseRound
<1> QED BY <1>10 DEF Fine

-----------------------------------------------------------------------------
(* What the bytes of the stream and of the buffer become.                  *)

LEMMA Retrieved ==
  ASSUME NEW b, BufferOK(b), NEW n \in 1..ReadableBytes(b)
  PROVE  /\ BufferOK(Retrieve(b, n))
         /\ n \in 1..Len(Contents(b))
         /\ Contents(Retrieve(b, n)) = SubSeq(Contents(b), n + 1, Len(Contents(b)))
<1>1. n \in Nat /\ n <= ReadableBytes(b)
  BY BufferTypes
<1>2. RetrieveAsserts(b, n)
  BY <1>1 DEF RetrieveAsserts
<1>3. Len(Contents(b)) = ReadableBytes(b)
  BY ContentsProperties
<1> QED BY <1>1, <1>2, <1>3, RetrieveProperties

\* More is behind what is under way already.
LEMMA Arrives ==
  ASSUME stream \in Seq(Bytes), sent \in 0..Len(requests), PeerSends,
         requests \in Seq(Requests)
  PROVE  /\ stream' \in Seq(Bytes)
         /\ Len(stream) < Len(stream')
         /\ stream = SubSeq(stream', 1, Len(stream))
<1> DEFINE e == RequestBytes(requests[sent + 1])
<1>1. requests[sent + 1] \in Requests
  <2>1. Len(requests) \in Nat
    BY LenProperties
  <2>2. sent + 1 \in 1..Len(requests)
    BY <2>1 DEF PeerSends
  <2> QED BY <2>2, ElementOfSeq
<1>2. e \in Seq(Bytes) /\ Len(e) # 0
  BY <1>1, RequestsAssumption
<1>3. stream' = stream \o e
  BY DEF PeerSends
<1> HIDE DEF e
<1>4. Len(stream) \in Nat /\ Len(e) \in Nat
  BY <1>2, LenProperties
<1>5. stream \o e \in Seq(Bytes) /\ Len(stream \o e) = Len(stream) + Len(e)
  BY <1>2, ConcatProperties
<1>6. stream = SubSeq(stream \o e, 1, Len(stream))
  <2>1. CASE Len(stream) = 0
    <3>1. stream = <<>>
      BY <2>1, EmptySeq
    <3>2. SubSeq(stream \o e, 1, 0) = <<>>
      BY <1>5, SubSeqEmpty
    <3> QED BY <2>1, <3>1, <3>2
  <2>2. CASE Len(stream) # 0
    <3>1. 1 \in 1..Len(stream) /\ Len(stream) \in 1..Len(stream)
      BY <1>4, <2>2, SeqDef
    <3>2. SubSeq(stream \o e, 1, Len(stream)) = SubSeq(stream, 1, Len(stream))
      BY <1>2, <3>1, SubSeqOfConcat1
    <3> QED BY <3>2, SubSeqFull
  <2> QED BY <2>1, <2>2, SeqDef
<1> QED BY <1>2, <1>3, <1>4, <1>5, <1>6

\* readFd() of the first n bytes.
LEMMA Reads ==
  ASSUME stream \in Seq(Bytes), BufferOK(buf), NEW n \in 1..Len(stream),
         HandleRead(n)
  PROVE  /\ stream' \in Seq(Bytes)
         /\ BufferOK(buf')
         /\ Contents(buf') = Contents(buf) \o SubSeq(stream, 1, n)
<1>1. Len(stream) \in Nat
  BY LenProperties
<1>2. n \in Int /\ n <= Len(stream) /\ n + 1 \in Nat \ {0}
      /\ Len(stream) \in Int /\ Len(stream) <= Len(stream)
  BY <1>1
<1>3. SubSeq(stream, 1, n) \in Seq(Bytes)
  BY <1>2, SubSeqTyped
<1>4. SubSeq(stream, n + 1, Len(stream)) \in Seq(Bytes)
  BY <1>2, SubSeqTyped
<1> QED BY <1>3, <1>4, ReadFdProperties DEF HandleRead

\* What the readable bytes of b may be after a call.
Becomes(b, c) ==
    \/ c = Contents(b)
    \/ \E n \in 1..Len(Contents(b)) : c = SubSeq(Contents(b), n + 1, Len(Contents(b)))
    \/ \E d \in Data : c = Contents(b) \o d \/ c = d \o Contents(b)

\* The calls of an application.
LEMMA AppCalls ==
  ASSUME BufferOK(buf), App
  PROVE  \E b : CallsBuffer(b) /\ BufferOK(b) /\ Becomes(buf, Contents(b))
<1>1. ASSUME NEW n \in 1..ReadableBytes(buf), AppRetrieves(n)
      PROVE  \E b : CallsBuffer(b) /\ BufferOK(b) /\ Becomes(buf, Contents(b))
  <2>1. /\ BufferOK(Retrieve(buf, n))
        /\ Becomes(buf, Contents(Retrieve(buf, n)))
    BY Retrieved DEF Becomes
  <2> QED BY <1>1, <2>1 DEF AppRetrieves
<1>2. CASE AppRetrievesAll
  <2> DEFINE c == Contents(buf)
  <2>1. BufferOK(RetrieveAll(buf)) /\ Contents(RetrieveAll(buf)) = <<>>
    BY RetrieveAllProperties
  <2>2. Len(c) \in Nat /\ c \in Seq(Bytes)
    BY ContentsProperties, BufferTypes
  <2>3. CASE Len(c) = 0
    <3>1. c = <<>>
      BY <2>2, <2>3, EmptySeq
    <3> QED BY <1>2, <2>1, <3>1 DEF AppRetrievesAll, Becomes
  <2>4. CASE Len(c) # 0
    <3> HIDE DEF c
    <3>1. /\ Len(c) \in 1..Len(c) /\ Len(c) \in Int
          /\ Len(c) + 1 \in Int /\ Len(c) < Len(c) + 1
      BY <2>2, <2>4
    <3>2. SubSeq(c, Len(c) + 1, Len(c)) = <<>>
      BY <3>1, SubSeqEmpty
    <3>3. Becomes(buf, Contents(RetrieveAll(buf)))
      BY <2>1, <3>1, <3>2 DEF Becomes, c
    <3> QED BY <1>2, <2>1, <3>3 DEF AppRetrievesAll
  <2> QED BY <2>3, <2>4
<1>3. ASSUME NEW d \in Data, AppAppends(d)
      PROVE  \E b : CallsBuffer(b) /\ BufferOK(b) /\ Becomes(buf, Contents(b))
  <2>1. d \in Seq(Bytes)
    BY ApplicationAssumption
  <2>2. /\ BufferOK(AppendBytes(buf, d))
        /\ Becomes(buf, Contents(AppendBytes(buf, d)))
    BY <2>1, AppendBytesProperties DEF Becomes
  <2> QED BY <1>3, <2>2 DEF AppAppends
<1>4. ASSUME NEW d \in Data, AppPrepends(d)
      PROVE  \E b : CallsBuffer(b) /\ BufferOK(b) /\ Becomes(buf, Contents(b))
  <2>1. d \in Seq(Bytes) /\ PrependAsserts(buf, d)
    BY <1>4, ApplicationAssumption DEF AppPrepends
  <2>2. BufferOK(Prepend(buf, d)) /\ Becomes(buf, Contents(Prepend(buf, d)))
    BY <2>1, PrependProperties DEF Becomes
  <2> QED BY <1>4, <2>2 DEF AppPrepends
<1>5. ASSUME NEW n \in Reserves, AppEnsures(n) \/ AppShrinks(n)
      PROVE  \E b : CallsBuffer(b) /\ BufferOK(b) /\ Becomes(buf, Contents(b))
  <2>1. n \in Nat
    BY ApplicationAssumption
  <2>2. /\ BufferOK(EnsureWritableBytes(buf, n))
        /\ Becomes(buf, Contents(EnsureWritableBytes(buf, n)))
    BY <2>1, EnsureProperties DEF Becomes
  <2>3. BufferOK(Shrink(buf, n)) /\ Becomes(buf, Contents(Shrink(buf, n)))
    BY <2>1, ShrinkProperties DEF Becomes
  <2> QED BY <1>5, <2>2, <2>3 DEF AppEnsures, AppShrinks
<1> QED BY <1>1, <1>2, <1>3, <1>4, <1>5 DEF App

-----------------------------------------------------------------------------
(* Answers.                                                                *)

LEMMA ResponseTyped ==
  ASSUME NEW request
  PROVE  Response(request) \in Responses
<1>1. HasBody(request) \in BOOLEAN
  BY DEF HasBody
<1>2. CloseAfter(request) \in BOOLEAN
  BY DEF CloseAfter
<1>3. StatusOf(request) \in {200, 400, 404}
  BY DEF StatusOf
<1> HIDE DEF HasBody, CloseAfter, StatusOf
<1> QED BY <1>1, <1>2, <1>3 DEF Response, Responses, Versions

LEMMA SendTyped ==
  ASSUME answers \in Seq(Responses), NEW response \in Responses, Send(response)
  PROVE  answers' \in Seq(Responses)
<1>1. Append(answers, response) \in Seq(Responses)
  BY AppendProperties
<1> QED BY <1>1 DEF Send

-----------------------------------------------------------------------------
(* The actions on the input buffer: what holds of it before, after.        *)

LEMMA Parses ==
  ASSUME IInv, Parse
  PROVE  /\ BufferOK(buf') /\ ParserOK(parser')
         /\ Becomes(buf, Contents(buf'))
<1> DEFINE r == ParseRound(parser, buf)
<1>1. parser' = r.parser /\ buf' = r.buffer
  BY DEF Parse
<1>2. BufferOK(buf) /\ ParserOK(parser) /\ Parsing(parser)
  BY DEF IInv, TypeOK, Parse
<1>3. /\ r.buffer = buf \/ \E n \in 1..ReadableBytes(buf) : r.buffer = Retrieve(buf, n)
      /\ ParserOK(r.parser)
  BY <1>2, ParseRoundProperties
<1> HIDE DEF r
<1>4. CASE buf' = buf
  BY <1>1, <1>2, <1>3, <1>4 DEF Becomes
<1>5. ASSUME NEW n \in 1..ReadableBytes(buf), buf' = Retrieve(buf, n)
      PROVE  BufferOK(buf') /\ Becomes(buf, Contents(buf'))
  BY <1>2, <1>5, Retrieved DEF Becomes
<1> QED BY <1>1, <1>3, <1>4, <1>5

-----------------------------------------------------------------------------
(* The inductive invariant.                                                *)

LEMMA Initially == Init => IInv
<1> SUFFICES ASSUME Init PROVE IInv
  OBVIOUS
<1>1. BufferOK(buf)
  BY BufferSizesAssumption, NewBufferProperties DEF Init
<1>2. ParserOK(parser)
  BY DEF Init, NewParser, ParserOK, ParserStates
<1>3. requests \in Seq(Requests) /\ Len(requests) \in Nat
  <2>1. PICK n \in 1..MaxRequests : requests \in [1..n -> Requests]
    BY DEF Init
  <2>2. n \in Nat
    BY RequestBoundsAssumption
  <2>3. requests \in Seq(Requests)
    BY <2>1, <2>2, SeqDef
  <2> QED BY <2>3, LenProperties
<1>4. stream \in Seq(Bytes) /\ answers \in Seq(Responses)
  BY EmptySeq DEF Init
<1>5. sent \in 0..Len(requests) /\ calls \in 0..MaxCalls
  BY <1>3, RequestBoundsAssumption DEF Init
<1> QED BY <1>1, <1>2, <1>3, <1>4, <1>5 DEF Init, IInv, TypeOK, ParserOK

LEMMA Inductive == IInv /\ [Next]_vars => IInv'
<1> SUFFICES ASSUME IInv, [Next]_vars PROVE IInv'
  OBVIOUS
<1>0. /\ stream \in Seq(Bytes) /\ BufferOK(buf) /\ ParserOK(parser)
      /\ requests \in Seq(Requests) /\ Len(requests) \in Nat
      /\ sent \in 0..Len(requests) /\ calls \in 0..MaxCalls
      /\ answers \in Seq(Responses) /\ MaxCalls \in Nat
  BY LenProperties, RequestBoundsAssumption DEF IInv, TypeOK
<1> USE <1>0
<1>1. CASE PeerSends
  <2>1. stream' \in Seq(Bytes)
    BY <1>1, Arrives DEF PeerSends
  <2>2. sent' \in 0..Len(requests)
    BY <1>1 DEF PeerSends
  <2> QED BY <1>1, <2>1, <2>2 DEF PeerSends, peerVars, IInv, TypeOK
<1>2. CASE PeerCloses
  BY <1>2 DEF PeerCloses, peerVars, IInv, TypeOK
<1>3. ASSUME NEW n \in 1..Len(stream), HandleRead(n)
      PROVE  IInv'
  <2>1. stream' \in Seq(Bytes) /\ BufferOK(buf')
    BY <1>3, Reads DEF HandleRead
  <2>2. ParserOK(parser') /\ parser'.state \in ParserStates
        /\ parser'.ok \in BOOLEAN /\ parser'.hasMore \in BOOLEAN
    BY <1>3 DEF HandleRead, NewParser, ParserOK, ParserStates
  <2> QED BY <1>3, <2>1, <2>2 DEF HandleRead, peerVars, IInv, TypeOK
<1>4. CASE HandleClose
  BY <1>4 DEF HandleClose, peerVars, IInv, TypeOK
<1>5. CASE Parse
  <2>1. BufferOK(buf') /\ ParserOK(parser')
    BY <1>5, Parses
  <2>2. parser'.state \in ParserStates
        /\ parser'.ok \in BOOLEAN /\ parser'.hasMore \in BOOLEAN
    BY <2>1 DEF ParserOK
  <2> QED BY <1>5, <2>1, <2>2 DEF Parse, peerVars, IInv, TypeOK
<1>6. CASE BadRequest
  <2>1. answers' \in Seq(Responses)
    <3>1. BadResponse \in Responses
      BY DEF BadResponse, Responses, Versions
    <3>2. Send(BadResponse)
      BY <1>6 DEF BadRequest
    <3>3. answers \in Seq(Responses)
      BY DEF IInv, TypeOK
    <3> QED BY <3>1, <3>2, <3>3, SendTyped
  <2> QED BY <1>6, <2>1 DEF BadRequest, Shutdown, peerVars, IInv, TypeOK
<1>7. CASE ReplyRequest
  <2>1. answers' \in Seq(Responses)
    BY <1>7, ResponseTyped, SendTyped DEF ReplyRequest
  <2>2. state' \in {"kConnected", "kDisconnecting", "kDisconnected"}
    BY <1>7 DEF ReplyRequest, Shutdown, peerVars, IInv, TypeOK
  <2> QED BY <1>7, <2>1, <2>2 DEF ReplyRequest, peerVars, IInv, TypeOK
<1>8. CASE AppReturns
  BY <1>8 DEF AppReturns, peerVars, IInv, TypeOK
<1>9. ASSUME NEW b, BufferOK(b), CallsBuffer(b)
      PROVE  IInv'
  <2>1. calls' \in 0..MaxCalls
    BY <1>9 DEF CallsBuffer
  <2> QED BY <1>9, <2>1 DEF CallsBuffer, peerVars, IInv, TypeOK
<1>10. CASE App
  BY <1>9, <1>10, AppCalls
<1>11. CASE UNCHANGED vars
  BY <1>11 DEF vars, peerVars, IInv, TypeOK
<1> QED
  BY <1>1, <1>2, <1>3, <1>4, <1>5, <1>6, <1>7, <1>8, <1>10, <1>11
  DEF Next, Loop, OnMessage

\* TypeOK always holds (module HttpServer): with it the input buffer's indices
\* stay in their places, 0 <= readerIndex_ <= writerIndex_ <= size, however
\* the stream is cut and whatever an application calls.
THEOREM TypeCorrect == Spec => []TypeOK
<1>1. IInv => TypeOK
  BY DEF IInv
<1> QED BY <1>1, Initially, Inductive, PTL DEF Spec

-----------------------------------------------------------------------------
(* The refinement.                                                         *)

\* The input buffer is a queue of bytes: what is read or appended comes out
\* once, in its order, behind what was there (Buffer and its callers).
THEOREM BufferImplementsByteQueue == Spec => ImplementsByteQueue
<1>1. Init => Q!Init
  <2>1. Init => Contents(buf) = <<>>
    BY BufferSizesAssumption, NewBufferProperties DEF Init
  <2> QED BY <2>1 DEF Init, Q!Init
<1>2. IInv /\ [Next]_vars => [Q!Next]_<<stream, Contents(buf)>>
  <2> SUFFICES ASSUME IInv, [Next]_vars
               PROVE  Q!Next \/ UNCHANGED <<stream, Contents(buf)>>
    OBVIOUS
  <2>0. stream \in Seq(Bytes) /\ BufferOK(buf)
    BY DEF IInv, TypeOK
  <2>1. CASE PeerSends
    BY <2>0, <2>1, Arrives DEF PeerSends, Q!Next, Q!Arrive, IInv, TypeOK
  <2>2. CASE PeerCloses \/ HandleClose \/ BadRequest \/ ReplyRequest \/ AppReturns
    BY <2>2 DEF PeerCloses, HandleClose, BadRequest, ReplyRequest, AppReturns, peerVars
  <2>3. ASSUME NEW n \in 1..Len(stream), HandleRead(n)
        PROVE  Q!Next
    <3>1. Contents(buf)' = Contents(buf) \o SubSeq(stream, 1, n)
      BY <2>0, <2>3, Reads DEF HandleRead
    <3>2. Q!ReadFd(n)
      BY <2>3, <3>1 DEF HandleRead, Q!ReadFd
    <3> QED BY <3>2 DEF Q!Next
  <2>4. CASE Parse \/ App
    <3>1. UNCHANGED stream
      BY <2>0, <2>4, AppCalls DEF Parse, CallsBuffer, peerVars
    <3>2. Becomes(buf, Contents(buf'))
      BY <2>0, <2>4, AppCalls, Parses DEF CallsBuffer
    <3>3. Contents(buf)' = Contents(buf')
      BY DEF Contents
    <3> QED BY <3>1, <3>2, <3>3 DEF Becomes, Q!Next, Q!Retrieve, Q!Put, Q!Prepend
  <2>5. CASE UNCHANGED vars
    BY <2>5 DEF vars, peerVars
  <2> QED
    BY <2>1, <2>2, <2>3, <2>4, <2>5 DEF Next, Loop, OnMessage
<1>3. Spec => []IInv
  BY Initially, Inductive, PTL DEF Spec
<1> QED BY <1>1, <1>2, <1>3, PTL DEF Spec, ImplementsByteQueue, Q!Spec

-----------------------------------------------------------------------------
(* Words of a line.                                                        *)

NoCR(l) == \A i \in DOMAIN l : l[i] # "CR"

\* Bytes behind bytes.
LEMMA BytesConcat ==
  ASSUME NEW c \in Seq(Bytes), NEW d \in Seq(Bytes)
  PROVE  /\ c \o d \in Seq(Bytes)
         /\ Len(c) \in Nat /\ Len(d) \in Nat /\ Len(c \o d) = Len(c) + Len(d)
         /\ \A i \in 1..Len(c) : (c \o d)[i] = c[i]
         /\ \A i \in 1..Len(d) : (c \o d)[Len(c) + i] = d[i]
OBVIOUS

LEMMA WordTypes == /\ "SP" \in Bytes /\ "CR" \in Bytes /\ "LF" \in Bytes
                   /\ CRLF \in Seq(Bytes) /\ Len(CRLF) = 2
                   /\ CRLF[1] = "CR" /\ CRLF[2] = "LF"
BY WordsAssumption DEF CRLF

\* The first w of a line that has nothing but other words before it.
LEMMA AtIs ==
  ASSUME NEW E, NEW l \in Seq(E), NEW w, NEW i \in 1..Len(l), l[i] = w,
         \A j \in 1..(i - 1) : l[j] # w
  PROVE  At(l, w) = i
<1> DEFINE found == {j \in DOMAIN l : l[j] = w}
<1>0. Len(l) \in Nat /\ DOMAIN l = 1..Len(l)
  OBVIOUS
<1>1. i \in found /\ found \subseteq Nat
  BY <1>0
<1>2. \A j \in found : i <= j
  BY <1>0
<1>3. At(l, w) = IF found = {} THEN Len(l) + 1
                 ELSE CHOOSE k \in found : \A j \in found : k <= j
  BY DEF At
<1> HIDE DEF found
<1>4. \A k \in found : (\A j \in found : k <= j) => k = i
  BY <1>0, <1>1, <1>2
<1>5. At(l, w) = CHOOSE k \in found : \A j \in found : k <= j
  BY <1>1, <1>3
<1> DEFINE P(k) == k \in found /\ \A j \in found : k <= j
<1>6. P(i)
  BY <1>1, <1>2
<1>7. At(l, w) = CHOOSE k : P(k)
  BY <1>5
<1> HIDE DEF P
<1>8. P(CHOOSE k : P(k))
  BY <1>6, Zenon
<1> QED BY <1>4, <1>7, <1>8 DEF P

\* A line without w.
LEMMA AtNone ==
  ASSUME NEW E, NEW l \in Seq(E), NEW w, \A j \in 1..Len(l) : l[j] # w
  PROVE  At(l, w) = Len(l) + 1
<1>1. {j \in DOMAIN l : l[j] = w} = {}
  OBVIOUS
<1> QED BY <1>1 DEF At

\* It is always within the line or behind it.
LEMMA AtTyped ==
  ASSUME NEW E, NEW l \in Seq(E), NEW w
  PROVE  /\ At(l, w) \in 1..(Len(l) + 1)
         /\ Has(l, w) => l[At(l, w)] = w /\ \A j \in 1..(At(l, w) - 1) : l[j] # w
<1>0. Len(l) \in Nat
  OBVIOUS
<1>1. CASE \A j \in 1..Len(l) : l[j] # w
  BY <1>0, <1>1, AtNone DEF Has
<1>2. CASE \E j \in 1..Len(l) : l[j] = w
  <2> DEFINE T == {j \in Nat : j \in 1..Len(l) /\ l[j] = w}
  <2>1. PICK i \in T : \A j \in T : i <= j
    <3>1. T # {} /\ T \subseteq Nat
      BY <1>2
    <3> HIDE DEF T
    <3> QED BY <3>1, Smallest
  <2>2. i \in 1..Len(l) /\ l[i] = w /\ \A j \in 1..(i - 1) : l[j] # w
    BY <1>0, <2>1
  <2>3. At(l, w) = i
    BY <2>2, AtIs
  <2> QED BY <1>0, <2>2, <2>3
<1> QED BY <1>1, <1>2

\* A line that processRequestLine() takes begins with a method.
LEMMA LineBegins ==
  ASSUME NEW l \in Seq(Bytes), LineOK(l)
  PROVE  l # <<>> /\ l[1] \in Methods
<1> DEFINE a == At(l, "SP")
           s == SubSeq(l, 1, a - 1)
<1>1. a \in 1..(Len(l) + 1) /\ Len(l) \in Nat /\ a <= Len(l)
  BY AtTyped DEF LineOK, Has
<1>2. PICK m \in Methods : s = <<m>>
  BY DEF LineOK, Before
<1> HIDE DEF a
<1>3. Len(s) = a - 1 /\ (1 <= a - 1 => s[1] = l[1])
  BY <1>1
<1> HIDE DEF s
<1>4. Len(s) = 1 /\ s[1] = m
  BY <1>2
<1>5. 1 <= a - 1 /\ Len(l) # 0
  <2>1. a - 1 = 1
    BY <1>3, <1>4
  <2> QED BY <1>1, <2>1
<1>6. l[1] = m
  BY <1>3, <1>4, <1>5
<1> QED BY <1>5, <1>6

-----------------------------------------------------------------------------
(* The first line.                                                         *)

\* The first CRLF of a buffer, and what Line and SkipLine make of it.
LEMMA LineProperties ==
  ASSUME NEW b, BufferOK(b), HasLine(b)
  PROVE  LET c == Contents(b)
             f == Find(b, CRLF)
         IN  /\ f \in 1..(Len(c) - 1) /\ c \in Seq(Bytes) /\ Len(c) \in Nat
             /\ c[f] = "CR" /\ c[f + 1] = "LF"
             /\ \A i \in 1..(f - 1) : ~(c[i] = "CR" /\ c[i + 1] = "LF")
             /\ Line(b) = SubSeq(c, 1, f - 1) /\ Line(b) \in Seq(Bytes)
             /\ BufferOK(SkipLine(b))
             /\ Contents(SkipLine(b)) = SubSeq(c, f + 2, Len(c))
<1> DEFINE c  == Contents(b)
           f  == Find(b, CRLF)
           at == {i \in 1..(Len(c) - Len(CRLF) + 1) :
                    SubSeq(c, i, i + Len(CRLF) - 1) = CRLF}
<1>1. c \in Seq(Bytes) /\ Len(c) = ReadableBytes(b) /\ Len(c) \in Nat
  BY ContentsProperties, BufferTypes
<1>2. f + 1 \in 1..Len(c)
  BY <1>1, FindProperties
<1>3. f = IF at = {} THEN 0 ELSE CHOOSE i \in at : \A j \in at : i <= j
  BY DEF Find
<1>4. BufferOK(SkipLine(b)) /\ Contents(SkipLine(b)) = SubSeq(c, (f + 1) + 1, Len(c))
  <2>1. f + 1 \in 1..ReadableBytes(b)
    BY FindProperties
  <2>2. SkipLine(b) = Retrieve(b, f + 1)
    BY DEF SkipLine
  <2> HIDE DEF f
  <2> QED BY <2>1, <2>2, Retrieved
<1>5. Line(b) = SubSeq(c, 1, f - 1)
  BY DEF Line
<1>6. f # 0
  BY DEF HasLine
<1> HIDE DEF c, f
<1>7. at \subseteq Nat /\ \A i \in 1..(Len(c) - 1) : i \in at <=> c[i] = "CR" /\ c[i + 1] = "LF"
  <2>1. at = {i \in 1..(Len(c) - 1) : SubSeq(c, i, i + 1) = CRLF}
    <3>2. at = {i \in 1..(Len(c) - 2 + 1) : SubSeq(c, i, i + 2 - 1) = CRLF}
      BY WordTypes
    <3>3. Len(c) - 2 + 1 = Len(c) - 1
      BY <1>1
    <3>4. \A i \in 1..(Len(c) - 1) : i + 2 - 1 = i + 1
      BY <1>1
    <3>5. at = {i \in 1..(Len(c) - 1) : SubSeq(c, i, i + 2 - 1) = CRLF}
      BY <3>2, <3>3
    <3> HIDE DEF at
    <3> QED BY <3>4, <3>5
  <2>2. ASSUME NEW i \in 1..(Len(c) - 1)
        PROVE  SubSeq(c, i, i + 1) = CRLF <=> c[i] = "CR" /\ c[i + 1] = "LF"
    <3> DEFINE s == SubSeq(c, i, i + 1)
    <3>1. s \in Seq(Bytes) /\ Len(s) = 2 /\ s[1] = c[i] /\ s[2] = c[i + 1]
      BY <1>1
    <3> HIDE DEF s
    <3>2. s = CRLF <=> s[1] = "CR" /\ s[2] = "LF"
      BY <3>1 DEF CRLF
    <3> QED BY <3>1, <3>2 DEF s
  <2> HIDE DEF at
  <2>3. 1..(Len(c) - 1) \subseteq Nat
    BY <1>1
  <2> QED BY <2>1, <2>2, <2>3
<1> HIDE DEF at
<1>8. at # {}
  BY <1>3, <1>6
<1>9. PICK m \in at : \A j \in at : m <= j
  BY <1>7, <1>8, Smallest
<1> DEFINE P(k) == k \in at /\ \A j \in at : k <= j
<1>10. P(m)
  BY <1>9
<1>11. f = CHOOSE k : P(k)
  BY <1>3, <1>8
<1>12. f \in at /\ \A j \in at : f <= j
  <2> HIDE DEF P
  <2>1. P(CHOOSE k : P(k))
    BY <1>10, Zenon
  <2> QED BY <1>11, <2>1 DEF P
<1>13. f \in 1..(Len(c) - 1)
  BY <1>1, <1>2, <1>6, <1>7, <1>12
<1>14. ASSUME NEW i \in 1..(f - 1) PROVE ~(c[i] = "CR" /\ c[i + 1] = "LF")
  <2>1. i \in 1..(Len(c) - 1) /\ ~(f <= i)
    BY <1>1, <1>13
  <2>2. i \notin at
    BY <1>12, <2>1
  <2> QED BY <1>7, <2>1, <2>2
<1>15. (f + 1) + 1 = f + 2
  BY <1>13
<1>16. SubSeq(c, 1, f - 1) \in Seq(Bytes)
  BY <1>1, <1>13
<1> QED BY <1>1, <1>4, <1>5, <1>7, <1>12, <1>13, <1>14, <1>15, <1>16 DEF c, f

-----------------------------------------------------------------------------
(* The stream of requests.                                                 *)

\* A line and its end, and v behind them.
Starts(u, l, v) == u = l \o (CRLF \o v)

\* The first line of a buffer, when w is still under way.
LEMMA FirstLine ==
  ASSUME NEW b, BufferOK(b), HasLine(b), NEW w \in Seq(Bytes),
         NEW l \in Seq(Bytes), NoCR(l), NEW v \in Seq(Bytes),
         Starts(Contents(b) \o w, l, v)
  PROVE  /\ Line(b) = l
         /\ BufferOK(SkipLine(b)) /\ Contents(SkipLine(b)) \o w = v
<1> DEFINE c == Contents(b)
           f == Find(b, CRLF)
           n == Len(l)
           u == c \o w
           d == SubSeq(c, f + 2, Len(c))
<1>1. /\ f \in 1..(Len(c) - 1) /\ c \in Seq(Bytes) /\ Len(c) \in Nat
      /\ c[f] = "CR" /\ c[f + 1] = "LF"
      /\ \A i \in 1..(f - 1) : ~(c[i] = "CR" /\ c[i + 1] = "LF")
      /\ Line(b) = SubSeq(c, 1, f - 1)
      /\ BufferOK(SkipLine(b)) /\ Contents(SkipLine(b)) = d
  BY LineProperties
<1> HIDE DEF f
<1>2. u = l \o (CRLF \o v)
  BY DEF Starts
<1> HIDE DEF c
<1>3. n \in Nat /\ Len(w) \in Nat /\ Len(v) \in Nat
  OBVIOUS
<1>4. /\ u \in Seq(Bytes) /\ Len(u) = Len(c) + Len(w)
      /\ \A i \in 1..Len(c) : u[i] = c[i]
      /\ \A i \in 1..Len(w) : u[Len(c) + i] = w[i]
  BY <1>1
<1>5. /\ Len(u) = n + 2 + Len(v)
      /\ \A i \in 1..n : u[i] = l[i]
      /\ u[n + 1] = "CR" /\ u[n + 2] = "LF"
      /\ \A i \in 1..Len(v) : u[n + 2 + i] = v[i]
  <2> DEFINE x == CRLF \o v
  <2>1. /\ x \in Seq(Bytes) /\ Len(x) = 2 + Len(v) /\ x[1] = "CR" /\ x[2] = "LF"
        /\ \A i \in 1..Len(v) : x[2 + i] = v[i]
    <3>1. /\ CRLF \in Seq(Bytes) /\ Len(CRLF) = 2 /\ CRLF[1] = "CR" /\ CRLF[2] = "LF"
          /\ 1 \in 1..Len(CRLF) /\ 2 \in 1..Len(CRLF)
      BY WordTypes
    <3>2. /\ x \in Seq(Bytes) /\ Len(x) = Len(CRLF) + Len(v)
          /\ \A i \in 1..Len(CRLF) : x[i] = CRLF[i]
          /\ \A i \in 1..Len(v) : x[Len(CRLF) + i] = v[i]
      BY <3>1, BytesConcat
    <3> HIDE DEF x
    <3> QED BY <3>1, <3>2
  <2> HIDE DEF x
  <2>2. /\ Len(l \o x) = n + Len(x)
        /\ \A i \in 1..n : (l \o x)[i] = l[i]
        /\ \A i \in 1..Len(x) : (l \o x)[n + i] = x[i]
    BY <2>1, BytesConcat DEF n
  <2>3. u = l \o x
    BY <1>2 DEF x
  <2>4. /\ 1 \in 1..Len(x) /\ 2 \in 1..Len(x)
        /\ \A i \in 1..Len(v) : 2 + i \in 1..Len(x) /\ n + (2 + i) = n + 2 + i
    BY <1>3, <2>1
  <2> HIDE DEF u
  <2>5. ASSUME NEW i \in 1..Len(v) PROVE u[n + 2 + i] = v[i]
    <3>1. u[n + (2 + i)] = x[2 + i] /\ x[2 + i] = v[i]
      BY <2>1, <2>2, <2>3, <2>4
    <3> QED BY <2>4, <3>1
  <2>6. Len(u) = n + 2 + Len(v)
    BY <1>3, <2>1, <2>2, <2>3
  <2>7. u[n + 1] = "CR" /\ u[n + 2] = "LF"
    BY <2>1, <2>2, <2>3, <2>4
  <2> QED BY <2>2, <2>3, <2>5, <2>6, <2>7
<1> HIDE DEF u, n
<1>6. f = n + 1
  <2>1. ~(f <= n)
    <3> SUFFICES ASSUME f <= n PROVE FALSE
      OBVIOUS
    <3>1. f \in 1..n /\ f \in 1..Len(c) /\ f \in DOMAIN l
      BY <1>1, <1>3 DEF n
    <3>2. l[f] = "CR"
      BY <1>1, <1>4, <1>5, <3>1
    <3> QED BY <3>1, <3>2 DEF NoCR
  <2>2. ~(n + 1 < f)
    <3> SUFFICES ASSUME n + 1 < f PROVE FALSE
      OBVIOUS
    <3>1. n + 1 \in 1..(f - 1) /\ n + 1 \in 1..Len(c) /\ n + 2 \in 1..Len(c)
          /\ (n + 1) + 1 = n + 2
      BY <1>1, <1>3
    <3>2. c[n + 1] = "CR" /\ c[n + 2] = "LF"
      BY <1>4, <1>5, <3>1
    <3> QED BY <1>1, <3>1, <3>2
  <2> QED BY <1>1, <1>3, <2>1, <2>2
<1>7. Line(b) = l
  <2> DEFINE s == SubSeq(c, 1, f - 1)
  <2>1. s \in Seq(Bytes) /\ Len(s) = n /\ \A i \in 1..n : s[i] = c[i] /\ i \in 1..Len(c)
    BY <1>1, <1>3, <1>6
  <2> HIDE DEF s
  <2>2. \A i \in 1..n : s[i] = l[i]
    BY <1>4, <1>5, <2>1
  <2>3. s = l
    BY <2>1, <2>2, SeqEqual DEF n
  <2> QED BY <1>1, <2>3 DEF s
<1>8. /\ d \in Seq(Bytes) /\ Len(d) = Len(c) - n - 2 /\ n + 2 <= Len(c)
      /\ \A i \in 1..Len(d) : d[i] = c[n + 2 + i]
  BY <1>1, <1>3, <1>6
<1> HIDE DEF d
<1>9. d \o w = v
  <2> DEFINE x == d \o w
  <2>1. /\ x \in Seq(Bytes) /\ Len(x) = Len(d) + Len(w)
        /\ \A i \in 1..Len(d) : x[i] = d[i]
        /\ \A i \in 1..Len(w) : x[Len(d) + i] = w[i]
    BY <1>8, BytesConcat
  <2> HIDE DEF x
  <2>2. Len(x) = Len(v)
    <3>1. Len(c) + Len(w) = n + 2 + Len(v) /\ Len(d) = Len(c) - n - 2
      BY <1>4, <1>5, <1>8
    <3> QED BY <1>1, <1>3, <2>1, <3>1
  <2>3. ASSUME NEW i \in 1..Len(v) PROVE x[i] = v[i]
    <3>0. i \in Nat /\ 1 <= i /\ i <= Len(v) /\ Len(d) \in Nat /\ u[n + 2 + i] = v[i]
      BY <1>1, <1>3, <1>5, <1>8
    <3>1. CASE i <= Len(d)
      <4>1. i \in 1..Len(d) /\ n + 2 + i \in 1..Len(c)
        BY <1>1, <1>3, <1>8, <3>0, <3>1
      <4> QED BY <1>4, <1>8, <2>1, <3>0, <4>1
    <3>2. CASE ~(i <= Len(d))
      <4> DEFINE k == i - Len(d)
      <4>1. k \in 1..Len(w) /\ i = Len(d) + k /\ n + 2 + i = Len(c) + k
        BY <1>1, <1>3, <1>8, <2>1, <2>2, <3>0, <3>2
      <4> HIDE DEF k
      <4> QED BY <1>4, <2>1, <3>0, <4>1
    <3> QED BY <3>1, <3>2
  <2>4. x = v
    BY <2>1, <2>2, <2>3, SeqEqual
  <2> QED BY <2>4 DEF x
<1> QED BY <1>1, <1>7, <1>9

\* What no request line begins: the word is no method, or the line no request line.
Stuck(u) ==
    /\ u # <<>>
    /\ \/ u[1] \notin Methods
       \/ \E l, v \in Seq(Bytes) : NoCR(l) /\ ~LineOK(l) /\ Starts(u, l, v)

\* It is not taken for a request.
LEMMA StuckFails ==
  ASSUME NEW b, BufferOK(b), HasLine(b), NEW w \in Seq(Bytes), Stuck(Contents(b) \o w)
  PROVE  ~LineOK(Line(b))
<1> DEFINE c == Contents(b)
           u == c \o w
<1>1. CASE \E l, v \in Seq(Bytes) : NoCR(l) /\ ~LineOK(l) /\ Starts(u, l, v)
  <2>1. PICK l \in Seq(Bytes), v \in Seq(Bytes) :
           NoCR(l) /\ ~LineOK(l) /\ Starts(u, l, v)
    BY <1>1
  <2>2. Starts(Contents(b) \o w, l, v)
    BY <2>1
  <2> HIDE DEF u, c
  <2>3. l \in Seq(Bytes) /\ v \in Seq(Bytes) /\ NoCR(l)
    BY <2>1
  <2>4. Line(b) = l
    BY <2>2, <2>3, FirstLine
  <2> QED BY <2>1, <2>4
<1>2. CASE u[1] \notin Methods
  <2> DEFINE f == Find(b, CRLF)
  <2>1. /\ f \in 1..(Len(c) - 1) /\ c \in Seq(Bytes) /\ Len(c) \in Nat
        /\ Line(b) = SubSeq(c, 1, f - 1) /\ Line(b) \in Seq(Bytes)
    BY LineProperties
  <2> HIDE DEF c, f
  <2>2. u[1] = c[1]
    BY <2>1
  <2>3. ASSUME LineOK(Line(b)) PROVE FALSE
    <3>1. Line(b) # <<>> /\ Line(b)[1] \in Methods
      BY <2>1, <2>3, LineBegins
    <3>2. Line(b)[1] = c[1]
      BY <2>1, <3>1
    <3> HIDE DEF u
    <3> QED BY <1>2, <2>2, <3>1, <3>2
  <2> QED BY <2>3
<1> QED BY <1>1, <1>2 DEF Stuck

\* More behind a line and what follows it.
LEMMA StartsMore ==
  ASSUME NEW u, NEW l \in Seq(Bytes), NEW v \in Seq(Bytes), NEW x \in Seq(Bytes),
         Starts(u, l, v)
  PROVE  Starts(u \o x, l, v \o x)
<1> DEFINE e == CRLF
<1>1. e \in Seq(Bytes)
  BY WordTypes
<1> HIDE DEF e
<1>2. Join(e, v) \in Seq(Bytes) /\ Join(Join(e, v), x) = Join(e, Join(v, x))
  BY <1>1, JoinAssociative
<1>3. Join(Join(l, Join(e, v)), x) = Join(l, Join(Join(e, v), x))
  BY <1>2, JoinAssociative
<1> QED BY <1>2, <1>3 DEF Starts, Join, e

\* It stays so whatever comes behind it.
LEMMA StuckStays ==
  ASSUME NEW u \in Seq(Bytes), NEW v \in Seq(Bytes), Stuck(u)
  PROVE  Stuck(u \o v)
<1>1. /\ u \o v \in Seq(Bytes) /\ u \o v # <<>> /\ (u \o v)[1] = u[1]
  BY DEF Stuck
<1>2. ASSUME NEW l \in Seq(Bytes), NEW x \in Seq(Bytes), Starts(u, l, x)
      PROVE  x \o v \in Seq(Bytes) /\ Starts(u \o v, l, x \o v)
  BY <1>2, StartsMore
<1>3. CASE u[1] \notin Methods
  BY <1>1, <1>3 DEF Stuck
<1>4. ASSUME NEW l \in Seq(Bytes), NEW x \in Seq(Bytes),
             NoCR(l), ~LineOK(l), Starts(u, l, x)
      PROVE  Stuck(u \o v)
  <2>1. x \o v \in Seq(Bytes) /\ Starts(u \o v, l, x \o v)
    BY <1>2, <1>4
  <2> QED BY <1>1, <1>4, <2>1 DEF Stuck
<1> QED BY <1>3, <1>4 DEF Stuck

-----------------------------------------------------------------------------
(* The request line.                                                       *)

RequestLine(r) == <<r.method, "SP", r.path>> \o r.query \o <<"SP", r.version>>

\* Words, none of which ends another.
Words == Bytes \ {"CR", "LF", "SP"}

LEMMA WellFormedIs ==
  ASSUME NEW r, WellFormed(r)
  PROVE  /\ r.method \in Words /\ r.path \in Words /\ r.path # "?" /\ r.version \in Words
         /\ r.query \in Seq(Words) /\ (r.query # <<>> => r.query[1] = "?")
         /\ r.headers \in Seq(Seq(Bytes \ {"CR"}))
         /\ \A h \in Range(r.headers) : h # <<>> /\ ~LineOK(h)
         /\ r.body \in Seq(Bytes) /\ (r.body # <<>> => r.body[1] \notin Methods)
BY DEF WellFormed, Words

\* Its words, one by one.
LEMMA RequestLineWords ==
  ASSUME NEW r, WellFormed(r)
  PROVE  LET l == RequestLine(r)
             q == r.query
         IN  /\ l \in Seq(Bytes) /\ Len(q) \in Nat /\ Len(l) = Len(q) + 5
             /\ l[1] = r.method /\ l[2] = "SP" /\ l[3] = r.path
             /\ \A i \in 1..Len(q) : l[3 + i] = q[i] /\ q[i] \in Words
             /\ l[Len(q) + 4] = "SP" /\ l[Len(q) + 5] = r.version
<1> DEFINE q == r.query
           a == <<r.method, "SP", r.path>>
           z == <<"SP", r.version>>
           l == RequestLine(r)
<1>1. /\ q \in Seq(Bytes) /\ Len(q) \in Nat /\ \A i \in 1..Len(q) : q[i] \in Words
  <2>1. q \in Seq(Words) /\ Words \subseteq Bytes
    BY WellFormedIs DEF Words
  <2> HIDE DEF q
  <2> QED BY <2>1
<1>2. /\ a \in Seq(Bytes) /\ Len(a) = 3
      /\ a[1] = r.method /\ a[2] = "SP" /\ a[3] = r.path
  BY WellFormedIs, WordTypes DEF Words
<1>3. z \in Seq(Bytes) /\ Len(z) = 2 /\ z[1] = "SP" /\ z[2] = r.version
  BY WellFormedIs, WordTypes DEF Words
<1>4. l = a \o q \o z
  BY DEF RequestLine
<1> HIDE DEF a, q, z, l
<1>5. /\ l \in Seq(Bytes) /\ Len(l) = Len(a) + Len(q) + Len(z)
      /\ \A i \in 1..(Len(a) + Len(q) + Len(z)) : l[i] =
            IF i <= Len(a) THEN a[i]
            ELSE IF i <= Len(a) + Len(q) THEN q[i - Len(a)]
            ELSE z[i - (Len(a) + Len(q))]
  <2>1. a \in Seq(Bytes) /\ q \in Seq(Bytes) /\ z \in Seq(Bytes)
    BY <1>1, <1>2, <1>3
  <2> QED BY <1>4, <2>1, ConcatThree
<1>6. /\ Len(l) = Len(q) + 5
      /\ \A i \in 1..(Len(q) + 5) : l[i] =
            IF i <= 3 THEN a[i]
            ELSE IF i <= 3 + Len(q) THEN q[i - 3]
            ELSE z[i - (3 + Len(q))]
  BY <1>1, <1>2, <1>3, <1>5
<1>7. l[1] = r.method /\ l[2] = "SP" /\ l[3] = r.path
  BY <1>1, <1>2, <1>6
<1>8. ASSUME NEW i \in 1..Len(q) PROVE l[3 + i] = q[i]
  <2>1. 3 + i \in 1..(Len(q) + 5) /\ ~(3 + i <= 3) /\ 3 + i <= 3 + Len(q) /\ (3 + i) - 3 = i
    BY <1>1
  <2> QED BY <1>6, <2>1
<1>9. l[Len(q) + 4] = "SP" /\ l[Len(q) + 5] = r.version
  <2>1. /\ Len(q) + 4 \in 1..(Len(q) + 5) /\ ~(Len(q) + 4 <= 3) /\ ~(Len(q) + 4 <= 3 + Len(q))
        /\ (Len(q) + 4) - (3 + Len(q)) = 1
        /\ Len(q) + 5 \in 1..(Len(q) + 5) /\ ~(Len(q) + 5 <= 3) /\ ~(Len(q) + 5 <= 3 + Len(q))
        /\ (Len(q) + 5) - (3 + Len(q)) = 2
    BY <1>1
  <2> QED BY <1>3, <1>6, <2>1
<1> QED BY <1>1, <1>5, <1>6, <1>7, <1>8, <1>9 DEF l, q

\* What is before and behind a word.
LEMMA Splits ==
  ASSUME NEW l \in Seq(Bytes), NEW w, NEW i \in 1..Len(l), l[i] = w,
         \A j \in 1..(i - 1) : l[j] # w
  PROVE  /\ Has(l, w)
         /\ Before(l, w) \in Seq(Bytes) /\ Len(Before(l, w)) = i - 1
         /\ \A j \in 1..(i - 1) : Before(l, w)[j] = l[j]
         /\ Behind(l, w) \in Seq(Bytes) /\ Len(Behind(l, w)) = Len(l) - i
         /\ \A j \in 1..(Len(l) - i) : Behind(l, w)[j] = l[i + j]
<1>1. At(l, w) = i
  BY AtIs
<1>2. Len(l) \in Nat /\ i <= Len(l)
  OBVIOUS
<1>3. /\ SubSeq(l, 1, i - 1) \in Seq(Bytes) /\ Len(SubSeq(l, 1, i - 1)) = i - 1
      /\ \A j \in 1..(i - 1) : SubSeq(l, 1, i - 1)[j] = l[j]
  BY <1>2
<1>4. /\ SubSeq(l, i + 1, Len(l)) \in Seq(Bytes)
      /\ Len(SubSeq(l, i + 1, Len(l))) = Len(l) - i
      /\ \A j \in 1..(Len(l) - i) : SubSeq(l, i + 1, Len(l))[j] = l[i + j]
  BY <1>2
<1> QED BY <1>1, <1>2, <1>3, <1>4 DEF Has, Before, Behind

LEMMA RequestLineProperties ==
  ASSUME NEW r, WellFormed(r)
  PROVE  /\ RequestLine(r) \in Seq(Bytes) /\ NoCR(RequestLine(r))
         /\ LineOK(RequestLine(r)) => r.method \in Methods /\ r.version \in Versions
         /\ RequestOf(RequestLine(r)).path = <<r.path>>
         /\ RequestOf(RequestLine(r)).headers = <<>>
<1> DEFINE l == RequestLine(r)
           q == r.query
           n == Len(q)
<1>0. /\ r.method \in Words /\ r.path \in Words /\ r.path # "?" /\ r.version \in Words
      /\ (q # <<>> => q[1] = "?") /\ "SP" \notin Words /\ "CR" \notin Words
      /\ q \in Seq(Words)
  BY WellFormedIs DEF Words
<1>1. /\ l \in Seq(Bytes) /\ n \in Nat /\ Len(l) = n + 5
      /\ l[1] = r.method /\ l[2] = "SP" /\ l[3] = r.path
      /\ \A i \in 1..n : l[3 + i] = q[i] /\ q[i] \in Words
      /\ l[n + 4] = "SP" /\ l[n + 5] = r.version
  BY RequestLineWords
<1> HIDE DEF l, q
<1>n. n = 0 <=> q = <<>>
  BY <1>0
<1> HIDE DEF n
<1>2. NoCR(l)
  <2> SUFFICES ASSUME NEW i \in 1..(n + 5) PROVE l[i] # "CR"
    BY <1>1 DEF NoCR
  <2>1. CASE i \in 4..(n + 3)
    <3> DEFINE j == i - 3
    <3>1. j \in 1..n /\ 3 + j = i
      BY <1>1, <2>1
    <3> HIDE DEF j
    <3>2. l[3 + j] = q[j] /\ q[j] \in Words
      BY <1>1, <3>1
    <3> QED BY <1>0, <3>1, <3>2
  <2>2. CASE i \in {1, 2, 3, n + 4, n + 5}
    BY <1>0, <1>1, <2>2
  <2> QED BY <1>1, <2>1, <2>2
<1> DEFINE d == Behind(l, "SP")
<1>3. /\ Before(l, "SP") \in Seq(Bytes) /\ Len(Before(l, "SP")) = 1
      /\ Before(l, "SP")[1] = r.method
      /\ d \in Seq(Bytes) /\ Len(d) = n + 3 /\ \A j \in 1..(n + 3) : d[j] = l[2 + j]
  <2> DEFINE k == 2
  <2>1. /\ l \in Seq(Bytes) /\ k \in 1..Len(l) /\ l[k] = "SP"
        /\ \A j \in 1..(k - 1) : l[j] # "SP"
    BY <1>0, <1>1
  <2>2. k = 2
    OBVIOUS
  <2> HIDE DEF k, d
  <2>3. /\ Before(l, "SP") \in Seq(Bytes) /\ Len(Before(l, "SP")) = k - 1
        /\ \A j \in 1..(k - 1) : Before(l, "SP")[j] = l[j]
        /\ d \in Seq(Bytes) /\ Len(d) = Len(l) - k
        /\ \A j \in 1..(Len(l) - k) : d[j] = l[k + j]
    BY <2>1, Splits DEF d
  <2> QED BY <1>1, <2>2, <2>3
<1> HIDE DEF d
<1>4. /\ d[1] = r.path /\ \A i \in 1..n : d[1 + i] = q[i]
      /\ d[n + 2] = "SP" /\ d[n + 3] = r.version
  <2>1. /\ 1 \in 1..(n + 3) /\ n + 2 \in 1..(n + 3) /\ n + 3 \in 1..(n + 3)
        /\ 2 + 1 = 3 /\ 2 + (n + 2) = n + 4 /\ 2 + (n + 3) = n + 5
    BY <1>1
  <2>2. ASSUME NEW i \in 1..n PROVE d[1 + i] = q[i]
    <3>1. 1 + i \in 1..(n + 3) /\ 2 + (1 + i) = 3 + i
      BY <1>1
    <3> QED BY <1>1, <1>3, <3>1
  <2> QED BY <1>1, <1>3, <2>1, <2>2
<1> DEFINE t == Before(d, "SP")
           v == Behind(d, "SP")
<1>5. /\ t \in Seq(Bytes) /\ Len(t) = n + 1 /\ \A j \in 1..(n + 1) : t[j] = d[j]
      /\ v \in Seq(Bytes) /\ Len(v) = 1 /\ v[1] = r.version
  <2> DEFINE k == n + 2
  <2>1. k \in 1..Len(d) /\ k - 1 = n + 1 /\ Len(d) - k = 1 /\ k + 1 = n + 3
    BY <1>1, <1>3
  <2>2. ASSUME NEW j \in 1..(n + 1) PROVE d[j] # "SP"
    <3>1. CASE j = 1
      BY <1>0, <1>4, <3>1
    <3>2. CASE j # 1
      <4> DEFINE m == j - 1
      <4>1. m \in 1..n /\ 1 + m = j
        BY <1>1, <3>2
      <4> HIDE DEF m
      <4>2. d[1 + m] = q[m] /\ q[m] \in Words
        BY <1>1, <1>4, <4>1
      <4> QED BY <1>0, <4>1, <4>2
    <3> QED BY <3>1, <3>2
  <2>3. d \in Seq(Bytes) /\ k \in 1..Len(d) /\ d[k] = "SP" /\ \A j \in 1..(k - 1) : d[j] # "SP"
    <3>1. d[k] = "SP"
      BY <1>4
    <3> HIDE DEF k
    <3> QED BY <1>3, <2>1, <2>2, <3>1
  <2> HIDE DEF k, t, v
  <2>4. /\ t \in Seq(Bytes) /\ Len(t) = k - 1
        /\ \A j \in 1..(k - 1) : t[j] = d[j]
        /\ v \in Seq(Bytes) /\ Len(v) = Len(d) - k
        /\ \A j \in 1..(Len(d) - k) : v[j] = d[k + j]
    BY <2>3, Splits DEF t, v
  <2>5. 1 \in 1..(Len(d) - k)
    BY <2>1
  <2> QED BY <1>4, <2>1, <2>4, <2>5
<1> HIDE DEF t, v
<1>6. ASSUME LineOK(l) PROVE r.method \in Methods /\ r.version \in Versions
  <2>1. PICK m \in Methods : Before(l, "SP") = <<m>>
    BY <1>6 DEF LineOK
  <2>2. PICK w \in Versions : v = <<w>>
    BY <1>6 DEF LineOK, v, d
  <2> QED BY <1>3, <1>5, <2>1, <2>2
<1> DEFINE p == Before(t, "?")
<1>7. p = <<r.path>>
  <2>1. t[1] = r.path /\ t[1] # "?"
    BY <1>0, <1>1, <1>4, <1>5
  <2>2. p \in Seq(Bytes) /\ Len(p) = 1 /\ p[1] = t[1]
    <3>1. CASE n = 0
      <4>1. Len(t) = 1 /\ \A j \in 1..1 : t[j] # "?"
        BY <1>5, <2>1, <3>1
      <4>2. At(t, "?") = 2
        <5>1. t \in Seq(Bytes) /\ \A j \in 1..Len(t) : t[j] # "?"
          BY <1>5, <4>1
        <5>2. At(t, "?") = Len(t) + 1
          BY <5>1, AtNone
        <5> QED BY <4>1, <5>2
      <4>3. p = SubSeq(t, 1, 1)
        BY <4>2 DEF Before
      <4> QED BY <1>5, <4>1, <4>3
    <3>2. CASE n # 0
      <4>1. 1 \in 1..n /\ 1 + 1 = 2 /\ 2 \in 1..(n + 1) /\ 2 \in 1..Len(t)
        BY <1>1, <1>5, <3>2
      <4>2. d[2] = "?"
        <5>1. d[1 + 1] = q[1] /\ q[1] = "?"
          BY <1>0, <1>4, <1>n, <3>2, <4>1
        <5> QED BY <4>1, <5>1
      <4>3. t[2] = "?" /\ \A j \in 1..(2 - 1) : t[j] # "?"
        BY <1>5, <2>1, <4>1, <4>2
      <4> DEFINE k == 2
      <4>4. k = 2
        OBVIOUS
      <4>5. /\ t \in Seq(Bytes) /\ k \in 1..Len(t) /\ t[k] = "?"
            /\ \A j \in 1..(k - 1) : t[j] # "?"
        BY <1>5, <4>1, <4>3
      <4> HIDE DEF k
      <4>6. /\ p \in Seq(Bytes) /\ Len(p) = k - 1 /\ \A j \in 1..(k - 1) : p[j] = t[j]
        BY <4>5, Splits
      <4> HIDE DEF p
      <4> QED BY <4>4, <4>6
    <3> QED BY <3>1, <3>2
  <2> HIDE DEF p
  <2> QED BY <2>1, <2>2
<1>8. RequestOf(l).path = p /\ RequestOf(l).headers = <<>>
  BY DEF RequestOf, NewRequest, p, t, d
<1> QED BY <1>1, <1>2, <1>6, <1>7, <1>8 DEF l

-----------------------------------------------------------------------------
(* Requests as bytes.                                                      *)

\* Headers and what is behind them, and the requests from the i-th to the n-th.
FieldLines(hs) == [i \in DOMAIN hs |-> hs[i] \o CRLF]
Fields(hs, d)  == FlattenSeq(FieldLines(hs)) \o (CRLF \o d)
Rest(rs, i, n) == FlattenSeq([j \in 1..(n - i) |-> RequestBytes(rs[i + j])])

\* A line with its end, and more behind it.
LEMMA LineStarts ==
  ASSUME NEW l \in Seq(Bytes), NEW f \in Seq(Bytes), NEW e \in Seq(Bytes)
  PROVE  Starts(((l \o CRLF) \o f) \o e, l, f \o e)
<1> DEFINE u == l \o CRLF
<1>1. Starts(u, l, <<>>)
  BY WordTypes DEF Starts
<1>2. <<>> \in Seq(Bytes) /\ <<>> \o f = f
  OBVIOUS
<1> HIDE DEF u
<1>3. Starts(u \o f, l, <<>> \o f)
  BY <1>1, <1>2, StartsMore
<1> DEFINE v == u \o f
<1>4. Starts(v, l, f)
  BY <1>2, <1>3
<1> HIDE DEF v
<1>5. Starts(v \o e, l, f \o e)
  BY <1>4, StartsMore
<1> QED BY <1>5 DEF u, v

LEMMA FieldLinesTyped ==
  ASSUME NEW hs \in Seq(Seq(Bytes))
  PROVE  /\ FieldLines(hs) \in Seq(Seq(Bytes)) /\ Len(FieldLines(hs)) = Len(hs)
         /\ \A i \in 1..Len(hs) : FieldLines(hs)[i] = hs[i] \o CRLF
<1>1. DOMAIN hs = 1..Len(hs) /\ Len(hs) \in Nat
  OBVIOUS
<1>2. ASSUME NEW i \in 1..Len(hs) PROVE hs[i] \o CRLF \in Seq(Bytes)
  <2>1. hs[i] \in Seq(Bytes) /\ CRLF \in Seq(Bytes)
    BY WordTypes
  <2> QED BY <2>1
<1> QED BY <1>1, <1>2 DEF FieldLines

LEMMA FieldsTyped ==
  ASSUME NEW hs \in Seq(Seq(Bytes)), NEW d \in Seq(Bytes)
  PROVE  Fields(hs, d) \in Seq(Bytes)
<1>1. FlattenSeq(FieldLines(hs)) \in Seq(Bytes)
  BY FieldLinesTyped, FlattenTyped
<1>2. CRLF \o d \in Seq(Bytes)
  BY WordTypes
<1> HIDE DEF FieldLines
<1> QED BY <1>1, <1>2 DEF Fields

\* The first header, and the end of the headers.
LEMMA FieldsFirst ==
  ASSUME NEW hs \in Seq(Seq(Bytes)), hs # <<>>, NEW d \in Seq(Bytes)
  PROVE  /\ hs[1] \in Seq(Bytes) /\ Tail(hs) \in Seq(Seq(Bytes))
         /\ Starts(Fields(hs, d), hs[1], Fields(Tail(hs), d))
<1> DEFINE m == FieldLines(hs)
           t == Tail(hs)
<1>1. /\ Len(hs) \in Nat \ {0} /\ hs[1] \in Seq(Bytes) /\ t \in Seq(Seq(Bytes))
      /\ Len(t) = Len(hs) - 1 /\ \A i \in 1..Len(t) : t[i] = hs[i + 1]
  OBVIOUS
<1>2. /\ m \in Seq(Seq(Bytes)) /\ Len(m) = Len(hs)
      /\ \A i \in 1..Len(hs) : m[i] = hs[i] \o CRLF
  BY FieldLinesTyped
<1> HIDE DEF m, t
<1>3. /\ m # <<>> /\ Tail(m) \in Seq(Seq(Bytes)) /\ Len(Tail(m)) = Len(t)
      /\ \A i \in 1..Len(t) : Tail(m)[i] = m[i + 1]
  BY <1>1, <1>2
<1>4. /\ FieldLines(t) \in Seq(Seq(Bytes)) /\ Len(FieldLines(t)) = Len(t)
      /\ \A i \in 1..Len(t) : FieldLines(t)[i] = t[i] \o CRLF
  BY <1>1, FieldLinesTyped
<1>5. Tail(m) = FieldLines(t)
  <2>1. ASSUME NEW i \in 1..Len(t) PROVE Tail(m)[i] = FieldLines(t)[i]
    <3>1. i + 1 \in 1..Len(hs)
      BY <1>1
    <3> QED BY <1>1, <1>2, <1>3, <1>4, <3>1
  <2> QED BY <1>3, <1>4, <2>1, SeqEqual
<1>6. FlattenSeq(m) = m[1] \o FlattenSeq(FieldLines(t))
  BY <1>2, <1>3, <1>5, FlattenFirst
<1>7. m[1] = hs[1] \o CRLF
  <2>1. 1 \in 1..Len(hs)
    BY <1>1
  <2> QED BY <1>2, <2>1
<1> DEFINE f == FlattenSeq(FieldLines(t))
           e == CRLF \o d
<1>8. f \in Seq(Bytes) /\ e \in Seq(Bytes) /\ CRLF \in Seq(Bytes)
  BY <1>4, FlattenTyped, WordTypes
<1>9. Fields(hs, d) = ((hs[1] \o CRLF) \o f) \o e /\ Fields(t, d) = f \o e
  BY <1>6, <1>7 DEF Fields, m
<1> HIDE DEF f, e
<1> DEFINE h == hs[1]
<1>10. h \in Seq(Bytes)
  BY <1>1
<1> HIDE DEF h
<1>11. Starts(((h \o CRLF) \o f) \o e, h, f \o e)
  BY <1>8, <1>10, LineStarts
<1> QED BY <1>1, <1>9, <1>11 DEF h, t

LEMMA FieldsEnd ==
  ASSUME NEW d \in Seq(Bytes)
  PROVE  Starts(Fields(<<>>, d), <<>>, d)
<1>1. FieldLines(<<>>) = <<>>
  BY DEF FieldLines
<1>2. CRLF \o d \in Seq(Bytes)
  BY WordTypes
<1> QED BY <1>1, <1>2, FlattenEmpty DEF Fields, Starts

\* A request is its line and what is behind it.
LEMMA RequestParts ==
  ASSUME NEW r, WellFormed(r)
  PROVE  /\ Starts(RequestBytes(r), RequestLine(r), Fields(r.headers, r.body))
         /\ r.headers \in Seq(Seq(Bytes)) /\ r.body \in Seq(Bytes)
<1> DEFINE hs == r.headers
           d  == r.body
           f  == FlattenSeq(FieldLines(hs))
           l  == RequestLine(r)
<1>1. hs \in Seq(Seq(Bytes)) /\ d \in Seq(Bytes)
  <2>1. hs \in Seq(Seq(Bytes \ {"CR"})) /\ d \in Seq(Bytes)
    BY WellFormedIs
  <2>2. Seq(Bytes \ {"CR"}) \subseteq Seq(Bytes)
    OBVIOUS
  <2> HIDE DEF hs
  <2> QED BY <2>1, <2>2
<1>2. l \in Seq(Bytes) /\ CRLF \in Seq(Bytes)
  BY RequestLineProperties, WordTypes
<1>3. f \in Seq(Bytes)
  BY <1>1, FieldLinesTyped, FlattenTyped
<1>4. RequestBytes(r) = l \o CRLF \o f \o CRLF \o d
  BY DEF RequestBytes, RequestLine, FieldLines
<1>5. Fields(hs, d) = f \o (CRLF \o d)
  BY DEF Fields
<1> HIDE DEF f, l, d, hs
<1>8. Starts(((l \o CRLF) \o f) \o CRLF, l, f \o CRLF) /\ f \o CRLF \in Seq(Bytes)
  BY <1>2, <1>3, LineStarts
<1>9. Starts((((l \o CRLF) \o f) \o CRLF) \o d, l, (f \o CRLF) \o d)
  <2> DEFINE u == ((l \o CRLF) \o f) \o CRLF
             v == f \o CRLF
  <2> HIDE DEF u, v
  <2>1. Starts(u, l, v) /\ v \in Seq(Bytes)
    BY <1>8 DEF u, v
  <2>2. Starts(u \o d, l, v \o d)
    BY <1>1, <1>2, <2>1, StartsMore
  <2> QED BY <2>2 DEF u, v
<1>10. (f \o CRLF) \o d = f \o (CRLF \o d)
  BY <1>1, <1>2, <1>3, BytesAssociative
<1>11. Starts(RequestBytes(r), l, Fields(hs, d))
  BY <1>4, <1>5, <1>9, <1>10
<1> QED BY <1>1, <1>11 DEF l, hs, d

-----------------------------------------------------------------------------
(* What the peer has sent and nobody has taken.                            *)

LEMMA RestTyped ==
  ASSUME NEW rs \in Seq(Requests), NEW i \in Nat, NEW n \in 0..Len(rs), i <= n
  PROVE  LET s == [j \in 1..(n - i) |-> RequestBytes(rs[i + j])]
         IN  /\ s \in Seq(Seq(Bytes)) /\ Len(s) = n - i
             /\ Rest(rs, i, n) = FlattenSeq(s) /\ Rest(rs, i, n) \in Seq(Bytes)
<1> DEFINE s == [j \in 1..(n - i) |-> RequestBytes(rs[i + j])]
<1>0. n \in Nat /\ n - i \in Nat /\ Len(rs) \in Nat
  OBVIOUS
<1>1. ASSUME NEW j \in 1..(n - i) PROVE RequestBytes(rs[i + j]) \in Seq(Bytes)
  <2>1. i + j \in 1..Len(rs)
    BY <1>0
  <2>2. rs[i + j] \in Requests
    BY <2>1, ElementOfSeq
  <2> QED BY <2>2, RequestsAssumption
<1>2. s \in Seq(Seq(Bytes)) /\ Len(s) = n - i
  BY <1>0, <1>1
<1>3. Rest(rs, i, n) = FlattenSeq(s)
  BY DEF Rest
<1> HIDE DEF s
<1>4. FlattenSeq(s) \in Seq(Bytes)
  BY <1>2, FlattenTyped
<1> QED BY <1>2, <1>3, <1>4 DEF s

LEMMA RestNone ==
  ASSUME NEW rs \in Seq(Requests), NEW n \in 0..Len(rs)
  PROVE  Rest(rs, n, n) = <<>>
<1>1. [j \in 1..(n - n) |-> RequestBytes(rs[n + j])] = <<>>
  OBVIOUS
<1> QED BY <1>1, FlattenEmpty DEF Rest

LEMMA RestMore ==
  ASSUME NEW rs \in Seq(Requests), NEW i \in Nat, NEW n \in 0..(Len(rs) - 1), i <= n
  PROVE  Rest(rs, i, n + 1) = Rest(rs, i, n) \o RequestBytes(rs[n + 1])
<1> DEFINE s == [j \in 1..(n - i) |-> RequestBytes(rs[i + j])]
           t == [j \in 1..((n + 1) - i) |-> RequestBytes(rs[i + j])]
           e == RequestBytes(rs[n + 1])
<1>0. /\ n \in Nat /\ n - i \in Nat /\ (n + 1) - i = (n - i) + 1 /\ Len(rs) \in Nat
      /\ n \in 0..Len(rs) /\ n + 1 \in 0..Len(rs) /\ i <= n + 1 /\ n + 1 \in 1..Len(rs)
  OBVIOUS
<1>1. /\ s \in Seq(Seq(Bytes)) /\ Len(s) = n - i /\ Rest(rs, i, n) = FlattenSeq(s)
  BY <1>0, RestTyped
<1>2. /\ t \in Seq(Seq(Bytes)) /\ Len(t) = (n + 1) - i /\ Rest(rs, i, n + 1) = FlattenSeq(t)
  <2> DEFINE k == n + 1
  <2>1. k \in 0..Len(rs) /\ i <= k
    BY <1>0
  <2> HIDE DEF k
  <2>2. LET x == [j \in 1..(k - i) |-> RequestBytes(rs[i + j])]
        IN  /\ x \in Seq(Seq(Bytes)) /\ Len(x) = k - i
            /\ Rest(rs, i, k) = FlattenSeq(x)
    BY <2>1, RestTyped
  <2> QED BY <2>2 DEF k
<1>3. e \in Seq(Bytes)
  BY <1>0, RequestsAssumption, ElementOfSeq
<1>4. /\ \A j \in 1..(n - i) : s[j] = RequestBytes(rs[i + j]) /\ t[j] = RequestBytes(rs[i + j])
      /\ t[(n - i) + 1] = e
  <2>1. /\ (n - i) + 1 \in 1..((n + 1) - i) /\ i + ((n - i) + 1) = n + 1
        /\ \A j \in 1..(n - i) : j \in 1..((n + 1) - i)
    BY <1>0
  <2> QED BY <2>1
<1> HIDE DEF s, t, e
<1>5. t = Append(s, e)
  <2>1. /\ Append(s, e) \in Seq(Seq(Bytes)) /\ Len(Append(s, e)) = (n - i) + 1
        /\ \A j \in 1..(n - i) : Append(s, e)[j] = s[j]
        /\ Append(s, e)[(n - i) + 1] = e
    <3>1. s \in Seq(Seq(Bytes)) /\ e \in Seq(Bytes) /\ Len(s) = n - i
      BY <1>1, <1>3
    <3>2. /\ Append(s, e) \in Seq(Seq(Bytes)) /\ Len(Append(s, e)) = Len(s) + 1
          /\ \A j \in 1..Len(s) : Append(s, e)[j] = s[j]
          /\ Append(s, e)[Len(s) + 1] = e
      <4> DEFINE T == Seq(Bytes)
      <4>1. s \in Seq(T) /\ e \in T
        BY <3>1
      <4> HIDE DEF T
      <4>2. /\ Append(s, e) \in Seq(T) /\ Len(Append(s, e)) = Len(s) + 1
            /\ \A j \in 1..Len(s) : Append(s, e)[j] = s[j]
            /\ Append(s, e)[Len(s) + 1] = e
        BY <4>1, AppendProperties
      <4> QED BY <4>2 DEF T
    <3> QED BY <3>1, <3>2
  <2>2. ASSUME NEW j \in 1..Len(t) PROVE t[j] = Append(s, e)[j]
    <3>1. j \in 1..(n - i) \/ j = (n - i) + 1
      BY <1>0, <1>2
    <3> QED BY <1>4, <2>1, <3>1
  <2>3. Len(t) = Len(Append(s, e))
    BY <1>0, <1>2, <2>1
  <2> QED BY <1>2, <2>1, <2>2, <2>3, SeqEqual
<1> QED BY <1>1, <1>2, <1>3, <1>5, FlattenAppend DEF e

LEMMA RestFirst ==
  ASSUME NEW rs \in Seq(Requests), NEW i \in Nat, NEW n \in 0..Len(rs), i < n
  PROVE  /\ rs[i + 1] \in Requests /\ RequestBytes(rs[i + 1]) \in Seq(Bytes)
         /\ Rest(rs, i, n) = RequestBytes(rs[i + 1]) \o Rest(rs, i + 1, n)
<1> DEFINE s == [j \in 1..(n - i) |-> RequestBytes(rs[i + j])]
           t == [j \in 1..(n - (i + 1)) |-> RequestBytes(rs[(i + 1) + j])]
           e == RequestBytes(rs[i + 1])
<1>0. /\ n \in Nat /\ n - i \in Nat \ {0} /\ n - (i + 1) = (n - i) - 1 /\ i <= n
      /\ Len(rs) \in Nat /\ i + 1 \in Nat /\ i + 1 <= n /\ i + 1 \in 1..Len(rs)
  OBVIOUS
<1>1. /\ s \in Seq(Seq(Bytes)) /\ Len(s) = n - i /\ Rest(rs, i, n) = FlattenSeq(s)
  BY <1>0, RestTyped
<1>2. /\ t \in Seq(Seq(Bytes)) /\ Len(t) = n - (i + 1) /\ Rest(rs, i + 1, n) = FlattenSeq(t)
  <2> DEFINE k == i + 1
  <2>1. k \in Nat /\ k <= n
    BY <1>0
  <2> HIDE DEF k
  <2>2. LET x == [j \in 1..(n - k) |-> RequestBytes(rs[k + j])]
        IN  /\ x \in Seq(Seq(Bytes)) /\ Len(x) = n - k
            /\ Rest(rs, k, n) = FlattenSeq(x)
    BY <2>1, RestTyped
  <2> QED BY <2>2 DEF k
<1>3. rs[i + 1] \in Requests /\ e \in Seq(Bytes)
  BY <1>0, RequestsAssumption, ElementOfSeq
<1>4. /\ s[1] = e
      /\ \A j \in 1..(n - (i + 1)) : t[j] = s[j + 1]
  <2>1. /\ 1 \in 1..(n - i)
        /\ \A j \in 1..(n - (i + 1)) : j + 1 \in 1..(n - i) /\ (i + 1) + j = i + (j + 1)
    BY <1>0
  <2> QED BY <2>1
<1> HIDE DEF s, t, e
<1>5. s # <<>> /\ Tail(s) = t
  <2>1. /\ s # <<>> /\ Tail(s) \in Seq(Seq(Bytes)) /\ Len(Tail(s)) = (n - i) - 1
        /\ \A j \in 1..((n - i) - 1) : Tail(s)[j] = s[j + 1]
    BY <1>0, <1>1
  <2>2. ASSUME NEW j \in 1..Len(t) PROVE Tail(s)[j] = t[j]
    BY <1>0, <1>2, <1>4, <2>1
  <2> QED BY <1>0, <1>2, <2>1, <2>2, SeqEqual
<1>6. FlattenSeq(s) = s[1] \o FlattenSeq(Tail(s))
  BY <1>1, <1>5, FlattenFirst
<1> QED BY <1>1, <1>2, <1>3, <1>4, <1>5, <1>6 DEF e

-----------------------------------------------------------------------------
(* Between the requests, and within one.                                   *)

\* u is what is left of n requests when k of them are answered, or it is what
\* no request begins, from a body or from headers that were not taken.
Settled(u, rs, k, n) == u = Rest(rs, k, n) \/ Stuck(u)

\* What q holds comes from r.
Matches(q, r) ==
    /\ r.method \in Methods /\ r.version \in Versions
    /\ {"path", "headers"} \subseteq DOMAIN q
    /\ q.path = <<r.path>>
    /\ \A field \in DOMAIN q.headers : \E h \in Range(r.headers) :
          Before(h, ":") = field /\ Trim(Behind(h, ":")) = q.headers[field]

\* u is these headers, what is behind them and v.
FieldsLeft(u, hs, d, v) == u = Fields(hs, d) \o v
BodyLeft(u, d, v)       == u = d \o v

\* The parser has taken r up to one of its headers, or up to its body, and u is
\* what is left of it, with v behind it.
Within(p, u, r, v) ==
    /\ Matches(p.request, r)
    /\ \/ /\ p.state \in {"ExpectHeaders", "ExpectEmptyline", "Success"}
          /\ \E hs \in Seq(Range(r.headers)) : FieldsLeft(u, hs, r.body, v)
       \/ p.state \in {"ExpectBody", "Success"} /\ BodyLeft(u, r.body, v)

Failed(p) == ~p.ok /\ p.state # "Success"

-----------------------------------------------------------------------------
(* The headers.                                                            *)

LEMMA HeaderIs ==
  ASSUME NEW r, WellFormed(r), NEW h \in Range(r.headers)
  PROVE  h \in Seq(Bytes) /\ NoCR(h) /\ h # <<>> /\ ~LineOK(h)
<1>1. r.headers \in Seq(Seq(Bytes \ {"CR"})) /\ h # <<>> /\ ~LineOK(h)
  BY WellFormedIs
<1>2. PICK i \in DOMAIN r.headers : h = r.headers[i]
  BY DEF Range
<1>3. h \in Seq(Bytes \ {"CR"})
  BY <1>1, <1>2
<1> QED BY <1>1, <1>3 DEF NoCR

LEMMA HeadersAre ==
  ASSUME NEW r, WellFormed(r), NEW hs \in Seq(Range(r.headers))
  PROVE  /\ hs \in Seq(Seq(Bytes))
         /\ hs # <<>> => hs[1] \in Range(r.headers) /\ Tail(hs) \in Seq(Range(r.headers))
<1> DEFINE H == Range(r.headers)
<1>1. H \subseteq Seq(Bytes)
  BY HeaderIs
<1> HIDE DEF H
<1>2. hs \in Seq(H)
  BY DEF H
<1>3. hs \in Seq(Seq(Bytes)) /\ (hs # <<>> => hs[1] \in H /\ Tail(hs) \in Seq(H))
  BY <1>1, <1>2
<1> QED BY <1>3 DEF H

\* The line at the front, when headers are left and when none is.
LEMMA NextField ==
  ASSUME NEW r, WellFormed(r), NEW hs \in Seq(Range(r.headers)), hs # <<>>,
         NEW v \in Seq(Bytes)
  PROVE  /\ hs[1] \in Range(r.headers) /\ Tail(hs) \in Seq(Range(r.headers))
         /\ hs[1] \in Seq(Bytes) /\ NoCR(hs[1]) /\ hs[1] # <<>> /\ ~LineOK(hs[1])
         /\ Fields(Tail(hs), r.body) \o v \in Seq(Bytes)
         /\ Starts(Fields(hs, r.body) \o v, hs[1], Fields(Tail(hs), r.body) \o v)
<1>1. hs \in Seq(Seq(Bytes)) /\ hs[1] \in Range(r.headers)
      /\ Tail(hs) \in Seq(Range(r.headers))
  BY HeadersAre
<1>2. hs[1] \in Seq(Bytes) /\ NoCR(hs[1]) /\ hs[1] # <<>> /\ ~LineOK(hs[1])
  BY <1>1, HeaderIs
<1> DEFINE d == r.body
           f == Fields(hs, d)
           g == Fields(Tail(hs), d)
<1>3. d \in Seq(Bytes)
  BY WellFormedIs
<1> HIDE DEF d
<1>4. Tail(hs) \in Seq(Seq(Bytes)) /\ Starts(f, hs[1], g)
  BY <1>1, <1>3, FieldsFirst
<1>5. g \in Seq(Bytes)
  BY <1>3, <1>4, FieldsTyped
<1> HIDE DEF f, g
<1> DEFINE h == hs[1]
<1> HIDE DEF h
<1>6. Starts(f, h, g) /\ h \in Seq(Bytes)
  BY <1>2, <1>4 DEF h
<1>7. Starts(f \o v, h, g \o v)
  BY <1>5, <1>6, StartsMore
<1>8. g \o v \in Seq(Bytes)
  BY <1>5
<1> QED BY <1>1, <1>2, <1>7, <1>8 DEF d, f, g, h

LEMMA NoField ==
  ASSUME NEW r, WellFormed(r), NEW v \in Seq(Bytes)
  PROVE  /\ r.body \o v \in Seq(Bytes)
         /\ Starts(Fields(<<>>, r.body) \o v, <<>>, r.body \o v)
         /\ NoCR(<<>>) /\ ~LineOK(<<>>) /\ <<>> \in Seq(Bytes)
<1> DEFINE d == r.body
           f == Fields(<<>>, d)
<1>1. d \in Seq(Bytes)
  BY WellFormedIs
<1> HIDE DEF d
<1>2. Starts(f, <<>>, d) /\ <<>> \in Seq(Bytes)
  BY <1>1, FieldsEnd
<1> HIDE DEF f
<1>3. Starts(f \o v, <<>>, d \o v)
  BY <1>1, <1>2, StartsMore
<1>4. d \o v \in Seq(Bytes)
  BY <1>1
<1>5. NoCR(<<>>) /\ ~LineOK(<<>>)
  <2>1. NoCR(<<>>)
    BY DEF NoCR
  <2> DEFINE l == <<>>
  <2>2. l \in Seq(Bytes) /\ ~(l # <<>>)
    OBVIOUS
  <2> HIDE DEF l
  <2>3. ~LineOK(l)
    BY <2>2, LineBegins
  <2> QED BY <2>1, <2>3 DEF l
<1> QED BY <1>2, <1>3, <1>4, <1>5 DEF d, f

\* The line at the front of a buffer.
LEMMA LineOfFields ==
  ASSUME NEW r, WellFormed(r), NEW hs \in Seq(Range(r.headers)), NEW v \in Seq(Bytes),
         NEW b, BufferOK(b), HasLine(b), NEW w \in Seq(Bytes),
         FieldsLeft(Contents(b) \o w, hs, r.body, v)
  PROVE  /\ BufferOK(SkipLine(b))
         /\ hs # <<>> => /\ hs[1] \in Range(r.headers) /\ hs[1] # <<>>
                         /\ Line(b) = hs[1]
                         /\ Tail(hs) \in Seq(Range(r.headers))
                         /\ FieldsLeft(Contents(SkipLine(b)) \o w, Tail(hs), r.body, v)
         /\ hs = <<>> => Line(b) = <<>> /\ BodyLeft(Contents(SkipLine(b)) \o w, r.body, v)
<1> DEFINE u == Contents(b) \o w
<1>1. CASE hs # <<>>
  <2> DEFINE l == hs[1]
             x == Fields(Tail(hs), r.body) \o v
  <2>1. /\ l \in Range(r.headers) /\ Tail(hs) \in Seq(Range(r.headers))
        /\ l \in Seq(Bytes) /\ NoCR(l) /\ l # <<>> /\ x \in Seq(Bytes)
        /\ Starts(Fields(hs, r.body) \o v, l, x)
    BY <1>1, NextField
  <2>2. Starts(u, l, x)
    BY <2>1 DEF FieldsLeft
  <2> HIDE DEF l, x
  <2>3. Line(b) = l /\ BufferOK(SkipLine(b)) /\ Contents(SkipLine(b)) \o w = x
    BY <2>1, <2>2, FirstLine
  <2> QED BY <1>1, <2>1, <2>3 DEF l, x, FieldsLeft, BodyLeft
<1>2. CASE hs = <<>>
  <2> DEFINE l == <<>>
             x == r.body \o v
  <2>1. /\ l \in Seq(Bytes) /\ NoCR(l) /\ x \in Seq(Bytes)
        /\ Starts(Fields(<<>>, r.body) \o v, l, x)
    BY NoField
  <2>2. Starts(u, l, x)
    BY <1>2, <2>1 DEF FieldsLeft
  <2> HIDE DEF l, x
  <2>3. Line(b) = l /\ BufferOK(SkipLine(b)) /\ Contents(SkipLine(b)) \o w = x
    BY <2>1, <2>2, FirstLine
  <2> QED BY <1>2, <2>3 DEF l, x, BodyLeft
<1> QED BY <1>1, <1>2

LEMMA StartsSome ==
  ASSUME NEW u, NEW l \in Seq(Bytes), NEW x \in Seq(Bytes), Starts(u, l, x)
  PROVE  u # <<>>
<1> DEFINE e == CRLF
           y == e \o x
<1>1. e \in Seq(Bytes) /\ Len(e) = 2
  BY WordTypes
<1> HIDE DEF e
<1>2. y \in Seq(Bytes) /\ Len(y) = Len(e) + Len(x) /\ Len(x) \in Nat
  BY <1>1, BytesConcat
<1>3. u = l \o y
  BY DEF Starts, e
<1> HIDE DEF y
<1>4. Len(l \o y) = Len(l) + Len(y) /\ Len(l) \in Nat
  BY <1>2, BytesConcat
<1> QED BY <1>1, <1>2, <1>3, <1>4

\* Headers that were not taken begin no request, nor does a body.
LEMMA Leftover ==
  ASSUME NEW r, WellFormed(r), NEW v \in Seq(Bytes), NEW p, NEW u, Within(p, u, r, v)
  PROVE  u = v \/ Stuck(u)
<1>1. ASSUME NEW hs \in Seq(Range(r.headers)), FieldsLeft(u, hs, r.body, v)
      PROVE  Stuck(u)
  <2> DEFINE l == IF hs = <<>> THEN <<>> ELSE hs[1]
             x == IF hs = <<>> THEN r.body \o v ELSE Fields(Tail(hs), r.body) \o v
  <2>1. l \in Seq(Bytes) /\ x \in Seq(Bytes) /\ NoCR(l) /\ ~LineOK(l) /\ Starts(u, l, x)
    <3>1. CASE hs # <<>>
      BY <1>1, <3>1, NextField DEF FieldsLeft
    <3>2. CASE hs = <<>>
      BY <1>1, <3>2, NoField DEF FieldsLeft
    <3> QED BY <3>1, <3>2
  <2> HIDE DEF l, x
  <2>2. u # <<>>
    BY <2>1, StartsSome
  <2> QED BY <2>1, <2>2 DEF Stuck
<1>2. ASSUME BodyLeft(u, r.body, v) PROVE u = v \/ Stuck(u)
  <2> DEFINE d == r.body
  <2>1. d \in Seq(Bytes) /\ (d # <<>> => d[1] \notin Methods)
    BY WellFormedIs
  <2> HIDE DEF d
  <2>2. u = d \o v
    BY <1>2 DEF d, BodyLeft
  <2>3. CASE d = <<>>
    BY <2>2, <2>3
  <2>4. CASE d # <<>>
    <3>1. u # <<>> /\ u[1] = d[1]
      BY <2>1, <2>2, <2>4
    <3> QED BY <2>1, <2>4, <3>1 DEF Stuck
  <2> QED BY <2>3, <2>4
<1> QED BY <1>1, <1>2 DEF Within

-----------------------------------------------------------------------------
(* The rounds of parseRequest().                                           *)

\* What a request says, and what it is answered with.
LEMMA RequestMatches ==
  ASSUME NEW r, WellFormed(r), LineOK(RequestLine(r))
  PROVE  Matches(RequestOf(RequestLine(r)), r)
<1> DEFINE q == RequestOf(RequestLine(r))
<1>1. /\ r.method \in Methods /\ r.version \in Versions
      /\ q.path = <<r.path>> /\ q.headers = <<>>
  BY RequestLineProperties
<1>2. {"path", "headers"} \subseteq DOMAIN q
  BY DEF RequestOf, NewRequest
<1> HIDE DEF q
<1>3. DOMAIN q.headers = {}
  BY <1>1
<1> QED BY <1>1, <1>2, <1>3 DEF Matches, q

LEMMA HeaderMatches ==
  ASSUME NEW r, NEW q, Matches(q, r), NEW h \in Range(r.headers)
  PROVE  Matches(AddHeader(q, h), r)
<1> DEFINE field == Before(h, ":")
           value == Trim(Behind(h, ":"))
           added == [f \in DOMAIN q.headers \cup {field} |->
                        IF f = field THEN value ELSE q.headers[f]]
           a     == AddHeader(q, h)
<1>1. /\ r.method \in Methods /\ r.version \in Versions
      /\ {"path", "headers"} \subseteq DOMAIN q /\ q.path = <<r.path>>
      /\ \A f \in DOMAIN q.headers : \E g \in Range(r.headers) :
            Before(g, ":") = f /\ Trim(Behind(g, ":")) = q.headers[f]
  BY DEF Matches
<1>2. a = [q EXCEPT !.headers = added]
  BY DEF AddHeader
<1>f. field = Before(h, ":") /\ value = Trim(Behind(h, ":"))
  OBVIOUS
<1> HIDE DEF field, value
<1>3. /\ DOMAIN added = {field} \cup DOMAIN q.headers
      /\ added[field] = value
      /\ \A f \in DOMAIN q.headers : f # field => added[f] = q.headers[f]
  OBVIOUS
<1> HIDE DEF added, a
<1>4. /\ {"path", "headers"} \subseteq DOMAIN a /\ a.path = q.path /\ a.headers = added
  BY <1>1, <1>2
<1>5. ASSUME NEW f \in DOMAIN added
      PROVE  \E g \in Range(r.headers) :
                Before(g, ":") = f /\ Trim(Behind(g, ":")) = added[f]
  <2>1. CASE f = field
    BY <1>3, <1>f, <2>1
  <2>2. CASE f # field
    <3>1. f \in DOMAIN q.headers /\ added[f] = q.headers[f]
      BY <1>3, <2>2
    <3> QED BY <1>1, <3>1
  <2> QED BY <2>1, <2>2
<1> QED BY <1>1, <1>4, <1>5 DEF Matches, a

LEMMA MatchAnswered ==
  ASSUME NEW r, NEW q, Matches(q, r)
  PROVE  /\ StatusOf(q) = Expected(r).status
         /\ Expected(r).close => CloseAfter(q)
<1>1. /\ r.method \in Methods /\ r.version \in Versions /\ q.path = <<r.path>>
      /\ \A f \in DOMAIN q.headers : \E g \in Range(r.headers) :
            Before(g, ":") = f /\ Trim(Behind(g, ":")) = q.headers[f]
  BY DEF Matches
<1> DEFINE status == IF r.path \in {"/hello", "/favicon.ico", "/"} THEN 200 ELSE 404
<1>2. /\ Expected(r).status = status
      /\ Expected(r).close <=> status # 200 \/ \A h \in Range(r.headers) : ~KeepsAlive(h)
  BY <1>1 DEF Expected
<1>3. StatusOf(q) = status
  <2>1. \A path : q.path = <<path>> <=> r.path = path
    BY <1>1
  <2> QED BY <2>1 DEF StatusOf
<1>4. ASSUME \A h \in Range(r.headers) : ~KeepsAlive(h)
      PROVE  CloseAfter(q)
  <2> DEFINE c == <<"Connection">>
  <2>1. CASE c \in DOMAIN q.headers
    <3>1. PICK g \in Range(r.headers) : Before(g, ":") = c /\ Trim(Behind(g, ":")) = q.headers[c]
      BY <1>1, <2>1
    <3>2. q.headers[c] \notin KeepAlive
      BY <1>4, <3>1 DEF KeepsAlive
    <3> QED BY <2>1, <3>2 DEF CloseAfter, GetHeader
  <2>2. CASE c \notin DOMAIN q.headers
    <3>1. <<>> \notin KeepAlive
      BY DEF KeepAlive
    <3> QED BY <2>2, <3>1 DEF CloseAfter, GetHeader
  <2> QED BY <2>1, <2>2
<1>5. ASSUME status # 200 PROVE CloseAfter(q)
  BY <1>3, <1>5 DEF CloseAfter
<1> QED BY <1>2, <1>3, <1>4, <1>5

\* Where the parser and the buffer are after a line was taken.
LEMMA Advances ==
  ASSUME NEW p, p.state \in ParserStates,
         {"state", "hasMore", "request"} \subseteq DOMAIN p,
         NEW b, NEW next, NEW r, NEW v, NEW u, Matches(p.request, r),
         \/ /\ next = "ExpectHeaders"
            /\ \E hs \in Seq(Range(r.headers)) : FieldsLeft(u, hs, r.body, v)
         \/ next = "ExpectBody" /\ BodyLeft(u, r.body, v)
  PROVE  Within(Advance(p, b, next).parser, u, r, v)
<1> DEFINE a == Advance(p, b, next).parser
<1>1. a.request = p.request /\ a.state \in {next, "Success"}
  BY DEF Advance, Goes
<1> HIDE DEF a
<1> QED BY <1>1 DEF Within, a

LEMMA AdvanceBuffer ==
  ASSUME NEW p, NEW b, NEW next PROVE Advance(p, b, next).buffer = SkipLine(b)
BY DEF Advance, Goes

LEMMA Fails ==
  ASSUME NEW p, ParserOK(p), p.state # "Success", NEW b
  PROVE  Failed(Fail(p, b).parser)
BY DEF Fail, Goes, Failed, ParserOK

\* The request line is that of the next request.
LEMMA RoundOfRequestLine ==
  ASSUME \A r \in Requests : WellFormed(r),
         NEW b, BufferOK(b), ReadableBytes(b) # 0, NEW w \in Seq(Bytes),
         NEW p, ParserOK(p), p.state = "ExpectRequestLine",
         NEW rs \in Seq(Requests), NEW k \in Nat, NEW n \in 0..Len(rs), k <= n,
         Settled(Contents(b) \o w, rs, k, n)
  PROVE  LET g == ParseRequestLine(p, b)
         IN  \/ Failed(g.parser)
             \/ /\ k < n
                /\ Within(g.parser, Contents(g.buffer) \o w, rs[k + 1], Rest(rs, k + 1, n))
<1> DEFINE g == ParseRequestLine(p, b)
           u == Contents(b) \o w
<1>1. CASE ~(HasLine(b) /\ LineOK(Line(b)))
  BY <1>1, Fails DEF ParseRequestLine
<1>2. CASE HasLine(b) /\ LineOK(Line(b))
  <2>1. ~Stuck(u)
    BY <1>2, StuckFails
  <2>2. u = Rest(rs, k, n)
    BY <2>1 DEF Settled
  <2>3. u # <<>>
    <3>1. Contents(b) \in Seq(Bytes) /\ Len(Contents(b)) # 0
      BY ContentsProperties, BufferTypes
    <3> QED BY <3>1
  <2>4. k < n
    <3>1. k # n
      BY <2>2, <2>3, RestNone
    <3> QED BY <3>1
  <2> DEFINE r == rs[k + 1]
             v == Rest(rs, k + 1, n)
             d == Fields(r.headers, r.body)
             l == RequestLine(r)
  <2>5. r \in Requests /\ RequestBytes(r) \in Seq(Bytes) /\ u = RequestBytes(r) \o v
    BY <2>2, <2>4, RestFirst
  <2>6. v \in Seq(Bytes)
    <3> DEFINE i == k + 1
    <3>1. i \in Nat /\ i <= n
      BY <2>4
    <3> HIDE DEF i
    <3>2. Rest(rs, i, n) \in Seq(Bytes)
      BY <3>1, RestTyped
    <3> QED BY <3>2 DEF i
  <2> HIDE DEF v, r
  <2>7. WellFormed(r)
    BY <2>5
  <2>8. /\ Starts(RequestBytes(r), l, d) /\ r.headers \in Seq(Seq(Bytes))
        /\ r.body \in Seq(Bytes) /\ l \in Seq(Bytes) /\ NoCR(l)
    BY <2>7, RequestParts, RequestLineProperties
  <2>9. d \in Seq(Bytes)
    BY <2>8, FieldsTyped
  <2>10. r.headers \in Seq(Range(r.headers))
    <3> DEFINE hs == r.headers
    <3>1. DOMAIN hs = 1..Len(hs) /\ Len(hs) \in Nat /\ hs = [i \in DOMAIN hs |-> hs[i]]
      BY <2>8
    <3> HIDE DEF hs
    <3>2. \A i \in DOMAIN hs : hs[i] \in Range(hs)
      BY DEF Range
    <3>3. hs \in [1..Len(hs) -> Range(hs)]
      BY <3>1, <3>2
    <3>4. hs \in Seq(Range(hs))
      BY <3>1, <3>3, SeqDef
    <3> QED BY <3>4 DEF hs
  <2> HIDE DEF d, u, l
  <2>11. Starts(u, l, d \o v) /\ d \o v \in Seq(Bytes)
    BY <2>5, <2>6, <2>8, <2>9, StartsMore
  <2>12. Line(b) = l /\ Contents(SkipLine(b)) \o w = d \o v
    <3> DEFINE x == d \o v
    <3>1. x \in Seq(Bytes) /\ Starts(Contents(b) \o w, l, x) /\ l \in Seq(Bytes) /\ NoCR(l)
      BY <2>8, <2>11 DEF u
    <3> HIDE DEF x
    <3>2. Line(b) = l /\ Contents(SkipLine(b)) \o w = x
      BY <1>2, <3>1, FirstLine
    <3> QED BY <3>2 DEF x
  <2> DEFINE a == [p EXCEPT !.request = RequestOf(Line(b))]
  <2>13. /\ a.state = p.state /\ a.state \in ParserStates
         /\ {"state", "hasMore", "request"} \subseteq DOMAIN a
         /\ a.request = RequestOf(Line(b))
    BY DEF ParserOK
  <2>14. Matches(a.request, r)
    BY <1>2, <2>7, <2>12, <2>13, RequestMatches DEF l
  <2>15. g = Advance(a, b, "ExpectHeaders")
    BY <1>2 DEF ParseRequestLine
  <2>16. g.buffer = SkipLine(b)
    BY <2>15, AdvanceBuffer
  <2> HIDE DEF a, g
  <2>17. \E hs \in Seq(Range(r.headers)) : FieldsLeft(d \o v, hs, r.body, v)
    BY <2>10 DEF d, FieldsLeft
  <2>18. Within(g.parser, d \o v, r, v)
    BY <2>13, <2>14, <2>15, <2>17, Advances
  <2> QED BY <2>4, <2>12, <2>16, <2>18 DEF r, v, g
<1> QED BY <1>1, <1>2

\* Headers, the empty line and the body are those of the request.
LEMMA RoundOfHeader ==
  ASSUME NEW r, WellFormed(r), NEW v \in Seq(Bytes),
         NEW b, BufferOK(b), NEW w \in Seq(Bytes),
         NEW p, ParserOK(p), p.state = "ExpectHeaders",
         Within(p, Contents(b) \o w, r, v)
  PROVE  LET g == ParseHeader(p, b)
         IN  Failed(g.parser) \/ Within(g.parser, Contents(g.buffer) \o w, r, v)
<1> DEFINE g == ParseHeader(p, b)
           u == Contents(b) \o w
<1>1. Matches(p.request, r)
      /\ \E hs \in Seq(Range(r.headers)) : FieldsLeft(u, hs, r.body, v)
  BY DEF Within
<1>2. PICK hs \in Seq(Range(r.headers)) : FieldsLeft(u, hs, r.body, v)
  BY <1>1
<1>3. CASE ~HasLine(b)
  BY <1>3, Fails DEF ParseHeader
<1>4. CASE HasLine(b) /\ ~Has(Line(b), ":")
  <2>1. g = Goes([p EXCEPT !.state = "ExpectEmptyline"], b)
    BY <1>4 DEF ParseHeader
  <2>2. /\ g.buffer = b /\ g.parser.state = "ExpectEmptyline"
        /\ g.parser.request = p.request
    BY <2>1 DEF Goes, ParserOK
  <2> DEFINE x == Contents(g.buffer) \o w
  <2>3. x = u
    BY <2>2
  <2> HIDE DEF g, u, x
  <2>4. Within(g.parser, u, r, v)
    BY <1>1, <2>2 DEF Within
  <2> QED BY <2>3, <2>4 DEF g, x
<1>5. CASE HasLine(b) /\ Has(Line(b), ":")
  <2>1. /\ hs # <<>> => /\ hs[1] \in Range(r.headers) /\ Line(b) = hs[1]
                        /\ Tail(hs) \in Seq(Range(r.headers))
                        /\ FieldsLeft(Contents(SkipLine(b)) \o w, Tail(hs), r.body, v)
        /\ hs = <<>> => Line(b) = <<>>
    BY <1>2, <1>5, LineOfFields
  <2>2. hs # <<>>
    <3>1. ~Has(<<>>, ":")
      <4> DEFINE l == <<>>
      <4>1. l \in Seq(Bytes) /\ Len(l) = 0 /\ \A j \in 1..Len(l) : l[j] # ":"
        OBVIOUS
      <4> HIDE DEF l
      <4>2. At(l, ":") = Len(l) + 1
        BY <4>1, AtNone
      <4>3. ~Has(l, ":")
        BY <4>1, <4>2 DEF Has
      <4> QED BY <4>3 DEF l
    <3> QED BY <1>5, <2>1, <3>1
  <2> DEFINE a == [p EXCEPT !.request = AddHeader(p.request, Line(b))]
  <2>3. /\ a.state \in ParserStates
        /\ {"state", "hasMore", "request"} \subseteq DOMAIN a
        /\ a.request = AddHeader(p.request, Line(b))
    BY DEF ParserOK
  <2>4. Matches(a.request, r)
    BY <1>1, <2>1, <2>2, <2>3, HeaderMatches
  <2>5. g = Advance(a, b, "ExpectHeaders")
    BY <1>5 DEF ParseHeader
  <2>6. g.buffer = SkipLine(b)
    BY <2>5, AdvanceBuffer
  <2> DEFINE x == Contents(SkipLine(b)) \o w
  <2>7. \E fs \in Seq(Range(r.headers)) : FieldsLeft(x, fs, r.body, v)
    BY <2>1, <2>2
  <2> HIDE DEF a, g, x
  <2>8. Within(g.parser, x, r, v)
    BY <2>3, <2>4, <2>5, <2>7, Advances
  <2> QED BY <2>6, <2>8 DEF g, x
<1> QED BY <1>3, <1>4, <1>5

LEMMA RoundOfEmptyLine ==
  ASSUME NEW r, WellFormed(r), NEW v \in Seq(Bytes),
         NEW b, BufferOK(b), NEW w \in Seq(Bytes),
         NEW p, ParserOK(p), p.state = "ExpectEmptyline",
         Within(p, Contents(b) \o w, r, v)
  PROVE  LET g == ParseEmptyLine(p, b)
         IN  Failed(g.parser) \/ Within(g.parser, Contents(g.buffer) \o w, r, v)
<1> DEFINE g == ParseEmptyLine(p, b)
           u == Contents(b) \o w
<1>1. Matches(p.request, r)
      /\ \E hs \in Seq(Range(r.headers)) : FieldsLeft(u, hs, r.body, v)
  BY DEF Within
<1>2. PICK hs \in Seq(Range(r.headers)) : FieldsLeft(u, hs, r.body, v)
  BY <1>1
<1>3. CASE ~(HasLine(b) /\ Line(b) = <<>>)
  BY <1>3, Fails DEF ParseEmptyLine
<1>4. CASE HasLine(b) /\ Line(b) = <<>>
  <2>1. HasLine(b)
    BY <1>4
  <2>2. BodyLeft(Contents(SkipLine(b)) \o w, r.body, v)
    <3>1. CASE hs # <<>>
      <4>1. hs[1] # <<>> /\ Line(b) = hs[1]
        BY <1>2, <2>1, <3>1, LineOfFields
      <4> QED BY <1>4, <4>1
    <3>2. CASE hs = <<>>
      BY <1>2, <2>1, <3>2, LineOfFields
    <3> QED BY <3>1, <3>2
  <2>3. /\ p.state \in ParserStates
        /\ {"state", "hasMore", "request"} \subseteq DOMAIN p
    BY DEF ParserOK
  <2>4. g = Advance(p, b, "ExpectBody")
    BY <1>4 DEF ParseEmptyLine
  <2>5. g.buffer = SkipLine(b)
    BY <2>4, AdvanceBuffer
  <2> DEFINE x == Contents(SkipLine(b)) \o w
  <2>6. BodyLeft(x, r.body, v)
    BY <2>2
  <2> HIDE DEF g, x
  <2>7. Within(g.parser, x, r, v)
    BY <1>1, <2>3, <2>4, <2>6, Advances
  <2> QED BY <2>5, <2>7 DEF g, x
<1> QED BY <1>3, <1>4

LEMMA RoundOfBody ==
  ASSUME NEW r, NEW v, NEW b, NEW w, NEW p, ParserOK(p), p.state = "ExpectBody",
         Within(p, Contents(b) \o w, r, v)
  PROVE  LET g == ParseBody(p, b)
         IN  Within(g.parser, Contents(g.buffer) \o w, r, v)
<1> DEFINE g == ParseBody(p, b)
<1>1. g.buffer = b /\ g.parser.state = "Success" /\ g.parser.request = p.request
  BY DEF ParseBody, Goes, ParserOK
<1> HIDE DEF g
<1> QED BY <1>1 DEF Within, g

-----------------------------------------------------------------------------
(* Answers to their requests.                                              *)

\* Where onMessage() is, with k requests answered: it will call the request
\* bad, it has taken nothing, or some of the next request.
Taken(p, b, u, rs, k, n) ==
    \/ Failed(p)
    \/ p.state = "ExpectRequestLine" /\ ReadableBytes(b) # 0 /\ Settled(u, rs, k, n)
    \/ k < n /\ Within(p, u, rs[k + 1], Rest(rs, k + 1, n))

\* A round takes the next line of the next request.
LEMMA Round ==
  ASSUME \A r \in Requests : WellFormed(r),
         NEW b, BufferOK(b), NEW w \in Seq(Bytes),
         NEW p, ParserOK(p), Parsing(p),
         NEW rs \in Seq(Requests), NEW k \in Nat, NEW n \in 0..Len(rs), k <= n,
         Taken(p, b, Contents(b) \o w, rs, k, n)
  PROVE  LET g == ParseRound(p, b)
         IN  Taken(g.parser, g.buffer, Contents(g.buffer) \o w, rs, k, n)
<1> DEFINE g == ParseRound(p, b)
           u == Contents(b) \o w
           z == Contents(g.buffer) \o w
           r == rs[k + 1]
           v == Rest(rs, k + 1, n)
<1>0. p.ok /\ p.state \in ParserStates /\ p.state # "Success"
  BY DEF ParserOK, Parsing
<1>1. CASE p.state = "ExpectRequestLine"
  <2>1. ~Within(p, u, r, v) /\ ~Failed(p)
    BY <1>0, <1>1 DEF Within, Failed
  <2>2. ReadableBytes(b) # 0 /\ Settled(u, rs, k, n)
    BY <2>1 DEF Taken
  <2>3. g = ParseRequestLine(p, b)
    BY <1>1 DEF ParseRound
  <2> DEFINE h == ParseRequestLine(p, b)
  <2>4. \/ Failed(h.parser)
        \/ k < n /\ Within(h.parser, Contents(h.buffer) \o w, r, v)
    BY <1>1, <2>2, RoundOfRequestLine
  <2>5. g = h
    BY <2>3
  <2> HIDE DEF h
  <2>6. \/ Failed(g.parser)
        \/ k < n /\ Within(g.parser, z, r, v)
    BY <2>4, <2>5
  <2> HIDE DEF g, z
  <2>7. Taken(g.parser, g.buffer, z, rs, k, n)
    BY <2>6 DEF Taken
  <2> QED BY <2>7 DEF g, z
<1>2. CASE p.state # "ExpectRequestLine"
  <2>1. k < n /\ Within(p, u, r, v)
    BY <1>0, <1>2 DEF Taken, Failed
  <2>2. r \in Requests /\ WellFormed(r) /\ v \in Seq(Bytes)
    <3> DEFINE i == k + 1
    <3>1. i \in Nat /\ i <= n
      BY <2>1
    <3>2. rs[k + 1] \in Requests
      BY <2>1, RestFirst
    <3> HIDE DEF i
    <3>3. Rest(rs, i, n) \in Seq(Bytes)
      BY <3>1, RestTyped
    <3> QED BY <3>2, <3>3 DEF i
  <2> HIDE DEF r, v
  <2>3. Failed(g.parser) \/ Within(g.parser, z, r, v)
    <3>1. CASE p.state = "ExpectHeaders"
      <4>1. g = ParseHeader(p, b)
        BY <3>1 DEF ParseRound
      <4> DEFINE h == ParseHeader(p, b)
      <4>2. Failed(h.parser) \/ Within(h.parser, Contents(h.buffer) \o w, r, v)
        BY <2>1, <2>2, <3>1, RoundOfHeader
      <4> QED BY <4>1, <4>2
    <3>2. CASE p.state = "ExpectEmptyline"
      <4>1. g = ParseEmptyLine(p, b)
        BY <3>2 DEF ParseRound
      <4> DEFINE h == ParseEmptyLine(p, b)
      <4>2. Failed(h.parser) \/ Within(h.parser, Contents(h.buffer) \o w, r, v)
        BY <2>1, <2>2, <3>2, RoundOfEmptyLine
      <4> QED BY <4>1, <4>2
    <3>3. CASE p.state = "ExpectBody"
      <4>1. g = ParseBody(p, b)
        BY <3>3 DEF ParseRound
      <4> DEFINE h == ParseBody(p, b)
      <4>2. Within(h.parser, Contents(h.buffer) \o w, r, v)
        BY <2>1, <3>3, RoundOfBody
      <4> QED BY <4>1, <4>2
    <3> QED BY <1>0, <1>2, <3>1, <3>2, <3>3 DEF ParserStates
  <2> HIDE DEF g, z
  <2>4. Taken(g.parser, g.buffer, z, rs, k, n)
    BY <2>1, <2>3 DEF Taken, r, v
  <2> QED BY <2>4 DEF g, z
<1> QED BY <1>1, <1>2

\* More behind.
LEMMA SettledMore ==
  ASSUME NEW rs \in Seq(Requests), NEW k \in Nat, NEW n \in 0..(Len(rs) - 1), k <= n,
         NEW u \in Seq(Bytes), Settled(u, rs, k, n)
  PROVE  Settled(u \o RequestBytes(rs[n + 1]), rs, k, n + 1)
<1> DEFINE e == RequestBytes(rs[n + 1])
<1>1. e \in Seq(Bytes)
  BY RequestsAssumption, ElementOfSeq
<1>2. CASE u = Rest(rs, k, n)
  BY <1>2, RestMore DEF Settled
<1>3. CASE Stuck(u)
  <2> HIDE DEF e
  <2>1. Stuck(u \o e)
    BY <1>1, <1>3, StuckStays
  <2> QED BY <2>1 DEF Settled, e
<1> QED BY <1>2, <1>3 DEF Settled

LEMMA WithinMore ==
  ASSUME NEW r, WellFormed(r), NEW v \in Seq(Bytes), NEW p, NEW u, Within(p, u, r, v),
         NEW e \in Seq(Bytes)
  PROVE  Within(p, u \o e, r, v \o e)
<1>1. \A f \in Seq(Bytes) : (f \o v) \o e = f \o (v \o e)
  BY BytesAssociative
<1>2. ASSUME NEW hs \in Seq(Range(r.headers)), FieldsLeft(u, hs, r.body, v)
      PROVE  FieldsLeft(u \o e, hs, r.body, v \o e)
  <2> DEFINE f == Fields(hs, r.body)
  <2>1. r.body \in Seq(Bytes) /\ hs \in Seq(Seq(Bytes))
    BY WellFormedIs, HeadersAre
  <2>2. f \in Seq(Bytes)
    BY <2>1, FieldsTyped
  <2>3. u = f \o v
    BY <1>2 DEF FieldsLeft
  <2> HIDE DEF f
  <2>4. u \o e = f \o (v \o e)
    BY <1>1, <2>2, <2>3
  <2> QED BY <2>4 DEF f, FieldsLeft
<1>3. ASSUME BodyLeft(u, r.body, v) PROVE BodyLeft(u \o e, r.body, v \o e)
  <2> DEFINE f == r.body
  <2>1. f \in Seq(Bytes) /\ u = f \o v
    BY <1>3, WellFormedIs DEF BodyLeft
  <2> HIDE DEF f
  <2>2. u \o e = f \o (v \o e)
    BY <1>1, <2>1
  <2> QED BY <2>2 DEF f, BodyLeft
<1> QED BY <1>2, <1>3 DEF Within

\* What is left to read, as long as an answer can be sent.
Following ==
    LET k == Len(answers)
        u == Contents(buf) \o stream
    IN  /\ k <= sent
        /\ pc = "poll"  => Settled(u, requests, k, sent)
        /\ pc = "parse" => Taken(parser, buf, u, requests, k, sent)

\* The inductive invariant of AnswersInOrder.
OrderInv ==
    /\ pc = "app" => ~http
    /\ pc = "parse" => http
    /\ AnswersInOrder
    /\ state = "kConnected" => \A k \in DOMAIN answers : ~answers[k].close
    /\ http /\ state = "kConnected" => Following

LEMMA ServerTypes ==
  ASSUME IInv
  PROVE  /\ stream \in Seq(Bytes) /\ BufferOK(buf) /\ ParserOK(parser)
         /\ Contents(buf) \in Seq(Bytes) /\ Contents(buf) \o stream \in Seq(Bytes)
         /\ requests \in Seq(Requests) /\ Len(requests) \in Nat
         /\ sent \in 0..Len(requests) /\ sent \in Nat
         /\ answers \in Seq(Responses) /\ Len(answers) \in Nat
<1>1. /\ stream \in Seq(Bytes) /\ BufferOK(buf) /\ ParserOK(parser)
      /\ requests \in Seq(Requests) /\ sent \in 0..Len(requests)
      /\ answers \in Seq(Responses)
  BY DEF IInv, TypeOK
<1>2. Contents(buf) \in Seq(Bytes)
  BY <1>1, ContentsProperties
<1>3. Contents(buf) \o stream \in Seq(Bytes)
  BY <1>1, <1>2
<1>4. Len(requests) \in Nat /\ Len(answers) \in Nat
  BY <1>1, LenProperties
<1> QED BY <1>1, <1>2, <1>3, <1>4

\* What was answered stays so.
LEMMA OrderKept ==
  ASSUME IInv, AnswersInOrder, UNCHANGED <<answers, requests>>,
         sent' \in Nat, sent <= sent'
  PROVE  AnswersInOrder'
<1>1. sent \in Nat /\ DOMAIN answers = 1..Len(answers) /\ Len(answers) \in Nat
  BY ServerTypes
<1>2. ASSUME NEW k \in DOMAIN answers
      PROVE  /\ answers[k].close => k = Len(answers)
             /\ \/ answers[k].status = 400
                \/ /\ k <= sent'
                   /\ answers[k].status = Expected(requests[k]).status
                   /\ Expected(requests[k]).close => answers[k].close
  BY <1>1 DEF AnswersInOrder
<1> QED BY <1>2 DEF AnswersInOrder

\* The next answer, to the next request.
LEMMA OrderAppended ==
  ASSUME IInv, AnswersInOrder, \A k \in DOMAIN answers : ~answers[k].close,
         NEW a \in Responses, answers' = Append(answers, a), UNCHANGED <<requests, sent>>,
         \/ a.status = 400
         \/ /\ Len(answers) + 1 <= sent
            /\ a.status = Expected(requests[Len(answers) + 1]).status
            /\ Expected(requests[Len(answers) + 1]).close => a.close
  PROVE  AnswersInOrder'
<1> DEFINE n == Len(answers)
<1>1. /\ answers \in Seq(Responses) /\ n \in Nat /\ DOMAIN answers = 1..n
      /\ answers' \in Seq(Responses) /\ Len(answers') = n + 1
      /\ DOMAIN answers' = 1..(n + 1)
      /\ \A k \in 1..n : answers'[k] = answers[k]
      /\ answers'[n + 1] = a
  BY ServerTypes, AppendProperties
<1> HIDE DEF n
<1>2. ASSUME NEW k \in 1..(n + 1)
      PROVE  /\ answers'[k].close => k = n + 1
             /\ \/ answers'[k].status = 400
                \/ /\ k <= sent
                   /\ answers'[k].status = Expected(requests[k]).status
                   /\ Expected(requests[k]).close => answers'[k].close
  <2>1. CASE k \in 1..n
    <3>1. k \in DOMAIN answers /\ answers'[k] = answers[k]
      BY <1>1, <2>1
    <3>2. ~answers[k].close
      BY <3>1
    <3>3. \/ answers[k].status = 400
          \/ /\ k <= sent
             /\ answers[k].status = Expected(requests[k]).status
             /\ Expected(requests[k]).close => answers[k].close
      BY <3>1 DEF AnswersInOrder
    <3> QED BY <3>1, <3>2, <3>3
  <2>2. CASE k = n + 1
    BY <1>1, <2>2 DEF n
  <2> QED BY <1>1, <2>1, <2>2
<1> QED BY <1>1, <1>2 DEF AnswersInOrder

LEMMA PeerSendsFollows ==
  ASSUME \A r \in Requests : WellFormed(r), IInv, OrderInv, PeerSends
  PROVE  OrderInv'
<1> DEFINE k == Len(answers)
           u == Contents(buf) \o stream
           e == RequestBytes(requests[sent + 1])
<1>1. /\ stream \in Seq(Bytes) /\ BufferOK(buf) /\ Contents(buf) \in Seq(Bytes)
      /\ u \in Seq(Bytes) /\ requests \in Seq(Requests) /\ Len(requests) \in Nat
      /\ sent \in Nat /\ sent \in 0..(Len(requests) - 1) /\ k \in Nat
  BY ServerTypes DEF PeerSends
<1>2. /\ sent' = sent + 1 /\ stream' = stream \o e
      /\ UNCHANGED <<http, requests, state, pc, buf, parser, answers>>
  BY DEF PeerSends
<1>3. e \in Seq(Bytes)
  BY <1>1, RequestsAssumption, ElementOfSeq
<1> HIDE DEF e
<1>4. Contents(buf) \o (stream \o e) = u \o e
  BY <1>1, <1>3, BytesAssociative
<1>5. AnswersInOrder'
  BY <1>1, <1>2, OrderKept DEF OrderInv
<1>6. ASSUME http, state = "kConnected" PROVE Following'
  <2>1. /\ k <= sent
        /\ pc = "poll"  => Settled(u, requests, k, sent)
        /\ pc = "parse" => Taken(parser, buf, u, requests, k, sent)
    BY <1>6 DEF OrderInv, Following
  <2> HIDE DEF u, k
  <2>2. ASSUME Settled(u, requests, k, sent)
        PROVE  Settled(u \o e, requests, k, sent + 1)
    BY <1>1, <2>1, <2>2, SettledMore DEF e
  <2>3. ASSUME Taken(parser, buf, u, requests, k, sent)
        PROVE  Taken(parser, buf, u \o e, requests, k, sent + 1)
    <3>1. ASSUME k < sent, Within(parser, u, requests[k + 1], Rest(requests, k + 1, sent))
          PROVE  k < sent + 1 /\ Within(parser, u \o e, requests[k + 1], Rest(requests, k + 1, sent + 1))
      <4> DEFINE v == Rest(requests, k + 1, sent)
                 i == k + 1
                 r == requests[k + 1]
      <4>1. i \in Nat /\ i <= sent /\ sent \in 0..Len(requests) /\ k + 1 \in 1..Len(requests)
        BY <1>1, <3>1
      <4>2. WellFormed(r)
        BY <1>1, <4>1, ElementOfSeq
      <4> HIDE DEF i
      <4>3. Rest(requests, i, sent) \in Seq(Bytes)
        BY <1>1, <4>1, RestTyped
      <4>4. Rest(requests, i, sent + 1) = Rest(requests, i, sent) \o e
        BY <1>1, <4>1, RestMore DEF e
      <4>5. v \in Seq(Bytes) /\ Rest(requests, k + 1, sent + 1) = v \o e
        BY <4>3, <4>4 DEF i
      <4>6. Within(parser, u, r, v)
        BY <3>1
      <4> HIDE DEF v, r
      <4>7. Within(parser, u \o e, r, v \o e)
        BY <1>3, <4>2, <4>5, <4>6, WithinMore
      <4>8. k < sent + 1
        BY <1>1, <3>1
      <4>9. Rest(requests, k + 1, sent + 1) = v \o e
        BY <4>5
      <4> QED BY <4>7, <4>8, <4>9 DEF r
    <3> QED BY <2>2, <2>3, <3>1 DEF Taken
  <2>4. k <= sent + 1
    BY <1>1, <2>1
  <2>5. /\ Len(answers') = k /\ sent' = sent + 1 /\ requests' = requests
        /\ Contents(buf') \o stream' = u \o e /\ pc' = pc /\ parser' = parser /\ buf' = buf
    BY <1>2, <1>4 DEF k
  <2> QED BY <2>1, <2>2, <2>3, <2>4, <2>5 DEF Following
<1> QED BY <1>2, <1>5, <1>6 DEF OrderInv

LEMMA HandleReadFollows ==
  ASSUME IInv, OrderInv, NEW n \in 1..Len(stream), HandleRead(n)
  PROVE  OrderInv'
<1> DEFINE k == Len(answers)
           u == Contents(buf) \o stream
<1>1. /\ stream \in Seq(Bytes) /\ BufferOK(buf) /\ Contents(buf) \in Seq(Bytes)
      /\ u \in Seq(Bytes) /\ sent \in Nat /\ k \in Nat
  BY ServerTypes
<1>2. /\ pc = "poll" /\ stream' = SubSeq(stream, n + 1, Len(stream))
      /\ parser' = NewParser /\ pc' = IF http THEN "parse" ELSE "app"
      /\ UNCHANGED <<http, requests, sent, state, answers>>
  BY DEF HandleRead, Reading
<1>3. /\ stream' \in Seq(Bytes) /\ BufferOK(buf')
      /\ Contents(buf') = Contents(buf) \o SubSeq(stream, 1, n)
  BY <1>1, Reads
<1> DEFINE d == SubSeq(stream, 1, n)
           e == SubSeq(stream, n + 1, Len(stream))
           c == Contents(buf)
<1>4. /\ d \in Seq(Bytes) /\ e \in Seq(Bytes) /\ Len(d) # 0
      /\ d \o e = stream
  <2>1. n \in Nat /\ n <= Len(stream) /\ n # 0
    BY <1>1
  <2>2. d \o e = stream
    BY <1>1, <2>1, Cut
  <2>3. d \in Seq(Bytes) /\ e \in Seq(Bytes) /\ Len(d) = n
    BY <1>1, <2>1
  <2> QED BY <2>1, <2>2, <2>3
<1>c. c \in Seq(Bytes) /\ Contents(buf') = c \o d /\ stream' = e /\ u = c \o stream
  BY <1>1, <1>2, <1>3
<1> HIDE DEF c, d, e
<1>5. Contents(buf') \o stream' = u
  <2>1. (c \o d) \o e = c \o (d \o e)
    BY <1>4, <1>c, BytesAssociative
  <2> QED BY <1>4, <1>c, <2>1
<1>6. ReadableBytes(buf') # 0
  <2>1. Len(Contents(buf')) = ReadableBytes(buf')
    BY <1>3, ContentsProperties
  <2>2. Len(c \o d) = Len(c) + Len(d) /\ Len(c) \in Nat /\ Len(d) \in Nat
    BY <1>4, <1>c
  <2> QED BY <1>4, <1>c, <2>1, <2>2
<1>7. AnswersInOrder'
  BY <1>1, <1>2, OrderKept DEF OrderInv
<1>8. ASSUME http, state = "kConnected" PROVE Following'
  <2>1. k <= sent /\ Settled(u, requests, k, sent)
    BY <1>2, <1>8 DEF OrderInv, Following
  <2> HIDE DEF u, k
  <2>2. NewParser.state = "ExpectRequestLine"
    BY DEF NewParser
  <2>3. Taken(NewParser, buf', u, requests, k, sent)
    BY <1>6, <2>1, <2>2 DEF Taken
  <2>4. /\ Len(answers') = k /\ sent' = sent /\ requests' = requests
        /\ Contents(buf') \o stream' = u /\ pc' = "parse" /\ parser' = NewParser
    BY <1>2, <1>5, <1>8 DEF k
  <2> QED BY <2>1, <2>3, <2>4 DEF Following
<1> QED BY <1>2, <1>7, <1>8 DEF OrderInv

LEMMA ParseFollows ==
  ASSUME \A r \in Requests : WellFormed(r), IInv, OrderInv, Parse
  PROVE  OrderInv'
<1> DEFINE k == Len(answers)
           w == stream
           g == ParseRound(parser, buf)
<1>1. /\ w \in Seq(Bytes) /\ BufferOK(buf) /\ ParserOK(parser)
      /\ requests \in Seq(Requests) /\ sent \in 0..Len(requests) /\ sent \in Nat /\ k \in Nat
  BY ServerTypes
<1>2. /\ pc = "parse" /\ Parsing(parser) /\ parser' = g.parser /\ buf' = g.buffer
      /\ UNCHANGED <<http, requests, sent, stream, state, pc, answers>>
  BY DEF Parse, peerVars
<1>3. AnswersInOrder'
  BY <1>1, <1>2, OrderKept DEF OrderInv
<1>4. ASSUME http, state = "kConnected" PROVE Following'
  <2>1. k <= sent /\ Taken(parser, buf, Contents(buf) \o w, requests, k, sent)
    BY <1>2, <1>4 DEF OrderInv, Following
  <2> HIDE DEF w, k
  <2>2. Taken(g.parser, g.buffer, Contents(g.buffer) \o w, requests, k, sent)
    BY <1>1, <1>2, <2>1, Round
  <2> HIDE DEF g
  <2>3. /\ Len(answers') = k /\ sent' = sent /\ requests' = requests /\ stream' = w
        /\ pc' = "parse"
    BY <1>2 DEF k, w
  <2>4. Taken(parser', buf', Contents(buf') \o stream', requests', Len(answers'), sent')
    BY <1>2, <2>2, <2>3
  <2> QED BY <2>1, <2>3, <2>4 DEF Following
<1> QED BY <1>2, <1>3, <1>4 DEF OrderInv

LEMMA BadRequestFollows ==
  ASSUME IInv, OrderInv, BadRequest
  PROVE  OrderInv'
<1>1. /\ pc = "parse" /\ pc' = "poll" /\ Send(BadResponse) /\ Shutdown
      /\ UNCHANGED <<http, requests, sent>>
  BY DEF BadRequest, peerVars
<1>2. state' # "kConnected"
  BY <1>1 DEF Shutdown
<1>3. sent \in Nat
  BY ServerTypes
<1>4. AnswersInOrder'
  <2>1. CASE state = "kConnected"
    <3>1. answers' = Append(answers, BadResponse) /\ \A k \in DOMAIN answers : ~answers[k].close
      BY <1>1, <2>1 DEF Send, OrderInv
    <3>2. BadResponse \in Responses /\ BadResponse.status = 400
      BY DEF BadResponse, Responses, Versions
    <3> QED BY <1>1, <3>1, <3>2, OrderAppended DEF OrderInv
  <2>2. CASE state # "kConnected"
    BY <1>1, <1>3, <2>2, OrderKept DEF Send, OrderInv
  <2> QED BY <2>1, <2>2
<1> QED BY <1>1, <1>2, <1>4 DEF OrderInv

LEMMA ReplyRequestFollows ==
  ASSUME \A r \in Requests : WellFormed(r), IInv, OrderInv, ReplyRequest
  PROVE  OrderInv'
<1> DEFINE q == parser.request
           a == Response(q)
           k == Len(answers)
           u == Contents(buf) \o stream
<1>1. /\ pc = "parse" /\ parser.state = "Success" /\ Send(a) /\ pc' = "poll"
      /\ IF CloseAfter(q) THEN Shutdown ELSE UNCHANGED state
      /\ UNCHANGED <<http, requests, sent, stream, buf, parser>>
  BY DEF ReplyRequest, peerVars, Success
<1>2. /\ stream \in Seq(Bytes) /\ BufferOK(buf) /\ u \in Seq(Bytes)
      /\ requests \in Seq(Requests) /\ Len(requests) \in Nat
      /\ sent \in 0..Len(requests) /\ sent \in Nat /\ k \in Nat
      /\ answers \in Seq(Responses)
  BY ServerTypes
<1>3. http
  BY <1>1 DEF OrderInv
<1>4. CASE state # "kConnected"
  <2>1. answers' = answers /\ state' # "kConnected"
    BY <1>1, <1>4 DEF Send, Shutdown
  <2>2. AnswersInOrder'
    BY <1>1, <1>2, <2>1, OrderKept DEF OrderInv
  <2> QED BY <1>1, <1>3, <2>1, <2>2 DEF OrderInv
<1>5. CASE state = "kConnected"
  <2> DEFINE r == requests[k + 1]
             v == Rest(requests, k + 1, sent)
  <2>1. k < sent /\ Within(parser, u, r, v)
    <3>1. Taken(parser, buf, u, requests, k, sent)
      BY <1>1, <1>3, <1>5 DEF OrderInv, Following
    <3> QED BY <1>1, <3>1 DEF Taken, Failed
  <2>2. WellFormed(r) /\ v \in Seq(Bytes)
    <3> DEFINE i == k + 1
    <3>1. i \in Nat /\ i <= sent /\ i \in 1..Len(requests)
      BY <1>2, <2>1
    <3> HIDE DEF i
    <3>2. requests[i] \in Requests
      BY <1>2, <3>1, ElementOfSeq
    <3>3. Rest(requests, i, sent) \in Seq(Bytes)
      BY <1>2, <3>1, RestTyped
    <3> QED BY <3>2, <3>3 DEF i
  <2>3. Matches(q, r)
    BY <2>1 DEF Within
  <2> HIDE DEF r, v, q, u
  <2>4. u = v \/ Stuck(u)
    BY <2>1, <2>2, Leftover
  <2>5. Settled(u, requests, k + 1, sent)
    BY <2>4 DEF Settled, v
  <2>6. /\ a \in Responses /\ a.status = Expected(r).status /\ a.close = CloseAfter(q)
        /\ Expected(r).close => a.close
    <3>1. StatusOf(q) = Expected(r).status /\ (Expected(r).close => CloseAfter(q))
      BY <2>3, MatchAnswered
    <3>2. a.status = StatusOf(q) /\ a.close = CloseAfter(q) /\ a \in Responses
      BY ResponseTyped DEF Response
    <3> QED BY <3>1, <3>2
  <2> HIDE DEF a
  <2>7. answers' = Append(answers, a) /\ \A j \in DOMAIN answers : ~answers[j].close
    BY <1>1, <1>5 DEF Send, OrderInv
  <2>8. AnswersInOrder'
    <3>1. AnswersInOrder /\ k + 1 <= sent
      BY <1>2, <2>1 DEF OrderInv
    <3> QED BY <1>1, <2>6, <2>7, <3>1, OrderAppended DEF r
  <2>9. /\ Len(answers') = k + 1
        /\ \A j \in DOMAIN answers' : j \in DOMAIN answers \/ answers'[j] = a
        /\ \A j \in DOMAIN answers : answers'[j] = answers[j]
    BY <1>2, <2>6, <2>7, AppendProperties
  <2>10. ASSUME state' = "kConnected"
         PROVE  Following' /\ \A j \in DOMAIN answers' : ~answers'[j].close
    <3>1. ~CloseAfter(q)
      BY <1>1, <1>5, <2>10 DEF Shutdown
    <3>2. \A j \in DOMAIN answers' : ~answers'[j].close
      BY <2>6, <2>7, <2>9, <3>1
    <3>3. /\ Contents(buf') \o stream' = u /\ requests' = requests /\ sent' = sent
          /\ k + 1 <= sent
      BY <1>1, <1>2, <2>1 DEF u
    <3>4. Following'
      BY <1>1, <2>5, <2>9, <3>3 DEF Following
    <3> QED BY <3>2, <3>4
  <2> QED BY <1>1, <1>3, <2>8, <2>10 DEF OrderInv
<1> QED BY <1>4, <1>5

\* The actions that neither read nor answer requests.
LEMMA OthersFollow ==
  ASSUME IInv, OrderInv,
         \/ PeerCloses \/ HandleClose \/ AppReturns \/ UNCHANGED vars
         \/ \E b : CallsBuffer(b)
  PROVE  OrderInv'
<1>1. sent \in Nat
  BY ServerTypes
<1>2. UNCHANGED <<answers, requests, sent, http>> /\ UNCHANGED <<parser, stream>>
  BY DEF PeerCloses, HandleClose, AppReturns, CallsBuffer, vars, peerVars
<1>3. AnswersInOrder'
  BY <1>1, <1>2, OrderKept DEF OrderInv
<1>4. CASE PeerCloses \/ HandleClose \/ UNCHANGED vars
  <2>1. /\ UNCHANGED <<pc, buf>> /\ (state' = state \/ state' = "kDisconnected")
    BY <1>4 DEF PeerCloses, HandleClose, vars
  <2> QED BY <1>2, <1>3, <2>1 DEF OrderInv, Following
<1>5. CASE AppReturns \/ \E b : CallsBuffer(b)
  <2>1. ~http /\ pc' # "parse" /\ state' = state
    BY <1>5 DEF AppReturns, CallsBuffer, OrderInv
  <2> QED BY <1>2, <1>3, <2>1 DEF OrderInv
<1> QED BY <1>4, <1>5

LEMMA OrderInitially == Init => OrderInv
<1> SUFFICES ASSUME Init PROVE OrderInv
  OBVIOUS
<1>1. answers = <<>> /\ Len(answers) = 0 /\ DOMAIN answers = {} /\ sent = 0 /\ pc = "poll"
  BY DEF Init
<1>2. Contents(buf) \o stream = <<>>
  BY BufferSizesAssumption, NewBufferProperties DEF Init
<1>3. Rest(requests, 0, 0) = <<>>
  <2>1. IInv
    BY Initially
  <2>2. requests \in Seq(Requests) /\ 0 \in 0..Len(requests)
    BY <2>1, ServerTypes
  <2> QED BY <2>2, RestNone
<1> QED BY <1>1, <1>2, <1>3 DEF OrderInv, Following, Settled, AnswersInOrder

LEMMA OrderInductive ==
  ASSUME \A r \in Requests : WellFormed(r), IInv, OrderInv, [Next]_vars
  PROVE  OrderInv'
<1>1. CASE App
  <2>1. BufferOK(buf)
    BY ServerTypes
  <2>2. \E b : CallsBuffer(b)
    BY <1>1, <2>1, AppCalls
  <2> QED BY <2>2, OthersFollow
<1>2. CASE Loop
  BY <1>2, HandleReadFollows, ParseFollows, BadRequestFollows, ReplyRequestFollows,
     OthersFollow DEF Loop, OnMessage
<1> QED BY <1>1, <1>2, PeerSendsFollows, OthersFollow DEF Next

\* AnswersInOrder always holds (module HttpServer), for requests by the grammar:
\* however they are cut, run together or left with a body, no answer is given to
\* the wrong request (HttpServer::onMessage, HttpParse::parseRequest).
THEOREM RequestsAnsweredInOrder ==
  ASSUME \A r \in Requests : WellFormed(r)
  PROVE  Spec => []AnswersInOrder
<1>1. IInv /\ OrderInv /\ [Next]_vars => IInv' /\ OrderInv'
  BY Inductive, OrderInductive
<1>2. OrderInv => AnswersInOrder
  BY DEF OrderInv
<1> QED BY <1>1, <1>2, Initially, OrderInitially, PTL DEF Spec
=============================================================================
