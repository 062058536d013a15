------------------------------ MODULE HttpParse ------------------------------
(***************************************************************************)
(* HttpParse and HttpRequest of src/http: the parser of one request over   *)
(* the bytes of a Buffer.  The bytes are the words of a request, so that a *)
(* method, a path or a header's name is one of them or is cut nowhere.     *)
(*                                                                         *)
(* A parser is a record of state_, request_ and the two flags of the loop  *)
(* of parseRequest(); each operator below but the first is one round of    *)
(* that loop and gives the parser and the buffer after it.                 *)
(***************************************************************************)
EXTENDS Buffer, SequencesExt

ASSUME WordsAssumption == {"SP", "CR", "LF"} \subseteq Bytes

Methods  == {"GET", "POST", "HEAD"}
Versions == {"HTTP/1.0", "HTTP/1.1"}

NewRequest == [method |-> "Invalid", version |-> "Unknown", path |-> <<>>,
               query |-> <<>>, headers |-> <<>>]

NewParser == [state |-> "ExpectRequestLine", ok |-> TRUE, hasMore |-> TRUE,
              request |-> NewRequest]

ParserStates == {"ExpectRequestLine", "ExpectHeaders", "ExpectEmptyline",
                 "ExpectBody", "Success"}

\* std::find(): where w is first in line, or behind its end.
At(line, w) ==
    LET found == {i \in DOMAIN line : line[i] = w}
    IN  IF found = {} THEN Len(line) + 1 ELSE CHOOSE i \in found : \A j \in found : i <= j

Before(line, w) == SubSeq(line, 1, At(line, w) - 1)
Behind(line, w) == SubSeq(line, At(line, w) + 1, Len(line))
Has(line, w)    == At(line, w) <= Len(line)

\* processRequestLine() succeeds.
LineOK(line) ==
    LET behindMethod == Behind(line, "SP") IN
    /\ Has(line, "SP")
    /\ \E m \in Methods : Before(line, "SP") = <<m>>
    /\ Has(behindMethod, "SP")
    /\ \E v \in Versions : Behind(behindMethod, "SP") = <<v>>

\* What it stores in request_ then: setMethod(), setPath(), setQuery() with
\* its '?', setVersion().
RequestOf(line) ==
    LET target == Before(Behind(line, "SP"), "SP")
        path   == Before(target, "?")
    IN  [NewRequest EXCEPT
            !.method = line[1], !.version = line[Len(line)], !.path = path,
            !.query = SubSeq(target, Len(path) + 1, Len(target))]

\* Without the spaces at both ends.
Trim(value) ==
    LET words == {i \in DOMAIN value : value[i] # "SP"}
    IN  IF words = {} THEN <<>>
        ELSE SubSeq(value, CHOOSE i \in words : \A j \in words : i <= j,
                           CHOOSE i \in words : \A j \in words : j <= i)

\* addHeader(): headers_[field] = value.
AddHeader(request, line) ==
    LET field == Before(line, ":")
        value == Trim(Behind(line, ":"))
    IN  [request EXCEPT !.headers =
            [f \in DOMAIN @ \cup {field} |-> IF f = field THEN value ELSE @[f]]]

\* getHeader()
GetHeader(request, field) ==
    IF field \in DOMAIN request.headers THEN request.headers[field] ELSE <<>>

CRLF == <<"CR", "LF">>

\* findCRLF(), the line before it, and retrieveUntil(crlf + 2).
HasLine(b)  == Find(b, CRLF) # 0
Line(b)     == SubSeq(Contents(b), 1, Find(b, CRLF) - 1)
SkipLine(b) == Retrieve(b, Find(b, CRLF) + 1)

Goes(p, b) == [parser |-> p, buffer |-> b]

\* No line is there, or a wrong one: the request is bad.
Fail(p, b) == Goes([p EXCEPT !.ok = FALSE, !.hasMore = FALSE], b)

\* The line is taken; a request ends where the bytes that have come end.
Advance(p, b, next) ==
    LET rest == SkipLine(b) IN
    Goes(IF ReadableBytes(rest) = 0
         THEN [p EXCEPT !.hasMore = FALSE, !.state = "Success"]
         ELSE [p EXCEPT !.state = next], rest)

ParseRequestLine(p, b) ==
    IF HasLine(b) /\ LineOK(Line(b))
    THEN Advance([p EXCEPT !.request = RequestOf(Line(b))], b, "ExpectHeaders")
    ELSE Fail(p, b)

ParseHeader(p, b) ==
    CASE ~HasLine(b) -> Fail(p, b)
      [] HasLine(b) /\ Has(Line(b), ":") ->
            Advance([p EXCEPT !.request = AddHeader(@, Line(b))], b, "ExpectHeaders")
      [] OTHER -> Goes([p EXCEPT !.state = "ExpectEmptyline"], b)

\* The empty line left in the buffer.
LeaveEmptyLine(p, b) ==
    IF HasLine(b) /\ Line(b) = <<>>
    THEN Goes([p EXCEPT !.state = "ExpectBody"], b)
    ELSE Fail(p, b)

ParseEmptyLine(p, b) ==
    IF HasLine(b) /\ Line(b) = <<>>
    THEN Advance(p, b, "ExpectBody")
    ELSE Fail(p, b)

\* The body stays in the buffer.
ParseBody(p, b) == Goes([p EXCEPT !.state = "Success", !.hasMore = FALSE], b)

\* while (hasMore && ok)
Parsing(p) == p.hasMore /\ p.ok

ParseRound(p, b) ==
    CASE p.state = "ExpectRequestLine" -> ParseRequestLine(p, b)
      [] p.state = "ExpectHeaders"     -> ParseHeader(p, b)
      [] p.state = "ExpectEmptyline"   -> ParseEmptyLine(p, b)
      [] p.state = "ExpectBody"        -> ParseBody(p, b)

Success(p) == p.state = "Success"
=============================================================================
