-------------------------------- MODULE Codec --------------------------------
(***************************************************************************)
(* LengthHeaderCodec of src/chat/codec.h: a message is sent behind its     *)
(* length, a number of HeaderLen bytes, the highest first.                 *)
(***************************************************************************)
EXTENDS Buffer, SequencesExt

CONSTANTS
    Base,           \* how many values a byte has: the bytes are 0..Base-1
    HeaderLen,      \* kHeaderLen
    MaxLength       \* the longest message onMessage() accepts, 65536

ASSUME BaseAssumption == Base \in Nat \ {0, 1} /\ Bytes = 0..(Base - 1)

\* Base to the power of n: how many numbers n bytes make.
Power(n) == LET power[i \in 0..n] == IF i = 0 THEN 1 ELSE power[i - 1] * Base
            IN  power[n]

ASSUME HeaderAssumption ==
    /\ HeaderLen \in Nat \ {0} /\ HeaderLen <= CheapPrepend
    /\ MaxLength \in Nat /\ MaxLength < Power(HeaderLen)

\* hostToNetwork32() and networkToHost32().
Header(len) == [i \in 1..HeaderLen |-> (len \div Power(HeaderLen - i)) % Base]
Length(header) ==
    LET len[i \in 0..Len(header)] ==
            IF i = 0 THEN 0 ELSE len[i - 1] * Base + header[i]
    IN  len[Len(header)]

\* Negative lengths are those with the highest bit set: too long as well.
Invalid(len) == len > MaxLength

\* send(): what conn->send() gets.  Nothing checks the length here.
Encode(message) ==
    Contents(Prepend(AppendBytes(NewBuffer(InitialSize), message),
                     Header(Len(message))))

\* What is at the front of the readable bytes, by peek().
Peek(b, n) == SubSeq(Contents(b), 1, n)

Waiting(b)  == [buffer |-> b, messages |-> <<>>, shutdown |-> FALSE]
Rejected(b) == [buffer |-> b, messages |-> <<>>, shutdown |-> TRUE]

\* One round of the loop of onMessage(): whether a header is there, whether
\* it is a good one, and whether the message is there.
HeaderThere(b)  == ReadableBytes(b) >= HeaderLen
NextLength(b)   == Length(Peek(b, HeaderLen))
MessageThere(b) == ReadableBytes(b) >= NextLength(b) + HeaderLen
NextMessage(b)  == Peek(Retrieve(b, HeaderLen), NextLength(b))
BehindMessage(b) == Retrieve(Retrieve(b, HeaderLen), NextLength(b))

\* The loop: the messages it hands to messageCallback_ in their order, what
\* it leaves in the buffer and whether it shuts the connection down.  An
\* invalid header stays where it is.
Split[b \in {x \in Buffers : BufferOK(x)}] ==
    CASE ~HeaderThere(b) -> Waiting(b)
      [] HeaderThere(b) /\ Invalid(NextLength(b)) -> Rejected(b)
      [] HeaderThere(b) /\ ~Invalid(NextLength(b)) /\ ~MessageThere(b) -> Waiting(b)
      [] OTHER -> [Split[BehindMessage(b)] EXCEPT !.messages = <<NextMessage(b)>> \o @]

\* onMessage() that drops an invalid header and goes on behind it.
OnMessageSkips(b) ==
    LET r == Split[b]
    IN  IF r.shutdown
        THEN LET s == Split[Retrieve(r.buffer, HeaderLen)]
             IN  [s EXCEPT !.messages = r.messages \o @, !.shutdown = TRUE]
        ELSE r

\* onMessage() that takes one message of a segment.
OnMessageOnce(b) ==
    IF Split[b].messages = <<>>
    THEN Split[b]
    ELSE [Waiting(BehindMessage(b)) EXCEPT !.messages = <<NextMessage(b)>>]

OnMessage(b) == Split[b]
=============================================================================
