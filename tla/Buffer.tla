------------------------------- MODULE Buffer -------------------------------
(***************************************************************************)
(* The Buffer of src/WebServer/Buffer.h and Buffer.cpp, as operators on a  *)
(* record: the vector buffer_ with the readable bytes between readerIndex_ *)
(* and writerIndex_ (indices from 0), free space before and behind them.   *)
(*                                                                         *)
(*     0  <=  readerIndex_  <=  writerIndex_  <=  buffer_.size()           *)
(*                                                                         *)
(* Space left by bytes that were retrieved keeps them until it is written  *)
(* again, as in the vector.  The operators say what a call does when its   *)
(* asserts hold; these are stated beside them.                             *)
(***************************************************************************)
EXTENDS Integers, Sequences

CONSTANTS
    Bytes,          \* the bytes there are
    Zero,           \* what resize() fills the vector with
    CheapPrepend,   \* kCheapPrepend
    InitialSize,    \* kInitialSize
    ExtraSize       \* the size of readFd()'s extrabuf

ASSUME ZeroAssumption == Zero \in Bytes
ASSUME BufferSizesAssumption ==
    /\ CheapPrepend \in Nat /\ InitialSize \in Nat
    /\ ExtraSize \in Nat \ {0}

Buffers == [buffer : Seq(Bytes), reader : Nat, writer : Nat]

\* The vector always has room for the space in front, which retrieveAll()
\* and makeSpace() take for granted.
BufferOK(b) ==
    /\ b \in Buffers
    /\ b.reader <= b.writer /\ b.writer <= Len(b.buffer)
    /\ CheapPrepend <= Len(b.buffer)

Zeros(n) == [i \in 1..n |-> Zero]

NewBuffer(size) ==
    [buffer |-> Zeros(CheapPrepend + size),
     reader |-> CheapPrepend, writer |-> CheapPrepend]

ReadableBytes(b) == b.writer - b.reader
WritableBytes(b) == Len(b.buffer) - b.writer
PrependableBytes(b) == b.reader

\* The readable bytes: what the Buffer holds.
Contents(b) == SubSeq(b.buffer, b.reader + 1, b.writer)

RetrieveAll(b) == [b EXCEPT !.reader = CheapPrepend, !.writer = CheapPrepend]

RetrieveAsserts(b, n) == n <= ReadableBytes(b)

\* retrieve(), which starts afresh when nothing is left.
Retrieve(b, n) ==
    IF n < ReadableBytes(b) THEN [b EXCEPT !.reader = @ + n] ELSE RetrieveAll(b)

\* The vector grown to n bytes.
Resize(v, n) == v \o Zeros(n - Len(v))

\* The vector with d written from index at on.
Write(v, at, d) ==
    SubSeq(v, 1, at) \o d \o SubSeq(v, at + Len(d) + 1, Len(v))

\* makeSpace() that forgets the space kept in front.
GrowsLate(b, n) == WritableBytes(b) + PrependableBytes(b) < n

\* makeSpace() finds that moving the bytes would not be enough.
Grows(b, n) == WritableBytes(b) + PrependableBytes(b) < n + CheapPrepend

MakeSpaceAsserts(b, n) == ~Grows(b, n) => CheapPrepend < b.reader

\* makeSpace() that moves the bytes to the front without regard to the
\* space that is kept there for prepend().
MakeSpaceFromZero(b, n) ==
    IF Grows(b, n)
    THEN [b EXCEPT !.buffer = Resize(@, b.writer + n)]
    ELSE [buffer |-> Write(b.buffer, 0, Contents(b)),
          reader |-> 0, writer |-> CheapPrepend + ReadableBytes(b)]

\* makeSpace(): a larger vector, or the readable bytes moved to the front if
\* that makes room enough.
MakeSpace(b, n) ==
    IF Grows(b, n)
    THEN [b EXCEPT !.buffer = Resize(@, b.writer + n)]
    ELSE [buffer |-> Write(b.buffer, CheapPrepend, Contents(b)),
          reader |-> CheapPrepend, writer |-> CheapPrepend + ReadableBytes(b)]

EnsureWritableBytes(b, n) == IF WritableBytes(b) < n THEN MakeSpace(b, n) ELSE b

EnsureAsserts(b, n) ==
    /\ WritableBytes(b) < n => MakeSpaceAsserts(b, n)
    /\ WritableBytes(EnsureWritableBytes(b, n)) >= n

\* append() into space that there is.
WriteBehind(b, d) ==
    [b EXCEPT !.buffer = Write(@, b.writer, d), !.writer = @ + Len(d)]

AppendBytes(b, d) == WriteBehind(EnsureWritableBytes(b, Len(d)), d)

PrependAsserts(b, d) == Len(d) <= PrependableBytes(b)

Prepend(b, d) ==
    [b EXCEPT !.buffer = Write(@, b.reader - Len(d), d), !.reader = @ - Len(d)]

\* shrink(): the bytes go to a new Buffer with some space behind them.
Shrink(b, reserve) ==
    AppendBytes(EnsureWritableBytes(NewBuffer(InitialSize), ReadableBytes(b) + reserve),
                Contents(b))

\* How much one readv() may bring.
ReadFdRoom(b) == WritableBytes(b) + (IF WritableBytes(b) < ExtraSize THEN ExtraSize ELSE 0)

\* readFd() with n <= writable for the whole of the bytes.
ReadFdTruncated(b, d) ==
    IF Len(d) <= WritableBytes(b)
    THEN WriteBehind(b, d)
    ELSE WriteBehind(b, SubSeq(d, 1, WritableBytes(b)))

\* readFd(): what does not fit behind the readable bytes goes to extrabuf
\* and is appended from there.
ReadFd(b, d) ==
    LET w == WritableBytes(b) IN
    IF Len(d) <= w
    THEN WriteBehind(b, d)
    ELSE AppendBytes(WriteBehind(b, SubSeq(d, 1, w)), SubSeq(d, w + 1, Len(d)))

ReadFdAsserts(b, d) ==
    LET w == WritableBytes(b) IN
    Len(d) > w => EnsureAsserts(WriteBehind(b, SubSeq(d, 1, w)), Len(d) - w)

\* Where s first is in the readable bytes: its position from 1 on, or 0.
Find(b, s) ==
    LET c  == Contents(b)
        at == {i \in 1..(Len(c) - Len(s) + 1) : SubSeq(c, i, i + Len(s) - 1) = s}
    IN  IF at = {} THEN 0 ELSE CHOOSE i \in at : \A j \in at : i <= j
=============================================================================
