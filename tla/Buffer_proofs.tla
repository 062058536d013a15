--------------------------- MODULE Buffer_proofs ----------------------------
(***************************************************************************)
(* Proofs about Buffer, for any sizes and any bytes: every operation keeps *)
(* the indices in their places, its asserts hold, and the readable bytes   *)
(* after it are what a queue of bytes would have.                          *)
(*                                                                         *)
(* HttpServer_proofs and Chat_proofs rest on it, and on the induction at its *)
(* end: from the smallest number of a set, which the library's theorem on  *)
(* well-founded relations gives, comes induction over the numbers, and from *)
(* that the functions that are defined by recursion along a sequence.      *)
(***************************************************************************)
EXTENDS Buffer, SequencesExt, SequenceTheorems, WellFoundedInduction, TLAPS
-----------------------------------------------------------------------------
(* Buffer.                                                                 *)

\* Where the i-th of s bytes behind r is, among l.
LEMMA PlaceOf ==
  ASSUME NEW r \in Nat, NEW s \in Nat, NEW l \in Nat, r + s <= l, NEW i \in 1..s
  PROVE  /\ r + i \in 1..l /\ r + i <= l /\ r < r + i /\ r + i <= r + s
         /\ (r + i) - r = i
OBVIOUS

LEMMA SubSeqTyped ==
  ASSUME NEW v \in Seq(Bytes), NEW m \in Nat \ {0}, NEW n \in Int, n <= Len(v)
  PROVE  /\ SubSeq(v, m, n) \in Seq(Bytes)
         /\ Len(SubSeq(v, m, n)) = IF m <= n THEN n - m + 1 ELSE 0
         /\ \A i \in 1..(n - m + 1) : SubSeq(v, m, n)[i] = v[m + i - 1]
<1>1. \A i \in m..n : v[i] \in Bytes
  BY ElementOfSeq
<1> QED BY <1>1, SubSeqProperties

LEMMA ConcatThree ==
  ASSUME NEW p \in Seq(Bytes), NEW d \in Seq(Bytes), NEW r \in Seq(Bytes)
  PROVE  /\ p \o d \o r \in Seq(Bytes)
         /\ Len(p \o d \o r) = Len(p) + Len(d) + Len(r)
         /\ \A i \in 1..(Len(p) + Len(d) + Len(r)) : (p \o d \o r)[i] =
              IF i <= Len(p) THEN p[i]
              ELSE IF i <= Len(p) + Len(d) THEN d[i - Len(p)]
              ELSE r[i - (Len(p) + Len(d))]
<1> DEFINE pd == p \o d
<1>0. Len(p) \in Nat /\ Len(d) \in Nat /\ Len(r) \in Nat
  BY LenProperties
<1>1. /\ pd \in Seq(Bytes) /\ Len(pd) = Len(p) + Len(d)
      /\ \A i \in 1..(Len(p) + Len(d)) :
            pd[i] = IF i <= Len(p) THEN p[i] ELSE d[i - Len(p)]
  BY ConcatProperties
<1> HIDE DEF pd
<1>2. /\ pd \o r \in Seq(Bytes) /\ Len(pd \o r) = Len(pd) + Len(r)
      /\ \A i \in 1..(Len(pd) + Len(r)) :
            (pd \o r)[i] = IF i <= Len(pd) THEN pd[i] ELSE r[i - Len(pd)]
  <2>1. pd \in Seq(Bytes)
    BY <1>1
  <2> QED BY <2>1, ConcatProperties
<1>3. \A i \in 1..(Len(p) + Len(d) + Len(r)) : (pd \o r)[i] =
              IF i <= Len(p) THEN p[i]
              ELSE IF i <= Len(p) + Len(d) THEN d[i - Len(p)]
              ELSE r[i - (Len(p) + Len(d))]
  BY <1>0, <1>1, <1>2
<1> QED BY <1>1, <1>2, <1>3 DEF pd

LEMMA WriteProperties ==
  ASSUME NEW v \in Seq(Bytes), NEW d \in Seq(Bytes), NEW at \in Nat,
         at + Len(d) <= Len(v)
  PROVE  /\ Write(v, at, d) \in Seq(Bytes)
         /\ Len(Write(v, at, d)) = Len(v)
         /\ \A i \in 1..Len(v) : Write(v, at, d)[i] =
              IF at < i /\ i <= at + Len(d) THEN d[i - at] ELSE v[i]
         /\ \A i \in 1..Len(d) : Write(v, at, d)[at + i] = d[i]
<1> DEFINE p == SubSeq(v, 1, at)
           r == SubSeq(v, at + Len(d) + 1, Len(v))
<1>0. Len(v) \in Nat /\ Len(d) \in Nat
  BY LenProperties
<1>1. /\ p \in Seq(Bytes) /\ Len(p) = at
      /\ \A i \in 1..at : p[i] = v[i]
  BY <1>0, SubSeqTyped
<1>2. /\ r \in Seq(Bytes) /\ Len(r) = Len(v) - (at + Len(d))
      /\ \A i \in 1..(Len(v) - (at + Len(d))) : r[i] = v[at + Len(d) + i]
  <2> DEFINE k == at + Len(d) + 1
  <2>1. k \in Nat \ {0} /\ Len(v) \in Int /\ Len(v) <= Len(v)
    BY <1>0
  <2>2. r = SubSeq(v, k, Len(v))
    OBVIOUS
  <2>3. k = at + Len(d) + 1
    OBVIOUS
  <2> HIDE DEF k, r
  <2>4. /\ r \in Seq(Bytes)
        /\ Len(r) = IF k <= Len(v) THEN Len(v) - k + 1 ELSE 0
        /\ \A i \in 1..(Len(v) - k + 1) : r[i] = v[k + i - 1]
    BY <2>1, <2>2, SubSeqTyped, SMTT(60)
  <2> QED BY <1>0, <2>3, <2>4, SMTT(60)
<1>3. Write(v, at, d) = p \o d \o r
  BY DEF Write
<1> HIDE DEF p, r
<1>4. /\ p \o d \o r \in Seq(Bytes)
      /\ Len(p \o d \o r) = Len(v)
      /\ \A i \in 1..Len(v) : (p \o d \o r)[i] =
              IF i <= at THEN p[i]
              ELSE IF i <= at + Len(d) THEN d[i - at]
              ELSE r[i - (at + Len(d))]
  <2>1. Len(p) + Len(d) + Len(r) = Len(v)
    BY <1>0, <1>1, <1>2
  <2>2. /\ p \o d \o r \in Seq(Bytes)
        /\ Len(p \o d \o r) = Len(p) + Len(d) + Len(r)
        /\ \A i \in 1..(Len(p) + Len(d) + Len(r)) : (p \o d \o r)[i] =
              IF i <= Len(p) THEN p[i]
              ELSE IF i <= Len(p) + Len(d) THEN d[i - Len(p)]
              ELSE r[i - (Len(p) + Len(d))]
    <3>1. p \in Seq(Bytes) /\ r \in Seq(Bytes)
      BY <1>1, <1>2
    <3> QED BY <3>1, ConcatThree
  <2>3. Len(p) = at
    BY <1>1
  <2> DEFINE w == p \o d \o r
  <2> HIDE DEF w
  <2>4. /\ w \in Seq(Bytes) /\ Len(w) = Len(v)
        /\ \A i \in 1..Len(v) : w[i] =
              IF i <= at THEN p[i]
              ELSE IF i <= at + Len(d) THEN d[i - at]
              ELSE r[i - (at + Len(d))]
    BY <2>1, <2>2, <2>3, Zenon DEF w
  <2> QED BY <2>4, Zenon DEF w
<1>5. ASSUME NEW i \in 1..Len(v)
      PROVE  (p \o d \o r)[i] =
                IF at < i /\ i <= at + Len(d) THEN d[i - at] ELSE v[i]
  <2>1. CASE i <= at
    BY <1>0, <1>1, <1>4, <2>1
  <2>2. CASE at < i /\ i <= at + Len(d)
    BY <1>0, <1>4, <2>2
  <2>3. CASE at + Len(d) < i
    <3>1. /\ i - (at + Len(d)) \in 1..(Len(v) - (at + Len(d)))
          /\ at + Len(d) + (i - (at + Len(d))) = i
          /\ ~(i <= at) /\ ~(i <= at + Len(d)) /\ ~(at < i /\ i <= at + Len(d))
      BY <1>0, <2>3
    <3> QED BY <1>2, <1>4, <3>1
  <2>4. i \in Int /\ at \in Int /\ at + Len(d) \in Int
    BY <1>0
  <2>5. i <= at \/ (at < i /\ i <= at + Len(d)) \/ at + Len(d) < i
    BY <2>4
  <2> QED BY <2>1, <2>2, <2>3, <2>5
<1>6. ASSUME NEW i \in 1..Len(d)
      PROVE  (p \o d \o r)[at + i] = d[i]
  <2> DEFINE k == at + i
  <2>1. /\ k \in 1..Len(v) /\ at < k /\ k <= at + Len(d) /\ k - at = i
    BY <1>0, PlaceOf
  <2> HIDE DEF k
  <2>2. (p \o d \o r)[k] = d[k - at]
    BY <1>5, <2>1
  <2> QED BY <2>1, <2>2 DEF k
<1> QED BY <1>3, <1>4, <1>5, <1>6

-----------------------------------------------------------------------------
(* Types and the readable bytes.                                           *)

LEMMA BufferTypes ==
  ASSUME NEW b, BufferOK(b)
  PROVE  /\ b \in Buffers /\ b.buffer \in Seq(Bytes)
         /\ b.reader \in Nat /\ b.writer \in Nat /\ Len(b.buffer) \in Nat
         /\ b.reader <= b.writer /\ b.writer <= Len(b.buffer)
         /\ CheapPrepend \in Nat /\ CheapPrepend <= Len(b.buffer)
         /\ ReadableBytes(b) \in Nat /\ WritableBytes(b) \in Nat
         /\ b.writer = b.reader + ReadableBytes(b)
         /\ Len(b.buffer) = b.writer + WritableBytes(b)
<1>1. b.buffer \in Seq(Bytes) /\ b.reader \in Nat /\ b.writer \in Nat
  BY DEF BufferOK, Buffers
<1>2. Len(b.buffer) \in Nat
  BY <1>1, LenProperties
<1> QED
  BY <1>1, <1>2, BufferSizesAssumption
  DEF BufferOK, ReadableBytes, WritableBytes

LEMMA ContentsProperties ==
  ASSUME NEW b, BufferOK(b)
  PROVE  /\ Contents(b) \in Seq(Bytes)
         /\ Len(Contents(b)) = ReadableBytes(b)
         /\ \A i \in 1..ReadableBytes(b) : Contents(b)[i] = b.buffer[b.reader + i]
<1>1. /\ b.buffer \in Seq(Bytes) /\ b.reader \in Nat /\ b.writer \in Nat
      /\ b.reader <= b.writer /\ b.writer <= Len(b.buffer)
      /\ ReadableBytes(b) \in Nat /\ b.writer = b.reader + ReadableBytes(b)
  BY BufferTypes
<1> DEFINE k == b.reader + 1
           s == SubSeq(b.buffer, k, b.writer)
<1>3. /\ s \in Seq(Bytes)
      /\ Len(s) = IF k <= b.writer THEN b.writer - k + 1 ELSE 0
      /\ \A i \in 1..(b.writer - k + 1) : s[i] = b.buffer[k + i - 1]
  <2>1. b.writer \in Int /\ k \in Nat \ {0}
    BY <1>1
  <2>2. b.buffer \in Seq(Bytes) /\ b.writer <= Len(b.buffer)
    BY <1>1
  <2> HIDE DEF k
  <2> QED BY <2>1, <2>2, SubSeqTyped
<1>k. k = b.reader + 1
  OBVIOUS
<1> HIDE DEF s, k
<1>4. Contents(b) = s
  BY DEF Contents, s, k
<1>5. b.writer - k + 1 = ReadableBytes(b) /\ k \in Int
  <2>1. \A r, n \in Nat : (r + n) - (r + 1) + 1 = n
    OBVIOUS
  <2>2. b.reader \in Nat /\ ReadableBytes(b) \in Nat /\ b.writer = b.reader + ReadableBytes(b)
    BY <1>1
  <2> QED BY <1>k, <2>1, <2>2
<1>6. Len(s) = ReadableBytes(b)
  BY <1>1, <1>3, <1>5
<1>7. ASSUME NEW i \in 1..ReadableBytes(b)
      PROVE  s[i] = b.buffer[b.reader + i]
  <2>1. k + i - 1 = b.reader + i
    BY <1>1, <1>k
  <2> QED BY <1>3, <1>5, <2>1
<1> QED BY <1>3, <1>4, <1>6, <1>7

\* What the readable bytes are, byte by byte.
LEMMA ContentsAre ==
  ASSUME NEW b, BufferOK(b), NEW s \in Seq(Bytes),
         Len(s) = ReadableBytes(b),
         \A i \in 1..ReadableBytes(b) : s[i] = b.buffer[b.reader + i]
  PROVE  Contents(b) = s
<1>1. /\ Contents(b) \in Seq(Bytes)
      /\ Len(Contents(b)) = Len(s)
      /\ \A i \in 1..Len(Contents(b)) : Contents(b)[i] = s[i]
  BY ContentsProperties
<1> QED BY <1>1, SeqEqual

\* A buffer by its parts.
LEMMA BufferIs ==
  ASSUME NEW v \in Seq(Bytes), NEW r \in Nat, NEW w \in Nat,
         r <= w, w <= Len(v), CheapPrepend <= Len(v)
  PROVE  BufferOK([buffer |-> v, reader |-> r, writer |-> w])
BY DEF BufferOK, Buffers

LEMMA EmptyBuffer ==
  ASSUME NEW b, BufferOK(b), ReadableBytes(b) = 0
  PROVE  Contents(b) = <<>>
<1>1. Contents(b) \in Seq(Bytes) /\ Len(Contents(b)) = 0
  BY ContentsProperties
<1> QED BY <1>1, EmptySeq

LEMMA ZerosProperties ==
  ASSUME NEW n \in Nat
  PROVE  Zeros(n) \in Seq(Bytes) /\ Len(Zeros(n)) = n
BY ZeroAssumption DEF Zeros

LEMMA ResizeProperties ==
  ASSUME NEW v \in Seq(Bytes), NEW k \in Nat, Len(v) <= k
  PROVE  /\ Resize(v, k) \in Seq(Bytes)
         /\ Len(Resize(v, k)) = k
         /\ \A i \in 1..Len(v) : Resize(v, k)[i] = v[i]
<1> DEFINE z == Zeros(k - Len(v))
<1>1. Len(v) \in Nat /\ k - Len(v) \in Nat
  BY LenProperties
<1>2. z \in Seq(Bytes) /\ Len(z) = k - Len(v)
  BY <1>1, ZerosProperties
<1>3. Resize(v, k) = v \o z
  BY DEF Resize
<1> HIDE DEF z
<1>4. /\ v \o z \in Seq(Bytes) /\ Len(v \o z) = Len(v) + Len(z)
      /\ \A i \in 1..(Len(v) + Len(z)) :
            (v \o z)[i] = IF i <= Len(v) THEN v[i] ELSE z[i - Len(v)]
  BY <1>2, ConcatProperties
<1>5. Len(v \o z) = k
  BY <1>1, <1>2, <1>4
<1>6. ASSUME NEW i \in 1..Len(v)
      PROVE  (v \o z)[i] = v[i]
  <2>1. i \in 1..(Len(v) + Len(z)) /\ i <= Len(v)
    BY <1>1, <1>2
  <2> QED BY <1>4, <2>1
<1> QED BY <1>3, <1>4, <1>5, <1>6

LEMMA NewBufferProperties ==
  ASSUME NEW size \in Nat
  PROVE  /\ BufferOK(NewBuffer(size))
         /\ Contents(NewBuffer(size)) = <<>>
         /\ WritableBytes(NewBuffer(size)) = size
<1>1. CheapPrepend \in Nat /\ CheapPrepend + size \in Nat
  BY BufferSizesAssumption
<1>2. /\ Zeros(CheapPrepend + size) \in Seq(Bytes)
      /\ Len(Zeros(CheapPrepend + size)) = CheapPrepend + size
  BY <1>1, ZerosProperties
<1>3. BufferOK(NewBuffer(size))
  <2>1. Len(Zeros(CheapPrepend + size)) \in Nat
    BY <1>1, <1>2
  <2> QED
    BY <1>1, <1>2, <2>1 DEF NewBuffer, BufferOK, Buffers
<1>4. ReadableBytes(NewBuffer(size)) = 0 /\ WritableBytes(NewBuffer(size)) = size
  BY <1>1, <1>2 DEF NewBuffer, ReadableBytes, WritableBytes
<1> QED BY <1>3, <1>4, EmptyBuffer

-----------------------------------------------------------------------------
(* The operations.                                                         *)

LEMMA RetrieveAllProperties ==
  ASSUME NEW b, BufferOK(b)
  PROVE  BufferOK(RetrieveAll(b)) /\ Contents(RetrieveAll(b)) = <<>>
<1>0. b \in Buffers /\ CheapPrepend \in Nat /\ CheapPrepend <= Len(b.buffer)
  BY BufferTypes
<1>1. /\ RetrieveAll(b) \in Buffers
      /\ RetrieveAll(b).buffer = b.buffer
      /\ RetrieveAll(b).reader = CheapPrepend
      /\ RetrieveAll(b).writer = CheapPrepend
  BY <1>0 DEF RetrieveAll, Buffers
<1>2. BufferOK(RetrieveAll(b))
  BY <1>0, <1>1 DEF BufferOK
<1>3. ReadableBytes(RetrieveAll(b)) = 0
  BY <1>0, <1>1 DEF ReadableBytes
<1> QED BY <1>2, <1>3, EmptyBuffer

\* retrieve() leaves what is behind the first n readable bytes, and the indices
\* in their places, also where it starts afresh because nothing is left.
THEOREM RetrieveProperties ==
  ASSUME NEW b, BufferOK(b), NEW n \in Nat, RetrieveAsserts(b, n)
  PROVE  /\ BufferOK(Retrieve(b, n))
         /\ Contents(Retrieve(b, n)) = SubSeq(Contents(b), n + 1, Len(Contents(b)))
<1> DEFINE c == Contents(b)
           s == SubSeq(c, n + 1, Len(c))
<1>1. /\ c \in Seq(Bytes) /\ Len(c) = ReadableBytes(b)
      /\ \A i \in 1..ReadableBytes(b) : c[i] = b.buffer[b.reader + i]
  BY ContentsProperties
<1> HIDE DEF c
<1>2. ReadableBytes(b) \in Nat /\ n <= ReadableBytes(b) /\ n + 1 \in Nat \ {0}
  BY BufferTypes DEF RetrieveAsserts
<1>3. /\ s \in Seq(Bytes)
      /\ Len(s) = IF n + 1 <= Len(c) THEN Len(c) - (n + 1) + 1 ELSE 0
      /\ \A i \in 1..(Len(c) - (n + 1) + 1) : s[i] = c[n + 1 + i - 1]
  BY <1>1, <1>2, SubSeqTyped
<1> HIDE DEF s
<1>4. CASE n < ReadableBytes(b)
  <2>0. b \in Buffers
    BY BufferTypes
  <2>1. Retrieve(b, n) =
          [buffer |-> b.buffer, reader |-> b.reader + n, writer |-> b.writer]
    BY <1>4, <2>0 DEF Retrieve, Buffers
  <2>2. BufferOK(Retrieve(b, n))
    <3>1. b.reader + n \in Nat /\ b.reader + n <= b.writer
      BY <1>2, <1>4, BufferTypes
    <3> QED BY <2>1, <3>1, BufferTypes, BufferIs
  <2>3. ReadableBytes(Retrieve(b, n)) = ReadableBytes(b) - n
    BY <2>1, BufferTypes DEF ReadableBytes
  <2>4. Len(s) = ReadableBytes(b) - n
    BY <1>1, <1>2, <1>3, <1>4
  <2>5. ASSUME NEW i \in 1..(ReadableBytes(b) - n)
        PROVE  s[i] = Retrieve(b, n).buffer[Retrieve(b, n).reader + i]
    <3>1. /\ i \in 1..(Len(c) - (n + 1) + 1) /\ n + 1 + i - 1 = n + i
          /\ n + i \in 1..ReadableBytes(b)
      BY <1>1, <1>2
    <3>2. s[i] = b.buffer[b.reader + (n + i)]
      BY <1>1, <1>3, <3>1
    <3>3. b.reader + (n + i) = b.reader + n + i
      BY BufferTypes
    <3> QED BY <2>1, <3>2, <3>3
  <2>6. Contents(Retrieve(b, n)) = s
    BY <1>3, <2>2, <2>3, <2>4, <2>5, ContentsAre
  <2> QED BY <2>2, <2>6 DEF s, c
<1>5. CASE ~(n < ReadableBytes(b))
  <2>1. Retrieve(b, n) = RetrieveAll(b)
    BY <1>5 DEF Retrieve
  <2>2. s = <<>>
    BY <1>1, <1>2, <1>3, <1>5, EmptySeq
  <2> QED BY <2>1, <2>2, RetrieveAllProperties DEF s, c
<1> QED BY <1>4, <1>5

\* Moving the bytes to the front leaves room for n of them.
LEMMA SpaceMoved ==
  ASSUME NEW l \in Nat, NEW r \in Nat, NEW s \in Nat, NEW w \in Nat,
         NEW c \in Nat, NEW n \in Nat, l = r + s + w, ~(w + r < n + c)
  PROVE  l - (c + s) >= n
OBVIOUS

\* The same bytes in another place.
LEMMA MovedContents ==
  ASSUME NEW b, BufferOK(b), NEW m, BufferOK(m),
         ReadableBytes(m) = ReadableBytes(b),
         \A i \in 1..ReadableBytes(b) : m.buffer[m.reader + i] = b.buffer[b.reader + i]
  PROVE  Contents(m) = Contents(b)
<1> DEFINE c == Contents(b)
<1>1. /\ c \in Seq(Bytes) /\ Len(c) = ReadableBytes(b)
      /\ \A i \in 1..ReadableBytes(b) : c[i] = b.buffer[b.reader + i]
  BY ContentsProperties
<1> HIDE DEF c
<1>2. Contents(m) = c
  BY <1>1, ContentsAre
<1> QED BY <1>2 DEF c

\* makeSpace() loses no byte whether it moves or grows, makes room for n bytes,
\* and its assert holds: moving is always to the front.
THEOREM MakeSpaceProperties ==
  ASSUME NEW b, BufferOK(b), NEW n \in Nat, WritableBytes(b) < n
  PROVE  /\ MakeSpaceAsserts(b, n)
         /\ BufferOK(MakeSpace(b, n))
         /\ Contents(MakeSpace(b, n)) = Contents(b)
         /\ WritableBytes(MakeSpace(b, n)) >= n
<1> DEFINE v == b.buffer
           m == MakeSpace(b, n)
<1>0. b \in Buffers /\ v \in Seq(Bytes)
  BY BufferTypes
<1>1. /\ Len(v) \in Nat /\ b.reader \in Nat /\ b.writer \in Nat
      /\ b.reader <= b.writer /\ b.writer <= Len(v)
      /\ CheapPrepend \in Nat /\ CheapPrepend <= Len(v)
      /\ ReadableBytes(b) \in Nat /\ WritableBytes(b) \in Nat
      /\ b.writer = b.reader + ReadableBytes(b)
      /\ Len(v) = b.writer + WritableBytes(b)
  BY BufferTypes
<1>2. Grows(b, n) <=> WritableBytes(b) + b.reader < n + CheapPrepend
  BY DEF Grows, PrependableBytes
<1>3. CASE Grows(b, n)
  <2> DEFINE k == b.writer + n
             w == Resize(v, k)
  <2>1. k \in Nat /\ Len(v) <= k
    <3> HIDE DEF v
    <3>1. /\ b.writer \in Nat /\ WritableBytes(b) \in Nat /\ WritableBytes(b) < n
          /\ Len(v) = b.writer + WritableBytes(b)
      BY <1>1
    <3> QED BY <3>1
  <2>3. m = [b EXCEPT !.buffer = w]
    BY <1>3 DEF MakeSpace
  <2>k. k = b.writer + n
    OBVIOUS
  <2> HIDE DEF m, k
  <2>4. /\ w \in Seq(Bytes) /\ Len(w) = k
        /\ \A i \in 1..Len(v) : w[i] = v[i]
    <3> HIDE DEF v
    <3> QED BY <1>0, <2>1, ResizeProperties
  <2> HIDE DEF w, v
  <2>5. Len(w) = b.writer + n
    BY <2>4, <2>k
  <2>6. /\ m.buffer = w /\ m.reader = b.reader /\ m.writer = b.writer
        /\ m \in Buffers
    <3>1. b \in Buffers /\ w \in Seq(Bytes)
      BY <1>0, <2>4
    <3> QED BY <2>3, <3>1 DEF Buffers
  <2>7. BufferOK(m)
    BY <1>1, <2>1, <2>4, <2>k, <2>6, SMTT(60) DEF BufferOK
  <2>8. ReadableBytes(m) = ReadableBytes(b)
    BY <2>6 DEF ReadableBytes
  <2>9. WritableBytes(m) = n
    BY <1>1, <2>5, <2>6 DEF WritableBytes
  <2>10. ASSUME NEW i \in 1..ReadableBytes(b)
         PROVE  m.buffer[m.reader + i] = v[b.reader + i]
    <3>1. b.reader + ReadableBytes(b) <= Len(v)
      BY <1>1
    <3>2. b.reader + i \in 1..Len(v)
      BY <1>1, <3>1, PlaceOf
    <3>3. w[b.reader + i] = v[b.reader + i]
      BY <2>4, <3>2
    <3> QED BY <2>6, <3>3
  <2>11. Contents(m) = Contents(b)
    BY <2>7, <2>8, <2>10, MovedContents DEF v
  <2>12. n >= n
    OBVIOUS
  <2> QED BY <1>3, <2>7, <2>9, <2>11, <2>12 DEF MakeSpaceAsserts, m
<1>4. CASE ~Grows(b, n)
  <2> DEFINE c == Contents(b)
             w == Write(v, CheapPrepend, c)
  <2>1. CheapPrepend < b.reader
    BY <1>1, <1>2, <1>4
  <2>2. /\ c \in Seq(Bytes) /\ Len(c) = ReadableBytes(b)
        /\ \A i \in 1..ReadableBytes(b) : c[i] = v[b.reader + i]
    BY ContentsProperties
  <2>3. m = [buffer |-> w, reader |-> CheapPrepend,
             writer |-> CheapPrepend + ReadableBytes(b)]
    BY <1>4 DEF MakeSpace
  <2> HIDE DEF c, m
  <2>c. Len(c) = ReadableBytes(b)
    BY <2>2
  <2>4. CheapPrepend + Len(c) <= Len(v)
    BY <1>1, <2>1, <2>c
  <2>5. /\ w \in Seq(Bytes) /\ Len(w) = Len(v)
        /\ \A i \in 1..Len(v) : w[i] =
              IF CheapPrepend < i /\ i <= CheapPrepend + Len(c)
              THEN c[i - CheapPrepend] ELSE v[i]
        /\ \A i \in 1..Len(c) : w[CheapPrepend + i] = c[i]
    <3> HIDE DEF v
    <3>1. CheapPrepend \in Nat
      BY <1>1
    <3> QED BY <1>0, <2>2, <2>4, <3>1, WriteProperties
  <2> HIDE DEF w, v
  <2>6. /\ m.buffer = w /\ m.reader = CheapPrepend
        /\ m.writer = CheapPrepend + ReadableBytes(b)
    BY <2>3
  <2>7. CheapPrepend + ReadableBytes(b) \in Nat
    BY <1>1
  <2>8. m \in Buffers
    BY <1>1, <2>3, <2>5, <2>7 DEF Buffers
  <2>l. Len(m.buffer) = Len(v)
    BY <2>5, <2>6
  <2>9. BufferOK(m)
    BY <1>1, <2>4, <2>6, <2>8, <2>c, <2>l DEF BufferOK
  <2>10. ReadableBytes(m) = ReadableBytes(b)
    BY <1>1, <2>6 DEF ReadableBytes
  <2>11. WritableBytes(m) = Len(v) - (CheapPrepend + ReadableBytes(b))
    BY <2>6, <2>l DEF WritableBytes
  <2>12. WritableBytes(m) >= n
    BY <1>1, <1>2, <1>4, <2>11, SpaceMoved, SMTT(60)
  <2>13. ASSUME NEW i \in 1..ReadableBytes(b)
         PROVE  m.buffer[m.reader + i] = v[b.reader + i]
    <3>2. w[CheapPrepend + i] = c[i]
      BY <2>5, <2>c
    <3> QED BY <2>2, <2>6, <3>2
  <2>14. Contents(m) = Contents(b)
    BY <2>9, <2>10, <2>13, MovedContents DEF v
  <2> QED BY <2>1, <2>9, <2>12, <2>14 DEF MakeSpaceAsserts, m
<1> QED BY <1>3, <1>4

\* ensureWritableBytes() keeps its promise and its asserts hold.
LEMMA EnsureProperties ==
  ASSUME NEW b, BufferOK(b), NEW n \in Nat
  PROVE  /\ EnsureAsserts(b, n)
         /\ BufferOK(EnsureWritableBytes(b, n))
         /\ Contents(EnsureWritableBytes(b, n)) = Contents(b)
         /\ WritableBytes(EnsureWritableBytes(b, n)) >= n
<1>1. CASE WritableBytes(b) < n
  BY <1>1, MakeSpaceProperties DEF EnsureAsserts, EnsureWritableBytes
<1>2. CASE ~(WritableBytes(b) < n)
  <2>1. WritableBytes(b) >= n
    BY <1>2, BufferTypes
  <2> QED BY <1>2, <2>1 DEF EnsureAsserts, EnsureWritableBytes
<1> QED BY <1>1, <1>2

LEMMA WriteBehindProperties ==
  ASSUME NEW b, BufferOK(b), NEW d \in Seq(Bytes), Len(d) <= WritableBytes(b)
  PROVE  /\ BufferOK(WriteBehind(b, d))
         /\ Contents(WriteBehind(b, d)) = Contents(b) \o d
         /\ WritableBytes(WriteBehind(b, d)) = WritableBytes(b) - Len(d)
<1> DEFINE v == b.buffer
           c == Contents(b)
           m == WriteBehind(b, d)
           w == Write(v, b.writer, d)
<1>0. b \in Buffers /\ v \in Seq(Bytes)
  BY BufferTypes
<1>1. /\ Len(v) \in Nat /\ b.reader \in Nat /\ b.writer \in Nat
      /\ b.reader <= b.writer /\ b.writer <= Len(v)
      /\ CheapPrepend \in Nat /\ CheapPrepend <= Len(v)
      /\ ReadableBytes(b) \in Nat /\ WritableBytes(b) \in Nat
      /\ b.writer = b.reader + ReadableBytes(b)
      /\ Len(v) = b.writer + WritableBytes(b)
      /\ Len(d) \in Nat
  BY BufferTypes, LenProperties
<1>2. /\ c \in Seq(Bytes) /\ Len(c) = ReadableBytes(b)
      /\ \A i \in 1..ReadableBytes(b) : c[i] = v[b.reader + i]
  BY ContentsProperties
<1>3. m = [b EXCEPT !.buffer = w, !.writer = b.writer + Len(d)]
  BY DEF WriteBehind
<1> HIDE DEF m, c
<1>c. Len(c) = ReadableBytes(b)
  BY <1>2
<1>4. b.writer + Len(d) <= Len(v) /\ b.writer + Len(d) \in Nat
  BY <1>1, SMTT(60)
<1>5. /\ w \in Seq(Bytes) /\ Len(w) = Len(v)
      /\ \A i \in 1..Len(v) : w[i] =
            IF b.writer < i /\ i <= b.writer + Len(d) THEN d[i - b.writer] ELSE v[i]
      /\ \A i \in 1..Len(d) : w[b.writer + i] = d[i]
  <2> HIDE DEF v
  <2>1. b.writer \in Nat
    BY <1>1
  <2> QED BY <1>0, <1>4, <2>1, WriteProperties
<1>6. b \in Buffers /\ w \in Seq(Bytes)
  BY <1>0, <1>5
<1> HIDE DEF w
<1>7. /\ m.buffer = w /\ m.reader = b.reader /\ m.writer = b.writer + Len(d)
      /\ m \in Buffers
  BY <1>3, <1>4, <1>6 DEF Buffers
<1> HIDE DEF v
<1>8. Len(m.buffer) = Len(v)
  BY <1>5, <1>7
<1>9. BufferOK(m)
  BY <1>1, <1>4, <1>7, <1>8 DEF BufferOK
<1>10. ReadableBytes(m) = ReadableBytes(b) + Len(d)
  BY <1>1, <1>7 DEF ReadableBytes
<1>11. WritableBytes(m) = WritableBytes(b) - Len(d)
  <2>1. WritableBytes(m) = Len(v) - (b.writer + Len(d))
    BY <1>7, <1>8 DEF WritableBytes
  <2> QED BY <1>1, <2>1
<1>12. /\ c \o d \in Seq(Bytes) /\ Len(c \o d) = Len(c) + Len(d)
       /\ \A i \in 1..(Len(c) + Len(d)) :
            (c \o d)[i] = IF i <= Len(c) THEN c[i] ELSE d[i - Len(c)]
  <2>1. c \in Seq(Bytes)
    BY <1>2
  <2> QED BY <2>1, ConcatProperties
<1>13. ASSUME NEW i \in 1..ReadableBytes(m)
       PROVE  (c \o d)[i] = m.buffer[m.reader + i]
  <2>0. i \in 1..(Len(c) + Len(d)) /\ i \in Int
    BY <1>10, <1>c
  <2>1. CASE i <= Len(c)
    <3>1. /\ b.reader + i \in 1..Len(v) /\ ~(b.writer < b.reader + i)
          /\ i \in 1..ReadableBytes(b)
      BY <1>1, <1>c, <2>0, <2>1, SMTT(60)
    <3>2. w[b.reader + i] = v[b.reader + i]
      BY <1>5, <3>1
    <3>3. (c \o d)[i] = c[i]
      BY <1>12, <2>0, <2>1
    <3> QED BY <1>2, <1>7, <3>1, <3>2, <3>3
  <2>2. CASE ~(i <= Len(c))
    <3> DEFINE k == i - Len(c)
    <3>1. k \in 1..Len(d) /\ b.reader + i = b.writer + k
      <4>1. /\ i \in 1..(Len(c) + Len(d)) /\ ~(i <= Len(c))
            /\ Len(c) \in Nat /\ Len(d) \in Nat
            /\ b.reader \in Nat /\ b.writer = b.reader + Len(c)
        BY <1>1, <1>c, <2>0, <2>2
      <4> QED BY <4>1
    <3>2. (c \o d)[i] = d[k]
      BY <1>12, <2>0, <2>2
    <3> HIDE DEF k
    <3>3. w[b.writer + k] = d[k]
      BY <1>5, <3>1
    <3> QED BY <1>7, <3>1, <3>2, <3>3
  <2> QED BY <2>1, <2>2
<1>14. Len(c \o d) = ReadableBytes(m)
  BY <1>10, <1>12, <1>c
<1>15. Contents(m) = c \o d
  BY <1>9, <1>12, <1>13, <1>14, ContentsAre
<1> QED BY <1>9, <1>11, <1>15 DEF m, c

\* A sequence is what it was cut into.
LEMMA Cut ==
  ASSUME NEW S, NEW s \in Seq(S), NEW n \in Nat, n <= Len(s)
  PROVE  SubSeq(s, 1, n) \o SubSeq(s, n + 1, Len(s)) = s
<1>1. Len(s) \in Nat
  BY LenProperties
<1>2. 1 \in 1..(Len(s) + 1) /\ n \in (1 - 1)..Len(s) /\ Len(s) \in n..Len(s)
  BY <1>1
<1>3. SubSeq(s, 1, n) \o SubSeq(s, n + 1, Len(s)) = SubSeq(s, 1, Len(s))
  BY <1>2, ConcatAdjacentSubSeq
<1> QED BY <1>3, SubSeqFull

\* append(): whatever the space there is.
LEMMA AppendBytesProperties ==
  ASSUME NEW b, BufferOK(b), NEW d \in Seq(Bytes)
  PROVE  /\ EnsureAsserts(b, Len(d))
         /\ BufferOK(AppendBytes(b, d))
         /\ Contents(AppendBytes(b, d)) = Contents(b) \o d
<1> DEFINE e == EnsureWritableBytes(b, Len(d))
<1>1. Len(d) \in Nat
  BY LenProperties
<1>2. /\ EnsureAsserts(b, Len(d)) /\ BufferOK(e) /\ Contents(e) = Contents(b)
      /\ WritableBytes(e) >= Len(d)
  BY <1>1, EnsureProperties
<1>3. AppendBytes(b, d) = WriteBehind(e, d)
  BY DEF AppendBytes
<1> HIDE DEF e
<1>4. Len(d) <= WritableBytes(e)
  <2>1. WritableBytes(e) \in Nat
    BY <1>2, BufferTypes
  <2> QED BY <1>1, <1>2, <2>1
<1>5. BufferOK(WriteBehind(e, d)) /\ Contents(WriteBehind(e, d)) = Contents(e) \o d
  BY <1>2, <1>4, WriteBehindProperties
<1> QED BY <1>2, <1>3, <1>5

\* prepend() puts d before the readable bytes, in the space in front of them, as
\* long as its assert holds.
THEOREM PrependProperties ==
  ASSUME NEW b, BufferOK(b), NEW d \in Seq(Bytes), PrependAsserts(b, d)
  PROVE  /\ BufferOK(Prepend(b, d))
         /\ Contents(Prepend(b, d)) = d \o Contents(b)
<1> DEFINE v == b.buffer
           c == Contents(b)
           m == Prepend(b, d)
           at == b.reader - Len(d)
           w == Write(v, at, d)
<1>0. b \in Buffers /\ v \in Seq(Bytes)
  BY BufferTypes
<1>1. /\ Len(v) \in Nat /\ b.reader \in Nat /\ b.writer \in Nat
      /\ b.reader <= b.writer /\ b.writer <= Len(v)
      /\ CheapPrepend <= Len(v)
      /\ ReadableBytes(b) \in Nat
      /\ b.writer = b.reader + ReadableBytes(b)
      /\ Len(d) \in Nat /\ Len(d) <= b.reader
  BY BufferTypes, LenProperties DEF PrependAsserts, PrependableBytes
<1>2. /\ c \in Seq(Bytes) /\ Len(c) = ReadableBytes(b)
      /\ \A i \in 1..ReadableBytes(b) : c[i] = v[b.reader + i]
  BY ContentsProperties
<1>3. m = [b EXCEPT !.buffer = w, !.reader = at]
  BY DEF Prepend
<1> HIDE DEF m, c
<1>c. Len(c) = ReadableBytes(b)
  BY <1>2
<1>4. at \in Nat /\ at + Len(d) = b.reader /\ at + Len(d) <= Len(v) /\ at <= b.reader
  BY <1>1
<1> HIDE DEF at
<1>5. /\ w \in Seq(Bytes) /\ Len(w) = Len(v)
      /\ \A i \in 1..Len(v) : w[i] =
            IF at < i /\ i <= at + Len(d) THEN d[i - at] ELSE v[i]
      /\ \A i \in 1..Len(d) : w[at + i] = d[i]
  <2> HIDE DEF v
  <2> QED BY <1>0, <1>4, WriteProperties
<1> HIDE DEF w
<1>6. /\ m.buffer = w /\ m.reader = at /\ m.writer = b.writer
      /\ m \in Buffers
  <2>1. b \in Buffers /\ w \in Seq(Bytes) /\ at \in Nat
    BY <1>0, <1>4, <1>5
  <2> QED BY <1>3, <2>1 DEF Buffers
<1> HIDE DEF v
<1>7. Len(m.buffer) = Len(v)
  BY <1>5, <1>6
<1>8. BufferOK(m)
  BY <1>1, <1>4, <1>6, <1>7 DEF BufferOK
<1>9. ReadableBytes(m) = Len(d) + Len(c)
  <2>1. ReadableBytes(m) = b.writer - at
    BY <1>6 DEF ReadableBytes
  <2>2. b.writer = b.reader + Len(c) /\ at = b.reader - Len(d)
    BY <1>1, <1>4, <1>c
  <2>3. Len(c) \in Nat
    BY <1>1, <1>c
  <2> QED BY <1>1, <2>1, <2>2, <2>3
<1>10. /\ d \o c \in Seq(Bytes) /\ Len(d \o c) = Len(d) + Len(c)
       /\ \A i \in 1..(Len(d) + Len(c)) :
            (d \o c)[i] = IF i <= Len(d) THEN d[i] ELSE c[i - Len(d)]
  <2>1. c \in Seq(Bytes)
    BY <1>2
  <2> QED BY <2>1, ConcatProperties
<1>11. ASSUME NEW i \in 1..ReadableBytes(m)
       PROVE  (d \o c)[i] = m.buffer[m.reader + i]
  <2>0. i \in 1..(Len(d) + Len(c)) /\ i \in Int /\ Len(c) \in Nat
    BY <1>1, <1>9, <1>c
  <2>1. CASE i <= Len(d)
    <3>1. i \in 1..Len(d)
      BY <1>1, <2>0, <2>1
    <3>2. w[at + i] = d[i]
      BY <1>5, <3>1
    <3> QED BY <1>6, <1>10, <2>0, <2>1, <3>2
  <2>2. CASE ~(i <= Len(d))
    <3> DEFINE k == i - Len(d)
               j == at + i
    <3>1. k \in 1..Len(c) /\ j = b.reader + k /\ ~(j <= at + Len(d))
      <4>1. /\ i \in 1..(Len(d) + Len(c)) /\ ~(i <= Len(d))
            /\ Len(c) \in Nat /\ Len(d) \in Nat /\ at \in Nat
            /\ b.reader \in Nat /\ at + Len(d) = b.reader
        BY <1>1, <1>4, <1>c, <2>0, <2>2
      <4> QED BY <4>1
    <3>2. (d \o c)[i] = c[k]
      BY <1>10, <2>0, <2>2
    <3>j. j = at + i
      OBVIOUS
    <3> HIDE DEF k, j
    <3>3. j \in 1..Len(v)
      <4>1. b.reader + Len(c) <= Len(v)
        BY <1>1, <1>c
      <4> QED BY <1>1, <2>0, <3>1, <4>1, PlaceOf
    <3>4. w[j] = v[j]
      BY <1>5, <3>1, <3>3
    <3>5. c[k] = v[b.reader + k]
      BY <1>2, <1>c, <3>1
    <3> QED BY <1>6, <3>1, <3>2, <3>4, <3>5, <3>j
  <2> QED BY <2>1, <2>2
<1>12. Len(d \o c) = ReadableBytes(m)
  BY <1>9, <1>10
<1>13. Contents(m) = d \o c
  BY <1>8, <1>10, <1>11, <1>12, ContentsAre
<1> QED BY <1>8, <1>13 DEF m, c

\* shrink(): a new vector has the same readable bytes.
THEOREM ShrinkProperties ==
  ASSUME NEW b, BufferOK(b), NEW n \in Nat
  PROVE  BufferOK(Shrink(b, n)) /\ Contents(Shrink(b, n)) = Contents(b)
<1> DEFINE o == NewBuffer(InitialSize)
           e == EnsureWritableBytes(o, ReadableBytes(b) + n)
<1>1. BufferOK(o) /\ Contents(o) = <<>>
  BY BufferSizesAssumption, NewBufferProperties
<1>2. ReadableBytes(b) + n \in Nat
  BY BufferTypes
<1>3. Shrink(b, n) = AppendBytes(e, Contents(b))
  BY DEF Shrink
<1>4. BufferOK(e) /\ Contents(e) = <<>>
  <2> HIDE DEF o
  <2> QED BY <1>1, <1>2, EnsureProperties
<1> HIDE DEF e
<1>5. Contents(b) \in Seq(Bytes)
  BY ContentsProperties
<1>6. /\ BufferOK(AppendBytes(e, Contents(b)))
      /\ Contents(AppendBytes(e, Contents(b))) = <<>> \o Contents(b)
  BY <1>4, <1>5, AppendBytesProperties
<1>7. <<>> \o Contents(b) = Contents(b)
  BY <1>5, ConcatEmptySeq
<1> QED BY <1>3, <1>6, <1>7

\* readFd() appends all the bytes that were read, in their order, also those that
\* came by way of extrabuf, and the asserts of its append() hold.
THEOREM ReadFdProperties ==
  ASSUME NEW b, BufferOK(b), NEW d \in Seq(Bytes)
  PROVE  /\ ReadFdAsserts(b, d)
         /\ BufferOK(ReadFd(b, d))
         /\ Contents(ReadFd(b, d)) = Contents(b) \o d
<1> DEFINE w == WritableBytes(b)
           d1 == SubSeq(d, 1, w)
           d2 == SubSeq(d, w + 1, Len(d))
           b1 == WriteBehind(b, d1)
<1>1. w \in Nat /\ Len(d) \in Nat
  BY BufferTypes, LenProperties
<1>2. CASE Len(d) <= w
  <2>1. ReadFd(b, d) = WriteBehind(b, d)
    BY <1>2 DEF ReadFd
  <2>2. ReadFdAsserts(b, d)
    BY <1>1, <1>2 DEF ReadFdAsserts
  <2> QED BY <1>2, <2>1, <2>2, WriteBehindProperties
<1>3. CASE ~(Len(d) <= w)
  <2>1. ReadFd(b, d) = AppendBytes(b1, d2)
    BY <1>3 DEF ReadFd
  <2>2. ReadFdAsserts(b, d) <=> EnsureAsserts(b1, Len(d) - w)
    BY <1>1, <1>3 DEF ReadFdAsserts
  <2> HIDE DEF w
  <2>3. d1 \in Seq(Bytes) /\ Len(d1) = IF 1 <= w THEN w - 1 + 1 ELSE 0
    BY <1>1, <1>3, SubSeqTyped
  <2>4. w + 1 \in Nat \ {0} /\ Len(d) \in Int /\ Len(d) <= Len(d)
    BY <1>1
  <2>5. d2 \in Seq(Bytes)
        /\ Len(d2) = IF w + 1 <= Len(d) THEN Len(d) - (w + 1) + 1 ELSE 0
    BY <2>4, SubSeqTyped
  <2>6. d1 \o d2 = d
    <3>1. w \in Nat /\ w <= Len(d)
      BY <1>1, <1>3
    <3> QED BY <3>1, Cut
  <2> HIDE DEF d1, d2
  <2>7. Len(d1) <= w /\ Len(d2) = Len(d) - w
    BY <1>1, <1>3, <2>3, <2>5
  <2>8. BufferOK(b1) /\ Contents(b1) = Contents(b) \o d1
    BY <2>3, <2>7, WriteBehindProperties DEF w
  <2> HIDE DEF b1
  <2>9. /\ EnsureAsserts(b1, Len(d2)) /\ BufferOK(AppendBytes(b1, d2))
        /\ Contents(AppendBytes(b1, d2)) = Contents(b1) \o d2
    BY <2>5, <2>8, AppendBytesProperties
  <2>10. (Contents(b) \o d1) \o d2 = Contents(b) \o (d1 \o d2)
    <3>1. Contents(b) \in Seq(Bytes)
      BY ContentsProperties
    <3> QED BY <2>3, <2>5, <3>1, ConcatAssociative, SMTT(60)
  <2> QED BY <2>1, <2>2, <2>6, <2>7, <2>8, <2>9, <2>10
<1> QED BY <1>2, <1>3

-----------------------------------------------------------------------------
(* Induction.                                                              *)

\* A set of numbers that is not empty has a smallest one.
LEMMA Smallest ==
  ASSUME NEW T, T \subseteq Nat, T # {}
  PROVE  \E x \in T : \A y \in T : x <= y
<1> DEFINE R == OpToRel(<, Nat)
<1>1. IsWellFoundedOn(R, Nat)
  BY NatLessThanWellFounded
<1>2. \A x, y \in Nat : <<y, x>> \in R <=> y < x
  BY DEF OpToRel
<1> HIDE DEF R
<1>3. PICK x \in T : \A y \in T : ~ (<<y, x>> \in R)
  BY <1>1, WFMin
<1>4. ASSUME NEW y \in T
      PROVE  x <= y
  <2>1. x \in Nat /\ y \in Nat
    OBVIOUS
  <2>2. ~(y < x)
    BY <1>2, <1>3, <2>1
  <2> QED BY <2>1, <2>2, SeqDef
<1> QED BY <1>4

\* Induction, by the smallest number that is not in S.
LEMMA Induction ==
  ASSUME NEW S, 0 \in S, \A n \in Nat : n \in S => n + 1 \in S
  PROVE  \A n \in Nat : n \in S
<1> DEFINE T == {n \in Nat : n \notin S}
<1> SUFFICES ASSUME T # {} PROVE FALSE
  OBVIOUS
<1>1. PICK x \in T : \A y \in T : x <= y
  BY Smallest
<1>2. x - 1 \in Nat /\ x - 1 \notin T
  BY <1>1
<1> QED BY <1>2

\* The same with all smaller numbers as hypothesis.
LEMMA CourseOfValues ==
  ASSUME NEW S, \A n \in Nat : (\A m \in 0..(n - 1) : m \in S) => n \in S
  PROVE  \A n \in Nat : n \in S
<1> DEFINE T == {n \in Nat : n \notin S}
<1> SUFFICES ASSUME T # {} PROVE FALSE
  OBVIOUS
<1>1. PICK x \in T : \A y \in T : x <= y
  BY Smallest
<1>2. \A m \in 0..(x - 1) : m \in S
  BY <1>1
<1> QED BY <1>1, <1>2

-----------------------------------------------------------------------------
(* Recursion along a sequence.                                             *)

\* g has what comes of init when step is made with one element of s after
\* the other.
Folds(g, s, init, step) ==
    g = [i \in 0..Len(s) |-> IF i = 0 THEN init ELSE step[<<g[i - 1], s[i]>>]]

LEMMA FoldExists ==
  ASSUME NEW A, NEW E, NEW init \in A, NEW step \in [A \X E -> A], NEW s \in Seq(E)
  PROVE  \E g \in [0..Len(s) -> A] : Folds(g, s, init, step)
<1> DEFINE Upto(n, g) ==
             g = [i \in 0..n |-> IF i = 0 THEN init ELSE step[<<g[i - 1], s[i]>>]]
           S == {n \in Nat : n <= Len(s) => \E g \in [0..n -> A] : Upto(n, g)}
<1>1. 0 \in S
  <2>1. [i \in 0..0 |-> init] \in [0..0 -> A] /\ Upto(0, [i \in 0..0 |-> init])
    OBVIOUS
  <2> QED BY <2>1
<1>2. ASSUME NEW n \in Nat, n \in S PROVE n + 1 \in S
  <2> SUFFICES ASSUME n + 1 <= Len(s) PROVE \E g \in [0..(n + 1) -> A] : Upto(n + 1, g)
    OBVIOUS
  <2>0. Len(s) \in Nat
    OBVIOUS
  <2>1. PICK g \in [0..n -> A] : Upto(n, g)
    BY <1>2, <2>0
  <2> DEFINE e == step[<<g[n], s[n + 1]>>]
             h == [i \in 0..(n + 1) |-> IF i <= n THEN g[i] ELSE e]
  <2>2. s[n + 1] \in E /\ g[n] \in A
    BY <2>0
  <2>3. e \in A
    BY <2>2
  <2>4. h \in [0..(n + 1) -> A]
    BY <2>3
  <2>5. ASSUME NEW i \in 0..(n + 1)
        PROVE  h[i] = IF i = 0 THEN init ELSE step[<<h[i - 1], s[i]>>]
    <3>1. CASE i = 0
      BY <2>1, <3>1
    <3>2. CASE i \in 1..n
      BY <2>1, <3>2
    <3>3. CASE i = n + 1
      <4>1. h[i] = e /\ i # 0 /\ i - 1 = n /\ s[i] = s[n + 1]
        BY <3>3
      <4>2. h[n] = g[n]
        OBVIOUS
      <4> QED BY <4>1, <4>2, Zenon
    <3> QED BY <3>1, <3>2, <3>3
  <2> HIDE DEF h
  <2>6. Upto(n + 1, h)
    BY <2>4, <2>5
  <2> QED BY <2>4, <2>6
<1> HIDE DEF S
<1>3. Len(s) \in S
  BY <1>1, <1>2, Induction
<1> QED BY <1>3 DEF S, Folds

\* One element more is one step more.
LEMMA FoldAppend ==
  ASSUME NEW E, NEW s \in Seq(E), NEW e \in E, NEW init, NEW step, NEW g, NEW h,
         Folds(g, s, init, step), Folds(h, Append(s, e), init, step)
  PROVE  h[Len(Append(s, e))] = step[<<g[Len(s)], e>>]
<1> DEFINE t == Append(s, e)
           S == {n \in Nat : n <= Len(s) => h[n] = g[n]}
<1>0. /\ Len(s) \in Nat /\ Len(t) = Len(s) + 1
      /\ \A i \in 1..Len(s) : t[i] = s[i]
      /\ t[Len(s) + 1] = e
  OBVIOUS
<1> HIDE DEF t
<1>g. \A i \in 0..Len(s) : g[i] = IF i = 0 THEN init ELSE step[<<g[i - 1], s[i]>>]
  BY <1>0 DEF Folds
<1>h. \A i \in 0..(Len(s) + 1) : h[i] = IF i = 0 THEN init ELSE step[<<h[i - 1], t[i]>>]
  BY <1>0 DEF Folds, t
<1>1. 0 \in S
  <2>1. 0 \in 0..Len(s) /\ 0 \in 0..(Len(s) + 1)
    BY <1>0
  <2> QED BY <1>g, <1>h, <2>1
<1>2. ASSUME NEW n \in Nat, n \in S PROVE n + 1 \in S
  <2> SUFFICES ASSUME n + 1 <= Len(s) PROVE h[n + 1] = g[n + 1]
    OBVIOUS
  <2>1. h[n] = g[n] /\ t[n + 1] = s[n + 1]
    BY <1>0, <1>2
  <2>2. n + 1 \in 0..Len(s) /\ n + 1 \in 0..(Len(s) + 1) /\ n + 1 # 0 /\ (n + 1) - 1 = n
    BY <1>0
  <2> QED BY <1>g, <1>h, <2>1, <2>2
<1> HIDE DEF S
<1>3. Len(s) \in S
  BY <1>0, <1>1, <1>2, Induction
<1>4. h[Len(s)] = g[Len(s)]
  BY <1>0, <1>3 DEF S
<1>5. Len(s) + 1 \in 0..(Len(s) + 1) /\ Len(s) + 1 # 0 /\ (Len(s) + 1) - 1 = Len(s)
  BY <1>0
<1> QED BY <1>0, <1>h, <1>4, <1>5 DEF t

-----------------------------------------------------------------------------
(* Bytes behind bytes.                                                     *)

LEMMA BytesAssociative == \A c, d, e \in Seq(Bytes) : (c \o d) \o e = c \o (d \o e)
<1> SUFFICES ASSUME NEW c \in Seq(Bytes), NEW d \in Seq(Bytes), NEW e \in Seq(Bytes)
             PROVE  (c \o d) \o e = c \o (d \o e)
  OBVIOUS
<1> QED BY ConcatAssociative, SMTT(30)

\* The same for an operator that the provers need not look into.
Join(c, d) == c \o d

LEMMA JoinAssociative ==
  ASSUME NEW c \in Seq(Bytes), NEW d \in Seq(Bytes), NEW e \in Seq(Bytes)
  PROVE  /\ Join(c, d) \in Seq(Bytes)
         /\ Join(Join(c, d), e) = Join(c, Join(d, e))
BY BytesAssociative DEF Join

JoinNext == [x \in Seq(Bytes) \X Seq(Bytes) |-> x[1] \o x[2]]

\* FlattenSeq is a fold.
LEMMA FlattenFold ==
  ASSUME NEW e \in Seq(Seq(Bytes))
  PROVE  \E f : /\ f[Len(e)] \in Seq(Bytes)
                /\ Folds(f, e, <<>>, JoinNext)
                /\ FlattenSeq(e) = f[Len(e)]
<1> DEFINE n == Len(e)
           P(g) == g = [i \in 1..n |-> IF i = 1 THEN e[i] ELSE g[i - 1] \o e[i]]
<1>0. /\ n \in Nat /\ DOMAIN e = 1..n /\ \A i \in 1..n : e[i] \in Seq(Bytes)
      /\ e \in Seq(Seq(Bytes))
  OBVIOUS
<1>2. <<>> \in Seq(Bytes) /\ JoinNext \in [Seq(Bytes) \X Seq(Bytes) -> Seq(Bytes)]
  BY DEF JoinNext
<1>3. PICK f \in [0..n -> Seq(Bytes)] : Folds(f, e, <<>>, JoinNext)
  BY <1>0, <1>2, FoldExists
<1>4. f[0] = <<>> /\ \A i \in 1..n : i - 1 \in 0..n /\ f[i] = f[i - 1] \o e[i]
  <2>1. f[0] = <<>>
    BY <1>0, <1>3 DEF Folds
  <2>2. ASSUME NEW i \in 1..n PROVE i - 1 \in 0..n /\ f[i] = f[i - 1] \o e[i]
    <3>1. i \in 0..n /\ i # 0 /\ i - 1 \in 0..n /\ e[i] \in Seq(Bytes)
      BY <1>0
    <3>2. f[i] = JoinNext[<<f[i - 1], e[i]>>] /\ f[i - 1] \in Seq(Bytes)
      BY <1>0, <1>3, <3>1 DEF Folds
    <3> QED BY <3>1, <3>2 DEF JoinNext
  <2> QED BY <2>1, <2>2
<1>5. FlattenSeq(e) = f[n]
  <2>1. CASE n = 0
    <3>1. FlattenSeq(e) = e /\ e = <<>>
      BY <1>0, <2>1 DEF FlattenSeq
    <3> QED BY <1>4, <2>1, <3>1
  <2>2. CASE n # 0
    <3>1. FlattenSeq(e) = (CHOOSE g : P(g))[n]
      BY <2>2, Zenon DEF FlattenSeq
    <3>2. f[1] = e[1]
      <4>1. 1 \in 1..n /\ e[1] \in Seq(Bytes)
        BY <1>0, <2>2
      <4>2. f[1] = <<>> \o e[1]
        <5>1. f[1] = f[1 - 1] \o e[1]
          BY <1>4, <4>1, Zenon
        <5>2. 1 - 1 = 0
          OBVIOUS
        <5> QED BY <1>4, <5>1, <5>2, Zenon
      <4> QED BY <4>1, <4>2
    <3>3. P([i \in 1..n |-> f[i]])
      <4>1. ASSUME NEW i \in 1..n
            PROVE  f[i] = IF i = 1 THEN e[i] ELSE [j \in 1..n |-> f[j]][i - 1] \o e[i]
        <5>1. CASE i = 1
          BY <3>2, <5>1
        <5>2. CASE i # 1
          <6>1. i - 1 \in 1..n /\ f[i] = f[i - 1] \o e[i]
            <7>1. i - 1 \in 1..n
              BY <1>0, <5>2
            <7> QED BY <1>4, <7>1
          <6> QED BY <5>2, <6>1, Zenon
        <5> QED BY <5>1, <5>2
      <4> QED BY <4>1
    <3>4. ASSUME NEW g, P(g) PROVE g[n] = f[n]
      <4> DEFINE S == {i \in Nat : i + 1 <= n => g[i + 1] = f[i + 1]}
      <4>0. \A i \in 1..n : g[i] = IF i = 1 THEN e[i] ELSE g[i - 1] \o e[i]
        BY <1>0, <3>4
      <4>1. 0 \in S
        BY <1>0, <2>2, <3>2, <4>0
      <4>2. ASSUME NEW i \in Nat, i \in S PROVE i + 1 \in S
        <5> SUFFICES ASSUME i + 2 <= n PROVE g[i + 2] = f[i + 2]
          OBVIOUS
        <5>1. g[i + 1] = f[i + 1]
          BY <1>0, <4>2
        <5>2. i + 2 \in 1..n /\ i + 2 # 1 /\ (i + 2) - 1 = i + 1
          BY <1>0
        <5>3. f[i + 2] = f[i + 1] \o e[i + 2]
          BY <1>4, <5>2
        <5>4. g[i + 2] = g[i + 1] \o e[i + 2]
          BY <4>0, <5>2
        <5> QED BY <5>1, <5>3, <5>4
      <4> HIDE DEF S
      <4>3. n - 1 \in Nat /\ n - 1 \in S
        <5>1. \A i \in Nat : i \in S
          BY <4>1, <4>2, Induction
        <5> QED BY <1>0, <2>2, <5>1
      <4> QED BY <1>0, <4>3 DEF S
    <3> HIDE DEF P
    <3>5. P(CHOOSE g : P(g))
      BY <3>3, Zenon
    <3> QED BY <3>1, <3>4, <3>5
  <2> QED BY <2>1, <2>2
<1>6. f[n] \in Seq(Bytes)
  BY <1>0
<1> QED BY <1>3, <1>5, <1>6

LEMMA FlattenAppend ==
  ASSUME NEW s \in Seq(Seq(Bytes)), NEW t \in Seq(Bytes)
  PROVE  /\ FlattenSeq(s) \in Seq(Bytes)
         /\ FlattenSeq(Append(s, t)) = FlattenSeq(s) \o t
<1>1. PICK f : /\ f[Len(s)] \in Seq(Bytes)
               /\ Folds(f, s, <<>>, JoinNext)
               /\ FlattenSeq(s) = f[Len(s)]
  BY FlattenFold
<1>2. Append(s, t) \in Seq(Seq(Bytes))
  OBVIOUS
<1>3. PICK g : /\ Folds(g, Append(s, t), <<>>, JoinNext)
               /\ FlattenSeq(Append(s, t)) = g[Len(Append(s, t))]
  BY <1>2, FlattenFold
<1>4. g[Len(Append(s, t))] = JoinNext[<<f[Len(s)], t>>]
  <2>1. Folds(f, s, <<>>, JoinNext) /\ Folds(g, Append(s, t), <<>>, JoinNext)
    BY <1>1, <1>3
  <2> QED BY <2>1, FoldAppend
<1> QED BY <1>1, <1>3, <1>4 DEF JoinNext

LEMMA FlattenEmpty == FlattenSeq(<<>>) = <<>>
<1>1. <<>> \in Seq(Seq(Bytes)) /\ Len(<<>>) = 0
  OBVIOUS
<1>2. PICK f : /\ Folds(f, <<>>, <<>>, JoinNext)
               /\ FlattenSeq(<<>>) = f[Len(<<>>)]
  BY <1>1, FlattenFold
<1>3. f[0] = <<>>
  BY <1>1, <1>2 DEF Folds
<1> QED BY <1>1, <1>2, <1>3

LEMMA FlattenTyped ==
  ASSUME NEW s \in Seq(Seq(Bytes)) PROVE FlattenSeq(s) \in Seq(Bytes)
BY FlattenFold

\* Pieces behind pieces.
LEMMA FlattenConcat ==
  ASSUME NEW s \in Seq(Seq(Bytes)), NEW t \in Seq(Seq(Bytes))
  PROVE  FlattenSeq(s \o t) = FlattenSeq(s) \o FlattenSeq(t)
<1> DEFINE S == {n \in Nat : \A u \in Seq(Seq(Bytes)) :
                   Len(u) = n => FlattenSeq(s \o u) = FlattenSeq(s) \o FlattenSeq(u)}
<1>1. 0 \in S
  <2> SUFFICES ASSUME NEW u \in Seq(Seq(Bytes)), Len(u) = 0
               PROVE  FlattenSeq(s \o u) = FlattenSeq(s) \o FlattenSeq(u)
    OBVIOUS
  <2>1. u = <<>>
    OBVIOUS
  <2> QED BY <2>1, FlattenEmpty, FlattenTyped, ConcatEmptySeq
<1>2. ASSUME NEW n \in Nat, n \in S PROVE n + 1 \in S
  <2> SUFFICES ASSUME NEW u \in Seq(Seq(Bytes)), Len(u) = n + 1
               PROVE  FlattenSeq(s \o u) = FlattenSeq(s) \o FlattenSeq(u)
    OBVIOUS
  <2>1. PICK v \in Seq(Seq(Bytes)), m \in Seq(Bytes) : u = Append(v, m)
    <3>1. u # <<>>
      OBVIOUS
    <3> QED BY <3>1, SequenceEmptyOrAppend
  <2>2. Len(v) = n
    BY <2>1
  <2>3. FlattenSeq(s \o v) = FlattenSeq(s) \o FlattenSeq(v)
    BY <1>2, <2>2
  <2>4. s \o u = Append(s \o v, m) /\ s \o v \in Seq(Seq(Bytes))
    BY <2>1
  <2>5. FlattenSeq(s \o u) = (FlattenSeq(s) \o FlattenSeq(v)) \o m
    BY <2>3, <2>4, FlattenAppend
  <2>6. FlattenSeq(u) = FlattenSeq(v) \o m
    BY <2>1, FlattenAppend
  <2>7. FlattenSeq(s) \in Seq(Bytes) /\ FlattenSeq(v) \in Seq(Bytes) /\ m \in Seq(Bytes)
    BY FlattenTyped
  <2>8. (FlattenSeq(s) \o FlattenSeq(v)) \o m = FlattenSeq(s) \o (FlattenSeq(v) \o m)
    <3> DEFINE a == FlattenSeq(s)
               b == FlattenSeq(v)
               c == m
    <3> HIDE DEF a, b, c
    <3>1. a \in Seq(Bytes) /\ b \in Seq(Bytes) /\ c \in Seq(Bytes)
      BY <2>7 DEF a, b, c
    <3>2. Join(Join(a, b), c) = Join(a, Join(b, c))
      BY <3>1, JoinAssociative
    <3> QED BY <3>2 DEF a, b, c, Join
  <2> QED BY <2>5, <2>6, <2>8
<1> HIDE DEF S
<1>3. Len(t) \in Nat /\ Len(t) \in S
  <2>1. \A n \in Nat : n \in S
    BY <1>1, <1>2, Induction
  <2>2. Len(t) \in Nat
    OBVIOUS
  <2> QED BY <2>1, <2>2
<1> QED BY <1>3 DEF S

LEMMA FlattenOne ==
  ASSUME NEW t \in Seq(Bytes) PROVE FlattenSeq(<<t>>) = t
<1>1. <<t>> = Append(<<>>, t) /\ <<>> \in Seq(Seq(Bytes))
  OBVIOUS
<1>2. FlattenSeq(<<t>>) = <<>> \o t
  BY <1>1, FlattenAppend, FlattenEmpty
<1> QED BY <1>2, ConcatEmptySeq

\* The first piece.
LEMMA FlattenFirst ==
  ASSUME NEW s \in Seq(Seq(Bytes)), s # <<>>
  PROVE  /\ s[1] \in Seq(Bytes) /\ Tail(s) \in Seq(Seq(Bytes))
         /\ FlattenSeq(s) = s[1] \o FlattenSeq(Tail(s))
<1>1. /\ s[1] \in Seq(Bytes) /\ Tail(s) \in Seq(Seq(Bytes))
      /\ s = <<s[1]>> \o Tail(s)
  OBVIOUS
<1>2. <<s[1]>> \in Seq(Seq(Bytes))
  BY <1>1
<1>3. FlattenSeq(<<s[1]>>) = s[1]
  BY <1>1, FlattenOne
<1> QED BY <1>1, <1>2, <1>3, FlattenConcat
=============================================================================
