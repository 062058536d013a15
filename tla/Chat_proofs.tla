---------------------------- MODULE Chat_proofs -----------------------------
(***************************************************************************)
(* Proofs about the codec and the chat, for any sizes of the Buffer, any   *)
(* number of values of a byte, any length of the header, and any           *)
(* connections, lines and bounds.                                          *)
(*                                                                         *)
(* The codec: a header keeps its length; onMessage() takes from a stream of *)
(* messages, wherever it is cut, the first of them, leaves the bytes of the *)
(* others, and leaves none that is there as a whole.                       *)
(*                                                                         *)
(* The chat: its types, that the server takes whole lines in their order,  *)
(* and that the clients hear one conversation.  Each of the two streams of *)
(* a connection follows what was sent (Follows): a part of it was taken,   *)
(* and the bytes in the buffer and under way are those of the rest.        *)
(***************************************************************************)
EXTENDS Chat, Buffer_proofs

-----------------------------------------------------------------------------
(* Numbers and their bytes.                                                *)

\* Powers and lengths as folds: what is multiplied and added up.
Times == [x \in Nat \X Nat |-> x[1] * x[2]]
Bases(n) == [i \in 1..n |-> Base]

LEMMA BaseNat == Base \in Nat /\ Base >= 2 /\ Bytes = 0..(Base - 1) /\ Base \in Int
BY BaseAssumption

LEMMA PowerFold ==
  ASSUME NEW n \in Nat
  PROVE  \E f : f[n] \in Nat /\ Folds(f, Bases(n), 1, Times) /\ Power(n) = f[n]
<1> DEFINE P(g) == g = [i \in 0..n |-> IF i = 0 THEN 1 ELSE g[i - 1] * Base]
<1>0. /\ Base \in Nat /\ Bases(n) \in Seq(Nat) /\ Len(Bases(n)) = n
      /\ \A i \in 1..n : Bases(n)[i] = Base
  BY BaseNat DEF Bases
<1>1. Times \in [Nat \X Nat -> Nat]
  BY <1>0 DEF Times
<1>2. PICK f \in [0..n -> Nat] : Folds(f, Bases(n), 1, Times)
  BY <1>0, <1>1, FoldExists
<1>3. f[0] = 1 /\ \A i \in 1..n : i - 1 \in 0..n /\ f[i] = f[i - 1] * Base
  <2>1. f[0] = 1
    BY <1>0, <1>2 DEF Folds
  <2>2. ASSUME NEW i \in 1..n PROVE i - 1 \in 0..n /\ f[i] = f[i - 1] * Base
    <3>1. i \in 0..n /\ i # 0 /\ i - 1 \in 0..n /\ Bases(n)[i] = Base
      BY <1>0
    <3>2. f[i] = Times[<<f[i - 1], Base>>] /\ f[i - 1] \in Nat
      BY <1>0, <1>2, <3>1 DEF Folds
    <3> QED BY <1>0, <3>1, <3>2 DEF Times
  <2> QED BY <2>1, <2>2
<1>4. P(f)
  BY <1>3
<1>5. Power(n) = (CHOOSE g : P(g))[n]
  BY Zenon DEF Power
<1>6. ASSUME NEW g, P(g) PROVE g[n] = f[n]
  <2> DEFINE S == {i \in Nat : i <= n => g[i] = f[i]}
  <2>1. 0 \in S
    BY <1>3, <1>6
  <2>2. ASSUME NEW i \in Nat, i \in S PROVE i + 1 \in S
    BY <1>3, <1>6, <2>2
  <2> HIDE DEF S
  <2>3. n \in S
    BY <2>1, <2>2, Induction
  <2> QED BY <2>3 DEF S
<1> HIDE DEF P
<1>7. P(CHOOSE g : P(g))
  BY <1>4, Zenon
<1> QED BY <1>2, <1>5, <1>6, <1>7

LEMMA TimesAppend ==
  \A s \in Seq(Nat), e \in Nat : \A g, h :
     Folds(g, s, 1, Times) /\ Folds(h, Append(s, e), 1, Times)
       => h[Len(Append(s, e))] = Times[<<g[Len(s)], e>>]
BY FoldAppend

\* Power and Length by their steps: all that is used of them from here on.
LEMMA PowerStep ==
  /\ Power(0) = 1
  /\ \A n \in Nat : Power(n) \in Nat \ {0} /\ Power(n + 1) = Power(n) * Base
<1>1. Power(0) = 1
  <2>1. Len(Bases(0)) = 0
    BY DEF Bases
  <2>2. PICK f : Folds(f, Bases(0), 1, Times) /\ Power(0) = f[0]
    BY PowerFold
  <2>3. f[0] = 1
    BY <2>1, <2>2 DEF Folds
  <2> QED BY <2>2, <2>3
<1>2. ASSUME NEW n \in Nat PROVE Power(n) \in Nat /\ Power(n + 1) = Power(n) * Base
  <2>1. PICK f : f[n] \in Nat /\ Folds(f, Bases(n), 1, Times) /\ Power(n) = f[n]
    BY PowerFold
  <2>2. PICK h : Folds(h, Bases(n + 1), 1, Times) /\ Power(n + 1) = h[n + 1]
    <3>1. n + 1 \in Nat
      OBVIOUS
    <3> QED BY <3>1, PowerFold
  <2>3. /\ Bases(n) \in Seq(Nat) /\ Len(Bases(n)) = n
        /\ Append(Bases(n), Base) = Bases(n + 1) /\ Len(Bases(n + 1)) = n + 1
    BY BaseNat DEF Bases
  <2>4. h[n + 1] = Times[<<f[n], Base>>]
    <3>1. Base \in Nat
      BY BaseNat
    <3>2. Folds(h, Append(Bases(n), Base), 1, Times)
      BY <2>2, <2>3
    <3>3. h[Len(Append(Bases(n), Base))] = Times[<<f[Len(Bases(n))], Base>>]
      <4>1. Bases(n) \in Seq(Nat) /\ Folds(f, Bases(n), 1, Times)
        BY <2>1, <2>3
      <4> QED BY <3>1, <3>2, <4>1, TimesAppend
    <3> QED BY <2>3, <3>3
  <2> QED BY <2>1, <2>2, <2>4, BaseNat DEF Times
<1> DEFINE S == {n \in Nat : Power(n) # 0}
<1>3. 0 \in S
  BY <1>1
<1>4. ASSUME NEW n \in Nat, n \in S PROVE n + 1 \in S
  <2>1. \A p, b \in Nat : p # 0 /\ b # 0 => p * b # 0
    OBVIOUS
  <2>2. Power(n) \in Nat /\ Power(n) # 0 /\ Base \in Nat /\ Base # 0
    BY <1>2, <1>4, BaseNat
  <2>3. Power(n) * Base # 0
    BY <2>1, <2>2
  <2>4. Power(n + 1) = Power(n) * Base
    BY <1>2
  <2> QED BY <2>3, <2>4
<1> HIDE DEF S
<1>5. \A n \in Nat : n \in S
  BY <1>3, <1>4, Induction
<1> QED BY <1>1, <1>2, <1>5 DEF S

AddByte == [x \in Nat \X Bytes |-> x[1] * Base + x[2]]

LEMMA LengthFold ==
  ASSUME NEW h \in Seq(Bytes)
  PROVE  \E f \in [0..Len(h) -> Nat] : Folds(f, h, 0, AddByte) /\ Length(h) = f[Len(h)]
<1> DEFINE P(g) == g = [i \in 0..Len(h) |-> IF i = 0 THEN 0 ELSE g[i - 1] * Base + h[i]]
<1>0. Base \in Nat /\ Bytes \subseteq Nat /\ Len(h) \in Nat
  BY BaseNat, LenProperties
<1>1. AddByte \in [Nat \X Bytes -> Nat]
  <2>1. \A m, n, k \in Nat : m * n + k \in Nat
    OBVIOUS
  <2>2. \A x \in Nat \X Bytes : x[1] * Base + x[2] \in Nat
    BY <1>0, <2>1
  <2> QED BY <2>2 DEF AddByte
<1>2. PICK f \in [0..Len(h) -> Nat] : Folds(f, h, 0, AddByte)
  BY <1>1, FoldExists
<1>3. f[0] = 0 /\ \A i \in 1..Len(h) : i - 1 \in 0..Len(h) /\ f[i] = f[i - 1] * Base + h[i]
  <2>1. f[0] = 0
    BY <1>0, <1>2 DEF Folds
  <2>2. ASSUME NEW i \in 1..Len(h)
        PROVE  i - 1 \in 0..Len(h) /\ f[i] = f[i - 1] * Base + h[i]
    <3>1. i \in 0..Len(h) /\ i # 0 /\ i - 1 \in 0..Len(h) /\ h[i] \in Bytes
      BY <1>0
    <3>2. f[i] = AddByte[<<f[i - 1], h[i]>>] /\ f[i - 1] \in Nat
      BY <1>0, <1>2, <3>1 DEF Folds
    <3> QED BY <3>1, <3>2 DEF AddByte
  <2> QED BY <2>1, <2>2
<1>4. P(f)
  BY <1>0, <1>3
<1>5. Length(h) = (CHOOSE g : P(g))[Len(h)]
  BY Zenon DEF Length
<1>6. ASSUME NEW g, P(g) PROVE g[Len(h)] = f[Len(h)]
  <2> DEFINE S == {i \in Nat : i <= Len(h) => g[i] = f[i]}
  <2>1. 0 \in S
    BY <1>0, <1>3, <1>6
  <2>2. ASSUME NEW i \in Nat, i \in S PROVE i + 1 \in S
    BY <1>0, <1>3, <1>6, <2>2
  <2> HIDE DEF S
  <2>3. Len(h) \in S
    BY <1>0, <2>1, <2>2, Induction
  <2> QED BY <1>0, <2>3 DEF S
<1> HIDE DEF P
<1>7. P(CHOOSE g : P(g))
  BY <1>4, Zenon
<1> QED BY <1>2, <1>5, <1>6, <1>7

LEMMA AddByteAppend ==
  \A s \in Seq(Bytes), e \in Bytes : \A g, h :
     Folds(g, s, 0, AddByte) /\ Folds(h, Append(s, e), 0, AddByte)
       => h[Len(Append(s, e))] = AddByte[<<g[Len(s)], e>>]
BY FoldAppend

LEMMA LengthStep ==
  /\ Length(<<>>) = 0
  /\ \A h \in Seq(Bytes) :
       /\ Length(h) \in Nat
       /\ \A b \in Bytes : Length(Append(h, b)) = Length(h) * Base + b
<1>1. Length(<<>>) = 0
  <2>1. <<>> \in Seq(Bytes) /\ Len(<<>>) = 0
    OBVIOUS
  <2>2. PICK f \in [0..Len(<<>>) -> Nat] :
          Folds(f, <<>>, 0, AddByte) /\ Length(<<>>) = f[Len(<<>>)]
    BY <2>1, LengthFold
  <2>3. f[0] = 0
    BY <2>1, <2>2 DEF Folds
  <2> QED BY <2>1, <2>2, <2>3
<1>2. ASSUME NEW h \in Seq(Bytes)
      PROVE  /\ Length(h) \in Nat
             /\ \A b \in Bytes : Length(Append(h, b)) = Length(h) * Base + b
  <2>1. PICK f \in [0..Len(h) -> Nat] : Folds(f, h, 0, AddByte) /\ Length(h) = f[Len(h)]
    BY LengthFold
  <2>2. Length(h) \in Nat
    BY <2>1
  <2>3. ASSUME NEW b \in Bytes PROVE Length(Append(h, b)) = Length(h) * Base + b
    <3>1. Append(h, b) \in Seq(Bytes)
      OBVIOUS
    <3>2. PICK g \in [0..Len(Append(h, b)) -> Nat] :
            /\ Folds(g, Append(h, b), 0, AddByte)
            /\ Length(Append(h, b)) = g[Len(Append(h, b))]
      BY <3>1, LengthFold
    <3>3. g[Len(Append(h, b))] = AddByte[<<f[Len(h)], b>>]
      <4>1. Folds(f, h, 0, AddByte) /\ Folds(g, Append(h, b), 0, AddByte)
        BY <2>1, <3>2
      <4> QED BY <4>1, AddByteAppend
    <3> QED BY <2>1, <2>2, <3>2, <3>3 DEF AddByte
  <2> QED BY <2>2, <2>3
<1> QED BY <1>1, <1>2

LEMMA Division ==
  ASSUME NEW a \in Nat, NEW b \in Nat \ {0}
  PROVE  /\ a \div b \in Nat /\ a % b \in 0..(b - 1)
         /\ a = b * (a \div b) + (a % b)
OBVIOUS

\* A quotient is known by its remainder.
LEMMA Quotient ==
  ASSUME NEW a \in Nat, NEW b \in Nat \ {0}, NEW q \in Nat, NEW r \in Nat, r < b,
         a = b * q + r
  PROVE  a \div b = q
<1> DEFINE d == a \div b
           m == a % b
<1>1. d \in Nat /\ m \in Nat /\ m < b /\ a = b * d + m
  BY Division
<1> HIDE DEF d, m
<1>2. ~(d < q)
  <2> SUFFICES ASSUME d < q PROVE FALSE
    OBVIOUS
  <2>1. PICK k \in Nat : q = d + 1 + k
    <3>1. q - d - 1 \in Nat /\ q = d + 1 + (q - d - 1)
      BY <1>1
    <3> QED BY <3>1
  <2>2. b * q = b * d + b + b * k /\ b * k \in Nat
    BY <1>1, <2>1
  <2> QED BY <1>1, <2>2
<1>3. ~(q < d)
  <2> SUFFICES ASSUME q < d PROVE FALSE
    OBVIOUS
  <2>1. PICK k \in Nat : d = q + 1 + k
    <3>1. d - q - 1 \in Nat /\ d = q + 1 + (d - q - 1)
      BY <1>1
    <3> QED BY <3>1
  <2>2. b * d = b * q + b + b * k /\ b * k \in Nat
    BY <1>1, <2>1
  <2> QED BY <1>1, <2>2
<1> QED BY <1>1, <1>2, <1>3 DEF d

\* Dividing by p and then by b is dividing by their product.
LEMMA Divisions ==
  ASSUME NEW a \in Nat, NEW p \in Nat \ {0}, NEW b \in Nat \ {0}
  PROVE  (a \div (p * b)) * b + ((a \div p) % b) = a \div p
<1> DEFINE q == a \div p
           r == a % p
           u == q \div b
           v == q % b
<1>1. q \in Nat /\ r \in Nat /\ r < p /\ a = p * q + r
  BY Division
<1> HIDE DEF q, r
<1>2. u \in Nat /\ v \in Nat /\ v <= b - 1 /\ q = b * u + v
  <2>1. /\ q \div b \in Nat /\ q % b \in 0..(b - 1)
        /\ q = b * (q \div b) + (q % b)
    BY <1>1, Division
  <2> QED BY <2>1
<1> HIDE DEF u, v
<1>3. a = (p * b) * u + (p * v + r)
  <2>1. p * q = p * (b * u) + p * v
    BY <1>1, <1>2
  <2>2. p * (b * u) = (p * b) * u
    BY <1>2
  <2>3. p * q \in Nat /\ p * v \in Nat /\ (p * b) * u \in Nat
    BY <1>1, <1>2
  <2> QED BY <1>1, <2>1, <2>2, <2>3
<1>4. p * v + r \in Nat /\ p * v + r < p * b
  <2>1. PICK k \in Nat : b = v + 1 + k
    <3>1. b - 1 - v \in Nat /\ b = v + 1 + (b - 1 - v)
      BY <1>2
    <3> QED BY <3>1
  <2>2. p * b = p * v + p + p * k /\ p * k \in Nat /\ p * v \in Nat
    BY <1>2, <2>1
  <2> QED BY <1>1, <2>2
<1>5. p * b \in Nat \ {0}
  OBVIOUS
<1> DEFINE pb == p * b
           s == p * v + r
<1>6. pb \in Nat \ {0} /\ s \in Nat /\ s < pb /\ a = pb * u + s
  BY <1>3, <1>4, <1>5
<1> HIDE DEF pb, s
<1>7. a \div pb = u
  BY <1>2, <1>6, Quotient
<1>8. u * b + v = q
  BY <1>2
<1> QED BY <1>7, <1>8 DEF pb, q, v

-----------------------------------------------------------------------------
(* What send() writes, onMessage() reads.                                  *)

\* What send() can send: the length fits into the header.
Messages == {t \in Seq(Bytes) : Len(t) < Power(HeaderLen)}

LEMMA HeaderLenNat == HeaderLen \in Nat /\ HeaderLen # 0 /\ HeaderLen <= CheapPrepend
BY HeaderAssumption

LEMMA HeaderTyped ==
  ASSUME NEW len \in Nat
  PROVE  Header(len) \in Seq(Bytes) /\ Len(Header(len)) = HeaderLen
<1>1. ASSUME NEW i \in 1..HeaderLen
      PROVE  (len \div Power(HeaderLen - i)) % Base \in Bytes
  <2>1. HeaderLen - i \in Nat
    BY HeaderLenNat
  <2>2. Power(HeaderLen - i) \in Nat \ {0}
    BY <2>1, PowerStep
  <2>3. len \div Power(HeaderLen - i) \in Nat
    BY <2>2, Division
  <2> DEFINE q == len \div Power(HeaderLen - i)
  <2> HIDE DEF q
  <2>4. q \in Nat /\ Base \in Nat \ {0}
    BY <2>3, BaseNat DEF q
  <2>5. q % Base \in 0..(Base - 1)
    BY <2>4, Division
  <2> QED BY <2>5, BaseNat DEF q
<1>2. Header(len) = [i \in 1..HeaderLen |-> (len \div Power(HeaderLen - i)) % Base]
  BY DEF Header
<1>3. Header(len) \in [1..HeaderLen -> Bytes]
  BY <1>1, <1>2
<1> QED BY <1>3, HeaderLenNat, SeqDef, LenProperties

\* The number that send() writes into a header is the one onMessage() reads.
THEOREM HeaderKeepsLength ==
  ASSUME NEW len \in Nat, len < Power(HeaderLen)
  PROVE  Length(Header(len)) = len
<1> DEFINE h == Header(len)
           q(k) == len \div Power(HeaderLen - k)
           S == {k \in Nat : k <= HeaderLen => Length(SubSeq(h, 1, k)) = q(k)}
<1>1. h \in Seq(Bytes) /\ Len(h) = HeaderLen
  BY HeaderTyped
<1>2. 0 \in S
  <2>1. Power(HeaderLen) \in Nat \ {0}
    BY HeaderLenNat, PowerStep
  <2>2. len \div Power(HeaderLen) = 0
    <3>1. len = Power(HeaderLen) * 0 + len
      BY <2>1
    <3> QED BY <2>1, <3>1, Quotient
  <2>3. SubSeq(h, 1, 0) = <<>>
    BY SubSeqEmpty
  <2>4. HeaderLen - 0 = HeaderLen
    BY HeaderLenNat
  <2> QED BY <2>2, <2>3, <2>4, LengthStep
<1>3. ASSUME NEW k \in Nat, k \in S PROVE k + 1 \in S
  <2> SUFFICES ASSUME k + 1 <= HeaderLen
               PROVE  Length(SubSeq(h, 1, k + 1)) = q(k + 1)
    OBVIOUS
  <2>1. Length(SubSeq(h, 1, k)) = q(k)
    BY <1>3, HeaderLenNat
  <2> DEFINE n == HeaderLen - (k + 1)
  <2>2. n \in Nat /\ HeaderLen - k = n + 1
    BY HeaderLenNat
  <2> HIDE DEF n
  <2>3. Power(n) \in Nat \ {0} /\ Power(n + 1) = Power(n) * Base
    BY <2>2, PowerStep
  <2>4. h[k + 1] = (len \div Power(n)) % Base
    BY HeaderLenNat DEF Header, n
  <2>5. (len \div (Power(n) * Base)) * Base + ((len \div Power(n)) % Base) = len \div Power(n)
    <3> DEFINE p == Power(n)
    <3> HIDE DEF p
    <3>1. p \in Nat \ {0} /\ Base \in Nat \ {0}
      BY <2>3, BaseNat DEF p
    <3>2. (len \div (p * Base)) * Base + ((len \div p) % Base) = len \div p
      BY <3>1, Divisions
    <3> QED BY <3>2 DEF p
  <2>6. SubSeq(h, 1, k) \in Seq(Bytes) /\ h[k + 1] \in Bytes
        /\ SubSeq(h, 1, k + 1) = Append(SubSeq(h, 1, k), h[k + 1])
    <3> HIDE DEF h
    <3>1. k + 1 \in 1..Len(h) /\ 1 \in 1..Len(h)
      BY <1>1, HeaderLenNat
    <3>2. h[k + 1] \in Bytes /\ SubSeq(h, 1, k) \in Seq(Bytes)
      BY <1>1, <3>1
    <3>3. SubSeq(h, 1, k + 1) = SubSeq(h, 1, k) \o <<h[k + 1]>>
      BY <1>1, <3>1, SubSeqRecursiveSecond
    <3> QED BY <3>2, <3>3, AppendIsConcat
  <2>7. Length(SubSeq(h, 1, k + 1)) = Length(SubSeq(h, 1, k)) * Base + h[k + 1]
    BY <2>6, LengthStep
  <2>8. q(k + 1) = len \div Power(n) /\ q(k) = len \div (Power(n) * Base)
    BY <2>2, <2>3 DEF n
  <2> HIDE DEF q, h
  <2> QED BY <2>1, <2>4, <2>5, <2>7, <2>8
<1> HIDE DEF S
<1>4. HeaderLen \in S
  BY <1>2, <1>3, HeaderLenNat, Induction
<1>5. Length(SubSeq(h, 1, HeaderLen)) = q(HeaderLen)
  BY <1>4, HeaderLenNat DEF S
<1>6. SubSeq(h, 1, HeaderLen) = h
  BY <1>1, SubSeqFull
<1>7. q(HeaderLen) = len
  <2>1. HeaderLen - HeaderLen = 0 /\ Power(0) = 1
    BY HeaderLenNat, PowerStep
  <2> QED BY <2>1
<1> QED BY <1>5, <1>6, <1>7

\* append() leaves the space in front, so that prepend() finds it.
LEMMA AppendLeavesRoom ==
  ASSUME NEW size \in Nat, NEW d \in Seq(Bytes)
  PROVE  AppendBytes(NewBuffer(size), d).reader = CheapPrepend
<1> DEFINE b == NewBuffer(size)
           e == EnsureWritableBytes(b, Len(d))
<1>1. b.reader = CheapPrepend
  BY DEF NewBuffer
<1>2. e.reader = CheapPrepend
  <2>1. CASE WritableBytes(b) < Len(d)
    <3>1. e = MakeSpace(b, Len(d))
      BY <2>1 DEF EnsureWritableBytes
    <3>2. CASE Grows(b, Len(d))
      BY <1>1, <3>1, <3>2 DEF MakeSpace, NewBuffer
    <3>3. CASE ~Grows(b, Len(d))
      BY <3>1, <3>3 DEF MakeSpace
    <3> QED BY <3>2, <3>3
  <2>2. CASE ~(WritableBytes(b) < Len(d))
    BY <1>1, <2>2 DEF EnsureWritableBytes
  <2> QED BY <2>1, <2>2
<1>3. BufferOK(e)
  <2>1. BufferOK(b) /\ Len(d) \in Nat
    BY NewBufferProperties
  <2> QED BY <2>1, EnsureProperties
<1> HIDE DEF e
<1>4. WriteBehind(e, d).reader = e.reader
  BY <1>3, BufferTypes DEF WriteBehind, Buffers
<1> QED BY <1>2, <1>4 DEF AppendBytes, e

\* send(): the message behind its header.
LEMMA EncodeIs ==
  ASSUME NEW t \in Messages
  PROVE  /\ Encode(t) = Header(Len(t)) \o t
         /\ Encode(t) \in Seq(Bytes)
         /\ Len(Encode(t)) = HeaderLen + Len(t)
<1> DEFINE b == AppendBytes(NewBuffer(InitialSize), t)
           h == Header(Len(t))
<1>0. t \in Seq(Bytes) /\ Len(t) \in Nat /\ InitialSize \in Nat
  BY BufferSizesAssumption DEF Messages
<1>1. h \in Seq(Bytes) /\ Len(h) = HeaderLen /\ Len(h) <= CheapPrepend
  BY <1>0, HeaderTyped, HeaderLenNat
<1>2. BufferOK(b) /\ Contents(b) = <<>> \o t
  BY <1>0, NewBufferProperties, AppendBytesProperties
<1>3. b.reader = CheapPrepend
  BY <1>0, AppendLeavesRoom
<1>4. PrependAsserts(b, h)
  BY <1>1, <1>3 DEF PrependAsserts, PrependableBytes
<1>5. Encode(t) = Contents(Prepend(b, h))
  BY DEF Encode
<1> HIDE DEF b, h
<1>6. Encode(t) = h \o Contents(b)
  BY <1>1, <1>2, <1>4, <1>5, PrependProperties
<1>7. Contents(b) = t
  BY <1>0, <1>2
<1> QED BY <1>0, <1>1, <1>6, <1>7, ConcatProperties DEF h

-----------------------------------------------------------------------------
(* A stream of messages.                                                   *)

Encoded(s) == [i \in DOMAIN s |-> Encode(s[i])]

LEMMA EncodedIs ==
  ASSUME NEW s \in Seq(Messages)
  PROVE  /\ EncodeAll(s) = FlattenSeq(Encoded(s))
         /\ Encoded(s) \in Seq(Seq(Bytes)) /\ Len(Encoded(s)) = Len(s)
         /\ \A i \in 1..Len(s) : Encoded(s)[i] = Encode(s[i]) /\ Encode(s[i]) \in Seq(Bytes)
<1>1. /\ Len(s) \in Nat /\ DOMAIN s = 1..Len(s) /\ \A i \in 1..Len(s) : s[i] \in Messages
  OBVIOUS
<1>2. \A i \in 1..Len(s) : Encode(s[i]) \in Seq(Bytes)
  BY <1>1, EncodeIs
<1>3. Encoded(s) \in Seq(Seq(Bytes)) /\ Len(Encoded(s)) = Len(s)
      /\ \A i \in 1..Len(s) : Encoded(s)[i] = Encode(s[i])
  BY <1>1, <1>2 DEF Encoded
<1> QED BY <1>2, <1>3 DEF EncodeAll, Encoded

LEMMA EncodeEmpty == EncodeAll(<<>>) = <<>>
<1>1. <<>> \in Seq(Messages) /\ Len(<<>>) = 0
  OBVIOUS
<1>2. Encoded(<<>>) \in Seq(Seq(Bytes)) /\ Len(Encoded(<<>>)) = 0
  BY <1>1, EncodedIs
<1>3. Encoded(<<>>) = <<>>
  BY <1>2
<1> QED BY <1>1, <1>3, EncodedIs, FlattenEmpty

LEMMA EncodeTyped ==
  ASSUME NEW s \in Seq(Messages) PROVE EncodeAll(s) \in Seq(Bytes)
BY EncodedIs, FlattenTyped

\* Messages behind messages.
LEMMA EncodeConcat ==
  ASSUME NEW s \in Seq(Messages), NEW t \in Seq(Messages)
  PROVE  EncodeAll(s \o t) = EncodeAll(s) \o EncodeAll(t)
<1> DEFINE p == Encoded(s)
           q == Encoded(t)
           r == Encoded(s \o t)
<1>1. /\ s \o t \in Seq(Messages) /\ Len(s \o t) = Len(s) + Len(t)
      /\ Len(s) \in Nat /\ Len(t) \in Nat
      /\ \A i \in 1..Len(s) : (s \o t)[i] = s[i]
      /\ \A i \in 1..Len(t) : (s \o t)[Len(s) + i] = t[i]
  OBVIOUS
<1>2. /\ p \in Seq(Seq(Bytes)) /\ Len(p) = Len(s)
      /\ \A i \in 1..Len(s) : p[i] = Encode(s[i])
  BY EncodedIs
<1>3. /\ q \in Seq(Seq(Bytes)) /\ Len(q) = Len(t)
      /\ \A i \in 1..Len(t) : q[i] = Encode(t[i])
  BY EncodedIs
<1>4. /\ r \in Seq(Seq(Bytes)) /\ Len(r) = Len(s) + Len(t)
      /\ \A i \in 1..(Len(s) + Len(t)) : r[i] = Encode((s \o t)[i])
  BY <1>1, EncodedIs
<1>5. EncodeAll(s) = FlattenSeq(p) /\ EncodeAll(t) = FlattenSeq(q)
      /\ EncodeAll(s \o t) = FlattenSeq(r)
  BY <1>1, EncodedIs
<1> HIDE DEF p, q, r
<1>6. p \o q \in Seq(Seq(Bytes)) /\ Len(p \o q) = Len(s) + Len(t)
  <2>1. p \in Seq(Seq(Bytes)) /\ q \in Seq(Seq(Bytes))
    BY <1>2, <1>3
  <2>2. p \o q \in Seq(Seq(Bytes)) /\ Len(p \o q) = Len(p) + Len(q)
    BY <2>1, ConcatProperties
  <2> QED BY <1>2, <1>3, <2>2
<1>7. ASSUME NEW i \in 1..Len(r) PROVE r[i] = (p \o q)[i]
  <2>1. CASE i <= Len(s)
    <3>1. i \in 1..Len(s) /\ i \in 1..(Len(s) + Len(t))
      BY <1>1, <1>4, <2>1
    <3>2. (p \o q)[i] = p[i]
      BY <1>1, <1>2, <1>3, <3>1
    <3> QED BY <1>1, <1>2, <1>4, <3>1, <3>2
  <2>2. CASE ~(i <= Len(s))
    <3> DEFINE k == i - Len(s)
    <3>1. k \in 1..Len(t) /\ i = Len(s) + k /\ i \in 1..(Len(s) + Len(t))
      BY <1>1, <1>4, <2>2
    <3> HIDE DEF k
    <3>2. (p \o q)[Len(p) + k] = q[k]
      <4>1. k \in 1..Len(q)
        BY <1>3, <3>1
      <4> QED BY <1>2, <1>3, <4>1
    <3> QED BY <1>1, <1>2, <1>3, <1>4, <3>1, <3>2
  <2> QED BY <2>1, <2>2
<1>8. r = p \o q
  BY <1>4, <1>6, <1>7, SeqEqual
<1> QED BY <1>2, <1>3, <1>5, <1>8, FlattenConcat

LEMMA EncodeOne ==
  ASSUME NEW t \in Messages PROVE EncodeAll(<<t>>) = Encode(t)
<1>1. <<t>> \in Seq(Messages) /\ Len(<<t>>) = 1 /\ <<t>>[1] = t
  OBVIOUS
<1> DEFINE s == <<t>>
<1>2. Encoded(s) \in Seq(Seq(Bytes)) /\ Len(Encoded(s)) = 1
      /\ Encoded(s)[1] = Encode(t) /\ EncodeAll(s) = FlattenSeq(Encoded(s))
  <2>1. s \in Seq(Messages) /\ 1 \in 1..Len(s) /\ Len(s) = 1 /\ s[1] = t
    BY <1>1
  <2> HIDE DEF s
  <2> QED BY <2>1, EncodedIs
<1>3. Encode(t) \in Seq(Bytes)
  BY EncodeIs
<1>4. Encoded(<<t>>) = <<Encode(t)>>
  BY <1>2, <1>3
<1> QED BY <1>2, <1>3, <1>4, FlattenOne

\* The first message of a stream.
LEMMA EncodeFirst ==
  ASSUME NEW s \in Seq(Messages), s # <<>>
  PROVE  /\ s[1] \in Messages /\ Tail(s) \in Seq(Messages)
         /\ EncodeAll(s) = Encode(s[1]) \o EncodeAll(Tail(s))
<1>1. /\ s[1] \in Messages /\ Tail(s) \in Seq(Messages)
      /\ s = <<s[1]>> \o Tail(s)
  OBVIOUS
<1>2. <<s[1]>> \in Seq(Messages)
  BY <1>1
<1>3. EncodeAll(<<s[1]>>) = Encode(s[1])
  BY <1>1, EncodeOne
<1> QED BY <1>1, <1>2, <1>3, EncodeConcat

-----------------------------------------------------------------------------
(* onMessage().                                                            *)

\* The buffers that the operations of Buffer lead to.
Sound == {b \in Buffers : BufferOK(b)}

\* Whether the loop ends at b and with what, and what it does with the rest.
Stops(b) == ~HeaderThere(b) \/ Invalid(NextLength(b)) \/ ~MessageThere(b)
Result(b) == IF HeaderThere(b) /\ Invalid(NextLength(b)) THEN Rejected(b) ELSE Waiting(b)
Joined(m, r) == [r EXCEPT !.messages = <<m>> \o @]
Round(f, b) ==
    IF Stops(b) THEN Result(b) ELSE Joined(NextMessage(b), f[BehindMessage(b)])

LEMMA SoundIs == \A b : b \in Sound <=> BufferOK(b)
BY DEF Sound, BufferOK

\* What is taken from the front of a buffer.
LEMMA TakesMessage ==
  ASSUME NEW b \in Sound, HeaderThere(b)
  PROVE  /\ NextLength(b) = Length(SubSeq(Contents(b), 1, HeaderLen))
         /\ NextLength(b) \in Nat
         /\ MessageThere(b) =>
              /\ BehindMessage(b) \in Sound
              /\ ReadableBytes(BehindMessage(b)) < ReadableBytes(b)
              /\ NextMessage(b) = SubSeq(Contents(b), HeaderLen + 1, HeaderLen + NextLength(b))
              /\ Contents(BehindMessage(b))
                   = SubSeq(Contents(b), HeaderLen + NextLength(b) + 1, Len(Contents(b)))
<1> DEFINE c == Contents(b)
           h == SubSeq(c, 1, HeaderLen)
           n == NextLength(b)
           r == Retrieve(b, HeaderLen)
           m == Retrieve(r, n)
<1>0. BufferOK(b) /\ HeaderLen \in Nat /\ HeaderLen # 0
  BY SoundIs, HeaderLenNat
<1>1. c \in Seq(Bytes) /\ Len(c) = ReadableBytes(b) /\ ReadableBytes(b) \in Nat
      /\ HeaderLen <= Len(c)
  BY <1>0, ContentsProperties, BufferTypes DEF HeaderThere
<1> HIDE DEF c
<1>2. h \in Seq(Bytes)
  BY <1>0, <1>1
<1>3. n = Length(h)
  BY DEF NextLength, Peek, c
<1>4. n \in Nat
  BY <1>2, <1>3, LengthStep
<1> HIDE DEF n
<1>5. BufferOK(r) /\ Contents(r) = SubSeq(c, HeaderLen + 1, Len(c))
  BY <1>0, <1>1, RetrieveProperties DEF RetrieveAsserts, c
<1>6. ReadableBytes(r) = Len(c) - HeaderLen
  <2>1. Len(SubSeq(c, HeaderLen + 1, Len(c))) = Len(c) - HeaderLen
    BY <1>0, <1>1
  <2> QED BY <1>5, <2>1, ContentsProperties
<1> HIDE DEF r
<1>7. ASSUME MessageThere(b)
      PROVE  /\ BehindMessage(b) \in Sound
             /\ ReadableBytes(BehindMessage(b)) < ReadableBytes(b)
             /\ NextMessage(b) = SubSeq(c, HeaderLen + 1, HeaderLen + n)
             /\ Contents(BehindMessage(b)) = SubSeq(c, HeaderLen + n + 1, Len(c))
  <2>1. n + HeaderLen <= Len(c)
    BY <1>1, <1>7 DEF MessageThere, n
  <2>2. BufferOK(m) /\ Contents(m) = SubSeq(Contents(r), n + 1, Len(Contents(r)))
    <3>1. n <= ReadableBytes(r)
      BY <1>0, <1>1, <1>4, <1>6, <2>1
    <3> QED BY <1>4, <1>5, <3>1, RetrieveProperties DEF RetrieveAsserts
  <2>3. m = BehindMessage(b)
    BY DEF BehindMessage, n, r
  <2> DEFINE rest == SubSeq(c, HeaderLen + 1, Len(c))
  <2>4. /\ rest \in Seq(Bytes) /\ Len(rest) = Len(c) - HeaderLen
        /\ \A i \in 1..Len(rest) : rest[i] = c[HeaderLen + i]
    BY <1>0, <1>1
  <2> HIDE DEF rest
  <2>5. SubSeq(rest, n + 1, Len(rest)) = SubSeq(c, HeaderLen + n + 1, Len(c))
    <3> DEFINE u == SubSeq(rest, n + 1, Len(rest))
               v == SubSeq(c, HeaderLen + n + 1, Len(c))
    <3>1. /\ u \in Seq(Bytes) /\ Len(u) = Len(c) - HeaderLen - n
          /\ \A i \in 1..Len(u) : u[i] = c[HeaderLen + n + i]
      BY <1>0, <1>1, <1>4, <2>1, <2>4
    <3>2. /\ v \in Seq(Bytes) /\ Len(v) = Len(c) - HeaderLen - n
          /\ \A i \in 1..Len(v) : v[i] = c[HeaderLen + n + i]
      BY <1>0, <1>1, <1>4, <2>1
    <3> HIDE DEF u, v
    <3>3. u = v
      BY <3>1, <3>2, SeqEqual
    <3> QED BY <3>3 DEF u, v
  <2>6. SubSeq(rest, 1, n) = SubSeq(c, HeaderLen + 1, HeaderLen + n)
    BY <1>0, <1>1, <1>4, <2>1, <2>4
  <2>7. Contents(r) = rest
    BY <1>5 DEF rest
  <2>8. NextMessage(b) = SubSeq(Contents(r), 1, n)
    BY DEF NextMessage, Peek, n, r
  <2> HIDE DEF m
  <2>9. ReadableBytes(m) < ReadableBytes(b)
    <3>1. ReadableBytes(m) = Len(Contents(m))
      BY <2>2, ContentsProperties
    <3>2. Len(SubSeq(rest, n + 1, Len(rest))) = Len(rest) - n
      BY <1>0, <1>1, <1>4, <2>1, <2>4
    <3> QED BY <1>0, <1>1, <1>4, <2>1, <2>2, <2>4, <2>7, <3>1, <3>2
  <2>10. m \in Sound
    BY <2>2, SoundIs
  <2> QED BY <2>2, <2>3, <2>5, <2>6, <2>7, <2>8, <2>9, <2>10
<1> QED BY <1>3, <1>4, <1>7 DEF n, c

\* What the loop makes of the buffers with less than n readable bytes.
Short(n) == {b \in Sound : ReadableBytes(b) < n}
Splits(n, f) == f = [b \in Short(n) |-> Round(f, b)]

LEMMA Shorter ==
  ASSUME NEW b \in Sound, ~Stops(b)
  PROVE  BehindMessage(b) \in Sound /\ ReadableBytes(BehindMessage(b)) < ReadableBytes(b)
BY TakesMessage DEF Stops

LEMMA SoundLength == \A b \in Sound : ReadableBytes(b) \in Nat
BY BufferTypes, SoundIs

\* There is one such function.
LEMMA SplitsAgree ==
  ASSUME NEW n \in Nat, NEW m \in Nat, NEW f, NEW g, Splits(n, f), Splits(m, g),
         NEW b \in Short(n), b \in Short(m)
  PROVE  f[b] = g[b]
<1> DEFINE S == {k \in Nat : \A x \in Short(n) \cap Short(m) :
                   ReadableBytes(x) = k => f[x] = g[x]}
<1>1. ASSUME NEW k \in Nat, \A j \in 0..(k - 1) : j \in S PROVE k \in S
  <2> SUFFICES ASSUME NEW x \in Short(n) \cap Short(m), ReadableBytes(x) = k
               PROVE  f[x] = g[x]
    OBVIOUS
  <2>1. f[x] = Round(f, x) /\ g[x] = Round(g, x)
    BY DEF Splits
  <2>2. x \in Sound /\ k < n /\ k < m
    BY DEF Short
  <2>3. CASE Stops(x)
    BY <2>1, <2>3 DEF Round
  <2>4. CASE ~Stops(x)
    <3> DEFINE y == BehindMessage(x)
    <3>1. y \in Sound /\ ReadableBytes(y) < k /\ ReadableBytes(y) \in Nat
      BY <2>2, <2>4, Shorter, SoundLength
    <3>2. y \in Short(n) \cap Short(m) /\ ReadableBytes(y) \in S
      BY <1>1, <2>2, <3>1 DEF Short
    <3> HIDE DEF y
    <3>3. f[y] = g[y]
      BY <3>2
    <3> QED BY <2>1, <2>4, <3>3 DEF Round, y
  <2> QED BY <2>3, <2>4
<1> HIDE DEF S
<1>2. \A k \in Nat : k \in S
  BY <1>1, CourseOfValues
<1>3. ReadableBytes(b) \in Nat
  BY SoundLength DEF Short
<1> QED BY <1>2, <1>3 DEF S

LEMMA SplitsExist ==
  \A n \in Nat : \E f : Splits(n, f)
<1> DEFINE S == {n \in Nat : \E f : Splits(n, f)}
<1>1. 0 \in S
  <2>1. Short(0) = {}
    BY SoundLength DEF Short
  <2>2. Splits(0, [b \in Short(0) |-> 0])
    BY <2>1 DEF Splits
  <2> QED BY <2>2
<1>2. ASSUME NEW n \in Nat, n \in S PROVE n + 1 \in S
  <2>1. PICK f : Splits(n, f)
    BY <1>2
  <2> DEFINE g == [b \in Short(n + 1) |-> Round(f, b)]
  <2>2. ASSUME NEW b \in Short(n + 1) PROVE Round(f, b) = Round(g, b)
    <3>1. b \in Sound /\ ReadableBytes(b) \in Nat /\ ReadableBytes(b) <= n
      BY SoundLength DEF Short
    <3>2. CASE Stops(b)
      BY <3>2 DEF Round
    <3>3. CASE ~Stops(b)
      <4> DEFINE y == BehindMessage(b)
      <4>1. y \in Sound /\ ReadableBytes(y) < n /\ ReadableBytes(y) \in Nat
        BY <3>1, <3>3, Shorter, SoundLength
      <4>2. y \in Short(n) /\ y \in Short(n + 1)
        BY <4>1 DEF Short
      <4> HIDE DEF y
      <4>3. f[y] = Round(f, y)
        BY <2>1, <4>2 DEF Splits
      <4>4. g[y] = Round(f, y)
        BY <4>2
      <4> HIDE DEF g
      <4> QED BY <3>3, <4>3, <4>4 DEF Round, y
    <3> QED BY <3>2, <3>3
  <2>3. Splits(n + 1, g)
    BY <2>2 DEF Splits
  <2> QED BY <2>3
<1> HIDE DEF S
<1>3. \A n \in Nat : n \in S
  BY <1>1, <1>2, Induction
<1> QED BY <1>3 DEF S

\* The function of the definition is that one, for all buffers.
LEMMA SplitRound ==
  ASSUME NEW b \in Sound
  PROVE  Split[b] = Round(Split, b)
<1> DEFINE G(n) == CHOOSE f : Splits(n, f)
           F == [x \in Sound |-> G(ReadableBytes(x) + 1)[x]]
           P(f) == f = [x \in Sound |-> Round(f, x)]
<1>1. \A n \in Nat : Splits(n, G(n))
  BY SplitsExist, Zenon
<1> HIDE DEF G
<1>2. ASSUME NEW x \in Sound PROVE F[x] = Round(F, x)
  <2> DEFINE k == ReadableBytes(x)
             g == G(k + 1)
  <2>1. k \in Nat /\ k + 1 \in Nat /\ x \in Short(k + 1)
    BY SoundLength DEF Short
  <2> HIDE DEF k
  <2>2. Splits(k + 1, g)
    BY <1>1, <2>1
  <2>3. F[x] = g[x]
    BY DEF k
  <2> HIDE DEF g
  <2>4. g[x] = Round(g, x)
    BY <2>1, <2>2 DEF Splits
  <2>5. CASE Stops(x)
    BY <2>3, <2>4, <2>5 DEF Round
  <2>6. CASE ~Stops(x)
    <3> DEFINE y == BehindMessage(x)
               j == ReadableBytes(y)
               h == G(j + 1)
    <3>1. y \in Sound /\ j < k /\ j \in Nat /\ j + 1 \in Nat
      BY <2>6, Shorter, SoundLength DEF k
    <3>2. y \in Short(k + 1) /\ y \in Short(j + 1)
      BY <2>1, <3>1 DEF Short
    <3>3. F[y] = h[y]
      BY <3>1
    <3> HIDE DEF y, j
    <3>4. Splits(j + 1, h)
      BY <1>1, <3>1
    <3> HIDE DEF h
    <3>5. g[y] = h[y]
      BY <2>1, <2>2, <3>1, <3>2, <3>4, SplitsAgree
    <3> HIDE DEF F
    <3> QED BY <2>3, <2>4, <2>6, <3>3, <3>5 DEF Round, y
  <2> QED BY <2>5, <2>6
<1>3. P(F)
  BY <1>2
<1> HIDE DEF F
<1>4. \A f, x : Round(f, x) =
        CASE ~HeaderThere(x) -> Waiting(x)
          [] HeaderThere(x) /\ Invalid(NextLength(x)) -> Rejected(x)
          [] HeaderThere(x) /\ ~Invalid(NextLength(x)) /\ ~MessageThere(x) -> Waiting(x)
          [] OTHER -> [f[BehindMessage(x)] EXCEPT !.messages = <<NextMessage(x)>> \o @]
  BY DEF Round, Stops, Result, Joined
<1>5. Split = CHOOSE f : P(f)
  BY <1>4 DEF Split, Sound
<1> HIDE DEF P
<1>6. P(Split)
  BY <1>3, <1>5, Zenon
<1> QED BY <1>6 DEF P

\* The same bytes in two cuts: c and rest, h and w and e.
LEMMA TwoCuts ==
  ASSUME NEW c \in Seq(Bytes), NEW rest \in Seq(Bytes), NEW h \in Seq(Bytes),
         NEW w \in Seq(Bytes), NEW e \in Seq(Bytes), c \o rest = (h \o w) \o e
  PROVE  /\ Len(h) <= Len(c) => SubSeq(c, 1, Len(h)) = h
         /\ Len(h) + Len(w) <= Len(c) =>
              /\ SubSeq(c, Len(h) + 1, Len(h) + Len(w)) = w
              /\ SubSeq(c, Len(h) + Len(w) + 1, Len(c)) \o rest = e
<1> DEFINE x == c \o rest
           p == Len(h)
           q == Len(w)
<1>0. p \in Nat /\ q \in Nat /\ Len(c) \in Nat /\ Len(rest) \in Nat /\ Len(e) \in Nat
  OBVIOUS
<1>1. /\ Len(x) = Len(c) + Len(rest)
      /\ \A i \in 1..Len(c) : x[i] = c[i]
      /\ \A i \in 1..Len(rest) : x[Len(c) + i] = rest[i]
  <2>1. Len(x) = Len(c) + Len(rest)
    OBVIOUS
  <2>2. \A i \in 1..Len(c) : x[i] = c[i]
    OBVIOUS
  <2>3. \A i \in 1..Len(rest) : x[Len(c) + i] = rest[i]
    <3> TAKE i \in 1..Len(rest)
    <3>1. Len(c) + i \in 1..(Len(c) + Len(rest)) /\ ~(Len(c) + i <= Len(c)) /\ (Len(c) + i) - Len(c) = i
      BY <1>0
    <3> QED BY <1>0, <3>1
  <2> QED BY <2>1, <2>2, <2>3
<1>2. /\ Len(x) = p + q + Len(e)
      /\ \A i \in 1..p : x[i] = h[i]
      /\ \A i \in 1..q : x[p + i] = w[i]
      /\ \A i \in 1..Len(e) : x[p + q + i] = e[i]
  <2>1. x = (h \o w) \o e
    OBVIOUS
  <2> HIDE DEF x
  <2>2. h \o w \in Seq(Bytes) /\ Len(h \o w) = p + q
    OBVIOUS
  <2>3. Len(x) = p + q + Len(e)
    BY <2>1, <2>2
  <2>4. \A i \in 1..(p + q) : x[i] = (h \o w)[i]
    BY <2>1, <2>2
  <2>5. \A i \in 1..Len(e) : x[p + q + i] = e[i]
    BY <2>1, <2>2
  <2>6. /\ \A i \in 1..p : (h \o w)[i] = h[i]
        /\ \A i \in 1..q : (h \o w)[p + i] = w[i]
    OBVIOUS
  <2> HIDE DEF p, q
  <2>7. ASSUME NEW i \in 1..p PROVE x[i] = h[i]
    <3>1. i \in 1..(p + q)
      BY <1>0
    <3> QED BY <2>4, <2>6, <3>1
  <2>8. ASSUME NEW i \in 1..q PROVE x[p + i] = w[i]
    <3>1. p + i \in 1..(p + q)
      BY <1>0
    <3> QED BY <2>4, <2>6, <3>1
  <2> QED BY <2>3, <2>5, <2>7, <2>8
<1> HIDE DEF x, p, q
<1>3. ASSUME p <= Len(c) PROVE SubSeq(c, 1, p) = h
  <2> DEFINE u == SubSeq(c, 1, p)
  <2>1. u \in Seq(Bytes) /\ Len(u) = p /\ \A i \in 1..p : u[i] = c[i]
    BY <1>0, <1>3
  <2> HIDE DEF u
  <2>2. ASSUME NEW i \in 1..p PROVE u[i] = h[i]
    <3>1. i \in 1..Len(c)
      BY <1>0, <1>3
    <3> QED BY <1>1, <1>2, <2>1, <3>1
  <2>3. u = h
    BY <2>1, <2>2, SeqEqual DEF p
  <2> QED BY <2>3 DEF u
<1>4. ASSUME p + q <= Len(c)
      PROVE  /\ SubSeq(c, p + 1, p + q) = w
             /\ SubSeq(c, p + q + 1, Len(c)) \o rest = e
  <2> DEFINE u == SubSeq(c, p + 1, p + q)
             v == SubSeq(c, p + q + 1, Len(c))
             y == v \o rest
  <2>1. u \in Seq(Bytes) /\ Len(u) = q /\ \A i \in 1..q : u[i] = c[p + i]
    BY <1>0, <1>4
  <2>2. /\ v \in Seq(Bytes) /\ Len(v) = Len(c) - p - q
        /\ \A i \in 1..Len(v) : v[i] = c[p + q + i]
    BY <1>0, <1>4
  <2> HIDE DEF u, v
  <2>3. \A i \in 1..q : u[i] = w[i]
    <3> TAKE i \in 1..q
    <3>1. p + i \in 1..Len(c)
      BY <1>0, <1>4
    <3> QED BY <1>1, <1>2, <2>1, <3>1
  <2>4. u = w
    BY <2>1, <2>3, SeqEqual DEF q
  <2>5. /\ y \in Seq(Bytes) /\ Len(y) = Len(e)
        /\ \A i \in 1..Len(v) : y[i] = v[i]
        /\ \A i \in 1..Len(rest) : y[Len(v) + i] = rest[i]
    <3>1. /\ y \in Seq(Bytes) /\ Len(y) = Len(v) + Len(rest)
          /\ \A i \in 1..(Len(v) + Len(rest)) :
               y[i] = IF i <= Len(v) THEN v[i] ELSE rest[i - Len(v)]
      <4>1. v \in Seq(Bytes)
        BY <2>2
      <4> QED BY <4>1, ConcatProperties
    <3> HIDE DEF y
    <3>2. Len(v) \in Nat /\ Len(y) = Len(e)
      BY <1>0, <1>1, <1>2, <1>4, <2>2, <3>1
    <3>3. ASSUME NEW i \in 1..Len(v) PROVE y[i] = v[i]
      <4>1. i \in 1..(Len(v) + Len(rest)) /\ i <= Len(v)
        BY <1>0, <3>2
      <4> QED BY <3>1, <4>1
    <3>4. ASSUME NEW i \in 1..Len(rest) PROVE y[Len(v) + i] = rest[i]
      <4>1. /\ Len(v) + i \in 1..(Len(v) + Len(rest)) /\ ~(Len(v) + i <= Len(v))
            /\ (Len(v) + i) - Len(v) = i
        BY <1>0, <3>2
      <4> QED BY <3>1, <4>1
    <3> QED BY <3>1, <3>2, <3>3, <3>4
  <2> HIDE DEF y
  <2>6. ASSUME NEW i \in 1..Len(e) PROVE y[i] = e[i]
    <3>1. CASE i \in 1..Len(v)
      <4>1. p + q + i \in 1..Len(c)
        BY <1>0, <1>4, <2>2, <3>1
      <4> QED BY <1>1, <1>2, <2>2, <2>5, <3>1, <4>1
    <3>2. CASE i \notin 1..Len(v)
      <4> DEFINE k == i - Len(v)
      <4>1. k \in 1..Len(rest) /\ Len(v) + k = i /\ Len(c) + k = p + q + i
        BY <1>0, <1>1, <1>2, <1>4, <2>2, <3>2
      <4> HIDE DEF k
      <4>2. y[i] = rest[k] /\ x[Len(c) + k] = rest[k]
        BY <1>1, <2>5, <4>1
      <4> QED BY <1>2, <4>1, <4>2
    <3> QED BY <3>1, <3>2
  <2>7. y = e
    BY <2>5, <2>6, SeqEqual
  <2> QED BY <2>4, <2>7 DEF u, v, y
<1> QED BY <1>3, <1>4 DEF p, q

-----------------------------------------------------------------------------
(* What onMessage() takes of a stream of messages, wherever it is cut.     *)

\* The header of the first message of the stream is the one that is read.
LEMMA NextIs ==
  ASSUME NEW x \in Sound, NEW rest \in Seq(Bytes), NEW t \in Seq(Messages),
         Contents(x) \o rest = EncodeAll(t), HeaderThere(x)
  PROVE  /\ t # <<>> /\ t[1] \in Messages /\ Tail(t) \in Seq(Messages)
         /\ Contents(x) \o rest = (Header(Len(t[1])) \o t[1]) \o EncodeAll(Tail(t))
         /\ NextLength(x) = Len(t[1])
<1> DEFINE c == Contents(x)
           m == t[1]
           h == Header(Len(m))
           u == Tail(t)
<1>1. HeaderLen <= ReadableBytes(x) /\ ReadableBytes(x) \in Nat
  BY SoundLength, HeaderLenNat DEF HeaderThere
<1>2. c \in Seq(Bytes) /\ Len(c) = ReadableBytes(x)
  BY ContentsProperties, SoundIs
<1>3. t # <<>>
  <2>1. Len(c \o rest) # 0
    BY <1>1, <1>2, HeaderLenNat
  <2>2. Len(EncodeAll(<<>>)) = 0
    BY EncodeEmpty
  <2> QED BY <2>1, <2>2
<1>4. m \in Messages /\ u \in Seq(Messages) /\ EncodeAll(t) = Encode(m) \o EncodeAll(u)
  BY <1>3, EncodeFirst
<1> HIDE DEF m, u
<1>5. m \in Seq(Bytes) /\ Len(m) \in Nat /\ Len(m) < Power(HeaderLen)
  BY <1>4 DEF Messages
<1>6. /\ h \in Seq(Bytes) /\ Len(h) = HeaderLen /\ Length(h) = Len(m)
      /\ Encode(m) = h \o m
  BY <1>4, <1>5, HeaderTyped, HeaderKeepsLength, EncodeIs
<1> HIDE DEF h
<1>7. EncodeAll(u) \in Seq(Bytes) /\ c \o rest = (h \o m) \o EncodeAll(u)
  BY <1>4, <1>6, EncodeTyped
<1> HIDE DEF c
<1>8. SubSeq(c, 1, HeaderLen) = h
  <2>1. Len(h) <= Len(c)
    BY <1>1, <1>2, <1>6
  <2>2. SubSeq(c, 1, Len(h)) = h
    BY <1>2, <1>5, <1>6, <1>7, <2>1, TwoCuts
  <2> QED BY <1>6, <2>2
<1>9. NextLength(x) = Len(m)
  BY <1>6, <1>8, TakesMessage DEF c
<1> QED BY <1>3, <1>4, <1>7, <1>9 DEF c, h, m, u

\* A round that goes on takes the first message and leaves the others.
LEMMA RoundTakes ==
  ASSUME NEW x \in Sound, NEW rest \in Seq(Bytes), NEW t \in Seq(Messages),
         Contents(x) \o rest = EncodeAll(t), ~Stops(x)
  PROVE  /\ t # <<>> /\ t[1] \in Messages /\ Tail(t) \in Seq(Messages)
         /\ NextMessage(x) = t[1] /\ Len(t[1]) <= MaxLength
         /\ BehindMessage(x) \in Sound
         /\ ReadableBytes(BehindMessage(x)) < ReadableBytes(x)
         /\ Contents(BehindMessage(x)) \o rest = EncodeAll(Tail(t))
<1> DEFINE c == Contents(x)
           m == t[1]
           h == Header(Len(m))
           u == Tail(t)
<1>1. HeaderThere(x) /\ MessageThere(x) /\ ~Invalid(NextLength(x))
  BY DEF Stops
<1>2. /\ t # <<>> /\ m \in Messages /\ u \in Seq(Messages)
      /\ c \o rest = (h \o m) \o EncodeAll(u)
      /\ NextLength(x) = Len(m)
  BY <1>1, NextIs
<1> HIDE DEF m, u
<1>3. m \in Seq(Bytes) /\ Len(m) \in Nat /\ Len(m) < Power(HeaderLen)
  BY <1>2 DEF Messages
<1>4. h \in Seq(Bytes) /\ Len(h) = HeaderLen
  BY <1>3, HeaderTyped
<1> HIDE DEF h
<1>5. c \in Seq(Bytes) /\ Len(c) = ReadableBytes(x) /\ ReadableBytes(x) \in Nat
  BY ContentsProperties, SoundIs, SoundLength
<1>6. EncodeAll(u) \in Seq(Bytes)
  BY <1>2, EncodeTyped
<1> HIDE DEF c
<1>7. Len(h) + Len(m) <= Len(c)
  <2>1. Len(m) + HeaderLen <= Len(c)
    BY <1>1, <1>2, <1>3, <1>5, HeaderLenNat DEF MessageThere
  <2> QED BY <1>3, <1>4, <2>1, HeaderLenNat
<1>8. /\ SubSeq(c, Len(h) + 1, Len(h) + Len(m)) = m
      /\ SubSeq(c, Len(h) + Len(m) + 1, Len(c)) \o rest = EncodeAll(u)
  BY <1>2, <1>3, <1>4, <1>5, <1>6, <1>7, TwoCuts
<1>9. /\ SubSeq(c, HeaderLen + 1, HeaderLen + Len(m)) = m
      /\ SubSeq(c, HeaderLen + Len(m) + 1, Len(c)) \o rest = EncodeAll(u)
  BY <1>4, <1>8
<1>10. Len(m) <= MaxLength
  BY <1>1, <1>2, <1>3, HeaderAssumption DEF Invalid
<1>11. /\ BehindMessage(x) \in Sound
       /\ ReadableBytes(BehindMessage(x)) < ReadableBytes(x)
       /\ NextMessage(x) = SubSeq(c, HeaderLen + 1, HeaderLen + Len(m))
       /\ Contents(BehindMessage(x)) = SubSeq(c, HeaderLen + Len(m) + 1, Len(c))
  BY <1>1, <1>2, TakesMessage DEF c
<1> QED BY <1>2, <1>9, <1>10, <1>11 DEF m, u

Results == [buffer : Sound, messages : Seq(Messages), shutdown : BOOLEAN]

\* r took the first messages of s and left the others to what follows.
Takes(r, s, rest) ==
    /\ r \in Results
    /\ \E k \in 0..Len(s) :
         /\ r.messages = SubSeq(s, 1, k)
         /\ Contents(r.buffer) \o rest = EncodeAll(SubSeq(s, k + 1, Len(s)))

\* onMessage() takes the first messages of a stream, whole and in their order,
\* and leaves the bytes of the others in the buffer, wherever the stream is cut
\* (LengthHeaderCodec::onMessage).
THEOREM OnMessageTakesMessages ==
  ASSUME NEW b, BufferOK(b), NEW rest \in Seq(Bytes), NEW s \in Seq(Messages),
         Contents(b) \o rest = EncodeAll(s)
  PROVE  Takes(OnMessage(b), s, rest)
<1> DEFINE S == {n \in Nat : \A x \in Sound : \A t \in Seq(Messages) :
                   ReadableBytes(x) = n /\ Contents(x) \o rest = EncodeAll(t)
                     => Takes(Split[x], t, rest)}
<1>1. ASSUME NEW n \in Nat, \A j \in 0..(n - 1) : j \in S PROVE n \in S
  <2> SUFFICES ASSUME NEW x \in Sound, NEW t \in Seq(Messages), ReadableBytes(x) = n,
                      Contents(x) \o rest = EncodeAll(t)
               PROVE  Takes(Split[x], t, rest)
    OBVIOUS
  <2>0. Split[x] = Round(Split, x)
    BY SplitRound
  <2>1. CASE Stops(x)
    <3>1. Split[x] = Result(x)
      BY <2>0, <2>1 DEF Round
    <3>2. /\ Result(x) \in Results /\ Result(x).messages = <<>> /\ Result(x).buffer = x
      BY DEF Result, Rejected, Waiting, Results
    <3>3. SubSeq(t, 1, 0) = <<>> /\ SubSeq(t, 0 + 1, Len(t)) = t /\ 0 \in 0..Len(t)
      BY SubSeqEmpty, SubSeqFull
    <3> QED BY <3>1, <3>2, <3>3 DEF Takes
  <2>2. CASE ~Stops(x)
    <3> DEFINE y == BehindMessage(x)
               m == t[1]
               u == Tail(t)
               r == Split[y]
    <3>1. Split[x] = Joined(NextMessage(x), r)
      BY <2>0, <2>2 DEF Round
    <3>4. /\ t # <<>> /\ m \in Messages /\ u \in Seq(Messages) /\ NextMessage(x) = m
          /\ y \in Sound /\ ReadableBytes(y) < n /\ Contents(y) \o rest = EncodeAll(u)
      BY <2>2, RoundTakes
    <3> HIDE DEF m, u
    <3>5. ReadableBytes(y) \in Nat
      BY <3>4, SoundLength
    <3> HIDE DEF y
    <3>13. ReadableBytes(y) \in S
      <4>1. ReadableBytes(y) \in 0..(n - 1)
        BY <3>4, <3>5
      <4> QED BY <1>1, <4>1
    <3>14. Takes(r, u, rest)
      BY <3>4, <3>13
    <3> HIDE DEF r
    <3>15. PICK k \in 0..Len(u) :
             /\ r.messages = SubSeq(u, 1, k)
             /\ Contents(r.buffer) \o rest = EncodeAll(SubSeq(u, k + 1, Len(u)))
      BY <3>14 DEF Takes
    <3> DEFINE z == Joined(m, r)
    <3>16. /\ z \in Results /\ z.buffer = r.buffer /\ z.messages = <<m>> \o r.messages
      <4>1. r \in Results
        BY <3>14 DEF Takes
      <4>2. r.messages \in Seq(Messages) /\ <<m>> \o r.messages \in Seq(Messages)
        BY <3>4, <4>1 DEF Results
      <4> QED BY <4>1, <4>2 DEF Joined, Results
    <3>17. /\ k + 1 \in 0..Len(t)
           /\ <<m>> \o SubSeq(u, 1, k) = SubSeq(t, 1, k + 1)
           /\ SubSeq(u, k + 1, Len(u)) = SubSeq(t, k + 2, Len(t))
      BY <3>4 DEF m, u
    <3>18. z.messages = SubSeq(t, 1, k + 1)
      BY <3>15, <3>16, <3>17
    <3>19. Contents(z.buffer) \o rest = EncodeAll(SubSeq(t, (k + 1) + 1, Len(t)))
      <4>1. (k + 1) + 1 = k + 2
        OBVIOUS
      <4> QED BY <3>15, <3>16, <3>17, <4>1
    <3> HIDE DEF z
    <3>20. Takes(z, t, rest)
      BY <3>16, <3>17, <3>18, <3>19 DEF Takes
    <3> QED BY <3>1, <3>4, <3>20 DEF z, r
  <2> QED BY <2>1, <2>2
<1> HIDE DEF S
<1>2. \A n \in Nat : n \in S
  BY <1>1, CourseOfValues
<1>3. b \in Sound /\ ReadableBytes(b) \in Nat
  BY SoundIs, SoundLength
<1> QED BY <1>2, <1>3 DEF S, OnMessage

\* r took all the messages of s that are there: it stopped at a message that is
\* too long, or that is not there as a whole.
TakesAll(r, s) ==
    LET k == Len(r.messages)
    IN  /\ \A i \in 1..k : Len(s[i]) <= MaxLength
        /\ r.shutdown => k < Len(s) /\ Len(s[k + 1]) > MaxLength
        /\ ~r.shutdown /\ k < Len(s) => ReadableBytes(r.buffer) < HeaderLen + Len(s[k + 1])

\* A round that stops has a reason.
LEMMA StopsForReason ==
  ASSUME NEW x \in Sound, NEW rest \in Seq(Bytes), NEW t \in Seq(Messages),
         Contents(x) \o rest = EncodeAll(t), Stops(x)
  PROVE  TakesAll(Result(x), t)
<1>1. Result(x).messages = <<>> /\ Result(x).buffer = x /\ Len(<<>>) = 0
  BY DEF Result, Rejected, Waiting
<1>2. Len(t) \in Nat /\ ReadableBytes(x) \in Nat /\ HeaderLen \in Nat /\ MaxLength \in Nat
  BY SoundLength, HeaderLenNat, HeaderAssumption
<1>3. CASE HeaderThere(x)
  <2>1. t # <<>> /\ NextLength(x) = Len(t[1]) /\ Len(t[1]) \in Nat
    <3>1. t # <<>> /\ NextLength(x) = Len(t[1]) /\ t[1] \in Messages
      BY <1>3, NextIs
    <3> QED BY <3>1 DEF Messages
  <2>2. 0 < Len(t)
    BY <2>1
  <2>3. CASE Invalid(NextLength(x))
    <3>1. Result(x).shutdown
      BY <1>3, <2>3 DEF Result, Rejected
    <3>2. Len(t[1]) > MaxLength
      BY <2>1, <2>3 DEF Invalid
    <3> QED BY <1>1, <2>2, <3>1, <3>2 DEF TakesAll
  <2>4. CASE ~Invalid(NextLength(x))
    <3>1. ~Result(x).shutdown
      BY <1>3, <2>4 DEF Result, Waiting
    <3>2. ReadableBytes(x) < HeaderLen + Len(t[1])
      BY <1>2, <1>3, <2>1, <2>4 DEF Stops, MessageThere
    <3> QED BY <1>1, <3>1, <3>2 DEF TakesAll
  <2> QED BY <2>3, <2>4
<1>4. CASE ~HeaderThere(x)
  <2>1. ~Result(x).shutdown
    BY <1>4 DEF Result, Waiting
  <2>2. ReadableBytes(x) < HeaderLen
    BY <1>2, <1>4 DEF HeaderThere
  <2>3. ASSUME 0 < Len(t) PROVE ReadableBytes(x) < HeaderLen + Len(t[1])
    <3>1. t[1] \in Messages
      BY <1>2, <2>3
    <3>2. Len(t[1]) \in Nat
      BY <3>1 DEF Messages
    <3> QED BY <1>2, <2>2, <3>2
  <2> QED BY <1>1, <2>1, <2>3 DEF TakesAll
<1> QED BY <1>3, <1>4

\* onMessage() never leaves a message that is there as a whole, for which no
\* other read may come: it takes all up to one that is too long, and shuts the
\* connection down for that reason only.
THEOREM OnMessageLeavesNoMessage ==
  ASSUME NEW b, BufferOK(b), NEW rest \in Seq(Bytes), NEW s \in Seq(Messages),
         Contents(b) \o rest = EncodeAll(s)
  PROVE  TakesAll(OnMessage(b), s)
<1> DEFINE S == {n \in Nat : \A x \in Sound : \A t \in Seq(Messages) :
                   ReadableBytes(x) = n /\ Contents(x) \o rest = EncodeAll(t)
                     => TakesAll(Split[x], t)}
<1>1. ASSUME NEW n \in Nat, \A j \in 0..(n - 1) : j \in S PROVE n \in S
  <2> SUFFICES ASSUME NEW x \in Sound, NEW t \in Seq(Messages), ReadableBytes(x) = n,
                      Contents(x) \o rest = EncodeAll(t)
               PROVE  TakesAll(Split[x], t)
    OBVIOUS
  <2>0. Split[x] = Round(Split, x)
    BY SplitRound
  <2>1. CASE Stops(x)
    <3>1. Split[x] = Result(x)
      BY <2>0, <2>1 DEF Round
    <3>2. TakesAll(Result(x), t)
      BY <2>1, StopsForReason
    <3> QED BY <3>1, <3>2
  <2>2. CASE ~Stops(x)
    <3> DEFINE y == BehindMessage(x)
               m == t[1]
               u == Tail(t)
               r == Split[y]
    <3>1. Split[x] = Joined(NextMessage(x), r)
      BY <2>0, <2>2 DEF Round
    <3>2. /\ t # <<>> /\ m \in Messages /\ u \in Seq(Messages) /\ NextMessage(x) = m
          /\ Len(m) <= MaxLength
          /\ y \in Sound /\ ReadableBytes(y) < n /\ Contents(y) \o rest = EncodeAll(u)
      BY <2>2, RoundTakes
    <3>3. Len(t) \in Nat /\ Len(u) = Len(t) - 1 /\ \A i \in 1..Len(u) : u[i] = t[i + 1]
      BY <3>2
    <3>4. m = t[1]
      OBVIOUS
    <3> HIDE DEF m, u
    <3>5. ReadableBytes(y) \in 0..(n - 1)
      BY <3>2, SoundLength
    <3>6. TakesAll(r, u)
      BY <1>1, <3>2, <3>5
    <3>7. r.messages \in Seq(Messages) /\ r \in Results /\ Len(r.messages) \in 0..Len(u)
      <4>1. BufferOK(y) /\ r = OnMessage(y)
        BY <3>2, SoundIs DEF OnMessage
      <4> HIDE DEF r, y
      <4>2. Takes(r, u, rest)
        BY <3>2, <4>1, OnMessageTakesMessages
      <4>3. PICK k \in 0..Len(u) : r.messages = SubSeq(u, 1, k)
        BY <4>2 DEF Takes
      <4>4. Len(SubSeq(u, 1, k)) = k
        BY <3>2, <4>3
      <4> QED BY <4>2, <4>3, <4>4 DEF Takes, Results
    <3> HIDE DEF r, y
    <3> DEFINE z == Joined(m, r)
               k == Len(r.messages)
    <3>8. /\ z.buffer = r.buffer /\ z.shutdown = r.shutdown
          /\ z.messages = <<m>> \o r.messages
      BY <3>7 DEF Joined, Results
    <3>9. Len(z.messages) = k + 1 /\ k \in Nat /\ k <= Len(u)
      <4>1. Len(<<m>> \o r.messages) = Len(r.messages) + 1
        BY <3>2, <3>7
      <4> QED BY <3>7, <3>8, <4>1
    <3> HIDE DEF z
    <3>10. /\ \A i \in 1..k : Len(u[i]) <= MaxLength
           /\ r.shutdown => k < Len(u) /\ Len(u[k + 1]) > MaxLength
           /\ ~r.shutdown /\ k < Len(u) =>
                ReadableBytes(r.buffer) < HeaderLen + Len(u[k + 1])
      BY <3>6 DEF TakesAll
    <3> HIDE DEF k
    <3>11. ASSUME NEW i \in 1..(k + 1) PROVE Len(t[i]) <= MaxLength
      <4>1. CASE i = 1
        BY <3>2, <3>4, <4>1
      <4>2. CASE i # 1
        <5> DEFINE j == i - 1
        <5>1. j \in 1..k /\ j \in 1..Len(u) /\ j + 1 = i
          BY <3>3, <3>9, <4>2
        <5> HIDE DEF j
        <5>2. u[j] = t[i]
          BY <3>3, <5>1
        <5> QED BY <3>10, <5>1, <5>2
      <4> QED BY <4>1, <4>2
    <3>12. ASSUME k < Len(u) PROVE u[k + 1] = t[(k + 1) + 1]
      <4>1. k + 1 \in 1..Len(u)
        BY <3>3, <3>9, <3>12
      <4> QED BY <3>3, <4>1
    <3>13. k < Len(u) <=> k + 1 < Len(t)
      BY <3>3, <3>9
    <3>14. /\ r.shutdown => k + 1 < Len(t) /\ Len(t[(k + 1) + 1]) > MaxLength
           /\ ~r.shutdown /\ k + 1 < Len(t) =>
                ReadableBytes(r.buffer) < HeaderLen + Len(t[(k + 1) + 1])
      BY <3>10, <3>12, <3>13
    <3>15. TakesAll(z, t)
      BY <3>8, <3>9, <3>11, <3>14 DEF TakesAll
    <3> QED BY <3>1, <3>2, <3>15 DEF z
  <2> QED BY <2>1, <2>2
<1> HIDE DEF S
<1>2. \A n \in Nat : n \in S
  BY <1>1, CourseOfValues
<1>3. b \in Sound /\ ReadableBytes(b) \in Nat
  BY SoundIs, SoundLength
<1> QED BY <1>2, <1>3 DEF S, OnMessage

-----------------------------------------------------------------------------
(* The lines of one connection in the log.                                 *)

Entries == Conns \X Messages

\* What the server has sent for the messages of d.
From(d, m) == [i \in DOMAIN m |-> <<d, m[i]>>]

\* One step of SaidIn.
AddLine(c) == [x \in Seq(Messages) \X Entries |->
                 IF x[2][1] = c THEN Append(x[1], x[2][2]) ELSE x[1]]

LEMMA SaidFold ==
  ASSUME NEW c \in Conns, NEW l \in Seq(Entries)
  PROVE  \E f : /\ f[Len(l)] \in Seq(Messages)
                /\ Folds(f, l, <<>>, AddLine(c))
                /\ SaidIn(l, c) = f[Len(l)]
<1> DEFINE P(g) == g = [i \in 0..Len(l) |->
                          IF i = 0 THEN <<>>
                          ELSE IF l[i][1] = c THEN Append(g[i - 1], l[i][2])
                               ELSE g[i - 1]]
           step == AddLine(c)
<1>0. Len(l) \in Nat
  OBVIOUS
<1>1. <<>> \in Seq(Messages) /\ step \in [Seq(Messages) \X Entries -> Seq(Messages)]
  <2>1. ASSUME NEW x \in Seq(Messages) \X Entries
        PROVE  (IF x[2][1] = c THEN Append(x[1], x[2][2]) ELSE x[1]) \in Seq(Messages)
    <3>1. x[1] \in Seq(Messages) /\ x[2][2] \in Messages
      BY DEF Entries
    <3> QED BY <3>1
  <2> QED BY <2>1 DEF AddLine
<1>2. PICK f \in [0..Len(l) -> Seq(Messages)] : Folds(f, l, <<>>, step)
  <2> HIDE DEF step
  <2> QED BY <1>1, FoldExists
<1>3. /\ f[0] = <<>>
      /\ \A i \in 1..Len(l) :
           /\ i - 1 \in 0..Len(l)
           /\ f[i] = IF l[i][1] = c THEN Append(f[i - 1], l[i][2]) ELSE f[i - 1]
  <2>1. f[0] = <<>>
    BY <1>0, <1>2 DEF Folds
  <2>2. ASSUME NEW i \in 1..Len(l)
        PROVE  /\ i - 1 \in 0..Len(l)
               /\ f[i] = IF l[i][1] = c THEN Append(f[i - 1], l[i][2]) ELSE f[i - 1]
    <3>1. i \in 0..Len(l) /\ i # 0 /\ i - 1 \in 0..Len(l) /\ l[i] \in Entries
      BY <1>0
    <3> HIDE DEF step
    <3>2. f[i] = step[<<f[i - 1], l[i]>>] /\ f[i - 1] \in Seq(Messages)
      BY <1>0, <1>2, <3>1 DEF Folds
    <3> QED BY <3>1, <3>2 DEF step, AddLine
  <2> QED BY <2>1, <2>2
<1>4. P(f)
  <2> HIDE DEF step
  <2>1. ASSUME NEW i \in 0..Len(l)
        PROVE  f[i] = IF i = 0 THEN <<>>
                      ELSE IF l[i][1] = c THEN Append(f[i - 1], l[i][2]) ELSE f[i - 1]
    <3>1. i = 0 \/ i \in 1..Len(l)
      BY <1>0
    <3> QED BY <1>3, <3>1
  <2>2. f = [i \in 0..Len(l) |-> f[i]]
    BY <1>2
  <2> QED BY <2>1, <2>2
<1>5. SaidIn(l, c) = (CHOOSE g : P(g))[Len(l)]
  BY Zenon DEF SaidIn
<1>6. ASSUME NEW g, P(g) PROVE g[Len(l)] = f[Len(l)]
  <2> DEFINE S == {i \in Nat : i <= Len(l) => g[i] = f[i]}
  <2>1. 0 \in S
    BY <1>0, <1>3, <1>6
  <2>2. ASSUME NEW i \in Nat, i \in S PROVE i + 1 \in S
    <3> SUFFICES ASSUME i + 1 <= Len(l) PROVE g[i + 1] = f[i + 1]
      OBVIOUS
    <3>1. i + 1 \in 0..Len(l) /\ i + 1 \in 1..Len(l) /\ i + 1 # 0 /\ (i + 1) - 1 = i
      BY <1>0
    <3>2. g[i] = f[i]
      BY <1>0, <2>2
    <3>3. g[i + 1] = IF l[i + 1][1] = c THEN Append(g[i], l[i + 1][2]) ELSE g[i]
      BY <1>6, <3>1
    <3>4. f[i + 1] = IF l[i + 1][1] = c THEN Append(f[i], l[i + 1][2]) ELSE f[i]
      BY <1>3, <3>1
    <3> QED BY <3>2, <3>3, <3>4
  <2> HIDE DEF S
  <2>3. Len(l) \in S
    BY <1>0, <2>1, <2>2, Induction
  <2> QED BY <1>0, <2>3 DEF S
<1> HIDE DEF P
<1>7. P(CHOOSE g : P(g))
  BY <1>4, Zenon
<1>8. f[Len(l)] \in Seq(Messages)
  BY <1>0
<1> QED BY <1>2, <1>5, <1>6, <1>7, <1>8 DEF step

LEMMA SaidStep ==
  ASSUME NEW c \in Conns
  PROVE  /\ SaidIn(<<>>, c) = <<>>
         /\ \A l \in Seq(Entries) : SaidIn(l, c) \in Seq(Messages)
         /\ \A l \in Seq(Entries), d \in Conns, m \in Messages :
              SaidIn(Append(l, <<d, m>>), c)
                = IF d = c THEN Append(SaidIn(l, c), m) ELSE SaidIn(l, c)
<1>1. SaidIn(<<>>, c) = <<>>
  <2>1. <<>> \in Seq(Entries) /\ Len(<<>>) = 0
    OBVIOUS
  <2>2. PICK f : Folds(f, <<>>, <<>>, AddLine(c)) /\ SaidIn(<<>>, c) = f[Len(<<>>)]
    BY <2>1, SaidFold
  <2>3. f[0] = <<>>
    BY <2>1, <2>2 DEF Folds
  <2> QED BY <2>1, <2>2, <2>3
<1>2. \A l \in Seq(Entries) : SaidIn(l, c) \in Seq(Messages)
  BY SaidFold
<1>3. ASSUME NEW l \in Seq(Entries), NEW d \in Conns, NEW m \in Messages
      PROVE  SaidIn(Append(l, <<d, m>>), c)
                = IF d = c THEN Append(SaidIn(l, c), m) ELSE SaidIn(l, c)
  <2> DEFINE e == <<d, m>>
             step == AddLine(c)
  <2>0. e \in Entries
    BY DEF Entries
  <2>1. e[1] = d /\ e[2] = m
    OBVIOUS
  <2> HIDE DEF e
  <2>2. PICK f : /\ f[Len(l)] \in Seq(Messages)
                 /\ Folds(f, l, <<>>, step)
                 /\ SaidIn(l, c) = f[Len(l)]
    BY SaidFold
  <2>3. Append(l, e) \in Seq(Entries)
    BY <2>0
  <2>4. PICK g : /\ Folds(g, Append(l, e), <<>>, step)
                 /\ SaidIn(Append(l, e), c) = g[Len(Append(l, e))]
    BY <2>3, SaidFold
  <2> HIDE DEF step
  <2>5. g[Len(Append(l, e))] = step[<<f[Len(l)], e>>]
    <3>1. Folds(f, l, <<>>, step) /\ Folds(g, Append(l, e), <<>>, step)
      BY <2>2, <2>4
    <3> QED BY <2>0, <3>1, FoldAppend
  <2>6. step[<<f[Len(l)], e>>] = IF e[1] = c THEN Append(f[Len(l)], e[2]) ELSE f[Len(l)]
    BY <2>0, <2>2 DEF step, AddLine
  <2> QED BY <2>1, <2>2, <2>4, <2>5, <2>6 DEF e
<1> QED BY <1>1, <1>2, <1>3

LEMMA FromTyped ==
  ASSUME NEW d \in Conns, NEW m \in Seq(Messages)
  PROVE  /\ From(d, m) \in Seq(Entries) /\ Len(From(d, m)) = Len(m)
         /\ \A i \in 1..Len(m) : From(d, m)[i] = <<d, m[i]>>
BY DEF From, Entries

\* The messages of d come behind those of c if d is c.
LEMMA SaidConcat ==
  ASSUME NEW c \in Conns, NEW d \in Conns, NEW l \in Seq(Entries), NEW m \in Seq(Messages)
  PROVE  SaidIn(l \o From(d, m), c) = IF d = c THEN SaidIn(l, c) \o m ELSE SaidIn(l, c)
<1> DEFINE S == {n \in Nat : \A u \in Seq(Messages) : Len(u) = n =>
                   SaidIn(l \o From(d, u), c)
                     = IF d = c THEN SaidIn(l, c) \o u ELSE SaidIn(l, c)}
<1>1. 0 \in S
  <2> SUFFICES ASSUME NEW u \in Seq(Messages), Len(u) = 0
               PROVE  SaidIn(l \o From(d, u), c)
                        = IF d = c THEN SaidIn(l, c) \o u ELSE SaidIn(l, c)
    OBVIOUS
  <2>1. u = <<>> /\ From(d, u) = <<>>
    BY FromTyped DEF From
  <2>2. SaidIn(l, c) \in Seq(Messages)
    BY SaidStep
  <2> QED BY <2>1, <2>2, ConcatEmptySeq
<1>2. ASSUME NEW n \in Nat, n \in S PROVE n + 1 \in S
  <2> SUFFICES ASSUME NEW u \in Seq(Messages), Len(u) = n + 1
               PROVE  SaidIn(l \o From(d, u), c)
                        = IF d = c THEN SaidIn(l, c) \o u ELSE SaidIn(l, c)
    OBVIOUS
  <2>1. PICK v \in Seq(Messages), x \in Messages : u = Append(v, x)
    <3>1. u # <<>>
      OBVIOUS
    <3> QED BY <3>1, SequenceEmptyOrAppend
  <2>2. Len(v) = n
    BY <2>1
  <2>3. SaidIn(l \o From(d, v), c) = IF d = c THEN SaidIn(l, c) \o v ELSE SaidIn(l, c)
    BY <1>2, <2>2
  <2> DEFINE k == l \o From(d, v)
  <2>4. k \in Seq(Entries)
    BY FromTyped
  <2>5. From(d, u) = Append(From(d, v), <<d, x>>)
    BY <2>1, <2>2 DEF From
  <2>6. l \o From(d, u) = Append(k, <<d, x>>)
    <3>1. From(d, v) \in Seq(Entries) /\ <<d, x>> \in Entries
      BY FromTyped DEF Entries
    <3> DEFINE a == From(d, v)
               e == <<d, x>>
    <3> HIDE DEF a, e
    <3>2. a \in Seq(Entries) /\ e \in Entries
      BY <3>1 DEF a, e
    <3>3. l \o Append(a, e) = Append(l \o a, e)
      BY <3>2
    <3> QED BY <2>5, <3>3 DEF a, e
  <2> HIDE DEF k
  <2>7. SaidIn(l \o From(d, u), c) = IF d = c THEN Append(SaidIn(k, c), x) ELSE SaidIn(k, c)
    <3>1. SaidIn(Append(k, <<d, x>>), c) = IF d = c THEN Append(SaidIn(k, c), x) ELSE SaidIn(k, c)
      BY <2>4, SaidStep
    <3> QED BY <2>6, <3>1
  <2>8. SaidIn(l, c) \in Seq(Messages) /\ SaidIn(k, c) \in Seq(Messages)
    BY <2>4, SaidStep
  <2>9. CASE d = c
    <3> DEFINE a == SaidIn(l, c)
    <3> HIDE DEF a
    <3>1. a \in Seq(Messages)
      BY <2>8 DEF a
    <3>2. Append(a \o v, x) = a \o Append(v, x)
      BY <3>1
    <3>3. SaidIn(k, c) = a \o v
      BY <2>3, <2>9 DEF a, k
    <3> QED BY <2>1, <2>7, <2>9, <3>2, <3>3 DEF a
  <2>10. CASE d # c
    BY <2>3, <2>7, <2>10 DEF k
  <2> QED BY <2>9, <2>10
<1> HIDE DEF S
<1>3. Len(m) \in Nat /\ Len(m) \in S
  BY <1>1, <1>2, Induction
<1> QED BY <1>3 DEF S

-----------------------------------------------------------------------------
(* What was sent, what of it was taken, and what is still to be taken.     *)

\* What is behind the first n.
Later(sent, n) == SubSeq(sent, n + 1, Len(sent))

\* What was taken of what was sent is the first part of it, and rest, the bytes
\* in the buffer and under way, are those of what is still to be taken.
Follows(taken, sent, rest) ==
    /\ IsPrefix(taken, sent)
    /\ rest = EncodeAll(Later(sent, Len(taken)))

LEMMA LaterIs ==
  ASSUME NEW E, NEW s \in Seq(E), NEW n \in Nat, n <= Len(s)
  PROVE  /\ Later(s, n) \in Seq(E) /\ Len(Later(s, n)) = Len(s) - n
         /\ \A i \in 1..(Len(s) - n) : Later(s, n)[i] = s[n + i]
<1>1. Len(s) \in Nat
  OBVIOUS
<1>2. Later(s, n) \in Seq(E) /\ Len(Later(s, n)) = Len(s) - n
  BY <1>1 DEF Later
<1>3. ASSUME NEW i \in 1..(Len(s) - n) PROVE Later(s, n)[i] = s[n + i]
  <2>1. (n + 1) + i - 1 = n + i
    OBVIOUS
  <2> QED BY <1>1, <2>1 DEF Later
<1> QED BY <1>2, <1>3

\* The first of what is left.
LEMMA LaterPart ==
  ASSUME NEW E, NEW s \in Seq(E), NEW n \in Nat, NEW k \in Nat, n + k <= Len(s)
  PROVE  /\ SubSeq(Later(s, n), 1, k) = SubSeq(s, n + 1, n + k)
         /\ Len(SubSeq(Later(s, n), 1, k)) = k
BY DEF Later

\* The rest of the rest.
LEMMA LaterLater ==
  ASSUME NEW E, NEW s \in Seq(E), NEW n \in Nat, NEW k \in Nat, n + k <= Len(s)
  PROVE  Later(Later(s, n), k) = Later(s, n + k)
<1> DEFINE q == Later(s, n)
           u == Later(q, k)
           v == Later(s, n + k)
<1>0. Len(s) \in Nat /\ n <= Len(s) /\ n + k \in Nat
  OBVIOUS
<1>1. /\ q \in Seq(E) /\ Len(q) = Len(s) - n
      /\ \A i \in 1..(Len(s) - n) : q[i] = s[n + i]
  BY <1>0, LaterIs
<1> HIDE DEF q
<1>2. /\ u \in Seq(E) /\ Len(u) = Len(q) - k
      /\ \A i \in 1..(Len(q) - k) : u[i] = q[k + i]
  <2>1. k <= Len(q)
    BY <1>0, <1>1
  <2> QED BY <1>1, <2>1, LaterIs
<1>3. /\ v \in Seq(E) /\ Len(v) = Len(s) - (n + k)
      /\ \A i \in 1..(Len(s) - (n + k)) : v[i] = s[(n + k) + i]
  BY <1>0, LaterIs
<1> HIDE DEF u, v
<1>4. Len(u) = Len(v)
  BY <1>0, <1>1, <1>2, <1>3
<1>5. ASSUME NEW i \in 1..Len(u) PROVE u[i] = v[i]
  <2>1. /\ i \in 1..(Len(q) - k) /\ k + i \in 1..(Len(s) - n)
        /\ i \in 1..(Len(s) - (n + k)) /\ n + (k + i) = (n + k) + i
    BY <1>0, <1>1, <1>2
  <2>2. u[i] = s[n + (k + i)]
    BY <1>1, <1>2, <2>1
  <2>3. v[i] = s[(n + k) + i]
    BY <1>3, <2>1
  <2> QED BY <2>1, <2>2, <2>3
<1>6. u = v
  BY <1>2, <1>3, <1>4, <1>5, SeqEqual
<1> QED BY <1>6 DEF q, u, v

LEMMA PrefixIs ==
  ASSUME NEW E, NEW s \in Seq(E), NEW t \in Seq(E)
  PROVE  IsPrefix(t, s) <=> Len(t) <= Len(s) /\ t = SubSeq(s, 1, Len(t))
<1>1. SubSeq(t, 1, Len(t)) = t
  OBVIOUS
<1> QED BY <1>1 DEF IsPrefix

\* A prefix of what was sent is one when more has been.
LEMMA PrefixGrows ==
  ASSUME NEW E, NEW s \in Seq(E), NEW t \in Seq(E), NEW m \in Seq(E), IsPrefix(t, s)
  PROVE  /\ IsPrefix(t, s \o m)
         /\ Later(s, Len(t)) \in Seq(E)
         /\ Later(s \o m, Len(t)) = Later(s, Len(t)) \o m
<1> DEFINE n == Len(t)
           u == s \o m
           v == Later(s, n)
           w == Later(u, n)
<1>1. n \in Nat /\ Len(s) \in Nat /\ Len(m) \in Nat /\ n <= Len(s) /\ t = SubSeq(s, 1, n)
  BY PrefixIs
<1> HIDE DEF n
<1>2. /\ u \in Seq(E) /\ Len(u) = Len(s) + Len(m)
      /\ \A i \in 1..Len(u) : u[i] = IF i <= Len(s) THEN s[i] ELSE m[i - Len(s)]
  BY ConcatProperties
<1> HIDE DEF u
<1>3. SubSeq(u, 1, n) = SubSeq(s, 1, n)
  <2> DEFINE a == SubSeq(u, 1, n)
             b == SubSeq(s, 1, n)
  <2>1. a \in Seq(E) /\ Len(a) = n /\ \A i \in 1..n : a[i] = u[i]
    BY <1>1, <1>2
  <2>2. b \in Seq(E) /\ Len(b) = n /\ \A i \in 1..n : b[i] = s[i]
    BY <1>1
  <2> HIDE DEF a, b
  <2>3. ASSUME NEW i \in 1..n PROVE a[i] = b[i]
    <3>1. i \in 1..Len(u) /\ i <= Len(s)
      BY <1>1, <1>2
    <3> QED BY <1>2, <2>1, <2>2, <3>1
  <2>4. a = b
    BY <2>1, <2>2, <2>3, SeqEqual
  <2> QED BY <2>4 DEF a, b
<1>4. IsPrefix(t, u)
  <2>1. Len(t) <= Len(u) /\ t = SubSeq(u, 1, Len(t))
    BY <1>1, <1>2, <1>3 DEF n
  <2> QED BY <1>2, <2>1, PrefixIs
<1>5. v \in Seq(E) /\ Len(v) = Len(s) - n /\ \A i \in 1..Len(v) : v[i] = s[n + i]
  BY <1>1, LaterIs
<1>6. w \in Seq(E) /\ Len(w) = Len(u) - n /\ \A i \in 1..Len(w) : w[i] = u[n + i]
  <2>1. u \in Seq(E) /\ n \in Nat /\ n <= Len(u)
    BY <1>1, <1>2
  <2>2. /\ w \in Seq(E) /\ Len(w) = Len(u) - n
        /\ \A i \in 1..(Len(u) - n) : w[i] = u[n + i]
    BY <2>1, LaterIs
  <2> QED BY <2>2
<1> HIDE DEF v, w
<1>7. w = v \o m
  <2> DEFINE x == v \o m
  <2>1. /\ x \in Seq(E) /\ Len(x) = Len(v) + Len(m)
        /\ \A i \in 1..Len(x) : x[i] = IF i <= Len(v) THEN v[i] ELSE m[i - Len(v)]
    <3>1. v \in Seq(E)
      BY <1>5
    <3> QED BY <3>1, ConcatProperties
  <2> HIDE DEF x
  <2>2. Len(w) = Len(x)
    BY <1>1, <1>2, <1>5, <1>6, <2>1
  <2>3. ASSUME NEW i \in 1..Len(w) PROVE w[i] = x[i]
    <3>1. n + i \in 1..Len(u) /\ i \in 1..Len(x) /\ w[i] = u[n + i]
      BY <1>1, <1>2, <1>6, <2>2
    <3>2. CASE i <= Len(v)
      <4>1. n + i <= Len(s) /\ i \in 1..Len(v)
        BY <1>1, <1>5, <3>2
      <4> QED BY <1>2, <1>5, <2>1, <3>1, <3>2, <4>1
    <3>3. CASE ~(i <= Len(v))
      <4>1. ~(n + i <= Len(s)) /\ (n + i) - Len(s) = i - Len(v)
        BY <1>1, <1>5, <3>3
      <4> QED BY <1>2, <2>1, <3>1, <3>3, <4>1
    <3> QED BY <3>2, <3>3
  <2>4. w = x
    BY <1>6, <2>1, <2>2, <2>3, SeqEqual
  <2> QED BY <2>4 DEF x
<1> QED BY <1>4, <1>5, <1>7 DEF n, u, v, w

\* More is sent: it comes behind what is still to be taken.
LEMMA FollowsSends ==
  ASSUME NEW t \in Seq(Messages), NEW s \in Seq(Messages), NEW m \in Seq(Messages),
         NEW rest \in Seq(Bytes), Follows(t, s, rest)
  PROVE  Follows(t, s \o m, rest \o EncodeAll(m))
<1>1. /\ IsPrefix(t, s \o m)
      /\ Later(s, Len(t)) \in Seq(Messages)
      /\ Later(s \o m, Len(t)) = Later(s, Len(t)) \o m
  BY PrefixGrows DEF Follows
<1>2. EncodeAll(Later(s, Len(t)) \o m) = EncodeAll(Later(s, Len(t))) \o EncodeAll(m)
  BY <1>1, EncodeConcat
<1> QED BY <1>1, <1>2 DEF Follows

\* Bytes of it are read: what onMessage() takes comes behind what was taken.
LEMMA FollowsReads ==
  ASSUME NEW t \in Seq(Messages), NEW s \in Seq(Messages), NEW b \in Sound,
         NEW w \in Seq(Bytes), NEW n \in 1..Len(w), Follows(t, s, Contents(b) \o w),
         NEW r, r = OnMessage(ReadFd(b, SubSeq(w, 1, n)))
  PROVE  /\ r.buffer \in Sound /\ r.messages \in Seq(Messages) /\ r.shutdown \in BOOLEAN
         /\ SubSeq(w, n + 1, Len(w)) \in Seq(Bytes)
         /\ Follows(t \o r.messages, s, Contents(r.buffer) \o SubSeq(w, n + 1, Len(w)))
<1> DEFINE d == SubSeq(w, 1, n)
           e == SubSeq(w, n + 1, Len(w))
           x == ReadFd(b, d)
           q == Later(s, Len(t))
<1>1. d \in Seq(Bytes) /\ e \in Seq(Bytes) /\ d \o e = w
  <2>1. n \in Nat /\ n <= Len(w)
    OBVIOUS
  <2>2. d \in Seq(Bytes) /\ e \in Seq(Bytes)
    OBVIOUS
  <2> QED BY <2>1, <2>2, Cut
<1> HIDE DEF d, e
<1>2. BufferOK(x) /\ Contents(x) = Contents(b) \o d
  BY <1>1, SoundIs, ReadFdProperties
<1>3. Contents(b) \in Seq(Bytes)
  BY SoundIs, ContentsProperties
<1>4. Contents(x) \o e = Contents(b) \o w
  <2> DEFINE c == Contents(b)
  <2> HIDE DEF c
  <2>1. c \in Seq(Bytes)
    BY <1>3 DEF c
  <2>2. (c \o d) \o e = c \o (d \o e)
    <3>1. d \in Seq(Bytes) /\ e \in Seq(Bytes)
      BY <1>1
    <3> QED BY <2>1, <3>1, BytesAssociative
  <2> QED BY <1>1, <1>2, <2>2 DEF c
<1>5. q \in Seq(Messages) /\ Len(t) <= Len(s) /\ t = SubSeq(s, 1, Len(t))
  <2>1. IsPrefix(t, s)
    BY DEF Follows
  <2> QED BY <2>1, PrefixIs DEF Later
<1>6. Contents(b) \o w = EncodeAll(q)
  BY DEF Follows
<1> HIDE DEF x
<1>7. Takes(r, q, e)
  BY <1>1, <1>2, <1>4, <1>5, <1>6, OnMessageTakesMessages DEF x, d
<1>8. r.buffer \in Sound /\ r.messages \in Seq(Messages) /\ r.shutdown \in BOOLEAN
  BY <1>7 DEF Takes, Results
<1>9. PICK k \in 0..Len(q) :
        /\ r.messages = SubSeq(q, 1, k)
        /\ Contents(r.buffer) \o e = EncodeAll(SubSeq(q, k + 1, Len(q)))
  BY <1>7 DEF Takes
<1> DEFINE z == t \o r.messages
           p == Len(t)
<1>10. p \in Nat /\ Len(s) \in Nat /\ p <= Len(s) /\ t = SubSeq(s, 1, p)
  BY <1>5
<1> HIDE DEF p
<1>11. q = Later(s, p) /\ Len(q) = Len(s) - p
  BY <1>10, LaterIs DEF p
<1>12. k \in Nat /\ k <= Len(s) - p /\ k <= Len(q) /\ p + k \in Nat /\ p + k <= Len(s)
  BY <1>10, <1>11
<1>13. SubSeq(q, 1, k) = SubSeq(s, p + 1, p + k) /\ Len(SubSeq(q, 1, k)) = k
  BY <1>10, <1>11, <1>12, LaterPart
<1>14. SubSeq(q, k + 1, Len(q)) = Later(s, p + k)
  <2>1. Later(q, k) = Later(s, p + k)
    BY <1>10, <1>11, <1>12, LaterLater
  <2> QED BY <2>1 DEF Later
<1>15. SubSeq(s, 1, p) \o SubSeq(s, p + 1, p + k) = SubSeq(s, 1, p + k)
  BY <1>10, <1>12
<1>16. z = SubSeq(s, 1, p + k)
  BY <1>9, <1>10, <1>13, <1>15
<1> HIDE DEF q, z
<1>17. Len(z) = p + k /\ z \in Seq(Messages)
  BY <1>10, <1>12, <1>16
<1>18. IsPrefix(z, s)
  BY <1>12, <1>16, <1>17, PrefixIs
<1>19. Follows(z, s, Contents(r.buffer) \o e)
  BY <1>9, <1>14, <1>17, <1>18 DEF Follows
<1> QED BY <1>1, <1>8, <1>19 DEF z, e

-----------------------------------------------------------------------------
(* Parts of the log.                                                       *)

LEMMA TextsAre ==
  ASSUME NEW l \in Seq(Entries)
  PROVE  /\ Texts(l) \in Seq(Messages) /\ Len(Texts(l)) = Len(l)
         /\ \A i \in 1..Len(l) : Texts(l)[i] = l[i][2]
<1>1. \A i \in 1..Len(l) : l[i][2] \in Messages
  BY DEF Entries
<1> QED BY <1>1 DEF Texts

LEMMA PartIs ==
  ASSUME NEW l \in Seq(Entries), NEW j \in Nat, NEW k \in Nat, k <= Len(l)
  PROVE  /\ SubSeq(l, j + 1, k) \in Seq(Entries)
         /\ Len(SubSeq(l, j + 1, k)) = IF j <= k THEN k - j ELSE 0
         /\ \A i \in 1..(k - j) : SubSeq(l, j + 1, k)[i] = l[j + i]
<1>1. Len(l) \in Nat
  OBVIOUS
<1>2. /\ SubSeq(l, j + 1, k) \in Seq(Entries)
      /\ Len(SubSeq(l, j + 1, k)) = IF j <= k THEN k - j ELSE 0
  BY <1>1
<1>3. ASSUME NEW i \in 1..(k - j) PROVE SubSeq(l, j + 1, k)[i] = l[j + i]
  <2>1. (j + 1) + i - 1 = j + i
    OBVIOUS
  <2> QED BY <1>1, <2>1
<1> QED BY <1>2, <1>3

\* What the server has sent comes behind a part that went to the end, and
\* changes no other.
LEMMA PartsGrow ==
  ASSUME NEW l \in Seq(Entries), NEW d \in Conns, NEW m \in Seq(Messages),
         NEW j \in Nat, j <= Len(l)
  PROVE  /\ l \o From(d, m) \in Seq(Entries)
         /\ Len(l \o From(d, m)) = Len(l) + Len(m)
         /\ \A k \in Nat : k <= Len(l) =>
              SubSeq(l \o From(d, m), j + 1, k) = SubSeq(l, j + 1, k)
         /\ Texts(SubSeq(l \o From(d, m), j + 1, Len(l \o From(d, m))))
              = Texts(SubSeq(l, j + 1, Len(l))) \o m
<1> DEFINE x == From(d, m)
           y == l \o x
<1>1. /\ x \in Seq(Entries) /\ Len(x) = Len(m)
      /\ \A i \in 1..Len(m) : x[i] = <<d, m[i]>>
  BY FromTyped
<1> HIDE DEF x
<1>2. /\ y \in Seq(Entries) /\ Len(y) = Len(l) + Len(x)
      /\ \A i \in 1..(Len(l) + Len(x)) : y[i] = IF i <= Len(l) THEN l[i] ELSE x[i - Len(l)]
  BY <1>1, ConcatProperties
<1> HIDE DEF y
<1>3. Len(l) \in Nat /\ Len(m) \in Nat
  OBVIOUS
<1>4. ASSUME NEW k \in Nat, k <= Len(l) PROVE SubSeq(y, j + 1, k) = SubSeq(l, j + 1, k)
  <2> DEFINE u == SubSeq(y, j + 1, k)
             v == SubSeq(l, j + 1, k)
  <2>1. /\ u \in Seq(Entries) /\ Len(u) = IF j <= k THEN k - j ELSE 0
        /\ \A i \in 1..(k - j) : u[i] = y[j + i]
    <3>1. k <= Len(y)
      BY <1>1, <1>2, <1>3, <1>4
    <3> QED BY <1>2, <3>1, PartIs
  <2>2. /\ v \in Seq(Entries) /\ Len(v) = IF j <= k THEN k - j ELSE 0
        /\ \A i \in 1..(k - j) : v[i] = l[j + i]
    BY <1>4, PartIs
  <2> HIDE DEF u, v
  <2>3. ASSUME NEW i \in 1..Len(u) PROVE u[i] = v[i]
    <3>1. i \in 1..(k - j) /\ j + i \in 1..(Len(l) + Len(x)) /\ j + i <= Len(l)
      BY <1>1, <1>3, <1>4, <2>1
    <3> QED BY <1>2, <2>1, <2>2, <3>1
  <2>4. u = v
    BY <2>1, <2>2, <2>3, SeqEqual
  <2> QED BY <2>4 DEF u, v
<1>5. Texts(SubSeq(y, j + 1, Len(y))) = Texts(SubSeq(l, j + 1, Len(l))) \o m
  <2> DEFINE p == SubSeq(y, j + 1, Len(y))
             q == SubSeq(l, j + 1, Len(l))
             t == Texts(p)
             u == Texts(q)
             v == u \o m
  <2>1. /\ p \in Seq(Entries) /\ Len(p) = Len(l) + Len(m) - j
        /\ \A i \in 1..(Len(l) + Len(m) - j) : p[i] = y[j + i]
    <3>1. Len(y) = Len(l) + Len(m) /\ Len(y) \in Nat /\ Len(y) <= Len(y) /\ j <= Len(y)
      BY <1>1, <1>2, <1>3
    <3>2. /\ p \in Seq(Entries) /\ Len(p) = IF j <= Len(y) THEN Len(y) - j ELSE 0
          /\ \A i \in 1..(Len(y) - j) : p[i] = y[j + i]
      BY <1>2, <3>1, PartIs
    <3> HIDE DEF p
    <3> QED BY <3>1, <3>2
  <2>2. /\ q \in Seq(Entries) /\ Len(q) = Len(l) - j
        /\ \A i \in 1..(Len(l) - j) : q[i] = l[j + i]
    <3>1. Len(l) <= Len(l)
      BY <1>3
    <3>2. /\ q \in Seq(Entries) /\ Len(q) = IF j <= Len(l) THEN Len(l) - j ELSE 0
          /\ \A i \in 1..(Len(l) - j) : q[i] = l[j + i]
      BY <1>3, <3>1, PartIs
    <3> HIDE DEF q
    <3> QED BY <3>2
  <2> HIDE DEF p, q
  <2>3. t \in Seq(Messages) /\ Len(t) = Len(p) /\ \A i \in 1..Len(p) : t[i] = p[i][2]
    BY <2>1, TextsAre
  <2>4. u \in Seq(Messages) /\ Len(u) = Len(q) /\ \A i \in 1..Len(q) : u[i] = q[i][2]
    BY <2>2, TextsAre
  <2> HIDE DEF t, u
  <2>5. /\ v \in Seq(Messages) /\ Len(v) = Len(u) + Len(m)
        /\ \A i \in 1..(Len(u) + Len(m)) : v[i] = IF i <= Len(u) THEN u[i] ELSE m[i - Len(u)]
    <3>1. u \in Seq(Messages)
      BY <2>4
    <3> QED BY <3>1, ConcatProperties
  <2> HIDE DEF v
  <2>6. Len(t) = Len(v) /\ Len(t) = Len(l) + Len(m) - j /\ Len(u) = Len(l) - j
    BY <1>3, <2>1, <2>2, <2>3, <2>4, <2>5
  <2>7. ASSUME NEW i \in 1..Len(t) PROVE t[i] = v[i]
    <3>1. /\ i \in 1..Len(p) /\ i \in 1..(Len(l) + Len(m) - j)
          /\ i \in 1..(Len(u) + Len(m)) /\ j + i \in 1..(Len(l) + Len(x))
      BY <1>1, <1>3, <2>1, <2>3, <2>6
    <3>2. t[i] = y[j + i][2]
      BY <2>1, <2>3, <3>1
    <3>3. CASE j + i <= Len(l)
      <4>1. i <= Len(u) /\ i \in 1..Len(q) /\ i \in 1..(Len(l) - j)
        BY <1>3, <2>2, <2>6, <3>3
      <4>2. v[i] = l[j + i][2]
        BY <2>2, <2>4, <2>5, <3>1, <4>1
      <4> QED BY <1>2, <3>1, <3>2, <3>3, <4>2
    <3>4. CASE ~(j + i <= Len(l))
      <4>1. ~(i <= Len(u)) /\ (j + i) - Len(l) = i - Len(u) /\ i - Len(u) \in 1..Len(m)
        BY <1>3, <2>6, <3>1, <3>4
      <4>2. v[i] = m[i - Len(u)]
        BY <2>5, <3>1, <4>1
      <4>3. y[j + i] = x[i - Len(u)]
        BY <1>2, <3>1, <3>4, <4>1
      <4>4. x[i - Len(u)] = <<d, m[i - Len(u)]>>
        BY <1>1, <4>1
      <4> QED BY <3>2, <4>2, <4>3, <4>4
    <3> QED BY <3>3, <3>4
  <2>8. t = v
    BY <2>3, <2>5, <2>6, <2>7, SeqEqual
  <2> QED BY <2>8 DEF t, u, v, p, q
<1> QED BY <1>1, <1>2, <1>4, <1>5 DEF x, y

\* A part is a prefix of the one that goes to the end.
LEMMA PartIsPrefix ==
  ASSUME NEW l \in Seq(Entries), NEW j \in Nat, NEW k \in Nat, j <= Len(l), k <= Len(l),
         NEW t \in Seq(Messages), IsPrefix(t, Texts(SubSeq(l, j + 1, k)))
  PROVE  IsPrefix(t, Texts(SubSeq(l, j + 1, Len(l))))
<1> DEFINE p == SubSeq(l, j + 1, k)
           q == SubSeq(l, j + 1, Len(l))
           u == Texts(p)
           v == Texts(q)
           n == Len(t)
<1>0. Len(l) \in Nat /\ Len(l) <= Len(l)
  OBVIOUS
<1>1. /\ p \in Seq(Entries) /\ Len(p) = IF j <= k THEN k - j ELSE 0
      /\ \A i \in 1..(k - j) : p[i] = l[j + i]
  BY PartIs
<1>2. /\ q \in Seq(Entries) /\ Len(q) = IF j <= Len(l) THEN Len(l) - j ELSE 0
      /\ \A i \in 1..(Len(l) - j) : q[i] = l[j + i]
  BY <1>0, PartIs
<1> HIDE DEF p, q
<1>3. u \in Seq(Messages) /\ Len(u) = Len(p) /\ \A i \in 1..Len(p) : u[i] = p[i][2]
  BY <1>1, TextsAre
<1>4. v \in Seq(Messages) /\ Len(v) = Len(q) /\ \A i \in 1..Len(q) : v[i] = q[i][2]
  BY <1>2, TextsAre
<1>5. n \in Nat /\ n <= Len(u) /\ t = SubSeq(u, 1, n)
  <2>1. IsPrefix(t, u)
    BY DEF p
  <2> HIDE DEF u
  <2> QED BY <1>3, <2>1, PrefixIs
<1> HIDE DEF u, v
<1>6. n <= Len(v)
  BY <1>0, <1>1, <1>2, <1>3, <1>4, <1>5
<1> DEFINE w == SubSeq(v, 1, n)
<1>7. w \in Seq(Messages) /\ Len(w) = n /\ \A i \in 1..n : w[i] = v[i]
  BY <1>4, <1>5, <1>6
<1>8. \A i \in 1..n : t[i] = u[i]
  BY <1>3, <1>5
<1> HIDE DEF w
<1>9. ASSUME NEW i \in 1..n PROVE w[i] = t[i]
  <2>1. i \in 1..Len(p) /\ i \in 1..Len(q) /\ i \in 1..(k - j) /\ i \in 1..(Len(l) - j)
    <3>1. /\ i \in Nat /\ i >= 1 /\ i <= Len(p) /\ i <= Len(q)
          /\ Len(p) \in Nat /\ Len(q) \in Nat
      BY <1>1, <1>2, <1>3, <1>4, <1>5, <1>6
    <3>2. i <= k - j /\ i <= Len(l) - j
      BY <1>0, <1>1, <1>2, <3>1
    <3> QED BY <1>0, <3>1, <3>2
  <2>2. v[i] = l[j + i][2] /\ u[i] = l[j + i][2]
    BY <1>1, <1>2, <1>3, <1>4, <2>1
  <2> QED BY <1>7, <1>8, <2>2
<1>10. w = t
  BY <1>7, <1>9, SeqEqual
<1>11. IsPrefix(t, v)
  BY <1>4, <1>6, <1>10, PrefixIs DEF w
<1> QED BY <1>11 DEF v, q

-----------------------------------------------------------------------------
(* The chat.                                                               *)

LEMMA LinesAreMessages == Lines \subseteq Messages /\ Seq(Lines) \subseteq Seq(Messages)
<1>1. Lines \subseteq Messages
  BY LinesAssumption DEF Messages
<1>2. ASSUME NEW s \in Seq(Lines) PROVE s \in Seq(Messages)
  BY <1>1
<1> QED BY <1>1, <1>2

\* How much of the log there is for c.
Upto(c) == IF server[c] = "kConnected" THEN Len(log) ELSE left[c]

\* What was sent to c.
Sent(c) == Texts(SubSeq(log, joined[c] + 1, Upto(c)))

\* The two streams of a connection.
ServerTakes(c) == Follows(SaidBy(c), written[c], Contents(serverBuf[c]) \o toServer[c])
ClientTakes(c) == Follows(got[c], Sent(c), Contents(clientBuf[c]) \o toClient[c])

\* Where c's part of the log begins and ends.
Counted(c) ==
    /\ server[c] = "kConnected" => c \in connections
    /\ joined[c] <= Len(log) /\ left[c] <= Len(log)
    /\ server[c] = "kConnecting" => joined[c] = 0 /\ left[c] = 0

\* Nothing but messages that a header can count is in the log or received.
MessagesOnly == log \in Seq(Entries) /\ got \in [Conns -> Seq(Messages)]

StreamInv(c) == ServerTakes(c) /\ ClientTakes(c) /\ Counted(c)

\* The inductive invariant.
ChatInv == ChatTypeOK /\ MessagesOnly /\ \A c \in Conns : StreamInv(c)

\* The types that the steps need, without those of the states.
LEMMA ChatTypes ==
  ASSUME ChatInv, NEW c \in Conns
  PROVE  /\ serverBuf[c] \in Sound /\ clientBuf[c] \in Sound
         /\ toServer[c] \in Seq(Bytes) /\ toClient[c] \in Seq(Bytes)
         /\ written[c] \in Seq(Messages) /\ got[c] \in Seq(Messages)
         /\ joined[c] \in Nat /\ left[c] \in Nat /\ Len(log) \in Nat
         /\ Upto(c) \in Nat /\ Upto(c) <= Len(log) /\ joined[c] <= Len(log)
         /\ SaidBy(c) \in Seq(Messages) /\ Sent(c) \in Seq(Messages)
         /\ ServerTakes(c) /\ ClientTakes(c)
<1>1. serverBuf[c] \in Sound /\ clientBuf[c] \in Sound
  BY SoundIs DEF ChatInv, ChatTypeOK
<1>2. /\ toServer[c] \in Seq(Bytes) /\ toClient[c] \in Seq(Bytes)
      /\ got[c] \in Seq(Messages)
      /\ joined[c] \in Nat /\ left[c] \in Nat
  BY DEF ChatInv, ChatTypeOK, MessagesOnly
<1>3. written[c] \in Seq(Messages)
  BY LinesAreMessages DEF ChatInv, ChatTypeOK
<1>4. log \in Seq(Entries) /\ Len(log) \in Nat
  BY DEF ChatInv, MessagesOnly
<1>5. StreamInv(c)
  BY DEF ChatInv
<1>6. Upto(c) \in Nat /\ Upto(c) <= Len(log) /\ joined[c] <= Len(log)
  BY <1>2, <1>4, <1>5 DEF Upto, StreamInv, Counted
<1>7. SaidBy(c) \in Seq(Messages)
  BY <1>4, SaidStep DEF SaidBy
<1>8. Sent(c) \in Seq(Messages)
  BY <1>2, <1>4, <1>6, PartIs, TextsAre DEF Sent
<1> QED BY <1>1, <1>2, <1>3, <1>4, <1>5, <1>6, <1>7, <1>8 DEF StreamInv

LEMMA ChatInitially == ChatInit => ChatInv
<1> SUFFICES ASSUME ChatInit PROVE ChatInv
  OBVIOUS
<1> USE DEF ChatInit
<1>0. /\ BufferOK(NewBuffer(InitialSize)) /\ Contents(NewBuffer(InitialSize)) = <<>>
  BY BufferSizesAssumption, NewBufferProperties
<1>1. ChatTypeOK
  <2>1. NewBuffer(InitialSize) \in Buffers
    BY <1>0 DEF BufferOK
  <2>2. \A c \in Conns : BufferOK(serverBuf[c]) /\ BufferOK(clientBuf[c])
    BY <1>0
  <2> QED BY <2>1, <2>2 DEF ChatTypeOK, ConnStates
<1>2. MessagesOnly
  BY DEF MessagesOnly
<1>3. ASSUME NEW c \in Conns PROVE StreamInv(c)
  <2>1. Counted(c)
    BY DEF Counted
  <2>2. Follows(<<>>, <<>>, <<>> \o <<>>)
    <3>1. IsPrefix(<<>>, <<>>) /\ Later(<<>>, Len(<<>>)) = <<>> /\ <<>> \o <<>> = <<>>
      BY DEF IsPrefix, Later
    <3> QED BY <3>1, EncodeEmpty DEF Follows
  <2>3. SaidBy(c) = <<>>
    BY SaidStep DEF SaidBy
  <2>4. Sent(c) = <<>>
    <3>1. Upto(c) = 0 /\ joined[c] = 0
      BY DEF Upto
    <3>2. SubSeq(<<>>, 0 + 1, 0) = <<>>
      OBVIOUS
    <3>3. Texts(<<>>) = <<>>
      BY DEF Texts
    <3> QED BY <3>1, <3>2, <3>3 DEF Sent
  <2>5. ServerTakes(c)
    BY <1>0, <2>2, <2>3 DEF ServerTakes
  <2>6. ClientTakes(c)
    BY <1>0, <2>2, <2>4 DEF ClientTakes
  <2> QED BY <2>1, <2>5, <2>6 DEF StreamInv
<1> QED BY <1>1, <1>2, <1>3 DEF ChatInv

-----------------------------------------------------------------------------
(* The steps of the clients.                                               *)

\* Where neither the log nor a buffer nor a stream changes, nothing does.
LEMMA SideKept ==
  ASSUME NEW d \in Conns, UNCHANGED <<log, written[d], serverBuf[d], toServer[d]>>, ServerTakes(d)
  PROVE  ServerTakes(d)'
BY DEF ServerTakes, SaidBy

LEMMA OtherSideKept ==
  ASSUME NEW d \in Conns, Sent(d)' = Sent(d), UNCHANGED <<got[d], clientBuf[d], toClient[d]>>,
         ClientTakes(d)
  PROVE  ClientTakes(d)'
BY DEF ClientTakes

LEMMA ClientWriteKeeps ==
  ASSUME ChatInv, NEW c \in Conns, NEW line \in Lines, ClientWrite(c, line)
  PROVE  ChatInv'
<1> USE DEF ClientWrite
<1>0. line \in Messages /\ <<line>> \in Seq(Messages) /\ Encode(line) \in Seq(Bytes)
  BY LinesAreMessages, EncodeIs
<1>1. ChatTypeOK'
  <2>1. ChatTypeOK
    BY DEF ChatInv
  <2>2. written' \in [Conns -> Seq(Lines)]
    BY <2>1 DEF ChatTypeOK
  <2>3. toServer' \in [Conns -> Seq(Bytes)]
    BY <1>0, <2>1 DEF ChatTypeOK
  <2> QED BY <2>1, <2>2, <2>3 DEF ChatTypeOK
<1>2. MessagesOnly'
  BY DEF ChatInv, MessagesOnly
<1>3. ASSUME NEW d \in Conns PROVE StreamInv(d)'
  <2>1. StreamInv(d)
    BY DEF ChatInv
  <2>2. Sent(d)' = Sent(d)
    BY DEF Sent, Upto
  <2>3. ClientTakes(d)'
    BY <2>1, <2>2, OtherSideKept DEF StreamInv
  <2>4. Counted(d)'
    BY <2>1 DEF Counted, StreamInv
  <2>5. ServerTakes(d)'
    <3>1. CASE d = c
      <4> DEFINE a == Contents(serverBuf[c])
                 w == toServer[c]
                 s == SaidBy(c)
                 t == written[c]
      <4>1. /\ a \in Seq(Bytes) /\ w \in Seq(Bytes) /\ s \in Seq(Messages)
            /\ t \in Seq(Messages) /\ Follows(s, t, a \o w)
        BY ChatTypes, SoundIs, ContentsProperties DEF ServerTakes
      <4>2. /\ toServer'[c] = w \o Encode(line) /\ written'[c] = Append(t, line)
            /\ Contents(serverBuf'[c]) = a /\ SaidBy(c)' = s
        BY DEF ChatInv, ChatTypeOK, SaidBy
      <4> HIDE DEF a, w, s, t
      <4>3. Follows(s, t \o <<line>>, (a \o w) \o EncodeAll(<<line>>))
        <5>1. a \o w \in Seq(Bytes)
          BY <4>1
        <5> QED BY <1>0, <4>1, <5>1, FollowsSends
      <4>4. t \o <<line>> = Append(t, line)
        BY <1>0, <4>1
      <4>5. (a \o w) \o Encode(line) = a \o (w \o Encode(line))
        BY <1>0, <4>1, BytesAssociative
      <4>6. Follows(s, Append(t, line), a \o (w \o Encode(line)))
        BY <1>0, <4>3, <4>4, <4>5, EncodeOne
      <4> QED BY <3>1, <4>2, <4>6 DEF ServerTakes
    <3>2. CASE d # c
      <4>1. UNCHANGED <<log, written[d], serverBuf[d], toServer[d]>>
        BY <3>2 DEF ChatInv, ChatTypeOK
      <4> QED BY <2>1, <4>1, SideKept DEF StreamInv
    <3> QED BY <3>1, <3>2
  <2> QED BY <2>3, <2>4, <2>5 DEF StreamInv
<1> QED BY <1>1, <1>2, <1>3 DEF ChatInv

\* The steps that neither send nor take.
LEMMA ClientStateKeeps ==
  ASSUME ChatInv, NEW c \in Conns, ClientUp(c) \/ ClientDisconnect(c) \/ ClientClose(c)
  PROVE  ChatInv'
<1>0. UNCHANGED <<server, connections, serverBuf, clientBuf, toServer, toClient, history>>
  BY DEF ClientUp, ClientDisconnect, ClientClose, streams
<1>1. ChatTypeOK'
  <2>1. ChatTypeOK
    BY DEF ChatInv
  <2>2. client' \in [Conns -> ConnStates] /\ clientFin' \in [Conns -> BOOLEAN]
        /\ serverFin' \in [Conns -> BOOLEAN]
    BY <2>1 DEF ChatTypeOK, ConnStates, ClientUp, ClientDisconnect, ClientClose, streams
  <2> QED BY <1>0, <2>1, <2>2 DEF ChatTypeOK, history
<1>2. MessagesOnly'
  BY <1>0 DEF ChatInv, MessagesOnly, history
<1>3. ASSUME NEW d \in Conns PROVE StreamInv(d)'
  <2>1. StreamInv(d)
    BY DEF ChatInv
  <2>2. Sent(d)' = Sent(d)
    BY <1>0 DEF Sent, Upto, history
  <2>3. ClientTakes(d)'
    BY <1>0, <2>1, <2>2, OtherSideKept DEF StreamInv, history
  <2>4. Counted(d)'
    BY <1>0, <2>1 DEF Counted, StreamInv, history
  <2>5. ServerTakes(d)'
    BY <1>0, <2>1, SideKept DEF StreamInv, history
  <2> QED BY <2>3, <2>4, <2>5 DEF StreamInv
<1> QED BY <1>1, <1>2, <1>3 DEF ChatInv

LEMMA ClientReadKeeps ==
  ASSUME ChatInv, NEW c \in Conns, NEW n \in 1..Len(toClient[c]), ClientRead(c, n)
  PROVE  ChatInv'
<1> DEFINE a == clientBuf[c]
           w == toClient[c]
           t == got[c]
           s == Sent(c)
           e == SubSeq(w, n + 1, Len(w))
<1>0. /\ a \in Sound /\ w \in Seq(Bytes) /\ t \in Seq(Messages) /\ s \in Seq(Messages)
      /\ Follows(t, s, Contents(a) \o w)
  BY ChatTypes DEF ClientTakes
<1>1. PICK r : /\ r = OnMessage(ReadFd(a, SubSeq(w, 1, n)))
               /\ clientBuf' = [clientBuf EXCEPT ![c] = r.buffer]
               /\ got' = [got EXCEPT ![c] = @ \o r.messages]
               /\ client' = [client EXCEPT ![c] = IF r.shutdown THEN "kDisconnecting" ELSE @]
               /\ clientFin' = [clientFin EXCEPT ![c] = @ \/ r.shutdown]
  BY DEF ClientRead
<1>2. /\ toClient' = [toClient EXCEPT ![c] = e]
      /\ UNCHANGED <<server, connections, serverBuf, toServer, serverFin, written,
                     log, joined, left>>
  BY DEF ClientRead
<1> HIDE DEF a, w, t, s
<1>3. /\ r.buffer \in Sound /\ r.messages \in Seq(Messages) /\ r.shutdown \in BOOLEAN
      /\ e \in Seq(Bytes)
      /\ Follows(t \o r.messages, s, Contents(r.buffer) \o e)
  <2>1. n \in 1..Len(w)
    BY DEF w
  <2>2. r = OnMessage(ReadFd(a, SubSeq(w, 1, n)))
    BY <1>1
  <2> QED BY <1>0, <2>1, <2>2, FollowsReads
<1> HIDE DEF e
<1>t. t \o r.messages \in Seq(Messages)
  BY <1>0, <1>3
<1>4. ChatTypeOK'
  <2>1. ChatTypeOK
    BY DEF ChatInv
  <2>2. clientBuf' \in [Conns -> Buffers] /\ \A d \in Conns : BufferOK(clientBuf'[d])
    <3>1. r.buffer \in Buffers /\ BufferOK(r.buffer)
      BY <1>3 DEF Sound
    <3> QED BY <1>1, <2>1, <3>1 DEF ChatTypeOK
  <2>3. got' \in [Conns -> Seq(Seq(Bytes))]
    <3>1. t \o r.messages \in Seq(Seq(Bytes))
      BY <1>t DEF Messages
    <3> QED BY <1>1, <2>1, <3>1 DEF ChatTypeOK, t
  <2>4. client' \in [Conns -> ConnStates] /\ clientFin' \in [Conns -> BOOLEAN]
    BY <1>1, <1>3, <2>1 DEF ChatTypeOK, ConnStates
  <2>5. toClient' \in [Conns -> Seq(Bytes)]
    BY <1>2, <1>3, <2>1 DEF ChatTypeOK
  <2> QED BY <1>2, <2>1, <2>2, <2>3, <2>4, <2>5 DEF ChatTypeOK
<1>5. MessagesOnly'
  <2>1. got' \in [Conns -> Seq(Messages)]
    BY <1>1, <1>t DEF ChatInv, MessagesOnly, t
  <2> QED BY <1>2, <2>1 DEF ChatInv, MessagesOnly
<1>6. ASSUME NEW d \in Conns PROVE StreamInv(d)'
  <2>1. StreamInv(d)
    BY DEF ChatInv
  <2>2. Sent(d)' = Sent(d)
    BY <1>2 DEF Sent, Upto
  <2>3. ServerTakes(d)'
    BY <1>2, <2>1, SideKept DEF StreamInv
  <2>4. Counted(d)'
    BY <1>2, <2>1 DEF Counted, StreamInv
  <2>5. ClientTakes(d)'
    <3>1. CASE d = c
      <4>1. clientBuf'[c] = r.buffer /\ got'[c] = t \o r.messages /\ toClient'[c] = e
        BY <1>1, <1>2 DEF ChatInv, ChatTypeOK, t
      <4> QED BY <1>3, <2>2, <3>1, <4>1 DEF ClientTakes, s
    <3>2. CASE d # c
      <4>1. UNCHANGED <<got[d], clientBuf[d], toClient[d]>>
        BY <1>1, <1>2, <3>2 DEF ChatInv, ChatTypeOK
      <4> QED BY <2>1, <2>2, <4>1, OtherSideKept DEF StreamInv
    <3> QED BY <3>1, <3>2
  <2> QED BY <2>3, <2>4, <2>5 DEF StreamInv
<1> QED BY <1>4, <1>5, <1>6 DEF ChatInv

-----------------------------------------------------------------------------
(* The steps of the server.                                                *)

LEMMA ServerUpKeeps ==
  ASSUME ChatInv, NEW c \in Conns, ServerUp(c)
  PROVE  ChatInv'
<1> USE DEF ServerUp
<1>0. /\ server' = [server EXCEPT ![c] = "kConnected"]
      /\ joined' = [joined EXCEPT ![c] = Len(log)]
      /\ UNCHANGED <<client, serverBuf, clientBuf, toServer, toClient, serverFin,
                     clientFin, written, log, left, got>>
  BY DEF streams
<1>n. Len(log) \in Nat /\ log \in Seq(Entries)
  BY ChatTypes DEF ChatInv, MessagesOnly
<1>1. ChatTypeOK'
  <2>1. ChatTypeOK
    BY DEF ChatInv
  <2>2. server' \in [Conns -> ConnStates] /\ joined' \in [Conns -> Nat]
    BY <1>0, <1>n, <2>1 DEF ChatTypeOK, ConnStates
  <2> QED BY <1>0, <2>1, <2>2 DEF ChatTypeOK
<1>2. MessagesOnly'
  BY <1>0 DEF ChatInv, MessagesOnly
<1>3. ASSUME NEW d \in Conns PROVE StreamInv(d)'
  <2>1. StreamInv(d)
    BY DEF ChatInv
  <2>2. Sent(d)' = Sent(d)
    <3>1. CASE d = c
      <4>1. Upto(c) = 0 /\ joined[c] = 0
        BY <2>1, <3>1 DEF StreamInv, Counted, Upto
      <4>2. Upto(c)' = Len(log) /\ joined'[c] = Len(log)
        BY <1>0 DEF Upto, ChatInv, ChatTypeOK
      <4>3. SubSeq(log, 0 + 1, 0) = <<>> /\ SubSeq(log, Len(log) + 1, Len(log)) = <<>>
        BY <1>n
      <4> QED BY <1>0, <3>1, <4>1, <4>2, <4>3 DEF Sent
    <3>2. CASE d # c
      <4>1. server'[d] = server[d] /\ joined'[d] = joined[d]
        BY <1>0, <3>2 DEF ChatInv, ChatTypeOK
      <4> QED BY <1>0, <4>1 DEF Sent, Upto
    <3> QED BY <3>1, <3>2
  <2>3. ServerTakes(d)'
    BY <1>0, <2>1, SideKept DEF StreamInv
  <2>4. ClientTakes(d)'
    BY <1>0, <2>1, <2>2, OtherSideKept DEF StreamInv
  <2>5. Counted(d)'
    BY <1>0, <1>n, <2>1 DEF StreamInv, Counted, ChatInv, ChatTypeOK
  <2> QED BY <2>3, <2>4, <2>5 DEF StreamInv
<1> QED BY <1>1, <1>2, <1>3 DEF ChatInv

LEMMA ServerCloseKeeps ==
  ASSUME ChatInv, NEW c \in Conns, ServerClose(c)
  PROVE  ChatInv'
<1> USE DEF ServerClose
<1>n. Len(log) \in Nat
  BY ChatTypes
<1>1. ChatTypeOK'
  <2>1. ChatTypeOK
    BY DEF ChatInv
  <2>2. server' \in [Conns -> ConnStates] /\ left' \in [Conns -> Nat]
        /\ connections' \subseteq Conns /\ serverFin' \in [Conns -> BOOLEAN]
    BY <1>n, <2>1 DEF ChatTypeOK, ConnStates
  <2> QED BY <2>1, <2>2 DEF ChatTypeOK
<1>2. MessagesOnly'
  BY DEF ChatInv, MessagesOnly
<1>3. ASSUME NEW d \in Conns PROVE StreamInv(d)'
  <2>1. StreamInv(d)
    BY DEF ChatInv
  <2>2. Upto(d)' = Upto(d)
    <3>1. CASE d = c
      BY <3>1 DEF Upto, ChatInv, ChatTypeOK
    <3>2. CASE d # c
      BY <3>2 DEF Upto, ChatInv, ChatTypeOK
    <3> QED BY <3>1, <3>2
  <2>3. Sent(d)' = Sent(d)
    BY <2>2 DEF Sent
  <2>4. ServerTakes(d)'
    BY <2>1, SideKept DEF StreamInv
  <2>5. ClientTakes(d)'
    BY <2>1, <2>3, OtherSideKept DEF StreamInv
  <2>6. Counted(d)'
    BY <1>n, <2>1 DEF StreamInv, Counted, StillReads, ChatInv, ChatTypeOK
  <2> QED BY <2>4, <2>5, <2>6 DEF StreamInv
<1> QED BY <1>1, <1>2, <1>3 DEF ChatInv

\* The server takes lines from one stream and puts them into all others.
LEMMA ServerReadKeeps ==
  ASSUME ChatInv, NEW c \in Conns, NEW n \in 1..Len(toServer[c]), ServerRead(c, n)
  PROVE  ChatInv'
<1> DEFINE a == serverBuf[c]
           w == toServer[c]
           e == SubSeq(w, n + 1, Len(w))
<1>0. /\ a \in Sound /\ w \in Seq(Bytes)
      /\ SaidBy(c) \in Seq(Messages) /\ written[c] \in Seq(Messages)
      /\ Follows(SaidBy(c), written[c], Contents(a) \o w)
  BY ChatTypes DEF ServerTakes
<1>1. PICK r : /\ r = OnMessage(ReadFd(a, SubSeq(w, 1, n)))
               /\ serverBuf' = [serverBuf EXCEPT ![c] = r.buffer]
               /\ toClient' = Broadcast(c, r.messages)
               /\ log' = log \o [i \in DOMAIN r.messages |-> <<c, r.messages[i]>>]
               /\ server' = [server EXCEPT ![c] = IF r.shutdown THEN "kDisconnecting" ELSE @]
               /\ serverFin' = [serverFin EXCEPT ![c] = @ \/ r.shutdown]
  BY DEF ServerRead
<1>2. /\ toServer' = [toServer EXCEPT ![c] = e]
      /\ StillReads(server[c])
      /\ left' = [left EXCEPT ![c] = IF server[c] = "kConnected" THEN Len(log') ELSE @]
      /\ UNCHANGED <<connections, client, clientBuf, clientFin, written, joined, got>>
  BY DEF ServerRead
<1> DEFINE m == r.messages
<1>3. /\ r.buffer \in Sound /\ m \in Seq(Messages) /\ r.shutdown \in BOOLEAN
      /\ e \in Seq(Bytes)
      /\ Follows(SaidBy(c) \o m, written[c], Contents(r.buffer) \o e)
  <2>1. r = OnMessage(ReadFd(a, SubSeq(w, 1, n)))
    BY <1>1
  <2> HIDE DEF a
  <2> QED BY <1>0, <2>1, FollowsReads
<1>4. log \in Seq(Entries) /\ Len(log) \in Nat /\ log' = log \o From(c, m)
  BY <1>1 DEF ChatInv, MessagesOnly, From
<1>5. /\ \A d \in Conns : toClient'[d] = IF d \in Listening THEN toClient[d] \o EncodeAll(m)
                                         ELSE toClient[d]
      /\ toClient' \in [Conns -> Seq(Bytes)]
  <2>1. EncodeAll(m) \in Seq(Bytes)
    BY <1>3, EncodeTyped
  <2>2. toClient \in [Conns -> Seq(Bytes)]
    BY DEF ChatInv, ChatTypeOK
  <2>3. \A d \in Conns : toClient[d] \o EncodeAll(m) \in Seq(Bytes)
    BY <2>1, <2>2
  <2> QED BY <1>1, <2>2, <2>3 DEF Broadcast
<1> HIDE DEF a, w, e, m
<1>6. log' \in Seq(Entries) /\ Len(log') = Len(log) + Len(m) /\ Len(m) \in Nat
  <2>1. 0 \in Nat /\ 0 <= Len(log)
    BY <1>4
  <2> QED BY <1>3, <1>4, <2>1, PartsGrow
<1>7. ChatTypeOK'
  <2>1. ChatTypeOK
    BY DEF ChatInv
  <2>2. serverBuf' \in [Conns -> Buffers] /\ \A d \in Conns : BufferOK(serverBuf'[d])
    <3>1. r.buffer \in Buffers /\ BufferOK(r.buffer)
      BY <1>3 DEF Sound
    <3> QED BY <1>1, <2>1, <3>1 DEF ChatTypeOK
  <2>3. log' \in Seq(Conns \X Seq(Bytes))
    <3>1. Entries \subseteq Conns \X Seq(Bytes)
      BY DEF Entries, Messages
    <3> QED BY <1>6, <3>1
  <2>4. server' \in [Conns -> ConnStates] /\ serverFin' \in [Conns -> BOOLEAN]
    BY <1>1, <1>3, <2>1 DEF ChatTypeOK, ConnStates
  <2>5. left' \in [Conns -> Nat]
    <3>1. Len(log') \in Nat
      BY <1>4, <1>6
    <3> QED BY <1>2, <2>1, <3>1 DEF ChatTypeOK
  <2>6. toServer' \in [Conns -> Seq(Bytes)]
    BY <1>2, <1>3, <2>1 DEF ChatTypeOK
  <2> QED BY <1>2, <1>5, <2>1, <2>2, <2>3, <2>4, <2>5, <2>6 DEF ChatTypeOK
<1>8. MessagesOnly'
  BY <1>2, <1>6 DEF ChatInv, MessagesOnly
<1>9. ASSUME NEW d \in Conns PROVE StreamInv(d)'
  <2>0. StreamInv(d)
    BY DEF ChatInv
  <2>1. /\ joined[d] \in Nat /\ left[d] \in Nat
        /\ joined[d] <= Len(log) /\ left[d] <= Len(log)
    BY <2>0, ChatTypes DEF StreamInv, Counted
  <2>2. /\ server'[d] = IF d = c /\ r.shutdown THEN "kDisconnecting" ELSE server[d]
        /\ left'[d] = IF d = c /\ server[c] = "kConnected" THEN Len(log') ELSE left[d]
        /\ joined'[d] = joined[d]
    BY <1>1, <1>2 DEF ChatInv, ChatTypeOK
  <2>3. ServerTakes(d)'
    <3>1. SaidIn(log', d) = IF c = d THEN SaidIn(log, d) \o m ELSE SaidIn(log, d)
      BY <1>3, <1>4, SaidConcat
    <3>2. CASE d = c
      <4>1. serverBuf'[c] = r.buffer /\ toServer'[c] = e /\ written'[c] = written[c]
        BY <1>1, <1>2 DEF ChatInv, ChatTypeOK
      <4> QED BY <1>3, <3>1, <3>2, <4>1 DEF ServerTakes, SaidBy
    <3>3. CASE d # c
      <4>1. serverBuf'[d] = serverBuf[d] /\ toServer'[d] = toServer[d] /\ written'[d] = written[d]
        BY <1>1, <1>2, <3>3 DEF ChatInv, ChatTypeOK
      <4> QED BY <2>0, <3>1, <3>3, <4>1 DEF StreamInv, ServerTakes, SaidBy
    <3> QED BY <3>2, <3>3
  <2>4. ClientTakes(d)'
    <3>0. clientBuf'[d] = clientBuf[d] /\ got'[d] = got[d]
      BY <1>2
    <3>1. CASE server[d] = "kConnected"
      <4>1. d \in Listening
        BY <2>0, <3>1 DEF StreamInv, Counted, Listening
      <4>2. Upto(d) = Len(log) /\ Upto(d)' = Len(log')
        BY <2>2, <3>1 DEF Upto
      <4>3. Sent(d)' = Sent(d) \o m
        <5>1. Texts(SubSeq(log', joined[d] + 1, Len(log')))
                = Texts(SubSeq(log, joined[d] + 1, Len(log))) \o m
          <6> DEFINE j == joined[d]
          <6>1. j \in Nat /\ j <= Len(log)
            BY <2>1
          <6> HIDE DEF j
          <6>2. Texts(SubSeq(log \o From(c, m), j + 1, Len(log \o From(c, m))))
                  = Texts(SubSeq(log, j + 1, Len(log))) \o m
            BY <1>3, <1>4, <6>1, PartsGrow
          <6> QED BY <1>4, <6>2 DEF j
        <5>2. Sent(d)' = Texts(SubSeq(log', joined'[d] + 1, Upto(d)'))
          BY DEF Sent
        <5> QED BY <2>2, <4>2, <5>1, <5>2 DEF Sent
      <4> DEFINE b == Contents(clientBuf[d])
                 x == toClient[d]
                 s == Sent(d)
                 t == got[d]
      <4>4. /\ b \in Seq(Bytes) /\ x \in Seq(Bytes) /\ s \in Seq(Messages)
            /\ t \in Seq(Messages) /\ Follows(t, s, b \o x)
        BY ChatTypes, SoundIs, ContentsProperties DEF ClientTakes
      <4>5. toClient'[d] = x \o EncodeAll(m)
        BY <1>5, <4>1
      <4> HIDE DEF b, x, s, t
      <4>6. EncodeAll(m) \in Seq(Bytes)
        BY <1>3, EncodeTyped
      <4>7. Follows(t, s \o m, (b \o x) \o EncodeAll(m))
        <5>1. b \o x \in Seq(Bytes)
          BY <4>4
        <5> QED BY <1>3, <4>4, <5>1, FollowsSends
      <4>8. (b \o x) \o EncodeAll(m) = b \o (x \o EncodeAll(m))
        BY <4>4, <4>6, BytesAssociative
      <4>9. Follows(got'[d], Sent(d)', Contents(clientBuf'[d]) \o toClient'[d])
        BY <3>0, <4>3, <4>5, <4>7, <4>8 DEF b, s, t
      <4> QED BY <4>9 DEF ClientTakes
    <3>2. CASE server[d] # "kConnected"
      <4>1. d \notin Listening
        BY <3>2 DEF Listening
      <4>2. Upto(d) = left[d] /\ Upto(d)' = left[d]
        BY <2>2, <3>2 DEF Upto
      <4>3. SubSeq(log', joined[d] + 1, left[d]) = SubSeq(log, joined[d] + 1, left[d])
        <5>1. \A i \in Nat : i <= Len(log) =>
                \A k \in Nat : k <= Len(log) =>
                  SubSeq(log \o From(c, m), i + 1, k) = SubSeq(log, i + 1, k)
          BY <1>3, <1>4, PartsGrow
        <5> QED BY <1>4, <2>1, <5>1
      <4>4. Sent(d)' = Sent(d)
        BY <2>2, <4>2, <4>3 DEF Sent
      <4>5. toClient'[d] = toClient[d]
        BY <1>5, <4>1
      <4> QED BY <2>0, <3>0, <4>4, <4>5, OtherSideKept DEF StreamInv
    <3> QED BY <3>1, <3>2
  <2>5. Counted(d)'
    <3>1. server'[d] = "kConnected" => d \in connections'
      BY <1>2, <2>0, <2>2 DEF StreamInv, Counted
    <3>2. joined'[d] <= Len(log') /\ left'[d] <= Len(log')
      BY <1>4, <1>6, <2>1, <2>2
    <3>3. server'[d] = "kConnecting" => joined'[d] = 0 /\ left'[d] = 0
      BY <1>2, <2>0, <2>2 DEF StreamInv, Counted, StillReads
    <3> QED BY <3>1, <3>2, <3>3 DEF Counted
  <2> QED BY <2>3, <2>4, <2>5 DEF StreamInv
<1> QED BY <1>7, <1>8, <1>9 DEF ChatInv

-----------------------------------------------------------------------------
(* The theorems.                                                           *)

\* Every step keeps the invariant.
LEMMA ChatInductive == ChatInv /\ [ChatNext]_chatVars => ChatInv'
<1> SUFFICES ASSUME ChatInv, [ChatNext]_chatVars PROVE ChatInv'
  OBVIOUS
<1>1. CASE UNCHANGED chatVars
  BY <1>1 DEF chatVars, streams, history, ChatInv, ChatTypeOK, MessagesOnly, StreamInv,
     ServerTakes, ClientTakes, Counted, SaidBy, Sent, Upto
<1>2. CASE ChatNext
  <2>1. PICK c \in Conns : User(c) \/ ClientLoop(c) \/ ServerLoop(c)
    BY <1>2 DEF ChatNext
  <2>2. CASE User(c)
    <3>1. CASE \E line \in Lines : ClientWrite(c, line)
      BY <3>1, ClientWriteKeeps
    <3>2. CASE ClientDisconnect(c)
      BY <3>2, ClientStateKeeps
    <3> QED BY <2>2, <3>1, <3>2 DEF User
  <2>3. CASE ClientLoop(c)
    <3>1. CASE ClientUp(c) \/ ClientClose(c)
      BY <3>1, ClientStateKeeps
    <3>2. CASE \E n \in 1..Len(toClient[c]) : ClientRead(c, n)
      BY <3>2, ClientReadKeeps
    <3> QED BY <2>3, <3>1, <3>2 DEF ClientLoop
  <2>4. CASE ServerLoop(c)
    <3>1. CASE ServerUp(c)
      BY <3>1, ServerUpKeeps
    <3>2. CASE \E n \in 1..Len(toServer[c]) : ServerRead(c, n)
      BY <3>2, ServerReadKeeps
    <3>3. CASE ServerClose(c)
      BY <3>3, ServerCloseKeeps
    <3> QED BY <2>4, <3>1, <3>2, <3>3 DEF ServerLoop
  <2> QED BY <2>1, <2>2, <2>3, <2>4
<1> QED BY <1>1, <1>2

\* At every moment each stream of each connection follows what was sent on it.
THEOREM ChatInvariant == ChatSpec => []ChatInv
<1>1. ChatInit => ChatInv
  BY ChatInitially
<1>2. ChatInv /\ [ChatNext]_chatVars => ChatInv'
  BY ChatInductive
<1> QED BY <1>1, <1>2, PTL DEF ChatSpec

\* The variables of the chat stay in their types: the buffers' indices in their
\* places, for any cuts of the streams.
THEOREM ChatTypeCorrect == ChatSpec => []ChatTypeOK
<1>1. ChatInv => ChatTypeOK
  BY DEF ChatInv
<1> QED BY <1>1, ChatInvariant, PTL

\* Whatever the cuts, the lines and what is rejected, the server takes the lines
\* of a connection whole and in order (LengthHeaderCodec::onMessage, Buffer).
THEOREM ServerTakesLines == ChatSpec => []LinesWhole
<1>1. ChatInv => LinesWhole
  BY DEF ChatInv, StreamInv, ServerTakes, Follows, LinesWhole
<1> QED BY <1>1, ChatInvariant, PTL

\* Whoever joins, leaves or is rejected, each client hears the one conversation
\* without a gap (ChatServer::onStringMessage, onConnection).
THEOREM ClientsHearOneConversation == ChatSpec => []SameConversation
<1>1. ASSUME ChatInv PROVE SameConversation
  <2> SUFFICES ASSUME NEW c \in Conns
               PROVE  IsPrefix(got[c], Texts(SubSeq(log, joined[c] + 1, Len(log))))
    BY DEF SameConversation
  <2>1. IsPrefix(got[c], Texts(SubSeq(log, joined[c] + 1, Upto(c))))
    BY <1>1, ChatTypes DEF ClientTakes, Follows, Sent
  <2>2. /\ log \in Seq(Entries) /\ joined[c] \in Nat /\ Upto(c) \in Nat
        /\ joined[c] <= Len(log) /\ Upto(c) <= Len(log) /\ got[c] \in Seq(Messages)
    BY <1>1, ChatTypes DEF ChatInv, MessagesOnly
  <2> QED BY <2>1, <2>2, PartIsPrefix
<1>2. ChatInv => SameConversation
  BY <1>1
<1> QED BY <1>2, ChatInvariant, PTL
=============================================================================
