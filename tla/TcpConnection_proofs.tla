------------------------- MODULE TcpConnection_proofs -------------------------
(***************************************************************************)
(* Proofs about TcpConnection, for any users, messages and calls of the    *)
(* application: the bytes are given to the kernel in order, whatever the   *)
(* order of timers and events; and, with the connection's events before    *)
(* the timers (~TimerFirst), it is closed once, so that its types hold.    *)
(* The users are careful, as the module says.                              *)
(***************************************************************************)
EXTENDS TcpConnection, SequenceTheorems, TLAPS

\* The types of state_, the channel, the data and the other end.
EffTypes ==
    /\ state \in States
    /\ want \subseteq {"IN", "OUT"} /\ added \in BOOLEAN /\ reading \in BOOLEAN
    /\ output \in Seq(Nat) /\ sent \in Seq(Nat) /\ accepted \in Nat
    /\ shut \in BOOLEAN /\ peer \in Peers

\* The types of the loop's and the users' variables.
LoopTypes ==
    /\ functors \in Seq(Functor) /\ batch \in Seq(Functor)
    /\ next \in 1..(Len(batch) + 1)
    /\ loopPc \in {"events", "functors"}
    /\ revents \subseteq {"HUP", "ERR", "IN", "OUT"}
    /\ delayed \in {"none", "set", "due"} /\ inMap \in BOOLEAN
    /\ holds \in [Users -> BOOLEAN] /\ pc \in [Users -> UserCall]
    /\ sends \in 0..MaxSends

\* The channel waits for POLLOUT exactly while there is output, until the
\* connection is closed, and then for nothing; nothing is done before it is
\* established.
Writing ==
    /\ state # "kDisconnected" => ("OUT" \in want <=> output # <<>>)
    /\ state = "kDisconnected" => want = {}
    /\ state = "kConnecting" => want = {} /\ ~added /\ ~shut

Effects == EffTypes /\ Writing /\ BytesInOrder

Established == Call("connectEstablished", 0)

\* connectEstablished() is the first functor and runs once; no call of the
\* application, no event and no close comes before it.
Connecting ==
    /\ state = "kConnecting" =>
         /\ revents = {} /\ delayed = "none" /\ next = 1 /\ base = 0
         /\ \/ functors = <<Established>> /\ batch = <<>>
            \/ functors = <<>> /\ batch = <<Established>> /\ loopPc = "functors"
         /\ \A u \in Users : ~holds[u] /\ pc[u] = NoCall
    /\ state # "kConnecting" => ~Pending("connectEstablished")

\* The inductive invariant.
IInv == Effects /\ LoopTypes /\ Connecting

\* What poll() reported of the end of the connection is still so when its turn
\* comes, so that the connection is closed once.
ClosedOnce ==
    /\ base \in 0..1 /\ downs \in 0..1
    /\ base > 0 \/ downs > 0 => state = "kDisconnected"
    /\ loopPc = "functors" => revents = {}
    /\ "HUP" \in revents \/ "IN" \in revents => Open
    /\ ~("HUP" \in revents /\ "IN" \in revents)

-----------------------------------------------------------------------------
(* Sequences.                                                              *)

\* A sequence cut in two.
LEMMA CutInTwo ==
  ASSUME NEW S, NEW s \in Seq(S), NEW n \in 0..Len(s)
  PROVE  /\ SubSeq(s, 1, n) \in Seq(S) /\ SubSeq(s, n + 1, Len(s)) \in Seq(S)
         /\ SubSeq(s, 1, n) \o SubSeq(s, n + 1, Len(s)) = s
<1>1. Len(s) \in Nat
  BY LenProperties
<1>2. 1 \in 1..(Len(s) + 1) /\ n \in (1 - 1)..Len(s) /\ Len(s) \in n..Len(s)
  BY <1>1
<1>3. SubSeq(s, 1, n) \o SubSeq(s, n + 1, Len(s)) = SubSeq(s, 1, Len(s))
  BY <1>2, ConcatAdjacentSubSeq
<1>4. SubSeq(s, 1, n) \in Seq(S) /\ SubSeq(s, n + 1, Len(s)) \in Seq(S)
  <2>1. \A i \in 1..Len(s) : s[i] \in S
    BY ElementOfSeq
  <2>2. /\ 1 \in Int /\ n \in Int /\ n + 1 \in Int /\ Len(s) \in Int
        /\ \A i \in 1..n : s[i] \in S /\ \A j \in (n + 1)..Len(s) : s[j] \in S
    BY <1>1, <2>1
  <2>3. SubSeq(s, 1, n) \in Seq(S)
    BY <2>2, SubSeqProperties
  <2>4. \A j \in (n + 1)..Len(s) : s[j] \in S
    BY <1>1, <2>1
  <2>5. SubSeq(s, n + 1, Len(s)) \in Seq(S)
    BY <2>2, <2>4, SubSeqProperties
  <2> QED BY <2>3, <2>5
<1> QED BY <1>3, <1>4, SubSeqFull

\* Concatenation is associative.
LEMMA Concat3 ==
  ASSUME NEW a \in Seq(Nat), NEW b \in Seq(Nat), NEW c \in Seq(Nat)
  PROVE  (a \o b) \o c = a \o (b \o c)
OBVIOUS

\* The bytes of a call of sendInLoop() follow those taken before.
LEMMA Numbered ==
  ASSUME NEW m \in Nat, NEW n \in Nat
  PROVE  /\ [i \in 1..m |-> i] \in Seq(Nat) /\ [i \in 1..n |-> m + i] \in Seq(Nat)
         /\ Len([i \in 1..n |-> m + i]) = n
         /\ [i \in 1..m |-> i] \o [i \in 1..n |-> m + i] = [i \in 1..(m + n) |-> i]
<1> DEFINE s == [i \in 1..m |-> i]
           t == [i \in 1..n |-> m + i]
           r == [i \in 1..(m + n) |-> i]
<1>1. /\ s \in Seq(Nat) /\ Len(s) = m /\ \A i \in 1..m : s[i] = i
      /\ t \in Seq(Nat) /\ Len(t) = n /\ \A i \in 1..n : t[i] = m + i
      /\ r \in Seq(Nat) /\ Len(r) = m + n /\ \A i \in 1..(m + n) : r[i] = i
  OBVIOUS
<1> HIDE DEF s, t, r
<1>2. /\ s \o t \in Seq(Nat) /\ Len(s \o t) = m + n
      /\ \A i \in 1..(m + n) : (s \o t)[i] = IF i <= m THEN s[i] ELSE t[i - m]
  <2>1. s \in Seq(Nat) /\ t \in Seq(Nat)
    BY <1>1
  <2>2. /\ s \o t \in Seq(Nat) /\ Len(s \o t) = Len(s) + Len(t)
        /\ \A i \in 1..Len(s) + Len(t) : (s \o t)[i] = IF i <= Len(s) THEN s[i] ELSE t[i - Len(s)]
    BY <2>1, ConcatProperties
  <2> QED BY <1>1, <2>2
<1>3. ASSUME NEW i \in 1..(m + n)
      PROVE  (s \o t)[i] = r[i]
  <2>1. CASE i <= m
    BY <1>1, <1>2, <2>1
  <2>2. CASE ~(i <= m)
    <3>1. i - m \in 1..n /\ m + (i - m) = i
      BY <2>2
    <3> QED BY <1>1, <1>2, <2>2, <3>1
  <2> QED BY <2>1, <2>2
<1>4. s \o t = r
  BY <1>1, <1>2, <1>3, SeqEqual
<1> QED BY <1>1, <1>4 DEF s, t, r

-----------------------------------------------------------------------------
(* What the methods do to the connection.                                  *)

\* Nothing, or what happens at the other end.
LEMMA EffectsStay ==
  ASSUME Effects, UNCHANGED <<state, chan, data, shut>>, peer' \in Peers
  PROVE  Effects'
BY DEF Effects, EffTypes, Writing, BytesInOrder, chan, data

\* setState() of an open connection, with what shutdownInLoop() does.
LEMMA StateSet ==
  ASSUME Effects, Open, state' \in {"kConnected", "kDisconnecting"},
         UNCHANGED <<chan, data, peer>>, shut' \in {shut, ShutUnlessWriting}
  PROVE  Effects'
BY DEF Effects, EffTypes, Writing, BytesInOrder, chan, data, Open, ShutUnlessWriting, States

\* shutdownInLoop() shuts nothing down while output waits.
LEMMA Shuts ==
  ASSUME Effects, state # "kConnecting", ShutdownInLoop
  PROVE  Effects'
BY DEF Effects, EffTypes, Writing, BytesInOrder, chan, data, ShutdownInLoop, ShutUnlessWriting

\* handleClose(): the output that waits is given up.
LEMMA Closes ==
  ASSUME Effects, HandleClose
  PROVE  Effects'
BY DEF Effects, EffTypes, Writing, BytesInOrder, data, HandleClose, SetWant, States

\* connectEstablished() starts with nothing to write.
LEMMA Establishes ==
  ASSUME Effects, ConnectEstablished, state = "kConnecting"
  PROVE  Effects'
BY DEF Effects, EffTypes, Writing, BytesInOrder, data, ConnectEstablished, SetWant, States

\* connectDestroyed() disables the channel as it sets kDisconnected.
LEMMA Destroys ==
  ASSUME Effects, ConnectDestroyed, state # "kConnecting"
  PROVE  Effects'
BY DEF Effects, EffTypes, Writing, BytesInOrder, data, ConnectDestroyed, States

\* startRead() and stopRead() of an open connection leave POLLOUT alone.
LEMMA Reads ==
  ASSUME Effects, Open, StartReadInLoop \/ StopReadInLoop
  PROVE  Effects'
<1>1. UNCHANGED <<state, data, shut, peer>>
  BY DEF StartReadInLoop, StopReadInLoop
<1>2. /\ want' \subseteq {"IN", "OUT"} /\ added' \in BOOLEAN /\ reading' \in BOOLEAN
      /\ "OUT" \in want' <=> "OUT" \in want
  BY DEF StartReadInLoop, StopReadInLoop, chan, Effects, EffTypes
<1> QED BY <1>1, <1>2 DEF Effects, EffTypes, Writing, BytesInOrder, data, Open

\* sendInLoop() writes at once only what comes next, and nothing behind
\* shutdown().
LEMMA Sends ==
  ASSUME Effects, NEW len \in Nat, SendInLoop(len), state # "kConnecting"
  PROVE  Effects'
<1> DEFINE bytes == [i \in 1..len |-> accepted + i]
<1>1. /\ EffTypes /\ Writing /\ BytesInOrder
      /\ output \in Seq(Nat) /\ sent \in Seq(Nat) /\ accepted \in Nat
  BY DEF Effects, EffTypes
<1>2. /\ bytes \in Seq(Nat) /\ Len(bytes) = len
      /\ (sent \o output) \o bytes = [i \in 1..(accepted + len) |-> i]
  BY <1>1, Numbered DEF BytesInOrder
<1>3. CASE \/ state = "kDisconnected" \/ (CanWriteDirectly /\ WriteFails)
  <2>1. CASE /\ peer' = IF state # "kDisconnected" /\ peer = "reset" THEN "dead" ELSE peer
             /\ UNCHANGED <<state, chan, data, shut, functors, base, downs>>
    BY <1>1, <2>1, EffectsStay DEF EffTypes, Peers
  <2> QED BY <1>3, <2>1 DEF SendInLoop
<1> HIDE DEF bytes
<1>4. ASSUME NEW rest \in Seq(Nat), Buffered(rest), state # "kDisconnected", ~shut \/ output # <<>>
      PROVE  /\ EffTypes /\ UNCHANGED <<state, shut, peer>> => 
                  want' \subseteq {"IN", "OUT"} /\ added' \in BOOLEAN /\ reading' \in BOOLEAN /\ output' \in Seq(Nat)
             /\ "OUT" \in want' <=> output' # <<>>
             /\ output' = output \o rest
  <2>1. output' = output \o rest
    BY <1>4 DEF Buffered
  <2>2. output \o rest \in Seq(Nat) /\ (output \o rest = <<>> <=> output = <<>> /\ rest = <<>>)
    BY <1>1, ConcatProperties, ConcatEqualIffEmpty
  <2>3. rest = <<>> => output \o rest = output
    BY <1>1, ConcatEmptySeq
  <2>4. "OUT" \in want <=> output # <<>>
    BY <1>1, <1>4 DEF Writing
  <2> QED BY <1>1, <1>4, <2>1, <2>2, <2>3, <2>4 DEF Buffered, SetWant, chan, EffTypes
<1>5. CASE state # "kDisconnected" /\ CanWriteDirectly /\ ~WriteFails
  <2>1. PICK n \in 0..len :
          /\ sent' = sent \o SubSeq(bytes, 1, n)
          /\ Buffered(SubSeq(bytes, n + 1, len))
    BY <1>5 DEF SendInLoop, bytes
  <2> DEFINE p == SubSeq(bytes, 1, n)
             r == SubSeq(bytes, n + 1, len)
  <2>2. p \in Seq(Nat) /\ r \in Seq(Nat) /\ p \o r = bytes
    BY <1>2, CutInTwo
  <2>3. output = <<>> /\ ~shut
    BY <1>5 DEF CanWriteDirectly, WriteFails
  <2>4. sent' = sent \o p /\ Buffered(r)
    BY <2>1
  <2> HIDE DEF p, r
  <2>5. /\ accepted' = accepted + len /\ UNCHANGED <<state, shut, peer>>
    BY <1>5 DEF SendInLoop
  <2>6. output' = output \o r
    BY <1>4, <1>5, <2>2, <2>3, <2>4
  <2>7. sent' \in Seq(Nat) /\ sent' \o output' = [i \in 1..accepted' |-> i]
    <3>1. output' = r /\ sent \o output = sent
      BY <1>1, <2>2, <2>3, <2>6, ConcatEmptySeq
    <3>2. (sent \o p) \o r = sent \o bytes
      <4>1. (sent \o p) \o r = sent \o (p \o r)
        BY <1>1, <2>2, Concat3, Zenon
      <4> QED BY <2>2, <4>1
    <3>3. sent \o p \in Seq(Nat)
      BY <1>1, <2>2, ConcatProperties
    <3> QED BY <1>2, <2>4, <2>5, <3>1, <3>2, <3>3
  <2>8. /\ want' \subseteq {"IN", "OUT"} /\ added' \in BOOLEAN /\ reading' \in BOOLEAN /\ output' \in Seq(Nat)
        /\ "OUT" \in want' <=> output' # <<>>
    BY <1>1, <1>4, <1>5, <2>2, <2>3, <2>4, <2>5
  <2> QED BY <1>1, <1>5, <2>3, <2>5, <2>7, <2>8 DEF Effects, EffTypes, Writing, BytesInOrder
<1>6. CASE state # "kDisconnected" /\ ~CanWriteDirectly
  <2>1. /\ Buffered(bytes) /\ accepted' = accepted + len
        /\ UNCHANGED <<sent, state, shut, peer>>
    BY <1>6 DEF SendInLoop, bytes
  <2>2. output # <<>> /\ ~shut
    BY <1>1, <1>6 DEF CanWriteDirectly, Writing, BytesInOrder
  <2>3. output' = output \o bytes
    BY <1>2, <1>4, <1>6, <2>1, <2>2
  <2>4. sent' \o output' = [i \in 1..accepted' |-> i]
    <3>1. sent \in Seq(Nat) /\ output \in Seq(Nat) /\ bytes \in Seq(Nat)
      BY <1>1, <1>2
    <3>2. (sent \o output) \o bytes = sent \o (output \o bytes)
      BY <3>1, Concat3, Zenon
    <3> QED BY <1>2, <2>1, <2>3, <3>2
  <2>5. /\ want' \subseteq {"IN", "OUT"} /\ added' \in BOOLEAN /\ reading' \in BOOLEAN /\ output' \in Seq(Nat)
        /\ "OUT" \in want' <=> output' # <<>>
    BY <1>1, <1>2, <1>4, <1>6, <2>1, <2>2
  <2> QED BY <1>1, <1>6, <2>1, <2>2, <2>4, <2>5 DEF Effects, EffTypes, Writing, BytesInOrder
<1> QED BY <1>3, <1>5, <1>6

\* handleWrite() writes from the front of outputBuffer_, and shuts down only
\* when it is empty.
LEMMA Writes ==
  ASSUME Effects, HandleWrite, state # "kConnecting"
  PROVE  Effects'
<1>1. /\ EffTypes /\ Writing /\ BytesInOrder
      /\ output \in Seq(Nat) /\ sent \in Seq(Nat) /\ Len(output) \in Nat
  BY LenProperties DEF Effects, EffTypes
<1>2. CASE NoEffect
  BY <1>1, <1>2, EffectsStay DEF NoEffect, eff, EffTypes
<1>3. CASE "OUT" \in want /\ ~WriteFails
  <2>1. PICK n \in 1..Len(output) :
          LET rest == SubSeq(output, n + 1, Len(output))
          IN  /\ sent' = sent \o SubSeq(output, 1, n)
              /\ output' = rest
              /\ SetWant(IF rest = <<>> THEN want \ {"OUT"} ELSE want)
              /\ shut' = ShutAfter(rest)
    BY <1>3 DEF HandleWrite
  <2> DEFINE p == SubSeq(output, 1, n)
             r == SubSeq(output, n + 1, Len(output))
  <2>2. p \in Seq(Nat) /\ r \in Seq(Nat) /\ p \o r = output
    BY <1>1, CutInTwo
  <2>3. /\ sent' = sent \o p /\ output' = r
        /\ SetWant(IF r = <<>> THEN want \ {"OUT"} ELSE want)
        /\ shut' = ShutAfter(r)
    BY <2>1
  <2> HIDE DEF p, r
  <2>4. UNCHANGED <<accepted, state, peer>>
    BY <1>3 DEF HandleWrite
  <2>5. sent' \in Seq(Nat) /\ sent' \o output' = [i \in 1..accepted' |-> i]
    <3>1. (sent \o p) \o r = sent \o output
      <4>1. (sent \o p) \o r = sent \o (p \o r)
        BY <1>1, <2>2, Concat3, Zenon
      <4> QED BY <2>2, <4>1
    <3>2. sent \o p \in Seq(Nat)
      BY <1>1, <2>2, ConcatProperties
    <3> QED BY <1>1, <2>3, <2>4, <3>1, <3>2 DEF BytesInOrder
  <2>6. /\ want' = IF r = <<>> THEN want \ {"OUT"} ELSE want
        /\ added' = TRUE /\ reading' = reading
        /\ shut' = (shut \/ (r = <<>> /\ state = "kDisconnecting"))
        /\ ~shut /\ state # "kDisconnected"
    BY <1>1, <1>3, <2>3 DEF SetWant, ShutAfter, WriteFails, Writing
  <2> QED BY <1>1, <1>3, <2>2, <2>3, <2>4, <2>5, <2>6 DEF Effects, EffTypes, Writing, BytesInOrder
<1> QED BY <1>2, <1>3 DEF HandleWrite

-----------------------------------------------------------------------------
(* The queue of functors.                                                  *)

\* A step that neither queues nor runs a functor.
LEMMA QueueStays ==
  ASSUME Connecting, state # "kConnecting", state' # "kConnecting",
         UNCHANGED <<functors, batch, next>>
  PROVE  Connecting'
BY DEF Connecting, Pending

\* Functors other than connectEstablished() may be queued when it has run.
LEMMA QueueGrows ==
  ASSUME LoopTypes, Connecting, state # "kConnecting", state' # "kConnecting",
         NEW f \in Functor, f.op # "connectEstablished",
         functors' = Append(functors, f), UNCHANGED <<batch, next>>
  PROVE  Connecting' /\ functors' \in Seq(Functor)
<1>1. functors \in Seq(Functor)
  BY DEF LoopTypes
<1>2. /\ functors' \in Seq(Functor)
      /\ \A i \in DOMAIN functors' : functors'[i] = f \/ (i \in DOMAIN functors /\ functors'[i] = functors[i])
  <2>1. \A q \in Seq(Functor) : Append(q, f) \in Seq(Functor)
          /\ \A i \in DOMAIN Append(q, f) : Append(q, f)[i] = f \/ (i \in DOMAIN q /\ Append(q, f)[i] = q[i])
    OBVIOUS
  <2> QED BY <1>1, <2>1
<1> QED BY <1>2 DEF Connecting, Pending

\* A functor that runs was waiting; while the connection is not established it
\* is connectEstablished(), the only one.
LEMMA RunDoes ==
  ASSUME LoopTypes, Connecting, NEW op, Run(op)
  PROVE  /\ batch[next] \in Functor /\ batch[next].op = op
         /\ next' \in 1..(Len(batch') + 1) /\ next' = next + 1
         /\ UNCHANGED <<batch, loopPc, revents, delayed, inMap, pc, sends>>
         /\ loopPc = "functors"
         /\ state = "kConnecting" => op = "connectEstablished" /\ functors = <<>> /\ next' > Len(batch)
         /\ state # "kConnecting" => op # "connectEstablished"
<1>1. /\ batch \in Seq(Functor) /\ next \in 1..(Len(batch) + 1) /\ Len(batch) \in Nat
      /\ next <= Len(batch) /\ batch[next].op = op /\ next' = next + 1
      /\ UNCHANGED <<batch, loopPc, revents, delayed, inMap, pc, sends>>
      /\ loopPc = "functors"
  BY DEF LoopTypes, Run
<1>2. next \in 1..Len(batch) /\ next \in next..Len(batch)
  BY <1>1
<1>3. batch[next] \in Functor
  BY <1>1, <1>2
<1>4. next' \in 1..(Len(batch') + 1)
  BY <1>1, <1>2
<1>5. ASSUME state = "kConnecting"
      PROVE  op = "connectEstablished" /\ functors = <<>> /\ next' > Len(batch)
  <2>1. batch = <<Established>> /\ functors = <<>> /\ next = 1
    BY <1>1, <1>5 DEF Connecting
  <2> QED BY <1>1, <2>1 DEF Established, Call
<1>6. state # "kConnecting" => op # "connectEstablished"
  BY <1>1, <1>2 DEF Connecting, Pending
<1> QED BY <1>1, <1>3, <1>4, <1>5, <1>6

LEMMA QueueRuns ==
  ASSUME LoopTypes, Connecting, NEW op, Run(op), state # "kConnecting", state' # "kConnecting",
         functors' = functors
  PROVE  Connecting'
<1>1. batch' = batch /\ next' = next + 1 /\ next \in Nat
  BY RunDoes DEF LoopTypes
<1>2. \A i \in next'..Len(batch') : i \in next..Len(batch)
  BY <1>1 DEF LoopTypes
<1> QED BY <1>1, <1>2 DEF Connecting, Pending

-----------------------------------------------------------------------------
(* The invariant.                                                          *)

\* newConnection() leaves one functor and no data.
LEMMA Initially == Init => IInv /\ ClosedOnce
<1> SUFFICES ASSUME Init PROVE IInv /\ ClosedOnce
  OBVIOUS
<1> USE DEF Init
<1>1. Established \in Functor /\ NoCall \in UserCall /\ Established.op = "connectEstablished"
  BY DEF Established, NoCall, Call, Functor, UserCall, Strong
<1>2. functors = <<Established>>
  BY DEF Established
<1>3. EffTypes /\ Writing
  <2>1. <<>> \in Seq(Nat)
    OBVIOUS
  <2> QED BY <2>1 DEF EffTypes, Writing, States, Peers
<1>4. BytesInOrder
  <2>1. sent \o output = <<>> /\ [i \in 1..accepted |-> i] = <<>>
    OBVIOUS
  <2> QED BY <2>1 DEF BytesInOrder
<1>5. LoopTypes
  <2>1. functors \in Seq(Functor) /\ batch \in Seq(Functor) /\ next \in 1..(Len(batch) + 1)
    <3> HIDE DEF Established
    <3> QED BY <1>1, <1>2
  <2>2. sends \in 0..MaxSends
    BY SizesAssumption
  <2> QED BY <1>1, <2>1, <2>2 DEF LoopTypes
<1>6. Connecting
  BY <1>2 DEF Connecting
<1> QED BY <1>3, <1>4, <1>5, <1>6 DEF IInv, Effects, ClosedOnce

\* Before connectEstablished() has run only the loop and the other end do
\* anything, and that does not reach the connection.
LEMMA NotConnecting ==
  ASSUME IInv,
         \/ HangUp \/ HandleError \/ HandleRead \/ HandleWrite \/ DelayExpires
         \/ RunConnectDestroyed \/ RunFunctor \/ LoopCode \/ RemoveConnectionInLoop
         \/ \E u \in Users : UserStep(u)
  PROVE  state # "kConnecting"
<1> SUFFICES ASSUME state = "kConnecting" PROVE FALSE
  OBVIOUS
<1>1. /\ revents = {} /\ delayed = "none" /\ base = 0 /\ LoopTypes /\ Connecting
      /\ \A u \in Users : ~holds[u] /\ pc[u] = NoCall
  BY DEF IInv, Connecting
<1>2. NoCall.op = "none"
  BY DEF NoCall, Call
<1>3. CASE HangUp \/ HandleError \/ HandleRead \/ HandleWrite
  BY <1>1, <1>3 DEF HangUp, HandleError, HandleRead, HandleWrite, Handle
<1>4. CASE DelayExpires
  BY <1>1, <1>4 DEF DelayExpires
<1>5. CASE RunConnectDestroyed \/ RunFunctor
  <2>1. PICK op \in {"connectDestroyed", "sendInLoop", "shutdownInLoop", "forceCloseInLoop"} : Run(op)
    BY <1>5 DEF RunConnectDestroyed, RunFunctor
  <2>2. op = "connectEstablished"
    BY <1>1, <2>1, RunDoes
  <2> QED BY <2>2
<1>6. CASE LoopCode
  BY <1>6 DEF LoopCode, LoopSend, LoopShutdown, LoopForceClose, LoopForceCloseWithDelay, LoopRead, OnLoop
<1>7. CASE RemoveConnectionInLoop
  BY <1>1, <1>7 DEF RemoveConnectionInLoop
<1>8. ASSUME NEW u \in Users, UserStep(u)
      PROVE  FALSE
  BY <1>1, <1>2, <1>8 DEF UserStep, UserTest, UserSend, UserClose, UserGivesUp, UserDrops
<1> QED BY <1>3, <1>4, <1>5, <1>6, <1>7, <1>8

\* Every step of the loop that is not application code.
LEMMA LoopKeeps ==
  ASSUME IInv, LoopStep
  PROVE  IInv'
<1>1. /\ Effects /\ EffTypes /\ Writing /\ LoopTypes /\ Connecting
      /\ functors \in Seq(Functor) /\ batch \in Seq(Functor)
      /\ next \in 1..(Len(batch) + 1) /\ peer \in Peers
  BY DEF IInv, Effects, EffTypes, LoopTypes
<1>2. CASE Poll
  <2>1. /\ next > Len(batch) /\ loopPc' = "events" /\ batch' = <<>> /\ next' = 1
        /\ delayed' \in {delayed} \cup IF delayed = "set" THEN {"due"} ELSE {}
        /\ UNCHANGED <<state, chan, data, shut, peer, functors, base, downs, inMap, usr>>
    BY <1>2 DEF Poll, eff
  <2>2. PICK more \in SUBSET (IF added THEN want ELSE {}) :
          revents' = IF "IN" \in Ready \cup more THEN (Ready \cup more) \ {"HUP"} ELSE Ready \cup more
    BY <1>2 DEF Poll
  <2>3. revents' \subseteq {"HUP", "ERR", "IN", "OUT"} /\ (state = "kConnecting" => revents' = {})
    BY <1>1, <2>2 DEF Ready, EffTypes, Writing
  <2>4. Effects'
    BY <1>1, <2>1, EffectsStay
  <2>5. LoopTypes'
    BY <1>1, <2>1, <2>3 DEF LoopTypes, usr
  <2>6. Connecting'
    <3>1. CASE state = "kConnecting"
      <4>1. functors = <<Established>> /\ delayed = "none" /\ base = 0
            /\ \A u \in Users : ~holds[u] /\ pc[u] = NoCall
        <5>1. Len(<<Established>>) = 1
          OBVIOUS
        <5>2. next = 1 /\ next > Len(batch)
          BY <1>1, <2>1, <3>1 DEF Connecting
        <5>3. batch # <<Established>>
          <6>1. SUFFICES ASSUME batch = <<Established>> PROVE FALSE
            OBVIOUS
          <6>2. Len(batch) = 1
            BY <5>1, <6>1, Zenon
          <6> QED BY <5>2, <6>2
        <5> QED BY <1>1, <3>1, <5>3 DEF Connecting
      <4> QED BY <2>1, <2>3, <3>1, <4>1 DEF Connecting, usr, Established, Call
    <3>2. CASE state # "kConnecting"
      BY <1>1, <2>1, <3>2 DEF Connecting, Pending
    <3> QED BY <3>1, <3>2
  <2> QED BY <2>4, <2>5, <2>6 DEF IInv
<1>3. CASE EndEvents
  <2>1. /\ revents = {} /\ loopPc' = "functors" /\ batch' = functors /\ functors' = <<>> /\ next' = 1
        /\ UNCHANGED <<state, chan, data, shut, peer, base, downs, revents, delayed, inMap, usr>>
    BY <1>3 DEF EndEvents
  <2>0. loopPc = "events"
    BY <1>3 DEF EndEvents
  <2>2. Effects'
    BY <1>1, <2>1, EffectsStay
  <2>3. LoopTypes'
    <3>1. Len(batch') \in Nat
      BY <1>1, <2>1
    <3>2. functors' \in Seq(Functor) /\ batch' \in Seq(Functor) /\ next' \in 1..(Len(batch') + 1)
      BY <1>1, <2>1, <3>1
    <3> QED BY <1>1, <2>1, <3>2 DEF LoopTypes, usr
  <2>4. Connecting'
    <3>1. CASE state = "kConnecting"
      <4>1. functors = <<Established>> /\ delayed = "none" /\ base = 0
            /\ \A u \in Users : ~holds[u] /\ pc[u] = NoCall
        BY <1>1, <2>0, <3>1 DEF Connecting
      <4> QED BY <2>1, <3>1, <4>1 DEF Connecting, usr, Established, Call
    <3>2. CASE state # "kConnecting"
      BY <1>1, <2>1, <3>2 DEF Connecting, Pending
    <3> QED BY <3>1, <3>2
  <2> QED BY <2>2, <2>3, <2>4 DEF IInv
<1>4. ASSUME state # "kConnecting", state' # "kConnecting", Effects',
             UNCHANGED <<functors, batch, next, loopPc, inMap, usr>>,
             revents' \subseteq revents, delayed' \in {"none", delayed}
      PROVE  IInv'
  <2>1. LoopTypes'
    BY <1>1, <1>4 DEF LoopTypes, usr
  <2>2. Connecting'
    BY <1>1, <1>4, QueueStays
  <2> QED BY <1>4, <2>1, <2>2 DEF IInv
<1>5. CASE HangUp \/ HandleError \/ HandleRead \/ HandleWrite
  <2>1. /\ state # "kConnecting" /\ revents' \subseteq revents
        /\ UNCHANGED <<batch, next, loopPc, delayed, inMap, usr>>
    BY <1>5, NotConnecting DEF HangUp, HandleError, HandleRead, HandleWrite, Handle
  <2>2. functors' = functors /\ state' # "kConnecting"
    BY <1>5, <2>1 DEF HangUp, HandleError, HandleRead, HandleWrite, HandleClose, NoEffect, eff
  <2>3. Effects'
    <3>1. CASE HandleWrite
      BY <1>1, <2>1, <3>1, Writes
    <3>2. CASE HandleClose
      BY <1>1, <3>2, Closes
    <3>3. CASE UNCHANGED <<state, chan, data, shut>> /\ peer' \in Peers
      BY <1>1, <3>3, EffectsStay
    <3> QED BY <1>1, <1>5, <3>1, <3>2, <3>3
            DEF HangUp, HandleError, HandleRead, NoEffect, eff, Peers
  <2> QED BY <1>4, <2>1, <2>2, <2>3
<1>6. CASE DelayExpires
  <2>1. /\ state # "kConnecting" /\ delayed' = "none"
        /\ UNCHANGED <<batch, next, loopPc, revents, inMap, usr>>
    BY <1>6, NotConnecting DEF DelayExpires, loop
  <2>2. functors' = functors /\ state' # "kConnecting" /\ Effects'
    <3>1. CASE HandleClose
      BY <1>1, <3>1, Closes DEF HandleClose
    <3>2. CASE NoEffect
      BY <1>1, <2>1, <3>2, EffectsStay DEF NoEffect, eff
    <3> QED BY <1>6, <3>1, <3>2 DEF DelayExpires, ForceCloseInLoop
  <2> QED BY <1>4, <2>1, <2>2
<1>7. CASE RunConnectEstablished
  <2>1. Run("connectEstablished") /\ ConnectEstablished /\ holds' = [u \in Users |-> TRUE]
    BY <1>7 DEF RunConnectEstablished
  <2>2. /\ next' \in 1..(Len(batch') + 1)
        /\ UNCHANGED <<batch, loopPc, revents, delayed, inMap, pc, sends>>
        /\ state = "kConnecting" /\ functors = <<>> /\ next' > Len(batch)
    BY <1>1, <2>1, RunDoes
  <2>3. Effects' /\ functors' = functors /\ state' = "kConnected"
    BY <1>1, <2>1, <2>2, Establishes DEF ConnectEstablished
  <2>4. LoopTypes'
    BY <1>1, <2>1, <2>2, <2>3 DEF LoopTypes
  <2>5. Connecting'
    <3>1. next'..Len(batch') = {}
      BY <1>1, <2>2
    <3> QED BY <2>2, <2>3, <3>1 DEF Connecting, Pending
  <2> QED BY <2>3, <2>4, <2>5 DEF IInv
<1>8. CASE RunConnectDestroyed \/ RunFunctor
  <2>1. state # "kConnecting" /\ holds' = holds
    BY <1>8, NotConnecting DEF RunConnectDestroyed, RunFunctor
  <2>2. PICK op : Run(op)
    BY <1>8 DEF RunConnectDestroyed, RunFunctor
  <2>3. /\ next' \in 1..(Len(batch') + 1) /\ batch[next] \in Functor
        /\ UNCHANGED <<batch, loopPc, revents, delayed, inMap, pc, sends>>
    BY <1>1, <2>2, RunDoes
  <2>4. Effects' /\ functors' = functors /\ state' # "kConnecting"
    <3>1. CASE ConnectDestroyed
      BY <1>1, <2>1, <3>1, Destroys DEF ConnectDestroyed
    <3>2. CASE SendInLoop(batch[next].len)
      <4>1. batch[next].len \in Nat
        <5>1. batch[next].len \in Lengths \cup {0}
          BY <2>3 DEF Functor
        <5>2. \A n \in Lengths \cup {0} : n \in Nat
          BY SizesAssumption
        <5> QED BY <5>1, <5>2
      <4> QED BY <1>1, <2>1, <3>2, <4>1, Sends DEF SendInLoop
    <3>3. CASE ShutdownInLoop
      BY <1>1, <2>1, <3>3, Shuts DEF ShutdownInLoop
    <3>4. CASE ForceCloseInLoop
      <4>1. CASE HandleClose
        BY <1>1, <4>1, Closes DEF HandleClose
      <4>2. CASE NoEffect
        BY <1>1, <2>1, <4>2, EffectsStay DEF NoEffect, eff
      <4> QED BY <3>4, <4>1, <4>2 DEF ForceCloseInLoop
    <3> QED BY <1>8, <3>1, <3>2, <3>3, <3>4 DEF RunConnectDestroyed, RunFunctor
  <2>5. LoopTypes'
    BY <1>1, <2>1, <2>3, <2>4 DEF LoopTypes
  <2>6. Connecting'
    BY <1>1, <2>1, <2>2, <2>4, QueueRuns
  <2> QED BY <2>4, <2>5, <2>6 DEF IInv
<1> QED BY <1>2, <1>3, <1>5, <1>6, <1>7, <1>8 DEF LoopStep

\* Every call of application code on the loop's thread.
LEMMA LoopCodeKeeps ==
  ASSUME Careful, IInv, LoopCode
  PROVE  IInv'
<1>1. /\ Effects /\ EffTypes /\ LoopTypes /\ Connecting /\ state # "kConnecting"
  BY NotConnecting DEF IInv, Effects
<1>2. ASSUME Effects', UNCHANGED <<functors, loop, inMap, holds, pc>>,
             delayed' \in {delayed, "set"}, sends' \in 0..MaxSends, state' # "kConnecting"
      PROVE  IInv'
  <2>1. LoopTypes'
    BY <1>1, <1>2 DEF LoopTypes, loop
  <2>2. Connecting'
    BY <1>1, <1>2, QueueStays DEF loop
  <2> QED BY <1>2, <2>1, <2>2 DEF IInv
<1>3. ASSUME NEW len \in Lengths, LoopSend(len)
      PROVE  IInv'
  <2>1. len \in Nat /\ SendInLoop(len) /\ sends' \in 0..MaxSends
        /\ UNCHANGED <<loop, delayed, inMap, holds, pc>>
    BY <1>1, <1>3, SizesAssumption DEF LoopSend, LoopTypes
  <2>2. Effects'
    BY <1>1, <2>1, Sends
  <2>3. functors' = functors /\ state' = state
    BY <2>1 DEF SendInLoop
  <2> QED BY <1>1, <1>2, <2>1, <2>2, <2>3
<1>4. CASE LoopShutdown
  <2>1. /\ Open /\ state' = "kDisconnecting" /\ shut' = ShutUnlessWriting
        /\ UNCHANGED <<chan, data, peer, functors, loop, delayed, inMap, holds, pc, sends>>
    BY <1>4 DEF LoopShutdown, Open, usr
  <2>2. Effects'
    BY <1>1, <2>1, StateSet
  <2> QED BY <1>1, <1>2, <2>1, <2>2 DEF LoopTypes
<1>5. CASE LoopForceClose
  <2> DEFINE f == Call("forceCloseInLoop", 0)
  <2>1. /\ Open /\ state' = "kDisconnecting" /\ functors' = Append(functors, f)
        /\ UNCHANGED <<chan, data, shut, peer, loop, delayed, inMap, usr>>
    BY <1>5 DEF LoopForceClose
  <2>2. f \in Functor /\ f.op # "connectEstablished"
    BY DEF Call, Functor, Strong
  <2> HIDE DEF f
  <2>3. Effects'
    BY <1>1, <2>1, StateSet
  <2>4. Connecting' /\ functors' \in Seq(Functor)
    BY <1>1, <2>1, <2>2, QueueGrows DEF loop
  <2>5. LoopTypes'
    BY <1>1, <2>1, <2>4 DEF LoopTypes, loop, usr
  <2> QED BY <2>3, <2>4, <2>5 DEF IInv
<1>6. CASE LoopForceCloseWithDelay
  <2>1. /\ Open /\ state' = "kDisconnecting" /\ delayed' = "set"
        /\ UNCHANGED <<chan, data, shut, peer, functors, loop, inMap, holds, pc, sends>>
    BY <1>6 DEF LoopForceCloseWithDelay, usr
  <2>2. Effects'
    BY <1>1, <2>1, StateSet
  <2> QED BY <1>1, <1>2, <2>1, <2>2 DEF LoopTypes
<1>7. CASE LoopRead
  <2>1. /\ Open /\ (StartReadInLoop \/ StopReadInLoop)
        /\ UNCHANGED <<loop, delayed, inMap, holds, pc, sends>>
    BY <1>7 DEF LoopRead, usr
  <2>2. Effects'
    BY <1>1, <2>1, Reads
  <2>3. functors' = functors /\ state' = state
    BY <2>1 DEF StartReadInLoop, StopReadInLoop
  <2> QED BY <1>1, <1>2, <2>1, <2>2, <2>3 DEF LoopTypes
<1> QED BY <1>3, <1>4, <1>5, <1>6, <1>7 DEF LoopCode

\* Every call of another thread.
LEMMA UserKeeps ==
  ASSUME Careful, IInv, NEW u \in Users, UserStep(u)
  PROVE  IInv'
<1>1. /\ Effects /\ EffTypes /\ LoopTypes /\ Connecting /\ state # "kConnecting"
  BY NotConnecting DEF IInv, Effects
<1>2. ASSUME UNCHANGED <<eff, loop, delayed, inMap>>,
             holds' \in [Users -> BOOLEAN], pc' \in [Users -> UserCall], sends' \in 0..MaxSends
      PROVE  IInv'
  <2>1. Effects' /\ LoopTypes'
    BY <1>1, <1>2, EffectsStay DEF LoopTypes, EffTypes, loop, eff
  <2>2. Connecting'
    BY <1>1, <1>2, QueueStays DEF loop, eff
  <2> QED BY <2>1, <2>2 DEF IInv
<1>3. NoCall \in UserCall
  BY DEF NoCall, Call, UserCall
<1>4. ASSUME NEW call \in UserCall, UserTest(u, call)
      PROVE  IInv'
  BY <1>1, <1>2, <1>4, SizesAssumption DEF UserTest, LoopTypes
<1>5. CASE UserGivesUp(u) \/ UserDrops(u)
  <2>1. UNCHANGED <<eff, loop, delayed, inMap>> /\ sends' \in 0..MaxSends
    BY <1>1, <1>5 DEF UserGivesUp, UserDrops, LoopTypes
  <2>2. holds' \in [Users -> BOOLEAN] /\ pc' \in [Users -> UserCall]
    BY <1>1, <1>3, <1>5 DEF UserGivesUp, UserDrops, LoopTypes
  <2> QED BY <1>2, <2>1, <2>2
<1>6. ASSUME NEW f \in Functor, f.op # "connectEstablished", functors' = Append(functors, f),
             state' \in {state, "kDisconnecting"}, state' = state \/ Open,
             pc' = [pc EXCEPT ![u] = NoCall],
             UNCHANGED <<chan, data, shut, peer, loop, delayed, inMap, holds, sends>>
      PROVE  IInv'
  <2>1. Effects'
    <3>1. CASE state' = state
      BY <1>1, <1>6, <3>1, EffectsStay DEF EffTypes
    <3>2. CASE state' # state
      BY <1>1, <1>6, <3>2, StateSet
    <3> QED BY <3>1, <3>2
  <2>2. Connecting' /\ functors' \in Seq(Functor)
    BY <1>1, <1>6, QueueGrows DEF loop
  <2>3. pc' \in [Users -> UserCall]
    BY <1>1, <1>3, <1>6 DEF LoopTypes
  <2>4. LoopTypes'
    BY <1>1, <1>6, <2>2, <2>3 DEF LoopTypes, loop
  <2> QED BY <2>1, <2>2, <2>4 DEF IInv
<1>7. pc[u] \in UserCall
  BY <1>1 DEF LoopTypes
<1>8. CASE UserSend(u)
  <2> DEFINE f == Call("sendInLoop", pc[u].len)
  <2>1. f \in Functor /\ f.op # "connectEstablished"
    BY <1>7 DEF Call, Functor, Bare, UserCall
  <2>2. /\ functors' = Append(functors, f) /\ pc' = [pc EXCEPT ![u] = NoCall]
        /\ UNCHANGED <<state, chan, data, shut, peer, loop, delayed, inMap, holds, sends>>
    BY <1>8 DEF UserSend
  <2> HIDE DEF f
  <2> QED BY <1>6, <2>1, <2>2
<1>9. CASE UserClose(u)
  <2> DEFINE f == Call(IF pc[u].op = "shutdown" THEN "shutdownInLoop" ELSE "forceCloseInLoop", 0)
  <2>1. f \in Functor /\ f.op # "connectEstablished"
    BY DEF Call, Functor, Bare, Strong
  <2>2. /\ functors' = Append(functors, f) /\ pc' = [pc EXCEPT ![u] = NoCall]
        /\ state # "kDisconnected" /\ state' = "kDisconnecting"
        /\ UNCHANGED <<chan, data, shut, peer, loop, delayed, inMap, holds, sends>>
    BY <1>9 DEF UserClose
  <2>3. Open
    BY <1>1, <2>2 DEF EffTypes, States, Open
  <2> HIDE DEF f
  <2> QED BY <1>6, <2>1, <2>2, <2>3
<1>10. /\ \A len \in Lengths : Call("send", len) \in UserCall
       /\ \A op \in {"shutdown", "forceClose"} : Call(op, 0) \in UserCall
  BY DEF Call, UserCall
<1> QED BY <1>4, <1>5, <1>8, <1>9, <1>10 DEF UserStep

\* With them every step of the system keeps the invariant.
LEMMA Inductive ==
  ASSUME Careful
  PROVE  IInv /\ [Next]_vars => IInv'
<1> SUFFICES ASSUME IInv, [Next]_vars PROVE IInv'
  OBVIOUS
<1>1. Effects /\ EffTypes /\ LoopTypes /\ Connecting
  BY DEF IInv, Effects
<1>2. CASE RemoveConnectionInLoop
  <2> DEFINE f == Call("connectDestroyed", 0)
  <2>1. /\ functors' = Append(functors, f) /\ inMap' = FALSE
        /\ UNCHANGED <<state, chan, data, shut, peer, loop, delayed, usr>>
    BY <1>2 DEF RemoveConnectionInLoop
  <2>2. f \in Functor /\ f.op # "connectEstablished"
    BY DEF Call, Functor, Strong
  <2>3. state # "kConnecting"
    BY <1>2, NotConnecting
  <2> HIDE DEF f
  <2>4. Effects'
    BY <1>1, <2>1, EffectsStay DEF EffTypes
  <2>5. Connecting' /\ functors' \in Seq(Functor)
    BY <1>1, <2>1, <2>2, <2>3, QueueGrows DEF loop
  <2>6. LoopTypes'
    BY <1>1, <2>1, <2>5 DEF LoopTypes, loop, usr
  <2> QED BY <2>4, <2>5, <2>6 DEF IInv
<1>3. ASSUME peer' \in Peers, UNCHANGED <<state, chan, data, shut, functors, base, loop, delayed, inMap, usr>>
      PROVE  IInv'
  <2>1. Effects'
    BY <1>1, <1>3, EffectsStay
  <2>2. LoopTypes'
    BY <1>1, <1>3 DEF LoopTypes, loop, usr
  <2>3. Connecting'
    BY <1>1, <1>3 DEF Connecting, Pending, loop, usr
  <2> QED BY <2>1, <2>2, <2>3 DEF IInv
<1>4. ASSUME NEW how \in {"fin", "reset"}, PeerCloses(how)
      PROVE  IInv'
  BY <1>3, <1>4 DEF PeerCloses, Peers
<1>5. CASE UNCHANGED vars
  BY <1>1, <1>3, <1>5 DEF vars, eff, EffTypes
<1> QED BY <1>2, <1>4, <1>5, LoopKeeps, LoopCodeKeeps, UserKeeps DEF Next
-----------------------------------------------------------------------------
(* The end of the connection.                                              *)

\* What a step may do to it: an open connection is closed, or none.
ClosingStep == ClosedOnce' /\ (base' > base => Open)

\* A step that closes nothing: an open connection at most changes to
\* kDisconnecting.
LEMMA NothingClosed ==
  ASSUME ClosedOnce, state' = state \/ (state # "kDisconnected" /\ Open'),
         base' \in {0, base}, downs' = downs, revents' \subseteq revents,
         loopPc' = loopPc \/ revents' = {}
  PROVE  ClosingStep
BY DEF ClosedOnce, Open, ClosingStep

\* An open connection is closed when none of its events says once more that it
\* has ended.
LEMMA OneCloses ==
  ASSUME ClosedOnce, Open, HandleClose, revents' \subseteq revents \ {"HUP", "IN"},
         loopPc' = loopPc \/ revents' = {}
  PROVE  ClosingStep
<1>1. base = 0 /\ downs = 0
  BY DEF ClosedOnce, Open
<1>2. state' = "kDisconnected" /\ base' = 1 /\ downs' = 1
  BY <1>1 DEF HandleClose
<1> QED BY <1>2 DEF ClosedOnce, ClosingStep

\* What the loop's steps do to an open connection: hangup, the end of the
\* stream, the timer and forceCloseInLoop() close it once.
LEMMA LoopCloses ==
  ASSUME ~TimerFirst, IInv, ClosedOnce, LoopStep
  PROVE  ClosingStep
<1>1. Effects /\ EffTypes /\ Writing /\ Connecting /\ LoopTypes /\ state \in States
  BY DEF IInv, Effects, EffTypes
<1>2. CASE Poll
  <2>1. /\ loopPc' = "events" /\ UNCHANGED <<state, base, downs>>
    BY <1>2 DEF Poll, eff
  <2>2. PICK more \in SUBSET (IF added THEN want ELSE {}) :
          revents' = IF "IN" \in Ready \cup more THEN (Ready \cup more) \ {"HUP"} ELSE Ready \cup more
    BY <1>2 DEF Poll
  <2>3. /\ ~("HUP" \in revents' /\ "IN" \in revents')
        /\ "HUP" \in revents' \/ "IN" \in revents' => want # {}
    BY <2>2 DEF Ready
  <2>4. want # {} => Open
    BY <1>1 DEF Writing, Open, States
  <2> QED BY <2>1, <2>3, <2>4 DEF ClosedOnce, ClosingStep, Open
<1>3. CASE HangUp
  <2>1. /\ HandleClose /\ "HUP" \in revents /\ revents' = revents \ {"HUP"} /\ loopPc' = loopPc
    BY <1>3 DEF HangUp, Handle
  <2>2. Open /\ "IN" \notin revents
    BY <2>1 DEF ClosedOnce
  <2> QED BY <2>1, <2>2, OneCloses
<1>4. CASE HandleRead /\ HandleClose
  <2>1. /\ HandleClose /\ "IN" \in revents /\ revents' = revents \ {"IN"} /\ loopPc' = loopPc
    BY <1>4 DEF HandleRead, Handle
  <2>2. Open /\ "HUP" \notin revents
    BY <2>1 DEF ClosedOnce
  <2> QED BY <2>1, <2>2, OneCloses
<1>5. CASE HandleError \/ HandleWrite \/ (HandleRead /\ ~HandleClose)
  <2>1. UNCHANGED <<state, base, downs, loopPc>> /\ revents' \subseteq revents
    BY <1>5 DEF HandleError, HandleWrite, HandleRead, Handle, NoEffect, eff
  <2> QED BY <2>1, NothingClosed
<1>6. CASE EndEvents
  <2>1. UNCHANGED <<state, base, downs>> /\ revents = {} /\ revents' = {}
    BY <1>6 DEF EndEvents
  <2> QED BY <2>1, NothingClosed
<1>7. CASE DelayExpires
  <2>1. revents = {} /\ UNCHANGED <<revents, loopPc>> /\ ForceCloseInLoop
    BY <1>7 DEF DelayExpires, loop
  <2>2. CASE Open
    BY <2>1, <2>2, OneCloses DEF ForceCloseInLoop
  <2>3. CASE ~Open
    BY <2>1, <2>3, NothingClosed DEF ForceCloseInLoop, NoEffect, eff
  <2> QED BY <2>2, <2>3
<1>8. ASSUME NEW op, Run(op) PROVE revents = {} /\ UNCHANGED <<revents, loopPc>>
  BY <1>8 DEF Run, ClosedOnce
<1>9. CASE RunConnectEstablished
  <2>1. /\ revents = {} /\ UNCHANGED <<revents, loopPc>> /\ ConnectEstablished
        /\ Run("connectEstablished")
    BY <1>8, <1>9 DEF RunConnectEstablished
  <2>2. state' = "kConnected" /\ UNCHANGED <<base, downs>>
    BY <2>1 DEF ConnectEstablished
  <2>3. state = "kConnecting"
    BY <1>1, <2>1, RunDoes
  <2> QED BY <2>1, <2>2, <2>3, NothingClosed DEF Open
<1>10. CASE RunConnectDestroyed
  <2>1. revents = {} /\ UNCHANGED <<revents, loopPc>> /\ ConnectDestroyed
    BY <1>8, <1>10 DEF RunConnectDestroyed
  <2>2. CASE state = "kConnected"
    <3>1. base = 0 /\ downs = 0
      BY <2>2 DEF ClosedOnce
    <3>2. state' = "kDisconnected" /\ base' = 0 /\ downs' = 1
      BY <2>1, <2>2, <3>1 DEF ConnectDestroyed
    <3> QED BY <2>1, <3>1, <3>2 DEF ClosedOnce, ClosingStep
  <2>3. CASE state # "kConnected"
    BY <2>1, <2>3, NothingClosed DEF ConnectDestroyed
  <2> QED BY <2>2, <2>3
<1>11. CASE RunFunctor
  <2>1. revents = {} /\ UNCHANGED <<revents, loopPc>>
    BY <1>8, <1>11 DEF RunFunctor
  <2>2. CASE ForceCloseInLoop /\ Open
    BY <2>1, <2>2, OneCloses DEF ForceCloseInLoop
  <2>3. CASE ~(ForceCloseInLoop /\ Open)
    <3>1. UNCHANGED <<state, base, downs>>
      BY <1>11, <2>3 DEF RunFunctor, SendInLoop, ShutdownInLoop, ForceCloseInLoop, NoEffect, eff
    <3> QED BY <2>1, <3>1, NothingClosed
  <2> QED BY <2>2, <2>3
<1> QED BY <1>2, <1>3, <1>4, <1>5, <1>6, <1>7, <1>9, <1>10, <1>11 DEF LoopStep

\* And no other step closes it.
LEMMA ClosesOnce ==
  ASSUME Careful, ~TimerFirst
  PROVE  IInv /\ ClosedOnce /\ [Next]_vars => ClosingStep
<1> SUFFICES ASSUME IInv, ClosedOnce, [Next]_vars
             PROVE  ClosingStep
  OBVIOUS
<1>1. state \in States /\ base \in 0..1
  BY DEF ClosedOnce, IInv, Effects, EffTypes
<1>2. CASE LoopCode
  <2>1. /\ state' = state \/ (Open /\ state' = "kDisconnecting")
        /\ UNCHANGED <<base, downs, revents, loopPc>>
    BY <1>2 DEF LoopCode, LoopSend, LoopShutdown, LoopForceClose, LoopForceCloseWithDelay, LoopRead,
                SendInLoop, StartReadInLoop, StopReadInLoop, loop, Open
  <2> QED BY <2>1, NothingClosed DEF Open
<1>3. ASSUME NEW u \in Users, UserStep(u)
      PROVE  ClosingStep
  <2>1. /\ state' = state \/ (state # "kDisconnected" /\ state' = "kDisconnecting")
        /\ UNCHANGED <<base, downs, revents, loopPc>>
    BY <1>3 DEF UserStep, UserTest, UserSend, UserClose, UserGivesUp, UserDrops, eff, loop
  <2> QED BY <2>1, NothingClosed DEF Open
<1>4. CASE RemoveConnectionInLoop
  <2>1. base' = 0 /\ UNCHANGED <<state, downs, revents, loopPc>>
    BY <1>1, <1>4 DEF RemoveConnectionInLoop, loop
  <2> QED BY <2>1, NothingClosed
<1>5. ASSUME NEW how \in {"fin", "reset"}, PeerCloses(how)
      PROVE  ClosingStep
  BY <1>5, NothingClosed DEF PeerCloses, loop
<1>6. CASE UNCHANGED vars
  BY <1>6, NothingClosed DEF vars, eff, loop
<1> QED BY <1>2, <1>3, <1>4, <1>5, <1>6, LoopCloses DEF Next

-----------------------------------------------------------------------------
(* The theorems.                                                           *)

\* The invariant holds throughout, with timers before the events or after them.
THEOREM Invariance ==
  ASSUME Careful
  PROVE  Spec => []IInv
<1>1. Init => IInv
  BY Initially
<1>2. IInv /\ [Next]_vars => IInv'
  BY Inductive
<1> QED BY <1>1, <1>2, PTL DEF Spec

\* BytesInOrder: no message is written past the output that waits, by
\* sendInLoop() or handleWrite(), nothing of it is lost or doubled, and
\* shutdown() waits for it, for any messages and any partial writes.
THEOREM MessagesInOrder ==
  ASSUME Careful
  PROVE  Spec => []BytesInOrder
<1>1. IInv => BytesInOrder
  BY DEF IInv, Effects
<1> QED BY <1>1, Invariance, PTL

\* What closes the connection finds it open, and only once: a reported hangup
\* or end of the stream still has its turn before anything else closes it.
THEOREM ClosingOnce ==
  ASSUME Careful, ~TimerFirst
  PROVE  Spec => []ClosedOnce
<1>1. Init => ClosedOnce
  BY Initially
<1>2. IInv /\ ClosedOnce /\ [Next]_vars => ClosedOnce'
  BY ClosesOnce DEF ClosingStep
<1> QED BY <1>1, <1>2, Invariance, PTL DEF Spec

\* Every variable stays in its range; that the base loop is asked to remove the
\* connection at most once, and the application told once, is part of it.
THEOREM TypeCorrect ==
  ASSUME Careful, ~TimerFirst
  PROVE  Spec => []TypeOK
<1>1. IInv /\ ClosedOnce => TypeOK
  BY DEF IInv, Effects, EffTypes, LoopTypes, ClosedOnce, TypeOK
<1> QED BY <1>1, Invariance, ClosingOnce, PTL

\* CloseOnce: the assert of handleClose(), whichever of forceClose(), its
\* timer, the end of the stream and hangup comes first.
THEOREM RemovedOnce ==
  ASSUME Careful, ~TimerFirst
  PROVE  Spec => CloseOnce
<1>1. IInv /\ ClosedOnce /\ [Next]_vars => [base' > base => Open]_vars
  BY ClosesOnce DEF ClosingStep
<1> QED BY <1>1, Invariance, ClosingOnce, PTL DEF Spec, CloseOnce
=============================================================================
