-------------------------- MODULE TcpClient_proofs --------------------------
(***************************************************************************)
(* For a careful application, whatever calls come from other threads: no   *)
(* assert of TcpClient and Connector fails, and nothing is called that is  *)
(* gone.  Both follow from the invariant Attempts: there is at most one    *)
(* attempt to connect, and where it is (a queued functor, a timer, a       *)
(* channel, a connection) determines state_, channel_ and what is queued.  *)
(***************************************************************************)
EXTENDS TcpClient, TLAPS

-----------------------------------------------------------------------------
(* The inductive invariant.                                                *)

\* f is at most once in the sequence s.
AtMostOnce(s, f) == \A i, j \in DOMAIN s : s[i] = f /\ s[j] = f => i = j

\* f is at most once among the functors b, being run, and q, queued.
OnceIn(b, q, f) ==
    /\ AtMostOnce(b, f) /\ AtMostOnce(q, f)
    /\ ~(f \in ToSet(b) /\ f \in ToSet(q))

Once(f) == OnceIn(batch, functors, f)

Live == conn \in {"kConnecting", "kConnected", "kDisconnecting"}

\* One attempt, in one place.
Attempts ==
    /\ state = "kConnecting" <=> channel = "watching"
    /\ channel = "removed" <=> Pending("resetChannel")
    /\ Once("resetChannel") /\ Once("startInLoop")
    /\ Pending("startInLoop") =>
         state = "kDisconnected" /\ timers = 0 /\ ~Pending("resetChannel")
    /\ timers > 0 => state = "kDisconnected"
    /\ phase = "functors" /\ "resetChannel" \in ToSet(functors) =>
         state = "kDisconnected"

\* What poll() reported is still so when it is handled.
Reported ==
    /\ phase = "functors" => active = {}
    /\ phase = "events" => batch = <<>>
    /\ "timer" \in active => timers = 1 /\ channel = "none"
    /\ "connection" \in active =>
         state = "kConnected" /\ channel = "none" /\ handler = "none"
    /\ "connector" \in active => channel = "watching"
    /\ "keeper" \in active => keeper /\ channel = "none" /\ Settled

\* The connection belongs to the client that has it.
Connections ==
    /\ Live => state = "kConnected"
    /\ Live /\ closeCb = "client" => connection
    /\ handler # "none" => alive /\ state = "kConnected"
    /\ handler = "restart" => channel = "none" /\ ~Live
    /\ alive /\ connection => Live
    /\ conn = "kConnecting" <=> handler = "connectEstablished"

\* What a destroyed client leaves behind.
Destroyed ==
    /\ alive => closeCb = "client"
    /\ ~alive /\ Open => closeCb = "loop"
    /\ Pending("forceCloseInLoop") => ~alive
    /\ keeper => ~alive /\ ~connect /\ (state = "kConnecting" => Pending("stopInLoop"))
    /\ ~alive /\ ~keeper =>
         channel = "none" /\ Settled /\ (timers > 0 => ~connect)

IInv ==
    /\ TypeOK /\ AssertsHold
    /\ Attempts /\ Reported /\ Connections /\ Destroyed

-----------------------------------------------------------------------------
(* Queues of functors.                                                     *)

LEMMA AppendSet ==
  ASSUME NEW S, NEW q \in Seq(S), NEW e \in S
  PROVE  Append(q, e) \in Seq(S) /\ ToSet(Append(q, e)) = ToSet(q) \cup {e}
<1>1. Append(q, e) \in Seq(S)
  OBVIOUS
<1>2. DOMAIN Append(q, e) = 1..Len(q) + 1 /\ DOMAIN q = 1..Len(q) /\ Len(q) \in Nat
  OBVIOUS
<1>3. /\ \A i \in 1..Len(q) : Append(q, e)[i] = q[i]
      /\ Append(q, e)[Len(q) + 1] = e
  OBVIOUS
<1>4. \A x \in ToSet(Append(q, e)) : x \in ToSet(q) \cup {e}
  BY <1>2, <1>3 DEF ToSet
<1>5. \A x \in ToSet(q) \cup {e} : x \in ToSet(Append(q, e))
  BY <1>2, <1>3 DEF ToSet
<1> QED BY <1>1, <1>4, <1>5

LEMMA TailSet ==
  ASSUME NEW S, NEW b \in Seq(S), b # <<>>
  PROVE  /\ Tail(b) \in Seq(S) /\ Head(b) \in S
         /\ ToSet(b) = ToSet(Tail(b)) \cup {Head(b)}
<1>1. Tail(b) \in Seq(S) /\ Head(b) \in S
  OBVIOUS
<1>2. /\ DOMAIN b = 1..Len(b) /\ DOMAIN Tail(b) = 1..Len(b) - 1
      /\ Len(b) \in Nat /\ Len(b) >= 1
  OBVIOUS
<1>3. /\ \A i \in 1..Len(b) - 1 : Tail(b)[i] = b[i + 1]
      /\ Head(b) = b[1]
  OBVIOUS
<1>4. \A i \in 1..Len(b) : i = 1 \/ i - 1 \in 1..Len(b) - 1
  BY <1>2
<1>5. \A i \in 1..Len(b) - 1 : i + 1 \in 1..Len(b)
  BY <1>2
<1>6. \A x \in ToSet(b) : x \in ToSet(Tail(b)) \cup {Head(b)}
  <2> SUFFICES ASSUME NEW i \in 1..Len(b)
               PROVE  b[i] \in ToSet(Tail(b)) \cup {Head(b)}
    BY <1>2 DEF ToSet
  <2>1. CASE i = 1
    BY <2>1, <1>3
  <2>2. CASE i - 1 \in 1..Len(b) - 1
    <3>1. Tail(b)[i - 1] = b[(i - 1) + 1] /\ (i - 1) + 1 = i
      BY <2>2, <1>3
    <3> QED BY <3>1, <2>2, <1>2 DEF ToSet
  <2> QED BY <2>1, <2>2, <1>4
<1>7. \A x \in ToSet(Tail(b)) \cup {Head(b)} : x \in ToSet(b)
  BY <1>2, <1>3, <1>5 DEF ToSet
<1> QED BY <1>1, <1>6, <1>7

\* Queueing a functor that is nowhere leaves each one at most once.
LEMMA OnceAppend ==
  ASSUME NEW S, NEW b, NEW q \in Seq(S), NEW e \in S, NEW f,
         OnceIn(b, q, f), e = f => f \notin ToSet(b) /\ f \notin ToSet(q)
  PROVE  OnceIn(b, Append(q, e), f)
<1>1. ToSet(Append(q, e)) = ToSet(q) \cup {e}
  BY AppendSet
<1>2. DOMAIN Append(q, e) = 1..Len(q) + 1 /\ DOMAIN q = 1..Len(q) /\ Len(q) \in Nat
  OBVIOUS
<1>3. /\ \A i \in 1..Len(q) : Append(q, e)[i] = q[i]
      /\ Append(q, e)[Len(q) + 1] = e
  OBVIOUS
<1>4. \A i \in 1..Len(q) : q[i] \in ToSet(q)
  BY <1>2 DEF ToSet
<1>5. AtMostOnce(Append(q, e), f)
  <2> SUFFICES ASSUME NEW i \in 1..Len(q) + 1, NEW j \in 1..Len(q) + 1,
                      Append(q, e)[i] = f, Append(q, e)[j] = f
               PROVE  i = j
    BY <1>2 DEF AtMostOnce
  <2>1. CASE i \in 1..Len(q) /\ j \in 1..Len(q)
    BY <2>1, <1>2, <1>3 DEF OnceIn, AtMostOnce
  <2>2. CASE i = Len(q) + 1 \/ j = Len(q) + 1
    <3>1. e = f
      BY <2>2, <1>3
    <3> QED BY <3>1, <1>2, <1>3, <1>4
  <2> QED BY <2>1, <2>2, <1>2
<1> QED BY <1>1, <1>5 DEF OnceIn

\* Taking the first functor leaves each one at most once, and that one nowhere
\* if it was there once.
LEMMA OnceTail ==
  ASSUME NEW S, NEW b \in Seq(S), b # <<>>, NEW q, NEW f, OnceIn(b, q, f)
  PROVE  /\ OnceIn(Tail(b), q, f)
         /\ Head(b) = f => f \notin ToSet(Tail(b)) /\ f \notin ToSet(q)
<1>1. ToSet(b) = ToSet(Tail(b)) \cup {Head(b)}
  BY TailSet
<1>2. /\ DOMAIN b = 1..Len(b) /\ DOMAIN Tail(b) = 1..Len(b) - 1
      /\ Len(b) \in Nat /\ Len(b) >= 1
  OBVIOUS
<1>3. /\ \A i \in 1..Len(b) - 1 : Tail(b)[i] = b[i + 1] /\ i + 1 \in 1..Len(b)
      /\ Head(b) = b[1] /\ 1 \in 1..Len(b)
  BY <1>2
<1>4. AtMostOnce(Tail(b), f)
  <2> SUFFICES ASSUME NEW i \in 1..Len(b) - 1, NEW j \in 1..Len(b) - 1,
                      Tail(b)[i] = f, Tail(b)[j] = f
               PROVE  i = j
    BY <1>2 DEF AtMostOnce
  <2>1. b[i + 1] = f /\ b[j + 1] = f /\ i + 1 \in DOMAIN b /\ j + 1 \in DOMAIN b
    BY <1>2, <1>3
  <2>2. i + 1 = j + 1
    BY <2>1 DEF OnceIn, AtMostOnce
  <2> QED BY <2>2
<1>5. ASSUME Head(b) = f PROVE f \notin ToSet(Tail(b)) /\ f \notin ToSet(q)
  <2>1. f \notin ToSet(q)
    BY <1>1, <1>5 DEF OnceIn
  <2>2. ASSUME NEW i \in 1..Len(b) - 1, Tail(b)[i] = f PROVE FALSE
    <3>1. b[i + 1] = f /\ b[1] = f /\ i + 1 \in DOMAIN b /\ 1 \in DOMAIN b
      BY <1>2, <1>3, <1>5, <2>2
    <3>2. i + 1 = 1
      BY <3>1 DEF OnceIn, AtMostOnce
    <3> QED BY <3>2
  <2> QED BY <2>1, <2>2, <1>2 DEF ToSet
<1> QED BY <1>1, <1>4, <1>5 DEF OnceIn

LEMMA EmptySet == ToSet(<<>>) = {} /\ \A f : AtMostOnce(<<>>, f)
  BY DEF ToSet, AtMostOnce

-----------------------------------------------------------------------------
(* What the steps do to the loop's queues.                                 *)

LEMMA SameQueues ==
  ASSUME UNCHANGED <<functors, batch>>
  PROVE  /\ \A f : (Pending(f)' <=> Pending(f)) /\ (Once(f)' <=> Once(f))
         /\ (Settled' <=> Settled)
         /\ ToSet(functors)' = ToSet(functors)
  BY DEF Pending, Once, Settled

LEMMA Queued ==
  ASSUME TypeOK, NEW e \in Functors, Queue(e), UNCHANGED batch
  PROVE  /\ functors' \in Seq(Functors) /\ batch' \in Seq(Functors)
         /\ ToSet(functors)' = ToSet(functors) \cup {e}
         /\ \A f : Pending(f)' <=> Pending(f) \/ f = e
         /\ \A f : Once(f) /\ (f = e => ~Pending(f)) => Once(f)'
<1>1. functors \in Seq(Functors) /\ batch \in Seq(Functors)
  BY DEF TypeOK
<1>2. functors' = Append(functors, e) /\ batch' = batch
  BY DEF Queue
<1>3. functors' \in Seq(Functors) /\ ToSet(functors') = ToSet(functors) \cup {e}
  BY <1>1, <1>2, AppendSet
<1>4. ASSUME NEW f, Once(f), f = e => ~Pending(f) PROVE Once(f)'
  <2>1. OnceIn(batch, functors, f)
    BY <1>4 DEF Once
  <2>2. e = f => f \notin ToSet(batch) /\ f \notin ToSet(functors)
    BY <1>4 DEF Pending
  <2>3. OnceIn(batch, Append(functors, e), f)
    BY <1>1, <2>1, <2>2, OnceAppend
  <2> QED BY <1>2, <2>3 DEF Once
<1> QED BY <1>1, <1>2, <1>3, <1>4 DEF Pending

LEMMA Swapped ==
  ASSUME TypeOK, batch = <<>>, batch' = functors, functors' = <<>>
  PROVE  /\ functors' \in Seq(Functors) /\ batch' \in Seq(Functors)
         /\ ToSet(functors)' = {}
         /\ \A f : Pending(f)' <=> Pending(f)
         /\ \A f : Once(f) => Once(f)'
<1>1. functors' \in Seq(Functors) /\ batch' \in Seq(Functors)
  BY DEF TypeOK
<1>2. ToSet(functors)' = {} /\ ToSet(batch) = {} /\ ToSet(batch)' = ToSet(functors)
  BY EmptySet
<1>3. \A f : Pending(f)' <=> Pending(f)
  BY <1>2 DEF Pending
<1>4. \A f : OnceIn(<<>>, functors, f) => OnceIn(functors, <<>>, f)
  BY EmptySet DEF OnceIn
<1> QED BY <1>1, <1>2, <1>3, <1>4 DEF Once

LEMMA Taken ==
  ASSUME TypeOK, NEW e, Run(e), UNCHANGED functors
  PROVE  /\ functors' \in Seq(Functors) /\ batch' \in Seq(Functors)
         /\ Pending(e)
         /\ ToSet(functors)' = ToSet(functors)
         /\ \A f : Pending(f) <=> Pending(f)' \/ f = e
         /\ \A f : Once(f) => Once(f)'
         /\ Once(e) => ~Pending(e)'
<1>1. functors \in Seq(Functors) /\ batch \in Seq(Functors)
  BY DEF TypeOK
<1>2. batch # <<>> /\ Head(batch) = e /\ batch' = Tail(batch) /\ functors' = functors
  BY DEF Run
<1>3. batch' \in Seq(Functors) /\ ToSet(batch) = ToSet(batch') \cup {e}
  BY <1>1, <1>2, TailSet
<1>4. ASSUME NEW f, Once(f)
      PROVE  Once(f)' /\ (f = e => f \notin ToSet(batch') /\ f \notin ToSet(functors))
  <2>1. OnceIn(batch, functors, f)
    BY <1>4 DEF Once
  <2>2. /\ OnceIn(Tail(batch), functors, f)
        /\ Head(batch) = f => f \notin ToSet(Tail(batch)) /\ f \notin ToSet(functors)
    BY <1>1, <1>2, <2>1, OnceTail
  <2> QED BY <1>2, <2>2 DEF Once
<1> QED BY <1>1, <1>2, <1>3, <1>4 DEF Pending

LEMMA TakenAndQueued ==
  ASSUME TypeOK, NEW e, Run(e), NEW g \in Functors, Queue(g)
  PROVE  /\ functors' \in Seq(Functors) /\ batch' \in Seq(Functors)
         /\ ToSet(functors)' = ToSet(functors) \cup {g}
         /\ Pending(e)
         /\ \A f : f # e => (Pending(f)' <=> Pending(f) \/ f = g)
         /\ \A f : Once(f) /\ (f = g => ~Pending(f)) => Once(f)'
<1>1. functors \in Seq(Functors) /\ batch \in Seq(Functors)
  BY DEF TypeOK
<1>2. /\ batch # <<>> /\ Head(batch) = e /\ batch' = Tail(batch)
      /\ functors' = Append(functors, g)
  BY DEF Run, Queue
<1>3. batch' \in Seq(Functors) /\ ToSet(batch) = ToSet(batch') \cup {e}
  BY <1>1, <1>2, TailSet
<1>4. functors' \in Seq(Functors) /\ ToSet(functors') = ToSet(functors) \cup {g}
  BY <1>1, <1>2, AppendSet
<1>5. ASSUME NEW f, Once(f), f = g => ~Pending(f) PROVE Once(f)'
  <2>1. OnceIn(Tail(batch), functors, f)
    BY <1>1, <1>2, <1>5, OnceTail DEF Once
  <2>2. g = f => f \notin ToSet(Tail(batch)) /\ f \notin ToSet(functors)
    BY <1>2, <1>3, <1>5 DEF Pending
  <2>3. OnceIn(Tail(batch), Append(functors, g), f)
    BY <1>1, <2>1, <2>2, OnceAppend
  <2> QED BY <1>2, <2>3 DEF Once
<1> QED BY <1>1, <1>3, <1>4, <1>5 DEF Pending

-----------------------------------------------------------------------------
(* The invariant is kept.  Every step says what it does to the queues, then *)
(* each part of the invariant follows.                                     *)

LEMMA PollKeeps ==
  ASSUME IInv, Poll
  PROVE  IInv'
<1>1. UNCHANGED <<attempt, client, connVars, functors, batch, handler, calls>>
  BY DEF Poll
<1>2. batch = <<>> /\ phase = "functors" /\ handler = "none"
  BY DEF Poll, Idle
<1>3. phase' = "events" /\ active' \subseteq Ready
  BY DEF Poll
<1>4. TypeOK'
  BY <1>1, <1>3
  DEF IInv, TypeOK, attempt, client, connVars, calls, Ready, Sources
<1>5. AssertsHold' /\ Attempts' /\ Connections' /\ Destroyed'
  BY <1>1, <1>2, <1>3, SameQueues
  DEF IInv, AssertsHold, Attempts, Connections, Destroyed, attempt, client, connVars,
      Live, Open
<1>6. Reported'
  <2>1. /\ "timer" \in active' => timers > 0 /\ ~Pending("resetChannel")
        /\ "connection" \in active' => Open
        /\ "connector" \in active' => channel = "watching"
        /\ "keeper" \in active' => keeper /\ Settled
    BY <1>3 DEF Ready
  <2>2. /\ timers \in 0..1 /\ channel \in {"none", "watching", "removed"}
        /\ state \in {"kDisconnected", "kConnecting", "kConnected"}
    BY DEF IInv, TypeOK
  <2>3. "timer" \in active' => timers = 1 /\ channel = "none"
    BY <2>1, <2>2 DEF IInv, Attempts
  <2>4. Pending("resetChannel") => "resetChannel" \in ToSet(functors)
    BY <1>2, EmptySet DEF Pending
  <2>5. Open => state = "kConnected"
    BY DEF IInv, Connections, Open, Live
  <2>6. "connection" \in active' => state = "kConnected" /\ channel = "none"
    BY <1>2, <2>1, <2>2, <2>4, <2>5 DEF IInv, Attempts
  <2>7. "keeper" \in active' => keeper /\ channel = "none" /\ Settled
    BY <2>1, <2>2 DEF IInv, Attempts, Destroyed, Settled, BareFunctors
  <2> QED
    BY <1>1, <1>2, <1>3, <2>1, <2>3, <2>6, <2>7, SameQueues
    DEF Reported, attempt, client
<1> QED BY <1>4, <1>5, <1>6 DEF IInv

LEMMA EndEventsKeeps ==
  ASSUME IInv, EndEvents
  PROVE  IInv'
<1>1. UNCHANGED <<attempt, client, connVars, active, handler, calls>>
  BY DEF EndEvents
<1>2. phase = "events" /\ active = {} /\ phase' = "functors"
  BY DEF EndEvents
<1>3. batch = <<>> /\ batch' = functors /\ functors' = <<>>
  BY DEF EndEvents, IInv, Reported
<1>4. /\ functors' \in Seq(Functors) /\ batch' \in Seq(Functors)
      /\ ToSet(functors)' = {}
      /\ \A f : Pending(f)' <=> Pending(f)
      /\ \A f : Once(f) => Once(f)'
  BY <1>3, Swapped DEF IInv
<1>5. TypeOK'
  BY <1>1, <1>2, <1>4 DEF IInv, TypeOK, attempt, client, connVars, calls
<1>6. AssertsHold' /\ Attempts'
  BY <1>1, <1>4 DEF IInv, AssertsHold, Attempts, attempt
<1>7. Reported'
  BY <1>1, <1>2 DEF IInv, Reported, attempt, client
<1>8. Connections' /\ Destroyed'
  BY <1>1, <1>4
  DEF IInv, Connections, Destroyed, Settled, attempt, client, connVars, Live, Open
<1> QED BY <1>5, <1>6, <1>7, <1>8 DEF IInv

\* The channel of an attempt that is over waits for the functor that deletes it.
LEMMA ConnectFailsKeeps ==
  ASSUME IInv, ConnectFails
  PROVE  IInv'
<1>1. UNCHANGED <<connect, gaveUp, failed, client, connVars, batch, phase, handler, calls>>
  BY DEF ConnectFails, Handle, RemoveAndResetChannel, RetryLater
<1>2. /\ state = "kConnecting" /\ state' = "kDisconnected" /\ channel' = "removed"
      /\ Queue("resetChannel") /\ phase = "events" /\ handler = "none"
      /\ "connector" \in active /\ active' = active \ {"connector"}
  BY DEF ConnectFails, Handle, Idle, RemoveAndResetChannel, RetryLater, Queue
<1>3. /\ channel = "watching" /\ ~Pending("resetChannel") /\ timers = 0
      /\ ~Pending("startInLoop") /\ ~Live
  BY <1>2 DEF IInv, TypeOK, Attempts, Connections
<1>4. timers' = IF connect THEN 1 ELSE 0
  BY <1>3 DEF ConnectFails, RetryLater
<1>5. /\ functors' \in Seq(Functors) /\ batch' \in Seq(Functors)
      /\ \A f : Pending(f)' <=> Pending(f) \/ f = "resetChannel"
      /\ Once("resetChannel")' /\ Once("startInLoop")'
  BY <1>1, <1>2, <1>3, Queued DEF IInv, Attempts, Functors
<1>6. TypeOK'
  BY <1>1, <1>2, <1>4, <1>5 DEF IInv, TypeOK, client, connVars, calls
<1>7. AssertsHold' /\ Attempts'
  BY <1>1, <1>2, <1>3, <1>4, <1>5 DEF IInv, AssertsHold, Attempts
<1>8. Reported'
  BY <1>1, <1>2, <1>3 DEF IInv, Reported, client
<1>9. Connections' /\ Destroyed'
  BY <1>1, <1>2, <1>3, <1>5 DEF IInv, Connections, Destroyed, client, connVars, Live, Open
<1> QED BY <1>6, <1>7, <1>8, <1>9 DEF IInv

LEMMA HandleWriteKeeps ==
  ASSUME IInv, HandleWrite
  PROVE  IInv'
<1>1. UNCHANGED <<connect, timers, gaveUp, failed, client, connVars, batch, phase, calls>>
  BY DEF HandleWrite, Handle, RemoveAndResetChannel
<1>2. /\ state = "kConnecting" /\ state' = "kConnected" /\ channel' = "removed"
      /\ Queue("resetChannel") /\ phase = "events" /\ handler = "none"
      /\ "connector" \in active /\ active' = active \ {"connector"}
      /\ handler' = IF connect THEN "newConnection" ELSE "none"
  BY DEF HandleWrite, Handle, Idle, RemoveAndResetChannel, Queue
<1>3. /\ channel = "watching" /\ ~Pending("resetChannel") /\ timers = 0
      /\ ~Pending("startInLoop") /\ ~Live
  BY <1>2 DEF IInv, TypeOK, Attempts, Connections
<1>4. connect => alive
  BY <1>3 DEF IInv, Destroyed
<1>5. /\ functors' \in Seq(Functors) /\ batch' \in Seq(Functors)
      /\ \A f : Pending(f)' <=> Pending(f) \/ f = "resetChannel"
      /\ Once("resetChannel")' /\ Once("startInLoop")'
  BY <1>1, <1>2, <1>3, Queued DEF IInv, Attempts, Functors
<1>6. TypeOK'
  BY <1>1, <1>2, <1>5 DEF IInv, TypeOK, client, connVars, calls
<1>7. AssertsHold' /\ Attempts'
  BY <1>1, <1>2, <1>3, <1>5 DEF IInv, AssertsHold, Attempts
<1>8. Reported'
  BY <1>1, <1>2, <1>3 DEF IInv, Reported, client
<1>9. Connections' /\ Destroyed'
  BY <1>1, <1>2, <1>3, <1>4, <1>5
  DEF IInv, Connections, Destroyed, client, connVars, Live, Open
<1> QED BY <1>6, <1>7, <1>8, <1>9 DEF IInv

LEMMA NewConnectionKeeps ==
  ASSUME IInv, NewConnection
  PROVE  IInv'
<1>1. UNCHANGED <<attempt, alive, wanted, reconnects, keeper, functors, batch, active,
                  phase, calls>>
  BY DEF NewConnection
<1>2. /\ handler = "newConnection" /\ handler' = "connectEstablished"
      /\ connection' = TRUE /\ conn' = "kConnecting" /\ closeCb' = "client"
  BY DEF NewConnection
<1>3. TypeOK'
  BY <1>1, <1>2 DEF IInv, TypeOK, attempt, calls
<1>4. AssertsHold' /\ Attempts'
  BY <1>1, SameQueues DEF IInv, AssertsHold, Attempts, attempt
<1>5. Reported'
  BY <1>1, <1>2, SameQueues DEF IInv, Reported, attempt
<1>6. Connections' /\ Destroyed'
  BY <1>1, <1>2, SameQueues DEF IInv, Connections, Destroyed, attempt, Live, Open
<1> QED BY <1>3, <1>4, <1>5, <1>6 DEF IInv

LEMMA ConnectEstablishedKeeps ==
  ASSUME IInv, ConnectEstablished
  PROVE  IInv'
<1>1. UNCHANGED <<attempt, client, closeCb, functors, batch, active, phase, calls>>
  BY DEF ConnectEstablished
<1>2. /\ handler = "connectEstablished" /\ handler' = "none"
      /\ conn = "kConnecting" /\ conn' = "kConnected"
  BY DEF ConnectEstablished, IInv, Connections
<1>3. TypeOK'
  BY <1>1, <1>2 DEF IInv, TypeOK, attempt, client, calls
<1>4. AssertsHold' /\ Attempts'
  BY <1>1, SameQueues DEF IInv, AssertsHold, Attempts, attempt
<1>5. Reported'
  BY <1>1, <1>2, SameQueues DEF IInv, Reported, attempt, client
<1>6. Connections' /\ Destroyed'
  BY <1>1, <1>2, SameQueues DEF IInv, Connections, Destroyed, attempt, client, Live, Open
<1> QED BY <1>3, <1>4, <1>5, <1>6 DEF IInv

\* What HandleClose does when the connection is open and its attempt over.
LEMMA HandleCloseSays ==
  ASSUME IInv, Open, HandleClose
  PROVE  /\ UNCHANGED <<connect, state, channel, timers, gaveUp, alive, wanted,
                        reconnects, keeper, closeCb>>
         /\ ~failed' /\ failed' \in BOOLEAN
         /\ conn' = "kDisconnected" /\ connection' \in BOOLEAN
         /\ alive => ~connection'
         /\ handler' = handler \/ (handler' \in {"none", "restart"} /\ alive)
<1>1. /\ closeCb = "client" => connection /\ alive
      /\ closeCb = "client" \/ closeCb = "loop"
      /\ alive => closeCb = "client"
      /\ ~failed /\ failed \in BOOLEAN /\ connection \in BOOLEAN
  BY DEF IInv, TypeOK, AssertsHold, Connections, Destroyed, Open, Live
<1>2. CASE closeCb = "client"
  <2>1. connection' = FALSE /\ failed' = ~connection
    BY <1>2 DEF HandleClose
  <2>2. connection' \in BOOLEAN /\ ~connection' /\ failed' \in BOOLEAN /\ ~failed'
    BY <1>1, <1>2, <2>1, Zenon
  <2>3. handler' = "restart" \/ handler' = "none"
    BY <1>2 DEF HandleClose
  <2> QED BY <1>1, <1>2, <2>2, <2>3 DEF HandleClose
<1>3. CASE closeCb = "loop"
  <2>1. UNCHANGED <<connection, failed, handler>>
    BY <1>3 DEF HandleClose
  <2> QED BY <1>1, <1>3, <2>1 DEF HandleClose
<1> QED BY <1>1, <1>2, <1>3

LEMMA ConnectionClosesKeeps ==
  ASSUME IInv, ConnectionCloses
  PROVE  IInv'
<1>1. UNCHANGED <<functors, batch, phase, calls>> /\ phase = "events" /\ handler = "none"
  BY DEF ConnectionCloses, Handle, Idle
<1>2. "connection" \in active /\ active' = active \ {"connection"}
  BY DEF ConnectionCloses, Handle
<1>3. CASE ~Open
  <2>1. UNCHANGED <<attempt, client, connVars, handler>>
    BY <1>3 DEF ConnectionCloses
  <2>2. TypeOK' /\ AssertsHold'
    BY <1>1, <1>2, <2>1 DEF IInv, TypeOK, AssertsHold, attempt, client, connVars, calls
  <2>3. Attempts' /\ Reported'
    BY <1>1, <1>2, <2>1, SameQueues DEF IInv, Attempts, Reported, attempt, client
  <2>4. Connections' /\ Destroyed'
    BY <1>1, <2>1, SameQueues
    DEF IInv, Connections, Destroyed, attempt, client, connVars, Live, Open
  <2> QED BY <2>2, <2>3, <2>4 DEF IInv
<1>4. CASE Open
  <2>1. /\ UNCHANGED <<connect, state, channel, timers, gaveUp, alive, wanted,
                       reconnects, keeper, closeCb>>
        /\ ~failed' /\ failed' \in BOOLEAN
        /\ conn' = "kDisconnected" /\ connection' \in BOOLEAN
        /\ alive => ~connection'
        /\ handler' = handler \/ (handler' \in {"none", "restart"} /\ alive)
    BY <1>4, HandleCloseSays DEF ConnectionCloses
  <2>2. state = "kConnected" /\ channel = "none"
    BY <1>2 DEF IInv, Reported
  <2>3. TypeOK' /\ AssertsHold'
    BY <1>1, <1>2, <2>1 DEF IInv, TypeOK, AssertsHold, calls
  <2>4. Attempts' /\ Reported'
    BY <1>1, <1>2, <2>1, <2>2, SameQueues DEF IInv, Attempts, Reported
  <2>5. Connections' /\ Destroyed'
    BY <1>1, <2>1, <2>2, SameQueues DEF IInv, Connections, Destroyed, Live, Open
  <2> QED BY <2>3, <2>4, <2>5 DEF IInv
<1> QED BY <1>3, <1>4

\* An attempt begun when there is no other leads to a channel, a timer or nothing.
LEMMA ConnectSocketSays ==
  ASSUME ~failed, failed \in BOOLEAN, channel = "none", ConnectSocket(0)
  PROVE  /\ ~failed' /\ failed' \in BOOLEAN /\ gaveUp' \in BOOLEAN /\ timers' \in 0..1
         /\ \/ state' = "kConnecting" /\ channel' = "watching" /\ timers' = 0
            \/ state' = "kDisconnected" /\ channel' = "none"
<1>1. gaveUp' = FALSE \/ gaveUp' = TRUE
  BY Zenon DEF ConnectSocket
<1>2. ~failed' /\ failed' \in BOOLEAN
  <2>1. failed' = failed \/ failed' = (channel # "none")
    BY Zenon DEF ConnectSocket
  <2>2. (channel # "none") = FALSE /\ failed = FALSE
    OBVIOUS
  <2>3. failed' = FALSE
    BY <2>1, <2>2, Zenon
  <2> QED BY <2>3, Zenon
<1>3. timers' = 0 \/ timers' = 1
  BY DEF ConnectSocket
<1>4. \/ state' = "kConnecting" /\ channel' = "watching" /\ timers' = 0
      \/ state' = "kDisconnected" /\ channel' = "none"
  BY Zenon DEF ConnectSocket
<1>5. gaveUp' \in BOOLEAN
  BY <1>1, Zenon
<1> QED BY <1>2, <1>3, <1>4, <1>5

LEMMA RestartKeeps ==
  ASSUME IInv, Restart
  PROVE  IInv'
<1>1. UNCHANGED <<client, connVars, functors, batch, active, phase, calls>>
  BY DEF Restart
<1>2. handler = "restart" /\ handler' = "none" /\ connect' = TRUE
  BY DEF Restart
<1>3. /\ ~failed /\ failed \in BOOLEAN /\ channel = "none" /\ timers = 0 /\ ~Live /\ alive
      /\ state = "kConnected" /\ ~keeper
      /\ ~Pending("resetChannel") /\ ~Pending("startInLoop")
      /\ active \cap {"timer", "connection", "connector", "keeper"} = {}
  BY <1>2
  DEF IInv, TypeOK, AssertsHold, Attempts, Reported, Connections, Destroyed
<1>4. /\ ~failed' /\ failed' \in BOOLEAN /\ gaveUp' \in BOOLEAN /\ timers' \in 0..1
      /\ \/ state' = "kConnecting" /\ channel' = "watching" /\ timers' = 0
         \/ state' = "kDisconnected" /\ channel' = "none"
  BY <1>3, ConnectSocketSays DEF Restart
<1>5. TypeOK'
  <2>1. connect' \in BOOLEAN
    BY <1>2, Zenon
  <2> QED BY <1>1, <1>2, <1>4, <2>1 DEF IInv, TypeOK, client, connVars, calls
<1>6. AssertsHold' /\ Attempts'
  BY <1>1, <1>3, <1>4, SameQueues DEF IInv, AssertsHold, Attempts
<1>7. Reported'
  BY <1>1, <1>3 DEF IInv, Reported, client
<1>8. Connections' /\ Destroyed'
  BY <1>1, <1>2, <1>3, <1>4, SameQueues
  DEF IInv, Connections, Destroyed, client, connVars, Live, Open
<1> QED BY <1>5, <1>6, <1>7, <1>8 DEF IInv

LEMMA KeeperExpiresKeeps ==
  ASSUME IInv, KeeperExpires
  PROVE  IInv'
<1>1. UNCHANGED <<attempt, alive, wanted, reconnects, connection, connVars, functors,
                  batch, phase, handler, calls>>
  BY DEF KeeperExpires, Handle
<1>2. "keeper" \in active /\ active' = active \ {"keeper"} /\ keeper' = FALSE
  BY DEF KeeperExpires, Handle
<1>3. keeper /\ channel = "none" /\ Settled /\ ~alive /\ ~connect
  BY <1>2 DEF IInv, Reported, Destroyed
<1>4. TypeOK'
  <2>1. keeper' \in BOOLEAN
    BY <1>2, Zenon
  <2> QED BY <1>1, <1>2, <2>1 DEF IInv, TypeOK, attempt, connVars, calls
<1>5. AssertsHold' /\ Attempts'
  BY <1>1, SameQueues DEF IInv, AssertsHold, Attempts, attempt
<1>6. Reported'
  BY <1>1, <1>2, SameQueues DEF IInv, Reported, attempt
<1>7. Connections' /\ Destroyed'
  BY <1>1, <1>2, <1>3, SameQueues
  DEF IInv, Connections, Destroyed, attempt, connVars, Live, Open
<1> QED BY <1>4, <1>5, <1>6, <1>7 DEF IInv

\* startInLoop() when the attempt before is over: a new one only if connect_ is set.
LEMMA StartInLoopSays ==
  ASSUME ~failed, failed \in BOOLEAN, channel = "none", state = "kDisconnected",
         gaveUp \in BOOLEAN,
         StartInLoop(0)
  PROVE  /\ ~failed' /\ failed' \in BOOLEAN /\ gaveUp' \in BOOLEAN
         /\ timers' \in 0..1 /\ connect' = connect
         /\ \/ state' = "kConnecting" /\ channel' = "watching" /\ timers' = 0
            \/ state' = "kDisconnected" /\ channel' = "none"
         /\ ~connect => timers' = 0 /\ channel' = "none"
<1>1. connect' = connect
  BY DEF StartInLoop
<1>2. CASE connect /\ ConnectSocket(0)
  BY <1>1, <1>2, ConnectSocketSays
<1>3. CASE /\ failed' = (state # "kDisconnected") /\ timers' = 0
           /\ UNCHANGED <<state, channel, gaveUp>>
  <2>1. ~failed' /\ failed' \in BOOLEAN /\ gaveUp' \in BOOLEAN
    BY <1>3, Zenon
  <2> QED BY <1>1, <1>3, <2>1
<1> QED BY <1>2, <1>3, Zenon DEF StartInLoop

LEMMA TimerExpiresKeeps ==
  ASSUME IInv, TimerExpires
  PROVE  IInv'
<1>1. UNCHANGED <<client, connVars, functors, batch, phase, handler, calls>>
  BY DEF TimerExpires, Handle
<1>2. /\ "timer" \in active /\ active' = active \ {"timer"}
      /\ phase = "events" /\ handler = "none"
  BY DEF TimerExpires, Handle, Idle
<1>3. /\ ~failed /\ failed \in BOOLEAN /\ channel = "none" /\ timers = 1
      /\ state = "kDisconnected" /\ ~Live
      /\ ~Pending("resetChannel") /\ ~Pending("startInLoop")
      /\ "connection" \notin active /\ "connector" \notin active
      /\ gaveUp \in BOOLEAN
  BY <1>2 DEF IInv, TypeOK, AssertsHold, Attempts, Reported, Connections
<1>4. ~alive => ~connect
  BY <1>3 DEF IInv, Destroyed
<1>5. StartInLoop(0)
  BY <1>3 DEF TimerExpires
<1>6. /\ ~failed' /\ failed' \in BOOLEAN /\ gaveUp' \in BOOLEAN
      /\ timers' \in 0..1 /\ connect' = connect
      /\ \/ state' = "kConnecting" /\ channel' = "watching" /\ timers' = 0
         \/ state' = "kDisconnected" /\ channel' = "none"
      /\ ~connect => timers' = 0 /\ channel' = "none"
  BY <1>3, <1>5, StartInLoopSays
<1>7. TypeOK'
  BY <1>1, <1>2, <1>6 DEF IInv, TypeOK, client, connVars, calls
<1>8. AssertsHold' /\ Attempts'
  BY <1>1, <1>2, <1>3, <1>6, SameQueues DEF IInv, AssertsHold, Attempts
<1>9. Reported'
  <2>1. "keeper" \in active => ~connect
    BY DEF IInv, Reported, Destroyed
  <2> QED
    BY <1>1, <1>2, <1>3, <1>6, <2>1, SameQueues DEF IInv, Reported, client
<1>10. Connections' /\ Destroyed'
  BY <1>1, <1>2, <1>3, <1>4, <1>6, SameQueues
  DEF IInv, Connections, Destroyed, client, connVars, Live, Open
<1> QED BY <1>7, <1>8, <1>9, <1>10 DEF IInv

LEMMA RunStartInLoopKeeps ==
  ASSUME IInv, Run("startInLoop"), StartInLoop(timers), UNCHANGED functors,
         UNCHANGED <<client, connVars, handler>>
  PROVE  IInv'
<1>1. UNCHANGED <<active, phase, calls>> /\ phase = "functors" /\ handler = "none"
  BY DEF Run, Idle
<1>2. /\ functors' \in Seq(Functors) /\ batch' \in Seq(Functors)
      /\ ToSet(functors)' = ToSet(functors)
      /\ Pending("startInLoop") /\ ~Pending("startInLoop")'
      /\ \A f : f # "startInLoop" => (Pending(f)' <=> Pending(f))
      /\ Once("resetChannel")' /\ Once("startInLoop")'
  BY Taken DEF IInv, Attempts
<1>3. /\ ~failed /\ failed \in BOOLEAN /\ gaveUp \in BOOLEAN
      /\ state = "kDisconnected" /\ timers = 0 /\ ~Pending("resetChannel")
      /\ channel = "none" /\ ~Live /\ active = {}
  BY <1>1, <1>2 DEF IInv, TypeOK, AssertsHold, Attempts, Reported, Connections
<1>4. "resetChannel" \notin ToSet(functors)
  BY <1>3 DEF Pending
<1>5. ~alive => keeper /\ ~connect
  BY <1>2 DEF IInv, Destroyed, Settled, BareFunctors
<1>6. /\ ~failed' /\ failed' \in BOOLEAN /\ gaveUp' \in BOOLEAN
      /\ timers' \in 0..1 /\ connect' = connect
      /\ \/ state' = "kConnecting" /\ channel' = "watching" /\ timers' = 0
         \/ state' = "kDisconnected" /\ channel' = "none"
      /\ ~connect => timers' = 0 /\ channel' = "none"
  BY <1>3, StartInLoopSays
<1>7. TypeOK'
  BY <1>1, <1>2, <1>6 DEF IInv, TypeOK, client, connVars, calls
<1>8. AssertsHold' /\ Attempts'
  BY <1>1, <1>2, <1>3, <1>4, <1>6 DEF IInv, AssertsHold, Attempts
<1>9. Reported'
  BY <1>1, <1>3 DEF Reported
<1>10. Connections' /\ Destroyed'
  BY <1>1, <1>2, <1>3, <1>5, <1>6
  DEF IInv, Connections, Destroyed, client, connVars, Live, Open
<1> QED BY <1>7, <1>8, <1>9, <1>10 DEF IInv

LEMMA RunStopInLoopKeeps ==
  ASSUME IInv, Run("stopInLoop"), StopInLoop, UNCHANGED <<client, connVars, handler>>
  PROVE  IInv'
<1>1. UNCHANGED <<active, phase, calls>> /\ phase = "functors" /\ handler = "none"
  BY DEF Run, Idle
<1>2. active = {}
  BY <1>1 DEF IInv, Reported
<1>3. CASE state = "kConnecting"
  <2>1. /\ state' = "kDisconnected" /\ channel' = "removed" /\ Queue("resetChannel")
        /\ UNCHANGED <<failed, connect, gaveUp>>
        /\ timers' = IF connect THEN timers + 1 ELSE timers
    BY <1>3 DEF StopInLoop, RemoveAndResetChannel, RetryLater, Queue
  <2>2. /\ channel = "watching" /\ timers = 0 /\ ~Live
        /\ ~Pending("resetChannel") /\ ~Pending("startInLoop")
    BY <1>3 DEF IInv, TypeOK, Attempts, Connections
  <2>3. /\ functors' \in Seq(Functors) /\ batch' \in Seq(Functors)
        /\ Pending("stopInLoop")
        /\ \A f : f # "stopInLoop" => (Pending(f)' <=> Pending(f) \/ f = "resetChannel")
        /\ Once("resetChannel")' /\ Once("startInLoop")'
    BY <2>1, <2>2, TakenAndQueued DEF IInv, Attempts, Functors
  <2>4. ~alive => keeper /\ ~connect
    BY <2>3 DEF IInv, Destroyed, Settled, BareFunctors
  <2>5. TypeOK'
    BY <1>1, <2>1, <2>2, <2>3 DEF IInv, TypeOK, client, connVars, calls
  <2>6. AssertsHold' /\ Attempts'
    BY <1>1, <2>1, <2>2, <2>3 DEF IInv, AssertsHold, Attempts
  <2>7. Reported'
    BY <1>1, <1>2 DEF Reported
  <2>8. Connections' /\ Destroyed'
    BY <1>1, <2>1, <2>2, <2>3, <2>4
    DEF IInv, Connections, Destroyed, client, connVars, Live, Open
  <2> QED BY <2>5, <2>6, <2>7, <2>8 DEF IInv
<1>4. CASE state # "kConnecting"
  <2>1. UNCHANGED <<attempt, functors>>
    BY <1>4 DEF StopInLoop
  <2>2. /\ functors' \in Seq(Functors) /\ batch' \in Seq(Functors)
        /\ ToSet(functors)' = ToSet(functors)
        /\ Pending("stopInLoop")
        /\ \A f : f # "stopInLoop" => (Pending(f)' <=> Pending(f))
        /\ Once("resetChannel")' /\ Once("startInLoop")'
    BY <2>1, Taken DEF IInv, Attempts
  <2>3. ~alive => keeper
    BY <2>2 DEF IInv, Destroyed, Settled, BareFunctors
  <2>4. TypeOK'
    BY <1>1, <2>1, <2>2 DEF IInv, TypeOK, attempt, client, connVars, calls
  <2>5. AssertsHold' /\ Attempts'
    BY <1>1, <2>1, <2>2 DEF IInv, AssertsHold, Attempts, attempt
  <2>6. Reported'
    BY <1>1, <1>2 DEF Reported
  <2>7. Connections' /\ Destroyed'
    BY <1>1, <1>4, <2>1, <2>2, <2>3
    DEF IInv, Connections, Destroyed, attempt, client, connVars, Live, Open
  <2> QED BY <2>4, <2>5, <2>6, <2>7 DEF IInv
<1> QED BY <1>3, <1>4

LEMMA RunResetChannelKeeps ==
  ASSUME IInv, Run("resetChannel"), channel' = "none",
         UNCHANGED <<connect, state, timers, gaveUp, failed, functors>>,
         UNCHANGED <<client, connVars, handler>>
  PROVE  IInv'
<1>1. UNCHANGED <<active, phase, calls>> /\ phase = "functors" /\ handler = "none"
  BY DEF Run, Idle
<1>2. /\ functors' \in Seq(Functors) /\ batch' \in Seq(Functors)
      /\ ToSet(functors)' = ToSet(functors)
      /\ Pending("resetChannel") /\ ~Pending("resetChannel")'
      /\ \A f : f # "resetChannel" => (Pending(f)' <=> Pending(f))
      /\ Once("resetChannel")' /\ Once("startInLoop")'
  BY Taken DEF IInv, Attempts
<1>3. /\ channel = "removed" /\ state # "kConnecting" /\ active = {}
      /\ ~Pending("startInLoop")
  BY <1>1, <1>2 DEF IInv, Attempts, Reported
<1>4. ~alive => keeper
  BY <1>2 DEF IInv, Destroyed, Settled, BareFunctors
<1>5. TypeOK'
  BY <1>1, <1>2 DEF IInv, TypeOK, client, connVars, calls
<1>6. AssertsHold' /\ Attempts'
  BY <1>1, <1>2, <1>3 DEF IInv, AssertsHold, Attempts
<1>7. Reported'
  BY <1>1, <1>3 DEF Reported
<1>8. Connections' /\ Destroyed'
  BY <1>1, <1>2, <1>3, <1>4
  DEF IInv, Connections, Destroyed, client, connVars, Live, Open
<1> QED BY <1>5, <1>6, <1>7, <1>8 DEF IInv

LEMMA RunConnectorFunctorKeeps ==
  ASSUME IInv, RunConnectorFunctor
  PROVE  IInv'
<1>1. UNCHANGED <<client, connVars, handler>>
  BY DEF RunConnectorFunctor
<1>2. CASE Run("startInLoop") /\ StartInLoop(timers) /\ UNCHANGED functors
  BY <1>1, <1>2, RunStartInLoopKeeps
<1>3. CASE Run("stopInLoop") /\ StopInLoop
  BY <1>1, <1>3, RunStopInLoopKeeps
<1>4. CASE /\ Run("resetChannel") /\ channel' = "none"
           /\ UNCHANGED <<connect, state, timers, gaveUp, failed, functors>>
  BY <1>1, <1>4, RunResetChannelKeeps
<1> QED BY <1>2, <1>3, <1>4, Zenon DEF RunConnectorFunctor

\* The functor is queued by the destructor, after it changed the callback.
LEMMA RunForceCloseInLoopKeeps ==
  ASSUME IInv, RunForceCloseInLoop
  PROVE  IInv'
<1>1. UNCHANGED <<active, phase, calls, functors>> /\ phase = "functors"
  BY DEF RunForceCloseInLoop, Run
<1>2. /\ functors' \in Seq(Functors) /\ batch' \in Seq(Functors)
      /\ ToSet(functors)' = ToSet(functors)
      /\ Pending("forceCloseInLoop")
      /\ \A f : f # "forceCloseInLoop" => (Pending(f)' <=> Pending(f))
      /\ \A f : Pending(f)' => Pending(f)
      /\ Once("resetChannel")' /\ Once("startInLoop")'
  BY <1>1, Taken DEF IInv, Attempts, RunForceCloseInLoop
<1>3. ~alive /\ handler = "none" /\ active = {} /\ (Settled' <=> Settled)
  BY <1>1, <1>2 DEF IInv, Connections, Destroyed, Reported, Settled, BareFunctors
<1>4. /\ UNCHANGED <<connect, state, channel, timers, gaveUp, alive, wanted, reconnects,
                     keeper, closeCb, handler>>
      /\ ~failed' /\ failed' \in BOOLEAN /\ connection' \in BOOLEAN
      /\ conn' = "kDisconnected" \/ (conn' = conn /\ ~Open)
  <2>1. CASE Open
    BY <1>3, <2>1, HandleCloseSays DEF RunForceCloseInLoop
  <2>2. CASE ~Open
    <3>1. UNCHANGED <<attempt, client, connVars, handler>>
      BY <2>2 DEF RunForceCloseInLoop
    <3> QED
      BY <2>2, <3>1 DEF IInv, TypeOK, AssertsHold, attempt, client, connVars
  <2> QED BY <2>1, <2>2
<1>5. TypeOK'
  BY <1>1, <1>2, <1>4 DEF IInv, TypeOK, calls
<1>6. AssertsHold' /\ Attempts'
  BY <1>1, <1>2, <1>4 DEF IInv, AssertsHold, Attempts
<1>7. Reported'
  BY <1>1, <1>3 DEF Reported
<1>8. Connections' /\ Destroyed'
  BY <1>2, <1>3, <1>4 DEF IInv, Connections, Destroyed, Live, Open
<1> QED BY <1>5, <1>6, <1>7, <1>8 DEF IInv

\* A careful application calls connect() only when the attempt before is over.
LEMMA ConnectSays ==
  ASSUME IInv, Careful, alive, Connect
  PROVE  /\ UNCHANGED <<alive, reconnects, connection, keeper, connVars, loop>>
         /\ connect' \in BOOLEAN /\ wanted' \in BOOLEAN /\ stopped' \in BOOLEAN
         /\ starts' \in 0..MaxStarts
         /\ state = "kDisconnected" /\ timers = 0 /\ channel = "none"
         /\ ~Live /\ handler = "none" /\ ~keeper /\ active = {}
         /\ ~Pending("resetChannel") /\ ~Pending("startInLoop")
<1>1. UNCHANGED <<alive, reconnects, connection, keeper, connVars, loop>>
  BY DEF Connect
<1>2. connect' = TRUE /\ wanted' = TRUE /\ stopped' = FALSE
  BY DEF Connect
<1>3. connect' \in BOOLEAN /\ wanted' \in BOOLEAN /\ stopped' \in BOOLEAN
  BY <1>2, Zenon
<1>4. starts' \in 0..MaxStarts
  BY StartsAssumption DEF Connect, IInv, TypeOK
<1>5. state = "kDisconnected" /\ timers = 0 /\ Settled
  BY DEF Connect
<1>6. ~Pending("resetChannel") /\ ~Pending("startInLoop")
  BY <1>5 DEF Settled, BareFunctors
<1>7. channel = "none" /\ ~Live /\ handler = "none" /\ ~keeper
  BY <1>5, <1>6 DEF IInv, TypeOK, Attempts, Connections, Destroyed
<1>8. active = {}
  <2>1. active \subseteq Sources
    BY DEF IInv, TypeOK
  <2>2. /\ "timer" \notin active /\ "connection" \notin active
        /\ "connector" \notin active /\ "keeper" \notin active
    BY <1>5, <1>7 DEF IInv, Reported
  <2> QED BY <2>1, <2>2 DEF Sources
<1> QED BY <1>1, <1>3, <1>4, <1>5, <1>6, <1>7, <1>8

LEMMA CallConnectKeeps ==
  ASSUME IInv, Careful, CallConnect
  PROVE  IInv'
<1>1. alive /\ ~failed /\ failed \in BOOLEAN
  BY DEF CallConnect, May, IInv, TypeOK
<1>2. /\ UNCHANGED <<alive, reconnects, connection, keeper, connVars, loop>>
      /\ connect' \in BOOLEAN /\ wanted' \in BOOLEAN /\ stopped' \in BOOLEAN
      /\ starts' \in 0..MaxStarts
      /\ state = "kDisconnected" /\ timers = 0 /\ channel = "none"
      /\ ~Live /\ handler = "none" /\ ~keeper /\ active = {}
      /\ ~Pending("resetChannel") /\ ~Pending("startInLoop")
  BY <1>1, ConnectSays DEF CallConnect
<1>3. UNCHANGED <<functors, batch>>
  BY <1>2 DEF CallConnect, loop
<1>4. ConnectSocket(0)
  BY <1>2 DEF CallConnect
<1>5. /\ ~failed' /\ failed' \in BOOLEAN /\ gaveUp' \in BOOLEAN /\ timers' \in 0..1
      /\ \/ state' = "kConnecting" /\ channel' = "watching" /\ timers' = 0
         \/ state' = "kDisconnected" /\ channel' = "none"
  BY <1>1, <1>2, <1>4, ConnectSocketSays
<1>6. TypeOK'
  BY <1>2, <1>3, <1>5 DEF IInv, TypeOK, connVars, loop
<1>7. AssertsHold' /\ Attempts'
  <2>1. "resetChannel" \notin ToSet(functors)
    BY <1>2 DEF Pending
  <2> QED
    BY <1>2, <1>3, <1>5, <2>1, SameQueues DEF IInv, AssertsHold, Attempts, loop
<1>8. Reported'
  BY <1>2 DEF IInv, Reported, loop
<1>9. Connections' /\ Destroyed'
  BY <1>1, <1>2, <1>3, <1>5, SameQueues
  DEF IInv, Connections, Destroyed, connVars, loop, Live, Open
<1> QED BY <1>6, <1>7, <1>8, <1>9 DEF IInv

LEMMA ForeignConnectKeeps ==
  ASSUME IInv, Careful, ForeignConnect
  PROVE  IInv'
<1>1. alive /\ UNCHANGED <<state, channel, timers, failed>> /\ Queue("startInLoop")
  BY DEF ForeignConnect, May
<1>2. /\ UNCHANGED <<alive, reconnects, connection, keeper, connVars, loop>>
      /\ connect' \in BOOLEAN /\ wanted' \in BOOLEAN /\ stopped' \in BOOLEAN
      /\ starts' \in 0..MaxStarts
      /\ state = "kDisconnected" /\ timers = 0 /\ channel = "none"
      /\ ~Live /\ handler = "none" /\ ~keeper /\ active = {}
      /\ ~Pending("resetChannel") /\ ~Pending("startInLoop")
  BY <1>1, ConnectSays DEF ForeignConnect
<1>3. UNCHANGED batch
  BY <1>2 DEF loop
<1>4. /\ functors' \in Seq(Functors) /\ batch' \in Seq(Functors)
      /\ \A f : Pending(f)' <=> Pending(f) \/ f = "startInLoop"
      /\ Once("resetChannel")' /\ Once("startInLoop")'
  BY <1>1, <1>2, <1>3, Queued DEF IInv, Attempts, Functors
<1>5. gaveUp' \in BOOLEAN
  <2>1. gaveUp' = FALSE
    BY DEF ForeignConnect
  <2> QED BY <2>1, Zenon
<1>6. TypeOK'
  BY <1>1, <1>2, <1>4, <1>5 DEF IInv, TypeOK, connVars, loop
<1>7. AssertsHold' /\ Attempts'
  BY <1>1, <1>2, <1>4 DEF IInv, AssertsHold, Attempts, loop
<1>8. Reported'
  BY <1>2 DEF IInv, Reported, loop
<1>9. Connections' /\ Destroyed'
  BY <1>1, <1>2, <1>4 DEF IInv, Connections, Destroyed, connVars, loop, Live, Open
<1> QED BY <1>6, <1>7, <1>8, <1>9 DEF IInv

LEMMA CallStopKeeps ==
  ASSUME IInv, CallStop
  PROVE  IInv'
<1>1. /\ UNCHANGED <<state, channel, timers, gaveUp, failed, alive, reconnects, connection,
                     keeper, connVars, loop, starts>>
      /\ alive /\ Queue("stopInLoop")
  BY DEF CallStop, May
<1>2. connect' = FALSE /\ wanted' = FALSE /\ stopped' = TRUE
  BY DEF CallStop
<1>3. connect' \in BOOLEAN /\ wanted' \in BOOLEAN /\ stopped' \in BOOLEAN
  BY <1>2, Zenon
<1>4. /\ functors' \in Seq(Functors) /\ batch' \in Seq(Functors)
      /\ ToSet(functors)' = ToSet(functors) \cup {"stopInLoop"}
      /\ \A f : Pending(f)' <=> Pending(f) \/ f = "stopInLoop"
      /\ Once("resetChannel")' /\ Once("startInLoop")'
  BY <1>1, Queued DEF IInv, Attempts, Functors, loop
<1>5. "keeper" \notin active /\ ~keeper
  BY <1>1 DEF IInv, Reported, Destroyed
<1>6. TypeOK'
  BY <1>1, <1>3, <1>4 DEF IInv, TypeOK, connVars, loop
<1>7. AssertsHold' /\ Attempts'
  BY <1>1, <1>4 DEF IInv, AssertsHold, Attempts, loop
<1>8. Reported'
  BY <1>1, <1>5 DEF IInv, Reported, loop
<1>9. Connections' /\ Destroyed'
  BY <1>1, <1>4, <1>5 DEF IInv, Connections, Destroyed, connVars, loop, Live, Open
<1> QED BY <1>6, <1>7, <1>8, <1>9 DEF IInv

LEMMA CallDisconnectKeeps ==
  ASSUME IInv, CallDisconnect
  PROVE  IInv'
<1>1. /\ UNCHANGED <<attempt, alive, reconnects, connection, keeper, closeCb, functors,
                     loop, calls>>
      /\ alive
  BY DEF CallDisconnect, May
<1>2. wanted' \in BOOLEAN
  <2>1. wanted' = FALSE
    BY DEF CallDisconnect
  <2> QED BY <2>1, Zenon
<1>3. conn' = conn \/ (conn = "kConnected" /\ conn' = "kDisconnecting")
  BY DEF CallDisconnect
<1>4. UNCHANGED <<functors, batch>> /\ (Live' <=> Live) /\ (Open' <=> Open)
  BY <1>1, <1>3 DEF loop, Live, Open
<1>5. TypeOK'
  BY <1>1, <1>2, <1>3 DEF IInv, TypeOK, attempt, loop, calls
<1>6. AssertsHold' /\ Attempts' /\ Reported'
  BY <1>1, <1>4, SameQueues DEF IInv, AssertsHold, Attempts, Reported, attempt, loop
<1>7. Connections' /\ Destroyed'
  BY <1>1, <1>3, <1>4, SameQueues DEF IInv, Connections, Destroyed, attempt, loop
<1> QED BY <1>5, <1>6, <1>7 DEF IInv

LEMMA CallEnableRetryKeeps ==
  ASSUME IInv, CallEnableRetry
  PROVE  IInv'
<1>1. UNCHANGED <<attempt, alive, wanted, connection, keeper, connVars, functors,
                  loop, calls>>
  BY DEF CallEnableRetry
<1>2. reconnects' \in BOOLEAN
  <2>1. reconnects' = TRUE
    BY DEF CallEnableRetry
  <2> QED BY <2>1, Zenon
<1>3. UNCHANGED <<functors, batch>>
  BY <1>1 DEF loop
<1>4. TypeOK'
  BY <1>1, <1>2 DEF IInv, TypeOK, attempt, connVars, loop, calls
<1>5. AssertsHold' /\ Attempts' /\ Reported'
  BY <1>1, <1>3, SameQueues DEF IInv, AssertsHold, Attempts, Reported, attempt, loop
<1>6. Connections' /\ Destroyed'
  BY <1>1, <1>3, SameQueues
  DEF IInv, Connections, Destroyed, attempt, connVars, loop, Live, Open
<1> QED BY <1>4, <1>5, <1>6 DEF IInv

\* The destructor finds no functor that is bound to the Connector, and leaves a
\* connection the callback of the loop or a stopped Connector its keeper.
LEMMA CallDestroyKeeps ==
  ASSUME IInv, Careful, CallDestroy
  PROVE  IInv'
<1>1. /\ UNCHANGED <<state, channel, timers, gaveUp, failed, wanted, reconnects,
                     connection, loop, starts>>
      /\ alive /\ ~alive' /\ alive' \in BOOLEAN /\ Settled
  <2>1. alive' = FALSE
    BY DEF CallDestroy
  <2>2. ~alive' /\ alive' \in BOOLEAN
    BY <2>1, Zenon
  <2> QED BY <2>2 DEF CallDestroy, May
<1>2. handler = "none"
  BY CallsAssumption DEF CallDestroy, May, Calls
<1>3. /\ UNCHANGED <<batch, active, phase, handler>>
      /\ ~keeper /\ "keeper" \notin active /\ keeper \in BOOLEAN
      /\ closeCb = "client"
      /\ ~Pending("resetChannel") /\ ~Pending("startInLoop")
  BY <1>1 DEF loop, IInv, TypeOK, Reported, Destroyed, Settled, BareFunctors
<1>4. CASE connection
  <2>1. /\ UNCHANGED <<connect, keeper, stopped>>
        /\ closeCb' = "loop"
        /\ \/ UNCHANGED <<conn, functors>>
           \/ Open /\ conn' = "kDisconnecting" /\ Queue("forceCloseInLoop")
    BY <1>4 DEF CallDestroy, SetCloseCallback
  <2>2. state = "kConnected" /\ channel = "none" /\ timers = 0 /\ Live
    BY <1>1, <1>3, <1>4 DEF IInv, TypeOK, Attempts, Connections
  <2>3. /\ functors' \in Seq(Functors) /\ batch' \in Seq(Functors)
        /\ \A f : Pending(f)' => Pending(f) \/ f = "forceCloseInLoop"
        /\ \A f : Pending(f) => Pending(f)'
        /\ Once("resetChannel")' /\ Once("startInLoop")'
    <3>1. CASE UNCHANGED <<conn, functors>>
      BY <1>3, <3>1, SameQueues DEF IInv, TypeOK, Attempts
    <3>2. CASE Queue("forceCloseInLoop")
      BY <1>3, <3>2, Queued DEF IInv, Attempts, Functors
    <3> QED BY <2>1, <3>1, <3>2
  <2>4. ~Pending("resetChannel")' /\ ~Pending("startInLoop")' /\ Settled'
    BY <1>1, <1>3, <2>3 DEF Settled, BareFunctors
  <2>5. "resetChannel" \notin ToSet(functors)'
    BY <2>4 DEF Pending
  <2>6. TypeOK'
    BY <1>1, <1>3, <2>1, <2>3 DEF IInv, TypeOK
  <2>7. AssertsHold' /\ Attempts'
    BY <1>1, <1>3, <2>2, <2>3, <2>4, <2>5 DEF IInv, AssertsHold, Attempts
  <2>8. Reported'
    BY <1>1, <1>3 DEF IInv, Reported
  <2>9. Connections'
    BY <1>1, <1>2, <1>3, <2>1, <2>2 DEF IInv, Connections, Live, Open
  <2>10. Destroyed'
    BY <1>1, <1>3, <2>1, <2>2, <2>4 DEF IInv, Destroyed
  <2> QED BY <2>6, <2>7, <2>8, <2>9, <2>10 DEF IInv
<1>5. CASE ~connection
  <2>1. /\ connect' = FALSE /\ keeper' = TRUE /\ stopped' = TRUE
        /\ Queue("stopInLoop") /\ UNCHANGED connVars
    BY <1>5 DEF CallDestroy
  <2>2. connect' \in BOOLEAN /\ keeper' \in BOOLEAN /\ stopped' \in BOOLEAN
    BY <2>1, Zenon
  <2>3. /\ functors' \in Seq(Functors) /\ batch' \in Seq(Functors)
        /\ ToSet(functors)' = ToSet(functors) \cup {"stopInLoop"}
        /\ \A f : Pending(f)' <=> Pending(f) \/ f = "stopInLoop"
        /\ Once("resetChannel")' /\ Once("startInLoop")'
    BY <1>3, <2>1, Queued DEF IInv, Attempts, Functors
  <2>4. ~Live /\ conn # "kConnecting"
    BY <1>2, <1>3, <1>5 DEF IInv, Connections
  <2>5. TypeOK'
    BY <1>1, <1>3, <2>1, <2>2, <2>3 DEF IInv, TypeOK, connVars
  <2>6. AssertsHold' /\ Attempts'
    BY <1>1, <1>3, <2>3 DEF IInv, AssertsHold, Attempts
  <2>7. Reported'
    BY <1>1, <1>3 DEF IInv, Reported
  <2>8. Connections' /\ Destroyed'
    BY <1>1, <1>2, <1>3, <2>1, <2>3, <2>4
    DEF IInv, Connections, Destroyed, connVars, Live, Open
  <2> QED BY <2>5, <2>6, <2>7, <2>8 DEF IInv
<1> QED BY <1>4, <1>5

-----------------------------------------------------------------------------
(* The theorems.                                                           *)

LEMMA InitHolds == Init => IInv
<1> SUFFICES ASSUME Init PROVE IInv
  OBVIOUS
<1>1. functors = <<>> /\ batch = <<>> /\ <<>> \in Seq(Functors)
  BY DEF Init
<1>2. \A f : ~Pending(f) /\ Once(f)
  BY <1>1, EmptySet DEF Pending, Once, OnceIn
<1>3. /\ connect \in BOOLEAN /\ gaveUp \in BOOLEAN /\ failed \in BOOLEAN
      /\ alive \in BOOLEAN /\ wanted \in BOOLEAN /\ connection \in BOOLEAN
      /\ reconnects \in BOOLEAN /\ keeper \in BOOLEAN /\ stopped \in BOOLEAN
  BY Zenon DEF Init
<1>4. TypeOK
  BY <1>1, <1>3, StartsAssumption DEF Init, TypeOK, Sources
<1>5. AssertsHold /\ Attempts
  BY <1>1, <1>2, EmptySet DEF Init, AssertsHold, Attempts
<1>6. Reported /\ Connections /\ Destroyed
  BY <1>2 DEF Init, Reported, Connections, Destroyed, Live, Open
<1> QED BY <1>4, <1>5, <1>6 DEF IInv

LEMMA StutterKeeps == IInv /\ UNCHANGED vars => IInv'
<1> SUFFICES ASSUME IInv, UNCHANGED vars PROVE IInv'
  OBVIOUS
<1>1. UNCHANGED <<attempt, client, connVars, functors, loop, calls>>
  BY DEF vars
<1>2. UNCHANGED <<functors, batch>>
  BY <1>1 DEF loop
<1>3. TypeOK' /\ AssertsHold'
  BY <1>1 DEF IInv, TypeOK, AssertsHold, attempt, client, connVars, loop, calls
<1>4. Attempts' /\ Reported'
  BY <1>1, <1>2, SameQueues DEF IInv, Attempts, Reported, attempt, client, loop
<1>5. Connections' /\ Destroyed'
  BY <1>1, <1>2, SameQueues
  DEF IInv, Connections, Destroyed, attempt, client, connVars, loop, Live, Open
<1> QED BY <1>3, <1>4, <1>5 DEF IInv

LEMMA NextKeeps ==
  ASSUME Careful
  PROVE  IInv /\ [Next]_vars => IInv'
<1> SUFFICES ASSUME IInv, [Next]_vars PROVE IInv'
  OBVIOUS
<1>1. CASE UNCHANGED vars
  BY <1>1, StutterKeeps
<1>2. CASE LoopStep
  BY <1>2, PollKeeps, EndEventsKeeps, ConnectFailsKeeps, HandleWriteKeeps,
     NewConnectionKeeps, ConnectEstablishedKeeps, ConnectionClosesKeeps, RestartKeeps,
     TimerExpiresKeeps, KeeperExpiresKeeps, RunConnectorFunctorKeeps,
     RunForceCloseInLoopKeeps
  DEF LoopStep
<1>3. CASE CallConnect
  BY <1>3, CallConnectKeeps
<1>4. CASE ForeignConnect
  BY <1>4, ForeignConnectKeeps
<1>5. CASE CallStop
  BY <1>5, CallStopKeeps
<1>6. CASE CallDisconnect
  BY <1>6, CallDisconnectKeeps
<1>7. CASE CallDestroy
  BY <1>7, CallDestroyKeeps
<1>8. CASE CallEnableRetry
  BY <1>8, CallEnableRetryKeeps
<1> QED
  BY <1>1, <1>2, <1>3, <1>4, <1>5, <1>6, <1>7, <1>8 DEF Next

THEOREM Invariance ==
  ASSUME Careful
  PROVE  Spec => []IInv
<1>1. Init => IInv
  BY InitHolds
<1>2. IInv /\ [Next]_vars => IInv'
  BY NextKeeps
<1> QED BY <1>1, <1>2, PTL DEF Spec

(***************************************************************************)
(* The variables of Connector and TcpClient keep their types.              *)
(***************************************************************************)
THEOREM TypeCorrect ==
  ASSUME Careful
  PROVE  Spec => []TypeOK
<1>1. IInv => TypeOK
  BY DEF IInv
<1> QED BY <1>1, Invariance, PTL

(***************************************************************************)
(* No assert fails of startInLoop(), connecting() and removeConnection(),  *)
(* however the handlers, the functors and the calls of other threads come  *)
(* between each other.                                                     *)
(***************************************************************************)
THEOREM NoAssertFails ==
  ASSUME Careful
  PROVE  Spec => []AssertsHold
<1>1. IInv => AssertsHold
  BY DEF IInv
<1> QED BY <1>1, Invariance, PTL

(***************************************************************************)
(* The Connector goes when its channel is deleted and no functor needs it, *)
(* and a destroyed TcpClient is not called back.                           *)
(***************************************************************************)
THEOREM NothingDangles ==
  ASSUME Careful
  PROVE  Spec => []NoDangling
<1>1. IInv => NoDangling
  BY DEF IInv, NoDangling, ConnectorGone, Connections, Destroyed
<1> QED BY <1>1, Invariance, PTL
-----------------------------------------------------------------------------
(* After stop().                                                           *)

\* A client that was stopped, from its own thread, wants no connection: its Connector
\* does not, and, until it is destroyed, no lost connection would make it start again.
Stopped == stopped => ~connect /\ handler # "restart" /\ (alive => ~wanted)

LEMMA StoppedKeeps ==
  ASSUME "stop" \notin Foreign
  PROVE  IInv /\ Stopped /\ [Next]_vars => Stopped'
<1> SUFFICES ASSUME IInv, Stopped, [Next]_vars PROVE Stopped'
  OBVIOUS
<1>1. CASE Poll \/ EndEvents \/ NewConnection \/ ConnectEstablished \/ KeeperExpires
  <2>1. UNCHANGED <<stopped, connect, wanted>>
    BY <1>1 DEF Poll, EndEvents, NewConnection, ConnectEstablished, KeeperExpires, Handle,
                attempt, client, calls
  <2>2. alive' = alive /\ (handler' = handler \/ handler' \in {"none", "connectEstablished"})
    BY <1>1 DEF Poll, EndEvents, NewConnection, ConnectEstablished, KeeperExpires, client
  <2> QED BY <2>1, <2>2 DEF Stopped
<1>2. CASE ConnectFails \/ HandleWrite
  <2>1. UNCHANGED <<stopped, connect, alive, wanted>>
    BY <1>2 DEF ConnectFails, HandleWrite, RetryLater, Handle, client, calls
  <2>2. handler' = handler \/ handler' \in {"none", "newConnection"}
    BY <1>2 DEF ConnectFails, HandleWrite
  <2> QED BY <2>1, <2>2 DEF Stopped
<1>3. CASE ConnectionCloses \/ RunForceCloseInLoop
  <2>1. UNCHANGED <<stopped, connect, alive, wanted>>
    BY <1>3 DEF ConnectionCloses, RunForceCloseInLoop, Handle, Run, HandleClose, attempt,
                client, calls
  <2>2. CASE HandleClose /\ Open
    <3>1. handler' = handler \/ handler' = "none" \/ (closeCb = "client" /\ wanted)
      BY <2>2 DEF HandleClose
    <3>2. closeCb = "client" => alive
      BY <2>2 DEF IInv, Destroyed
    <3> QED BY <2>1, <3>1, <3>2 DEF Stopped
  <2>3. CASE ~Open
    <3>1. handler' = handler
      BY <1>3, <2>3 DEF ConnectionCloses, RunForceCloseInLoop
    <3> QED BY <2>1, <3>1 DEF Stopped
  <2> QED BY <1>3, <2>2, <2>3 DEF ConnectionCloses, RunForceCloseInLoop
<1>4. CASE Restart
  BY <1>4 DEF Restart, Stopped, calls
<1>5. CASE TimerExpires
  BY <1>5 DEF TimerExpires, StartInLoop, Handle, Stopped, client, calls
<1>6. CASE RunConnectorFunctor
  <2>1. connect' = connect
    BY <1>6 DEF RunConnectorFunctor, StartInLoop, StopInLoop, RetryLater, attempt
  <2>2. UNCHANGED <<stopped, alive, wanted, handler>>
    BY <1>6 DEF RunConnectorFunctor, Run, client, calls
  <2> QED BY <2>1, <2>2 DEF Stopped
<1>7. CASE CallConnect \/ ForeignConnect
  BY <1>7 DEF CallConnect, ForeignConnect, Connect, Stopped
<1>8. CASE CallStop
  BY <1>8 DEF CallStop, May, Stopped, loop
<1>9. CASE CallDisconnect \/ CallEnableRetry
  <2>1. UNCHANGED <<stopped, connect, alive, handler>> /\ (wanted' => wanted)
    BY <1>9 DEF CallDisconnect, CallEnableRetry, attempt, loop, calls
  <2> QED BY <2>1 DEF Stopped
<1>10. CASE CallDestroy
  <2>1. handler = "none" /\ handler' = "none" /\ ~alive'
    BY <1>10, CallsAssumption DEF CallDestroy, May, Calls, loop
  <2>2. stopped' => (stopped /\ connect' = connect) \/ connect' = FALSE
    BY <1>10 DEF CallDestroy
  <2> QED BY <2>1, <2>2 DEF Stopped
<1>11. CASE UNCHANGED vars
  BY <1>11 DEF Stopped, vars, attempt, client, loop, calls
<1> QED
  BY <1>1, <1>2, <1>3, <1>4, <1>5, <1>6, <1>7, <1>8, <1>9, <1>10, <1>11
  DEF Next, LoopStep

\* A step that begins an attempt: connect(), or one that finds connect_ set, or
\* restart(), which sets it.
LEMMA WhoBegins ==
  ASSUME IInv, [Next]_vars, channel # "watching", channel' = "watching"
  PROVE  stopped' = FALSE \/ connect \/ handler = "restart"
<1>1. CASE Poll \/ EndEvents \/ NewConnection \/ ConnectEstablished \/ KeeperExpires
  BY <1>1 DEF Poll, EndEvents, NewConnection, ConnectEstablished, KeeperExpires, attempt
<1>2. CASE ConnectFails \/ HandleWrite
  BY <1>2 DEF ConnectFails, HandleWrite, RemoveAndResetChannel
<1>3. CASE ConnectionCloses \/ RunForceCloseInLoop
  BY <1>3 DEF ConnectionCloses, RunForceCloseInLoop, HandleClose, attempt
<1>4. CASE Restart
  BY <1>4 DEF Restart
<1>5. CASE TimerExpires
  BY <1>5 DEF TimerExpires, StartInLoop
<1>6. CASE RunConnectorFunctor
  BY <1>6 DEF RunConnectorFunctor, StartInLoop, StopInLoop, RemoveAndResetChannel, attempt
<1>7. CASE CallConnect \/ ForeignConnect
  BY <1>7 DEF CallConnect, ForeignConnect, Connect
<1>8. CASE CallStop \/ CallDisconnect \/ CallDestroy \/ CallEnableRetry \/ UNCHANGED vars
  BY <1>8 DEF CallStop, CallDisconnect, CallDestroy, CallEnableRetry, vars, attempt
<1> QED
  BY <1>1, <1>2, <1>3, <1>4, <1>5, <1>6, <1>7, <1>8 DEF Next, LoopStep

(***************************************************************************)
(* After a stop() on the loop's thread no attempt to connect is begun, not *)
(* by a retry timer, a functor or the end of a connection, until connect() *)
(* is called again.                                                        *)
(***************************************************************************)
THEOREM NoAttemptAfterStop ==
  ASSUME Careful, "stop" \notin Foreign
  PROVE  Spec => StopStops
<1>1. Init => Stopped
  BY DEF Init, Stopped
<1>2. IInv /\ Stopped /\ [Next]_vars => Stopped'
  BY StoppedKeeps
<1>3. IInv /\ Stopped /\ [Next]_vars
        => [stopped /\ stopped' => ~(channel # "watching" /\ channel' = "watching")]_vars
  <2> SUFFICES ASSUME IInv, Stopped, [Next]_vars, stopped, stopped',
                      channel # "watching", channel' = "watching"
               PROVE  FALSE
    OBVIOUS
  <2>1. stopped' = FALSE \/ connect \/ handler = "restart"
    BY WhoBegins
  <2> QED BY <2>1 DEF Stopped
<1> QED BY <1>1, <1>2, <1>3, Invariance, PTL DEF Spec, StopStops
=============================================================================
