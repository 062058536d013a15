---------------------------- MODULE AsyncLogging ----------------------------
(***************************************************************************)
(* AsyncLoggingDoubleBuffering (src/Log/AsyncLogging.cpp): any thread      *)
(* appends log lines to currentBuffer_ under mutex_; one backend thread    *)
(* swaps the filled buffers out under the same mutex and writes them to    *)
(* the log file; a controlling thread calls start() and stop().            *)
(*                                                                         *)
(* A line is the number of its append(); of its text only the length is    *)
(* kept.  append() holds mutex_ throughout, so which thread calls it makes *)
(* no difference, and it is one action.                                    *)
(***************************************************************************)
EXTENDS Integers, SequencesExt

CONSTANTS
    BufferSize,     \* kLargeBuffer, the size of a buffer
    Lengths,        \* the lengths of the lines
    MaxBacklog,     \* 25: with more buffers than this to write, most are dropped
    NoBuffer,       \* a null BufferPtr
    MaxLines,       \* bound: lines appended in a behaviour
    MaxStarts       \* bound: calls of start()

\* A line comes out of a LogStream, whose own buffer (kSmallBuffer) is smaller.
ASSUME LengthsAssumption ==
    BufferSize \in Nat /\ \A n \in Lengths : n \in Nat /\ n < BufferSize
ASSUME MaxBacklogAssumption == MaxBacklog \in Nat /\ MaxBacklog >= 2
ASSUME BoundsAssumption == MaxLines \in Nat /\ MaxStarts \in Nat

Buffer == [lines : Seq(1..MaxLines), used : 0..BufferSize]
EmptyBuffer == [lines |-> <<>>, used |-> 0]
ASSUME NoBufferAssumption == NoBuffer \notin Buffer

VARIABLES
    current,        \* currentBuffer_
    next,           \* nextBuffer_, or NoBuffer
    buffers,        \* buffers_, filled and waiting for the backend
    running,        \* running_
    latch,          \* the count of latch_
    bpc,            \* where the backend thread is, see BackendPcs
    newBuffer1,     \* the backend's spare buffers, or NoBuffer
    newBuffer2,
    toWrite,        \* buffersToWrite
    cpc,            \* where the controlling thread is
    \* History:
    appended,       \* how many lines were appended
    output,         \* the lines written to the LogFile, in order
    dropped,        \* the lines discarded by the backend
    starts,         \* how many times start() was called
    beforeStop      \* appended when stop() was last called

frontVars == <<current, next, buffers, appended>>
backVars  == <<newBuffer1, newBuffer2, toWrite, output, dropped>>
ctlVars   == <<running, cpc, starts, beforeStop>>

vars == <<frontVars, backVars, ctlVars, latch, bpc>>

(***************************************************************************)
(* "none": no thread; "begin": the thread was created; "loop": at the      *)
(* while condition; "lock": about to lock mutex_; "waiting" in wait_for(); *)
(* "awake": notified or timed out, about to own mutex_ again; "write":     *)
(* mutex_ released after the swap; "recycle": the buffers are written;     *)
(* "exit": threadFunc() returned; "aborted": its first assert failed.      *)
(***************************************************************************)
BackendPcs == {"none", "begin", "loop", "lock", "waiting", "awake", "write",
               "recycle", "exit", "aborted"}

TypeOK ==
    /\ current \in Buffer
    /\ next \in Buffer \cup {NoBuffer}
    /\ buffers \in Seq(Buffer)
    /\ running \in BOOLEAN
    /\ latch \in Int
    /\ bpc \in BackendPcs
    /\ newBuffer1 \in Buffer \cup {NoBuffer}
    /\ newBuffer2 \in Buffer \cup {NoBuffer}
    /\ toWrite \in Seq(Buffer)
    /\ cpc \in {"stopped", "starting", "started", "stopping", "joining"}
    /\ appended \in 0..MaxLines
    /\ starts \in 0..MaxStarts
    /\ beforeStop \in 0..MaxLines

Init ==
    /\ current = EmptyBuffer
    /\ next = EmptyBuffer
    /\ buffers = <<>>
    /\ running = FALSE
    /\ latch = 1
    /\ bpc = "none"
    /\ newBuffer1 = NoBuffer
    /\ newBuffer2 = NoBuffer
    /\ toWrite = <<>>
    /\ cpc = "stopped"
    /\ appended = 0
    /\ output = <<>>
    /\ dropped = {}
    /\ starts = 0
    /\ beforeStop = 0

-----------------------------------------------------------------------------
(* The front end.                                                          *)

\* FixedBuffer::append: a line that does not fit is left out.
Filled(buffer, line, len) ==
    IF BufferSize - buffer.used > len
    THEN [lines |-> Append(buffer.lines, line), used |-> buffer.used + len]
    ELSE buffer

\* cond_.notify_one(): only the backend ever waits on cond_.
Notified == IF bpc = "waiting" THEN "awake" ELSE bpc

\* The line fits into currentBuffer_.
AppendFits(len) ==
    /\ appended < MaxLines
    /\ BufferSize - current.used > len
    /\ appended' = appended + 1
    /\ current' = Filled(current, appended + 1, len)
    /\ UNCHANGED <<next, buffers, backVars, ctlVars, latch, bpc>>

\* The same with notify_one() forgotten.
AppendSwitchesQuietly(len) ==
    /\ appended < MaxLines
    /\ BufferSize - current.used <= len
    /\ appended' = appended + 1
    /\ buffers' = Append(buffers, current)
    /\ current' = Filled(IF next # NoBuffer THEN next ELSE EmptyBuffer,
                         appended + 1, len)
    /\ next' = NoBuffer
    /\ UNCHANGED <<backVars, ctlVars, latch, bpc>>

\* It does not: the buffer is handed over and the spare one, or a new one,
\* takes its place.
AppendSwitches(len) ==
    /\ appended < MaxLines
    /\ BufferSize - current.used <= len
    /\ appended' = appended + 1
    /\ buffers' = Append(buffers, current)
    /\ current' = Filled(IF next # NoBuffer THEN next ELSE EmptyBuffer,
                         appended + 1, len)
    /\ next' = NoBuffer
    /\ bpc' = Notified
    /\ UNCHANGED <<backVars, ctlVars, latch>>

-----------------------------------------------------------------------------
(* The controlling thread.                                                 *)

\* start(): running_ is set, the thread created, and the latch waited for.
Start ==
    /\ cpc = "stopped"
    /\ starts < MaxStarts
    /\ starts' = starts + 1
    /\ running' = TRUE
    /\ bpc' = "begin"
    /\ cpc' = "starting"
    /\ UNCHANGED <<frontVars, backVars, latch, beforeStop>>

LatchWait ==
    /\ cpc = "starting"
    /\ latch <= 0
    /\ cpc' = "started"
    /\ UNCHANGED <<frontVars, backVars, running, starts, beforeStop, latch, bpc>>

\* stop(): running_ is cleared, ...
Stop ==
    /\ cpc = "started"
    /\ running' = FALSE
    /\ cpc' = "stopping"
    /\ beforeStop' = appended
    /\ UNCHANGED <<frontVars, backVars, starts, latch, bpc>>

\* ... the backend notified, without mutex_, ...
StopNotify ==
    /\ cpc = "stopping"
    /\ bpc' = Notified
    /\ cpc' = "joining"
    /\ UNCHANGED <<frontVars, backVars, running, starts, beforeStop, latch>>

\* ... and joined; the backend's local buffers are gone.
Join ==
    /\ cpc = "joining"
    /\ bpc = "exit"
    /\ cpc' = "stopped"
    /\ bpc' = "none"
    /\ newBuffer1' = NoBuffer
    /\ newBuffer2' = NoBuffer
    /\ UNCHANGED <<frontVars, running, starts, beforeStop, toWrite, output,
                   dropped, latch>>

-----------------------------------------------------------------------------
(* The backend, threadFunc().                                              *)

\* assert(running_ == true), countDown(), and the two spare buffers.
ThreadBegin ==
    /\ bpc = "begin"
    /\ running
    /\ latch' = latch - 1
    /\ newBuffer1' = EmptyBuffer
    /\ newBuffer2' = EmptyBuffer
    /\ bpc' = "loop"
    /\ UNCHANGED <<frontVars, toWrite, output, dropped, ctlVars>>

ThreadBeginAborts ==
    /\ bpc = "begin"
    /\ ~running
    /\ bpc' = "aborted"
    /\ UNCHANGED <<frontVars, backVars, ctlVars, latch>>

ThreadLoop ==
    /\ bpc = "loop"
    /\ bpc' = IF running THEN "lock" ELSE "exit"
    /\ UNCHANGED <<frontVars, backVars, ctlVars, latch>>

\* buffers_.empty(): wait_for() gives mutex_ up.
Wait ==
    /\ bpc = "lock"
    /\ buffers = <<>>
    /\ bpc' = "waiting"
    /\ UNCHANGED <<frontVars, backVars, ctlVars, latch>>

\* A wait that is repeated until there is a full buffer.
WaitTimeoutLoops ==
    /\ bpc = "waiting"
    /\ buffers # <<>>
    /\ bpc' = "awake"
    /\ UNCHANGED <<frontVars, backVars, ctlVars, latch>>

\* flushInterval_ elapsed (or a spurious wakeup; there is no loop around it).
WaitTimeout ==
    /\ bpc = "waiting"
    /\ bpc' = "awake"
    /\ UNCHANGED <<frontVars, backVars, ctlVars, latch>>

\* Swapping before the current buffer is added loses the order of the two.
SwapCurrentFirst ==
    /\ bpc = "awake" \/ (bpc = "lock" /\ buffers # <<>>)
    /\ toWrite' = <<current>> \o buffers
    /\ buffers' = <<>>
    /\ current' = newBuffer1
    /\ newBuffer1' = NoBuffer
    /\ next' = IF next = NoBuffer THEN newBuffer2 ELSE next
    /\ newBuffer2' = IF next = NoBuffer THEN NoBuffer ELSE newBuffer2
    /\ bpc' = "write"
    /\ UNCHANGED <<appended, output, dropped, ctlVars, latch>>

\* Under mutex_: all filled buffers and the current one become the backend's;
\* the front end gets the spare buffers it needs.
Swap ==
    /\ bpc = "awake" \/ (bpc = "lock" /\ buffers # <<>>)
    /\ toWrite' = Append(buffers, current)
    /\ buffers' = <<>>
    /\ current' = newBuffer1
    /\ newBuffer1' = NoBuffer
    /\ next' = IF next = NoBuffer THEN newBuffer2 ELSE next
    /\ newBuffer2' = IF next = NoBuffer THEN NoBuffer ELSE newBuffer2
    /\ bpc' = "write"
    /\ UNCHANGED <<appended, output, dropped, ctlVars, latch>>

LinesIn(bufs) == FlattenSeq([i \in DOMAIN bufs |-> bufs[i].lines])

\* Keeping one buffer only.
KeptOne == IF Len(toWrite) > MaxBacklog THEN SubSeq(toWrite, 1, 1) ELSE toWrite

\* What is left of the buffers to write: two, if there are too many.
Kept == IF Len(toWrite) > MaxBacklog THEN SubSeq(toWrite, 1, 2) ELSE toWrite

Write ==
    /\ bpc = "write"
    /\ output' = output \o LinesIn(Kept)
    /\ dropped' = dropped \cup
         (ToSet(LinesIn(toWrite)) \ ToSet(LinesIn(Kept)))
    /\ toWrite' = Kept
    /\ bpc' = "recycle"
    /\ UNCHANGED <<frontVars, newBuffer1, newBuffer2, ctlVars, latch>>

\* A written buffer, emptied, replaces each spare one that was given away.
Recycle ==
    /\ bpc = "recycle"
    /\ newBuffer1' = IF newBuffer1 = NoBuffer THEN EmptyBuffer ELSE newBuffer1
    /\ newBuffer2' = IF newBuffer2 = NoBuffer THEN EmptyBuffer ELSE newBuffer2
    /\ toWrite' = <<>>
    /\ bpc' = "loop"
    /\ UNCHANGED <<frontVars, output, dropped, ctlVars, latch>>

-----------------------------------------------------------------------------

Backend ==
    \/ ThreadBegin \/ ThreadBeginAborts \/ ThreadLoop
    \/ Wait \/ WaitTimeout \/ Swap \/ Write \/ Recycle

Control == Start \/ LatchWait \/ Stop \/ StopNotify \/ Join

Next ==
    \/ \E len \in Lengths : AppendFits(len) \/ AppendSwitches(len)
    \/ Control
    \/ Backend

Spec == Init /\ [][Next]_vars

(***************************************************************************)
(* The threads run; wait_for() does time out; start() and stop() return if *)
(* they can, but nobody has to call them.                                  *)
(***************************************************************************)
Fairness ==
    /\ WF_vars(Backend)
    /\ WF_vars(LatchWait) /\ WF_vars(StopNotify) /\ WF_vars(Join)

FairSpec == Spec /\ Fairness

-----------------------------------------------------------------------------
(* Correctness.                                                            *)

(***************************************************************************)
(* The asserts of threadFunc() (lines 67-69, 88, 117, 125) hold: the       *)
(* backend starts each round with two empty spare buffers, and whatever    *)
(* appends came in between, the written buffers suffice to replace the     *)
(* spare ones the front end was given.                                     *)
(***************************************************************************)
AssertsHold ==
    /\ bpc = "lock" =>
         newBuffer1 = EmptyBuffer /\ newBuffer2 = EmptyBuffer /\ toWrite = <<>>
    /\ bpc = "write" => toWrite # <<>>
    /\ bpc = "recycle" =>
         /\ newBuffer1 = NoBuffer => Len(toWrite) >= 1
         /\ newBuffer2 = NoBuffer => Len(toWrite) >=
              (IF newBuffer1 = NoBuffer THEN 2 ELSE 1)

(***************************************************************************)
(* Every appended line is, in the order of the appends, in the file, with  *)
(* the backend, in buffers_ or in currentBuffer_, exactly once; the only   *)
(* lines missing are those of the buffers dropped as too many.             *)
(***************************************************************************)
InBackend == IF bpc = "write" THEN LinesIn(toWrite) ELSE <<>>

LinesKept ==
    LET all == output \o InBackend \o LinesIn(buffers) \o current.lines
    IN  /\ \A i \in 1..Len(all) - 1 : all[i] < all[i + 1]
        /\ ToSet(all) = (1..appended) \ dropped

(***************************************************************************)
(* The backend never waits for notEmpty while a filled buffer waits for    *)
(* it: append()'s notification is not lost between the test of buffers_    *)
(* and wait_for(), so a full buffer is written before the flush interval.  *)
(***************************************************************************)
FullBuffersNoticed == bpc = "waiting" => buffers = <<>>

\* A line is written (or dropped as too many) at the latest when wait_for()
\* times out, unless the logging is stopped or was never started.
LinesWritten ==
    \A i \in 1..MaxLines :
        appended >= i /\ running
            ~> i \in ToSet(output) \cup dropped \/ ~running

\* stop() returns, although its notification may find nobody waiting, unless
\* an assert has ended the process.
StopReturns == cpc = "stopping" ~> cpc = "stopped" \/ bpc = "aborted"

\* What was appended before stop() is in the file when stop() has returned.
\* No run checks it: it does not hold for what came after the last swap.
StopWritesAll ==
    cpc = "stopped" /\ starts > 0
        => 1..beforeStop \subseteq ToSet(output) \cup dropped
=============================================================================
