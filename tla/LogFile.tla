------------------------------- MODULE LogFile -------------------------------
(***************************************************************************)
(* The LogFile of src/Log/LogFile.cpp: lines are appended to a file, and a *)
(* new file is begun (rollFile()) when the file is too large or of another *)
(* day.  Time and day are looked at in every CheckEveryN-th append only.   *)
(*                                                                         *)
(* An append, with the mutex or by the one thread of AsyncLogging, is one  *)
(* step.  Of a line the model has its length and the second of its append. *)
(* What is in the stdio buffer of the file may reach the disk at any time, *)
(* and does when it is flushed or closed.                                  *)
(*                                                                         *)
(* The names say File where AsyncLogging has the same: Loops_proofs is     *)
(* about both.                                                             *)
(***************************************************************************)
EXTENDS Integers, FiniteSets, SequencesExt

CONSTANTS
    RollSize,       \* rollSize_
    FlushInterval,  \* flushInterval_
    CheckEveryN,    \* checkEveryN_
    RollPerSeconds, \* kRollPerSeconds_, the length of a day
    LineLengths,    \* lengths of lines
    ClockSteps,     \* by how much time(NULL) may change between two calls
    MaxTime,        \* bound: the last second
    MaxFileLines    \* bound: lines appended

ASSUME LogFileParametersAssumption ==
    /\ RollSize \in Nat /\ FlushInterval \in Nat
    /\ CheckEveryN \in Nat \ {0} /\ RollPerSeconds \in Nat \ {0}
ASSUME LogFileBoundsAssumption ==
    /\ LineLengths \subseteq Nat /\ ClockSteps \subseteq Int
    /\ MaxTime \in Nat /\ MaxFileLines \in Nat

VARIABLES
    now,            \* time(NULL)
    count,          \* count_
    startOfPeriod,  \* startOfPeriod_
    lastRoll,       \* lastRoll_
    lastFlush,      \* lastFlush_
    files           \* the files there were; the last one is file_

fileVars == <<now, count, startOfPeriod, lastRoll, lastFlush, files>>

Day(t) == (t \div RollPerSeconds) * RollPerSeconds

Lines == [len : LineLengths, time : 0..MaxTime]

\* A file: when it was opened, which is its name, its lines, and how many of
\* them were flushed.
Files == [opened : 1..MaxTime, lines : Seq(Lines), flushed : Nat]

NewFile(t) == [opened |-> t, lines |-> <<>>, flushed |-> 0]

file == files[Len(files)]

FileTypeOK ==
    /\ now \in 0..MaxTime
    /\ count \in 0..(CheckEveryN - 1)
    /\ startOfPeriod \in 0..MaxTime
    /\ lastRoll \in 1..MaxTime
    /\ lastFlush \in lastRoll..MaxTime
    /\ files \in Seq(Files) /\ files # <<>>

\* The constructor, which opens the first file as rollFile() does.
FileInit ==
    /\ now \in 1..MaxTime
    /\ count = 0
    /\ startOfPeriod = Day(now)
    /\ lastRoll = now
    /\ lastFlush = now
    /\ files = <<NewFile(now)>>

-----------------------------------------------------------------------------
Tick ==
    /\ \E d \in ClockSteps : now + d \in 0..MaxTime /\ now' = now + d
    /\ UNCHANGED <<count, startOfPeriod, lastRoll, lastFlush, files>>

\* writtenBytes_ after the first k lines.
Total(lines)    == FoldLeft(LAMBDA n, line : n + line.len, 0, lines)
BytesOf(f, k)   == Total(SubSeq(f.lines, 1, k))
WrittenBytes(f) == BytesOf(f, Len(f.lines))

\* AppendFile::append(), flush() and the destructor, which closes the file.
Written(f, line) == [f EXCEPT !.lines = Append(@, line)]
Flushed(f)       == [f EXCEPT !.flushed = Len(f.lines)]

Current(f) == [files EXCEPT ![Len(files)] = f]

\* rollFile() that begins a file a day.
RollDaily(f) ==
    IF Day(now) > startOfPeriod
    THEN /\ lastRoll' = now /\ lastFlush' = now /\ startOfPeriod' = Day(now)
         /\ files' = Append(Current(Flushed(f)), NewFile(now))
    ELSE /\ files' = Current(f)
         /\ UNCHANGED <<lastRoll, lastFlush, startOfPeriod>>

\* rollFile() from file f: no two files of one second, which would have the
\* same name.
RollFile(f) ==
    IF now > lastRoll
    THEN /\ lastRoll' = now /\ lastFlush' = now /\ startOfPeriod' = Day(now)
         /\ files' = Append(Current(Flushed(f)), NewFile(now))
    ELSE /\ files' = Current(f)
         /\ UNCHANGED <<lastRoll, lastFlush, startOfPeriod>>

\* A day counted from the start of the last one, but one second too long.
NewPeriodLate == now - startOfPeriod > RollPerSeconds

NewPeriod == Day(now) # startOfPeriod

FlushDue == now - lastFlush > FlushInterval

\* A check that starts the interval again although it does not flush.
FlushOrWait(f) ==
    /\ lastFlush' = now
    /\ files' = Current(IF FlushDue THEN Flushed(f) ELSE f)
    /\ UNCHANGED <<lastRoll, startOfPeriod>>

FlushIfDue(f) ==
    /\ lastFlush' = IF FlushDue THEN now ELSE lastFlush
    /\ files' = Current(IF FlushDue THEN Flushed(f) ELSE f)
    /\ UNCHANGED <<lastRoll, startOfPeriod>>

TooLarge(f) == WrittenBytes(f) > RollSize

LinesOfAll == FoldLeft(LAMBDA n, f : n + Len(f.lines), 0, files)

\* append_unlocked(): the line, then a look at the size, then at the count.
AppendUnlocked(len) ==
    LET f == Written(file, [len |-> len, time |-> now]) IN
    /\ LinesOfAll < MaxFileLines
    /\ UNCHANGED now
    /\ \/ /\ TooLarge(f)
          /\ RollFile(f)
          /\ UNCHANGED count
       \/ /\ ~TooLarge(f) /\ count + 1 < CheckEveryN
          /\ count' = count + 1
          /\ files' = Current(f)
          /\ UNCHANGED <<startOfPeriod, lastRoll, lastFlush>>
       \/ /\ ~TooLarge(f) /\ count + 1 >= CheckEveryN
          /\ count' = 0
          /\ IF NewPeriod THEN RollFile(f) ELSE FlushIfDue(f)

\* flush(), as AsyncLogging calls it after every round.
Flush ==
    /\ files' = Current(Flushed(file))
    /\ UNCHANGED <<now, count, startOfPeriod, lastRoll, lastFlush>>

FileNext == Tick \/ (\E len \in LineLengths : AppendUnlocked(len)) \/ Flush

FileSpec == FileInit /\ [][FileNext]_fileVars

-----------------------------------------------------------------------------
(* Properties.                                                             *)

\* A line that makes a file too large is its last one, if it does not come in
\* the second in which the file was opened; those of that second may all go
\* into the one file, and the first line after it (append_unlocked, rollFile).
SizeBound ==
    \A i \in DOMAIN files : \A k \in 1..(Len(files[i].lines) - 1) :
        BytesOf(files[i], k) > RollSize => files[i].lines[k].time <= files[i].opened

\* The lines of another day than that of the file.
OffDay(f) == {k \in DOMAIN f.lines : Day(f.lines[k].time) # Day(f.opened)}

\* The lines that come more than FlushInterval after the k-th.
Late(f, k) == {j \in DOMAIN f.lines : f.lines[j].time - f.lines[k].time > FlushInterval}

\* A file has lines of the day it was opened in, and at most CheckEveryN of
\* other days, whenever the size had files rolled in between
\* (append_unlocked, which counts no line that tries to roll).
DayBound ==
    \A i \in DOMAIN files : Cardinality(OffDay(files[i])) <= CheckEveryN

\* A line waits in the buffer for less than CheckEveryN lines that come more
\* than FlushInterval after it (append_unlocked, FlushInterval and count_).
FlushedInTime ==
    \A k \in (file.flushed + 1)..Len(file.lines) : Cardinality(Late(file, k)) < CheckEveryN
=============================================================================
