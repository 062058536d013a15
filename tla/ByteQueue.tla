------------------------------ MODULE ByteQueue ------------------------------
(***************************************************************************)
(* What a Buffer promises to whoever holds it: a queue of bytes.  What is  *)
(* read from the descriptor or appended comes out behind what is there, in *)
(* the same order and nothing else; what is prepended comes out next.      *)
(***************************************************************************)
EXTENDS Naturals, Sequences

CONSTANTS Data      \* what is appended and prepended

VARIABLES
    stream,         \* the bytes that readFd() has not read yet
    bytes           \* the queue

Init == stream = <<>> /\ bytes = <<>>

\* More arrives at the descriptor.
Arrive ==
    /\ Len(stream) < Len(stream')
    /\ stream = SubSeq(stream', 1, Len(stream))
    /\ UNCHANGED bytes

ReadFd(n) ==
    /\ bytes' = bytes \o SubSeq(stream, 1, n)
    /\ stream' = SubSeq(stream, n + 1, Len(stream))

Put(d)      == bytes' = bytes \o d /\ UNCHANGED stream
Prepend(d)  == bytes' = d \o bytes /\ UNCHANGED stream
Retrieve(n) == bytes' = SubSeq(bytes, n + 1, Len(bytes)) /\ UNCHANGED stream

Next ==
    \/ Arrive
    \/ \E n \in 1..Len(stream) : ReadFd(n)
    \/ \E d \in Data : Put(d) \/ Prepend(d)
    \/ \E n \in 1..Len(bytes) : Retrieve(n)

Spec == Init /\ [][Next]_<<stream, bytes>>
=============================================================================
