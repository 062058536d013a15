----------------------------- MODULE TaskQueue -----------------------------
(***************************************************************************)
(* What an event loop promises about the functors handed to it: they are   *)
(* accepted one after the other, each is run at most once, in the order in *)
(* which they were accepted, and none is run once the loop has stopped.    *)
(* The other modules use the queue through this promise; EventLoop is      *)
(* shown to implement it.                                                  *)
(***************************************************************************)
EXTENDS Naturals, Sequences

CONSTANT MaxTasks       \* bound: how many functors are accepted in a run

VARIABLES
    submitted,          \* how many functors were accepted; they are 1..submitted
    ran,                \* the functors started so far, in order
    stopped             \* the loop has returned

tqVars == <<submitted, ran, stopped>>

Init ==
    /\ submitted = 0
    /\ ran = <<>>
    /\ stopped = FALSE

Submit ==
    /\ submitted < MaxTasks
    /\ submitted' = submitted + 1
    /\ UNCHANGED <<ran, stopped>>

Execute ==
    /\ ~stopped
    /\ Len(ran) < submitted
    /\ ran' = Append(ran, Len(ran) + 1)
    /\ UNCHANGED <<submitted, stopped>>

Stop ==
    /\ ~stopped
    /\ stopped' = TRUE
    /\ UNCHANGED <<submitted, ran>>

Next == Submit \/ Execute \/ Stop

Spec == Init /\ [][Next]_tqVars
=============================================================================
