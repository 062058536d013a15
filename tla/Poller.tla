------------------------------- MODULE Poller -------------------------------
(***************************************************************************)
(* What a Poller promises to its EventLoop (src/Reactor/Poller.h), however *)
(* it keeps the channels it was given: it watches the registered channels  *)
(* for the events they want, and poll() reports channels for what happened *)
(* among these, or went wrong, and for nothing else.  A channel that wants *)
(* no event is left in peace.                                              *)
(***************************************************************************)
CONSTANTS
    Channels,       \* the channels there may be
    Fds,            \* file descriptors
    FdOf,           \* FdOf[c]: the descriptor channel c is about
    Events,         \* what a channel can ask for
    Always          \* what the kernel reports unasked

VARIABLES
    watched,        \* the events each registered channel wants
    ready,          \* what has happened to each descriptor
    reported        \* channels with their events, still to be handled

vars == <<watched, ready, reported>>

Quiet == [f \in Fds |-> {}]

Init ==
    /\ watched = <<>>
    /\ ready = Quiet
    /\ reported = {}

Update(c, ev) ==
    /\ watched' = [d \in DOMAIN watched \cup {c} |-> IF d = c THEN ev ELSE watched[d]]
    /\ UNCHANGED <<ready, reported>>

Remove(c) ==
    /\ c \in DOMAIN watched /\ watched[c] = {}
    /\ watched' = [d \in DOMAIN watched \ {c} |-> watched[d]]
    /\ UNCHANGED <<ready, reported>>

\* Something happens, before or while poll() waits.
Happens ==
    /\ ready' \in [Fds -> SUBSET (Events \cup Always)]
    /\ UNCHANGED <<watched, reported>>

Revents(c) == ready[FdOf[c]] \cap (watched[c] \cup Always)

Due == {c \in DOMAIN watched : watched[c] # {} /\ Revents(c) # {}}

\* poll() need not report all at once, but if something is due then something.
Poll ==
    /\ reported = {}
    /\ reported' \subseteq {<<c, Revents(c)>> : c \in Due}
    /\ Due # {} => reported' # {}
    /\ ready' = Quiet
    /\ UNCHANGED watched

\* The loop handles a channel.
Take ==
    /\ \E e \in reported : reported' = reported \ {e}
    /\ UNCHANGED <<watched, ready>>

Next ==
    \/ \E c \in Channels : Remove(c) \/ \E ev \in SUBSET Events : Update(c, ev)
    \/ Happens \/ Poll \/ Take

Spec == Init /\ [][Next]_vars
=============================================================================
