---------------------------- MODULE MCRemoteTool ----------------------------
(* Small instances of RemoteTool for model checking, chosen by the number   *)
(* of invocations that may arrive: the more they are, the fewer generations *)
(* the connection has.                                                      *)
EXTENDS RemoteTool

CONSTANTS r1, r2, r3

VARIABLE invocations

Two == INSTANCE RemoteTool WITH MaxGeneration <- 3

\* Of three, one is executed at a time: with two remembered, each limit is reached.
Three == INSTANCE RemoteTool WITH MaxGeneration <- 2, MaxConcurrent <- 1

Arrived(r) == call[r].stage # "none"

\* Invocations are interchangeable: they are named in the order of their arrival.
NamedInOrder ==
    /\ Arrived(r2) => Arrived(r1) /\ invocations >= 2
    /\ Arrived(r3) => Arrived(r2) /\ invocations >= 3

ToolInit == Init /\ invocations \in 1 .. 3

ToolNext ==
    /\ \/ invocations = 1 /\ Next
       \/ invocations = 2 /\ Two!Next
       \/ invocations = 3 /\ Three!Next
    /\ UNCHANGED invocations
    /\ NamedInOrder'

\* Fairness is due to turns and timers.  A turn can end whatever the limits are.
ToolSpec == ToolInit /\ [][ToolNext]_<<vars, invocations>> /\ Fairness

=============================================================================
