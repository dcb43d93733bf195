----------------------------- MODULE MCMonitor -----------------------------
(***************************************************************************)
(* A small instance of Monitor for TLC: who may lock and wait in which     *)
(* ways, how often they may call anything.                                 *)
(***************************************************************************)
EXTENDS Monitor

CONSTANTS p1, p2

Two == {p1, p2}

\* p1 is a thread, p2 a task, which asks for the mutex as one at first.
ThreadAndTask ==
    [p \in Procs |-> IF p = p1 THEN {"lock_sync"} ELSE {"lock_async"}]

\* The thread's waits park; the task's await, or park as well.
ParkOrAwait ==
    [p \in Procs |-> (IF p = p1 THEN {"sync"} ELSE {"sync", "async"})
                          \X BOOLEAN]

ThriceP1 == [p \in Procs |-> IF p = p1 THEN 3 ELSE 2]
=============================================================================
