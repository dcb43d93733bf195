---------------------------- MODULE MCWaitWhile ----------------------------
(***************************************************************************)
(* Small instances of WaitWhile for TLC: p1 produces, the others consume.  *)
(***************************************************************************)
EXTENDS WaitWhile

CONSTANTS p1, p2, p3

Three == {p1, p2, p3}
NotP1 == {p2, p3}

\* Threads wait in any way, but park always with a deadline or, p3, always
\* without; tasks have none.
Threads == [p \in Procs |-> {<<"spin", TRUE>>, <<"spin", FALSE>>,
                              <<"sync", p = p2>>, <<"async", FALSE>>}]

\* Two tasks, one of them with a deadline.
Tasks == [p \in Procs |-> {<<"async", p = p2>>}]

Twice == [p \in Procs |-> 2]
=============================================================================
