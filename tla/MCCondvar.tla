----------------------------- MODULE MCCondvar -----------------------------
(***************************************************************************)
(* Small instances of Condvar for TLC: who may call which waits, how often *)
(* they may call anything.                                                 *)
(***************************************************************************)
EXTENDS Condvar

CONSTANTS p1, p2, p3

Three == {p1, p2, p3}
NotP1 == Procs \ {p1}

\* Every wait there is, but that p1 parks with deadlines only.
AnyWait == [p \in Procs |-> {w \in {"spin", "sync", "async"} \X BOOLEAN :
                                p = p1 => w # <<"sync", FALSE>>}]

\* A main thread that cannot park, a worker or task, and one that notifies.
OneOfEach == [p \in Procs |->
                 CASE p = p1 -> {"sync"} \X BOOLEAN
                   [] p = p2 -> {"sync", "async"} \X BOOLEAN
                   [] OTHER  -> {}]

Twice     == [p \in Procs |-> 2]
ThriceP1  == [p \in Procs |-> CASE p = p1 -> 3 [] p = p2 -> 2 [] OTHER -> 1]
=============================================================================
