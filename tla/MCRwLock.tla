------------------------------ MODULE MCRwLock ------------------------------
(***************************************************************************)
(* A small instance of RwLock for TLC: who may call which methods, how     *)
(* often.  p1 is a browser's main thread, which cannot park.               *)
(***************************************************************************)
EXTENDS RwLock

CONSTANTS p1, p2, p3

Three == {p1, p2, p3}
NotP1 == Procs \ {p1}

\* The main thread, a worker or task, and one that also only tries.
OneOfEach == [p \in Procs |->
                 (CASE p = p1 -> {"sync"}
                    [] p = p2 -> {"sync", "async"}
                    [] OTHER  -> {"try", "block", "async"}) \X Kinds]

\* It is the main thread that comes back.
TwiceP1 == [p \in Procs |-> IF p = p1 THEN 2 ELSE 1]
=============================================================================
