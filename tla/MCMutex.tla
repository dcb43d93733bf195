------------------------------ MODULE MCMutex ------------------------------
(***************************************************************************)
(* A small instance of Mutex for TLC: who may call which methods, and how  *)
(* often.  p1 is a browser's main thread, which cannot park.               *)
(***************************************************************************)
EXTENDS Mutex

CONSTANTS p1, p2, p3

Three == {p1, p2, p3}
NotP1 == Procs \ {p1}

\* The main thread, a worker or task, and one that has deadlines.
OneOfEach == [p \in Procs |->
                 CASE p = p1 -> {"try_lock", "lock_sync", "lock_sync_timeout"}
                   [] p = p2 -> {"lock_spin", "lock_block", "lock_async"}
                   [] OTHER  -> {"lock_spin_timeout", "lock_sync_timeout",
                                 "lock_async_timeout"}]

\* It is the main thread that comes back.
TwiceP1 == [p \in Procs |-> IF p = p1 THEN 2 ELSE 1]
=============================================================================
