----------------------------- MODULE MCSpinlock -----------------------------
(***************************************************************************)
(* A small instance of Spinlock for TLC.                                   *)
(***************************************************************************)
EXTENDS Spinlock

CONSTANTS p1, p2, p3

Three == {p1, p2, p3}
=============================================================================
