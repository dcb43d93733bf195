----------------------------- MODULE AtomicCell -----------------------------
(***************************************************************************)
(* What Spinlock promises: each closure given to with_mut is applied to    *)
(* the data at once.  The data is taken to be the sequence of the clients  *)
(* whose closures have been applied, from which any other data follows.    *)
(* The other modules treat a call of with_mut as one step because of it.   *)
(***************************************************************************)
EXTENDS Sequences

CONSTANT Clients

VARIABLE data

Init == data = <<>>

Apply(c) == data' = Append(data, c)

Next == \E c \in Clients : Apply(c)

Spec == Init /\ [][Next]_data
=============================================================================
