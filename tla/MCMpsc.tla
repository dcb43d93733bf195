------------------------------ MODULE MCMpsc ------------------------------
(***************************************************************************)
(* Small instances of Mpsc for TLC: how the receiver r waits, and how many *)
(* messages it and the senders ask for and send.                           *)
(***************************************************************************)
EXTENDS Mpsc

CONSTANTS s1, s2, r

One == {s1}
Both == {s1, s2}
OneAndReceiver == {s1, r}
BothAndReceiver == {s1, s2, r}

\* In any way but recv_sync and recv_block; by recv_sync alone, as the iterator
\* does; or by it and recv_sync_timeout.
NoStray   == [p \in Procs |-> ({"spin", "sync", "async"} \X BOOLEAN)
                                  \ {<<"sync", FALSE>>}]
Iterating == [p \in Procs |-> {"sync"} \X {FALSE}]
Parking   == [p \in Procs |-> {"sync"} \X BOOLEAN]

Once   == [p \in Procs |-> 1]
TwiceR == [p \in Procs |-> IF p = r THEN 2 ELSE 1]
=============================================================================
