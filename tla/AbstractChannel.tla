-------------------------- MODULE AbstractChannel --------------------------
(***************************************************************************)
(* What a channel promises: the receiver gets the messages in the order in *)
(* which they were sent, each of them once, and it is told that it is      *)
(* disconnected only when none is left and none can come.                  *)
(***************************************************************************)
EXTENDS Sequences

CONSTANTS Producers, Messages

VARIABLES queue,     \* what was sent and not yet received
          senders,   \* who may still send
          got,       \* all that was received
          told       \* whether the receiver was told Disconnected

Init == /\ queue = <<>>
        /\ \E s \in Producers : senders = {s}
        /\ got = <<>>
        /\ told = FALSE

Send == /\ senders # {}
        /\ \E m \in Messages : queue' = Append(queue, m)
        /\ UNCHANGED <<senders, got, told>>

Receive == /\ queue # <<>>
           /\ got' = Append(got, Head(queue))
           /\ queue' = Tail(queue)
           /\ UNCHANGED <<senders, told>>

Clone == /\ senders # {}
         /\ \E s \in Producers : senders' = senders \cup {s}
         /\ UNCHANGED <<queue, got, told>>

Drop == /\ \E s \in senders : senders' = senders \ {s}
        /\ UNCHANGED <<queue, got, told>>

Disconnect == /\ queue = <<>> /\ senders = {}
              /\ told' = TRUE
              /\ UNCHANGED <<queue, senders, got>>

Next == Send \/ Receive \/ Clone \/ Drop \/ Disconnect

Spec == Init /\ [][Next]_<<queue, senders, got, told>>
=============================================================================
