---------------------------- MODULE AbstractLock ----------------------------
(***************************************************************************)
(* What a mutual-exclusion lock promises its clients: a client asks for    *)
(* the lock, and is let in only while no other client is in, or gives up;  *)
(* nothing else changes who is in.  Module Mutex implements it, and the    *)
(* components that are built on a Mutex are modelled over it.              *)
(***************************************************************************)
CONSTANT Clients

VARIABLE status    \* of each client: "out", "waiting" or "in"

Init == status = [c \in Clients |-> "out"]

Request(c) == /\ status[c] = "out"
              /\ status' = [status EXCEPT ![c] = "waiting"]

Enter(c) == /\ status[c] = "waiting"
            /\ \A d \in Clients : status[d] # "in"
            /\ status' = [status EXCEPT ![c] = "in"]

GiveUp(c) == /\ status[c] = "waiting"
             /\ status' = [status EXCEPT ![c] = "out"]

Leave(c) == /\ status[c] = "in"
            /\ status' = [status EXCEPT ![c] = "out"]

Next == \E c \in Clients : Request(c) \/ Enter(c) \/ GiveUp(c) \/ Leave(c)

Spec == Init /\ [][Next]_status
=============================================================================
