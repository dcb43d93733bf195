--------------------------- MODULE AbstractRwLock ---------------------------
(***************************************************************************)
(* What a read-write lock promises its clients: one that asks to read is   *)
(* let in while nobody writes, one that asks to write while nobody is in.  *)
(***************************************************************************)
CONSTANT Clients

VARIABLE status    \* "out", "want_read", "want_write", "read" or "write"

Init == status = [c \in Clients |-> "out"]

Becomes(c, from, to) == /\ status[c] = from
                        /\ status' = [status EXCEPT ![c] = to]

Request(c) == Becomes(c, "out", "want_read") \/ Becomes(c, "out", "want_write")

EnterToRead(c) == /\ Becomes(c, "want_read", "read")
                  /\ \A d \in Clients : status[d] # "write"

EnterToWrite(c) == /\ Becomes(c, "want_write", "write")
                   /\ \A d \in Clients : status[d] \notin {"read", "write"}

GiveUp(c) == Becomes(c, "want_read", "out") \/ Becomes(c, "want_write", "out")

Leave(c) == Becomes(c, "read", "out") \/ Becomes(c, "write", "out")

Next == \E c \in Clients :
    Request(c) \/ EnterToRead(c) \/ EnterToWrite(c) \/ GiveUp(c) \/ Leave(c)

Spec == Init /\ [][Next]_status
=============================================================================
