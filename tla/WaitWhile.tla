----------------------------- MODULE WaitWhile -----------------------------
(***************************************************************************)
(* The wait_*_while methods of Condvar and wait_*_timeout_while, in the    *)
(* client their documentation describes and the test of a producer and a   *)
(* consumer is: producers add to a counter that the mutex protects and     *)
(* notify; a consumer waits while there is nothing, and takes one.         *)
(***************************************************************************)
EXTENDS Condvar

CONSTANT Consumers    \* the processes that consume; the others produce

ASSUME ConsumersAssumption == Consumers \subseteq Procs

VARIABLE permits      \* what is there to take

allVars == <<vars, permits>>

InitWhile == Init /\ permits = 0

\* Both sides begin by locking the mutex.  The deadline of a *_timeout_while
\* is that of all its waits, and so is not set again by them.
CallWaitWhile(p) ==
    /\ p \in Consumers
    /\ pc[p] = "idle" /\ Count(p)
    /\ Lock!Request(p)
    /\ \E w \in Waits[p] : Choose(p, w)
    /\ timed_out' = [timed_out EXCEPT ![p] = FALSE]
    /\ Goto(p, "lock")
    /\ UNCHANGED <<waiting, gen, wakeVars, notifyVars, notified, permits>>

CallProduce(p) ==
    /\ p \notin Consumers
    /\ Request(p) /\ Count(p)
    /\ UNCHANGED permits

\* The head of the loop: the condition holds, and no wait has timed out.
WaitMore(p) ==
    /\ p \in Consumers /\ pc[p] = "held"
    /\ ~timed_out[p] /\ permits = 0
    /\ Goto(p, "enlist")
    /\ UNCHANGED <<status, waiting, methodVars, expired, timed_out, gen,
                   wakeVars, notifyVars, notified, boundVars, permits>>

\* The loop is over, the client takes one unless the wait timed out, and
\* drops the guard.
Consume(p) ==
    /\ p \in Consumers
    /\ timed_out[p] \/ permits > 0
    /\ Release(p)
    /\ permits' = IF timed_out[p] THEN permits ELSE permits - 1
    /\ UNCHANGED boundVars

\* The producer adds one, drops the guard and calls notify_one.
Produce(p) ==
    /\ p \notin Consumers /\ pc[p] = "held"
    /\ permits' = permits + 1
    /\ Lock!Leave(p)
    /\ Notify(p, TRUE)
    /\ UNCHANGED boundVars

Own(p) == \/ WaitMore(p) \/ Consume(p) \/ Produce(p)
          \/ (WaitStep(p) \/ NotifyStep(p) \/ Acquire(p)) /\ UNCHANGED permits

Calls(p) == CallWaitWhile(p) \/ CallProduce(p)

\* Nothing but the code under test and the clock acts on the waits: who drops
\* the future of a wait that has been notified loses the notification, and so
\* does who leaves, after a spurious return from park, an entry that takes it.
WhileNext == \E p \in Procs :
    Calls(p) \/ Own(p) \/ (DeadlinePasses(p) /\ UNCHANGED permits)

WhileSpec == InitWhile /\ [][WhileNext]_allVars

\* Threads are scheduled, executors poll, clocks advance; nobody is made to
\* produce.
WhileFairSpec ==
    /\ WhileSpec
    /\ \A p \in Procs : WF_allVars(Own(p))
    /\ \A p \in Procs : WF_allVars(DeadlinePasses(p) /\ UNCHANGED permits)

-----------------------------------------------------------------------------
\* Properties.

\* Asleep(p): p waits, and nothing that has happened will end its wait.
Asleep(p) == /\ pc[p] = "pause"
             /\ IF how[p] = "block" THEN ~token[p] ELSE ~signal[p]

\* src/condvar/notify.rs:8 "If there are multiple threads waiting, one will be
\* woken up (unspecified which one)": while there is something to take, not
\* all consumers that came for it sleep, unless someone has yet to notify.
OneIsWokenUp ==
    permits > 0 /\ (\E p \in Consumers : Asleep(p)) =>
        \E p \in Procs : pc[p] # "idle" /\ ~Asleep(p)

\* That takes consumers none of which awaits with a deadline (for its timer
\* may fire when it has been notified) or parks both with deadlines and without
\* (for a token that comes late for the one wait ends the other too early, and
\* its entry stays in the list).
OneKind == \A p \in Consumers :
    /\ <<"async", TRUE>> \notin Waits[p]
    /\ LeavesEntries(p) =>
           \A w \in Waits[p] : WaitSync(p, w[1]) = "block" => ~w[2]

\* What there is is taken: it is not left beside a consumer that waits for it,
\* whether its notification finds one in its list, or comes before the
\* consumer has joined it, or goes to one whose deadline has passed.
NothingIsLeft ==
    permits > 0 /\ (\E p \in Consumers : Waiting(p))
        ~> permits = 0 \/ \A p \in Consumers : ~Waiting(p)

\* A consumer that has a deadline comes back, though nothing is produced and
\* however often others take what it was woken for.
TimedConsumersReturn ==
    \A p \in Consumers : pc[p] # "idle" /\ timed[p] ~> pc[p] = "idle"
=============================================================================
