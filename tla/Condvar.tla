------------------------------ MODULE Condvar ------------------------------
(***************************************************************************)
(* The condition variable of src/condvar.rs and src/condvar/*.rs: its      *)
(* three lists of waiters, the waits that spin, park or await, each with a *)
(* deadline or without, and notify_one and notify_all.                     *)
(*                                                                         *)
(* The mutex whose Guard a wait gives up and takes back is AbstractLock,   *)
(* which module Mutex implements; of its inside only the park token shows, *)
(* which a thread may lose while it waits for the mutex.  A step is one    *)
(* atomic access, and with_mut is one step, as in module Mutex.            *)
(***************************************************************************)
EXTENDS Naturals, SequencesExt

CONSTANTS
    Procs,         \* the threads and the async tasks
    CanPark,       \* those on native, or where atomics_wait_supported()
    Waits,         \* Waits[p]: the waits <<how, timed>> process p may call
    MaxCalls,      \* bound: MaxCalls[p] calls made by process p
    MaxSpurious    \* bound: park calls that return for no reason, in all

Hows  == {"spin", "block", "sync", "async"}
Lists == {"spin", "block", "async"}

ASSUME ProcsAssumption ==
    /\ CanPark \subseteq Procs
    /\ Waits \in [Procs -> SUBSET (Hows \X BOOLEAN)]
    /\ \A p \in Procs \ CanPark, t \in BOOLEAN : <<"block", t>> \notin Waits[p]

ASSUME BoundsAssumption == MaxCalls \in [Procs -> Nat] /\ MaxSpurious \in Nat

VARIABLES
    status,        \* the mutex: who is in, who waits for it
    waiting,       \* waiting_spin_threads, waiting_sync_threads ("block")
                   \* and waiting_async_threads, as Vecs
    pc,            \* where each process is
    how, timed,    \* the wait it is in, wait_sync resolved
    expired,       \* Instant::now() >= deadline, for that wait
    timed_out,     \* the WaitTimeoutResult of its last wait
    token,         \* std's park token of the thread
    gen,           \* how many waits it has made
    signal,        \* the wake flag, or continuation, of its last wait is set
    one,           \* whether it runs notify_one or notify_all
    todo,          \* the lists that call has yet to look at
    waking,        \* the waiters it has taken and not yet woken
    notified,      \* history: some call has taken p's handle in this wait
    calls, spurious

methodVars == <<how, timed>>
wakeVars   == <<token, signal>>
notifyVars == <<one, todo, waking>>
boundVars  == <<calls, spurious>>
vars == <<status, waiting, pc, methodVars, expired, timed_out, gen, wakeVars,
          notifyVars, notified, boundVars>>

Lock == INSTANCE AbstractLock WITH Clients <- Procs

-----------------------------------------------------------------------------
\* The Arc of a spinning wait and the id of an async one identify the wait;
\* a thread that parks is known by its own id in all its waits.
Handles == Procs \X Nat
HandleOf(p, n) == <<p, IF how[p] = "block" THEN 0 ELSE n>>
Handle(p) == HandleOf(p, gen[p])

Listed(p) == Contains(waiting[how[p]], Handle(p))

WaitPoints   == {"pause", "clock", "recheck", "withdraw", "confirm"}
NotifyPoints == {"take", "wake"}
ControlPoints == {"idle", "lock", "held", "enlist", "unlock"}
                     \cup WaitPoints \cup NotifyPoints

Waiting(p) == pc[p] \in WaitPoints

Goto(p, l) == pc' = [pc EXCEPT ![p] = l]

Init ==
    /\ Lock!Init
    /\ waiting = [l \in Lists |-> <<>>]
    /\ pc = [p \in Procs |-> "idle"]
    /\ how = [p \in Procs |-> "spin"]
    /\ timed = [p \in Procs |-> FALSE]
    /\ expired = [p \in Procs |-> FALSE]
    /\ timed_out = [p \in Procs |-> FALSE]
    /\ token = [p \in Procs |-> FALSE]
    /\ gen = [p \in Procs |-> 0]
    /\ signal = [p \in Procs |-> FALSE]
    /\ one = [p \in Procs |-> FALSE]
    /\ todo = [p \in Procs |-> <<>>]
    /\ waking = [p \in Procs |-> <<>>]
    /\ notified = [p \in Procs |-> FALSE]
    /\ calls = [p \in Procs |-> 0]
    /\ spurious = 0

-----------------------------------------------------------------------------
\* The mutex, at the start of a call and at the end of a wait.

Request(p) ==
    /\ pc[p] = "idle"
    /\ Lock!Request(p)
    /\ Goto(p, "lock")
    /\ UNCHANGED <<waiting, methodVars, expired, timed_out, gen, wakeVars,
                   notifyVars, notified>>

\* Waiting for the mutex may use up the thread's park token.
Acquire(p) ==
    /\ pc[p] = "lock"
    /\ Lock!Enter(p)
    /\ Goto(p, "held")
    /\ token' \in {token, [token EXCEPT ![p] = FALSE]}
    /\ UNCHANGED <<waiting, methodVars, expired, timed_out, gen, signal,
                   notifyVars, notified, boundVars>>

Release(p) ==
    /\ pc[p] = "held"
    /\ Lock!Leave(p)
    /\ Goto(p, "idle")
    /\ UNCHANGED <<waiting, methodVars, expired, timed_out, gen, wakeVars,
                   notifyVars, notified, boundVars>>

-----------------------------------------------------------------------------
\* Waiting.

\* wait_sync and wait_sync_timeout park where the platform can, else spin.
WaitSync(p, h) == IF h # "sync" THEN h
                  ELSE IF p \in CanPark THEN "block" ELSE "spin"

\* A wait whose method the client has chosen begins.
Choose(p, w) ==
    /\ how' = [how EXCEPT ![p] = WaitSync(p, w[1])]
    /\ timed' = [timed EXCEPT ![p] = w[2]]
    /\ expired' = [expired EXCEPT ![p] = FALSE]

\* The waiter joins its list while it still holds the guard.
Enlist(p) ==
    /\ pc[p] = "enlist"
    /\ Goto(p, "unlock")
    /\ gen' = [gen EXCEPT ![p] = @ + 1]
    /\ waiting' = [waiting EXCEPT ![how[p]] = Append(@, HandleOf(p, gen'[p]))]
    /\ signal' = [signal EXCEPT ![p] = FALSE]
    /\ notified' = [notified EXCEPT ![p] = FALSE]
    /\ UNCHANGED <<status, methodVars, expired, timed_out, token, notifyVars,
                   boundVars>>

\* drop(guard); wait_block_timeout then looks at the clock first.
Unlock(p) ==
    /\ pc[p] = "unlock"
    /\ Lock!Leave(p)
    /\ Goto(p, IF how[p] = "block" /\ timed[p] THEN "clock" ELSE "pause")
    /\ UNCHANGED <<waiting, methodVars, expired, timed_out, gen, wakeVars,
                   notifyVars, notified, boundVars>>

\* The wait is over, with the given result, but for the mutex.
Resume(p, result) ==
    /\ Lock!Request(p)
    /\ timed_out' = [timed_out EXCEPT ![p] = result]
    /\ Goto(p, "lock")

\* wait_spin and wait_async, timed or not: the flag is loaded, the receiver
\* polled.
Signalled(p) ==
    /\ pc[p] \in {"pause", "confirm"} /\ how[p] # "block"
    /\ signal[p]
    /\ Resume(p, FALSE)
    /\ UNCHANGED <<waiting, methodVars, expired, gen, wakeVars, notifyVars,
                   notified, boundVars>>

NotSignalled(p) ==
    /\ pc[p] = "pause" /\ how[p] # "block" /\ timed[p]
    /\ ~signal[p]
    /\ Goto(p, "clock")
    /\ UNCHANGED <<status, waiting, methodVars, expired, timed_out, gen,
                   wakeVars, notifyVars, notified, boundVars>>

\* Has the deadline passed?  A task asks its timer's receiver.
Clock(p) ==
    /\ pc[p] = "clock"
    /\ Goto(p, IF expired[p] THEN "withdraw" ELSE "pause")
    /\ UNCHANGED <<status, waiting, methodVars, expired, timed_out, gen,
                   wakeVars, notifyVars, notified, boundVars>>

\* wait_block_timeout parks without a timeout.
MutantUnparked(p) ==
    /\ pc[p] = "pause" /\ how[p] = "block"
    /\ token[p]
    /\ token' = [token EXCEPT ![p] = FALSE]
    /\ IF timed[p] THEN Goto(p, "recheck") /\ UNCHANGED <<status, timed_out>>
                   ELSE Resume(p, FALSE)
    /\ UNCHANGED <<waiting, methodVars, expired, gen, signal, notifyVars,
                   notified, boundVars>>

\* park or park_timeout returns; only the timed wait has a loop around it.
Unparked(p) ==
    /\ pc[p] = "pause" /\ how[p] = "block"
    /\ token[p] \/ (timed[p] /\ expired[p])
    /\ token' = [token EXCEPT ![p] = FALSE]
    /\ IF timed[p] THEN Goto(p, "recheck") /\ UNCHANGED <<status, timed_out>>
                   ELSE Resume(p, FALSE)
    /\ UNCHANGED <<waiting, methodVars, expired, gen, signal, notifyVars,
                   notified, boundVars>>

\* It returns for no reason, or for a token of the mutex.
ParkSpuriously(p) ==
    /\ pc[p] = "pause" /\ how[p] = "block"
    /\ spurious < MaxSpurious
    /\ spurious' = spurious + 1
    /\ IF timed[p] THEN Goto(p, "recheck") /\ UNCHANGED <<status, timed_out>>
                   ELSE Resume(p, FALSE)
    /\ UNCHANGED <<waiting, methodVars, expired, gen, wakeVars, notifyVars,
                   notified, calls>>

\* Any token ends the wait, whoever sent it.
MutantRecheck(p) ==
    /\ pc[p] = "recheck"
    /\ Resume(p, FALSE)
    /\ UNCHANGED <<waiting, methodVars, expired, gen, wakeVars, notifyVars,
                   notified, boundVars>>

\* wait_block_timeout takes its absence from the list for a notification.
Recheck(p) ==
    /\ pc[p] = "recheck"
    /\ IF Listed(p) THEN Goto(p, "clock") /\ UNCHANGED <<status, timed_out>>
                    ELSE Resume(p, FALSE)
    /\ UNCHANGED <<waiting, methodVars, expired, gen, wakeVars, notifyVars,
                   notified, boundVars>>

\* A waiter that a notifier has just taken times out all the same.
MutantWithdraw(p) ==
    /\ pc[p] = "withdraw"
    /\ waiting' = [waiting EXCEPT ![how[p]] = RemoveFirst(@, Handle(p))]
    /\ Resume(p, TRUE)
    /\ UNCHANGED <<methodVars, expired, gen, wakeVars, notifyVars, notified,
                   boundVars>>

\* Past the deadline a waiter leaves its list.  If it was no longer there a
\* notifier has it: a spinning wait stays for its flag, a blocking one
\* returns as notified, an async one as timed out.
Withdraw(p) ==
    /\ pc[p] = "withdraw"
    /\ waiting' = [waiting EXCEPT ![how[p]] = RemoveFirst(@, Handle(p))]
    /\ IF how[p] = "spin" /\ ~Listed(p)
       THEN Goto(p, "confirm") /\ UNCHANGED <<status, timed_out>>
       ELSE Resume(p, Listed(p) \/ how[p] = "async")
    /\ UNCHANGED <<methodVars, expired, gen, wakeVars, notifyVars, notified,
                   boundVars>>

\* The future is dropped while it awaits a notification or the mutex; or the
\* thread of its timer cannot be spawned, and the panic drops its guard.  What
\* it has put into the list stays there.
Cancel(p) ==
    /\ how[p] = "async"
    /\ pc[p] \in {"pause", "lock"} \/ (pc[p] = "unlock" /\ timed[p])
    /\ status' = [status EXCEPT ![p] = "out"]
    /\ Goto(p, "idle")
    /\ UNCHANGED <<waiting, methodVars, expired, timed_out, gen, wakeVars,
                   notifyVars, notified, boundVars>>

\* The clock reaches the deadline.
DeadlinePasses(p) ==
    /\ Waiting(p) \/ pc[p] = "lock"
    /\ timed[p] /\ ~expired[p]
    /\ expired' = [expired EXCEPT ![p] = TRUE]
    /\ UNCHANGED <<status, waiting, pc, methodVars, timed_out, gen, wakeVars,
                   notifyVars, notified, boundVars>>

-----------------------------------------------------------------------------
\* Notifying.

\* notify_one, if b, or notify_all is called.
Notify(p, b) ==
    /\ one' = [one EXCEPT ![p] = b]
    /\ todo' = [todo EXCEPT ![p] = <<"spin", "block", "async">>]
    /\ Goto(p, "take")
    /\ UNCHANGED <<waiting, methodVars, expired, timed_out, gen, wakeVars,
                   waking, notified>>

\* with_mut on the next list.  notify_one pops its last waiter and looks no
\* further, or finds it empty; notify_all takes all it holds.
Take(p) ==
    /\ pc[p] = "take"
    /\ LET l == Head(todo[p])
       IN  IF one[p] /\ waiting[l] # <<>>
           THEN /\ waking' = [waking EXCEPT ![p] = <<Last(waiting[l])>>]
                /\ waiting' = [waiting EXCEPT ![l] = Front(@)]
                /\ todo' = [todo EXCEPT ![p] = <<>>]
           ELSE /\ waking' = [waking EXCEPT ![p] = waiting[l]]
                /\ waiting' = [waiting EXCEPT ![l] = <<>>]
                /\ todo' = [todo EXCEPT ![p] = Tail(@)]
    /\ notified' = [q \in Procs |->
                       notified[q] \/ Contains(waking'[p], Handle(q))]
    /\ Goto(p, "wake")
    /\ UNCHANGED <<status, methodVars, expired, timed_out, gen, wakeVars, one,
                   boundVars>>

\* Of the waiters that notify_all took, one is woken.
MutantWake(p) ==
    /\ pc[p] = "wake" /\ waking[p] # <<>>
    /\ LET h == Head(waking[p])
       IN  IF h[2] = 0
           THEN token' = [token EXCEPT ![h[1]] = TRUE] /\ UNCHANGED signal
           ELSE /\ signal' = [signal EXCEPT ![h[1]] = @ \/ h[2] = gen[h[1]]]
                /\ UNCHANGED token
    /\ waking' = [waking EXCEPT ![p] = <<>>]
    /\ UNCHANGED <<status, waiting, pc, methodVars, expired, timed_out, gen,
                   one, todo, notified, boundVars>>

\* A waiter's flag or continuation serves all its waits.
MutantWakeAny(p) ==
    /\ pc[p] = "wake" /\ waking[p] # <<>>
    /\ LET h == Head(waking[p])
       IN  IF h[2] = 0
           THEN token' = [token EXCEPT ![h[1]] = TRUE] /\ UNCHANGED signal
           ELSE signal' = [signal EXCEPT ![h[1]] = TRUE] /\ UNCHANGED token
    /\ waking' = [waking EXCEPT ![p] = Tail(@)]
    /\ UNCHANGED <<status, waiting, pc, methodVars, expired, timed_out, gen,
                   one, todo, notified, boundVars>>

\* unpark; or the flag of that wait is set, its sender sent to.
Wake(p) ==
    /\ pc[p] = "wake" /\ waking[p] # <<>>
    /\ LET h == Head(waking[p])
       IN  IF h[2] = 0
           THEN token' = [token EXCEPT ![h[1]] = TRUE] /\ UNCHANGED signal
           ELSE /\ signal' = [signal EXCEPT ![h[1]] = @ \/ h[2] = gen[h[1]]]
                /\ UNCHANGED token
    /\ waking' = [waking EXCEPT ![p] = Tail(@)]
    /\ UNCHANGED <<status, waiting, pc, methodVars, expired, timed_out, gen,
                   one, todo, notified, boundVars>>

\* notify returns after the first list.
MutantWoken(p) ==
    /\ pc[p] = "wake" /\ waking[p] = <<>>
    /\ Goto(p, IF status[p] = "in" THEN "held" ELSE "idle")
    /\ UNCHANGED <<status, waiting, methodVars, expired, timed_out, gen,
                   wakeVars, notifyVars, notified, boundVars>>

\* Nobody is left to wake: on to the next list, or back to the caller, which
\* may hold the mutex or not.
Woken(p) ==
    /\ pc[p] = "wake" /\ waking[p] = <<>>
    /\ Goto(p, IF todo[p] # <<>> THEN "take"
               ELSE IF status[p] = "in" THEN "held" ELSE "idle")
    /\ UNCHANGED <<status, waiting, methodVars, expired, timed_out, gen,
                   wakeVars, notifyVars, notified, boundVars>>

-----------------------------------------------------------------------------
\* A client that makes its calls in any order the types allow: it waits while
\* it holds the mutex, and notifies whether it holds it or not.

WaitStep(p) ==
    \/ Enlist(p) \/ Unlock(p) \/ Signalled(p) \/ NotSignalled(p) \/ Clock(p)
    \/ Unparked(p) \/ Recheck(p) \/ Withdraw(p)

NotifyStep(p) == Take(p) \/ Wake(p) \/ Woken(p)

\* What the clock, the platform and an executor may do to a wait.
Environment(p) == DeadlinePasses(p) \/ ParkSpuriously(p) \/ Cancel(p)

Count(p) == /\ calls[p] < MaxCalls[p]
            /\ calls' = [calls EXCEPT ![p] = @ + 1]
            /\ UNCHANGED spurious

CallLock(p) == Request(p) /\ Count(p)

CallWait(p) ==
    /\ pc[p] = "held" /\ Count(p)
    /\ \E w \in Waits[p] : Choose(p, w)
    /\ Goto(p, "enlist")
    /\ UNCHANGED <<status, waiting, timed_out, gen, wakeVars, notifyVars,
                   notified>>

CallNotify(p) ==
    /\ pc[p] \in {"idle", "held"} /\ Count(p)
    /\ \E b \in BOOLEAN : Notify(p, b)
    /\ UNCHANGED status

Client(p) == CallLock(p) \/ CallWait(p) \/ CallNotify(p)

Next == \E p \in Procs :
    \/ Client(p) \/ Acquire(p) \/ Release(p) \/ WaitStep(p) \/ NotifyStep(p)
    \/ Environment(p)

Spec == Init /\ [][Next]_vars

\* Threads are scheduled, executors poll, clocks advance; the mutex, once it
\* is free, is taken (module Mutex, EveryCallReturns) and is given back.
Fairness == \A p \in Procs :
    /\ WF_vars(WaitStep(p) \/ NotifyStep(p) \/ Acquire(p))
    /\ WF_vars(Release(p))
    /\ WF_vars(DeadlinePasses(p))

FairSpec == Spec /\ Fairness

-----------------------------------------------------------------------------
\* Properties.

\* The variables have the types the code gives them, and a notifier's local
\* lists are empty when it does not notify.
TypeOK ==
    /\ status \in [Procs -> {"out", "waiting", "in"}]
    /\ waiting \in [Lists -> Seq(Handles)]
    /\ pc \in [Procs -> ControlPoints]
    /\ how \in [Procs -> Lists]
    /\ timed \in [Procs -> BOOLEAN]
    /\ expired \in [Procs -> BOOLEAN]
    /\ timed_out \in [Procs -> BOOLEAN]
    /\ token \in [Procs -> BOOLEAN]
    /\ gen \in [Procs -> Nat]
    /\ signal \in [Procs -> BOOLEAN]
    /\ one \in [Procs -> BOOLEAN]
    /\ todo \in [Procs -> Seq(Lists)]
    /\ waking \in [Procs -> Seq(Handles)]
    /\ notified \in [Procs -> BOOLEAN]
    /\ calls \in [Procs -> Nat]
    /\ spurious \in Nat
    /\ \A p \in Procs : /\ todo[p] # <<>> => pc[p] \in NotifyPoints
                        /\ waking[p] # <<>> => pc[p] = "wake"

\* A waiter that nobody has woken is in its list, or a notifier that took it
\* from there is about to wake it: none is forgotten, whatever timeouts,
\* spurious returns and dropped futures do to the lists meanwhile.
NoLostNotification ==
    \A p \in Procs :
        /\ pc[p] \in {"pause", "confirm"}
        /\ IF how[p] = "block" THEN ~token[p] ELSE ~signal[p]
        => \/ \E q \in Procs : Contains(waking[q], Handle(p))
           \/ pc[p] = "pause" /\ Listed(p)

\* Ends(p): p's wait ends, but for the mutex.
Ends(p) == Waiting(p) /\ pc'[p] = "lock"

\* p may call wait_block, which leaves its entry in the list if park returns
\* early.
LeavesEntries(p) ==
    \E w \in Waits[p] : WaitSync(p, w[1]) = "block" /\ ~w[2]

\* A thread's timed wait says that it timed out if and only if its deadline
\* passed before any notifier took it, so that no notify_one is spent on a
\* wait that reports a timeout.  Of those that park, as long as the thread
\* does so only with deadlines: a spurious return, or a token that came late
\* for an earlier wait, makes no difference then.
HonestResult ==
    [][\A p \in Procs :
          /\ Ends(p) /\ timed[p] /\ how[p] # "async"
          /\ how[p] = "block" => ~LeavesEntries(p)
          => IF timed_out'[p] THEN expired[p] /\ ~notified[p]
                              ELSE notified[p]]_vars

\* A wait that does not report a timeout was notified, and in this very wait:
\* entries, flags and tokens of earlier ones do not end it.  Only wait_block
\* may return for no reason.
OnlyNotified ==
    [][\A p \in Procs :
          Ends(p) /\ (IF timed[p] THEN ~timed_out'[p] ELSE how[p] # "block")
              => notified[p]]_vars

\* notify_all wakes every waiter that was in a list when it was called, even
\* those of the lists it comes to last.
NotifyAllWakes ==
    \A p \in Procs :
        /\ pc[p] = "pause" /\ ~timed[p]
        /\ \E q \in Procs : pc[q] = "take" /\ ~one[q] /\ Len(todo[q]) = 3
        ~> pc[p] # "pause"

\* A timed wait ends, even if nobody notifies: the spinning waiter that finds
\* itself taken from its list does not wait for ever for its flag.
TimedWaitsEnd == \A p \in Procs : Waiting(p) /\ timed[p] ~> ~Waiting(p)
=============================================================================
