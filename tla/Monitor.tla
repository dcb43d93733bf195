------------------------------ MODULE Monitor ------------------------------
(***************************************************************************)
(* A Condvar with the Mutex it is used with, both as detailed as in their  *)
(* own modules: the steps of a wait that give up or ask for the mutex are  *)
(* joint steps of Condvar and Mutex, and what module Condvar calls the     *)
(* mutex's status is where the process is in Mutex.                        *)
(*                                                                         *)
(* The two share more than that: a thread has one park token, which        *)
(* did_unlock and the notify methods both set and lock_block and           *)
(* wait_block both use up, so that each may be woken by what was meant for *)
(* the other.  Here that comes about, it is not assumed.                   *)
(***************************************************************************)
EXTENDS Naturals, SequencesExt

CONSTANTS
    Procs,         \* the threads and the async tasks
    CanPark,       \* those on native, or where atomics_wait_supported()
    Methods,       \* Methods[p]: how process p may lock the mutex at first
    Waits,         \* Waits[p]: the waits <<how, timed>> process p may call
    MaxCalls,      \* bound: MaxCalls[p] calls made by process p
    MaxSpurious    \* bound: park calls that return for no reason, in all

\* A client that waits has a Guard, so it locks with a method that gives one.
ASSUME MethodsAssumption ==
    Methods \in [Procs -> SUBSET {"lock_spin", "lock_sync", "lock_async"}]

ASSUME WaitsAssumption ==
    /\ CanPark \subseteq Procs
    /\ Waits \in [Procs -> SUBSET ({"spin", "block", "sync", "async"}
                                       \X BOOLEAN)]
    /\ \A p \in Procs \ CanPark, t \in BOOLEAN : <<"block", t>> \notin Waits[p]

ASSUME BoundsAssumption == MaxCalls \in [Procs -> Nat] /\ MaxSpurious \in Nat

VARIABLES
    \* those of Mutex
    data_lock, waiting_sync_threads, waiting_async_threads, lock_pc, method,
    lock_expired, lock_gen, lock_woken, unparking, sending,
    \* those of Condvar
    waiting, pc, how, timed, expired, timed_out, gen, signal, one, todo,
    waking, notified,
    \* those of both
    token, calls, spurious

lockData    == <<data_lock, waiting_sync_threads, waiting_async_threads,
                 lock_gen, lock_woken, unparking, sending>>
mutexVars   == <<lockData, lock_pc, method, lock_expired>>
condvarVars == <<waiting, pc, how, timed, expired, timed_out, gen, signal, one,
                 todo, waking, notified>>
vars == <<mutexVars, condvarVars, token, calls, spurious>>

Lock == INSTANCE Mutex WITH pc <- lock_pc, expired <- lock_expired,
                            gen <- lock_gen, woken <- lock_woken

Cond == INSTANCE Condvar WITH status <- [p \in Procs |-> Lock!Status(p)]

Init == Lock!Init /\ Cond!Init

-----------------------------------------------------------------------------
\* p runs no code of the Mutex.
Outside(p) == lock_pc[p] \in {"idle", "held"}

\* p enters a method of the Mutex; the token is Condvar's in such a step.
Ask(p, m) == Lock!Ask(p, m) /\ UNCHANGED lockData

\* The mutex is asked for again with lock_sync, or lock_async.
AskAgain(p) == Ask(p, IF how[p] = "async" THEN "lock_async" ELSE "lock_sync")

\* A step of p inside the Mutex, which may be the one that gives it the Guard
\* that its call of Condvar, or of its client, waits for.
InMutex(p) ==
    /\ Lock!Search(p) \/ Lock!did_unlock(p)
    /\ IF lock_pc'[p] = "held" THEN Cond!Acquire(p) ELSE UNCHANGED condvarVars

\* A step of a wait: it enlists, drops the guard, waits, comes back.
InWait(p) ==
    /\ Outside(p)
    /\ UNCHANGED mutexVars \/ Lock!DropGuard(p) \/ AskAgain(p)
    /\ Cond!WaitStep(p)

InNotify(p) == Outside(p) /\ UNCHANGED mutexVars /\ Cond!NotifyStep(p)

CallLock(p) == (\E m \in Methods[p] : Ask(p, m)) /\ Cond!CallLock(p)

Call(p) == /\ Outside(p) /\ UNCHANGED mutexVars
           /\ Cond!CallWait(p) \/ Cond!CallNotify(p)

Release(p) == Lock!DropGuard(p) /\ Cond!Release(p)

\* A future is dropped while it awaits a notification, or the mutex; or it
\* panics with the guard.
Cancel(p) ==
    /\ \/ Outside(p) /\ (UNCHANGED mutexVars \/ Lock!DropGuard(p))
       \/ Lock!Cancel(p)
    /\ Cond!Cancel(p)

\* park returns for no reason, from the Mutex or from the Condvar.
ParkSpuriously(p) ==
    \/ Lock!ParkSpuriously(p) /\ UNCHANGED condvarVars
    \/ /\ Outside(p)
       /\ UNCHANGED mutexVars \/ AskAgain(p)
       /\ Cond!ParkSpuriously(p)

DeadlinePasses(p) == UNCHANGED mutexVars /\ Cond!DeadlinePasses(p)

Own(p) == InMutex(p) \/ InWait(p) \/ InNotify(p)

Next == \E p \in Procs :
    \/ Own(p) \/ CallLock(p) \/ Call(p) \/ Release(p) \/ Cancel(p)
    \/ ParkSpuriously(p) \/ DeadlinePasses(p)

Spec == Init /\ [][Next]_vars

\* Threads are scheduled, executors poll, clocks advance, guards are dropped;
\* that the mutex is then taken by those that wait for it is not assumed.
FairSpec == /\ Spec
            /\ \A p \in Procs : /\ WF_vars(Own(p))
                                /\ WF_vars(Release(p))
                                /\ WF_vars(DeadlinePasses(p))

-----------------------------------------------------------------------------
\* Properties.

\* Each variable has its type in its own module.
TypeOK == Lock!TypeOK /\ Cond!TypeOK

\* No waiter is forgotten although its token may be used up by, or come from,
\* the other of the two: one that parks in the Mutex without a token will be
\* unparked, or is in the Mutex's list while somebody holds it ...
NoLostUnpark == Lock!NoLostUnpark

\* ... and one that parks in the Condvar without a token will be, or is in
\* the Condvar's list, whatever token its own drop of the guard has sent it.
NoLostNotification == Cond!NoLostNotification

\* The tokens of the Mutex end no wait that does not look at the list again:
\* but for wait_block, a wait that reports no timeout was notified in it.
OnlyNotified == Cond!OnlyNotified

\* A notified wait comes back with the mutex, if guards are dropped, through
\* the locking and unlocking of all others (unless its future is dropped).
NotifiedWaitsReturn ==
    \A p \in Procs :
        Cond!Waiting(p) /\ notified[p] ~> pc[p] \in {"held", "idle"}
=============================================================================
