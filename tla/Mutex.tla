------------------------------- MODULE Mutex -------------------------------
(***************************************************************************)
(* The mutex of src/mutex.rs and src/mutex/*.rs, with the Guard of         *)
(* src/guard.rs: every locking method, the two lists of waiters, and the   *)
(* wake-ups of did_unlock.                                                 *)
(*                                                                         *)
(* A process is an OS thread running a synchronous method, or an async     *)
(* task whose future an executor polls.  One step is one atomic access to  *)
(* shared memory, with two exceptions.  Spinlock::with_mut is one step:    *)
(* module Spinlock shows that it is atomic, and each closure passed to it  *)
(* makes at most one access outside the data the spinlock protects.  And   *)
(* the failed iterations of an untimed spin loop, which write back the     *)
(* value they read, are not steps at all.                                  *)
(***************************************************************************)
EXTENDS Naturals, SequencesExt

CONSTANTS
    Procs,         \* the threads and the async tasks
    CanPark,       \* those on native, or where atomics_wait_supported()
    Methods,       \* Methods[p]: the locking methods process p may call
    MaxCalls,      \* bound: MaxCalls[p] calls made by process p
    MaxSpurious    \* bound: park calls that return for no reason, in all

MethodNames == {"try_lock", "lock_spin", "lock_spin_timeout", "lock_block",
                "lock_block_timeout", "lock_sync", "lock_sync_timeout",
                "lock_async", "lock_async_timeout"}

\* A process that cannot wait on an atomic must not call the _block methods:
\* the documentation says they panic there.
ASSUME ProcsAssumption ==
    /\ CanPark \subseteq Procs
    /\ Methods \in [Procs -> SUBSET MethodNames]
    /\ \A p \in Procs \ CanPark :
           {"lock_block", "lock_block_timeout"} \cap Methods[p] = {}

ASSUME BoundsAssumption == MaxCalls \in [Procs -> Nat] /\ MaxSpurious \in Nat

VARIABLES
    data_lock,               \* Mutex::data_lock
    waiting_sync_threads,    \* threads to unpark, in the order they came
    waiting_async_threads,   \* continuations to send to
    pc,                      \* where each process is
    method,                  \* the method it is in, lock_sync resolved
    expired,                 \* Instant::now() >= deadline, for its call
    token,                   \* std's park token of the thread
    gen,                     \* how many continuations the task has made
    woken,                   \* its latest continuation was sent to
    unparking,               \* did_unlock's local list of threads
    sending,                 \* did_unlock's local list of senders
    calls, spurious          \* how much of the two bounds is used

lockVars  == <<data_lock, waiting_sync_threads, waiting_async_threads>>
wakeVars  == <<token, gen, woken>>
localVars == <<unparking, sending>>
boundVars == <<calls, spurious>>
vars == <<lockVars, pc, method, expired, wakeVars, localVars, boundVars>>

-----------------------------------------------------------------------------
\* Control points.

WaitPoints   == {"park", "await", "race"}
SearchPoints == {"try", "spin", "spin_check", "deadline", "last_try",
                 "register", "adeadline", "alast_try", "aregister"}
UnlockPoints == {"take_sync", "unpark", "send"}
ControlPoints == {"idle", "held"} \cup WaitPoints \cup SearchPoints
                                  \cup UnlockPoints

Acquiring(p) == pc[p] \in WaitPoints \cup SearchPoints

\* A continuation: the task that made it, and which of its own it is.
Continuations == Procs \X (Nat \ {0})
Current(p) == <<p, gen[p]>>

Goto(p, l) == pc' = [pc EXCEPT ![p] = l]

Timed(p) == method[p] \in {"lock_spin_timeout", "lock_block_timeout",
                           "lock_async_timeout"}

Init ==
    /\ data_lock = FALSE
    /\ waiting_sync_threads = <<>>
    /\ waiting_async_threads = <<>>
    /\ pc = [p \in Procs |-> "idle"]
    /\ method = [p \in Procs |-> "try_lock"]
    /\ expired = [p \in Procs |-> FALSE]
    /\ token = [p \in Procs |-> FALSE]
    /\ gen = [p \in Procs |-> 0]
    /\ woken = [p \in Procs |-> FALSE]
    /\ unparking = [p \in Procs |-> <<>>]
    /\ sending = [p \in Procs |-> <<>>]
    /\ calls = [p \in Procs |-> 0]
    /\ spurious = 0

-----------------------------------------------------------------------------
\* Calling a method, and the passing of its deadline.

\* The fallback for threads that cannot wait is forgotten.
MutantLockSync(p, m) ==
    IF m = "lock_sync" THEN "lock_block"
    ELSE IF m = "lock_sync_timeout" THEN "lock_block_timeout" ELSE m

\* lock_sync and lock_sync_timeout: park where the platform can, else spin.
LockSync(p, m) ==
    IF m \notin {"lock_sync", "lock_sync_timeout"} THEN m
    ELSE IF m = "lock_sync"
         THEN IF p \in CanPark THEN "lock_block" ELSE "lock_spin"
         ELSE IF p \in CanPark THEN "lock_block_timeout"
                               ELSE "lock_spin_timeout"

\* The first control point of a method, which is the head of its loop.
Entry(m) ==
    IF m = "try_lock" THEN "try"
    ELSE IF m \in {"lock_spin", "lock_spin_timeout"} THEN "spin"
    ELSE IF m = "lock_block" THEN "register"
    ELSE IF m = "lock_block_timeout" THEN "deadline"
    ELSE IF m = "lock_async" THEN "aregister" ELSE "adeadline"

\* Method m is entered.
Ask(p, m) ==
    /\ pc[p] = "idle"
    /\ method' = [method EXCEPT ![p] = LockSync(p, m)]
    /\ Goto(p, Entry(LockSync(p, m)))
    /\ expired' = [expired EXCEPT ![p] = FALSE]

Call(p) ==
    /\ calls[p] < MaxCalls[p]
    /\ calls' = [calls EXCEPT ![p] = @ + 1]
    /\ \E m \in Methods[p] : Ask(p, m)
    /\ UNCHANGED <<lockVars, wakeVars, localVars, spurious>>

\* The clock reaches the deadline of p's call.
DeadlinePasses(p) ==
    /\ Acquiring(p) /\ Timed(p) /\ ~expired[p]
    /\ expired' = [expired EXCEPT ![p] = TRUE]
    /\ UNCHANGED <<lockVars, pc, method, wakeVars, localVars, boundVars>>

-----------------------------------------------------------------------------
\* try_lock and the spinning methods.

\* compare_exchange(false, true) or swap(true) that found false.
Acquire(p) ==
    /\ ~data_lock
    /\ data_lock' = TRUE
    /\ Goto(p, "held")

\* What try_lock does with the lock bit; on failure control goes to l.
TryLock(p, l) ==
    \/ Acquire(p)
    \/ data_lock /\ Goto(p, l) /\ UNCHANGED data_lock

Try(p) ==
    /\ pc[p] = "try"
    /\ TryLock(p, "idle")
    /\ UNCHANGED <<waiting_sync_threads, waiting_async_threads, method,
                   expired, wakeVars, localVars, boundVars>>

\* lock_spin waits here; a timed spin goes to look at the clock.
Spin(p) ==
    /\ pc[p] = "spin"
    /\ Acquire(p) \/ (Timed(p) /\ TryLock(p, "spin_check"))
    /\ UNCHANGED <<waiting_sync_threads, waiting_async_threads, method,
                   expired, wakeVars, localVars, boundVars>>

\* Giving up, lock_spin_timeout undoes its swap(true).
MutantSpinCheck(p) ==
    /\ pc[p] = "spin_check"
    /\ Goto(p, IF expired[p] THEN "idle" ELSE "spin")
    /\ data_lock' = (data_lock /\ ~expired[p])
    /\ UNCHANGED <<waiting_sync_threads, waiting_async_threads, method,
                   expired, wakeVars, localVars, boundVars>>

SpinCheck(p) ==
    /\ pc[p] = "spin_check"
    /\ Goto(p, IF expired[p] THEN "idle" ELSE "spin")
    /\ UNCHANGED <<lockVars, method, expired, wakeVars, localVars, boundVars>>

-----------------------------------------------------------------------------
\* lock_block and lock_block_timeout.

\* The head of a timed loop: has the deadline passed?
CheckDeadline(p) ==
    /\ \/ pc[p] = "deadline"
          /\ Goto(p, IF expired[p] THEN "last_try" ELSE "register")
       \/ pc[p] = "adeadline"
          /\ Goto(p, IF expired[p] THEN "alast_try" ELSE "aregister")
    /\ UNCHANGED <<lockVars, method, expired, wakeVars, localVars, boundVars>>

\* None is returned without a last try.
MutantLastTry(p) ==
    /\ pc[p] \in {"last_try", "alast_try"}
    /\ Goto(p, "idle")
    /\ UNCHANGED <<lockVars, method, expired, wakeVars, localVars, boundVars>>

\* "Try one last time", then return None.
LastTry(p) ==
    /\ pc[p] \in {"last_try", "alast_try"}
    /\ TryLock(p, "idle")
    /\ UNCHANGED <<waiting_sync_threads, waiting_async_threads, method,
                   expired, wakeVars, localVars, boundVars>>

\* with_mut on the list of threads: take the lock, or join the list.
Register(p) ==
    /\ pc[p] = "register"
    /\ TryLock(p, "park")
    /\ waiting_sync_threads' = IF data_lock
                               THEN Append(waiting_sync_threads, p)
                               ELSE waiting_sync_threads
    /\ UNCHANGED <<waiting_async_threads, method, expired, wakeVars,
                   localVars, boundVars>>

Retry(p) == Goto(p, Entry(method[p]))

\* park_timeout is given no deadline.
MutantPark(p) ==
    /\ pc[p] = "park"
    /\ token[p]
    /\ token' = [token EXCEPT ![p] = FALSE]
    /\ Retry(p)
    /\ UNCHANGED <<lockVars, method, expired, gen, woken, localVars,
                   boundVars>>

\* A woken thread that finds the lock taken again parks again at once: it joins
\* the list before the loop, not in it.
MutantParkAgain(p) ==
    /\ pc[p] = "park"
    /\ token[p] \/ (Timed(p) /\ expired[p])
    /\ token' = [token EXCEPT ![p] = FALSE]
    /\ IF data_lock /\ ~expired[p] THEN UNCHANGED pc ELSE Retry(p)
    /\ UNCHANGED <<lockVars, method, expired, gen, woken, localVars,
                   boundVars>>

\* park, or park_timeout: returns when the token is there, which it takes, or
\* at the deadline.
Park(p) ==
    /\ pc[p] = "park"
    /\ token[p] \/ (Timed(p) /\ expired[p])
    /\ token' = [token EXCEPT ![p] = FALSE]
    /\ Retry(p)
    /\ UNCHANGED <<lockVars, method, expired, gen, woken, localVars,
                   boundVars>>

\* It may also return for no reason, or for a token that another user of the
\* thread's parking left behind.
ParkSpuriously(p) ==
    /\ pc[p] = "park"
    /\ spurious < MaxSpurious
    /\ spurious' = spurious + 1
    /\ Retry(p)
    /\ UNCHANGED <<lockVars, method, expired, wakeVars, localVars, calls>>

-----------------------------------------------------------------------------
\* lock_async and lock_async_timeout.

\* The sender left in the list is that of the previous continuation.
MutantRegisterAsync(p) ==
    /\ pc[p] = "aregister"
    /\ TryLock(p, "await")
    /\ IF data_lock
       THEN /\ gen' = [gen EXCEPT ![p] = @ + 1]
            /\ woken' = [woken EXCEPT ![p] = FALSE]
            /\ waiting_async_threads' =
                   Append(waiting_async_threads, Current(p))
       ELSE UNCHANGED <<gen, woken, waiting_async_threads>>
    /\ UNCHANGED <<waiting_sync_threads, method, expired, token, localVars,
                   boundVars>>

\* with_mut on the list of senders: take the lock, or make a continuation
\* and leave its sender in the list.
RegisterAsync(p) ==
    /\ pc[p] = "aregister"
    /\ TryLock(p, "await")
    /\ IF data_lock
       THEN /\ gen' = [gen EXCEPT ![p] = @ + 1]
            /\ woken' = [woken EXCEPT ![p] = FALSE]
            /\ waiting_async_threads' =
                   Append(waiting_async_threads, <<p, gen'[p]>>)
       ELSE UNCHANGED <<gen, woken, waiting_async_threads>>
    /\ UNCHANGED <<waiting_sync_threads, method, expired, token, localVars,
                   boundVars>>

\* A poll of the receiver; a timed call's Race then polls its timer.
Await(p) ==
    /\ pc[p] = "await"
    /\ \/ woken[p] /\ Retry(p)
       \/ ~woken[p] /\ Timed(p) /\ Goto(p, "race")
    /\ UNCHANGED <<lockVars, method, expired, wakeVars, localVars, boundVars>>

\* The timer thread sleeps to the deadline and sends: its receiver is ready
\* once the deadline has passed.
Race(p) ==
    /\ pc[p] = "race"
    /\ Goto(p, IF expired[p] THEN "idle" ELSE "await")
    /\ UNCHANGED <<lockVars, method, expired, wakeVars, localVars, boundVars>>

\* The future is dropped while it is pending; its sender stays in the list.
Cancel(p) ==
    /\ pc[p] = "await"
    /\ Goto(p, "idle")
    /\ UNCHANGED <<lockVars, method, expired, wakeVars, localVars, boundVars>>

-----------------------------------------------------------------------------
\* Guard::drop and did_unlock.

\* The data_lock store.
DropGuard(p) ==
    /\ pc[p] = "held"
    /\ data_lock' = FALSE
    /\ Goto(p, "take_sync")
    /\ UNCHANGED <<waiting_sync_threads, waiting_async_threads, method,
                   expired, wakeVars, localVars, boundVars>>

TakeSync(p) ==
    /\ pc[p] = "take_sync"
    /\ unparking' = [unparking EXCEPT ![p] = waiting_sync_threads]
    /\ waiting_sync_threads' = <<>>
    /\ Goto(p, "unpark")
    /\ UNCHANGED <<data_lock, waiting_async_threads, method, expired,
                   wakeVars, sending, boundVars>>

\* Only one of the threads taken from the list is woken.
MutantUnpark(p) ==
    /\ pc[p] = "unpark" /\ unparking[p] # <<>>
    /\ token' = [token EXCEPT ![Head(unparking[p])] = TRUE]
    /\ unparking' = [unparking EXCEPT ![p] = <<>>]
    /\ UNCHANGED <<lockVars, pc, method, expired, gen, woken, sending,
                   boundVars>>

Unpark(p) ==
    /\ pc[p] = "unpark" /\ unparking[p] # <<>>
    /\ token' = [token EXCEPT ![Head(unparking[p])] = TRUE]
    /\ unparking' = [unparking EXCEPT ![p] = Tail(@)]
    /\ UNCHANGED <<lockVars, pc, method, expired, gen, woken, sending,
                   boundVars>>

\* did_unlock returns early when it has unparked a thread.
MutantTakeAsync(p) ==
    /\ pc[p] = "unpark" /\ unparking[p] = <<>>
    /\ Goto(p, "send")
    /\ UNCHANGED <<lockVars, method, expired, wakeVars, localVars, boundVars>>

TakeAsync(p) ==
    /\ pc[p] = "unpark" /\ unparking[p] = <<>>
    /\ sending' = [sending EXCEPT ![p] = waiting_async_threads]
    /\ waiting_async_threads' = <<>>
    /\ Goto(p, "send")
    /\ UNCHANGED <<data_lock, waiting_sync_threads, method, expired,
                   wakeVars, unparking, boundVars>>

\* sender.send(()): its receiver, if the task still holds it, becomes ready.
Send(p) ==
    /\ pc[p] = "send" /\ sending[p] # <<>>
    /\ LET c == Head(sending[p])
       IN  woken' = [q \in Procs |-> woken[q] \/ c = Current(q)]
    /\ sending' = [sending EXCEPT ![p] = Tail(@)]
    /\ UNCHANGED <<lockVars, pc, method, expired, token, gen, unparking,
                   boundVars>>

Unlocked(p) ==
    /\ pc[p] = "send" /\ sending[p] = <<>>
    /\ Goto(p, "idle")
    /\ UNCHANGED <<lockVars, method, expired, wakeVars, localVars, boundVars>>

-----------------------------------------------------------------------------
\* What a process does on its own once it has called a method, and while it
\* unlocks; not what its client does (Call, DropGuard, Cancel), nor the clock
\* and the platform (DeadlinePasses, ParkSpuriously).
Search(p) ==
    \/ Try(p) \/ Spin(p) \/ SpinCheck(p) \/ CheckDeadline(p) \/ LastTry(p)
    \/ Register(p) \/ Park(p) \/ RegisterAsync(p) \/ Await(p) \/ Race(p)

did_unlock(p) ==
    \/ TakeSync(p) \/ Unpark(p) \/ TakeAsync(p) \/ Send(p) \/ Unlocked(p)

Step(p) ==
    \/ Call(p) \/ Search(p) \/ Cancel(p) \/ DropGuard(p) \/ did_unlock(p)
    \/ DeadlinePasses(p) \/ ParkSpuriously(p)

Next == \E p \in Procs : Step(p)

Spec == Init /\ [][Next]_vars

\* The scheduler runs every thread, executors poll, and clocks advance.
Scheduling ==
    /\ \A p \in Procs : WF_vars(Search(p) \/ did_unlock(p))
    /\ \A p \in Procs : WF_vars(DeadlinePasses(p))

\* A holder may keep the lock for ever.
FairSpec == Spec /\ Scheduling

-----------------------------------------------------------------------------
\* Properties.

\* The variables have the types the code gives them, and a thread's local
\* lists of waiters are empty outside the loops of did_unlock that use them.
TypeOK ==
    /\ data_lock \in BOOLEAN
    /\ waiting_sync_threads \in Seq(Procs)
    /\ waiting_async_threads \in Seq(Continuations)
    /\ pc \in [Procs -> ControlPoints]
    /\ method \in [Procs -> MethodNames]
    /\ expired \in [Procs -> BOOLEAN]
    /\ token \in [Procs -> BOOLEAN]
    /\ gen \in [Procs -> Nat]
    /\ woken \in [Procs -> BOOLEAN]
    /\ unparking \in [Procs -> Seq(Procs)]
    /\ sending \in [Procs -> Seq(Continuations)]
    /\ calls \in [Procs -> Nat]
    /\ spurious \in Nat
    /\ \A p \in Procs : /\ unparking[p] # <<>> => pc[p] = "unpark"
                        /\ sending[p] # <<>> => pc[p] = "send"

\* No two processes hold a Guard at once: Guard has a &mut to the data.
MutualExclusion ==
    \A p, q \in Procs : pc[p] = "held" /\ pc[q] = "held" => p = q

\* The lock bit is set exactly while a Guard exists, so it is never left set
\* by a call that gave up nor cleared under a holder.
LockBitMeansHeld == data_lock <=> \E p \in Procs : pc[p] = "held"

\* A parked thread with no token is about to be unparked; or it is in the
\* list, and the lock is held or its last holder has yet to take the list.
NoLostUnpark ==
    \A p \in Procs : pc[p] = "park" /\ ~token[p] =>
        \/ \E q \in Procs : Contains(unparking[q], p)
        \/ /\ Contains(waiting_sync_threads, p)
           /\ data_lock \/ \E q \in Procs : pc[q] = "take_sync"

\* The same of a task and the sender of the continuation it awaits, so no
\* waiter of a Mutex is forgotten, whatever did_unlock, the waiters that
\* register meanwhile, stale tokens and dropped futures do.
NoLostSend ==
    \A p \in Procs : pc[p] \in {"await", "race"} /\ ~woken[p] =>
        \/ \E q \in Procs : Contains(sending[q], Current(p))
        \/ /\ Contains(waiting_async_threads, Current(p))
           /\ data_lock \/ \E q \in Procs : pc[q] \in {"take_sync", "unpark"}

\* A thread that cannot wait on an atomic, such as a browser's main thread,
\* never parks, whichever lock_sync method it called.
MainThreadNeverParks == \A p \in Procs : pc[p] = "park" => p \in CanPark

\* A call returns without the lock only as its contract says: try_lock, or a
\* timed call whose deadline has passed; and a timed call that had parked
\* makes sure that the lock is held at that moment (Cancel, which leaves
\* "await", is the client's doing).
HonestFailure ==
    [][\A p \in Procs :
          Acquiring(p) /\ pc[p] # "await" /\ pc'[p] = "idle" =>
              \/ method[p] = "try_lock" /\ data_lock
              \/ /\ Timed(p) /\ expired[p]
                 /\ method[p] = "lock_block_timeout" => data_lock]_vars

\* What a client of the abstract lock is, from where its process is.
Status(p) == IF pc[p] = "held" THEN "in"
             ELSE IF Acquiring(p) THEN "waiting" ELSE "out"

Abstract == INSTANCE AbstractLock
                WITH Clients <- Procs, status <- [p \in Procs |-> Status(p)]

\* The Mutex implements the abstract lock: whatever method asks, a client is
\* let in only when nobody is in, and only a dropped Guard lets it out.
ImplementsLock == Abstract!Spec

\* If holders release the lock, every call returns: a thread or a task that
\* waits is woken until it gets the lock or gives up (MaxCalls bounds the
\* contention: nothing in the code is fair to a waiter against newcomers).
EveryCallReturns ==
    (\A p \in Procs : []<>(pc[p] # "held")) =>
        \A p \in Procs : Acquiring(p) ~> ~Acquiring(p)

\* A timed call returns even though the lock is never released.
TimedCallsReturn ==
    \A p \in Procs : Acquiring(p) /\ Timed(p) ~> ~Acquiring(p)
=============================================================================
