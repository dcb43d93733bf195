------------------------------- MODULE RwLock -------------------------------
(***************************************************************************)
(* The read-write lock of src/rwlock/*.rs, with the ReadGuard and the      *)
(* WriteGuard of src/guard.rs: the lock word, the four lists of waiters,   *)
(* the wake-ups of did_unlock_read and did_unlock_write, and the limit on  *)
(* the number of readers.                                                  *)
(*                                                                         *)
(* As in module Mutex, a process is a thread or a task, a step is one      *)
(* atomic access, a call of Spinlock::with_mut is one step, and failed     *)
(* iterations of a spin loop are not steps.                                *)
(***************************************************************************)
EXTENDS Naturals, SequencesExt

CONSTANTS
    Procs,           \* the threads and the async tasks
    CanPark,         \* those on native, or where atomics_wait_supported()
    Methods,         \* Methods[p]: the <<how, kind>> process p may call
    LOCKED_WRITE,    \* the write bit of the lock word, 128 in the code
    MaxCalls,        \* bound: MaxCalls[p] calls made by process p
    MaxSpurious      \* bound: park calls that return for no reason, in all

Hows  == {"try", "spin", "block", "sync", "async"}
Kinds == {"read", "write"}

ASSUME ProcsAssumption ==
    /\ CanPark \subseteq Procs
    /\ Methods \in [Procs -> SUBSET (Hows \X Kinds)]
    /\ \A p \in Procs \ CanPark, k \in Kinds : <<"block", k>> \notin Methods[p]

ASSUME BoundsAssumption == MaxCalls \in [Procs -> Nat] /\ MaxSpurious \in Nat

ASSUME WordAssumption == LOCKED_WRITE \in Nat /\ LOCKED_WRITE >= 2

VARIABLES
    data_lock,     \* the lock word: the write bit, or the number of readers
    waiting,       \* the four lists of waiters
    stuck,         \* those whose spinlock a panic has left locked
    pc,            \* where each process is
    how, kind,     \* the method it is in, lock_sync_* resolved
    token,         \* std's park token of the thread
    gen,           \* how many continuations the task has made
    woken,         \* its latest continuation was sent to
    todo,          \* the lists did_unlock_* has yet to take
    waking,        \* the waiters it has taken and not yet woken
    calls, spurious

wakeVars   == <<token, gen, woken>>
unlockVars == <<todo, waking>>
boundVars  == <<calls, spurious>>
vars == <<data_lock, waiting, stuck, pc, how, kind, wakeVars, unlockVars,
          boundVars>>

-----------------------------------------------------------------------------
\* waiting[<<"block", "read">>] is waiting_sync_read_threads, and so on.
Lists == {"block", "async"} \X Kinds

SyncRead   == <<"block", "read">>
AsyncRead  == <<"async", "read">>
SyncWrite  == <<"block", "write">>
AsyncWrite == <<"async", "write">>

ListOf(p) == <<how[p], kind[p]>>

\* A list holds a thread as <<p, 0>>, and the sender of a task's n-th
\* continuation as <<p, n>>.
Handles == Procs \X Nat
Handle(p) == <<p, IF how[p] = "async" THEN gen[p] ELSE 0>>
NewHandle(p) == <<p, IF how[p] = "async" THEN gen[p] + 1 ELSE 0>>

SearchPoints  == {"try", "spin", "register", "wait"}
UnlockPoints  == {"take", "wake"}
ControlPoints == {"idle"} \cup Kinds \cup SearchPoints \cup UnlockPoints

Goto(p, l) == pc' = [pc EXCEPT ![p] = l]

Init ==
    /\ data_lock = 0
    /\ waiting = [w \in Lists |-> <<>>]
    /\ stuck = {}
    /\ pc = [p \in Procs |-> "idle"]
    /\ how = [p \in Procs |-> "try"]
    /\ kind = [p \in Procs |-> "read"]
    /\ token = [p \in Procs |-> FALSE]
    /\ gen = [p \in Procs |-> 0]
    /\ woken = [p \in Procs |-> FALSE]
    /\ todo = [p \in Procs |-> <<>>]
    /\ waking = [p \in Procs |-> <<>>]
    /\ calls = [p \in Procs |-> 0]
    /\ spurious = 0

-----------------------------------------------------------------------------
\* Acquiring.

\* The fallback for threads that cannot wait is forgotten.
MutantLockSync(p, h) == IF h = "sync" THEN "block" ELSE h

\* lock_sync_read and lock_sync_write park where the platform can.
LockSync(p, h) == IF h # "sync" THEN h
                  ELSE IF p \in CanPark THEN "block" ELSE "spin"

Entry(h) == IF h \in {"try", "spin"} THEN h ELSE "register"

Call(p) ==
    /\ pc[p] = "idle"
    /\ calls[p] < MaxCalls[p]
    /\ \E m \in Methods[p] :
           /\ how' = [how EXCEPT ![p] = LockSync(p, m[1])]
           /\ kind' = [kind EXCEPT ![p] = m[2]]
           /\ Goto(p, Entry(LockSync(p, m[1])))
    /\ calls' = [calls EXCEPT ![p] = @ + 1]
    /\ UNCHANGED <<data_lock, waiting, stuck, wakeVars, unlockVars, spurious>>

\* A writer looks at the write bit only.
MutantBlocked(p) == data_lock >= LOCKED_WRITE

\* A reader wants the lock for itself.
MutantBlockedRead(p) == data_lock # 0

\* What makes try_lock_read or try_lock_write return Err(NotAvailable).
Blocked(p) == IF kind[p] = "read" THEN data_lock >= LOCKED_WRITE
                                  ELSE data_lock # 0

\* The reader that would carry into the write bit is let in.
MutantEnter(p) ==
    /\ ~Blocked(p)
    /\ data_lock' = IF kind[p] = "read" THEN data_lock + 1 ELSE LOCKED_WRITE
    /\ Goto(p, kind[p])

Enter(p) ==
    /\ ~Blocked(p)
    /\ kind[p] = "read" => data_lock < LOCKED_WRITE - 1
    /\ data_lock' = IF kind[p] = "read" THEN data_lock + 1 ELSE LOCKED_WRITE
    /\ Goto(p, kind[p])

Try(p) ==
    /\ pc[p] = "try"
    /\ Enter(p) \/ (Blocked(p) /\ Goto(p, "idle") /\ UNCHANGED data_lock)
    /\ UNCHANGED <<waiting, stuck, how, kind, wakeVars, unlockVars, boundVars>>

Spin(p) ==
    /\ pc[p] = "spin"
    /\ Enter(p)
    /\ UNCHANGED <<waiting, stuck, how, kind, wakeVars, unlockVars, boundVars>>

\* with_mut on the method's list: take the lock, or join the list.
Register(p) ==
    /\ pc[p] = "register" /\ ListOf(p) \notin stuck
    /\ \/ Enter(p) /\ UNCHANGED <<waiting, gen, woken>>
       \/ /\ Blocked(p)
          /\ gen' = [gen EXCEPT ![p] = IF how[p] = "async" THEN @ + 1 ELSE @]
          /\ woken' = [woken EXCEPT ![p] = FALSE]
          /\ waiting' = [waiting EXCEPT ![ListOf(p)] = Append(@, NewHandle(p))]
          /\ Goto(p, "wait")
          /\ UNCHANGED data_lock
    /\ UNCHANGED <<stuck, how, kind, token, unlockVars, boundVars>>

\* try_lock_read panics, inside with_mut when it registers a waiter.
TooManyReaders(p) ==
    /\ \/ pc[p] \in {"try", "spin"} /\ UNCHANGED stuck
       \/ /\ pc[p] = "register" /\ ListOf(p) \notin stuck
          /\ stuck' = stuck \cup {ListOf(p)}
    /\ kind[p] = "read" /\ data_lock = LOCKED_WRITE - 1
    /\ Goto(p, "idle")
    /\ UNCHANGED <<data_lock, waiting, how, kind, wakeVars, unlockVars,
                   boundVars>>

\* park returns, for its token, which it takes; or the receiver is ready.
Wait(p) ==
    /\ pc[p] = "wait"
    /\ IF how[p] = "async" THEN woken[p] ELSE token[p]
    /\ token' = [token EXCEPT ![p] = IF how[p] = "async" THEN @ ELSE FALSE]
    /\ Goto(p, "register")
    /\ UNCHANGED <<data_lock, waiting, stuck, how, kind, gen, woken,
                   unlockVars, boundVars>>

\* park returns for no reason, or for a token of another user of parking.
ParkSpuriously(p) ==
    /\ pc[p] = "wait" /\ how[p] = "block"
    /\ spurious < MaxSpurious
    /\ spurious' = spurious + 1
    /\ Goto(p, "register")
    /\ UNCHANGED <<data_lock, waiting, stuck, how, kind, wakeVars,
                   unlockVars, calls>>

\* A pending future is dropped; its sender stays in the list.
Cancel(p) ==
    /\ pc[p] = "wait" /\ how[p] = "async"
    /\ Goto(p, "idle")
    /\ UNCHANGED <<data_lock, waiting, stuck, how, kind, wakeVars,
                   unlockVars, boundVars>>

-----------------------------------------------------------------------------
\* Releasing.

\* did_unlock_read goes through the readers' lists too.
MutantDropRead(p) ==
    /\ pc[p] = "read"
    /\ data_lock' = (data_lock + 2 * LOCKED_WRITE - 1) % (2 * LOCKED_WRITE)
    /\ todo' = [todo EXCEPT ![p] =
                   <<SyncRead, AsyncRead, SyncWrite, AsyncWrite>>]
    /\ Goto(p, "take")
    /\ UNCHANGED <<waiting, stuck, how, kind, wakeVars, waking, boundVars>>

\* ReadGuard::drop: fetch_sub, which wraps at the width of the word.
DropRead(p) ==
    /\ pc[p] = "read"
    /\ data_lock' = (data_lock + 2 * LOCKED_WRITE - 1) % (2 * LOCKED_WRITE)
    /\ todo' = [todo EXCEPT ![p] = <<SyncWrite, AsyncWrite>>]
    /\ Goto(p, "take")
    /\ UNCHANGED <<waiting, stuck, how, kind, wakeVars, waking, boundVars>>

\* did_unlock_write wakes the readers only.
MutantDropWrite(p) ==
    /\ pc[p] = "write"
    /\ data_lock' = 0
    /\ todo' = [todo EXCEPT ![p] = <<SyncRead, AsyncRead>>]
    /\ Goto(p, "take")
    /\ UNCHANGED <<waiting, stuck, how, kind, wakeVars, waking, boundVars>>

\* WriteGuard::drop: swap(UNLOCKED).
DropWrite(p) ==
    /\ pc[p] = "write"
    /\ data_lock' = 0
    /\ todo' = [todo EXCEPT ![p] =
                   <<SyncRead, AsyncRead, SyncWrite, AsyncWrite>>]
    /\ Goto(p, "take")
    /\ UNCHANGED <<waiting, stuck, how, kind, wakeVars, waking, boundVars>>

\* did_unlock_* takes the next list.
Take(p) ==
    /\ pc[p] = "take"
    /\ LET w == Head(todo[p])
       IN  /\ w \notin stuck
           /\ waking' = [waking EXCEPT ![p] = waiting[w]]
           /\ waiting' = [waiting EXCEPT ![w] = <<>>]
    /\ todo' = [todo EXCEPT ![p] = Tail(@)]
    /\ Goto(p, "wake")
    /\ UNCHANGED <<data_lock, stuck, how, kind, wakeVars, boundVars>>

\* unpark, or send.
Wake(p) ==
    /\ pc[p] = "wake" /\ waking[p] # <<>>
    /\ LET h == Head(waking[p])
       IN  IF h[2] = 0
           THEN token' = [token EXCEPT ![h[1]] = TRUE] /\ UNCHANGED woken
           ELSE /\ woken' = [woken EXCEPT ![h[1]] = @ \/ h[2] = gen[h[1]]]
                /\ UNCHANGED token
    /\ waking' = [waking EXCEPT ![p] = Tail(@)]
    /\ UNCHANGED <<data_lock, waiting, stuck, pc, how, kind, gen, todo,
                   boundVars>>

\* did_unlock_* returns after its first list.
MutantWoken(p) ==
    /\ pc[p] = "wake" /\ waking[p] = <<>>
    /\ Goto(p, "idle")
    /\ UNCHANGED <<data_lock, waiting, stuck, how, kind, wakeVars,
                   unlockVars, boundVars>>

Woken(p) ==
    /\ pc[p] = "wake" /\ waking[p] = <<>>
    /\ Goto(p, IF todo[p] = <<>> THEN "idle" ELSE "take")
    /\ UNCHANGED <<data_lock, waiting, stuck, how, kind, wakeVars,
                   unlockVars, boundVars>>

-----------------------------------------------------------------------------
Search(p) == Try(p) \/ Spin(p) \/ Register(p) \/ TooManyReaders(p) \/ Wait(p)

did_unlock(p) == Take(p) \/ Wake(p) \/ Woken(p)

Drop(p) == DropRead(p) \/ DropWrite(p)

Next == \E p \in Procs :
    \/ Call(p) \/ Search(p) \/ Cancel(p) \/ Drop(p) \/ did_unlock(p)
    \/ ParkSpuriously(p)

Spec == Init /\ [][Next]_vars

\* Threads are scheduled, executors poll, and holders drop their guards.
FairSpec == /\ Spec
            /\ \A p \in Procs : WF_vars(Search(p) \/ did_unlock(p))
            /\ \A p \in Procs : WF_vars(Drop(p))

-----------------------------------------------------------------------------
\* Properties.

\* The variables have the types the code gives them, and the local lists of
\* did_unlock_read and did_unlock_write are empty outside them.
TypeOK ==
    /\ data_lock \in 0..(2 * LOCKED_WRITE - 1)
    /\ waiting \in [Lists -> Seq(Handles)]
    /\ stuck \subseteq Lists
    /\ pc \in [Procs -> ControlPoints]
    /\ how \in [Procs -> Hows]
    /\ kind \in [Procs -> Kinds]
    /\ token \in [Procs -> BOOLEAN]
    /\ gen \in [Procs -> Nat]
    /\ woken \in [Procs -> BOOLEAN]
    /\ todo \in [Procs -> Seq(Lists)]
    /\ waking \in [Procs -> Seq(Handles)]
    /\ calls \in [Procs -> Nat]
    /\ spurious \in Nat
    /\ \A p \in Procs : /\ waking[p] # <<>> => pc[p] = "wake"
                        /\ todo[p] # <<>> => pc[p] \in UnlockPoints

Readers == {p \in Procs : pc[p] = "read"}
Writers == {p \in Procs : pc[p] = "write"}

\* The lock word is the write bit while a WriteGuard exists and else counts
\* the ReadGuards, so that readers never carry into the write bit and the
\* assertions of both drop functions hold.
LockWordCounts ==
    \/ Cardinality(Writers) = 1 /\ Readers = {} /\ data_lock = LOCKED_WRITE
    \/ /\ Writers = {} /\ data_lock = Cardinality(Readers)
       /\ data_lock < LOCKED_WRITE

\* A waiter that nobody has woken is about to be; or it is in the list of its
\* method, and what blocked it still does or an unlock will yet take the list.
NoLostWakeup ==
    \A p \in Procs :
        /\ pc[p] = "wait"
        /\ IF how[p] = "async" THEN ~woken[p] ELSE ~token[p]
        => \/ \E q \in Procs : Contains(waking[q], Handle(p))
           \/ /\ Contains(waiting[ListOf(p)], Handle(p))
              /\ Blocked(p) \/ \E q \in Procs : Contains(todo[q], ListOf(p))

\* A thread that cannot wait on an atomic never parks.
MainThreadNeverParks ==
    \A p \in Procs : pc[p] = "wait" => p \in CanPark \/ how[p] = "async"

\* A call ends without a guard only for the guards there are: try_lock_* meets
\* one that excludes its own, whatever readers come and go as it looks, and a
\* reader panics beside as many readers as the word can count, and never
\* because earlier ones were not counted out (Cancel, which leaves "wait", is
\* the client's doing).
HonestFailure ==
    [][\A p \in Procs :
          pc[p] \in SearchPoints \ {"wait"} /\ pc'[p] = "idle" =>
              \/ how[p] = "try" /\ Writers # {}
              \/ how[p] = "try" /\ kind[p] = "write" /\ Readers # {}
              \/ kind[p] = "read" /\ Cardinality(Readers) = LOCKED_WRITE - 1
      ]_vars

\* What a client of the abstract lock is, from where its process is.
Status(p) == IF pc[p] \in Kinds THEN pc[p]
             ELSE IF pc[p] \notin SearchPoints THEN "out"
             ELSE IF kind[p] = "read" THEN "want_read" ELSE "want_write"

Abstract == INSTANCE AbstractRwLock
                WITH Clients <- Procs, status <- [p \in Procs |-> Status(p)]

\* The RwLock implements the abstract read-write lock: no WriteGuard beside
\* another guard, whatever readers come and go and panic.
ImplementsRwLock == Abstract!Spec

\* If guards are dropped, every call returns, and so does every unlock, as
\* long as no reader too many has panicked inside with_mut (MaxCalls bounds
\* the contention: the lock prefers neither readers nor writers).
EveryCallReturns ==
    [](stuck = {}) => \A p \in Procs : pc[p] # "idle" ~> pc[p] = "idle"

\* The drop of a ReadGuard returns even so: did_unlock_read takes the writers'
\* lists only, and those a panic never leaves locked.
ReadUnlocksReturn ==
    \A p \in Procs :
        pc[p] \in UnlockPoints /\ kind[p] = "read" ~> pc[p] = "idle"
=============================================================================
