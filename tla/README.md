# A verification of wasm_safe_mutex

`wasm_safe_mutex` is a family of locks for native Rust and for WebAssembly:
where a thread may wait on an atomic they park it, where it may not, as on a
browser's main thread, they spin, and tasks await.  This directory holds TLA+
models of its primitives, TLC configurations that check them on small
instances, and proofs that TLAPS checks for instances of any size.

Paths are relative to the repository: `src/mutex.rs` is the crate's file.

## 1. The system

| component | state | operations | built on |
|---|---|---|---|
| `Spinlock` (`src/spinlock.rs`) | a lock bit, the data | `with_mut` | - |
| `Mutex`, `Guard` (`src/mutex.rs`, `src/mutex/*.rs`, `src/guard.rs`) | the lock bit, a list of threads and a list of senders, each under a spinlock | `try_lock`; `lock_spin`, `lock_block`, `lock_sync`, `lock_async`, each also `_timeout`; dropping a `Guard` | Spinlock |
| `RwLock`, `ReadGuard`, `WriteGuard` (`src/rwlock/*.rs`, `src/guard.rs`) | the lock word (a write bit and a count of readers), four lists | `try_`, `lock_spin_`, `lock_block_`, `lock_sync_`, `lock_async_` for `read` and `write`; dropping either guard | Spinlock |
| `Condvar` (`src/condvar.rs`, `src/condvar/*.rs`) | three lists of waiters | `wait_spin`, `wait_block`, `wait_sync`, `wait_async`, each also `_timeout`, `_while`, `_timeout_while`; `notify_one`, `notify_all` | Mutex, Spinlock |
| `mpsc` (`src/mpsc.rs`) | a queue under a Mutex, a Condvar, `sender_count`, `receiver_active` | `send_*`, `try_recv`, `recv_*`, `recv_*_timeout`, the iterator, cloning and dropping a `Sender`, dropping the `Receiver` | Mutex, Condvar |
| `with_*` (`src/mutex/with.rs`, `src/rwlock`) | none | lock, call a closure, drop the guard | Mutex, RwLock |
| `src/wasm_support.rs` | none | `atomics_wait_supported` | JavaScript |

A component calls the ones it is built on; the processes that use it meet only
in its shared state and in what wakes them: a thread's park token
(`thread::unpark`), a task's continuation (`sender.send(())`), a spinning
waiter's flag.

**What is hard.**  Everything here is interleaving.  A waiter tries the lock,
joins a list and sleeps, while the holder clears the lock, takes the lists one
after the other and wakes what was in them; neither holds anything that stops
the other in between.  Entries outlive the wait that made them: a thread that
`park` lets go early is in the list twice, a task whose future is dropped
leaves its sender behind.  Deadlines pass while a notifier has taken a waiter
and not woken it yet.  A panic unwinds out of a spinlock.  And the channel
reads `sender_count` outside the mutex it waits with.

**What makes each component correct.**

- Spinlock: closures exclude each other, and a call acts on the data at once.
- Mutex: one `Guard` at a time; nobody who waits is forgotten; a call that
  gives up had cause to; the main thread does not park; every call returns if
  holders release, and a call with a deadline even if they do not.
- RwLock: readers exclude writers; the count of readers stays below the write
  bit; nobody who waits is forgotten; calls and unlocks return.
- Condvar: a waiter is in a list until a notifier has taken it, and is then
  woken; `WaitTimeoutResult` says what happened; `notify_one` is spent on a
  waiter that goes on; `notify_all` reaches every list.
- mpsc: messages arrive once and in order; `Disconnected` means that none will
  come; the receiver does not sleep beside a message, nor for ever once the
  senders are gone.

`PROJECT.json` lists the hazards of the code, each at its line and with the
properties that would show it going wrong.

## 2. The modules

    AtomicCell <- Spinlock <- SpinlockProofs, MCSpinlock
    AbstractLock <- Mutex <- MutexProofs, MCMutex
    AbstractRwLock <- RwLock <- RwLockProofs, MCRwLock
    SequenceFacts <- MutexProofs, RwLockProofs, CondvarProofs
    AbstractLock <- Condvar <- CondvarProofs, MCCondvar
    Condvar <- WaitWhile <- MCWaitWhile
    Condvar, AbstractChannel <- Mpsc <- MCMpsc
    Mutex, Condvar <- Monitor <- MCMonitor
    CondvarProofs <- WaitWhileProofs (with WaitWhile), MpscProofs (with Mpsc)
    MutexProofs, CondvarProofs <- MonitorProofs (with Monitor)

The layers rest on each other as the code does.  `Spinlock` is shown to
implement `AtomicCell`, and so the other modules take a call of `with_mut` as
one step.  `Mutex` is shown to implement `AbstractLock`, and so `Condvar`,
`WaitWhile` and `Mpsc` use `AbstractLock` for their mutex.  What that leaves
out, the park token that a thread has for the Mutex and the Condvar together,
is in `Monitor`, which runs both in full detail.  A definition whose
name begins with `Mutant` is a plausible mistake in the definition after it;
the project checks that each property notices one.

**Granularity.**  A process is a thread or an async task.  A step is one atomic
access to shared memory.  Failed iterations of an untimed spin loop write back
what they read and are no steps.  A closure passed to `with_mut` makes at most
one access outside the data the spinlock protects (`try_lock`), so that the
call is one step of the whole.  Steps interleave: the models assume sequential
consistency.  The code's acquire and release orderings give no less where it
matters: a waiter's failed `try_lock` and its push are inside a critical
section of the same spinlock from which the unlocker, after it has cleared the
lock bit, takes the list; one of the two sections comes first, and whichever it
is, either the waiter sees the bit cleared or the unlocker sees the entry.

**Spinlock.**  `locked` and `data` are the fields; `Swap` is the successful
`swap(true)`, `Read` and `Write` the closure, `Release` the store, `Panic` the
unwinding out of a closure, for which the code has no guard.  The data is the
sequence of the closures that have run, so that a lost update shows.

**Mutex.**  `data_lock`, `waiting_sync_threads` and `waiting_async_threads` are
the fields.  `pc[p]` says where a process is: in `try_lock` (`try`); in the
spinning methods (`spin`, and `spin_check` for the clock); in `lock_block` and
`lock_block_timeout` (`deadline`, `last_try`, `register`, `park`); in the async
ones (`adeadline`, `alast_try`, `aregister`, `await`, and `race` for the poll
of the timer); holding a Guard (`held`); or in `did_unlock` (`take_sync`,
`unpark`, `send`).  `method[p]` is the method, with `lock_sync` resolved by
`LockSync` as in `src/mutex/sync_impl.rs`.  `token[p]` is the park token.  A
continuation is a task and a number; `gen[p]` is the number of its last one and
`woken[p]` whether that one was sent to.  `DeadlinePasses` is the clock,
`ParkSpuriously` what `park` is free to do, `Cancel` an executor that drops the
future.

**RwLock.**  `data_lock` is the word, `waiting` the four lists.  `Blocked` and
`Enter` are `try_lock_read` and `try_lock_write`, `TooManyReaders` the panic in
the first, which leaves the list it was registering in in `stuck`.  `Register`,
`Wait`, `Take`, `Wake` and `Woken` serve the four lists; `todo[p]` is what an
unlock has yet to take.  `LOCKED_WRITE` is a constant, 128 in the code.

**Condvar.**  `waiting` holds the three lists.  A spinning wait is known by its
`Arc`, an async one by its id, a parking one by its thread alone: that is
`HandleOf`.  A wait goes through `enlist`, `unlock`, `pause`, and with a
deadline `clock`, `recheck` (`wait_block_timeout` looks whether it still is
listed), `withdraw` (it leaves its list) and `confirm` (`wait_spin_timeout`
waits for the flag of the notifier that took it), and then asks for the mutex.
A notification goes through `take` and `wake`, list by list.  `notified` is
history.  `Cancel` drops the future of an async wait, while it awaits its
notification or the mutex, and is also the panic of `wait_async_timeout` when
the thread of its timer cannot be spawned: the entry is in the list by then.

**Monitor.**  The steps of a wait that give up the mutex or ask for it back are
joint steps of `Condvar` and `Mutex`; all others are steps of one of them.
`Condvar`'s `status` is where the process is in `Mutex`, and both have one
`token`: `did_unlock` sets it and `notify_one` sets it, `lock_block` and
`wait_block` use it up.

**WaitWhile.**  The loops of the `_while` methods in the client of the
documentation and of `test_condvar_producer_consumer`: a producer adds one,
drops the guard and calls `notify_one`; a consumer waits while there is none
and takes one.  `WaitMore` and `Consume` are
the head of the loop and its end, which are the same in all eight methods.
Futures that are dropped and parks that return for no reason are left out here:
either may lose a notification, the first because nobody passes it on, the
second as the run `MpscStaleEntry` shows, and then `OneIsWokenUp` need not
hold.

**Mpsc.**  `queue`, `sender_count` and `receiver_active` are the fields; a
process may come to own a `Sender` through `Clone` and drops it with
`DropSender`, or use that of another through a shared reference (`Lend`,
`GiveBack`), beside its owner, who cannot drop it meanwhile.  `FirstCheck`,
`SecondCheck` and `Push` are a send; `Pop` and `SeeSenders` the loop of a
receive, which waits with the actions of Condvar.
`got` and `told` are history, for `AbstractChannel`.

## 3. What the runs check

No run checks for deadlock by itself, because clients stop after their bounded
number of calls; that nobody is left waiting is what the lost-wake-up
invariants and the liveness properties say.

| run | instance | shows |
|---|---|---|
| `Spinlock` | 3 threads, 2 calls each | `MutualExclusion`, `ActsAtomically` (refinement of `AtomicCell`), `EveryCallReturns` unless a closure panics |
| `Mutex` | a main thread that cannot park and comes twice, and two workers or tasks, between them all nine methods; 1 spurious return | `TypeOK`, `MutualExclusion`, `NoLostUnpark`, `NoLostSend`, `MainThreadNeverParks`, `HonestFailure`, `ImplementsLock` (refinement of `AbstractLock`); `EveryCallReturns` if holders release, `TimedCallsReturn` even if not |
| `RwLock` | a main thread that comes twice, a worker or task, a process that may only try; at most 2 readers | `TypeOK`, `LockWordCounts`, `NoLostWakeup`, `MainThreadNeverParks`, `HonestFailure`, `ImplementsRwLock` (refinement of `AbstractRwLock`), `EveryCallReturns` unless a list is stuck, `ReadUnlocksReturn` even if one is |
| `Condvar` | 3 processes with 3, 2 and 1 calls, all waits, 1 spurious return, dropped futures | `TypeOK`, `NoLostNotification`, `OnlyNotified`, `HonestResult` |
| `CondvarProgress` | a main thread, a worker or task, a notifier | `NotifyAllWakes`, `TimedWaitsEnd` |
| `Monitor` | a thread with 3 calls and a task with 2, waits that park or await, 1 spurious return, dropped futures; over the Mutex itself | `TypeOK`, `NoLostUnpark`, `NoLostNotification`, `OnlyNotified`, `NotifiedWaitsReturn` |
| `WaitWhile` | a producer of 2, two consumers, both of which come twice, one of which parks with deadlines and the other without, all waits but `wait_async_timeout_while` | `OneIsWokenUp`, `NothingIsLeft`, `TimedConsumersReturn` |
| `Mpsc` | two senders that clone and lend, a receiver that asks twice, all its waits but `recv_block` and `recv_sync` without a deadline, dropped futures | `ChannelTypeOK`, `NoMissedMessage`, `ImplementsChannel` (refinement of `AbstractChannel`), `NoSendToNobody`, `RecvReturns` |

Four runs show the code to differ from what its documentation says:

- `SpinlockPanic`: a closure that panics in `with_mut` leaves the spinlock
  locked (`src/spinlock.rs:135`); line 67 says it is released.
- `WaitWhileTimeout`: `wait_async_timeout` reports a timeout although a
  notifier has taken its entry (`src/condvar/wait_async.rs:267`), where the two
  synchronous methods return as notified; that `notify_one` is lost.
- `MpscStaleEntry`: `wait_block` leaves its entry in the list when `park`
  returns spuriously (`src/condvar/wait_block.rs:68`).  A receiver that comes
  back to wait with a deadline then finds itself listed after the notification
  of a send, takes itself for not notified, and sleeps beside the message; or
  the entry takes the notification meant for a later wait of another kind.
  `src/mpsc.rs:180` promises that all that is sent becomes available.
- `MpscDisconnect`: the last `Sender` decrements `sender_count` and notifies
  without the queue's mutex (`src/mpsc.rs:59`), which can fall between the
  receiver's look at the count and its joining of the list; the receiver then
  waits for ever.

These bound what else can be said, and the modules name the conditions, which
the theorems of section 4 take as hypotheses and the runs satisfy:

- `LeavesEntries(p)`: `p` may call `wait_block`, and so leave an entry behind.
  `HonestResult` speaks of a wait that parks only where this is not so.
- `NoStrays`: if the receiver may, it neither parks with a deadline nor awaits.
  `NoMissedMessage` needs it (`MpscStaleEntry`).
- `OneKind`: no consumer awaits with a deadline, and none parks both with
  deadlines and without.  `OneIsWokenUp` needs the first (`WaitWhileTimeout`),
  and the second because a token that comes late for a wait with a deadline
  ends a later `wait_block` at once, which leaves its entry behind.

While modelling, some lesser things were seen that no run is spent on.
`try_recv` says `Empty` when the mutex is held.  `try_lock_read` panics at 127
readers, though `src/rwlock/read.rs:17` knows of no failure but beside a
writer (`HonestFailure` of `RwLock` allows the panic, and says that it comes
at the limit only), and when it does so while it registers a waiter the list
stays locked for ever. Unlocking wakes all waiting writers, though
`src/rwlock/write.rs:101` speaks of one.

**Bounds.**  `MaxCalls[p]` bounds the calls of a process and `MaxSpurious` the
spurious returns of `park`; nothing else is cut off.  Three processes are a
holder, a waiter, and a newcomer or a second waiter behind the first, which is
what the races over a list need; a waiter goes round its loop any number of
times within one call, so that stale entries, tokens and continuations arise
even where a call is made once.  `LOCKED_WRITE = 3` in `RwLock` lets two
readers share the lock and makes the third one too many, as the 128th is in
the code; it also makes the refinement of readers that share real.  In
`Condvar` one process can wait twice while a second waits too and either it or
a third notifies, early or late.  In `Monitor` the thread can wait, come back
through the Mutex with a token to spare, and wait again.  In `Mpsc` two
senders suffice for messages to be interleaved, for `Clone`, and for the last
of several drops; two receives for `Disconnected` after a message, and for a
message that is there when its notification has been used.  No run uses
symmetry.

**Fairness.**  Weak fairness of what a process does inside a call says that
threads are scheduled and that executors poll what was woken.  Weak fairness of
`DeadlinePasses` says that clocks advance.  Dropping a guard is not fair in
`Mutex`: `EveryCallReturns` names it as its hypothesis, and `TimedCallsReturn`
does without.  In `RwLock` guards are dropped, and in `Condvar`, `WaitWhile`
and `Mpsc` the mutex, once free, is taken and given back, which the properties
of `Mutex` justify; `Monitor` assumes only that it is given back.  No
call, cancellation, panic or spurious return is ever assumed to happen.  The
code is not fair to a waiter against newcomers; the bound on calls is what
makes the liveness properties hold, and they say that none is left asleep, not
that none is overtaken.

## 4. What is proved

`SpinlockProofs` proves, for any threads and any number of calls, and whatever
closures panic:

- `SpinlockExcludes` and `SpinlockIsAtomic`, from the invariant `IInv`: types,
  exclusion, and that the data a closure has read is still the data when it
  writes.  The last part is what the refinement needs, since a `Write` must
  append to the data as they are.

`MutexProofs` proves, for any processes, methods and bounds, from
`ProcsAssumption` alone (those that cannot park do not call the `_block`
methods, as their documentation demands), the following, each with the help of
those before it:

- `TypeCorrect`: `TypeOK`, which also says that the lists local to
  `did_unlock` are empty outside it.
- `MutexExcludes`: `MutualExclusion`, with `LockBitMeansHeld`.  Exclusion alone
  is not inductive: a process enters because the bit is clear, so the bit must
  mean that somebody holds.  `StepMoves` sums up what a step may do to the bit
  and to one process, and the induction is over that.
- `MutexImplementsLock`: every step is one of `AbstractLock` or a stutter,
  through the same lemma.
- `MainThreadSafe` and `FailuresAreHonest`, from `MethodMatches`: a process is
  only at points of the method it called.
- `NoUnparkIsLost` and `NoSendIsLost`, which are inductive given `TypeOK`: the
  proofs go through the actions and say who carries the waiter on, the list or
  the unlocker.

`RwLockProofs` proves, for any processes, methods, bounds and width of the lock
word, from `ProcsAssumption` and `WordAssumption` (the write bit is 2 or more):

- `TypeCorrect` and `MainThreadSafe`, from `MethodMatches`, as for the Mutex.
  The two are inductive only together: an unlock takes the head of its list of
  lists, and has one because it is where it is.
- `WordIsRight`: `LockWordCounts`, from `WordCounts`, which says the same of
  the sets of readers and writers rather than of their sizes, so that each step
  adds or removes one process; it also says that the readers are finitely many,
  since `Procs` may be infinite.  `DropRead` subtracts from a word that counts
  at least the reader that drops, and so does not wrap (`SubtractOne`).
- `RwLockImplementsLock`: from `WordCounts`, a reader that enters below the
  write bit meets no writer, and a writer that finds 0 meets nobody.
- `FailuresAreHonest`: from `WordCounts`, what a failed try has read names the
  guards that excluded it.
- `NoWakeupIsLost`: inductive given the others.  `DropRead` looks at the
  writers' lists only, which is enough because no reader is blocked while
  readers hold the lock (`WordCounts`).

`CondvarProofs` proves, for any processes, waits and bounds, from
`ProcsAssumption` and `BoundsAssumption`:

- `TypeCorrect`, together with `StagesMatch` (which stages a wait of each kind
  goes through, and that a waiter has made its handle).
- `NoNotificationIsLost`, from `NoneForgotten`.  `NoLostNotification` speaks of
  waiters that pause, and is not inductive: what it says must hold from the
  waiter's joining the list on (`"unlock"`), while it looks at the clock, and
  until it leaves, when being in the list no longer helps it (`"confirm"`).
- `OnlyTheNotifiedGoOn`, from `Noted`, which traces each wake-up to a
  notification of the same wait, and `HandlesMade`, which says that no list
  holds a handle before it is made, so that a new wait starts with no wake-up
  on its way to it.
- `ResultsAreHonest`, from `Sole`: a waiter that can trust its place in the
  list is there once, in its own list only, and no more when it has been
  notified.  So that it is in the list exactly as long as it has not been
  notified, and what `Recheck` and `Withdraw` read there is true.  `KindsMatch`
  tells the ids of threads from the handles of single waits.

`CondvarInv`, the conjunction of all these, is kept by the steps of the Condvar
and by any step outside a wait (`InvAside`), and so serves the three modules
below, which do not prove it again.

`WaitWhileProofs` proves, for any producers, consumers, waits and bounds:

- `OneIsWoken`: `OneIsWokenUp` if `OneKind` holds.  The invariant must count,
  for otherwise one consumer on the way would do for two things to take:
  `Enough` says that for every list that is not empty there are as many
  processes on the way as there are things to take, where a process is on the
  way if it is a producer that has yet to look at this list, a consumer that
  has been notified, or one that asks for the mutex and has not timed out.
  Processes may be infinitely many, so `Has` speaks of a finite set among
  them. A `notify_one` that takes a waiter hands on to it, and the waiter has
  not been counted before, because whoever is in a list waits there and has
  not been notified (`ListedWait`); for threads that park without a deadline
  this needs that a token does not outlive the wait it was sent in (`Tokens`).
  A `notify_one` that finds a list empty is no longer needed for it: who joins
  it later has found nothing to take under the mutex.

`MpscProofs` proves, for any senders, waits and bounds, from
`SendersAssumption`:

- `ChannelTypesCorrect`: `ChannelTypeOK`, from `Roles` and `Guarded` (who is
  where, and who holds the mutex) and `Owned` (a Sender that is lent out has an
  owner, and whoever sends may): the count is that of the Senders that live.
- `NobodySendsToNobody`: `NoSendToNobody`, that once the receiver is gone no
  send comes to its push any more and at most one that was there queues its
  message; that it is at most one rests on `Guarded`, since the second look and
  the push are under one lock of the mutex.
- `ChannelImplemented`: every step is one of `AbstractChannel` or a stutter.
  What is hard is `Disconnected`, since `sender_count` is read outside what
  protects it: a receiver that found the queue empty under the mutex still
  finds it so, because it holds the mutex (`QueueSeen`), and once there are no
  senders nobody can send (`Owned`).
- `NoMessageIsMissed`: `NoMissedMessage` if `NoStrays` holds, from `SleepInv`:
  as long as the receiver is in its list beside a message, some sender has yet
  to look at that list, and takes no other entry of the receiver in its stead.

`MonitorProofs` proves, for any processes, methods, waits and bounds, from
`ProcsAssumption` and the assumptions on what the processes call:

- `TypesCorrect`, `NoUnparkIsLost`, `NoNotificationIsLost`,
  `OnlyTheNotifiedGoOn`, and `MutexStaysCorrect` (mutual exclusion, and tasks
  that wait for the Mutex).  The invariant is that of the Mutex and that of the
  Condvar, and `Joined`: who waits in the Mutex has ended its wait in the
  Condvar.  The lemmas of `MutexProofs` and `CondvarProofs` are cited through
  instances; what is new is that each of the two keeps its invariant under
  steps of the other that give out or use up tokens.

`SequenceFacts` has what these proofs use of the lists: what `Append`, `Tail`,
`Front` and `RemoveFirst` keep and what they remove, and how often an element
is in them.

Only model-checked is liveness, which is out of the prover's reach:
`EveryCallReturns`, `TimedCallsReturn`, `ReadUnlocksReturn`, `NotifyAllWakes`,
`TimedWaitsEnd`, `NotifiedWaitsReturn`, `NothingIsLeft`,
`TimedConsumersReturn` and `RecvReturns`.  Every other property of a run is a
theorem.

## 5. What is not modelled

- `with_*`: a lock, a closure and a drop, which add no step to those modelled.
- Formatting, `Default`, `From`, `Debug`: no state (`Display` is a `try_lock`).
- `std` and `wasm_safe_thread` threads, `r#continue`, executors: modelled only
  as what the crate sees of them (a token, a receiver that is ready, a clock).
  The timer thread of the `_async_timeout` methods is the passing of the
  deadline.  That spawning it may fail is in `Cancel`: of the Condvar's, after
  the entry has joined the list; of the Mutex's, where the panic leaves what a
  future dropped at its first poll leaves.
- Panics other than those in `with_mut`: a poisoned Mutex does not exist, a
  `Guard` is dropped while unwinding as it is otherwise.
- A condition of a `_while` wait that panics: it runs with the guard, which is
  dropped, and the wait is over with the notification that led to it used up.
  `OneIsWokenUp` does not hold of such a client, and nothing promises it.
- Growth of lists and queues, and 64-bit counters that wrap.

## 6. Plan

1. Spinlock and Mutex, which all else rests on: modelled, checked, proved.
2. RwLock, Condvar, the `_while` waits, mpsc, and Condvar over Mutex itself:
   modelled and checked.
3. Proofs of every safety property of the modules: done.  What remains of the
   proofs is to drop `NoStrays` and `OneKind` where a weaker condition would do
   (`recv_block` beside `recv_async` when `park` never returns early).
4. More of the model: a condition that panics in a `_while` wait; a bound on
   the growth of the lists, should the code come to promise one; the `with_*`
   closures acting on data, shown to be atomic over `AbstractRwLock`.
