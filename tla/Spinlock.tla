------------------------------ MODULE Spinlock ------------------------------
(***************************************************************************)
(* The spinlock of src/spinlock.rs.  Its only operation, with_mut, takes   *)
(* the lock bit by swapping TRUE into it, runs the closure it was given on *)
(* the data, and clears the bit.  The closure is one that reads the data   *)
(* and writes it in two steps, as any closure may; the data is the list of *)
(* the closures that have run, so an update that overwrites another shows. *)
(* Nothing clears the bit when a closure panics.                           *)
(***************************************************************************)
EXTENDS Naturals, Sequences

CONSTANTS Procs,       \* the threads that share the spinlock
          MaxCalls     \* bound: calls of with_mut by each thread

ASSUME MaxCallsAssumption == MaxCalls \in Nat

VARIABLES
    locked,    \* the lock bit
    data,      \* what it protects
    pc,        \* "out", "spin", "read", "write", "release" or "panicked"
    seen,      \* the data as the thread's closure read it
    calls      \* how many calls each thread has begun

vars == <<locked, data, pc, seen, calls>>

Inside == {"read", "write", "release"}

Goto(p, from, to) == pc[p] = from /\ pc' = [pc EXCEPT ![p] = to]

Init == /\ locked = FALSE
        /\ data = <<>>
        /\ pc = [p \in Procs |-> "out"]
        /\ seen = [p \in Procs |-> <<>>]
        /\ calls = [p \in Procs |-> 0]

Call(p) == /\ Goto(p, "out", "spin")
           /\ calls[p] < MaxCalls
           /\ calls' = [calls EXCEPT ![p] = @ + 1]
           /\ UNCHANGED <<locked, data, seen>>

\* The bit is tested, and set in a second step that finds it as it was.
MutantSwap(p) == /\ Goto(p, "spin", "read")
                 /\ locked' = TRUE
                 /\ UNCHANGED <<data, seen, calls>>

\* swap(true) that returned false; one that returned true changes nothing.
Swap(p) == /\ Goto(p, "spin", "read")
           /\ ~locked
           /\ locked' = TRUE
           /\ UNCHANGED <<data, seen, calls>>

Read(p) == /\ Goto(p, "read", "write")
           /\ seen' = [seen EXCEPT ![p] = data]
           /\ UNCHANGED <<locked, data, calls>>

Write(p) == /\ Goto(p, "write", "release")
            /\ data' = Append(seen[p], p)
            /\ UNCHANGED <<locked, seen, calls>>

\* with_mut returns without the store that clears the bit.
MutantRelease(p) == /\ Goto(p, "release", "out")
                    /\ UNCHANGED <<locked, data, seen, calls>>

Release(p) == /\ Goto(p, "release", "out")
              /\ locked' = FALSE
              /\ UNCHANGED <<data, seen, calls>>

\* The closure panics, before or after its write: with_mut is unwound, and
\* has no guard whose drop would release the lock.
Panic(p) == /\ pc[p] \in Inside
            /\ pc' = [pc EXCEPT ![p] = "panicked"]
            /\ UNCHANGED <<locked, data, seen, calls>>

with_mut(p) == Swap(p) \/ Read(p) \/ Write(p) \/ Release(p)

Next == \E p \in Procs : Call(p) \/ with_mut(p) \/ Panic(p)

Spec == Init /\ [][Next]_vars

\* Threads are scheduled, and closures end.
FairSpec == Spec /\ \A p \in Procs : WF_vars(with_mut(p))

-----------------------------------------------------------------------------
\* Properties.

TypeOK == /\ locked \in BOOLEAN
          /\ data \in Seq(Procs)
          /\ pc \in [Procs -> {"out", "spin", "panicked"} \cup Inside]
          /\ seen \in [Procs -> Seq(Procs)]
          /\ calls \in [Procs -> 0..MaxCalls]

\* One closure runs at a time, and only under the lock bit: each has a &mut
\* to the data.
MutualExclusion ==
    \A p, q \in Procs :
        pc[p] \in Inside => locked /\ (pc[q] \in Inside => p = q)

Cell == INSTANCE AtomicCell WITH Clients <- Procs

\* A call of with_mut takes effect at once, panics or not: no closure works
\* on data that another has changed since it read them.
ActsAtomically == Cell!Spec

\* Every call returns, unless a closure panics (MaxCalls bounds the
\* contention: swap favours no thread).
EveryCallReturns ==
    (\A p \in Procs : [](pc[p] # "panicked")) =>
        \A p \in Procs : pc[p] # "out" ~> pc[p] = "out"

\* src/spinlock.rs:68 "The lock is guaranteed to be released even if the
\* closure panics": when the bit is set, some closure is running.
ReleasedEvenIfPanics == locked => \E p \in Procs : pc[p] \in Inside
=============================================================================
