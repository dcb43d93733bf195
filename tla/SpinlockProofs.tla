--------------------------- MODULE SpinlockProofs ---------------------------
(***************************************************************************)
(* What TLAPS proves of module Spinlock, for any threads and any number of *)
(* calls, with closures that may panic.                                    *)
(***************************************************************************)
EXTENDS Spinlock, TLAPS

\* The invariant: types, exclusion, and that nobody writes the data between
\* a closure's read and its write.
IInv == /\ TypeOK
        /\ MutualExclusion
        /\ \A p \in Procs : pc[p] = "write" => seen[p] = data

\* A new Spinlock is free.
LEMMA InvInit == Init => IInv
  <1> SUFFICES ASSUME Init PROVE IInv
    OBVIOUS
  <1>1. <<>> \in Seq(Procs)
    OBVIOUS
  <1>2. TypeOK
    <2>1. pc \in [Procs -> {"out", "spin", "panicked"} \cup Inside]
      BY DEF Init
    <2>2. calls \in [Procs -> 0..MaxCalls]
      BY MaxCallsAssumption DEF Init
    <2> QED
      BY <1>1, <2>1, <2>2 DEF Init, TypeOK
  <1>3. \A p \in Procs : pc[p] = "out"
    BY DEF Init
  <1> QED
    BY <1>2, <1>3 DEF IInv, MutualExclusion, Inside

\* Nobody enters while a closure runs, and only its caller writes the data.
LEMMA InvStep == IInv /\ [Next]_vars => IInv'
  <1> SUFFICES ASSUME IInv, [Next]_vars PROVE IInv'
    OBVIOUS
  <1> USE DEF IInv, TypeOK, MutualExclusion, Inside, Goto
  <1>1. CASE UNCHANGED vars
    BY <1>1 DEF vars
  <1>2. ASSUME NEW p \in Procs, Call(p) PROVE IInv'
    BY <1>2, MaxCallsAssumption DEF Call
  <1>3. ASSUME NEW p \in Procs, Swap(p) PROVE IInv'
    BY <1>3 DEF Swap
  <1>4. ASSUME NEW p \in Procs, Read(p) PROVE IInv'
    BY <1>4 DEF Read
  <1>5. ASSUME NEW p \in Procs, Write(p) PROVE IInv'
    BY <1>5 DEF Write
  <1>6. ASSUME NEW p \in Procs, Release(p) PROVE IInv'
    BY <1>6 DEF Release
  <1>7. ASSUME NEW p \in Procs, Panic(p) PROVE IInv'
    BY <1>7 DEF Panic
  <1> QED
    BY <1>1, <1>2, <1>3, <1>4, <1>5, <1>6, <1>7
    DEF Next, with_mut

\* The invariant holds whatever closures do.
LEMMA InvCorrect == Spec => []IInv
  BY InvInit, InvStep, PTL DEF Spec

\* One closure at a time runs under the spinlock.
THEOREM SpinlockExcludes == Spec => []MutualExclusion
  <1>1. IInv => MutualExclusion
    BY DEF IInv
  <1> QED
    BY <1>1, InvCorrect, PTL

\* The write of a closure is one step of an atomic cell.
LEMMA CellStep == IInv /\ [Next]_vars => [Cell!Next]_data
  <1> SUFFICES ASSUME IInv, [Next]_vars
               PROVE  Cell!Next \/ data' = data
    OBVIOUS
  <1>1. CASE UNCHANGED vars
    BY <1>1 DEF vars
  <1>2. ASSUME NEW p \in Procs, Write(p) PROVE Cell!Next
    <2>1. data' = Append(data, p)
      BY <1>2 DEF Write, Goto, IInv
    <2> QED
      BY <2>1 DEF Cell!Next, Cell!Apply
  <1>3. ASSUME NEW p \in Procs,
               Call(p) \/ Swap(p) \/ Read(p) \/ Release(p) \/ Panic(p)
        PROVE  data' = data
    BY <1>3 DEF Call, Swap, Read, Release, Panic
  <1> QED
    BY <1>1, <1>2, <1>3 DEF Next, with_mut

\* A call of with_mut acts on the data at once: no update is lost.
THEOREM SpinlockIsAtomic == Spec => ActsAtomically
  <1>1. Init => Cell!Init
    BY DEF Init, Cell!Init
  <1> QED
    BY <1>1, CellStep, InvCorrect, PTL
    DEF Spec, ActsAtomically, Cell!Spec
=============================================================================
