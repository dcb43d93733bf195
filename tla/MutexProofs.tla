---------------------------- MODULE MutexProofs ----------------------------
(***************************************************************************)
(* What TLAPS proves of module Mutex, for any processes, methods and       *)
(* bounds.  The invariants are proved one after the other, each with the   *)
(* help of those before it: TypeOK; the lock bit and mutual exclusion;     *)
(* MethodMatches; and the two halves of "no wake-up is lost".              *)
(***************************************************************************)
EXTENDS Mutex, SequenceFacts

-----------------------------------------------------------------------------
\* Type correctness.

\* A new Mutex has the types that TypeOK states.
LEMMA TypeInit == Init => TypeOK
  <1> SUFFICES ASSUME Init PROVE TypeOK
    OBVIOUS
  <1>1. <<>> \in Seq(Procs) /\ <<>> \in Seq(Continuations)
    OBVIOUS
  <1>2. "idle" \in ControlPoints /\ "try_lock" \in MethodNames
    BY DEF ControlPoints, MethodNames
  <1> QED
    BY <1>1, <1>2 DEF Init, TypeOK

\* lock_sync resolves to a method, and a method to the point it starts at.
LEMMA LockSyncType ==
    ASSUME NEW p \in Procs, NEW m \in MethodNames
    PROVE  /\ LockSync(p, m) \in MethodNames
           /\ Entry(LockSync(p, m)) \in SearchPoints
  BY DEF LockSync, Entry, MethodNames, SearchPoints

\* No step of the code leaves the types.
LEMMA TypeStep == TypeOK /\ [Next]_vars => TypeOK'
  <1> SUFFICES ASSUME TypeOK, [Next]_vars PROVE TypeOK'
    OBVIOUS
  <1> USE DEF TypeOK, Goto, lockVars, wakeVars, localVars, boundVars
  <1>a. /\ WaitPoints \subseteq ControlPoints
        /\ SearchPoints \subseteq ControlPoints
        /\ UnlockPoints \subseteq ControlPoints
        /\ {"idle", "held"} \subseteq ControlPoints
    BY DEF ControlPoints
  <1>b. "idle" \notin UnlockPoints
    BY DEF UnlockPoints
  <1>1. CASE UNCHANGED vars
    BY <1>1 DEF vars
  <1>2. ASSUME NEW p \in Procs, Call(p) PROVE TypeOK'
    <2>1. PICK m \in Methods[p] :
              /\ method' = [method EXCEPT ![p] = LockSync(p, m)]
              /\ pc' = [pc EXCEPT ![p] = Entry(LockSync(p, m))]
      BY <1>2 DEF Call, Ask
    <2>2. m \in MethodNames
      BY ProcsAssumption
    <2>3. /\ LockSync(p, m) \in MethodNames
          /\ Entry(LockSync(p, m)) \in ControlPoints
      BY <2>2, LockSyncType, <1>a
    <2> QED
      BY <1>2, <2>1, <2>3 DEF Call, Ask
  <1>3. ASSUME NEW p \in Procs, DeadlinePasses(p) PROVE TypeOK'
    BY <1>3 DEF DeadlinePasses
  <1>4. ASSUME NEW p \in Procs, Try(p) \/ Spin(p) \/ SpinCheck(p) PROVE TypeOK'
    BY <1>4
    DEF Try, Spin, SpinCheck, TryLock, Acquire, ControlPoints, SearchPoints
  <1>5. ASSUME NEW p \in Procs, CheckDeadline(p) \/ LastTry(p) PROVE TypeOK'
    BY <1>5
    DEF CheckDeadline, LastTry, TryLock, Acquire, ControlPoints, SearchPoints
  <1>6. ASSUME NEW p \in Procs, Register(p) PROVE TypeOK'
    <2>1. waiting_sync_threads' \in Seq(Procs)
      BY <1>6, InAppend DEF Register
    <2> QED
      BY <1>6, <2>1 DEF Register, TryLock, Acquire, ControlPoints, WaitPoints
  <1>7. ASSUME NEW p \in Procs, Park(p) \/ ParkSpuriously(p) PROVE TypeOK'
    <2>1. Entry(method[p]) \in ControlPoints
      BY DEF Entry, ControlPoints, SearchPoints
    <2>2. spurious' \in Nat /\ token' \in [Procs -> BOOLEAN]
      <3>1. CASE Park(p)
        BY <3>1 DEF Park
      <3>2. CASE ParkSpuriously(p)
        BY <3>2 DEF ParkSpuriously
      <3> QED
        BY <1>7, <3>1, <3>2
    <2>3. pc[p] = "park" /\ pc' = [pc EXCEPT ![p] = Entry(method[p])]
      BY <1>7 DEF Park, ParkSpuriously, Retry
    <2>4. UNCHANGED <<lockVars, method, expired, gen, woken, localVars, calls>>
      BY <1>7 DEF Park, ParkSpuriously
    <2> QED
      BY <2>1, <2>2, <2>3, <2>4
  <1>8. ASSUME NEW p \in Procs, RegisterAsync(p) PROVE TypeOK'
    <2>1. gen' \in [Procs -> Nat]
      <3>1. CASE data_lock
        <4>1. gen' = [gen EXCEPT ![p] = @ + 1]
          BY <1>8, <3>1 DEF RegisterAsync
        <4> QED
          BY <4>1
      <3> QED
        BY <1>8, <3>1 DEF RegisterAsync
    <2>3. woken' \in [Procs -> BOOLEAN]
      <3>1. CASE data_lock
        <4>1. woken' = [woken EXCEPT ![p] = FALSE]
          BY <1>8, <3>1 DEF RegisterAsync
        <4> QED
          BY <4>1
      <3> QED
        BY <1>8, <3>1 DEF RegisterAsync
    <2>2. waiting_async_threads' \in Seq(Continuations)
      <3>1. CASE data_lock
        <4>1. /\ gen' = [gen EXCEPT ![p] = @ + 1]
              /\ waiting_async_threads' =
                     Append(waiting_async_threads, <<p, gen'[p]>>)
          BY <1>8, <3>1 DEF RegisterAsync
        <4>2. <<p, gen'[p]>> \in Continuations
          BY <4>1 DEF Continuations
        <4> QED
          BY <4>1, <4>2, InAppend
      <3> QED
        BY <1>8, <3>1 DEF RegisterAsync
    <2> QED
      BY <1>8, <2>1, <2>2, <2>3
      DEF RegisterAsync, TryLock, Acquire, ControlPoints, WaitPoints
  <1>9. ASSUME NEW p \in Procs, Await(p) \/ Race(p) \/ Cancel(p) PROVE TypeOK'
    BY <1>9
    DEF Await, Race, Cancel, Retry, Entry, ControlPoints, SearchPoints,
        WaitPoints
  <1>10. ASSUME NEW p \in Procs, DropGuard(p) PROVE TypeOK'
    BY <1>10 DEF DropGuard, ControlPoints, UnlockPoints
  <1>11. ASSUME NEW p \in Procs, TakeSync(p) PROVE TypeOK'
    BY <1>11 DEF TakeSync, ControlPoints, UnlockPoints
  <1>12. ASSUME NEW p \in Procs, Unpark(p) PROVE TypeOK'
    <2>1. unparking' \in [Procs -> Seq(Procs)]
      BY <1>12, InTail DEF Unpark
    <2> QED
      BY <1>12, <2>1 DEF Unpark
  <1>13. ASSUME NEW p \in Procs, TakeAsync(p) PROVE TypeOK'
    BY <1>13 DEF TakeAsync, ControlPoints, UnlockPoints
  <1>14. ASSUME NEW p \in Procs, Send(p) PROVE TypeOK'
    <2>1. sending' \in [Procs -> Seq(Continuations)]
      BY <1>14, InTail DEF Send
    <2>2. woken' \in [Procs -> BOOLEAN]
      BY <1>14 DEF Send, Current
    <2> QED
      BY <1>14, <2>1, <2>2 DEF Send
  <1>15. ASSUME NEW p \in Procs, Unlocked(p) PROVE TypeOK'
    BY <1>15 DEF Unlocked, ControlPoints
  <1> QED
    BY <1>1, <1>2, <1>3, <1>4, <1>5, <1>6, <1>7, <1>8, <1>9, <1>10, <1>11,
       <1>12, <1>13, <1>14, <1>15
    DEF Next, Step, Search, did_unlock

\* The variables of the Mutex always have their types, and a thread's local
\* lists are empty outside did_unlock.
THEOREM TypeCorrect == Spec => []TypeOK
  BY TypeInit, TypeStep, PTL DEF Spec
-----------------------------------------------------------------------------
\* Mutual exclusion, and the abstract lock.

\* A step moves one process, to l: from the lock, into it, or neither.
MovesTo(p, l) ==
    /\ pc' = [pc EXCEPT ![p] = l]
    /\ \/ pc[p] # "held" /\ l # "held" /\ data_lock' = data_lock
       \/ Acquiring(p) /\ l = "held" /\ ~data_lock /\ data_lock'
       \/ pc[p] = "held" /\ l = "take_sync" /\ ~data_lock'

\* Every step moves one process, and touches the lock bit only when that
\* process takes the lock or drops its Guard.
LEMMA StepMoves ==
    ASSUME TypeOK, NEW p \in Procs,
           Step(p)
    PROVE  \E l \in ControlPoints : MovesTo(p, l)
  <1> USE DEF TypeOK, Goto, lockVars, MovesTo
  <1>1. CASE Call(p)
    <2>1. PICK m \in Methods[p] :
              pc' = [pc EXCEPT ![p] = Entry(LockSync(p, m))]
      BY <1>1 DEF Call, Ask
    <2>2. Entry(LockSync(p, m)) \in SearchPoints
      BY ProcsAssumption, LockSyncType
    <2> QED
      BY <1>1, <2>1, <2>2 DEF Call, Ask, SearchPoints, ControlPoints
  <1>2. CASE DeadlinePasses(p) \/ Unpark(p) \/ Send(p)
    <2>1. pc[p] \in ControlPoints /\ pc[p] # "held"
      BY <1>2
      DEF DeadlinePasses, Acquiring, WaitPoints, SearchPoints, Unpark, Send
    <2> QED
      BY <1>2, <2>1 DEF DeadlinePasses, Unpark, Send
  <1>3. CASE \/ Try(p) \/ Spin(p) \/ SpinCheck(p)
             \/ CheckDeadline(p) \/ LastTry(p)
    BY <1>3
    DEF Try, Spin, SpinCheck, CheckDeadline, LastTry, TryLock, Acquire,
        Acquiring, ControlPoints, SearchPoints
  <1>4. CASE Register(p) \/ RegisterAsync(p)
    BY <1>4
    DEF Register, RegisterAsync, TryLock, Acquire, Acquiring, ControlPoints,
        SearchPoints, WaitPoints
  <1>5. CASE Park(p) \/ ParkSpuriously(p) \/ Await(p) \/ Race(p) \/ Cancel(p)
    BY <1>5
    DEF Park, ParkSpuriously, Await, Race, Cancel, Retry, Entry,
        ControlPoints, SearchPoints, WaitPoints
  <1>6. CASE DropGuard(p) \/ TakeSync(p) \/ TakeAsync(p) \/ Unlocked(p)
    BY <1>6
    DEF DropGuard, TakeSync, TakeAsync, Unlocked, ControlPoints, UnlockPoints
  <1> QED
    BY <1>1, <1>2, <1>3, <1>4, <1>5, <1>6 DEF Step, Search, did_unlock

\* So no step makes the bit differ from "somebody holds a Guard", nor two hold
\* one.
LEMMA LockBitStep ==
    TypeOK /\ LockBitMeansHeld /\ MutualExclusion /\ [Next]_vars
        => LockBitMeansHeld' /\ MutualExclusion'
  <1> SUFFICES ASSUME TypeOK, LockBitMeansHeld, MutualExclusion, [Next]_vars
               PROVE  LockBitMeansHeld' /\ MutualExclusion'
    OBVIOUS
  <1>1. CASE UNCHANGED vars
    BY <1>1 DEF vars, lockVars, LockBitMeansHeld, MutualExclusion
  <1>2. CASE Next
    <2>1. PICK p \in Procs, l \in ControlPoints : MovesTo(p, l)
      BY <1>2, StepMoves DEF Next
    <2>2. \A q \in Procs : pc'[q] = IF q = p THEN l ELSE pc[q]
      BY <2>1 DEF MovesTo, TypeOK
    <2>3. CASE pc[p] # "held" /\ l # "held" /\ data_lock' = data_lock
      BY <2>2, <2>3 DEF LockBitMeansHeld, MutualExclusion
    <2>4. CASE Acquiring(p) /\ l = "held" /\ ~data_lock /\ data_lock'
      BY <2>2, <2>4 DEF LockBitMeansHeld, MutualExclusion
    <2>5. CASE pc[p] = "held" /\ l = "take_sync" /\ ~data_lock'
      BY <2>2, <2>5 DEF LockBitMeansHeld, MutualExclusion
    <2> QED
      BY <2>1, <2>3, <2>4, <2>5 DEF MovesTo
  <1> QED
    BY <1>1, <1>2

\* The bit that try_lock tests says whether somebody holds a Guard.
LEMMA LockBitCorrect == Spec => [](LockBitMeansHeld /\ MutualExclusion)
  <1>1. Init => LockBitMeansHeld /\ MutualExclusion
    BY DEF Init, LockBitMeansHeld, MutualExclusion
  <1> QED
    BY <1>1, LockBitStep, TypeCorrect, PTL DEF Spec

\* At most one Guard of a Mutex exists at a time.
THEOREM MutexExcludes == Spec => []MutualExclusion
  BY LockBitCorrect, PTL

\* A new Mutex is a free lock.
LEMMA AbstractInit == Init => Abstract!Init
  BY DEF Init, Abstract!Init, Status, Acquiring, WaitPoints, SearchPoints

\* Every step of the code is one of the abstract lock, or stutters.
LEMMA AbstractStep ==
    TypeOK /\ LockBitMeansHeld /\ [Next]_vars
        => [Abstract!Next]_[p \in Procs |-> Status(p)]
  <1> DEFINE status == [p \in Procs |-> Status(p)]
  <1> SUFFICES ASSUME TypeOK, LockBitMeansHeld, [Next]_vars
               PROVE  Abstract!Next \/ status' = status
    BY DEF Abstract!Next
  <1>1. CASE UNCHANGED vars
    BY <1>1 DEF vars, Status, Acquiring
  <1>2. CASE Next
    <2>1. PICK p \in Procs, l \in ControlPoints : MovesTo(p, l)
      BY <1>2, StepMoves DEF Next
    <2>2. \A q \in Procs : pc'[q] = IF q = p THEN l ELSE pc[q]
      BY <2>1 DEF MovesTo, TypeOK
    <2>3. status' = [status EXCEPT ![p] = Status(p)']
      BY <2>2 DEF Status, Acquiring
    <2>4. CASE pc[p] # "held" /\ l # "held" /\ data_lock' = data_lock
      <3>1. /\ status[p] \in {"out", "waiting"}
            /\ Status(p)' \in {"out", "waiting"}
        BY <2>2, <2>4 DEF Status
      <3> QED
        BY <2>3, <3>1 DEF Abstract!Next, Abstract!Request, Abstract!GiveUp
    <2>5. CASE Acquiring(p) /\ l = "held" /\ ~data_lock /\ data_lock'
      <3>1. \A q \in Procs : status[q] # "in"
        BY <2>5 DEF LockBitMeansHeld, Status
      <3>2. status[p] = "waiting" /\ Status(p)' = "in"
        BY <2>2, <2>5, <3>1 DEF Status
      <3> QED
        BY <2>3, <3>1, <3>2 DEF Abstract!Next, Abstract!Enter
    <2>6. CASE pc[p] = "held" /\ l = "take_sync" /\ ~data_lock'
      <3>1. status[p] = "in" /\ Status(p)' = "out"
        BY <2>2, <2>6 DEF Status, Acquiring, WaitPoints, SearchPoints
      <3> QED
        BY <2>3, <3>1 DEF Abstract!Next, Abstract!Leave
    <2> QED
      BY <2>1, <2>4, <2>5, <2>6 DEF MovesTo
  <1> QED
    BY <1>1, <1>2

\* A Mutex implements the abstract lock: every step of every method is a step
\* of a client asking, entering, giving up or leaving, or no step at all.
THEOREM MutexImplementsLock == Spec => ImplementsLock
  BY AbstractInit, AbstractStep, TypeCorrect, LockBitCorrect, PTL
  DEF Spec, ImplementsLock, Abstract!Spec
-----------------------------------------------------------------------------
\* Which method a process is in, and what that says of how it ends.

\* The method decides the control points a process passes, it is past its
\* deadline where it tries for the last time, and a process that cannot wait
\* on an atomic never runs a _block method.
MatchesAt(p) ==
    /\ pc[p] = "try" => method[p] = "try_lock"
    /\ pc[p] = "spin" => method[p] \in {"lock_spin", "lock_spin_timeout"}
    /\ pc[p] = "spin_check" => method[p] = "lock_spin_timeout"
    /\ pc[p] \in {"register", "park"} =>
           method[p] \in {"lock_block", "lock_block_timeout"}
    /\ pc[p] \in {"deadline", "last_try"} => method[p] = "lock_block_timeout"
    /\ pc[p] \in {"aregister", "await"} =>
           method[p] \in {"lock_async", "lock_async_timeout"}
    /\ pc[p] \in {"adeadline", "alast_try", "race"} =>
           method[p] = "lock_async_timeout"
    /\ pc[p] \in {"last_try", "alast_try"} => expired[p]
    /\ p \notin CanPark =>
           method[p] \notin {"lock_block", "lock_block_timeout"}

MethodMatches == \A p \in Procs : MatchesAt(p)

\* No step takes a process to a point outside the method it runs.
LEMMA MatchesStep == TypeOK /\ MethodMatches /\ [Next]_vars => MethodMatches'
  <1> SUFFICES ASSUME TypeOK, MethodMatches, [Next]_vars PROVE MethodMatches'
    OBVIOUS
  <1>1. CASE UNCHANGED vars
    BY <1>1 DEF vars, MethodMatches, MatchesAt
  <1>2. ASSUME NEW p \in Procs,
               Step(p)
        PROVE  MethodMatches'
    <2> USE DEF TypeOK, Goto
    <2>a. MatchesAt(p)
      BY DEF MethodMatches
    <2>1. ASSUME NEW q \in Procs, q # p PROVE MatchesAt(q)'
      <3>1. pc'[q] = pc[q]
        BY <1>2, <2>1, StepMoves DEF MovesTo
      <3>2. method'[q] = method[q] /\ expired'[q] = expired[q]
        BY <1>2, <2>1
        DEF Step, Call, Ask, Search, DeadlinePasses, Cancel, DropGuard,
            did_unlock, Try, Spin, SpinCheck, CheckDeadline, LastTry,
            Register, Park, ParkSpuriously, RegisterAsync, Await, Race,
            TakeSync, Unpark, TakeAsync, Send, Unlocked
      <3> QED
        BY <3>1, <3>2 DEF MethodMatches, MatchesAt
    <2>2. CASE Call(p)
      <3>1. PICK m \in Methods[p] :
                /\ method' = [method EXCEPT ![p] = LockSync(p, m)]
                /\ pc' = [pc EXCEPT ![p] = Entry(LockSync(p, m))]
        BY <2>2 DEF Call, Ask
      <3>2. method'[p] = LockSync(p, m) /\ pc'[p] = Entry(LockSync(p, m))
        BY <3>1
      <3>3. m \in MethodNames
        BY ProcsAssumption
      <3>4. p \notin CanPark => m \notin {"lock_block", "lock_block_timeout"}
        BY ProcsAssumption
      <3>5. MatchesAt(p)'
        BY <3>2, <3>3, <3>4 DEF MatchesAt, LockSync, Entry, MethodNames
      <3> QED
        BY <2>1, <3>5 DEF MethodMatches
    <2>3. CASE Try(p) \/ Spin(p) \/ SpinCheck(p)
      <3>1. MatchesAt(p)'
        BY <2>3, <2>a
        DEF MatchesAt, Try, Spin, SpinCheck, TryLock, Acquire, Timed
      <3> QED
        BY <2>1, <3>1 DEF MethodMatches
    <2>4. CASE CheckDeadline(p) \/ LastTry(p)
      <3>1. MatchesAt(p)'
        BY <2>4, <2>a DEF MatchesAt, CheckDeadline, LastTry, TryLock, Acquire
      <3> QED
        BY <2>1, <3>1 DEF MethodMatches
    <2>5. CASE Register(p) \/ RegisterAsync(p)
      <3>1. MatchesAt(p)'
        BY <2>5, <2>a DEF MatchesAt, Register, RegisterAsync, TryLock, Acquire
      <3> QED
        BY <2>1, <3>1 DEF MethodMatches
    <2>6. CASE Park(p) \/ ParkSpuriously(p) \/ Await(p) \/ Race(p) \/ Cancel(p)
      <3>1. MatchesAt(p)'
        BY <2>6, <2>a
        DEF MatchesAt, Park, ParkSpuriously, Await, Race, Cancel, Retry,
            Entry, Timed
      <3> QED
        BY <2>1, <3>1 DEF MethodMatches
    <2>7. CASE DeadlinePasses(p) \/ DropGuard(p) \/ did_unlock(p)
      <3>1. MatchesAt(p)'
        BY <2>7, <2>a
        DEF MatchesAt, DeadlinePasses, DropGuard, did_unlock, TakeSync, Unpark,
            TakeAsync, Send, Unlocked
      <3> QED
        BY <2>1, <3>1 DEF MethodMatches
    <2> QED
      BY <1>2, <2>2, <2>3, <2>4, <2>5, <2>6, <2>7 DEF Step, Search
  <1> QED
    BY <1>1, <1>2 DEF Next

\* A process is only ever inside the method it called.
LEMMA MatchesCorrect == Spec => []MethodMatches
  <1>1. Init => MethodMatches
    BY DEF Init, MethodMatches, MatchesAt
  <1> QED
    BY <1>1, MatchesStep, TypeCorrect, PTL DEF Spec

\* A thread that cannot wait on an atomic never parks in a Mutex.
THEOREM MainThreadSafe == Spec => []MainThreadNeverParks
  <1>1. MethodMatches => MainThreadNeverParks
    BY DEF MethodMatches, MatchesAt, MainThreadNeverParks
  <1> QED
    BY <1>1, MatchesCorrect, PTL

\* A call that returns without the lock had found the lock held, or was past
\* its deadline, as its method requires.
THEOREM FailuresAreHonest == Spec => HonestFailure
  <1> DEFINE Honest ==
        \A p \in Procs :
          Acquiring(p) /\ pc[p] # "await" /\ pc'[p] = "idle" =>
              \/ method[p] = "try_lock" /\ data_lock
              \/ /\ Timed(p) /\ expired[p]
                 /\ method[p] = "lock_block_timeout" => data_lock
  <1>1. TypeOK /\ MethodMatches /\ [Next]_vars => [Honest]_vars
    <2> SUFFICES ASSUME TypeOK, MethodMatches, Next, NEW q \in Procs,
                        Acquiring(q), pc[q] # "await", pc'[q] = "idle"
                 PROVE  \/ method[q] = "try_lock" /\ data_lock
                        \/ /\ Timed(q) /\ expired[q]
                           /\ method[q] = "lock_block_timeout" => data_lock
      OBVIOUS
    <2> USE DEF TypeOK, Goto
    <2>1. PICK p \in Procs : Step(p)
      BY DEF Next
    <2>2. pc[q] # "idle" /\ pc[q] \notin {"held"} \cup UnlockPoints
      BY DEF Acquiring, SearchPoints, WaitPoints, UnlockPoints
    <2>3. p = q
      BY <2>1, <2>2, StepMoves DEF MovesTo
    <2>4. Search(q)
      BY <2>1, <2>2, <2>3
      DEF Call, Ask, Cancel, DropGuard, did_unlock, UnlockPoints, TakeSync,
          Unpark, TakeAsync, Send, Unlocked, DeadlinePasses, Step,
          ParkSpuriously, Retry, Entry
    <2>5. pc[q] \in {"try", "spin_check", "last_try", "alast_try", "race"}
      BY <2>2, <2>4
      DEF Search, Try, Spin, SpinCheck, CheckDeadline, LastTry, Register,
          Park, RegisterAsync, Await, Race, TryLock, Acquire, Retry, Entry
    <2>6. MatchesAt(q)
      BY DEF MethodMatches
    <2>7. pc[q] \in {"try", "last_try"} => data_lock
      BY <2>2, <2>4
      DEF Search, Try, Spin, SpinCheck, CheckDeadline, LastTry, Register,
          Park, RegisterAsync, Await, Race, TryLock, Acquire
    <2>8. pc[q] \in {"spin_check", "race"} => expired[q]
      BY <2>2, <2>4
      DEF Search, Try, Spin, SpinCheck, CheckDeadline, LastTry, Register,
          Park, RegisterAsync, Await, Race
    <2> QED
      BY <2>5, <2>6, <2>7, <2>8 DEF MatchesAt, Timed
  <1> QED
    BY <1>1, TypeCorrect, MatchesCorrect, PTL DEF Spec, HonestFailure
-----------------------------------------------------------------------------
\* No wake-up is lost.

\* What NoLostUnpark says of one thread, and NoLostSend of one task.
WillUnpark(p) ==
    \/ \E q \in Procs : Contains(unparking[q], p)
    \/ /\ Contains(waiting_sync_threads, p)
       /\ data_lock \/ \E q \in Procs : pc[q] = "take_sync"

WillSend(p) ==
    \/ \E q \in Procs : Contains(sending[q], Current(p))
    \/ /\ Contains(waiting_async_threads, Current(p))
       /\ data_lock \/ \E q \in Procs : pc[q] \in {"take_sync", "unpark"}

\* Whoever was registered, or about to be unparked, still is, or has its token.
LEMMA UnparkStep == TypeOK /\ NoLostUnpark /\ [Next]_vars => NoLostUnpark'
  <1> SUFFICES ASSUME TypeOK, NoLostUnpark, [Next]_vars PROVE NoLostUnpark'
    OBVIOUS
  <1> USE DEF Goto
  <1>1. CASE UNCHANGED vars
    BY <1>1 DEF vars, lockVars, wakeVars, localVars, NoLostUnpark, Contains
  <1>2. ASSUME NEW p \in Procs,
               Step(p),
               NEW r \in Procs, pc'[r] = "park", ~token'[r]
        PROVE  WillUnpark(r)'
    <2>1. PICK l \in ControlPoints : MovesTo(p, l)
      BY <1>2, StepMoves
    <2>2. \A q \in Procs : pc'[q] = IF q = p THEN l ELSE pc[q]
      BY <2>1 DEF MovesTo, TypeOK
    <2>a. data_lock => data_lock' \/ pc'[p] = "take_sync"
      BY <2>1, <2>2 DEF MovesTo
    <2>3. CASE Register(p)
      <3>1. token[r] = token'[r] /\ unparking' = unparking
        BY <2>3 DEF Register, wakeVars, localVars
      <3>2. CASE r = p
        <4>1. data_lock /\ data_lock'
          BY <1>2, <2>2, <2>3, <3>2
          DEF Register, TryLock, Acquire, TypeOK
        <4>2. Contains(waiting_sync_threads', r)
          BY <2>3, <3>2, <4>1, InAppend DEF Register, TypeOK
        <4> QED
          BY <4>1, <4>2 DEF WillUnpark
      <3>3. CASE r # p
        <4>1. WillUnpark(r)
          BY <1>2, <2>2, <3>1, <3>3 DEF NoLostUnpark, WillUnpark
        <4>2. Contains(waiting_sync_threads, r)
                  => Contains(waiting_sync_threads', r)
          BY <2>3, InAppend DEF Register, TypeOK
        <4>3. pc[p] # "take_sync"
          BY <2>3 DEF Register
        <4> QED
          BY <2>2, <2>a, <3>1, <4>1, <4>2, <4>3 DEF WillUnpark
      <3> QED
        BY <3>2, <3>3
    <2>4. CASE TakeSync(p)
      <3>1. WillUnpark(r)
        BY <1>2, <2>2, <2>4
        DEF TakeSync, wakeVars, NoLostUnpark, WillUnpark, TypeOK
      <3>2. unparking'[p] = waiting_sync_threads
        BY <2>4 DEF TakeSync, TypeOK
      <3>3. CASE Contains(waiting_sync_threads, r)
        BY <3>2, <3>3 DEF WillUnpark
      <3>4. ASSUME NEW q \in Procs, Contains(unparking[q], r)
            PROVE  WillUnpark(r)'
        <4>1. q # p
          BY <2>4, <3>4, InEmpty DEF TakeSync, TypeOK
        <4>2. unparking'[q] = unparking[q]
          BY <2>4, <4>1 DEF TakeSync, TypeOK
        <4> QED
          BY <3>4, <4>2 DEF WillUnpark
      <3> QED
        BY <3>1, <3>3, <3>4 DEF WillUnpark
    <2>5. CASE Unpark(p)
      <3>1. WillUnpark(r) /\ r # Head(unparking[p])
        BY <1>2, <2>5, InTail DEF Unpark, NoLostUnpark, WillUnpark, TypeOK
      <3>2. /\ unparking'[p] = Tail(unparking[p])
            /\ \A q \in Procs : q # p => unparking'[q] = unparking[q]
        BY <2>5 DEF Unpark, TypeOK
      <3>3. \A q \in Procs :
                Contains(unparking[q], r) => Contains(unparking'[q], r)
        BY <2>5, <3>1, <3>2, InTail DEF Unpark, TypeOK
      <3> QED
        BY <2>5, <3>1, <3>3 DEF Unpark, lockVars, WillUnpark
    <2>6. CASE \/ Call(p) \/ Try(p) \/ Spin(p) \/ SpinCheck(p)
               \/ CheckDeadline(p) \/ LastTry(p) \/ Park(p)
               \/ ParkSpuriously(p)
               \/ RegisterAsync(p) \/ Await(p) \/ Race(p)
               \/ DeadlinePasses(p) \/ Cancel(p) \/ DropGuard(p)
               \/ TakeAsync(p) \/ Send(p) \/ Unlocked(p)
      <3>1. l # "park" \/ pc[p] = "park"
        BY <2>2, <2>6
        DEF Call, Ask, Entry, Try, Spin, SpinCheck, CheckDeadline, LastTry,
            Park, ParkSpuriously, RegisterAsync, Await, Race, DeadlinePasses,
            Cancel, DropGuard, TakeAsync, Send, Unlocked, TryLock, Acquire,
            Retry, TypeOK
      <3>2. \/ token' = [token EXCEPT ![p] = FALSE] /\ l # "park"
            \/ token' = token
        BY <2>2, <2>6
        DEF Call, Ask, Entry, Try, Spin, SpinCheck, CheckDeadline, LastTry,
            Park, ParkSpuriously, RegisterAsync, Await, Race, DeadlinePasses,
            Cancel, DropGuard, TakeAsync, Send, Unlocked, Retry, TypeOK,
            wakeVars
      <3>3. WillUnpark(r)
        BY <1>2, <2>2, <3>1, <3>2 DEF NoLostUnpark, WillUnpark, TypeOK
      <3>4. /\ waiting_sync_threads' = waiting_sync_threads
            /\ unparking' = unparking /\ pc[p] # "take_sync"
        BY <2>6
        DEF Call, Ask, Try, Spin, SpinCheck, CheckDeadline, LastTry, Park,
            ParkSpuriously, Acquiring, RegisterAsync, Await, Race,
            DeadlinePasses, Cancel, DropGuard, TakeAsync, Send, Unlocked,
            localVars, lockVars, SearchPoints, WaitPoints
      <3> QED
        BY <2>2, <2>a, <3>3, <3>4 DEF WillUnpark
    <2> QED
      BY <1>2, <2>3, <2>4, <2>5, <2>6 DEF Step, Search, did_unlock
  <1> QED
    BY <1>1, <1>2 DEF Next, NoLostUnpark, WillUnpark

\* A parked thread is woken, or the lock's next release wakes it.
THEOREM NoUnparkIsLost == Spec => []NoLostUnpark
  <1>1. Init => NoLostUnpark
    BY DEF Init, NoLostUnpark
  <1> QED
    BY <1>1, UnparkStep, TypeCorrect, PTL DEF Spec

\* Whoever was registered, or about to be sent to, still is, or was sent to.
LEMMA SendStep == TypeOK /\ NoLostSend /\ [Next]_vars => NoLostSend'
  <1> SUFFICES ASSUME TypeOK, NoLostSend, [Next]_vars PROVE NoLostSend'
    OBVIOUS
  <1> USE DEF Goto
  <1>1. CASE UNCHANGED vars
    BY <1>1
    DEF vars, lockVars, wakeVars, localVars, NoLostSend, Contains, Current
  <1>2. ASSUME NEW p \in Procs,
               Step(p),
               NEW r \in Procs, pc'[r] \in {"await", "race"}, ~woken'[r]
        PROVE  WillSend(r)'
    <2>1. PICK l \in ControlPoints : MovesTo(p, l)
      BY <1>2, StepMoves
    <2>2. \A q \in Procs : pc'[q] = IF q = p THEN l ELSE pc[q]
      BY <2>1 DEF MovesTo, TypeOK
    <2>a. data_lock => data_lock' \/ pc'[p] = "take_sync"
      BY <2>1, <2>2 DEF MovesTo
    <2>3. CASE RegisterAsync(p)
      <3>1. sending' = sending /\ pc[p] \notin {"take_sync", "unpark"}
        BY <2>3 DEF RegisterAsync, localVars
      <3>2. CASE r = p
        <4>1. data_lock /\ data_lock'
          BY <1>2, <2>2, <2>3, <3>2
          DEF RegisterAsync, TryLock, Acquire, TypeOK
        <4>2. /\ gen' = [gen EXCEPT ![p] = @ + 1]
              /\ waiting_async_threads' =
                     Append(waiting_async_threads, <<p, gen'[p]>>)
          BY <2>3, <4>1 DEF RegisterAsync
        <4>3. <<p, gen'[p]>> \in Continuations
          BY <4>2 DEF Continuations, TypeOK
        <4>4. Contains(waiting_async_threads', <<p, gen'[p]>>)
          BY <4>2, <4>3, InAppend DEF TypeOK
        <4> QED
          BY <3>2, <4>1, <4>4 DEF WillSend, Current
      <3>3. CASE r # p
        <4>1. woken'[r] = woken[r] /\ gen'[r] = gen[r]
          BY <2>3, <3>3 DEF RegisterAsync, TypeOK
        <4>2. WillSend(r) /\ Current(r)' = Current(r)
          BY <1>2, <2>2, <3>3, <4>1 DEF NoLostSend, WillSend, Current
        <4>3. Contains(waiting_async_threads, Current(r))
                  => Contains(waiting_async_threads', Current(r))
          <5>1. CASE data_lock
            <6>1. /\ gen' = [gen EXCEPT ![p] = @ + 1]
                  /\ waiting_async_threads' =
                         Append(waiting_async_threads, <<p, gen'[p]>>)
              BY <2>3, <5>1 DEF RegisterAsync
            <6>2. <<p, gen'[p]>> \in Continuations
              BY <6>1 DEF Continuations, TypeOK
            <6> QED
              BY <6>1, <6>2, InAppend DEF TypeOK
          <5> QED
            BY <2>3, <5>1 DEF RegisterAsync
        <4> QED
          BY <2>2, <2>a, <3>1, <4>2, <4>3 DEF WillSend
      <3> QED
        BY <3>2, <3>3
    <2>4. CASE TakeAsync(p)
      <3>1. WillSend(r) /\ Current(r)' = Current(r)
        BY <1>2, <2>2, <2>4
        DEF TakeAsync, wakeVars, NoLostSend, WillSend, Current, TypeOK
      <3>2. sending'[p] = waiting_async_threads
        BY <2>4 DEF TakeAsync, TypeOK
      <3>3. CASE Contains(waiting_async_threads, Current(r))
        BY <3>1, <3>2, <3>3 DEF WillSend
      <3>4. ASSUME NEW q \in Procs, Contains(sending[q], Current(r))
            PROVE  WillSend(r)'
        <4>1. q # p
          BY <2>4, <3>4, InEmpty DEF TakeAsync, TypeOK
        <4>2. sending'[q] = sending[q]
          BY <2>4, <4>1 DEF TakeAsync, TypeOK
        <4> QED
          BY <3>1, <3>4, <4>2 DEF WillSend
      <3> QED
        BY <3>1, <3>3, <3>4 DEF WillSend
    <2>5. CASE Send(p)
      <3>1. Current(r)' = Current(r)
        BY <2>5 DEF Send, Current
      <3>2. woken'[r] = (woken[r] \/ Head(sending[p]) = Current(r))
        BY <2>5 DEF Send
      <3>3. WillSend(r) /\ Current(r) # Head(sending[p])
        <4>1. ~woken[r] /\ Current(r) # Head(sending[p])
          BY <1>2, <3>2, Zenon
        <4>2. pc' = pc
          BY <2>5 DEF Send
        <4> QED
          BY <1>2, <4>1, <4>2 DEF NoLostSend, WillSend, TypeOK
      <3>4. /\ sending'[p] = Tail(sending[p])
            /\ \A q \in Procs : q # p => sending'[q] = sending[q]
        BY <2>5 DEF Send, TypeOK
      <3>5. \A q \in Procs : Contains(sending[q], Current(r))
                                 => Contains(sending'[q], Current(r))
        BY <2>5, <3>3, <3>4, InTail DEF Send, TypeOK
      <3> QED
        BY <2>5, <3>1, <3>3, <3>5 DEF Send, lockVars, WillSend
    <2>6. CASE \/ Call(p) \/ Try(p) \/ Spin(p) \/ SpinCheck(p)
               \/ CheckDeadline(p) \/ LastTry(p) \/ Register(p) \/ Park(p)
               \/ ParkSpuriously(p)
               \/ Await(p) \/ Race(p) \/ DeadlinePasses(p) \/ Cancel(p)
               \/ DropGuard(p) \/ TakeSync(p) \/ Unpark(p) \/ Unlocked(p)
      <3>1. l \in {"await", "race"} => pc[p] \in {"await", "race"}
        BY <2>2, <2>6
        DEF Call, Ask, Entry, Try, Spin, SpinCheck, CheckDeadline, LastTry,
            Park, ParkSpuriously, Register, Await, Race, DeadlinePasses,
            Cancel, DropGuard, TakeSync, Unpark, Unlocked, TryLock, Acquire,
            Retry, TypeOK
      <3>2. woken' = woken /\ gen' = gen
        BY <2>6
        DEF Call, Ask, Try, Spin, SpinCheck, CheckDeadline, LastTry, Park,
            ParkSpuriously, Register, Await, Race, DeadlinePasses, Cancel,
            DropGuard, TakeSync, Unpark, Unlocked, wakeVars
      <3>3. WillSend(r) /\ Current(r)' = Current(r)
        BY <1>2, <2>2, <3>1, <3>2 DEF NoLostSend, WillSend, Current, TypeOK
      <3>4. /\ waiting_async_threads' = waiting_async_threads
            /\ sending' = sending
        BY <2>6
        DEF Call, Ask, Try, Spin, SpinCheck, CheckDeadline, LastTry, Park,
            ParkSpuriously, Register, Await, Race, DeadlinePasses, Cancel,
            DropGuard, TakeSync, Unpark, Unlocked, localVars, lockVars
      <3>5. pc[p] \in {"take_sync", "unpark"}
                => pc'[p] \in {"take_sync", "unpark"}
        BY <2>6
        DEF Call, Ask, Try, Spin, SpinCheck, CheckDeadline, LastTry, Park,
            ParkSpuriously, Acquiring, Register, Await, Race, DeadlinePasses,
            Cancel, DropGuard, TakeSync, Unpark, Unlocked, SearchPoints,
            WaitPoints, TypeOK
      <3> QED
        BY <2>2, <2>a, <3>3, <3>4, <3>5 DEF WillSend
    <2> QED
      BY <1>2, <2>3, <2>4, <2>5, <2>6 DEF Step, Search, did_unlock
  <1> QED
    BY <1>1, <1>2 DEF Next, NoLostSend, WillSend

\* A pending task is sent to, or the lock's next release sends to it.
THEOREM NoSendIsLost == Spec => []NoLostSend
  <1>1. Init => NoLostSend
    BY DEF Init, NoLostSend
  <1> QED
    BY <1>1, SendStep, TypeCorrect, PTL DEF Spec

-----------------------------------------------------------------------------
\* The invariant of a Mutex whose threads' park tokens others use as well.

MutexInv == /\ TypeOK /\ LockBitMeansHeld /\ MutualExclusion /\ NoLostUnpark
            /\ NoLostSend

LEMMA MutexInit == Init => MutexInv
  BY TypeInit
  DEF Init, MutexInv, LockBitMeansHeld, MutualExclusion, NoLostUnpark,
      NoLostSend

LEMMA MutexStep == ASSUME MutexInv, [Next]_vars PROVE MutexInv'
  BY TypeStep, LockBitStep, UnparkStep, SendStep DEF MutexInv

\* What others may do: they have p call a method, or nobody, and take no token
\* from a thread that parks in the Mutex.
Beside(p) ==
    /\ UNCHANGED <<lockVars, gen, woken, localVars>>
    /\ \/ UNCHANGED <<pc, method, expired>>
       \/ \E m \in MethodNames : Ask(p, m)
    /\ \A q \in Procs : pc[q] = "park" /\ token[q] => token'[q]

LEMMA BesideStep ==
    ASSUME MutexInv, NEW p \in Procs, Beside(p),
           token' \in [Procs -> BOOLEAN], calls' \in [Procs -> Nat],
           spurious' \in Nat
    PROVE  MutexInv'
  <1> USE DEF lockVars, localVars
  <1>1. \/ UNCHANGED <<pc, method, expired>>
        \/ \E m \in MethodNames, l \in SearchPoints :
               /\ pc[p] = "idle" /\ pc' = [pc EXCEPT ![p] = l]
               /\ method' = [method EXCEPT ![p] = m]
               /\ expired' = [expired EXCEPT ![p] = FALSE]
    BY LockSyncType DEF Beside, Ask, Goto
  <1>2. TypeOK'
    <2>1. SearchPoints \subseteq ControlPoints
      BY DEF ControlPoints
    <2> QED
      BY <1>1, <2>1 DEF MutexInv, TypeOK, Beside
  <1>3. \A q \in Procs : pc'[q] = pc[q]
                         \/ (pc[q] = "idle" /\ pc'[q] \in SearchPoints)
    BY <1>1 DEF MutexInv, TypeOK
  <1>4. LockBitMeansHeld' /\ MutualExclusion'
    BY <1>3
    DEF MutexInv, LockBitMeansHeld, MutualExclusion, Beside, SearchPoints
  <1>5. NoLostUnpark'
    <2> SUFFICES ASSUME NEW q \in Procs, pc'[q] = "park", ~token'[q]
                 PROVE  WillUnpark(q)'
      BY DEF NoLostUnpark, WillUnpark
    <2>1. WillUnpark(q)
      BY <1>3 DEF MutexInv, NoLostUnpark, WillUnpark, Beside, SearchPoints
    <2> QED
      BY <1>3, <2>1 DEF WillUnpark, Beside
  <1>6. NoLostSend'
    <2> SUFFICES ASSUME NEW q \in Procs, pc'[q] \in {"await", "race"},
                        ~woken'[q]
                 PROVE  WillSend(q)'
      BY DEF NoLostSend, WillSend
    <2>1. WillSend(q)
      BY <1>3 DEF MutexInv, NoLostSend, WillSend, Beside, SearchPoints
    <2> QED
      BY <1>3, <2>1 DEF WillSend, Beside, Current
  <1> QED
    BY <1>2, <1>4, <1>5, <1>6 DEF MutexInv

\* Only a thread that parks in the Mutex has a token taken.
LEMMA TokenStep ==
    ASSUME TypeOK, NEW p \in Procs, Step(p), NEW q \in Procs,
           token[q], ~token'[q]
    PROVE  q = p /\ pc[p] = "park"
  BY DEF TypeOK, Step, Call, Search, did_unlock, DeadlinePasses, Try, Spin,
         SpinCheck, CheckDeadline, LastTry, Register, Park, ParkSpuriously,
         RegisterAsync, Await, Race, Cancel, DropGuard, TakeSync, Unpark,
         TakeAsync, Send, Unlocked, wakeVars

\* The steps by which nobody begins to wait for the lock.
Inner(p) ==
    \/ Search(p) \/ Cancel(p) \/ DropGuard(p) \/ did_unlock(p)
    \/ ParkSpuriously(p)

LEMMA InnerStep ==
    ASSUME TypeOK, NEW p \in Procs, Inner(p), NEW q \in Procs, Acquiring(q)'
    PROVE  Acquiring(q) /\ (q = p => ~DropGuard(p) /\ ~Cancel(p))
  <1>0. Step(p)
    BY DEF Inner, Step
  <1>1. PICK l \in ControlPoints : MovesTo(p, l)
    BY <1>0, StepMoves
  <1>2. pc'[q] = IF q = p THEN l ELSE pc[q]
    BY <1>1 DEF MovesTo, TypeOK
  <1>3. CASE q # p
    BY <1>2, <1>3 DEF Acquiring
  <1>4. CASE q = p
    BY <1>2, <1>4
    DEF Inner, Search, did_unlock, Try, Spin, SpinCheck, CheckDeadline,
        LastTry, Register, Park, ParkSpuriously, RegisterAsync, Await, Race,
        Cancel, DropGuard, TakeSync, Unpark, TakeAsync, Send, Unlocked,
        Acquiring, SearchPoints, WaitPoints, Goto, TypeOK
  <1> QED
    BY <1>3, <1>4

\* Who asks for it does.
LEMMA AskedStep ==
    ASSUME TypeOK, NEW p \in Procs, NEW m \in MethodNames, Ask(p, m)
    PROVE  /\ Status(p) = "out" /\ Status(p)' = "waiting"
           /\ \A q \in Procs : q # p => pc'[q] = pc[q]
  <1>1. /\ pc[p] = "idle"
        /\ \E l \in SearchPoints : pc' = [pc EXCEPT ![p] = l]
    BY LockSyncType DEF Ask, Goto
  <1> QED
    BY <1>1 DEF Status, Acquiring, SearchPoints, WaitPoints, TypeOK
=============================================================================
