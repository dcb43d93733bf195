--------------------------- MODULE MonitorProofs ---------------------------
(***************************************************************************)
(* What TLAPS proves of module Monitor, for any processes, methods, waits  *)
(* and bounds, from the step lemmas of MutexProofs and CondvarProofs: the  *)
(* invariants of both hold although they share the park tokens.            *)
(***************************************************************************)
EXTENDS Monitor, TLAPS

LP == INSTANCE MutexProofs WITH pc <- lock_pc, expired <- lock_expired,
                                gen <- lock_gen, woken <- lock_woken

CP == INSTANCE CondvarProofs WITH status <- [p \in Procs |-> Lock!Status(p)]

-----------------------------------------------------------------------------
\* The lemmas of the two, whose assumptions are those of this module.

LEMMA MethodsMatch ==
    /\ Methods \in [Procs -> SUBSET LP!MethodNames]
    /\ \A p \in Procs \ CanPark :
           {"lock_block", "lock_block_timeout"} \cap Methods[p] = {}
  BY MethodsAssumption DEF LP!MethodNames

LEMMA MutexStarts == LP!Init => LP!MutexInv
  BY LP!MutexInit, MethodsMatch, WaitsAssumption, BoundsAssumption

LEMMA MutexSteps ==
    ASSUME LP!MutexInv, NEW p \in Procs, LP!Step(p)
    PROVE  LP!MutexInv'
  <1>1. [LP!Next]_LP!vars
    BY DEF LP!Next
  <1> QED
    BY <1>1, LP!MutexStep, MethodsMatch, WaitsAssumption, BoundsAssumption

LEMMA MutexBeside ==
    ASSUME LP!MutexInv, NEW p \in Procs, LP!Beside(p),
           token' \in [Procs -> BOOLEAN], calls' \in [Procs -> Nat],
           spurious' \in Nat
    PROVE  LP!MutexInv'
  BY LP!BesideStep, MethodsMatch, WaitsAssumption, BoundsAssumption

LEMMA MutexTokens ==
    ASSUME LP!TypeOK, NEW p \in Procs, LP!Step(p), NEW q \in Procs,
           token[q], ~token'[q]
    PROVE  q = p /\ lock_pc[p] = "park"
  BY LP!TokenStep, MethodsMatch, WaitsAssumption, BoundsAssumption

LEMMA MutexInner ==
    ASSUME LP!TypeOK, NEW p \in Procs, LP!Inner(p), NEW q \in Procs,
           LP!Acquiring(q)'
    PROVE  LP!Acquiring(q) /\ (q = p => ~LP!DropGuard(p) /\ ~LP!Cancel(p))
  BY LP!InnerStep, MethodsMatch, WaitsAssumption, BoundsAssumption

LEMMA MutexAsked ==
    ASSUME LP!TypeOK, NEW p \in Procs, NEW m \in LP!MethodNames, LP!Ask(p, m)
    PROVE  /\ LP!Status(p) = "out" /\ LP!Status(p)' = "waiting"
           /\ \A q \in Procs : q # p => lock_pc'[q] = lock_pc[q]
  BY LP!AskedStep, MethodsMatch, WaitsAssumption, BoundsAssumption

LEMMA WaitsMatch ==
    /\ CanPark \subseteq Procs
    /\ Waits \in [Procs -> SUBSET (CP!Hows \X BOOLEAN)]
    /\ \A p \in Procs \ CanPark, t \in BOOLEAN : <<"block", t>> \notin Waits[p]
  BY WaitsAssumption DEF CP!Hows

LEMMA CondvarStarts == CP!Init => CP!CondvarInv
  BY CP!InvInit, WaitsMatch, BoundsAssumption

LEMMA CondvarSteps ==
    ASSUME CP!CondvarInv, NEW p \in Procs, CP!Step(p)
    PROVE  CP!CondvarInv'
  BY CP!InvStep, WaitsMatch, BoundsAssumption

LEMMA CondvarShared ==
    ASSUME CP!CondvarInv, CP!Typed', UNCHANGED condvarVars,
           \A p \in Procs : CP!InWait(p) /\ token[p] => token'[p]
    PROVE  CP!CondvarInv'
  BY CP!InvShared, WaitsMatch, BoundsAssumption
  DEF condvarVars, CP!methodVars, CP!notifyVars

LEMMA CondvarPoints ==
    ASSUME CP!Typed, CP!AtPoints, NEW p \in Procs, CP!Step(p)
    PROVE  CP!AtPoints'
  BY CP!PointsStep, WaitsMatch, BoundsAssumption

LEMMA CondvarOthers ==
    ASSUME CP!Typed, NEW p \in Procs, CP!Step(p), NEW q \in Procs, q # p
    PROVE  pc'[q] = pc[q] /\ (token[q] => token'[q])
  BY CP!OthersStay, CP!SignalStep, WaitsMatch, BoundsAssumption

LEMMA CondvarAsks ==
    ASSUME CP!Typed, NEW p \in Procs,
           CP!WaitStep(p) \/ CP!ParkSpuriously(p) \/ CP!CallLock(p),
           Lock!Status(p) = "out", Lock!Status(p)' = "waiting"
    PROVE  pc'[p] = "lock"
  <1> DEFINE status == [q \in Procs |-> Lock!Status(q)]
  <1>1. status[p] = "out" /\ status'[p] = "waiting"
    OBVIOUS
  <1> QED
    BY <1>1, CP!AskStep, WaitsMatch, BoundsAssumption

LEMMA CondvarEnds ==
    ASSUME CP!CondvarInv, NEW p \in Procs, CP!Step(p), NEW q \in Procs,
           CP!Ends(q), IF timed[q] THEN ~timed_out'[q] ELSE how[q] # "block"
    PROVE  notified[q]
  BY CP!EndNoted, WaitsMatch, BoundsAssumption DEF CP!CondvarInv

-----------------------------------------------------------------------------
\* The steps of Monitor, as steps of the two.

LEMMA OfCondvar ==
    ASSUME NEW p \in Procs
    PROVE  /\ Cond!WaitStep(p) => CP!WaitStep(p)
           /\ Cond!NotifyStep(p) => CP!NotifyStep(p)
           /\ Cond!Acquire(p) => CP!Acquire(p)
           /\ Cond!Release(p) => CP!Release(p)
           /\ Cond!CallLock(p) => CP!CallLock(p)
           /\ Cond!CallWait(p) => CP!CallWait(p)
           /\ Cond!CallNotify(p) => CP!CallNotify(p)
           /\ Cond!Cancel(p) => CP!Cancel(p)
           /\ Cond!ParkSpuriously(p) => CP!ParkSpuriously(p)
           /\ Cond!DeadlinePasses(p) => CP!DeadlinePasses(p)
  <1> USE DEF Cond!Goto, CP!Goto, Cond!HandleOf, CP!HandleOf, Cond!Handle,
          CP!Handle, Cond!Listed, CP!Listed, Cond!Waiting, CP!Waiting,
          Cond!WaitPoints, CP!WaitPoints, Cond!Resume, CP!Resume, Cond!Choose,
          CP!Choose, Cond!WaitSync, CP!WaitSync, Cond!Count, CP!Count,
          Cond!Notify, CP!Notify, Cond!Lock!Request, CP!Lock!Request,
          Cond!Lock!Enter, CP!Lock!Enter, Cond!Lock!Leave, CP!Lock!Leave,
          Cond!methodVars, CP!methodVars, Cond!wakeVars, CP!wakeVars,
          Cond!notifyVars, CP!notifyVars, Cond!boundVars, CP!boundVars
  <1>1. Cond!WaitStep(p) => CP!WaitStep(p)
    <2>1. ASSUME NEW s, NEW e
          PROVE  Cond!RemoveFirst(s, e) = CP!RemoveFirst(s, e)
      BY DEF Cond!RemoveFirst, CP!RemoveFirst, Cond!RemoveAt, CP!RemoveAt,
             Cond!SelectInSeq, CP!SelectInSeq, Cond!Min, CP!Min
    <2>2. Cond!Withdraw(p) => CP!Withdraw(p)
      BY <2>1 DEF Cond!Withdraw, CP!Withdraw, Cond!Contains, CP!Contains
    <2> QED
      BY <2>2
      DEF Cond!WaitStep, CP!WaitStep, Cond!Enlist, CP!Enlist, Cond!Unlock,
          CP!Unlock, Cond!Signalled, CP!Signalled, Cond!NotSignalled,
          CP!NotSignalled, Cond!Clock, CP!Clock, Cond!Unparked, CP!Unparked,
          Cond!Recheck, CP!Recheck, Cond!Contains, CP!Contains
  <1>2. Cond!NotifyStep(p) => CP!NotifyStep(p)
    BY DEF Cond!NotifyStep, CP!NotifyStep, Cond!Take, CP!Take, Cond!Wake,
           CP!Wake, Cond!Woken, CP!Woken, Cond!Contains, CP!Contains,
           Cond!Front, CP!Front, Cond!Last, CP!Last
  <1>3. /\ Cond!Acquire(p) => CP!Acquire(p)
        /\ Cond!Release(p) => CP!Release(p)
        /\ Cond!CallLock(p) => CP!CallLock(p)
        /\ Cond!CallWait(p) => CP!CallWait(p)
        /\ Cond!CallNotify(p) => CP!CallNotify(p)
    BY DEF Cond!Acquire, CP!Acquire, Cond!Release, CP!Release, Cond!CallLock,
           CP!CallLock, Cond!Request, CP!Request, Cond!CallWait, CP!CallWait,
           Cond!CallNotify, CP!CallNotify
  <1>4. /\ Cond!Cancel(p) => CP!Cancel(p)
        /\ Cond!ParkSpuriously(p) => CP!ParkSpuriously(p)
        /\ Cond!DeadlinePasses(p) => CP!DeadlinePasses(p)
    BY DEF Cond!Cancel, CP!Cancel, Cond!ParkSpuriously, CP!ParkSpuriously,
           Cond!DeadlinePasses, CP!DeadlinePasses
  <1> QED
    BY ONLY <1>1, <1>2, <1>3, <1>4

LEMMA OfMutex ==
    ASSUME NEW p \in Procs
    PROVE  /\ Lock!Search(p) => LP!Search(p)
           /\ Lock!did_unlock(p) => LP!did_unlock(p)
           /\ Lock!DropGuard(p) => LP!DropGuard(p)
           /\ Lock!Cancel(p) => LP!Cancel(p)
           /\ Lock!ParkSpuriously(p) => LP!ParkSpuriously(p)
           /\ \A m : Lock!Ask(p, m) => LP!Ask(p, m)
  <1> USE DEF Lock!Goto, LP!Goto, Lock!Acquire, LP!Acquire, Lock!TryLock,
          LP!TryLock, Lock!Retry, LP!Retry, Lock!Entry, LP!Entry, Lock!Timed,
          LP!Timed, Lock!Acquiring, LP!Acquiring, Lock!WaitPoints,
          LP!WaitPoints, Lock!SearchPoints, LP!SearchPoints, Lock!Current,
          LP!Current, Lock!lockVars, LP!lockVars, Lock!wakeVars, LP!wakeVars,
          Lock!localVars, LP!localVars, Lock!boundVars, LP!boundVars
  <1>1. Lock!Search(p) => LP!Search(p)
    BY DEF Lock!Search, LP!Search, Lock!Try, LP!Try, Lock!Spin, LP!Spin,
           Lock!SpinCheck, LP!SpinCheck, Lock!CheckDeadline, LP!CheckDeadline,
           Lock!LastTry, LP!LastTry, Lock!Register, LP!Register, Lock!Park,
           LP!Park, Lock!RegisterAsync, LP!RegisterAsync, Lock!Await, LP!Await,
           Lock!Race, LP!Race
  <1>2. Lock!did_unlock(p) => LP!did_unlock(p)
    BY DEF Lock!did_unlock, LP!did_unlock, Lock!TakeSync, LP!TakeSync,
           Lock!Unpark, LP!Unpark, Lock!TakeAsync, LP!TakeAsync, Lock!Send,
           LP!Send, Lock!Unlocked, LP!Unlocked
  <1>3. /\ Lock!DropGuard(p) => LP!DropGuard(p)
        /\ Lock!Cancel(p) => LP!Cancel(p)
        /\ Lock!ParkSpuriously(p) => LP!ParkSpuriously(p)
    BY DEF Lock!DropGuard, LP!DropGuard, Lock!Cancel, LP!Cancel,
           Lock!ParkSpuriously, LP!ParkSpuriously
  <1>4. ASSUME NEW m PROVE Lock!Ask(p, m) => LP!Ask(p, m)
    BY DEF Lock!Ask, LP!Ask, Lock!LockSync, LP!LockSync
  <1> QED
    BY <1>1, <1>2, <1>3, <1>4

StepOf(p) ==
    \/ Own(p) \/ CallLock(p) \/ Call(p) \/ Release(p) \/ Cancel(p)
    \/ ParkSpuriously(p) \/ DeadlinePasses(p)

Asks(p) ==
    /\ \E m \in LP!MethodNames : LP!Ask(p, m)
    /\ UNCHANGED lockData
    /\ CP!WaitStep(p) \/ CP!ParkSpuriously(p) \/ CP!CallLock(p)

\* Both take a step, which leaves the lock or enters it; the Mutex alone; the
\* Condvar alone; or p asks for the mutex in a step of the Condvar.
LEMMA StepCases ==
    ASSUME LP!TypeOK, NEW p \in Procs, StepOf(p)
    PROVE  \/ LP!Inner(p) /\ CP!Step(p) /\ ~LP!Acquiring(p)'
           \/ LP!Inner(p) /\ UNCHANGED condvarVars
           \/ /\ UNCHANGED mutexVars /\ CP!Step(p)
              /\ Outside(p) \/ CP!DeadlinePasses(p)
           \/ Asks(p)
  <1> USE OfMutex, OfCondvar
  <1>1. ASSUME LP!DropGuard(p) \/ LP!Cancel(p)
        PROVE  LP!Inner(p) /\ ~LP!Acquiring(p)'
    BY <1>1, MutexInner DEF LP!Inner
  <1>2. CASE InMutex(p)
    <2>1. LP!Inner(p)
      BY <1>2 DEF InMutex, LP!Inner
    <2>2. CASE lock_pc'[p] = "held"
      <3>1. CP!Step(p)
        BY <1>2, <2>2 DEF InMutex, CP!Step
      <3>2. ~LP!Acquiring(p)'
        BY <2>2 DEF LP!Acquiring, LP!WaitPoints, LP!SearchPoints
      <3> QED
        BY <2>1, <3>1, <3>2
    <2> QED
      BY <1>2, <2>1, <2>2 DEF InMutex
  <1>3. ASSUME AskAgain(p), CP!WaitStep(p) \/ CP!ParkSpuriously(p)
        PROVE  Asks(p)
    BY <1>3 DEF AskAgain, Ask, Asks, LP!MethodNames
  <1>4. CASE InWait(p)
    BY <1>1, <1>3, <1>4 DEF InWait, CP!Step
  <1>5. CASE InNotify(p) \/ Call(p)
    BY <1>5 DEF InNotify, Call, CP!Step, CP!Client
  <1>6. CASE CallLock(p)
    BY <1>6, MethodsMatch DEF CallLock, Ask, Asks
  <1>7. CASE Release(p) \/ Cancel(p)
    BY <1>1, <1>7 DEF Release, Cancel, CP!Step, CP!Environment
  <1>8. CASE ParkSpuriously(p)
    BY <1>3, <1>8 DEF ParkSpuriously, LP!Inner, CP!Step, CP!Environment
  <1>9. CASE DeadlinePasses(p)
    BY <1>9 DEF DeadlinePasses, CP!Step, CP!Environment
  <1> QED
    BY <1>2, <1>4, <1>5, <1>6, <1>7, <1>8, <1>9 DEF StepOf, Own

-----------------------------------------------------------------------------
\* The invariant.

\* Who waits in the Mutex waits in no list of the Condvar.
Joined == \A p \in Procs : LP!Acquiring(p) => pc[p] = "lock"

MonitorInv == LP!MutexInv /\ CP!CondvarInv /\ CP!AtPoints /\ Joined

\* Both take a step,
LEMMA BothStep ==
    ASSUME MonitorInv, NEW p \in Procs, LP!Inner(p), CP!Step(p),
           ~LP!Acquiring(p)'
    PROVE  MonitorInv'
  <1>1. LP!Step(p) /\ LP!TypeOK /\ CP!Typed
    BY DEF LP!Inner, LP!Step, MonitorInv, LP!MutexInv, CP!CondvarInv
  <1>2. LP!MutexInv' /\ CP!CondvarInv' /\ CP!AtPoints'
    BY <1>1, MutexSteps, CondvarSteps, CondvarPoints DEF MonitorInv
  <1>3. Joined'
    BY <1>1, MutexInner, CondvarOthers DEF MonitorInv, Joined
  <1> QED
    BY <1>2, <1>3 DEF MonitorInv

\* ... or the Mutex, which may give tokens to those that wait in the Condvar,
LEMMA MutexAlone ==
    ASSUME MonitorInv, NEW p \in Procs, LP!Inner(p), UNCHANGED condvarVars
    PROVE  MonitorInv'
  <1>1. LP!Step(p) /\ LP!TypeOK /\ CP!Typed
    BY DEF LP!Inner, LP!Step, MonitorInv, LP!MutexInv, CP!CondvarInv
  <1>2. LP!MutexInv'
    BY <1>1, MutexSteps DEF MonitorInv
  <1>3. CP!Typed'
    <2>1. /\ token' \in [Procs -> BOOLEAN] /\ calls' \in [Procs -> Nat]
          /\ spurious' \in Nat
      BY <1>2 DEF LP!MutexInv, LP!TypeOK
    <2>2. [q \in Procs |-> Lock!Status(q)]'
              \in [Procs -> {"out", "waiting", "in"}]
      BY DEF Lock!Status
    <2> QED
      BY <1>1, <2>1, <2>2 DEF CP!Typed, condvarVars, CP!NotifyPoints
  <1>4. \A q \in Procs : CP!InWait(q) /\ token[q] => token'[q]
    <2> SUFFICES ASSUME CP!InWait(p), lock_pc[p] = "park" PROVE FALSE
      BY <1>1, MutexTokens
    <2> QED
      BY DEF MonitorInv, Joined, CP!InWait, CP!WaitPoints, LP!Acquiring,
             LP!WaitPoints
  <1>5. CP!CondvarInv'
    BY <1>3, <1>4, CondvarShared DEF MonitorInv
  <1>6. CP!AtPoints'
    BY DEF MonitorInv, CP!AtPoints, condvarVars
  <1>7. Joined'
    BY <1>1, MutexInner DEF MonitorInv, Joined, condvarVars
  <1> QED
    BY <1>2, <1>5, <1>6, <1>7 DEF MonitorInv

\* or the Condvar, which may do so to those that park in the Mutex.
LEMMA CondvarAlone ==
    ASSUME MonitorInv, NEW p \in Procs, CP!Step(p),
           \/ /\ UNCHANGED mutexVars
              /\ Outside(p) \/ CP!DeadlinePasses(p)
           \/ Asks(p)
    PROVE  MonitorInv'
  <1>1. /\ LP!TypeOK /\ CP!Typed
        /\ UNCHANGED lockData
    BY DEF MonitorInv, LP!MutexInv, CP!CondvarInv, mutexVars, Asks
  <1>2. CP!CondvarInv' /\ CP!AtPoints'
    BY <1>1, CondvarSteps, CondvarPoints DEF MonitorInv
  <1>3. \A q \in Procs : lock_pc[q] = "park" /\ token[q] => token'[q]
    <2>1. lock_pc[p] # "park" \/ token' = token
      BY DEF Outside, CP!DeadlinePasses, CP!wakeVars, Asks, LP!Ask
    <2> QED
      BY <1>1, <2>1, CondvarOthers
  <1>4. LP!Beside(p)
    BY <1>1, <1>3
    DEF LP!Beside, mutexVars, lockData, Asks, LP!lockVars, LP!localVars
  <1>5. /\ token' \in [Procs -> BOOLEAN] /\ calls' \in [Procs -> Nat]
        /\ spurious' \in Nat
    BY <1>2 DEF CP!CondvarInv, CP!Typed
  <1>6. LP!MutexInv'
    BY <1>4, <1>5, MutexBeside DEF MonitorInv
  <1>7. Joined'
    <2>1. CASE UNCHANGED mutexVars
      <3>1. \A q \in Procs : LP!Acquiring(q)' => LP!Acquiring(q)
        BY <2>1 DEF mutexVars, LP!Acquiring
      <3>2. LP!Acquiring(p) => pc' = pc
        BY DEF Outside, LP!Acquiring, LP!WaitPoints, LP!SearchPoints,
               CP!DeadlinePasses, Asks, LP!Ask
      <3> QED
        BY <1>1, <2>1, <3>1, <3>2, CondvarOthers
        DEF MonitorInv, Joined
    <2>2. CASE Asks(p)
      <3>1. PICK m \in LP!MethodNames : LP!Ask(p, m)
        BY <2>2 DEF Asks
      <3>2. /\ LP!Status(p) = "out" /\ LP!Status(p)' = "waiting"
            /\ \A q \in Procs : q # p => lock_pc'[q] = lock_pc[q]
        BY <1>1, <3>1, MutexAsked
      <3>3. Lock!Status(p) = "out" /\ Lock!Status(p)' = "waiting"
        BY <3>2 DEF LP!Status, Lock!Status, LP!Acquiring, Lock!Acquiring,
                    LP!WaitPoints, Lock!WaitPoints, LP!SearchPoints,
                    Lock!SearchPoints
      <3>4. pc'[p] = "lock"
        BY <1>1, <2>2, <3>3, CondvarAsks DEF Asks
      <3> QED
        BY <1>1, <3>2, <3>4, CondvarOthers
        DEF MonitorInv, Joined, LP!Acquiring
    <2> QED
      BY <2>1, <2>2
  <1> QED
    BY <1>2, <1>6, <1>7 DEF MonitorInv

LEMMA MonitorInit == Init => MonitorInv
  <1> SUFFICES ASSUME Init PROVE MonitorInv
    OBVIOUS
  <1>1. LP!MutexInv
    <2>1. LP!Init
      BY DEF Init, Lock!Init, LP!Init
    <2> QED
      BY <2>1, MutexStarts
  <1>2. CP!CondvarInv
    <2>1. CP!Init
      <3>1. [p \in Procs |-> Lock!Status(p)] = [p \in Procs |-> "out"]
        BY DEF Init, Lock!Init, Lock!Status, Lock!Acquiring, Lock!WaitPoints,
               Lock!SearchPoints
      <3> QED
        BY <3>1 DEF Init, Cond!Init, CP!Init, CP!Lock!Init, CP!Lists,
                    Cond!Lists
    <2> QED
      BY <2>1, CondvarStarts
  <1>3. CP!AtPoints
    BY DEF Init, Cond!Init, CP!AtPoints, CP!ControlPoints
  <1>4. Joined
    BY DEF Init, Lock!Init, Joined, LP!Acquiring, LP!WaitPoints,
           LP!SearchPoints
  <1> QED
    BY <1>1, <1>2, <1>3, <1>4 DEF MonitorInv

LEMMA MonitorStep == MonitorInv /\ [Next]_vars => MonitorInv'
  <1>1. ASSUME MonitorInv, NEW p \in Procs, StepOf(p) PROVE MonitorInv'
    <2>1. LP!TypeOK
      BY <1>1 DEF MonitorInv, LP!MutexInv
    <2>2. Asks(p) => CP!Step(p)
      BY DEF Asks, CP!Step, CP!Client, CP!Environment
    <2> QED
      BY <1>1, <2>1, <2>2, StepCases, BothStep, MutexAlone, CondvarAlone
  <1>2. ASSUME MonitorInv, UNCHANGED vars PROVE MonitorInv'
    <2>1. LP!MutexInv'
      <3>1. [LP!Next]_LP!vars
        BY <1>2 DEF LP!vars, LP!lockVars, LP!wakeVars, LP!localVars,
                    LP!boundVars, vars, mutexVars, lockData
      <3> QED
        BY <1>2, <3>1, LP!MutexStep, MethodsMatch, WaitsAssumption,
           BoundsAssumption
        DEF MonitorInv
    <2>2. UNCHANGED CP!vars
      BY <1>2 DEF CP!vars, CP!methodVars, CP!wakeVars, CP!notifyVars,
                  CP!boundVars, vars, mutexVars, condvarVars, Lock!Status,
                  Lock!Acquiring
    <2>3. CP!CondvarInv'
      BY <1>2, <2>2, CP!InvStays, WaitsMatch, BoundsAssumption DEF MonitorInv
    <2>4. CP!AtPoints' /\ Joined'
      BY <1>2 DEF MonitorInv, CP!AtPoints, Joined, vars, mutexVars,
                  condvarVars, LP!Acquiring
    <2> QED
      BY <2>1, <2>3, <2>4 DEF MonitorInv
  <1> QED
    BY <1>1, <1>2 DEF Next, StepOf

LEMMA MonitorCorrect == Spec => []MonitorInv
  BY MonitorInit, MonitorStep, PTL DEF Spec

\* The variables of both have their types.
THEOREM TypesCorrect == Spec => []TypeOK
  <1>1. MonitorInv => TypeOK
    <2> SUFFICES ASSUME MonitorInv PROVE Lock!TypeOK /\ Cond!TypeOK
      BY DEF TypeOK
    <2>1. Lock!TypeOK
      BY DEF MonitorInv, LP!MutexInv, LP!TypeOK, Lock!TypeOK,
             LP!Continuations, Lock!Continuations, LP!ControlPoints,
             Lock!ControlPoints, LP!WaitPoints, Lock!WaitPoints,
             LP!SearchPoints, Lock!SearchPoints, LP!UnlockPoints,
             Lock!UnlockPoints, LP!MethodNames, Lock!MethodNames
    <2>2. Cond!TypeOK
      BY DEF MonitorInv, CP!CondvarInv, CP!Typed, CP!AtPoints, Cond!TypeOK,
             CP!Lists, Cond!Lists, CP!Handles, Cond!Handles,
             CP!ControlPoints, Cond!ControlPoints, CP!WaitPoints,
             Cond!WaitPoints, CP!NotifyPoints, Cond!NotifyPoints
    <2> QED
      BY <2>1, <2>2
  <1> QED
    BY <1>1, MonitorCorrect, PTL

\* A thread that parks in the Mutex without a token is about to be unparked,
\* or is in the Mutex's list while somebody holds it: no wait in the Condvar
\* takes the token that the Mutex has sent it.
THEOREM NoUnparkIsLost == Spec => []NoLostUnpark
  <1>1. MonitorInv => NoLostUnpark
    BY DEF MonitorInv, LP!MutexInv, LP!NoLostUnpark, NoLostUnpark,
           Lock!NoLostUnpark, LP!Contains, Lock!Contains
  <1> QED
    BY <1>1, MonitorCorrect, PTL

\* Nor does the use of the Mutex by waits end mutual exclusion, or lose the
\* wake-up of a task that awaits it.
THEOREM MutexStaysCorrect ==
    Spec => [](Lock!MutualExclusion /\ Lock!LockBitMeansHeld
                   /\ Lock!NoLostSend)
  <1>1. MonitorInv => /\ Lock!MutualExclusion /\ Lock!LockBitMeansHeld
                      /\ Lock!NoLostSend
    BY DEF MonitorInv, LP!MutexInv, LP!MutualExclusion, Lock!MutualExclusion,
           LP!LockBitMeansHeld, Lock!LockBitMeansHeld, LP!NoLostSend,
           Lock!NoLostSend, LP!Contains, Lock!Contains, LP!Current,
           Lock!Current
  <1> QED
    BY <1>1, MonitorCorrect, PTL

\* A waiter of the Condvar that nobody has woken is in its list, or in the
\* hands of a notifier: no wait for the Mutex takes the token it was sent.
THEOREM NoNotificationIsLost == Spec => []NoLostNotification
  <1>1. MonitorInv => NoLostNotification
    BY DEF MonitorInv, CP!CondvarInv, CP!NoneForgotten, CP!Unheard,
           CP!Remembered, NoLostNotification, Cond!NoLostNotification,
           CP!Handle, Cond!Handle, CP!HandleOf, Cond!HandleOf, CP!Listed,
           Cond!Listed, CP!Contains, Cond!Contains
  <1> QED
    BY <1>1, MonitorCorrect, PTL

\* The tokens of the Mutex end no wait that looks at the list again.
THEOREM OnlyTheNotifiedGoOn == Spec => OnlyNotified
  <1> DEFINE Heard == \A p \in Procs :
                 Cond!Ends(p) /\ (IF timed[p] THEN ~timed_out'[p]
                                              ELSE how[p] # "block")
                     => notified[p]
  <1>1. MonitorInv /\ [Next]_vars => [Heard]_Cond!vars
    <2>1. ASSUME MonitorInv, NEW p \in Procs, StepOf(p) PROVE Heard
      <3> SUFFICES ASSUME NEW q \in Procs, Cond!Ends(q),
                          IF timed[q] THEN ~timed_out'[q]
                                      ELSE how[q] # "block"
                   PROVE  notified[q]
        OBVIOUS
      <3>1. CP!Ends(q) /\ pc'[q] # pc[q]
        BY DEF Cond!Ends, CP!Ends, Cond!Waiting, CP!Waiting,
               Cond!WaitPoints, CP!WaitPoints
      <3>2. CP!Step(p)
        BY <2>1, <3>1, StepCases
        DEF MonitorInv, LP!MutexInv, condvarVars, Asks, CP!Step, CP!Client,
            CP!Environment
      <3> QED
        BY <2>1, <3>1, <3>2, CondvarEnds DEF MonitorInv
    <2>2. UNCHANGED vars => UNCHANGED Cond!vars
      BY DEF Cond!vars, Cond!methodVars, Cond!wakeVars, Cond!notifyVars,
             Cond!boundVars, vars, mutexVars, condvarVars, Lock!Status,
             Lock!Acquiring
    <2> QED
      BY <2>1, <2>2 DEF Next, StepOf
  <1> QED
    BY <1>1, MonitorCorrect, PTL DEF Spec, OnlyNotified, Cond!OnlyNotified
=============================================================================
