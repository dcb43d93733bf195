--------------------------- MODULE CondvarProofs ---------------------------
(***************************************************************************)
(* What TLAPS proves of module Condvar, for any processes, waits and       *)
(* bounds: TypeOK, with StagesMatch; NoLostNotification, from an invariant *)
(* that follows a waiter from the list to its wake-up; OnlyNotified, from  *)
(* one that says where a wake-up has come from; and HonestResult, from one *)
(* that says when a waiter is in its list, and how often.                  *)
(***************************************************************************)
EXTENDS Condvar, SequenceFacts

-----------------------------------------------------------------------------
\* Type correctness.

\* TypeOK but for the range of pc: what is proved from it holds as well where a
\* client adds control points of its own.
Typed ==
    /\ status \in [Procs -> {"out", "waiting", "in"}]
    /\ waiting \in [Lists -> Seq(Handles)]
    /\ pc = [p \in Procs |-> pc[p]]
    /\ how \in [Procs -> Lists]
    /\ timed \in [Procs -> BOOLEAN]
    /\ expired \in [Procs -> BOOLEAN]
    /\ timed_out \in [Procs -> BOOLEAN]
    /\ token \in [Procs -> BOOLEAN]
    /\ gen \in [Procs -> Nat]
    /\ signal \in [Procs -> BOOLEAN]
    /\ one \in [Procs -> BOOLEAN]
    /\ todo \in [Procs -> Seq(Lists)]
    /\ waking \in [Procs -> Seq(Handles)]
    /\ notified \in [Procs -> BOOLEAN]
    /\ calls \in [Procs -> Nat]
    /\ spurious \in Nat
    /\ \A p \in Procs : /\ todo[p] # <<>> => pc[p] \in NotifyPoints
                        /\ waking[p] # <<>> => pc[p] = "wake"

AtPoints == pc \in [Procs -> ControlPoints]

\* TypeOK restricts pc further.
LEMMA TypeIs == TypeOK <=> Typed /\ AtPoints
  BY DEF TypeOK, Typed, AtPoints

\* What a process can have reached: a notifier that is to take a list has one,
\* only a timed wait looks at the clock and does what follows, it withdraws
\* past its deadline, only a spinning one confirms, and a waiter has made its
\* handle.
StagesMatch ==
    \A p \in Procs :
        /\ pc[p] = "take" => todo[p] # <<>>
        /\ pc[p] \in {"clock", "recheck", "withdraw", "confirm"} => timed[p]
        /\ pc[p] = "withdraw" => expired[p]
        /\ pc[p] = "confirm" => how[p] = "spin"
        /\ pc[p] \in WaitPoints \cup {"unlock"} => gen[p] > 0

\* A new Condvar has these types.
LEMMA TypeInit == Init => Typed /\ StagesMatch
  <1> SUFFICES ASSUME Init PROVE Typed /\ StagesMatch
    OBVIOUS
  <1>1. <<>> \in Seq(Lists) /\ <<>> \in Seq(Handles)
    OBVIOUS
  <1>2. "idle" \notin WaitPoints \cup {"unlock"}
    BY DEF WaitPoints
  <1>3. "spin" \in Lists
    BY DEF Lists
  <1>4. Typed
    BY <1>1, <1>3 DEF Init, Typed, Lock!Init
  <1>5. StagesMatch
    BY <1>2 DEF Init, StagesMatch
  <1> QED
    BY <1>4, <1>5

\* The mutex only ever changes the status of one process, within its type.
LEMMA LockType ==
    ASSUME Typed, NEW p \in Procs,
           Lock!Request(p) \/ Lock!Enter(p) \/ Lock!Leave(p)
    PROVE  status' \in [Procs -> {"out", "waiting", "in"}]
  BY DEF Typed, Lock!Request, Lock!Enter, Lock!Leave

\* What a step of process p is.
Step(p) ==
    \/ Client(p) \/ Acquire(p) \/ Release(p) \/ WaitStep(p) \/ NotifyStep(p)
    \/ Environment(p)

\* A step of one process does not touch where another is in its methods.
LEMMA OthersStay ==
    ASSUME Typed, NEW p \in Procs, Step(p), NEW q \in Procs, q # p
    PROVE  /\ pc'[q] = pc[q] /\ how'[q] = how[q] /\ timed'[q] = timed[q]
           /\ gen'[q] = gen[q] /\ todo'[q] = todo[q]
           /\ expired'[q] = expired[q]
  <1> USE DEF Typed, Goto, wakeVars, notifyVars, methodVars, boundVars
  <1>1. CASE Client(p) \/ Acquire(p) \/ Release(p) \/ NotifyStep(p)
    BY <1>1
    DEF Client, CallLock, CallWait, CallNotify, Request, Choose, Notify,
        Acquire, Release, NotifyStep, Take, Wake, Woken
  <1>2. CASE WaitStep(p) \/ Environment(p)
    BY <1>2
    DEF WaitStep, Environment, Enlist, Unlock, Signalled, NotSignalled,
        Clock, Unparked, Recheck, Withdraw, Resume, DeadlinePasses,
        ParkSpuriously, Cancel
  <1> QED
    BY <1>1, <1>2 DEF Step

\* The lists a notifier is to look at are not none.
LEMMA NotEmpty == ASSUME NEW a, NEW b, NEW c PROVE <<a, b, c>> # <<>>
  OBVIOUS

\* A wait that its client chooses is one that the process may be in.
LEMMA ChooseType ==
    ASSUME Typed, NEW p \in Procs, NEW w \in Waits[p], Choose(p, w)
    PROVE  /\ how' \in [Procs -> Lists] /\ timed' \in [Procs -> BOOLEAN]
           /\ expired' \in [Procs -> BOOLEAN]
  <1>1. w[1] \in Hows /\ w[2] \in BOOLEAN
    BY ProcsAssumption
  <1>2. WaitSync(p, w[1]) \in Lists
    BY <1>1 DEF WaitSync, Hows, Lists
  <1> QED
    BY <1>1, <1>2 DEF Choose, Typed

\* A call that notifies has all three lists to look at.
LEMMA NotifyType ==
    ASSUME Typed, NEW p \in Procs, NEW b \in BOOLEAN, Notify(p, b)
    PROVE  /\ one' \in [Procs -> BOOLEAN] /\ todo' \in [Procs -> Seq(Lists)]
           /\ todo'[p] # <<>>
  <1>1. <<"spin", "block", "async">> \in Seq(Lists)
    BY DEF Lists
  <1>2. /\ one' = [one EXCEPT ![p] = b]
        /\ todo' = [todo EXCEPT ![p] = <<"spin", "block", "async">>]
    BY DEF Notify
  <1>3. todo'[p] = <<"spin", "block", "async">>
    BY <1>2 DEF Typed
  <1> QED
    BY <1>1, <1>2, <1>3, NotEmpty DEF Typed

\* No step of the code leaves the types.
LEMMA TypeStep ==
    ASSUME Typed, StagesMatch, NEW p \in Procs, Step(p)
    PROVE  Typed'
  <1> USE DEF Typed, Goto, wakeVars, notifyVars, methodVars, boundVars
  <1>a. NotifyPoints = {"take", "wake"}
    BY DEF NotifyPoints
  <1>2. CASE CallLock(p) \/ Acquire(p) \/ Release(p) \/ Unlock(p)
    <2>1. status' \in [Procs -> {"out", "waiting", "in"}]
      BY <1>2, LockType DEF CallLock, Request, Acquire, Release, Unlock
    <2>2. CASE CallLock(p)
      <3>1. pc' = [pc EXCEPT ![p] = "lock"] /\ pc[p] = "idle"
        BY <2>2 DEF CallLock, Request
      <3>2. calls' \in [Procs -> Nat]
        BY <2>2 DEF CallLock, Count
      <3>3. \A q \in Procs : pc[q] \in NotifyPoints => pc'[q] = pc[q]
        BY <3>1, <1>a
      <3>4. pc' = [q \in Procs |-> pc'[q]]
        BY <3>1
      <3> QED
        BY <2>1, <2>2, <3>2, <3>3, <3>4, <1>a DEF CallLock, Request, Count
    <2>3. CASE Acquire(p)
      <3>1. token' \in [Procs -> BOOLEAN]
        BY <2>3 DEF Acquire
      <3> QED
        BY <2>1, <2>3, <3>1, <1>a DEF Acquire
    <2>4. CASE Release(p) \/ Unlock(p)
      BY <2>1, <2>4, <1>a DEF Release, Unlock
    <2> QED
      BY <1>2, <2>2, <2>3, <2>4
  <1>3. CASE CallWait(p)
    <2>1. PICK w \in Waits[p] : Choose(p, w)
      BY <1>3 DEF CallWait
    <2>4. /\ how' \in [Procs -> Lists] /\ timed' \in [Procs -> BOOLEAN]
          /\ expired' \in [Procs -> BOOLEAN]
      BY <2>1, ChooseType
    <2>5. pc' = [pc EXCEPT ![p] = "enlist"] /\ pc[p] = "held"
      BY <1>3 DEF CallWait
    <2>6. calls' \in [Procs -> Nat]
      BY <1>3 DEF CallWait, Count
    <2>7. \A q \in Procs : pc[q] \in NotifyPoints => pc'[q] = pc[q]
      BY <2>5, <1>a
    <2>8. pc' = [q \in Procs |-> pc'[q]]
      BY <2>5
    <2> QED
      BY <1>3, <2>4, <2>6, <2>7, <2>8, <1>a DEF CallWait, Count
  <1>4. CASE CallNotify(p)
    <2>1. PICK b \in BOOLEAN : Notify(p, b)
      BY <1>4 DEF CallNotify
    <2>2. one' \in [Procs -> BOOLEAN] /\ todo' \in [Procs -> Seq(Lists)]
      BY <2>1, NotifyType
    <2>3. calls' \in [Procs -> Nat]
      BY <1>4 DEF CallNotify, Count
    <2>4. /\ pc' = [pc EXCEPT ![p] = "take"] /\ waking' = waking
          /\ todo' = [todo EXCEPT ![p] = <<"spin", "block", "async">>]
          /\ pc[p] # "wake"
      BY <1>4, <2>1 DEF CallNotify, Notify
    <2>5. pc' = [q \in Procs |-> pc'[q]]
      BY <2>4
    <2>6. \A q \in Procs : /\ todo'[q] # <<>> => pc'[q] \in NotifyPoints
                           /\ waking'[q] # <<>> => pc'[q] = "wake"
      BY <2>4, <1>a
    <2>7. /\ status' = status /\ waiting' = waiting /\ how' = how
          /\ timed' = timed /\ expired' = expired /\ timed_out' = timed_out
          /\ token' = token /\ gen' = gen /\ signal' = signal
          /\ waking' = waking /\ notified' = notified /\ spurious' = spurious
      BY <1>4, <2>1 DEF CallNotify, Notify, Count
    <2> QED
      BY <2>2, <2>3, <2>5, <2>6, <2>7
  <1>5. CASE Enlist(p)
    <2>1. /\ gen' = [gen EXCEPT ![p] = @ + 1] /\ gen' \in [Procs -> Nat]
          /\ signal' \in [Procs -> BOOLEAN] /\ notified' \in [Procs -> BOOLEAN]
      BY <1>5 DEF Enlist
    <2>2. HandleOf(p, gen'[p]) \in Handles
      BY <2>1 DEF HandleOf, Handles
    <2>3. waiting' \in [Lists -> Seq(Handles)]
      BY <1>5, <2>2, InAppend DEF Enlist
    <2> QED
      BY <1>5, <2>1, <2>3, <1>a DEF Enlist
  <1>6. CASE NotSignalled(p) \/ Clock(p) \/ DeadlinePasses(p)
    <2>1. CASE NotSignalled(p)
      BY <2>1, <1>a DEF NotSignalled
    <2>2. CASE Clock(p)
      BY <2>2, <1>a DEF Clock
    <2>3. CASE DeadlinePasses(p)
      BY <2>3, <1>a DEF DeadlinePasses
    <2> QED
      BY <1>6, <2>1, <2>2, <2>3
  <1>7. CASE \/ Signalled(p) \/ Unparked(p) \/ ParkSpuriously(p)
             \/ Recheck(p) \/ Withdraw(p) \/ Cancel(p)
    <2>1. status' \in [Procs -> {"out", "waiting", "in"}]
      BY <1>7, LockType
      DEF Signalled, Unparked, ParkSpuriously, Recheck, Withdraw, Cancel,
          Resume
    <2>2. ASSUME NEW b \in BOOLEAN, Resume(p, b)
          PROVE  /\ timed_out' \in [Procs -> BOOLEAN]
                 /\ pc' = [pc EXCEPT ![p] = "lock"]
      BY <2>2 DEF Resume
    <2>3. CASE Signalled(p) \/ Recheck(p)
      BY <2>1, <2>2, <2>3, <1>a DEF Signalled, Recheck
    <2>4. CASE Unparked(p) \/ ParkSpuriously(p)
      <3>1. token' \in [Procs -> BOOLEAN]
        BY <2>4 DEF Unparked, ParkSpuriously
      <3>2. spurious' \in Nat
        <4>1. spurious' = spurious \/ spurious' = spurious + 1
          BY <2>4 DEF Unparked, ParkSpuriously
        <4> QED
          BY <4>1
      <3> QED
        BY <2>1, <2>2, <2>4, <3>1, <3>2, <1>a DEF Unparked, ParkSpuriously
    <2>5. CASE Withdraw(p)
      <3>1. waiting' \in [Lists -> Seq(Handles)]
        BY <2>5, InRemoveFirst DEF Withdraw
      <3>2. (Listed(p) \/ how[p] = "async") \in BOOLEAN
        BY DEF Listed, Contains
      <3> QED
        BY <2>1, <2>2, <2>5, <3>1, <3>2, <1>a DEF Withdraw
    <2>6. CASE Cancel(p)
      BY <2>1, <2>6, <1>a DEF Cancel
    <2> QED
      BY <1>7, <2>3, <2>4, <2>5, <2>6
  <1>8. CASE Take(p)
    <2>1. todo[p] # <<>> /\ Head(todo[p]) \in Lists
          /\ Tail(todo[p]) \in Seq(Lists) /\ <<>> \in Seq(Lists)
      BY <1>8, InTail DEF Take, StagesMatch
    <2> DEFINE l == Head(todo[p])
    <2>2. waiting[l] \in Seq(Handles) /\ <<>> \in Seq(Handles)
      BY <2>1
    <2>3. CASE one[p] /\ waiting[l] # <<>>
      <3> HIDE DEF l
      <3>a. /\ Last(waiting[l]) \in Handles
            /\ Front(waiting[l]) \in Seq(Handles)
        BY <2>2, <2>3, InFront
      <3>1. /\ <<Last(waiting[l])>> \in Seq(Handles)
            /\ Front(waiting[l]) \in Seq(Handles)
        BY <3>a
      <3>2. /\ waking' = [waking EXCEPT ![p] = <<Last(waiting[l])>>]
            /\ waiting' = [waiting EXCEPT ![l] = Front(@)]
            /\ todo' = [todo EXCEPT ![p] = <<>>]
        BY <1>8, <2>3 DEF Take, l
      <3>3. /\ waking' \in [Procs -> Seq(Handles)]
            /\ waiting' \in [Lists -> Seq(Handles)]
            /\ todo' \in [Procs -> Seq(Lists)]
        BY <2>1, <3>1, <3>2
      <3>4. notified' \in [Procs -> BOOLEAN]
        BY <1>8 DEF Take, Contains
      <3> QED
        BY <1>8, <3>2, <3>3, <3>4, <1>a DEF Take
    <2>4. CASE ~(one[p] /\ waiting[l] # <<>>)
      <3>1. /\ waking' = [waking EXCEPT ![p] = waiting[l]]
            /\ waiting' = [waiting EXCEPT ![l] = <<>>]
            /\ todo' = [todo EXCEPT ![p] = Tail(@)]
        BY <1>8, <2>4 DEF Take
      <3>2. /\ waking' \in [Procs -> Seq(Handles)]
            /\ waiting' \in [Lists -> Seq(Handles)]
            /\ todo' \in [Procs -> Seq(Lists)]
        BY <2>1, <2>2, <3>1
      <3>3. notified' \in [Procs -> BOOLEAN]
        BY <1>8 DEF Take, Contains
      <3> QED
        BY <1>8, <3>1, <3>2, <3>3, <1>a DEF Take
    <2> QED
      BY <2>3, <2>4
  <1>9. CASE Wake(p)
    <2>1. Head(waking[p]) \in Handles /\ Tail(waking[p]) \in Seq(Handles)
      BY <1>9, InTail DEF Wake
    <2>2. token' \in [Procs -> BOOLEAN] /\ signal' \in [Procs -> BOOLEAN]
      BY <1>9, <2>1 DEF Wake, Handles
    <2> QED
      BY <1>9, <2>1, <2>2, <1>a DEF Wake
  <1>10. CASE Woken(p)
    BY <1>10, <1>a DEF Woken
  <1> QED
    BY <1>2, <1>3, <1>4, <1>5, <1>6, <1>7, <1>8, <1>9, <1>10
    DEF Step, Client, WaitStep, NotifyStep, Environment

\* A process stays in the stages its wait or notification goes through.
LEMMA StagesStep ==
    ASSUME Typed, StagesMatch, NEW p \in Procs, Step(p)
    PROVE  StagesMatch'
  <1> USE DEF Typed, Goto, wakeVars, notifyVars, methodVars, boundVars
  <1> DEFINE StageAt(q) ==
                 /\ pc[q] = "take" => todo[q] # <<>>
                 /\ pc[q] \in {"clock", "recheck", "withdraw", "confirm"}
                        => timed[q]
                 /\ pc[q] = "withdraw" => expired[q]
                 /\ pc[q] = "confirm" => how[q] = "spin"
                 /\ pc[q] \in WaitPoints \cup {"unlock"} => gen[q] > 0
  <1>1. ASSUME NEW q \in Procs, q # p PROVE StageAt(q)'
    <2>1. /\ pc'[q] = pc[q] /\ how'[q] = how[q] /\ timed'[q] = timed[q]
          /\ gen'[q] = gen[q] /\ todo'[q] = todo[q]
          /\ expired'[q] = expired[q]
      BY <1>1, OthersStay
    <2> QED
      BY <2>1 DEF StagesMatch
  <1>2. StageAt(p)'
    <2>1. CASE CallNotify(p)
      <3>1. pc'[p] = "take" /\ todo'[p] = <<"spin", "block", "async">>
        BY <2>1 DEF CallNotify, Notify
      <3>2. todo'[p] # <<>>
        BY <3>1, NotEmpty
      <3> QED
        BY <3>1, <3>2 DEF WaitPoints
    <2>2. CASE Enlist(p)
      BY <2>2 DEF Enlist, WaitPoints
    <2>3. CASE \/ CallLock(p) \/ CallWait(p) \/ Acquire(p) \/ Release(p)
               \/ Signalled(p) \/ Cancel(p) \/ Take(p) \/ Wake(p)
      <3>1. pc'[p] \in {"lock", "enlist", "held", "idle", "wake"}
        BY <2>3
        DEF CallLock, CallWait, Request, Acquire, Release, Signalled,
            Resume, Cancel, Take, Wake
      <3> QED
        BY <3>1 DEF WaitPoints
    <2>4. CASE Woken(p)
      BY <2>4 DEF Woken, WaitPoints
    <2>5. CASE \/ Unlock(p) \/ NotSignalled(p) \/ Clock(p) \/ Unparked(p)
               \/ Recheck(p) \/ ParkSpuriously(p) \/ DeadlinePasses(p)
      <3>1. /\ pc[p] \in WaitPoints \cup {"unlock", "lock"}
            /\ pc'[p] \in {"lock", "pause", "clock", "withdraw", "recheck"}
                   \/ pc'[p] = pc[p]
            /\ pc[p] = "lock" => pc'[p] = "lock"
            /\ pc'[p] \in {"clock", "recheck", "withdraw"}
                   => timed[p] \/ pc[p] \in {"clock", "recheck", "withdraw"}
            /\ pc'[p] = "withdraw" => expired'[p]
            /\ gen'[p] = gen[p] /\ how'[p] = how[p] /\ timed'[p] = timed[p]
        BY <2>5
        DEF Unlock, NotSignalled, Clock, Unparked, Recheck, ParkSpuriously,
            DeadlinePasses, Resume, WaitPoints, Waiting
      <3> QED
        BY <3>1 DEF StagesMatch, WaitPoints
    <2>6. CASE Withdraw(p)
      BY <2>6 DEF Withdraw, Resume, StagesMatch, WaitPoints
    <2> QED
      BY <2>1, <2>2, <2>3, <2>4, <2>5, <2>6
      DEF Step, Client, WaitStep, NotifyStep, Environment
  <1> QED
    BY <1>1, <1>2 DEF StagesMatch

\* Nobody leaves the control points of module Condvar.
LEMMA PointsStep ==
    ASSUME Typed, AtPoints, NEW p \in Procs, Step(p)
    PROVE  AtPoints'
  <1> USE DEF AtPoints, Goto, ControlPoints, WaitPoints, NotifyPoints
  <1>1. CASE Client(p) \/ Acquire(p) \/ Release(p) \/ NotifyStep(p)
    BY <1>1
    DEF Client, CallLock, CallWait, CallNotify, Request, Choose, Notify,
        Acquire, Release, NotifyStep, Take, Wake, Woken
  <1>2. CASE WaitStep(p) \/ Environment(p)
    BY <1>2
    DEF WaitStep, Environment, Enlist, Unlock, Signalled, NotSignalled,
        Clock, Unparked, Recheck, Withdraw, Resume, DeadlinePasses,
        ParkSpuriously, Cancel
  <1> QED
    BY <1>1, <1>2 DEF Step

-----------------------------------------------------------------------------
\* No notification is lost.

\* A waiter that has joined its list, and has not yet been woken.
Unheard(p) ==
    /\ pc[p] \in {"unlock", "pause", "clock", "withdraw", "confirm"}
    /\ IF how[p] = "block" THEN ~token[p] ELSE ~signal[p]

\* Someone is about to wake it, or it is still in its list.
Remembered(p) ==
    \/ \E q \in Procs : Contains(waking[q], Handle(p))
    \/ pc[p] # "confirm" /\ Listed(p)

NoneForgotten == \A p \in Procs : Unheard(p) => Remembered(p)

\* The step of a waiter leaves it remembered.
LEMMA OwnStep ==
    ASSUME Typed, StagesMatch, NoneForgotten, NEW p \in Procs, Step(p),
           Unheard(p)'
    PROVE  Remembered(p)'
  <1> USE DEF Typed, Goto, wakeVars, notifyVars, methodVars, boundVars
  <1>1. CASE Enlist(p)
    <2>1. HandleOf(p, gen'[p]) \in Handles /\ how[p] \in Lists
      BY <1>1 DEF Enlist, HandleOf, Handles
    <2>2. waiting'[how[p]] = Append(waiting[how[p]], HandleOf(p, gen'[p]))
      BY <1>1, <2>1 DEF Enlist
    <2>3. Contains(waiting'[how[p]], HandleOf(p, gen'[p]))
      BY <2>1, <2>2, InAppend
    <2>4. how' = how /\ pc'[p] = "unlock"
      BY <1>1 DEF Enlist
    <2> QED
      BY <2>3, <2>4 DEF Remembered, Listed, Handle, HandleOf
  <1>2. CASE Unlock(p) \/ NotSignalled(p) \/ Clock(p) \/ DeadlinePasses(p)
    <2>1. /\ waiting' = waiting /\ waking' = waking /\ how' = how
          /\ gen' = gen /\ token' = token /\ signal' = signal
          /\ pc[p] # "confirm" => pc'[p] # "confirm"
      BY <1>2
      DEF Unlock, NotSignalled, Clock, DeadlinePasses, Waiting, WaitPoints
    <2>2. Unheard(p)
      BY <1>2, <2>1
      DEF Unheard, Unlock, NotSignalled, Clock, DeadlinePasses
    <2>3. Remembered(p)
      BY <2>2 DEF NoneForgotten
    <2> QED
      BY <2>1, <2>3 DEF Remembered, Listed, Handle, HandleOf
  <1>3. CASE Recheck(p)
    <2>1. /\ waiting' = waiting /\ how' = how /\ gen' = gen
          /\ pc'[p] = IF Listed(p) THEN "clock" ELSE "lock"
      BY <1>3 DEF Recheck, Resume
    <2> QED
      BY <2>1 DEF Unheard, Remembered, Listed, Handle, HandleOf
  <1>4. CASE Withdraw(p)
    <2>1. /\ waking' = waking /\ how' = how /\ gen' = gen /\ token' = token
          /\ signal' = signal /\ pc[p] = "withdraw"
          /\ pc'[p] = IF how[p] = "spin" /\ ~Listed(p) THEN "confirm"
                                                        ELSE "lock"
      BY <1>4 DEF Withdraw, Resume
    <2>2. Unheard(p) /\ ~Listed(p)
      BY <2>1 DEF Unheard
    <2>3. \E q \in Procs : Contains(waking[q], Handle(p))
      BY <2>2 DEF NoneForgotten, Remembered
    <2> QED
      BY <2>1, <2>3 DEF Remembered, Handle, HandleOf
  <1>5. CASE \/ Client(p) \/ Acquire(p) \/ Release(p) \/ Signalled(p)
             \/ Unparked(p) \/ ParkSpuriously(p) \/ Cancel(p)
             \/ NotifyStep(p)
    <2>1. pc'[p] \in {"idle", "lock", "held", "enlist", "recheck", "take",
                      "wake"}
      BY <1>5
      DEF Client, CallLock, CallWait, CallNotify, Request, Notify, Acquire,
          Release, Signalled, Unparked, ParkSpuriously, Cancel, NotifyStep,
          Take, Wake, Woken, Resume
    <2> QED
      BY <2>1 DEF Unheard
  <1> QED
    BY <1>1, <1>2, <1>3, <1>4, <1>5 DEF Step, WaitStep, Environment

\* What a notifier takes from a list was all that it is to wake.
LEMMA TakeStep ==
    ASSUME Typed, StagesMatch, NEW p \in Procs, Take(p),
           NEW w \in Lists, NEW h, Contains(waiting[w], h)
    PROVE  Contains(waiting'[w], h) \/ Contains(waking'[p], h)
  <1> USE DEF Typed
  <1>1. todo[p] # <<>>
    BY DEF Take, StagesMatch
  <1> DEFINE l == Head(todo[p])
  <1>2. l \in Lists
    BY <1>1, InTail
  <1>3. waiting[l] \in Seq(Handles)
    BY <1>2
  <1>4. CASE w # l
    BY <1>2, <1>4 DEF Take
  <1>5. CASE w = l /\ one[p] /\ waiting[l] # <<>>
    <2>1. /\ waking'[p] = <<Last(waiting[l])>>
          /\ waiting'[l] = Front(waiting[l])
      BY <1>2, <1>5 DEF Take
    <2> HIDE DEF l
    <2>2. h = Last(waiting[l]) \/ Contains(Front(waiting[l]), h)
      BY <1>3, <1>5, InFront
    <2>3. Contains(<<Last(waiting[l])>>, Last(waiting[l]))
      BY DEF Contains
    <2> QED
      BY <1>5, <2>1, <2>2, <2>3
  <1>6. CASE w = l /\ ~(one[p] /\ waiting[l] # <<>>)
    <2>1. waking'[p] = waiting[l]
      BY <1>2, <1>6 DEF Take
    <2> QED
      BY <1>6, <2>1
  <1> QED
    BY <1>4, <1>5, <1>6

\* A waiter that is in its list stays there, but for what a notifier takes.
LEMMA ListedStep ==
    ASSUME Typed, StagesMatch, NEW p \in Procs, Step(p),
           NEW r \in Procs, r # p, Listed(r)
    PROVE  Listed(r)' \/ (Take(p) /\ Contains(waking'[p], Handle(r)))
  <1> USE DEF Typed, Goto, wakeVars, notifyVars, methodVars, boundVars
  <1>1. how'[r] = how[r] /\ how[r] \in Lists /\ Handle(r)' = Handle(r)
    BY OthersStay DEF Handle, HandleOf
  <1>2. CASE Contains(waiting'[how[r]], Handle(r))
    BY <1>1, <1>2 DEF Listed
  <1>3. CASE \/ Client(p) \/ Acquire(p) \/ Release(p) \/ Wake(p) \/ Woken(p)
    <2>1. waiting' = waiting
      BY <1>3
      DEF Client, CallLock, CallWait, CallNotify, Request, Choose, Notify,
          Acquire, Release, Wake, Woken
    <2> QED
      BY <1>2, <2>1 DEF Listed
  <1>4. CASE \/ (WaitStep(p) /\ ~Enlist(p) /\ ~Withdraw(p))
             \/ Environment(p)
    <2>1. waiting' = waiting
      BY <1>4
      DEF WaitStep, Environment, Unlock, Signalled, NotSignalled, Clock,
          Unparked, Recheck, Resume, DeadlinePasses, ParkSpuriously, Cancel
    <2> QED
      BY <1>2, <2>1 DEF Listed
  <1>5. CASE Enlist(p)
    <2> DEFINE h == HandleOf(p, gen'[p])
    <2>1. h \in Handles /\ how[p] \in Lists
      BY <1>5 DEF Enlist, HandleOf, Handles
    <2>2. waiting' = [waiting EXCEPT ![how[p]] = Append(@, h)]
      BY <1>5 DEF Enlist
    <2> HIDE DEF h
    <2>3. waiting[how[r]] \in Seq(Handles)
      BY <1>1
    <2>4. Contains(Append(waiting[how[r]], h), Handle(r))
      BY <2>1, <2>3, InAppend DEF Listed
    <2>5. waiting'[how[r]] \in
              {waiting[how[r]], Append(waiting[how[r]], h)}
      BY <1>1, <2>1, <2>2
    <2> QED
      BY <1>2, <2>4, <2>5 DEF Listed
  <1>6. CASE Withdraw(p)
    <2>1. waiting' = [waiting EXCEPT ![how[p]] = RemoveFirst(@, Handle(p))]
      BY <1>6 DEF Withdraw
    <2>2. Handle(p) # Handle(r)
      <3>1. Handle(p)[1] = p /\ Handle(r)[1] = r
        BY DEF Handle, HandleOf
      <3> QED
        BY <3>1
    <2>3. waiting[how[r]] \in Seq(Handles) /\ how[p] \in Lists
      BY <1>1
    <2>4. Contains(RemoveFirst(waiting[how[r]], Handle(p)), Handle(r))
      BY <2>2, <2>3, InRemoveFirst DEF Listed
    <2>5. waiting'[how[r]] \in
              {waiting[how[r]], RemoveFirst(waiting[how[r]], Handle(p))}
      BY <1>1, <2>1, <2>3
    <2> QED
      BY <1>2, <2>4, <2>5 DEF Listed
  <1>7. CASE Take(p)
    BY <1>1, <1>2, <1>7, TakeStep DEF Listed
  <1> QED
    BY <1>3, <1>4, <1>5, <1>6, <1>7 DEF Step, NotifyStep

\* What is to be woken changes only as a notifier takes a list, or wakes one.
LEMMA WakingStep ==
    ASSUME Typed, NEW p \in Procs, Step(p)
    PROVE  /\ Take(p) => /\ waking[p] = <<>>
                         /\ \A q \in Procs : q # p => waking'[q] = waking[q]
           /\ Wake(p) => waking' = [waking EXCEPT ![p] = Tail(@)]
           /\ ~Take(p) /\ ~Wake(p) => waking' = waking
  <1> USE DEF Typed, notifyVars
  <1>1. CASE Client(p) \/ Acquire(p) \/ Release(p) \/ NotifyStep(p)
    BY <1>1
    DEF Client, CallLock, CallWait, CallNotify, Request, Choose, Notify,
        Acquire, Release, NotifyStep, Take, Wake, Woken
  <1>2. CASE WaitStep(p) \/ Environment(p)
    <2>1. waking' = waking
      BY <1>2
      DEF WaitStep, Environment, Enlist, Unlock, Signalled, NotSignalled,
          Clock, Unparked, Recheck, Withdraw, Resume, DeadlinePasses,
          ParkSpuriously, Cancel
    <2>2. ~Take(p) /\ ~Wake(p)
      BY <1>2
      DEF WaitStep, Environment, Enlist, Unlock, Signalled, NotSignalled,
          Clock, Unparked, Recheck, Withdraw, DeadlinePasses,
          ParkSpuriously, Cancel, Take, Wake, Waiting, WaitPoints
    <2> QED
      BY <2>1, <2>2
  <1> QED
    BY <1>1, <1>2 DEF Step

\* What wakes a waiter, and does not lose a token or signal of another.
LEMMA SignalStep ==
    ASSUME Typed, NEW p \in Procs, Step(p), NEW r \in Procs, r # p
    PROVE  /\ (token[r] => token'[r]) /\ (signal[r] => signal'[r])
           /\ signal'[r] => signal[r] \/ Wake(p)
           /\ notified[r] => notified'[r]
  <1> USE DEF Typed, wakeVars
  <1>1. CASE Client(p) \/ Acquire(p) \/ Release(p) \/ NotifyStep(p)
    BY <1>1
    DEF Client, CallLock, CallWait, CallNotify, Request, Choose, Notify,
        Acquire, Release, NotifyStep, Take, Wake, Woken
  <1>2. CASE WaitStep(p) \/ Environment(p)
    BY <1>2
    DEF WaitStep, Environment, Enlist, Unlock, Signalled, NotSignalled,
        Clock, Unparked, Recheck, Withdraw, Resume, DeadlinePasses,
        ParkSpuriously, Cancel
  <1> QED
    BY <1>1, <1>2 DEF Step

\* The step of another process leaves a waiter remembered, or wakes it.
LEMMA OtherStep ==
    ASSUME Typed, StagesMatch, NoneForgotten, NEW p \in Procs, Step(p),
           NEW r \in Procs, r # p, Unheard(r)'
    PROVE  Remembered(r)'
  <1>1. pc'[r] = pc[r] /\ how'[r] = how[r] /\ gen'[r] = gen[r]
    BY OthersStay
  <1>2. Handle(r)' = Handle(r)
    BY <1>1 DEF Handle, HandleOf
  <1>3. Unheard(r)
    BY <1>1, SignalStep DEF Unheard
  <1>4. CASE pc[r] # "confirm" /\ Listed(r)
    BY <1>1, <1>2, <1>4, ListedStep DEF Remembered
  <1>5. ASSUME NEW q \in Procs, Contains(waking[q], Handle(r))
        PROVE  Contains(waking'[q], Handle(r))
    <2>1. CASE Take(p)
      BY <1>5, <2>1, WakingStep, InEmpty
    <2>2. CASE Wake(p)
      <3>1. Head(waking[p]) # Handle(r)
        <4> SUFFICES ASSUME Head(waking[p]) = Handle(r) PROVE FALSE
          OBVIOUS
        <4>1. CASE how[r] = "block"
          <5>1. Handle(r)[1] = r /\ Handle(r)[2] = 0
            BY <4>1 DEF Handle, HandleOf
          <5>2. token'[r]
            BY <2>2, <5>1 DEF Wake, Typed
          <5> QED
            BY <1>1, <4>1, <5>2 DEF Unheard
        <4>2. CASE how[r] # "block"
          <5>1. Handle(r)[1] = r /\ Handle(r)[2] = gen[r] /\ gen[r] # 0
            BY <1>3, <4>2
            DEF Handle, HandleOf, Unheard, StagesMatch, WaitPoints, Typed
          <5>2. signal'[r]
            BY <2>2, <5>1 DEF Wake, Typed
          <5> QED
            BY <1>1, <4>2, <5>2 DEF Unheard
        <4> QED
          BY <4>1, <4>2
      <3>2. waking[p] # <<>> /\ waking' = [waking EXCEPT ![p] = Tail(@)]
        BY <2>2 DEF Wake
      <3> QED
        BY <1>5, <3>1, <3>2, InTail DEF Typed
    <2> QED
      BY <1>5, <2>1, <2>2, WakingStep
  <1> QED
    BY <1>2, <1>3, <1>4, <1>5 DEF NoneForgotten, Remembered

\* Every waiter is remembered from the time it joins its list until it is
\* woken or leaves by itself.
LEMMA NoneForgottenStep ==
    ASSUME Typed, StagesMatch, NoneForgotten, NEW p \in Procs, Step(p)
    PROVE  NoneForgotten'
  BY OwnStep, OtherStep DEF NoneForgotten

-----------------------------------------------------------------------------
\* What a step does to the lists.

\* But for a waiter that joins it, a list only loses what it has.
LEMMA ListStep ==
    ASSUME Typed, StagesMatch, NEW p \in Procs, Step(p), ~Enlist(p),
           NEW l \in Lists
    PROVE  \/ waiting'[l] = waiting[l]
           \/ waiting[l] # <<>> /\ waiting'[l] = Front(waiting[l])
           \/ waiting'[l] = <<>>
           \/ waiting'[l] = RemoveFirst(waiting[l], Handle(p))
  <1> USE DEF Typed
  <1>1. CASE Take(p)
    <2>1. todo[p] # <<>> /\ Head(todo[p]) \in Lists
      BY <1>1, InTail DEF Take, StagesMatch
    <2> DEFINE k == Head(todo[p])
    <2>2. \/ waiting[k] # <<>> /\ waiting' = [waiting EXCEPT ![k] = Front(@)]
          \/ waiting' = [waiting EXCEPT ![k] = <<>>]
      BY <1>1 DEF Take
    <2> HIDE DEF k
    <2> QED
      BY <2>1, <2>2
  <1>2. CASE Withdraw(p)
    <2>1. waiting' = [waiting EXCEPT ![how[p]] = RemoveFirst(@, Handle(p))]
      BY <1>2 DEF Withdraw
    <2> QED
      BY <2>1
  <1>3. CASE ~Take(p) /\ ~Withdraw(p)
    <2>1. waiting' = waiting
      BY <1>3
      DEF Step, Client, CallLock, CallWait, CallNotify, Request, Choose,
          Notify, Acquire, Release, NotifyStep, Wake, Woken, WaitStep,
          Environment, Unlock, Signalled, NotSignalled, Clock, Unparked,
          Recheck, Resume, DeadlinePasses, ParkSpuriously, Cancel
    <2> QED
      BY <2>1
  <1> QED
    BY <1>1, <1>2, <1>3

\* So it contains nothing new, and nothing twice that it had once.
LEMMA ListShrinks ==
    ASSUME Typed, StagesMatch, NEW p \in Procs, Step(p), ~Enlist(p),
           NEW l \in Lists, NEW S, waiting[l] \in Seq(S)
    PROVE  /\ waiting'[l] \in Seq(S)
           /\ \A x : /\ Contains(waiting'[l], x) => Contains(waiting[l], x)
                     /\ Once(waiting[l], x) => Once(waiting'[l], x)
  <1>1. CASE waiting'[l] = waiting[l]
    BY <1>1
  <1>2. CASE waiting[l] # <<>> /\ waiting'[l] = Front(waiting[l])
    BY <1>2, InFront, OnceFront
  <1>3. CASE waiting'[l] = <<>>
    <2>1. <<>> \in Seq(S) /\ \A x : ~Contains(<<>>, x) /\ Once(<<>>, x)
      BY InEmpty DEF Once
    <2> QED
      BY <1>3, <2>1
  <1>4. CASE waiting'[l] = RemoveFirst(waiting[l], Handle(p))
    BY <1>4, InRemoveFirst, OnceRemoveFirst
  <1> QED
    BY <1>1, <1>2, <1>3, <1>4, ListStep

\* What joins a list is the handle of the waiter.
LEMMA EnlistStep ==
    ASSUME Typed, NEW p \in Procs, Enlist(p)
    PROVE  /\ Handle(p)' = HandleOf(p, gen[p] + 1) /\ Handle(p)' \in Handles
           /\ waiting' = [waiting EXCEPT ![how[p]] = Append(@, Handle(p)')]
           /\ how' = how /\ gen' = [gen EXCEPT ![p] = @ + 1]
           /\ how[p] \in Lists
  BY DEF Typed, Enlist, Handle, HandleOf, Handles, methodVars

-----------------------------------------------------------------------------
\* Nobody is woken by what an earlier wait has left behind.

\* The handles that have been made, and those that are yet to come are in no
\* list.
Made == {h \in Handles : h[2] <= gen[h[1]]}

HandlesMade == /\ waiting \in [Lists -> Seq(Made)]
               /\ waking \in [Procs -> Seq(Made)]

\* No step puts a handle into a list before it is made.
LEMMA MadeStep ==
    ASSUME Typed, StagesMatch, HandlesMade, NEW p \in Procs, Step(p)
    PROVE  HandlesMade'
  <1> USE DEF Typed
  <1>1. CASE ~Enlist(p)
    <2>1. gen' = gen
      BY <1>1
      DEF Step, Client, CallLock, CallWait, CallNotify, Request, Choose,
          Notify, Acquire, Release, NotifyStep, Take, Wake, Woken, WaitStep,
          Environment, Unlock, Signalled, NotSignalled, Clock, Unparked,
          Recheck, Withdraw, Resume, DeadlinePasses, ParkSpuriously, Cancel
    <2>2. Made' = Made
      BY <2>1 DEF Made
    <2>3. waiting' \in [Lists -> Seq(Made)]
      <3>1. \A l \in Lists : waiting'[l] \in Seq(Made)
        BY <1>1, ListShrinks DEF HandlesMade
      <3>2. waiting' \in [Lists -> Seq(Handles)]
        BY TypeStep
      <3> QED
        BY <3>1, <3>2
    <2>4. CASE Take(p)
      <3> DEFINE l == Head(todo[p])
      <3>1. waiting[l] \in Seq(Made)
        BY <2>4, InTail DEF Take, StagesMatch, HandlesMade
      <3>2. \/ waiting[l] # <<>>
               /\ waking' = [waking EXCEPT ![p] = <<Last(waiting[l])>>]
            \/ waking' = [waking EXCEPT ![p] = waiting[l]]
        BY <2>4 DEF Take
      <3> HIDE DEF l
      <3>3. waiting[l] # <<>> => Last(waiting[l]) \in Made
        BY <3>1, InFront
      <3>4. waiting[l] # <<>> => <<Last(waiting[l])>> \in Seq(Made)
        BY <3>3
      <3> QED
        BY <2>2, <2>3, <3>1, <3>2, <3>4 DEF HandlesMade
    <2>5. CASE Wake(p)
      <3>1. waking[p] # <<>> /\ waking' = [waking EXCEPT ![p] = Tail(@)]
        BY <2>5 DEF Wake
      <3>2. Tail(waking[p]) \in Seq(Made)
        BY <3>1, InTail DEF HandlesMade
      <3> QED
        BY <2>2, <2>3, <3>1, <3>2 DEF HandlesMade
    <2> QED
      BY <2>2, <2>3, <2>4, <2>5, WakingStep DEF HandlesMade
  <1>2. CASE Enlist(p)
    <2>1. gen' = [gen EXCEPT ![p] = @ + 1] /\ waking' = waking
      BY <1>2 DEF Enlist, notifyVars
    <2> DEFINE h == HandleOf(p, gen'[p])
    <2>2. waiting' = [waiting EXCEPT ![how[p]] = Append(@, h)]
      BY <1>2 DEF Enlist
    <2>3. Made \subseteq Made'
      BY <2>1 DEF Made, Handles
    <2>4. h \in Made'
      BY <2>1 DEF Made, Handles, HandleOf
    <2> HIDE DEF h
    <2>5. /\ \A l \in Lists : waiting[l] \in Seq(Made')
          /\ \A q \in Procs : waking[q] \in Seq(Made')
      BY <2>3, LargerSeq DEF HandlesMade
    <2>6. Append(waiting[how[p]], h) \in Seq(Made')
      BY <2>4, <2>5, InAppend
    <2> QED
      BY <2>1, <2>2, <2>5, <2>6 DEF HandlesMade
  <1> QED
    BY <1>1, <1>2

\* What has woken a waiter, or is about to, or has taken it from its list, came
\* from a notification of this very wait.
NotedAt(p) ==
    pc[p] \in WaitPoints \cup {"unlock"} =>
        /\ how[p] # "block" /\ signal[p] => notified[p]
        /\ \A q \in Procs :
               how[p] # "block" /\ Contains(waking[q], Handle(p))
                   => notified[p]
        /\ notified[p] \/ (pc[p] # "confirm" /\ Listed(p))

Noted == \A p \in Procs : NotedAt(p)

\* The step of a waiter leaves it notified for a reason.
LEMMA OwnNoted ==
    ASSUME Typed, StagesMatch, HandlesMade, Noted, NEW p \in Procs, Step(p)
    PROVE  NotedAt(p)'
  <1> USE DEF Typed, Goto, wakeVars, notifyVars, methodVars, boundVars
  <1>1. CASE Enlist(p)
    <2> DEFINE h == HandleOf(p, gen'[p])
    <2>1. h \in Handles /\ how[p] \in Lists
      BY <1>1 DEF Enlist, HandleOf, Handles
    <2>2. /\ waiting'[how[p]] = Append(waiting[how[p]], h)
          /\ waking' = waking /\ how' = how /\ gen'[p] = gen[p] + 1
          /\ pc'[p] = "unlock" /\ ~signal'[p]
      BY <1>1, <2>1 DEF Enlist
    <2>3. how[p] # "block" => h \notin Made
      BY <2>2 DEF Made, HandleOf
    <2>4. Handle(p)' = h
      BY <2>2 DEF Handle, HandleOf
    <2> HIDE DEF h
    <2>5. Contains(waiting'[how[p]], h)
      BY <2>1, <2>2, InAppend
    <2>6. how[p] # "block" => \A q \in Procs : ~Contains(waking[q], h)
      BY <2>3, InSeq DEF HandlesMade
    <2> QED
      BY <2>2, <2>4, <2>5, <2>6 DEF NotedAt, Listed
  <1>2. CASE \/ Unlock(p) \/ NotSignalled(p) \/ Clock(p) \/ Unparked(p)
             \/ Recheck(p) \/ ParkSpuriously(p) \/ DeadlinePasses(p)
    <2>1. /\ waiting' = waiting /\ waking' = waking /\ how' = how /\ gen' = gen
          /\ signal' = signal /\ notified' = notified
          /\ pc'[p] \in WaitPoints \cup {"unlock"}
                 => /\ pc[p] \in WaitPoints \cup {"unlock"}
                    /\ pc[p] # "confirm" => pc'[p] # "confirm"
      BY <1>2
      DEF Unlock, NotSignalled, Clock, Unparked, Recheck, ParkSpuriously,
          DeadlinePasses, Resume, WaitPoints, Waiting
    <2> QED
      BY <2>1 DEF Noted, NotedAt, Listed, Handle, HandleOf
  <1>3. CASE Withdraw(p)
    <2>1. /\ waking' = waking /\ how' = how /\ gen' = gen
          /\ signal' = signal /\ notified' = notified /\ pc[p] = "withdraw"
          /\ pc'[p] = IF how[p] = "spin" /\ ~Listed(p) THEN "confirm"
                                                        ELSE "lock"
      BY <1>3 DEF Withdraw, Resume
    <2> QED
      BY <2>1 DEF Noted, NotedAt, Handle, HandleOf, WaitPoints
  <1>4. CASE \/ Client(p) \/ Acquire(p) \/ Release(p) \/ Signalled(p)
             \/ Cancel(p) \/ NotifyStep(p)
    <2>1. pc'[p] \in {"idle", "lock", "held", "enlist", "take", "wake"}
      BY <1>4
      DEF Client, CallLock, CallWait, CallNotify, Request, Notify, Acquire,
          Release, Signalled, Cancel, NotifyStep, Take, Wake, Woken, Resume
    <2> QED
      BY <2>1 DEF NotedAt, WaitPoints
  <1> QED
    BY <1>1, <1>2, <1>3, <1>4 DEF Step, WaitStep, Environment

\* The step of another process notifies a waiter before it wakes it.
LEMMA OtherNoted ==
    ASSUME Typed, StagesMatch, Noted, NEW p \in Procs, Step(p),
           NEW r \in Procs, r # p
    PROVE  NotedAt(r)'
  <1>1. pc'[r] = pc[r] /\ how'[r] = how[r] /\ gen'[r] = gen[r]
    BY OthersStay
  <1>2. Handle(r)' = Handle(r)
    BY <1>1 DEF Handle, HandleOf
  <1>3. notified[r] => notified'[r]
    BY SignalStep
  <1>4. Take(p) /\ Contains(waking'[p], Handle(r)) => notified'[r]
    BY DEF Take
  <1>5. ASSUME pc[r] \in WaitPoints \cup {"unlock"}, how[r] # "block",
               signal'[r]
        PROVE  notified'[r]
    <2>1. CASE signal[r]
      BY <1>3, <1>5, <2>1 DEF Noted, NotedAt
    <2>2. CASE ~signal[r] /\ Wake(p)
      <3>1. /\ waking[p] # <<>> /\ waking[p] \in Seq(Handles)
            /\ Head(waking[p])[1] = r /\ Head(waking[p])[2] = gen[r]
        BY <1>5, <2>2 DEF Wake, Typed
      <3>2. Head(waking[p]) \in Handles
        BY <3>1, InTail
      <3>3. Head(waking[p]) = Handle(r)
        BY <1>5, <3>1, <3>2 DEF Handles, Handle, HandleOf
      <3>4. Contains(waking[p], Head(waking[p]))
        BY <3>1 DEF Contains
      <3> QED
        BY <1>3, <1>5, <3>3, <3>4 DEF Noted, NotedAt
    <2> QED
      BY <1>5, <2>1, <2>2, SignalStep
  <1>6. ASSUME pc[r] \in WaitPoints \cup {"unlock"}, how[r] # "block",
               NEW q \in Procs, Contains(waking'[q], Handle(r))
        PROVE  notified'[r]
    <2>1. CASE Contains(waking[q], Handle(r))
      BY <1>3, <1>6, <2>1 DEF Noted, NotedAt
    <2>2. CASE Take(p) /\ q = p
      BY <1>4, <1>6, <2>2
    <2>3. CASE Wake(p) /\ q = p
      <3>1. waking[p] # <<>> /\ waking'[p] = Tail(waking[p])
        BY <2>3 DEF Wake, Typed
      <3>2. Contains(waking[p], Handle(r))
        BY <1>6, <2>3, <3>1, TailInside DEF Typed
      <3> QED
        BY <2>1, <2>3, <3>2
    <2>4. waking'[q] = waking[q] \/ (q = p /\ (Take(p) \/ Wake(p)))
      BY WakingStep DEF Typed
    <2> QED
      BY <1>6, <2>1, <2>2, <2>3, <2>4
  <1>7. ASSUME pc[r] \in WaitPoints \cup {"unlock"}
        PROVE  notified'[r] \/ (pc'[r] # "confirm" /\ Listed(r)')
    BY <1>1, <1>3, <1>4, <1>7, ListedStep DEF Noted, NotedAt
  <1> QED
    BY <1>1, <1>2, <1>5, <1>6, <1>7 DEF NotedAt

\* Every waiter that was woken has been notified.
LEMMA NotedStep ==
    ASSUME Typed, StagesMatch, HandlesMade, Noted, NEW p \in Procs, Step(p)
    PROVE  Noted'
  BY OwnNoted, OtherNoted DEF Noted

\* Only these steps end a wait.
LEMMA EndStep ==
    ASSUME Typed, NEW p \in Procs, Step(p), NEW r \in Procs, Ends(r)
    PROVE  /\ r = p
           /\ \/ Signalled(r) \/ Unparked(r) \/ ParkSpuriously(r) \/ Recheck(r)
              \/ Withdraw(r)
  <1> USE DEF Typed, Goto
  <1>1. pc[r] \in WaitPoints /\ pc'[r] = "lock"
    BY DEF Ends, Waiting
  <1>2. r = p
    BY <1>1, OthersStay DEF WaitPoints
  <1> QED
    BY <1>1, <1>2
    DEF Step, Client, CallLock, CallWait, CallNotify, Request, Choose, Notify,
        Acquire, Release, NotifyStep, Take, Wake, Woken, WaitStep,
        Environment, Enlist, Unlock, NotSignalled, Clock, DeadlinePasses,
        Cancel, WaitPoints

\* A wait that ends, but for one that reports a timeout or parks without a
\* deadline, has been notified.
LEMMA EndNoted ==
    ASSUME Typed, StagesMatch, Noted, NEW p \in Procs, Step(p),
           NEW r \in Procs, Ends(r),
           IF timed[r] THEN ~timed_out'[r] ELSE how[r] # "block"
    PROVE  notified[r]
  <1> USE DEF Typed, Goto
  <1>1. pc[r] \in WaitPoints /\ pc'[r] = "lock" /\ NotedAt(r)
    BY DEF Ends, Waiting, Noted
  <1>2. CASE Signalled(r)
    BY <1>1, <1>2 DEF Signalled, NotedAt
  <1>3. CASE Unparked(r) \/ ParkSpuriously(r)
    BY <1>1, <1>3 DEF Unparked, ParkSpuriously
  <1>4. CASE Recheck(r)
    BY <1>1, <1>4 DEF Recheck, NotedAt
  <1>5. CASE Withdraw(r)
    <2>1. ~timed_out'[r]
      BY <1>5 DEF Withdraw, StagesMatch
    <2>2. ~Listed(r)
      BY <1>1, <1>5, <2>1 DEF Withdraw, Resume
    <2> QED
      BY <1>1, <2>2 DEF NotedAt
  <1> QED
    BY <1>2, <1>3, <1>4, <1>5, EndStep

-----------------------------------------------------------------------------
\* A wait says truly whether it timed out.

\* The list of the threads that park holds ids, the others hold what is made
\* for one wait.
HandlesOf(l) == Procs \X (IF l = "block" THEN {0} ELSE Nat \ {0})

KindsMatch == \A l \in Lists : waiting[l] \in Seq(HandlesOf(l))

LEMMA KindsStep ==
    ASSUME Typed, StagesMatch, KindsMatch, NEW p \in Procs, Step(p)
    PROVE  KindsMatch'
  <1>1. CASE Enlist(p)
    <2>1. Handle(p)' \in HandlesOf(how[p])
      BY <1>1, EnlistStep DEF HandleOf, HandlesOf, Typed
    <2>2. Append(waiting[how[p]], Handle(p)') \in Seq(HandlesOf(how[p]))
      BY <1>1, <2>1, EnlistStep, InAppend DEF KindsMatch
    <2>3. waiting' = [waiting EXCEPT ![how[p]] = Append(@, Handle(p)')]
      BY <1>1, EnlistStep
    <2>4. ASSUME NEW l \in Lists PROVE waiting'[l] \in Seq(HandlesOf(l))
      BY <2>2, <2>3 DEF KindsMatch, Typed
    <2> QED
      BY <2>4 DEF KindsMatch, HandlesOf
  <1>2. CASE ~Enlist(p)
    BY <1>2, ListShrinks DEF KindsMatch, HandlesOf
  <1> QED
    BY <1>1, <1>2

InWait(p) == pc[p] \in WaitPoints \cup {"unlock"}

\* Whether p can trust its place in the list.
Tidy(p) == how[p] = "block" => ~LeavesEntries(p)

\* A thread that only parks with deadlines leaves no id in the list, and a
\* waiter that can trust its place there is in its own list alone, once, and no
\* more when it has been notified.
SoleAt(p) ==
    /\ how[p] = "block" /\ ~timed[p] => LeavesEntries(p)
    /\ ~LeavesEntries(p) /\ ~(InWait(p) /\ how[p] = "block")
           => ~Contains(waiting["block"], <<p, 0>>)
    /\ InWait(p) => \A l \in Lists :
                        Contains(waiting[l], Handle(p)) => l = how[p]
    /\ InWait(p) /\ Tidy(p) => /\ Once(waiting[how[p]], Handle(p))
                               /\ notified[p] => ~Listed(p)

Sole == \A p \in Procs : SoleAt(p)

\* A waiter joins its list alone.
LEMMA SoleEnlisted ==
    ASSUME Typed, HandlesMade, KindsMatch, Sole, NEW p \in Procs, Enlist(p)
    PROVE  SoleAt(p)'
  <1> DEFINE h == Handle(p)'
  <1>1. /\ h = HandleOf(p, gen[p] + 1) /\ h \in Handles /\ how[p] \in Lists
        /\ waiting' = [waiting EXCEPT ![how[p]] = Append(@, h)] /\ how' = how
    BY EnlistStep
  <1>2. /\ pc[p] = "enlist" /\ pc'[p] = "unlock"
        /\ ~notified'[p] /\ timed' = timed
    BY DEF Enlist, Goto, Typed, methodVars
  <1>3. ~InWait(p) /\ InWait(p)'
    BY <1>2 DEF InWait, WaitPoints
  <1>4. \A l \in Lists : l # how[p] => ~Contains(waiting[l], h)
    <2>1. CASE how[p] = "block"
      <3>1. h[2] = 0
        BY <1>1, <2>1 DEF HandleOf
      <3>2. ASSUME NEW l \in Lists, l # "block", Contains(waiting[l], h)
            PROVE  FALSE
        <4>1. h \in HandlesOf(l)
          BY <3>2, InSeq DEF KindsMatch
        <4> QED
          BY <3>1, <3>2, <4>1 DEF HandlesOf
      <3> QED
        BY <2>1, <3>2
    <2>2. CASE how[p] # "block"
      <3>1. h \notin Made
        BY <1>1, <2>2 DEF Made, HandleOf, Typed
      <3> QED
        BY <3>1, InSeq DEF HandlesMade
    <2> QED
      BY <2>1, <2>2
  <1>5. Tidy(p) => ~Contains(waiting[how[p]], h)
    <2>1. CASE how[p] = "block"
      <3>1. h = <<p, 0>>
        BY <1>1, <2>1 DEF HandleOf
      <3> QED
        BY <1>3, <2>1, <3>1 DEF Tidy, Sole, SoleAt
    <2>2. CASE how[p] # "block"
      <3>1. h \notin Made
        BY <1>1, <2>2 DEF Made, HandleOf, Typed
      <3> QED
        BY <1>1, <3>1, InSeq DEF HandlesMade
    <2> QED
      BY <2>1, <2>2
  <1> HIDE DEF h
  <1>6. Tidy(p) => Once(waiting'[how[p]], h)
    <2> SUFFICES ASSUME Tidy(p) PROVE Once(waiting'[how[p]], h)
      OBVIOUS
    <2>1. Once(waiting[how[p]], h)
      BY <1>5 DEF Once, Contains
    <2>2. waiting[how[p]] \in Seq(Handles)
      BY <1>1 DEF Typed
    <2>3. waiting'[how[p]] = Append(waiting[how[p]], h)
      BY <1>1 DEF Typed
    <2> QED
      BY <1>1, <1>5, <2>1, <2>2, <2>3, OnceAppend
  <1>7. \A l \in Lists : l # how[p] => ~Contains(waiting'[l], h)
    BY <1>1, <1>4 DEF Typed
  <1>8. how[p] # "block" => waiting'["block"] = waiting["block"]
    BY <1>1 DEF Typed, Lists
  <1>9. LeavesEntries(p)' <=> LeavesEntries(p)
    BY DEF LeavesEntries, WaitSync
  <1>10. /\ how[p] = "block" /\ ~timed[p] => LeavesEntries(p)
         /\ ~LeavesEntries(p) => ~Contains(waiting["block"], <<p, 0>>)
    BY <1>3 DEF Sole, SoleAt
  <1> QED
    BY <1>1, <1>2, <1>3, <1>6, <1>7, <1>8, <1>9, <1>10 DEF SoleAt, Tidy, h

\* A waiter is notified when a notifier takes its handle.
LEMMA NotifiedStep ==
    ASSUME Typed, NEW p \in Procs, Step(p), NEW r \in Procs,
           notified'[r], ~notified[r]
    PROVE  Take(p) /\ Contains(waking'[p], Handle(r))
  <1> USE DEF Typed
  <1>1. CASE Client(p) \/ Acquire(p) \/ Release(p) \/ NotifyStep(p)
    BY <1>1
    DEF Client, CallLock, CallWait, CallNotify, Request, Choose, Notify,
        Acquire, Release, NotifyStep, Take, Wake, Woken
  <1>2. CASE WaitStep(p) \/ Environment(p)
    BY <1>2
    DEF WaitStep, Environment, Enlist, Unlock, Signalled, NotSignalled,
        Clock, Unparked, Recheck, Withdraw, Resume, DeadlinePasses,
        ParkSpuriously, Cancel
  <1> QED
    BY <1>1, <1>2 DEF Step

\* A step of the waiter keeps its place its own, and a wait that it may trust
\* leaves nothing behind.
LEMMA SoleOwn ==
    ASSUME Typed, StagesMatch, Sole, NEW p \in Procs, Step(p), ~Enlist(p)
    PROVE  SoleAt(p)'
  <1> USE DEF Typed, Goto, wakeVars, notifyVars, methodVars, boundVars
  <1>a. LeavesEntries(p)' <=> LeavesEntries(p)
    BY DEF LeavesEntries, WaitSync
  <1>b. \A l \in Lists : \A x :
            /\ Contains(waiting'[l], x) => Contains(waiting[l], x)
            /\ Once(waiting[l], x) => Once(waiting'[l], x)
    BY ListShrinks
  <1>c. SoleAt(p) /\ how[p] \in Lists /\ "block" \in Lists
    BY DEF Sole, Lists
  <1>d. how[p] = "block" => Handle(p) = <<p, 0>>
    BY DEF Handle, HandleOf
  <1>1. CASE CallWait(p)
    <2>1. PICK w \in Waits[p] : Choose(p, w)
      BY <1>1 DEF CallWait
    <2>2. how'[p] = WaitSync(p, w[1]) /\ timed'[p] = w[2]
      BY <2>1 DEF Choose
    <2>3. pc[p] = "held" /\ pc'[p] = "enlist" /\ waiting' = waiting
      BY <1>1 DEF CallWait
    <2> QED
      BY <1>a, <1>c, <2>2, <2>3
      DEF SoleAt, InWait, WaitPoints, LeavesEntries
  <1>2. CASE \/ CallLock(p) \/ CallNotify(p) \/ Acquire(p) \/ Release(p)
             \/ NotifyStep(p) \/ Cancel(p)
    <2>1. how' = how /\ timed' = timed
      BY <1>2
      DEF CallLock, CallNotify, Request, Notify, Acquire, Release, Cancel,
          NotifyStep, Take, Wake, Woken
    <2>2. /\ pc'[p] \in {"lock", "take", "held", "wake", "idle"}
          /\ \/ pc[p] \in {"lock", "take", "held", "wake", "idle"}
             \/ how[p] = "async"
      BY <1>2
      DEF CallLock, CallNotify, Request, Notify, Acquire, Release, Cancel,
          NotifyStep, Take, Wake, Woken
    <2> QED
      BY <1>a, <1>b, <1>c, <2>1, <2>2 DEF SoleAt, InWait, WaitPoints
  <1>3. CASE \/ Unlock(p) \/ Signalled(p) \/ NotSignalled(p) \/ Clock(p)
             \/ Unparked(p) \/ Recheck(p) \/ DeadlinePasses(p)
             \/ ParkSpuriously(p)
    <2>1. /\ waiting' = waiting /\ how' = how /\ timed' = timed /\ gen' = gen
          /\ notified' = notified
          /\ InWait(p)' => InWait(p)
          /\ InWait(p) /\ ~InWait(p)' => \/ how[p] # "block"
                                         \/ ~timed[p]
                                         \/ ~Listed(p)
      BY <1>3
      DEF Unlock, Signalled, NotSignalled, Clock, Unparked, Recheck,
          DeadlinePasses, ParkSpuriously, Resume, InWait, WaitPoints, Waiting
    <2>2. Handle(p)' = Handle(p) /\ (Listed(p)' <=> Listed(p))
      BY <2>1 DEF Listed, Handle, HandleOf
    <2>3. ~LeavesEntries(p) /\ ~(InWait(p)' /\ how[p] = "block")
              => ~Contains(waiting["block"], <<p, 0>>)
      BY <1>c, <1>d, <2>1 DEF SoleAt, Listed
    <2> QED
      BY <1>a, <1>c, <2>1, <2>2, <2>3 DEF SoleAt, Tidy
  <1>4. CASE Withdraw(p)
    <2>1. /\ waiting' = [waiting EXCEPT ![how[p]] = RemoveFirst(@, Handle(p))]
          /\ how' = how /\ timed' = timed /\ gen' = gen
          /\ notified' = notified /\ pc[p] = "withdraw"
          /\ pc'[p] = "lock" \/ (pc'[p] = "confirm" /\ ~Listed(p))
      BY <1>4 DEF Withdraw, Resume
    <2>2. InWait(p)
      BY <2>1 DEF InWait, WaitPoints
    <2>3. /\ Handle(p)' = Handle(p) /\ (Tidy(p)' <=> Tidy(p))
          /\ Listed(p)' => Listed(p)
      BY <1>a, <1>b, <1>c, <2>1 DEF Listed, Handle, HandleOf, Tidy
    <2>4. ~LeavesEntries(p) /\ how[p] = "block"
              => ~Contains(waiting'["block"], <<p, 0>>)
      <3> SUFFICES ASSUME ~LeavesEntries(p), how[p] = "block"
                   PROVE  ~Contains(waiting'["block"], <<p, 0>>)
        OBVIOUS
      <3>1. Once(waiting["block"], Handle(p))
        BY <1>c, <2>2 DEF SoleAt, Tidy
      <3>2. /\ waiting'["block"] = RemoveFirst(waiting["block"], Handle(p))
            /\ waiting["block"] \in Seq(Handles)
        BY <1>c, <2>1
      <3> QED
        BY <1>d, <3>1, <3>2, OnceRemoveFirst
    <2>5. ~LeavesEntries(p) => ~Contains(waiting'["block"], <<p, 0>>)
      BY <1>b, <1>c, <2>4 DEF SoleAt
    <2>6. /\ \A l \in Lists :
                 Contains(waiting'[l], Handle(p)) => l = how[p]
          /\ Tidy(p) => /\ Once(waiting'[how[p]], Handle(p))
                        /\ notified[p] => ~Listed(p)'
      BY <1>b, <1>c, <2>2, <2>3 DEF SoleAt
    <2> QED
      BY <1>a, <1>c, <2>1, <2>3, <2>5, <2>6 DEF SoleAt
  <1> QED
    BY <1>1, <1>2, <1>3, <1>4 DEF Step, Client, WaitStep, Environment

\* A step of another process takes the waiter from its list, or leaves it.
LEMMA SoleOther ==
    ASSUME Typed, StagesMatch, Sole, NEW p \in Procs, Step(p),
           NEW r \in Procs, r # p
    PROVE  SoleAt(r)'
  <1> USE DEF Typed
  <1>1. /\ pc'[r] = pc[r] /\ how'[r] = how[r] /\ timed'[r] = timed[r]
        /\ gen'[r] = gen[r]
    BY OthersStay
  <1>2. SoleAt(r) /\ how[r] \in Lists
    BY DEF Sole
  <1>3. /\ Handle(r)' = Handle(r) /\ Handle(r)[1] = r /\ <<r, 0>>[1] = r
        /\ (LeavesEntries(r)' <=> LeavesEntries(r))
    BY <1>1 DEF Handle, HandleOf, LeavesEntries, WaitSync
  <1>4. ASSUME NEW l \in Lists, NEW x, x[1] = r
        PROVE  /\ Contains(waiting'[l], x) => Contains(waiting[l], x)
               /\ Once(waiting[l], x) => Once(waiting'[l], x)
    <2>1. CASE Enlist(p)
      <3> DEFINE h == Handle(p)'
      <3>1. /\ h \in Handles /\ how[p] \in Lists /\ h = HandleOf(p, gen[p] + 1)
            /\ waiting' = [waiting EXCEPT ![how[p]] = Append(@, h)]
        BY <2>1, EnlistStep
      <3>2. h # x
        BY <1>4, <3>1 DEF HandleOf
      <3> HIDE DEF h
      <3>3. waiting'[l] \in {waiting[l], Append(waiting[l], h)}
        BY <3>1
      <3>4. waiting[l] \in Seq(Handles)
        OBVIOUS
      <3>5. CASE waiting'[l] = Append(waiting[l], h)
        BY <3>1, <3>2, <3>4, <3>5, OnceAppend
      <3> QED
        BY <3>3, <3>5
    <2>2. CASE ~Enlist(p)
      BY <2>2, ListShrinks
    <2> QED
      BY <2>1, <2>2
  <1>5. /\ Listed(r)' => Listed(r)
        /\ Once(waiting[how[r]], Handle(r))
               => Once(waiting'[how[r]], Handle(r))
        /\ Contains(waiting'["block"], <<r, 0>>)
               => Contains(waiting["block"], <<r, 0>>)
        /\ \A l \in Lists : Contains(waiting'[l], Handle(r))
                                => Contains(waiting[l], Handle(r))
    <2>1. "block" \in Lists
      BY DEF Lists
    <2> QED
      BY <1>1, <1>2, <1>3, <1>4, <2>1 DEF Listed
  <1>6. ASSUME InWait(r), Tidy(r), notified'[r], Listed(r)' PROVE FALSE
    <2>1. Listed(r) /\ ~notified[r] /\ Once(waiting[how[r]], Handle(r))
      BY <1>2, <1>5, <1>6 DEF SoleAt
    <2>2. Take(p) /\ Contains(waking'[p], Handle(r))
      BY <1>6, <2>1, NotifiedStep
    <2> DEFINE l == Head(todo[p])
    <2>3. l \in Lists
      BY <2>2, InTail DEF Take, StagesMatch
    <2>4. CASE one[p] /\ waiting[l] # <<>>
      <3>1. /\ waking'[p] = <<Last(waiting[l])>>
            /\ waiting'[l] = Front(waiting[l])
        BY <2>2, <2>3, <2>4 DEF Take
      <3> HIDE DEF l
      <3>2. Handle(r) = Last(waiting[l])
        BY <2>2, <3>1 DEF Contains
      <3>3. waiting[l] \in Seq(Handles)
        BY <2>3
      <3>4. Contains(waiting[l], Handle(r))
        <4>1. /\ Len(waiting[l]) \in 1..Len(waiting[l])
              /\ Last(waiting[l]) = waiting[l][Len(waiting[l])]
          BY <2>4, <3>3 DEF Last
        <4> QED
          BY <3>2, <4>1 DEF Contains
      <3>5. l = how[r]
        BY <1>2, <1>6, <2>3, <3>4 DEF SoleAt
      <3>6. ~Contains(waiting'[l], Handle(r))
        BY <2>1, <2>4, <3>1, <3>2, <3>3, <3>5, OnceFront
      <3> QED
        BY <1>1, <1>3, <1>6, <3>5, <3>6 DEF Listed
    <2>5. CASE ~(one[p] /\ waiting[l] # <<>>)
      <3>1. waking'[p] = waiting[l] /\ waiting'[l] = <<>>
        BY <2>2, <2>3, <2>5 DEF Take
      <3>2. l = how[r]
        BY <1>2, <1>6, <2>2, <2>3, <3>1 DEF SoleAt
      <3> QED
        BY <1>1, <1>3, <1>6, <3>1, <3>2, InEmpty DEF Listed
    <2> QED
      BY <2>4, <2>5
  <1>7. (InWait(r)' <=> InWait(r)) /\ (Tidy(r)' <=> Tidy(r))
    BY <1>1, <1>3 DEF InWait, Tidy
  <1> QED
    BY <1>1, <1>2, <1>3, <1>5, <1>6, <1>7 DEF SoleAt

\* Every waiter keeps its place its own.
LEMMA SoleStep ==
    ASSUME Typed, StagesMatch, HandlesMade, KindsMatch, Sole,
           NEW p \in Procs, Step(p)
    PROVE  Sole'
  BY SoleEnlisted, SoleOwn, SoleOther DEF Sole

-----------------------------------------------------------------------------
\* The invariant of a Condvar, whoever its clients are.

CondvarInv == /\ Typed /\ StagesMatch /\ NoneForgotten /\ HandlesMade
              /\ Noted /\ KindsMatch /\ Sole

LEMMA InvInit == Init => CondvarInv
  <1> SUFFICES ASSUME Init PROVE CondvarInv
    OBVIOUS
  <1>1. \A l \in Lists : waiting[l] = <<>>
    BY DEF Init
  <1>2. \A p \in Procs : ~InWait(p) /\ how[p] = "spin"
    BY DEF Init, InWait, WaitPoints
  <1>3. NoneForgotten /\ Noted
    BY DEF Init, NoneForgotten, Unheard, Noted, NotedAt, WaitPoints
  <1>4. HandlesMade
    <2>1. <<>> \in Seq(Made)
      OBVIOUS
    <2> QED
      BY <2>1 DEF Init, HandlesMade
  <1>5. KindsMatch
    <2>1. \A l \in Lists : <<>> \in Seq(HandlesOf(l))
      OBVIOUS
    <2> QED
      BY <1>1, <2>1 DEF KindsMatch
  <1>6. Sole
    <2>1. "block" \in Lists
      BY DEF Lists
    <2> QED
      BY <1>1, <1>2, <2>1, InEmpty DEF Sole, SoleAt
  <1> QED
    BY <1>3, <1>4, <1>5, <1>6, TypeInit DEF CondvarInv

LEMMA InvStep == ASSUME CondvarInv, NEW p \in Procs, Step(p)
                 PROVE  CondvarInv'
  BY TypeStep, StagesStep, NoneForgottenStep, MadeStep, NotedStep, KindsStep,
     SoleStep
  DEF CondvarInv

LEMMA InvStays == CondvarInv /\ UNCHANGED vars => CondvarInv'
  <1> SUFFICES ASSUME CondvarInv, UNCHANGED vars PROVE CondvarInv'
    OBVIOUS
  <1> USE DEF vars, methodVars, wakeVars, notifyVars, boundVars
  <1>1. Typed' /\ StagesMatch'
    BY DEF CondvarInv, Typed, StagesMatch
  <1>2. NoneForgotten' /\ Noted'
    BY DEF CondvarInv, NoneForgotten, Unheard, Remembered, Noted, NotedAt,
           Listed, Handle, HandleOf, Contains
  <1>3. HandlesMade' /\ KindsMatch'
    BY DEF CondvarInv, HandlesMade, Made, KindsMatch, HandlesOf
  <1>4. Sole'
    BY DEF CondvarInv, Sole, SoleAt, InWait, Tidy, Listed, Handle, HandleOf,
           LeavesEntries, WaitSync, Once, Contains
  <1> QED
    BY <1>1, <1>2, <1>3, <1>4 DEF CondvarInv

\* A step that a client takes by itself, outside its waits.
Aside(p) ==
    /\ ~InWait(p) /\ ~InWait(p)'
    /\ \A q \in Procs \ {p} :
           pc'[q] = pc[q] /\ how'[q] = how[q] /\ timed'[q] = timed[q]
    /\ \/ how'[p] = how[p] /\ timed'[p] = timed[p]
       \/ \E w \in Waits[p] : how'[p] = WaitSync(p, w[1]) /\ timed'[p] = w[2]
    /\ UNCHANGED <<waiting, gen, token, signal, waking, notified>>

LEMMA InvAside ==
    ASSUME CondvarInv, Typed', StagesMatch', NEW p \in Procs, Aside(p)
    PROVE  CondvarInv'
  <1>1. ASSUME NEW q \in Procs, q # p
        PROVE  /\ Handle(q)' = Handle(q) /\ (Listed(q)' <=> Listed(q))
               /\ (Tidy(q)' <=> Tidy(q)) /\ (InWait(q)' <=> InWait(q))
    BY <1>1 DEF Aside, Handle, HandleOf, Listed, Tidy, InWait, LeavesEntries,
                WaitSync
  <1>2. ASSUME NEW q \in Procs PROVE LeavesEntries(q)' <=> LeavesEntries(q)
    BY DEF LeavesEntries, WaitSync
  <1>3. HandlesMade' /\ KindsMatch'
    BY DEF CondvarInv, Aside, HandlesMade, Made, KindsMatch, HandlesOf
  <1>4. NoneForgotten'
    BY <1>1
    DEF CondvarInv, Aside, NoneForgotten, Unheard, Remembered, InWait,
        WaitPoints
  <1>5. Noted'
    BY <1>1 DEF CondvarInv, Aside, Noted, NotedAt, InWait
  <1>6. Sole'
    <2>1. SoleAt(p)'
      BY <1>2 DEF CondvarInv, Aside, Sole, SoleAt, LeavesEntries
    <2>2. ASSUME NEW q \in Procs, q # p PROVE SoleAt(q)'
      BY <1>1, <1>2, <2>2 DEF CondvarInv, Aside, Sole, SoleAt
    <2> QED
      BY <2>1, <2>2 DEF Sole
  <1> QED
    BY <1>3, <1>4, <1>5, <1>6 DEF CondvarInv

\* A step of another user of the park tokens, who takes none from a waiter.
LEMMA InvShared ==
    ASSUME CondvarInv, Typed',
           UNCHANGED <<waiting, pc, methodVars, expired, timed_out, gen,
                       signal, notifyVars, notified>>,
           \A p \in Procs : InWait(p) /\ token[p] => token'[p]
    PROVE  CondvarInv'
  <1> USE DEF methodVars, notifyVars
  <1>1. ASSUME NEW p \in Procs
        PROVE  /\ Handle(p)' = Handle(p) /\ (Listed(p)' <=> Listed(p))
               /\ (InWait(p)' <=> InWait(p)) /\ (Tidy(p)' <=> Tidy(p))
               /\ (LeavesEntries(p)' <=> LeavesEntries(p))
    BY DEF Handle, HandleOf, Listed, InWait, Tidy, LeavesEntries, WaitSync
  <1>2. StagesMatch' /\ HandlesMade' /\ KindsMatch'
    BY DEF CondvarInv, StagesMatch, HandlesMade, Made, KindsMatch, HandlesOf
  <1>3. NoneForgotten'
    <2> SUFFICES ASSUME NEW p \in Procs, Unheard(p)' PROVE Remembered(p)'
      BY DEF NoneForgotten
    <2>1. Unheard(p)
      BY DEF Unheard, InWait, WaitPoints
    <2>2. Remembered(p)
      BY <2>1 DEF CondvarInv, NoneForgotten
    <2> QED
      BY <1>1, <2>2 DEF Remembered
  <1>4. Noted'
    BY <1>1 DEF CondvarInv, Noted, NotedAt
  <1>5. Sole'
    BY <1>1 DEF CondvarInv, Sole, SoleAt
  <1> QED
    BY <1>2, <1>3, <1>4, <1>5 DEF CondvarInv

\* Who asks for the mutex goes where he waits for it.
LEMMA AskStep ==
    ASSUME Typed, NEW p \in Procs,
           WaitStep(p) \/ ParkSpuriously(p) \/ CallLock(p),
           status[p] = "out", status'[p] = "waiting"
    PROVE  pc'[p] = "lock"
  BY DEF Typed, WaitStep, Enlist, Unlock, Signalled, NotSignalled, Clock,
         Unparked, Recheck, Withdraw, ParkSpuriously, CallLock, Request,
         Resume, Goto, Lock!Leave

-----------------------------------------------------------------------------
\* The theorems.

LEMMA InvCorrect == Spec => []CondvarInv
  <1>1. CondvarInv /\ [Next]_vars => CondvarInv'
    BY InvStep, InvStays DEF Next, Step
  <1> QED
    BY <1>1, InvInit, PTL DEF Spec

\* The variables of the Condvar always have their types, and a notifier's
\* local lists are empty when it does not notify.
THEOREM TypeCorrect == Spec => []TypeOK
  <1>1. Init => AtPoints
    BY DEF Init, AtPoints, ControlPoints
  <1>2. Typed /\ AtPoints /\ [Next]_vars => AtPoints'
    <2>1. AtPoints /\ UNCHANGED vars => AtPoints'
      BY DEF AtPoints, vars
    <2> QED
      BY <2>1, PointsStep DEF Next, Step
  <1>3. CondvarInv => Typed
    BY DEF CondvarInv
  <1> QED
    BY <1>1, <1>2, <1>3, InvCorrect, TypeIs, PTL DEF Spec

\* A waiter that nobody has woken is in its list, or in the hands of a
\* notifier that is about to wake it.
THEOREM NoNotificationIsLost == Spec => []NoLostNotification
  <1>1. CondvarInv => NoLostNotification
    BY DEF CondvarInv, NoneForgotten, NoLostNotification, Unheard, Remembered
  <1> QED
    BY <1>1, InvCorrect, PTL

\* A wait that does not report a timeout was notified, and in this very wait:
\* entries, flags and tokens that earlier waits have left do not end it.
THEOREM OnlyTheNotifiedGoOn == Spec => OnlyNotified
  <1>1. CondvarInv /\ [Next]_vars
            => [\A p \in Procs :
                   Ends(p) /\ (IF timed[p] THEN ~timed_out'[p]
                                           ELSE how[p] # "block")
                       => notified[p]]_vars
    BY EndNoted DEF Next, Step, CondvarInv
  <1> QED
    BY <1>1, InvCorrect, PTL DEF Spec, OnlyNotified

\* A thread's timed wait says that it timed out if and only if its deadline
\* passed before any notifier took it.
THEOREM ResultsAreHonest == Spec => HonestResult
  <1> DEFINE Truly(p) ==
                 /\ Ends(p) /\ timed[p] /\ how[p] # "async"
                 /\ how[p] = "block" => ~LeavesEntries(p)
                 => IF timed_out'[p] THEN expired[p] /\ ~notified[p]
                                     ELSE notified[p]
  <1>1. CondvarInv /\ [Next]_vars
            => [\A p \in Procs : Truly(p)]_vars
    <2> SUFFICES ASSUME CondvarInv, NEW p \in Procs, Step(p),
                        NEW r \in Procs
                 PROVE  Truly(r)
      BY DEF Next, Step
    <2> USE DEF CondvarInv
    <2> SUFFICES ASSUME Ends(r), timed[r], how[r] # "async", Tidy(r),
                        timed_out'[r]
                 PROVE  expired[r] /\ ~notified[r]
      BY EndNoted DEF Tidy
    <2> USE DEF Typed
    <2>1. pc[r] \in WaitPoints /\ pc'[r] = "lock"
      BY DEF Ends, Waiting
    <2>2. Withdraw(r)
      BY <2>1, EndStep
      DEF Signalled, Unparked, ParkSpuriously, Recheck, Resume, Goto
    <2>3. timed_out'[r] = (Listed(r) \/ how[r] = "async") /\ pc[r] = "withdraw"
      BY <2>1, <2>2 DEF Withdraw, Resume, Goto
    <2>4. expired[r] /\ Listed(r)
      BY <2>3 DEF StagesMatch
    <2>5. SoleAt(r) /\ InWait(r)
      BY <2>1 DEF Sole, InWait
    <2> QED
      BY <2>4, <2>5 DEF SoleAt
  <1> QED
    BY <1>1, InvCorrect, PTL DEF Spec, HonestResult
=============================================================================
