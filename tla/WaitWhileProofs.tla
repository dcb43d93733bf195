-------------------------- MODULE WaitWhileProofs --------------------------
(***************************************************************************)
(* What TLAPS proves of module WaitWhile, for any producers, consumers and *)
(* bounds: OneIsWokenUp if OneKind holds.  The invariant of the Condvar is *)
(* that of module CondvarProofs; to it come that whoever is in a list      *)
(* waits there, and that for each thing there is to take somebody is on    *)
(* the way to a consumer, or is one.                                       *)
(***************************************************************************)
EXTENDS WaitWhile, CondvarProofs, FiniteSetTheorems

-----------------------------------------------------------------------------
\* The steps: those of the Condvar, and those that only its client has.

Inner(p) ==
    /\ WaitStep(p) \/ NotifyStep(p) \/ Acquire(p) \/ DeadlinePasses(p)
    /\ UNCHANGED permits

Outer(p) ==
    \/ CallWaitWhile(p) \/ CallProduce(p) \/ WaitMore(p) \/ Consume(p)
    \/ Produce(p)

LEMMA StepCases == WhileNext <=> \E p \in Procs : Outer(p) \/ Inner(p)
  BY DEF WhileNext, Calls, Own, Outer, Inner

LEMMA InnerStep == ASSUME NEW p \in Procs, Inner(p) PROVE Step(p)
  BY DEF Inner, Step, Environment

\* What a step of the client leaves alone.
Frame(p) ==
    /\ pc' = [pc EXCEPT ![p] = pc'[p]]
    /\ pc[p] \in {"idle", "held"}
    /\ pc'[p] \in {"idle", "lock", "enlist", "take"}
    /\ \A q \in Procs \ {p} : /\ how'[q] = how[q] /\ timed'[q] = timed[q]
                              /\ timed_out'[q] = timed_out[q]
    /\ UNCHANGED <<waiting, gen, token, signal, waking, notified>>
    /\ todo' = IF pc'[p] = "take"
               THEN [todo EXCEPT ![p] = <<"spin", "block", "async">>]
               ELSE todo

LEMMA FrameStep ==
    ASSUME Typed, NEW p \in Procs, Outer(p)
    PROVE  Frame(p)
  <1> USE DEF Typed, Goto, wakeVars, notifyVars, methodVars, boundVars, Count
  <1>1. CASE CallWaitWhile(p)
    <2>1. PICK w \in Waits[p] : Choose(p, w)
      BY <1>1 DEF CallWaitWhile
    <2>2. \A q \in Procs \ {p} : /\ how'[q] = how[q] /\ timed'[q] = timed[q]
                                 /\ timed_out'[q] = timed_out[q]
      BY <1>1, <2>1 DEF Choose, CallWaitWhile
    <2>3. /\ pc[p] = "idle" /\ pc' = [pc EXCEPT ![p] = "lock"]
          /\ UNCHANGED <<waiting, gen, token, signal, waking, notified>>
          /\ todo' = todo
      BY <1>1 DEF CallWaitWhile
    <2> QED
      BY <2>2, <2>3 DEF Frame
  <1>2. CASE CallProduce(p) \/ WaitMore(p) \/ Consume(p) \/ Produce(p)
    BY <1>2
    DEF CallProduce, Request, WaitMore, Consume, Release, Produce, Notify,
        Frame
  <1> QED
    BY <1>1, <1>2 DEF Outer

\* What such a step does to the rest of the Condvar's variables.
LEMMA OuterTypes ==
    ASSUME Typed, NEW p \in Procs, Outer(p)
    PROVE  /\ status' \in [Procs -> {"out", "waiting", "in"}]
           /\ \/ how' = how /\ timed' = timed /\ expired' = expired
              \/ \E w \in Waits[p] : Choose(p, w)
           /\ timed_out' \in [Procs -> BOOLEAN]
           /\ one' \in [Procs -> BOOLEAN]
           /\ calls' \in [Procs -> Nat] /\ spurious' = spurious
  <1> USE DEF Typed, wakeVars, notifyVars, methodVars, boundVars, Count
  <1>1. CASE CallWaitWhile(p)
    <2>1. /\ calls' = [calls EXCEPT ![p] = @ + 1] /\ spurious' = spurious
          /\ one' = one
          /\ timed_out' = [timed_out EXCEPT ![p] = FALSE]
      BY <1>1 DEF CallWaitWhile
    <2>2. \E w \in Waits[p] : Choose(p, w)
      BY <1>1 DEF CallWaitWhile
    <2>3. status' \in [Procs -> {"out", "waiting", "in"}]
      BY <1>1, LockType DEF CallWaitWhile
    <2>4. /\ calls' \in [Procs -> Nat] /\ timed_out' \in [Procs -> BOOLEAN]
          /\ one' \in [Procs -> BOOLEAN]
      BY <2>1
    <2> QED
      BY <2>1, <2>2, <2>3, <2>4
  <1>2. CASE CallProduce(p)
    BY <1>2, LockType DEF CallProduce, Request
  <1>3. CASE WaitMore(p) \/ Consume(p)
    BY <1>3, LockType DEF WaitMore, Consume, Release
  <1>4. CASE Produce(p)
    BY <1>4, LockType DEF Produce, Notify
  <1> QED
    BY <1>1, <1>2, <1>3, <1>4 DEF Outer

\* So it keeps the Condvar's invariant.
LEMMA OuterInv ==
    ASSUME CondvarInv, NEW p \in Procs, Outer(p)
    PROVE  CondvarInv'
  <1> USE DEF CondvarInv
  <1>1. Frame(p)
    BY FrameStep
  <1>2. \A q \in Procs : /\ todo'[q] # <<>> => pc'[q] \in NotifyPoints
                         /\ waking'[q] # <<>> => pc'[q] = "wake"
    BY <1>1 DEF Typed, Frame, NotifyPoints
  <1>3. todo' \in [Procs -> Seq(Lists)]
    <2>1. <<"spin", "block", "async">> \in Seq(Lists)
      BY DEF Lists
    <2> QED
      BY <1>1, <2>1 DEF Frame, Typed
  <1>4. /\ how' \in [Procs -> Lists] /\ timed' \in [Procs -> BOOLEAN]
        /\ expired' \in [Procs -> BOOLEAN]
    BY OuterTypes, ChooseType DEF Typed
  <1>5. Typed'
    BY <1>1, <1>2, <1>3, <1>4, OuterTypes DEF Typed, Frame
  <1>6. StagesMatch'
    <2>1. pc'[p] = "take" => todo'[p] # <<>>
      <3>1. pc'[p] = "take" => todo'[p] = <<"spin", "block", "async">>
        BY <1>1 DEF Frame, Typed
      <3> QED
        BY <3>1, NotEmpty
    <2>2. \A q \in Procs \ {p} : expired'[q] = expired[q]
      <3>1. expired' = expired \/ expired' = [expired EXCEPT ![p] = FALSE]
        BY OuterTypes DEF Choose
      <3> QED
        BY <3>1 DEF Typed
    <2>3. gen' = gen /\ pc'[p] \notin WaitPoints \cup {"unlock"}
      BY <1>1 DEF Frame, WaitPoints
    <2> QED
      BY <1>1, <2>1, <2>2, <2>3 DEF StagesMatch, Frame, WaitPoints, Typed
  <1>7. Aside(p)
    <2>1. ~InWait(p) /\ ~InWait(p)'
      BY <1>1 DEF Frame, InWait, WaitPoints
    <2>2. \/ how'[p] = how[p] /\ timed'[p] = timed[p]
          \/ \E w \in Waits[p] : /\ how'[p] = WaitSync(p, w[1])
                                 /\ timed'[p] = w[2]
      <3>1. CASE how' = how /\ timed' = timed
        BY <3>1
      <3>2. ASSUME NEW w \in Waits[p], Choose(p, w)
            PROVE  how'[p] = WaitSync(p, w[1]) /\ timed'[p] = w[2]
        BY <3>2 DEF Choose, Typed
      <3> QED
        BY <3>1, <3>2, OuterTypes
    <2> QED
      BY <1>1, <2>1, <2>2 DEF Aside, Frame, Typed
  <1> QED
    BY <1>5, <1>6, <1>7, InvAside

-----------------------------------------------------------------------------
\* Who is where, and who holds the guard.

\* A consumer waits and a producer notifies one; which waits OneKind allows.
RoleAt(p) ==
    /\ IF p \in Consumers THEN ~(pc[p] \in NotifyPoints)
                          ELSE ~InWait(p) /\ pc[p] # "enlist"
    /\ pc[p] \in NotifyPoints => one[p]
    /\ timed[p] => how[p] # "async" /\ (how[p] = "block" => ~LeavesEntries(p))

Inside == {"held", "enlist", "unlock"}

StatusAt(p) == status[p] = IF pc[p] = "lock" THEN "waiting"
                           ELSE IF pc[p] \in Inside THEN "in" ELSE "out"

\* One process at most holds the guard, and a consumer that joins a list holds
\* it and has found nothing.
Guarded ==
    /\ \A p \in Procs : RoleAt(p) /\ StatusAt(p)
    /\ \A p, q \in Procs : pc[p] \in Inside /\ pc[q] \in Inside => p = q
    /\ \A p \in Procs : pc[p] = "enlist" => permits = 0

\* How a step of the Condvar moves a process.
LEMMA InnerMoves ==
    ASSUME Typed, Guarded, NEW p \in Procs, Inner(p)
    PROVE  /\ \A q \in Procs \ {p} : pc'[q] = pc[q] /\ status'[q] = status[q]
           /\ StatusAt(p)'
           /\ pc'[p] \in Inside =>
                  \/ pc[p] = "enlist" /\ pc'[p] = "unlock"
                  \/ \A q \in Procs : status[q] # "in"
           /\ pc'[p] # "enlist"
           /\ pc'[p] \in NotifyPoints => pc[p] \in NotifyPoints
           /\ InWait(p)' => InWait(p) \/ pc[p] = "enlist"
           /\ how' = how /\ timed' = timed /\ one' = one
  <1> USE DEF Typed, Goto, methodVars, wakeVars, notifyVars, boundVars,
          WaitPoints, NotifyPoints, Inside
  <1>0. StatusAt(p)
    BY DEF Guarded
  <1>1. CASE Enlist(p) \/ Unlock(p) \/ NotSignalled(p) \/ Clock(p)
    BY <1>0, <1>1
    DEF Enlist, Unlock, NotSignalled, Clock, Lock!Leave, StatusAt, InWait
  <1>2. CASE Signalled(p) \/ Recheck(p) \/ Withdraw(p)
    <2>1. CASE Signalled(p)
      BY <1>0, <2>1 DEF Signalled, Resume, Lock!Request, StatusAt, InWait
    <2>2. CASE Recheck(p)
      BY <1>0, <2>2 DEF Recheck, Resume, Lock!Request, StatusAt, InWait
    <2>3. CASE Withdraw(p)
      BY <1>0, <2>3 DEF Withdraw, Resume, Lock!Request, StatusAt, InWait
    <2> QED
      BY <1>2, <2>1, <2>2, <2>3
  <1>3. CASE Unparked(p)
    BY <1>0, <1>3 DEF Unparked, Resume, Lock!Request, StatusAt, InWait
  <1>4. CASE DeadlinePasses(p)
    BY <1>0, <1>4 DEF DeadlinePasses, StatusAt, Waiting, InWait
  <1>5. CASE NotifyStep(p)
    <2>1. status[p] # "in"
      BY <1>0, <1>5 DEF NotifyStep, Take, Wake, Woken, StatusAt
    <2> QED
      BY <1>0, <1>5, <2>1
      DEF NotifyStep, Take, Wake, Woken, StatusAt, InWait
  <1>6. CASE Acquire(p)
    BY <1>0, <1>6 DEF Acquire, Lock!Enter, StatusAt, InWait
  <1> QED
    BY <1>1, <1>2, <1>3, <1>4, <1>5, <1>6 DEF Inner, WaitStep

\* How one of its client does.
LEMMA OuterMoves ==
    ASSUME Typed, Guarded, NEW p \in Procs, Outer(p)
    PROVE  /\ \A q \in Procs \ {p} : status'[q] = status[q]
           /\ StatusAt(p)'
           /\ pc'[p] \in Inside => pc[p] \in Inside
           /\ pc'[p] = "enlist" => p \in Consumers /\ permits' = 0
           /\ pc'[p] = "take" => p \notin Consumers /\ one'[p]
           /\ permits' # permits => pc[p] \in Inside
           /\ \A q \in Procs \ {p} : one'[q] = one[q]
  <1> USE DEF Typed, Goto, Inside, notifyVars, Count
  <1>0. StatusAt(p)
    BY DEF Guarded
  <1>1. CASE CallWaitWhile(p)
    BY <1>0, <1>1 DEF CallWaitWhile, Lock!Request, StatusAt
  <1>2. CASE CallProduce(p)
    BY <1>0, <1>2 DEF CallProduce, Request, Lock!Request, StatusAt
  <1>3. CASE WaitMore(p)
    BY <1>0, <1>3 DEF WaitMore, StatusAt
  <1>4. CASE Consume(p)
    BY <1>0, <1>4 DEF Consume, Release, Lock!Leave, StatusAt
  <1>5. CASE Produce(p)
    BY <1>0, <1>5 DEF Produce, Notify, Lock!Leave, StatusAt
  <1> QED
    BY <1>1, <1>2, <1>3, <1>4, <1>5 DEF Outer

\* The wait a consumer chooses is one that OneKind allows.
LEMMA ChooseKind ==
    ASSUME Typed, OneKind, NEW p \in Procs, Outer(p), timed'[p]
    PROVE  \/ how'[p] = how[p] /\ timed[p]
           \/ /\ how'[p] # "async"
              /\ how'[p] = "block" => ~LeavesEntries(p)
  <1>1. CASE how' = how /\ timed' = timed
    BY <1>1
  <1>2. CASE CallWaitWhile(p)
    <2>1. PICK w \in Waits[p] : Choose(p, w)
      BY <1>2 DEF CallWaitWhile
    <2>2. /\ how'[p] = WaitSync(p, w[1]) /\ timed'[p] = w[2]
          /\ p \in Consumers
      BY <1>2, <2>1 DEF Choose, Typed, CallWaitWhile
    <2>3. w \in Hows \X BOOLEAN
      BY <2>1, ProcsAssumption
    <2>4. w = <<w[1], TRUE>>
      <3>1. w = <<w[1], w[2]>> /\ w[2] \in BOOLEAN
        BY <2>3
      <3>2. w[2]
        BY <2>2
      <3>3. w[2] = TRUE
        BY <3>1, <3>2
      <3> QED
        BY <3>1, <3>3
    <2>5. how'[p] # "async"
      BY <2>2, <2>3, <2>4 DEF OneKind, WaitSync
    <2> QED
      BY <2>2, <2>5 DEF OneKind
  <1>3. CASE CallProduce(p) \/ WaitMore(p) \/ Consume(p) \/ Produce(p)
    BY <1>1, <1>3
    DEF CallProduce, Request, WaitMore, Consume, Release, Produce, Notify,
        methodVars
  <1> QED
    BY <1>2, <1>3 DEF Outer

\* Between them they keep the roles, and the mutex theirs.
LEMMA GuardedStep ==
    ASSUME OneKind, Typed, Guarded, NEW p \in Procs, Outer(p) \/ Inner(p)
    PROVE  Guarded'
  <1>1. CASE Inner(p)
    <2>1. \A q \in Procs : RoleAt(q)'
      BY <1>1, InnerMoves
      DEF Guarded, RoleAt, InWait, LeavesEntries, WaitSync
    <2>2. permits' = permits
      BY <1>1 DEF Inner
    <2> QED
      BY <1>1, <2>1, <2>2, InnerMoves DEF Guarded, StatusAt, Inside
  <1>2. CASE Outer(p)
    <2>1. Frame(p) /\ ~InWait(p)'
      BY <1>2, FrameStep DEF Frame, InWait, WaitPoints, Typed
    <2>2. \A q \in Procs \ {p} : /\ pc'[q] = pc[q] /\ how'[q] = how[q]
                                 /\ timed'[q] = timed[q]
                                 /\ (InWait(q)' <=> InWait(q))
      BY <2>1 DEF Frame, InWait, Typed
    <2>3. \A q \in Procs \ {p} : RoleAt(q)' /\ StatusAt(q)'
      BY <1>2, <2>2, OuterMoves
      DEF Guarded, RoleAt, StatusAt, LeavesEntries, WaitSync
    <2>4. RoleAt(p)'
      BY <1>2, <2>1, ChooseKind, OuterMoves
      DEF Guarded, RoleAt, NotifyPoints, LeavesEntries, WaitSync, Frame
    <2>5. \A q \in Procs : pc'[q] = "enlist" => permits' = 0
      BY <1>2, <2>2, OuterMoves DEF Guarded, Inside
    <2> QED
      BY <1>2, <2>2, <2>3, <2>4, <2>5, OuterMoves DEF Guarded
  <1> QED
    BY <1>1, <1>2

-----------------------------------------------------------------------------
\* Whoever is in a list waits there, and a token is that of the wait.

LEMMA InOne == ASSUME NEW x, NEW y PROVE Contains(<<x>>, y) <=> y = x
  BY DEF Contains

LEMMA HandleIs == ASSUME NEW p \in Procs PROVE Handle(p)[1] = p
  BY DEF Handle, HandleOf

\* An entry is that of a wait that has not been notified.
ListedWait ==
    \A l \in Lists : \A x :
        Contains(waiting[l], x) =>
            /\ x[1] \in Procs /\ InWait(x[1]) /\ how[x[1]] = l
            /\ x = Handle(x[1]) /\ ~notified[x[1]]
            /\ Once(waiting[l], x)

\* A notifier takes one waiter, and where a thread parks without a deadline
\* what wakes it comes once in a wait, and does not outlive it.
Coming(p, q) == Contains(waking[q], <<p, 0>>)

TokenAt(p) ==
    LeavesEntries(p) =>
        /\ token[p] \/ (\E q \in Procs : Coming(p, q))
               => InWait(p) /\ how[p] = "block" /\ notified[p]
        /\ \A q \in Procs : Coming(p, q) =>
               ~token[p] /\ \A s \in Procs : Coming(p, s) => s = q

OneByOne == \A p \in Procs :
                waking[p] = <<>> \/ \E h \in Handles : waking[p] = <<h>>

Tokens == OneByOne /\ \A p \in Procs : TokenAt(p)

\* notify_one pops a waiter, which has not been notified before, or finds
\* nothing.
LEMMA TakeOne ==
    ASSUME Typed, StagesMatch, Guarded, ListedWait,
           NEW p \in Procs, Take(p), NEW l, l = Head(todo[p])
    PROVE  /\ l \in Lists /\ todo[p] # <<>> /\ waking[p] = <<>>
           /\ \/ /\ waiting[l] = <<>>
                 /\ todo' = [todo EXCEPT ![p] = Tail(@)]
                 /\ UNCHANGED <<waiting, waking, notified>>
              \/ \E q \in Procs :
                    /\ Contains(waiting[l], Handle(q))
                    /\ todo' = [todo EXCEPT ![p] = <<>>]
                    /\ waking' = [waking EXCEPT ![p] = <<Handle(q)>>]
                    /\ notified' = [notified EXCEPT ![q] = TRUE]
                    /\ ~Contains(waiting'[l], Handle(q))
                    /\ \A k \in Lists : k # l => waiting'[k] = waiting[k]
  <1>1. l \in Lists /\ todo[p] # <<>> /\ waking[p] = <<>> /\ one[p]
    <2>1. todo[p] # <<>> /\ todo[p] \in Seq(Lists) /\ pc[p] = "take"
      BY DEF Take, StagesMatch, Typed
    <2> QED
      BY <2>1, InTail DEF Guarded, RoleAt, NotifyPoints, Typed
  <1>2. CASE waiting[l] = <<>>
    <2>1. /\ waking' = [waking EXCEPT ![p] = <<>>]
          /\ waiting' = [waiting EXCEPT ![l] = <<>>]
          /\ todo' = [todo EXCEPT ![p] = Tail(@)]
          /\ notified' = [q \in Procs |->
                              notified[q] \/ Contains(waking'[p], Handle(q))]
      BY <1>2 DEF Take
    <2>2. waking' = waking /\ waiting' = waiting
      BY <1>1, <1>2, <2>1 DEF Typed
    <2>3. \A q \in Procs : ~Contains(waking'[p], Handle(q))
      BY <1>1, <2>2, InEmpty
    <2>4. notified' = notified
      BY <2>1, <2>3, Zenon DEF Typed
    <2> QED
      BY <1>1, <1>2, <2>1, <2>2, <2>4
  <1>3. CASE waiting[l] # <<>>
    <2> DEFINE y == Last(waiting[l])
    <2>1. /\ waking' = [waking EXCEPT ![p] = <<y>>]
          /\ waiting' = [waiting EXCEPT ![l] = Front(@)]
          /\ todo' = [todo EXCEPT ![p] = <<>>]
          /\ notified' = [q \in Procs |->
                              notified[q] \/ Contains(waking'[p], Handle(q))]
      BY <1>1, <1>3 DEF Take
    <2>2. waiting[l] \in Seq(Handles)
      BY <1>1 DEF Typed
    <2>3. Contains(waiting[l], y)
      BY <1>3, <2>2 DEF Last, Contains
    <2>4. PICK q \in Procs : y = Handle(q) /\ Once(waiting[l], y)
      BY <1>1, <2>3 DEF ListedWait
    <2>5. ~Contains(waiting'[l], y)
      BY <1>1, <1>3, <2>1, <2>2, <2>4, OnceFront DEF Typed
    <2>6. waking'[p] = <<y>>
      BY <2>1 DEF Typed
    <2>7. \A r \in Procs : Contains(waking'[p], Handle(r)) <=> r = q
      BY <2>4, <2>6, InOne, HandleIs
    <2>8. notified' = [notified EXCEPT ![q] = TRUE]
      <3> HIDE DEF y
      <3>1. \A r \in Procs :
                notified'[r] = IF r = q THEN TRUE ELSE notified[r]
        BY <2>1, <2>7, Zenon DEF Typed
      <3>2. notified' = [r \in Procs |-> notified'[r]]
        BY <2>1
      <3> QED
        BY <3>1, <3>2 DEF Typed
    <2>9. \A k \in Lists : k # l => waiting'[k] = waiting[k]
      BY <2>1 DEF Typed
    <2> QED
      BY <1>1, <2>1, <2>3, <2>4, <2>5, <2>8, <2>9
  <1> QED
    BY <1>2, <1>3


\* How a wait ends.
LEMMA LeaveStep ==
    ASSUME Typed, Guarded, NEW p \in Procs, Inner(p), InWait(p), ~InWait(p)'
    PROVE  /\ pc'[p] = "lock"
           /\ \/ Signalled(p) \/ Withdraw(p)
              \/ Unparked(p) /\ ~timed[p]
              \/ Recheck(p) /\ ~Listed(p)
  <1> USE DEF Typed, Goto, InWait, WaitPoints
  <1>1. CASE Enlist(p) \/ Unlock(p) \/ NotSignalled(p) \/ Clock(p)
             \/ DeadlinePasses(p) \/ Acquire(p)
    BY <1>1
    DEF Enlist, Unlock, NotSignalled, Clock, DeadlinePasses, Acquire
  <1>2. CASE Signalled(p) \/ Recheck(p)
    BY <1>2 DEF Signalled, Recheck, Resume
  <1>3. CASE Withdraw(p)
    BY <1>3 DEF Withdraw, Resume
  <1>4. CASE Unparked(p)
    BY <1>4 DEF Unparked, Resume
  <1>5. CASE NotifyStep(p)
    BY <1>5 DEF NotifyStep, Take, Wake, Woken
  <1> QED
    BY <1>1, <1>2, <1>3, <1>4, <1>5 DEF Inner, WaitStep

\* A waiter in its list does not end its wait, but by leaving the list.
LEMMA LeaveListed ==
    ASSUME CondvarInv, Guarded, ListedWait, Tokens, NEW p \in Procs, Inner(p),
           InWait(p), ~InWait(p)'
    PROVE  ~Listed(p)'
  <1> USE DEF CondvarInv
  <1>0. how[p] \in Lists /\ Handle(p)' = Handle(p) /\ how' = how
    <2>1. ~Enlist(p)
      BY DEF Enlist, InWait, WaitPoints
    <2>2. gen' = gen
      BY <2>1
      DEF Inner, WaitStep, NotifyStep, Unlock, Signalled, NotSignalled, Clock,
          Unparked, Recheck, Withdraw, Take, Wake, Woken, Acquire,
          DeadlinePasses
    <2> QED
      BY <2>2, InnerMoves DEF Handle, HandleOf, Typed
  <1>1. CASE Withdraw(p)
    <2>1. /\ waiting[how[p]] \in Seq(Handles)
          /\ waiting'[how[p]] = RemoveFirst(waiting[how[p]], Handle(p))
      BY <1>0, <1>1 DEF Withdraw, Typed
    <2>2. Once(waiting[how[p]], Handle(p))
      <3>1. CASE Listed(p)
        BY <1>0, <3>1, HandleIs DEF Listed, ListedWait
      <3>2. CASE ~Listed(p)
        BY <3>2 DEF Listed, Once, Contains
      <3> QED
        BY <3>1, <3>2
    <2> QED
      BY <1>0, <2>1, <2>2, OnceRemoveFirst DEF Listed
  <1>2. CASE Signalled(p) \/ (Unparked(p) /\ ~timed[p])
             \/ (Recheck(p) /\ ~Listed(p))
    <2>1. waiting' = waiting
      BY <1>2 DEF Signalled, Unparked, Recheck
    <2>2. ~Listed(p)
      <3>1. CASE Signalled(p)
        <4>1. notified[p]
          BY <3>1 DEF Signalled, Noted, NotedAt, InWait
        <4> QED
          BY <1>0, <4>1, HandleIs DEF ListedWait, Listed
      <3>2. CASE Unparked(p) /\ ~timed[p]
        <4>1. how[p] = "block" /\ LeavesEntries(p)
          BY <3>2 DEF Unparked, Sole, SoleAt
        <4>2. token[p]
          BY <3>2 DEF Unparked
        <4>3. notified[p]
          BY <4>1, <4>2 DEF Tokens, TokenAt
        <4> QED
          BY <1>0, <4>3, HandleIs DEF ListedWait, Listed
      <3> QED
        BY <1>2, <3>1, <3>2
    <2> QED
      BY <1>0, <2>1, <2>2 DEF Listed
  <1> QED
    BY <1>1, <1>2, LeaveStep

\* A waiter joins its list once, and not yet notified.
LEMMA ListedEnlist ==
    ASSUME CondvarInv, Guarded, ListedWait, NEW p \in Procs, Enlist(p)
    PROVE  ListedWait'
  <1> USE DEF CondvarInv
  <1> DEFINE h == Handle(p)'
  <1>1. /\ waiting' = [waiting EXCEPT ![how[p]] = Append(@, h)]
        /\ how' = how /\ gen' = [gen EXCEPT ![p] = @ + 1]
        /\ how[p] \in Lists /\ h \in Handles
    BY EnlistStep
  <1>2. /\ h[1] = p /\ h = Handle(p)' /\ InWait(p)' /\ ~notified'[p]
        /\ ~InWait(p) /\ \A q \in Procs \ {p} : pc'[q] = pc[q]
        /\ \A q \in Procs \ {p} : notified'[q] = notified[q]
    BY DEF Enlist, Goto, Typed, Handle, HandleOf, InWait, WaitPoints
  <1>3. \A q \in Procs \ {p} : /\ Handle(q)' = Handle(q) /\ how'[q] = how[q]
                               /\ (InWait(q)' <=> InWait(q))
    BY <1>1, <1>2 DEF Handle, HandleOf, InWait, Typed
  <1> HIDE DEF h
  <1>4. SUFFICES ASSUME NEW l \in Lists, NEW x, Contains(waiting'[l], x)
        PROVE  /\ x[1] \in Procs /\ InWait(x[1])' /\ how'[x[1]] = l
               /\ x = Handle(x[1])' /\ ~notified'[x[1]]
               /\ Once(waiting'[l], x)
    BY Zenon DEF ListedWait
  <1>5. waiting[l] \in Seq(Handles)
    BY DEF Typed
  <1>6. ~Contains(waiting[l], h)
    BY <1>2 DEF ListedWait
  <1>7. \/ Contains(waiting[l], x) /\ x # h
        \/ x = h /\ l = how[p]
    BY <1>1, <1>4, <1>5, <1>6, OnceAppend DEF Typed
  <1>8. Once(waiting[l], x)
    <2>1. CASE Contains(waiting[l], x)
      BY <2>1 DEF ListedWait
    <2>2. CASE ~Contains(waiting[l], x)
      BY <2>2 DEF Contains, Once
    <2> QED
      BY <2>1, <2>2
  <1>9. Once(waiting'[l], x)
    BY <1>1, <1>5, <1>6, <1>8, OnceAppend DEF Typed
  <1>10. CASE Contains(waiting[l], x) /\ x # h
    <2>1. x[1] \in Procs \ {p}
      BY <1>2, <1>10 DEF ListedWait
    <2> QED
      BY <1>3, <1>2, <1>9, <1>10, <2>1 DEF ListedWait
  <1>11. CASE x = h /\ l = how[p]
    BY <1>1, <1>2, <1>9, <1>11
  <1> QED
    BY <1>7, <1>10, <1>11


LEMMA ListedWaitStep ==
    ASSUME CondvarInv, Guarded, ListedWait, Tokens, NEW p \in Procs,
           Outer(p) \/ Inner(p)
    PROVE  ListedWait'
  <1> USE DEF CondvarInv
  <1>1. CASE Outer(p)
    <2>1. Frame(p) /\ ~InWait(p)
      BY <1>1, FrameStep DEF Frame, InWait, WaitPoints
    <2>2. \A q \in Procs \ {p} : /\ Handle(q)' = Handle(q) /\ how'[q] = how[q]
                                 /\ (InWait(q)' <=> InWait(q))
      BY <2>1 DEF Frame, Handle, HandleOf, InWait, Typed
    <2>3. waiting' = waiting /\ notified' = notified
      BY <2>1 DEF Frame
    <2>4. ASSUME NEW l \in Lists, NEW x, Contains(waiting'[l], x)
          PROVE  /\ x[1] \in Procs /\ InWait(x[1])' /\ how'[x[1]] = l
                 /\ x = Handle(x[1])' /\ ~notified'[x[1]]
                 /\ Once(waiting'[l], x)
      <3>1. x[1] \in Procs \ {p}
        BY <2>1, <2>3, <2>4 DEF ListedWait
      <3> QED
        BY <2>2, <2>3, <2>4, <3>1 DEF ListedWait
    <2> QED
      BY <2>4, Zenon DEF ListedWait
  <1>2. CASE Inner(p) /\ Enlist(p)
    BY <1>2, ListedEnlist
  <1>3. CASE Inner(p) /\ ~Enlist(p)
    <2>0. Step(p)
      BY <1>3, InnerStep
    <2>1. SUFFICES ASSUME NEW l \in Lists, NEW x, Contains(waiting'[l], x)
          PROVE  /\ x[1] \in Procs /\ InWait(x[1])' /\ how'[x[1]] = l
                 /\ x = Handle(x[1])' /\ ~notified'[x[1]]
                 /\ Once(waiting'[l], x)
      BY Zenon DEF ListedWait
    <2> DEFINE q == x[1]
    <2>2. waiting[l] \in Seq(Handles)
      BY DEF Typed
    <2>3. Contains(waiting[l], x)
      BY <1>3, <2>0, <2>1, <2>2, ListShrinks
    <2>4. /\ q \in Procs /\ InWait(q) /\ how[q] = l /\ x = Handle(q)
          /\ ~notified[q] /\ Once(waiting[l], x)
      BY <2>3 DEF ListedWait
    <2> HIDE DEF q
    <2>5. Once(waiting'[l], x)
      BY <1>3, <2>0, <2>2, <2>4, ListShrinks
    <2>6. how'[q] = l /\ Handle(q)' = Handle(q)
      <3>1. gen' = gen
        BY <1>3
        DEF Inner, WaitStep, NotifyStep, Unlock, Signalled, NotSignalled,
            Clock, Unparked, Recheck, Withdraw, Take, Wake, Woken, Acquire,
            DeadlinePasses
      <3> QED
        BY <1>3, <2>4, <3>1, InnerMoves DEF Handle, HandleOf
    <2>7. ASSUME notified'[q] PROVE FALSE
      <3>1. Take(p) /\ Contains(waking'[p], x)
        BY <2>0, <2>4, <2>7, NotifiedStep
      <3> DEFINE k == Head(todo[p])
      <3>2. waking[p] = <<>>
        BY <3>1, TakeOne
      <3>3. PICK r \in Procs :
                /\ Contains(waiting[k], Handle(r))
                /\ waking' = [waking EXCEPT ![p] = <<Handle(r)>>]
                /\ ~Contains(waiting'[k], Handle(r))
        BY <3>1, <3>2, TakeOne, InEmpty
      <3>4. x = Handle(r)
        <4>1. waking'[p] = <<Handle(r)>>
          BY <3>3 DEF Typed
        <4> QED
          BY <3>1, <4>1, InOne
      <3>5. k \in Lists
        BY <3>1, TakeOne
      <3>6. k = l
        BY <2>4, <3>3, <3>4, <3>5 DEF ListedWait, q
      <3> QED
        BY <2>1, <3>3, <3>4, <3>6
    <2>8. InWait(q)'
      <3>1. CASE q = p
        BY <1>3, <2>1, <2>4, <2>6, <3>1, LeaveListed DEF Listed
      <3>2. CASE q # p
        BY <2>0, <2>4, <3>2, OthersStay DEF InWait
      <3> QED
        BY <3>1, <3>2
    <2> QED
      BY <2>4, <2>5, <2>6, <2>7, <2>8 DEF q
  <1> QED
    BY <1>1, <1>2, <1>3


LEMMA OneByOneStep ==
    ASSUME CondvarInv, Guarded, ListedWait, OneByOne, NEW p \in Procs, Inner(p)
    PROVE  OneByOne'
  <1> USE DEF CondvarInv
  <1>0. Step(p)
    BY InnerStep
  <1>1. CASE Take(p)
    <2>1. CASE waking' = waking
      BY <2>1 DEF OneByOne
    <2>2. CASE waking' # waking
      <3>1. PICK q \in Procs : waking' = [waking EXCEPT ![p] = <<Handle(q)>>]
        BY <1>1, <2>2, TakeOne
      <3>2. Handle(q) \in Handles
        BY DEF Typed, Handle, HandleOf, Handles
      <3> QED
        BY <3>1, <3>2 DEF OneByOne, Typed
    <2> QED
      BY <2>1, <2>2
  <1>2. CASE Wake(p)
    <2>1. PICK h \in Handles : waking[p] = <<h>>
      BY <1>2 DEF Wake, OneByOne
    <2>2. waking' = [waking EXCEPT ![p] = <<>>]
      BY <1>0, <1>2, <2>1, WakingStep
    <2> QED
      BY <2>2 DEF OneByOne, Typed
  <1>3. CASE ~Take(p) /\ ~Wake(p)
    BY <1>0, <1>3, WakingStep DEF OneByOne
  <1> QED
    BY <1>1, <1>2, <1>3

\* Waking a thread, or taking it from the list, sends it one token.
LEMMA TokenSent ==
    ASSUME CondvarInv, Guarded, ListedWait, Tokens, NEW p \in Procs, Inner(p),
           Take(p) \/ Wake(p), NEW r \in Procs
    PROVE  TokenAt(r)'
  <1> USE DEF CondvarInv
  <1>0. /\ how' = how /\ (LeavesEntries(r)' <=> LeavesEntries(r))
        /\ (InWait(r)' <=> InWait(r)) /\ TokenAt(r)
    BY DEF Take, Wake, Goto, Typed, InWait, WaitPoints, LeavesEntries,
           WaitSync, methodVars, Tokens
  <1>1. CASE Wake(p)
    <2>1. PICK h \in Handles : waking[p] = <<h>>
      BY <1>1 DEF Wake, Tokens, OneByOne
    <2>2. /\ waking' = [waking EXCEPT ![p] = <<>>] /\ notified' = notified
          /\ token' = IF h[2] = 0 THEN [token EXCEPT ![h[1]] = TRUE] ELSE token
      BY <1>1, <2>1 DEF Wake
    <2>3. \A q \in Procs : Coming(r, q)' => q # p /\ Coming(r, q)
      BY <2>2, InEmpty DEF Coming, Typed
    <2>4. CASE token'[r] => token[r]
      BY <1>0, <2>2, <2>3, <2>4 DEF TokenAt
    <2>5. CASE token'[r] /\ ~token[r]
      <3>1. h = <<r, 0>>
        BY <2>2, <2>5 DEF Typed, Handles
      <3>2. Coming(r, p)
        BY <2>1, <3>1, InOne DEF Coming
      <3> QED
        BY <1>0, <2>2, <2>3, <3>2 DEF TokenAt
    <2> QED
      BY <2>4, <2>5
  <1>2. CASE Take(p)
    <2>0. token' = token
      BY <1>2 DEF Take, wakeVars
    <2>1. CASE UNCHANGED <<waking, notified>>
      BY <1>0, <2>0, <2>1 DEF TokenAt, Coming
    <2>2. CASE ~UNCHANGED <<waking, notified>>
      <3> DEFINE k == Head(todo[p])
      <3>1. k \in Lists /\ waking[p] = <<>>
        BY <1>2, TakeOne
      <3>2. PICK q \in Procs :
                /\ Contains(waiting[k], Handle(q))
                /\ waking' = [waking EXCEPT ![p] = <<Handle(q)>>]
                /\ notified' = [notified EXCEPT ![q] = TRUE]
        BY <1>2, <2>2, TakeOne
      <3> HIDE DEF k
      <3>3. InWait(q) /\ ~notified[q] /\ notified'[q]
        <4>1. Handle(q)[1] = q
          BY HandleIs
        <4>2. InWait(Handle(q)[1]) /\ ~notified[Handle(q)[1]]
          BY <3>1, <3>2 DEF ListedWait
        <4> QED
          BY <3>2, <4>1, <4>2 DEF Typed
      <3>4. CASE Handle(q) = <<r, 0>>
        <4>1. q = r
          BY <3>4, HandleIs
        <4>2. how[r] = "block"
          BY <3>3, <3>4, <4>1
          DEF Handle, HandleOf, StagesMatch, InWait, Typed
        <4>3. LeavesEntries(r) =>
                  ~token[r] /\ \A s \in Procs : ~Coming(r, s)
          BY <1>0, <3>3, <4>1 DEF TokenAt
        <4>4. \A s \in Procs \ {p} : Coming(r, s)' => Coming(r, s)
          BY <3>2 DEF Coming, Typed
        <4> QED
          BY <1>0, <2>0, <3>3, <4>1, <4>2, <4>3, <4>4 DEF TokenAt
      <3>5. CASE Handle(q) # <<r, 0>>
        <4>1. ~Coming(r, p)'
          BY <3>2, <3>5, InOne DEF Coming, Typed
        <4>2. \A s \in Procs : Coming(r, s)' => Coming(r, s)
          BY <3>2, <4>1 DEF Coming, Typed
        <4>3. notified[r] => notified'[r]
          BY <3>2 DEF Typed
        <4> QED
          BY <1>0, <2>0, <4>2, <4>3 DEF TokenAt
      <3> QED
        BY <3>4, <3>5
    <2> QED
      BY <2>1, <2>2
  <1> QED
    BY <1>1, <1>2

LEMMA TokensStep ==
    ASSUME CondvarInv, Guarded, ListedWait, Tokens, NEW p \in Procs,
           Outer(p) \/ Inner(p)
    PROVE  Tokens'
  <1> USE DEF CondvarInv
  <1>1. CASE Outer(p)
    <2>1. Frame(p) /\ ~InWait(p)
      BY <1>1, FrameStep DEF Frame, InWait, WaitPoints
    <2>2. \A q \in Procs \ {p} :
              how'[q] = how[q] /\ (InWait(q)' <=> InWait(q))
      BY <2>1 DEF Frame, InWait, Typed
    <2>3. UNCHANGED <<waking, token, notified>>
      BY <2>1 DEF Frame
    <2>4. ASSUME NEW r \in Procs PROVE TokenAt(r)'
      BY <2>1, <2>2, <2>3
      DEF Tokens, TokenAt, Coming, LeavesEntries, WaitSync
    <2> QED
      BY <2>3, <2>4 DEF Tokens, OneByOne
  <1>2. CASE Inner(p)
    <2>0. Step(p) /\ OneByOne'
      BY <1>2, InnerStep, OneByOneStep DEF Tokens
    <2>1. CASE Take(p) \/ Wake(p)
      BY <1>2, <2>0, <2>1, TokenSent DEF Tokens
    <2>2. ASSUME ~Take(p), ~Wake(p), NEW r \in Procs
          PROVE  TokenAt(r)'
      <3>1. waking' = waking /\ how' = how
        BY <1>2, <2>0, <2>2, WakingStep, InnerMoves
      <3>2. token'[r] => token[r]
        BY <1>2, <2>2
        DEF Inner, WaitStep, NotifyStep, Woken, Enlist, Unlock, Signalled,
            NotSignalled, Clock, Unparked, Recheck, Withdraw, Acquire,
            DeadlinePasses, Typed, wakeVars
      <3>3. LeavesEntries(r)' <=> LeavesEntries(r)
        BY DEF LeavesEntries, WaitSync
      <3>4. SUFFICES ASSUME LeavesEntries(r),
                            token'[r] \/ \E q \in Procs : Coming(r, q)
            PROVE  InWait(r)' /\ notified'[r]
        BY <3>1, <3>2, <3>3 DEF Tokens, TokenAt, Coming
      <3>5. InWait(r) /\ how[r] = "block" /\ notified[r]
        BY <3>2, <3>4 DEF Tokens, TokenAt
      <3>6. CASE r # p
        BY <2>0, <3>5, <3>6, OthersStay, SignalStep DEF InWait
      <3>7. CASE r = p
        <4>1. notified' = notified
          <5>1. ~Enlist(p)
            BY <3>5, <3>7 DEF Enlist, InWait, WaitPoints
          <5> QED
            BY <1>2, <2>2, <5>1
            DEF Inner, WaitStep, NotifyStep, Woken, Unlock, Signalled,
                NotSignalled, Clock, Unparked, Recheck, Withdraw, Acquire,
                DeadlinePasses
        <4>2. ASSUME ~InWait(p)' PROVE FALSE
          <5>1. Unparked(p) /\ ~timed[p]
            <6>1. pc[p] \in {"recheck", "withdraw"} => timed[p]
              BY DEF StagesMatch
            <6>2. ~timed[p]
              BY <3>4, <3>5, <3>7 DEF Guarded, RoleAt
            <6> QED
              BY <1>2, <3>5, <3>7, <4>2, <6>1, <6>2, LeaveStep
              DEF Signalled, Withdraw, Recheck
          <5>2. token[p] /\ ~token'[p]
            BY <5>1 DEF Unparked, Typed
          <5> QED
            BY <3>4, <3>7, <5>2 DEF Tokens, TokenAt
        <4> QED
          BY <3>5, <3>7, <4>1, <4>2
      <3> QED
        BY <3>6, <3>7
    <2> QED
      BY <2>0, <2>1, <2>2 DEF Tokens
  <1> QED
    BY <1>1, <1>2


-----------------------------------------------------------------------------
\* For each thing there is to take, someone is on the way.

\* C has n members or more.
Has(C, n) == \E S \in SUBSET C : IsFiniteSet(S) /\ Cardinality(S) = n

LEMMA HasNone == ASSUME NEW C PROVE Has(C, 0)
  BY FS_EmptySet DEF Has

LEMMA HasMore ==
    ASSUME NEW C, NEW D, C \subseteq D, NEW n, Has(C, n)
    PROVE  Has(D, n)
  BY DEF Has

LEMMA HasAdded ==
    ASSUME NEW C, NEW n \in Nat, Has(C, n), NEW e, e \notin C
    PROVE  Has(C \cup {e}, n + 1)
  <1>1. PICK S \in SUBSET C : IsFiniteSet(S) /\ Cardinality(S) = n
    BY DEF Has
  <1>2. /\ IsFiniteSet(S \cup {e}) /\ Cardinality(S \cup {e}) = n + 1
        /\ S \cup {e} \in SUBSET (C \cup {e})
    BY <1>1, FS_AddElement
  <1> QED
    BY <1>2 DEF Has

LEMMA HasRemoved ==
    ASSUME NEW C, NEW n \in Nat, n > 0, Has(C, n), NEW e
    PROVE  Has(C \ {e}, n - 1)
  <1>1. PICK S \in SUBSET C : IsFiniteSet(S) /\ Cardinality(S) = n
    BY DEF Has
  <1>2. PICK x \in S : e \in S => x = e
    BY <1>1, FS_EmptySet
  <1>3. /\ IsFiniteSet(S \ {x}) /\ Cardinality(S \ {x}) = n - 1
        /\ S \ {x} \in SUBSET (C \ {e})
    BY <1>1, <1>2, FS_RemoveElement
  <1> QED
    BY <1>3 DEF Has

LEMMA HasSwapped ==
    ASSUME NEW C, NEW n \in Nat, Has(C, n), NEW e, NEW d, d \notin C
    PROVE  Has((C \ {e}) \cup {d}, n)
  <1>1. CASE n = 0
    BY <1>1, HasNone
  <1>2. CASE n > 0
    <2>1. Has(C \ {e}, n - 1) /\ n - 1 \in Nat /\ d \notin C \ {e}
      BY <1>2, HasRemoved
    <2>2. Has((C \ {e}) \cup {d}, (n - 1) + 1)
      BY <2>1, HasAdded
    <2>3. (n - 1) + 1 = n
      OBVIOUS
    <2> QED
      BY <2>2, <2>3
  <1> QED
    BY <1>1, <1>2

\* A producer that has yet to look at list l; and a consumer that comes for
\* something, or has been notified and so will.
Carries(p, l) ==
    \/ Contains(todo[p], l)
    \/ p \in Consumers /\ pc[p] \in {"lock", "held"} /\ ~timed_out[p]
    \/ p \in Consumers /\ InWait(p) /\ notified[p]

Carriers(l) == {p \in Procs : Carries(p, l)}

\* Nobody waits in a list beside things to take for which nobody comes.
Enough ==
    /\ permits \in Nat
    /\ \A l \in Lists : waiting[l] # <<>> => Has(Carriers(l), permits)

\* A list that is not empty contains something.
LEMMA NotEmptyHas ==
    ASSUME NEW S, NEW s \in Seq(S)
    PROVE  s # <<>> <=> \E x : Contains(s, x)
  <1>1. CASE s # <<>>
    <2>1. 1 \in 1..Len(s)
      BY <1>1
    <2> QED
      BY <1>1, <2>1 DEF Contains
  <1>2. CASE s = <<>>
    BY <1>2, InEmpty
  <1> QED
    BY <1>1, <1>2

LEMMA TodoHas == \A l \in Lists : Contains(<<"spin", "block", "async">>, l)
  BY DEF Contains, Lists


\* The producer adds one and comes; the consumer takes one and goes.
LEMMA EnoughOuter ==
    ASSUME CondvarInv, Guarded, Enough, NEW p \in Procs, Outer(p)
    PROVE  Enough'
  <1> USE DEF CondvarInv
  <1>1. Frame(p) /\ ~InWait(p) /\ todo[p] = <<>>
    BY FrameStep DEF Frame, InWait, WaitPoints, Typed, NotifyPoints
  <1>2. ASSUME NEW l \in Lists, NEW q \in Procs, q # p, Carries(q, l)
        PROVE  Carries(q, l)'
    BY <1>1, <1>2 DEF Carries, Frame, InWait, Typed
  <1>3. waiting' = waiting
    BY <1>1 DEF Frame
  <1>4. CASE CallWaitWhile(p) \/ CallProduce(p)
    <2>1. pc[p] = "idle" /\ permits' = permits
      BY <1>4 DEF CallWaitWhile, CallProduce, Request
    <2>2. ASSUME NEW l \in Lists PROVE Carriers(l) \subseteq Carriers(l)'
      <3>1. ~Carries(p, l)
        BY <1>1, <2>1, InEmpty DEF Carries
      <3> QED
        BY <1>2, <3>1 DEF Carriers
    <2> QED
      BY <1>3, <2>1, <2>2, HasMore DEF Enough
  <1>5. CASE WaitMore(p)
    BY <1>5, HasNone DEF WaitMore, Enough
  <1>6. CASE Consume(p) /\ timed_out[p]
    <2>1. permits' = permits /\ pc[p] = "held"
      BY <1>6 DEF Consume, Release
    <2>2. ASSUME NEW l \in Lists PROVE Carriers(l) \subseteq Carriers(l)'
      <3>1. ~Carries(p, l)
        BY <1>1, <1>6, InEmpty DEF Carries
      <3> QED
        BY <1>2, <3>1 DEF Carriers
    <2> QED
      BY <1>3, <2>1, <2>2, HasMore DEF Enough
  <1>7. CASE Consume(p) /\ ~timed_out[p]
    <2>1. permits > 0 /\ permits' = permits - 1 /\ permits \in Nat
      BY <1>7 DEF Consume, Enough
    <2>2. ASSUME NEW l \in Lists, waiting[l] # <<>>
          PROVE  Has(Carriers(l)', permits')
      <3>1. Carriers(l) \ {p} \subseteq Carriers(l)'
        BY <1>2 DEF Carriers
      <3>2. Has(Carriers(l) \ {p}, permits - 1)
        BY <2>1, <2>2, HasRemoved DEF Enough
      <3> QED
        BY <2>1, <3>1, <3>2, HasMore
    <2> QED
      BY <1>3, <2>1, <2>2 DEF Enough
  <1>8. CASE Produce(p)
    <2>1. /\ permits' = permits + 1 /\ permits \in Nat
          /\ p \notin Consumers /\ todo'[p] = <<"spin", "block", "async">>
      BY <1>8 DEF Produce, Notify, Enough, Typed
    <2>2. ASSUME NEW l \in Lists, waiting[l] # <<>>
          PROVE  Has(Carriers(l)', permits')
      <3>1. p \notin Carriers(l)
        BY <1>1, <2>1, InEmpty DEF Carriers, Carries
      <3>2. Carries(p, l)'
        BY <2>1, TodoHas DEF Carries
      <3>3. Carriers(l) \cup {p} \subseteq Carriers(l)'
        BY <1>2, <3>1, <3>2 DEF Carriers
      <3>4. Has(Carriers(l) \cup {p}, permits + 1)
        BY <2>1, <2>2, <3>1, HasAdded DEF Enough
      <3> QED
        BY <2>1, <3>3, <3>4, HasMore
    <2> QED
      BY <1>3, <2>1, <2>2 DEF Enough
  <1> QED
    BY <1>4, <1>5, <1>6, <1>7, <1>8 DEF Outer, Consume

\* The producer's notify_one hands on to the waiter it takes, who has not been
\* counted yet; or goes on to the next list.
LEMMA EnoughTake ==
    ASSUME CondvarInv, Guarded, ListedWait, Enough, NEW p \in Procs, Inner(p),
           Take(p)
    PROVE  Enough'
  <1> USE DEF CondvarInv
  <1> DEFINE k == Head(todo[p])
  <1>1. /\ k \in Lists /\ todo[p] # <<>> /\ todo[p] \in Seq(Lists)
        /\ permits' = permits /\ permits \in Nat
    BY TakeOne DEF Inner, Enough, Typed
  <1>2. /\ p \notin Consumers
        /\ \A q \in Procs \ {p} : pc'[q] = pc[q] /\ (InWait(q)' <=> InWait(q))
        /\ timed_out' = timed_out
    BY DEF Take, Guarded, RoleAt, NotifyPoints, Goto, Typed, InWait
  <1> HIDE DEF k
  <1>3. CASE /\ waiting[k] = <<>>
             /\ todo' = [todo EXCEPT ![p] = Tail(@)]
             /\ UNCHANGED <<waiting, waking, notified>>
    <2>1. ASSUME NEW l \in Lists, waiting[l] # <<>>
          PROVE  Carriers(l) \subseteq Carriers(l)'
      <3>1. l # k
        BY <1>3, <2>1
      <3>2. Contains(todo[p], l) => Contains(todo'[p], l)
        BY <1>1, <1>3, <3>1, InTail DEF k, Typed
      <3>3. \A q \in Procs : Carries(q, l) => Carries(q, l)'
        BY <1>2, <1>3, <3>2 DEF Carries, Typed
      <3> QED
        BY <3>3 DEF Carriers
    <2> QED
      BY <1>1, <1>3, <2>1, HasMore DEF Enough
  <1>4. ASSUME NEW q \in Procs, Contains(waiting[k], Handle(q)),
               todo' = [todo EXCEPT ![p] = <<>>],
               notified' = [notified EXCEPT ![q] = TRUE],
               \A l \in Lists : l # k => waiting'[l] = waiting[l]
        PROVE  Enough'
    <2>1. InWait(q) /\ ~notified[q]
      <3>1. InWait(Handle(q)[1]) /\ ~notified[Handle(q)[1]]
        BY <1>1, <1>4 DEF ListedWait
      <3> QED
        BY <3>1, HandleIs
    <2>2. q # p /\ q \in Consumers /\ InWait(q)'
      BY <1>2, <2>1 DEF Guarded, RoleAt
    <2>3. ASSUME NEW l \in Lists, waiting'[l] # <<>>
          PROVE  Has(Carriers(l)', permits)
      <3>1. waiting[l] # <<>>
        BY <1>4, <2>3, InEmpty
      <3>2. q \notin Carriers(l)
        <4>1. todo[q] = <<>> /\ pc[q] \notin {"lock", "held"}
          BY <2>1 DEF Typed, InWait, WaitPoints, NotifyPoints
        <4> QED
          BY <2>1, <4>1, InEmpty DEF Carriers, Carries
      <3>3. Carries(q, l)'
        BY <1>4, <2>2 DEF Carries, Typed
      <3>4. \A r \in Procs \ {p} : Carries(r, l) => Carries(r, l)'
        BY <1>2, <1>4 DEF Carries, Typed
      <3>5. (Carriers(l) \ {p}) \cup {q} \subseteq Carriers(l)'
        BY <3>3, <3>4 DEF Carriers
      <3>6. Has((Carriers(l) \ {p}) \cup {q}, permits)
        BY <1>1, <3>1, <3>2, HasSwapped DEF Enough
      <3> QED
        BY <3>5, <3>6, HasMore
    <2> QED
      BY <1>1, <2>3 DEF Enough
  <1> QED
    BY <1>3, <1>4, TakeOne DEF k


\* A notified consumer goes on without a timeout, whichever way its wait ends.
LEMMA GoesOn ==
    ASSUME CondvarInv, Guarded, ListedWait, NEW p \in Procs, Inner(p),
           InWait(p), notified[p], ~InWait(p)'
    PROVE  pc'[p] = "lock" /\ ~timed_out'[p]
  <1> USE DEF CondvarInv
  <1>1. pc'[p] = "lock"
    BY LeaveStep
  <1>2. CASE Signalled(p) \/ (Unparked(p) /\ ~timed[p])
             \/ (Recheck(p) /\ ~Listed(p))
    <2>1. timed_out' = [timed_out EXCEPT ![p] = FALSE]
      BY <1>2 DEF Signalled, Unparked, Recheck, Resume
    <2> QED
      BY <1>1, <2>1 DEF Typed
  <1>3. CASE Withdraw(p)
    <2>1. how[p] # "async"
      BY <1>3 DEF Withdraw, StagesMatch, Guarded, RoleAt
    <2>2. ~Listed(p)
      <3>1. how[p] \in Lists /\ Handle(p)[1] = p
        BY HandleIs DEF Typed
      <3> QED
        BY <3>1 DEF ListedWait, Listed
    <2>3. Resume(p, FALSE) \/ pc' = [pc EXCEPT ![p] = "confirm"]
      BY <1>3, <2>1, <2>2 DEF Withdraw, Goto
    <2>4. ~(pc' = [pc EXCEPT ![p] = "confirm"])
      BY <1>1 DEF Typed
    <2>5. timed_out' = [timed_out EXCEPT ![p] = FALSE]
      BY <2>3, <2>4 DEF Resume
    <2> QED
      BY <1>1, <2>5 DEF Typed
  <1> QED
    BY <1>1, <1>2, <1>3, LeaveStep

LEMMA EnoughInner ==
    ASSUME CondvarInv, Guarded, ListedWait, Enough, NEW p \in Procs, Inner(p)
    PROVE  Enough'
  <1> USE DEF CondvarInv
  <1>0. permits' = permits /\ permits \in Nat /\ Step(p)
    BY InnerStep DEF Inner, Enough
  <1>1. CASE Enlist(p)
    BY <1>0, <1>1, HasNone DEF Enlist, Guarded, Enough
  <1>2. CASE Take(p)
    BY <1>2, EnoughTake
  <1>3. CASE ~Enlist(p) /\ ~Take(p)
    <2>1. ASSUME NEW l \in Lists, waiting'[l] # <<>>
          PROVE  waiting[l] # <<>>
      <3>1. waiting[l] \in Seq(Handles)
        BY DEF Typed
      <3>2. waiting'[l] \in Seq(Handles)
        BY <1>0, <1>3, <3>1, ListShrinks
      <3>3. PICK x : Contains(waiting'[l], x)
        BY <2>1, <3>2, NotEmptyHas
      <3>4. Contains(waiting[l], x)
        BY <1>0, <1>3, <3>1, <3>3, ListShrinks
      <3> QED
        BY <3>4, InEmpty
    <2>2. /\ todo' = todo /\ notified' = notified
          /\ \A q \in Procs \ {p} : timed_out'[q] = timed_out[q]
      BY <1>3
      DEF Inner, WaitStep, NotifyStep, Unlock, Signalled, NotSignalled, Clock,
          Unparked, Recheck, Withdraw, Resume, Wake, Woken, Acquire,
          DeadlinePasses, Typed, notifyVars
    <2>3. ASSUME NEW l \in Lists, NEW q \in Procs, Carries(q, l)
          PROVE  Carries(q, l)'
      <3>1. CASE q # p
        BY <1>0, <2>2, <2>3, <3>1, OthersStay DEF Carries, InWait
      <3>2. CASE Contains(todo[q], l)
        BY <2>2, <3>2 DEF Carries
      <3>3. CASE /\ q = p /\ p \in Consumers
                 /\ pc[p] \in {"lock", "held"} /\ ~timed_out[p]
        <4>1. Acquire(p) \/ DeadlinePasses(p)
          BY <3>3
          DEF Inner, WaitStep, NotifyStep, Enlist, Unlock, Signalled,
              NotSignalled, Clock, Unparked, Recheck, Withdraw, Take, Wake,
              Woken
        <4>2. timed_out' = timed_out /\ pc'[p] \in {"lock", "held"}
          BY <3>3, <4>1 DEF Acquire, DeadlinePasses, Goto, Typed
        <4> QED
          BY <3>3, <4>2 DEF Carries
      <3>4. CASE q = p /\ p \in Consumers /\ InWait(p) /\ notified[p]
        BY <2>2, <3>4, GoesOn DEF Carries
      <3> QED
        BY <2>3, <3>1, <3>2, <3>3, <3>4 DEF Carries
    <2>4. \A l \in Lists : Carriers(l) \subseteq Carriers(l)'
      BY <2>3 DEF Carriers
    <2> QED
      BY <1>0, <2>1, <2>4, HasMore DEF Enough
  <1> QED
    BY <1>1, <1>2, <1>3

-----------------------------------------------------------------------------
\* The theorem.

WhileInv == CondvarInv /\ Guarded /\ ListedWait /\ Tokens /\ Enough

LEMMA WhileInvInit == InitWhile => WhileInv
  <1> SUFFICES ASSUME InitWhile PROVE WhileInv
    OBVIOUS
  <1>1. CondvarInv
    BY InvInit DEF InitWhile
  <1>2. Guarded
    BY DEF InitWhile, Init, Lock!Init, Guarded, RoleAt, StatusAt, Inside,
           InWait, WaitPoints, NotifyPoints
  <1>3. ListedWait
    BY InEmpty DEF InitWhile, Init, ListedWait
  <1>4. Tokens
    BY InEmpty DEF InitWhile, Init, Tokens, OneByOne, TokenAt, Coming
  <1>5. Enough
    BY DEF InitWhile, Init, Enough
  <1> QED
    BY <1>1, <1>2, <1>3, <1>4, <1>5 DEF WhileInv

LEMMA WhileInvStep ==
    ASSUME OneKind, WhileInv, [WhileNext]_allVars
    PROVE  WhileInv'
  <1>1. ASSUME NEW p \in Procs, Outer(p) \/ Inner(p) PROVE WhileInv'
    <2>1. CondvarInv'
      BY <1>1, OuterInv, InnerStep, InvStep DEF WhileInv
    <2>2. Guarded'
      BY <1>1, GuardedStep DEF WhileInv, CondvarInv
    <2>3. ListedWait' /\ Tokens'
      BY <1>1, ListedWaitStep, TokensStep DEF WhileInv
    <2>4. Enough'
      BY <1>1, EnoughOuter, EnoughInner DEF WhileInv
    <2> QED
      BY <2>1, <2>2, <2>3, <2>4 DEF WhileInv
  <1>2. CASE UNCHANGED allVars
    <2> USE <1>2 DEF allVars, vars, methodVars, wakeVars, notifyVars
    <2>1. CondvarInv'
      BY InvStays DEF WhileInv
    <2>2. Guarded'
      BY DEF WhileInv, Guarded, RoleAt, StatusAt, InWait, LeavesEntries,
             WaitSync
    <2>3. ListedWait'
      BY DEF WhileInv, ListedWait, InWait, Handle, HandleOf, Once, Contains
    <2>4. Tokens'
      BY DEF WhileInv, Tokens, OneByOne, TokenAt, Coming, InWait,
             LeavesEntries, WaitSync
    <2>5. Enough'
      BY DEF WhileInv, Enough, Has, Carriers, Carries, InWait, Contains
    <2> QED
      BY <2>1, <2>2, <2>3, <2>4, <2>5 DEF WhileInv
  <1> QED
    BY <1>1, <1>2, StepCases

\* While there is something to take, not all consumers that came for it sleep
\* unless a producer has yet to notify, whichever ways they wait, if none
\* awaits with a deadline or parks both with deadlines and without.
THEOREM OneIsWoken ==
    ASSUME OneKind PROVE WhileSpec => []OneIsWokenUp
  <1>1. WhileInv => OneIsWokenUp
    <2> SUFFICES ASSUME WhileInv, permits > 0, NEW c \in Consumers, Asleep(c)
                 PROVE  \E p \in Procs : pc[p] # "idle" /\ ~Asleep(p)
      BY DEF OneIsWokenUp
    <2> USE DEF WhileInv, CondvarInv
    <2>0. \A p \in Procs : pc[p] \in NotifyPoints =>
                               pc[p] # "idle" /\ ~Asleep(p)
      BY DEF Asleep, NotifyPoints
    <2>1. SUFFICES ASSUME \A p \in Procs : pc[p] \notin NotifyPoints
          PROVE  \E p \in Procs : pc[p] # "idle" /\ ~Asleep(p)
      BY <2>0
    <2>2. ASSUME NEW p \in Procs, Asleep(p) PROVE Listed(p)
      <3>1. Unheard(p)
        BY <2>2 DEF Asleep, Unheard
      <3>2. \A q \in Procs : waking[q] = <<>>
        BY <2>1 DEF Typed, NotifyPoints
      <3> QED
        BY <3>1, <3>2, InEmpty DEF NoneForgotten, Remembered
    <2> DEFINE l == how[c]
    <2>3. c \in Procs /\ l \in Lists
      BY ConsumersAssumption DEF Typed
    <2>4. waiting[l] # <<>>
      BY <2>2, <2>3, InEmpty DEF Listed
    <2>5. PICK S \in SUBSET Carriers(l) :
              IsFiniteSet(S) /\ Cardinality(S) = permits
      BY <2>3, <2>4 DEF Enough, Has
    <2>6. PICK p \in Procs : Carries(p, l)
      BY <2>5, FS_EmptySet DEF Carriers
    <2>7. todo[p] = <<>>
      BY <2>1 DEF Typed
    <2>8. CASE pc[p] \in {"lock", "held"}
      BY <2>8 DEF Asleep
    <2>9. CASE InWait(p) /\ notified[p]
      <3>1. ~Listed(p)
        <4>1. how[p] \in Lists /\ Handle(p)[1] = p
          BY HandleIs DEF Typed
        <4> QED
          BY <2>9, <4>1 DEF ListedWait, Listed
      <3> QED
        BY <2>2, <2>9, <3>1 DEF InWait, WaitPoints
    <2> QED
      BY <2>6, <2>7, <2>8, <2>9, InEmpty DEF Carries
  <1>2. WhileInv /\ [WhileNext]_allVars => WhileInv'
    BY WhileInvStep
  <1> QED
    BY <1>1, <1>2, WhileInvInit, PTL DEF WhileSpec
=============================================================================
