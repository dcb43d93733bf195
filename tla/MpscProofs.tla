----------------------------- MODULE MpscProofs -----------------------------
(***************************************************************************)
(* What TLAPS proves of module Mpsc, for any senders, waits and bounds:    *)
(* ChannelTypeOK, that it implements AbstractChannel, NoSendToNobody, and  *)
(* NoMissedMessage if NoStrays holds.  The invariant of the Condvar is     *)
(* that of module CondvarProofs.                                           *)
(***************************************************************************)
EXTENDS Mpsc, CondvarProofs, FiniteSetTheorems

-----------------------------------------------------------------------------
\* The steps, by who takes them.

SenderStep(s) ==
    \/ CallSend(s) \/ FirstCheck(s) \/ SecondCheck(s) \/ Push(s)
    \/ CancelSend(s) \/ DropSender(s)

ReceiverStep(r) ==
    \/ CallRecv(r) \/ CallTryRecv(r) \/ DropReceiver(r) \/ LockTimesOut(r)
    \/ Pop(r) \/ SeeSenders(r)

Pass(s) == GiveBack(s) \/ \E t \in Senders : Clone(s, t) \/ Lend(s, t)

\* The steps that are the Condvar's.
InCondvar(p) ==
    \/ /\ WaitStep(p) \/ NotifyStep(p) \/ Acquire(p)
       /\ UNCHANGED channelVars
    \/ /\ p = receiver /\ (DeadlinePasses(p) \/ ParkSpuriously(p))
       /\ UNCHANGED channelVars
    \/ p = receiver /\ CancelRecv(p)

\* Where senders and the receiver can be; only the latter waits.
SenderPoints == {"idle", "is_active", "lock", "held", "push", "take", "wake"}

Roles == /\ \A s \in Senders : pc[s] \in SenderPoints /\ ~timed[s]
         /\ pc[receiver] \in ControlPoints \cup {"count"}

LEMMA StepCases ==
    ASSUME Roles, ChannelNext
    PROVE  \/ \E p \in Procs : InCondvar(p)
           \/ \E s \in Senders : SenderStep(s) \/ Pass(s)
           \/ ReceiverStep(receiver)
  <1> USE SendersAssumption
  <1>1. ASSUME NEW p \in Procs, FirstCheck(p) \/ SecondCheck(p) \/ Push(p)
        PROVE  p \in Senders
    BY <1>1 DEF Roles, FirstCheck, SecondCheck, Push, ControlPoints,
                WaitPoints, NotifyPoints
  <1>2. ASSUME NEW p \in Procs, LockTimesOut(p) \/ Pop(p) \/ SeeSenders(p)
        PROVE  p = receiver
    BY <1>2 DEF Roles, LockTimesOut, Pop, SeeSenders, SenderPoints
  <1> QED
    BY <1>1, <1>2
    DEF ChannelNext, Calls, CallsOf, Own, Outside, InCondvar, SenderStep,
        ReceiverStep, Pass

\* A step that is the Condvar's is one of module Condvar.
LEMMA CondvarSteps ==
    ASSUME NEW p \in Procs, InCondvar(p)
    PROVE  Step(p)
  BY DEF InCondvar, Step, Environment, CancelRecv

\* The others leave all that belongs to its waits.
Outer(p) == \/ p \in Senders /\ SenderStep(p)
            \/ p = receiver /\ ReceiverStep(p)

Frame(p) ==
    /\ \A q \in Procs \ {p} :
           /\ pc'[q] = pc[q] /\ status'[q] = status[q] /\ how'[q] = how[q]
           /\ timed'[q] = timed[q] /\ todo'[q] = todo[q]
           /\ calls'[q] = calls[q]
    /\ UNCHANGED <<waiting, gen, token, signal, waking, notified>>
    /\ pc[p] \in {"idle", "is_active", "lock", "held", "push", "count"}
    /\ pc'[p] \in {"idle", "is_active", "lock", "held", "push", "count",
                   "enlist", "take"}
    /\ todo' = IF pc'[p] = "take"
               THEN [todo EXCEPT ![p] = <<"spin", "block", "async">>]
               ELSE todo

LEMMA FrameStep ==
    ASSUME Typed, NEW p \in Procs, Outer(p)
    PROVE  Frame(p)
  <1> USE SendersAssumption DEF Typed, Goto, Finish, Return, condvarVars,
          wakeVars, notifyVars, methodVars, boundVars, Count
  <1>1. CASE CallSend(p) \/ FirstCheck(p) \/ SecondCheck(p) \/ CancelSend(p)
    BY <1>1 DEF CallSend, FirstCheck, SecondCheck, CancelSend, Frame,
                Lock!Request
  <1>2. CASE Push(p) \/ DropSender(p) \/ (p = receiver /\ DropReceiver(p))
    BY <1>2 DEF Push, DropSender, DropReceiver, Notify, Frame, CanCall,
                Lock!Leave
  <1>3. CASE p = receiver /\ (CallRecv(p) \/ CallTryRecv(p) \/ LockTimesOut(p))
    <2>1. CASE CallRecv(p)
      <3>1. PICK w \in Waits[p] : Choose(p, w)
        BY <2>1 DEF CallRecv
      <3>2. \A q \in Procs \ {p} : how'[q] = how[q] /\ timed'[q] = timed[q]
        BY <3>1 DEF Choose
      <3>3. /\ status' = [status EXCEPT ![p] = "waiting"] /\ pc[p] = "idle"
            /\ pc' = [pc EXCEPT ![p] = "lock"] /\ todo' = todo
            /\ UNCHANGED <<waiting, gen, token, signal, waking, notified>>
            /\ calls' = [calls EXCEPT ![p] = @ + 1]
        BY <2>1 DEF CallRecv, CanCall, Lock!Request
      <3> QED
        BY <3>2, <3>3 DEF Frame
    <2>2. CASE CallTryRecv(p)
      <3>1. /\ status' \in {[status EXCEPT ![p] = "out"],
                              [status EXCEPT ![p] = "in"]}
            /\ pc' \in {[pc EXCEPT ![p] = "idle"], [pc EXCEPT ![p] = "held"]}
            /\ pc[p] = "idle"
        BY <1>3, <2>2 DEF CallTryRecv, CanCall
      <3>2. /\ UNCHANGED <<waiting, gen, token, signal, waking, notified>>
            /\ how' = how /\ timed' = timed /\ todo' = todo
            /\ calls' = [calls EXCEPT ![p] = @ + 1]
        BY <2>2 DEF CallTryRecv
      <3> QED
        BY <3>1, <3>2 DEF Frame
    <2>3. CASE LockTimesOut(p)
      BY <1>3, <2>3 DEF LockTimesOut, Frame
    <2> QED
      BY <1>3, <2>1, <2>2, <2>3
  <1>4. CASE p = receiver /\ (Pop(p) \/ SeeSenders(p))
    BY <1>4 DEF Pop, SeeSenders, Frame
  <1> QED
    BY <1>1, <1>2, <1>3, <1>4 DEF Outer, SenderStep, ReceiverStep

\* What such a step does to the rest of the Condvar's variables.
LEMMA OuterTypes ==
    ASSUME Typed, NEW p \in Procs, Outer(p)
    PROVE  /\ status' \in [Procs -> {"out", "waiting", "in"}]
           /\ pc' = [q \in Procs |-> pc'[q]]
           /\ \/ how' = how /\ timed' = timed /\ expired' = expired
              \/ \E w \in Waits[p] : Choose(p, w) /\ p = receiver
           /\ timed_out' \in [Procs -> BOOLEAN]
           /\ one' \in [Procs -> BOOLEAN]
           /\ calls' \in [Procs -> Nat] /\ spurious' = spurious
  <1> USE SendersAssumption DEF Typed, Goto, Finish, Return, condvarVars,
          wakeVars, notifyVars, methodVars, boundVars, Count
  <1>1. CASE CallSend(p) \/ FirstCheck(p) \/ SecondCheck(p) \/ CancelSend(p)
    <2>1. calls' = calls \/ calls' = [calls EXCEPT ![p] = @ + 1]
      BY <1>1 DEF CallSend, FirstCheck, SecondCheck, CancelSend
    <2>2. calls' \in [Procs -> Nat]
      BY <2>1
    <2> QED
      BY <1>1, <2>2
      DEF CallSend, FirstCheck, SecondCheck, CancelSend, Lock!Request
  <1>2. CASE Push(p) \/ DropSender(p) \/ (p = receiver /\ DropReceiver(p))
    BY <1>2 DEF Push, DropSender, DropReceiver, Notify, CanCall, Lock!Leave
  <1>3. CASE p = receiver /\ CallRecv(p)
    <2>1. \E w \in Waits[p] : Choose(p, w)
      BY <1>3 DEF CallRecv
    <2>2. /\ status' = [status EXCEPT ![p] = "waiting"]
          /\ pc' = [pc EXCEPT ![p] = "lock"]
          /\ timed_out' = [timed_out EXCEPT ![p] = FALSE] /\ one' = one
          /\ calls' = [calls EXCEPT ![p] = @ + 1] /\ spurious' = spurious
      BY <1>3 DEF CallRecv, Lock!Request
    <2>3. calls' \in [Procs -> Nat]
      BY <2>2
    <2>4. /\ status' \in [Procs -> {"out", "waiting", "in"}]
          /\ timed_out' \in [Procs -> BOOLEAN]
      BY <2>2
    <2>5. pc' = [q \in Procs |-> pc'[q]] /\ one' \in [Procs -> BOOLEAN]
      BY <2>2
    <2> HIDE DEF Typed
    <2> QED
      BY <1>3, <2>1, <2>2, <2>3, <2>4, <2>5
  <1>4. CASE p = receiver /\ CallTryRecv(p)
    <2>1. /\ status' \in {[status EXCEPT ![p] = "out"],
                            [status EXCEPT ![p] = "in"]}
          /\ pc' \in {[pc EXCEPT ![p] = "idle"], [pc EXCEPT ![p] = "held"]}
          /\ timed_out' = [timed_out EXCEPT ![p] = FALSE] /\ one' = one
          /\ calls' = [calls EXCEPT ![p] = @ + 1] /\ spurious' = spurious
          /\ how' = how /\ timed' = timed /\ expired' = expired
      BY <1>4 DEF CallTryRecv, CanCall
    <2> QED
      BY <2>1
  <1>5. CASE p = receiver /\ (LockTimesOut(p) \/ Pop(p) \/ SeeSenders(p))
    BY <1>5 DEF LockTimesOut, Pop, SeeSenders
  <1> QED
    BY <1>1, <1>2, <1>3, <1>4, <1>5 DEF Outer, SenderStep, ReceiverStep

\* So it keeps the Condvar's invariant.
LEMMA OuterInv ==
    ASSUME CondvarInv, NEW p \in Procs, Outer(p)
    PROVE  CondvarInv'
  <1> USE DEF CondvarInv
  <1>1. Frame(p)
    BY FrameStep
  <1>2. \A q \in Procs : /\ todo'[q] # <<>> => pc'[q] \in NotifyPoints
                         /\ waking'[q] # <<>> => pc'[q] = "wake"
    BY <1>1 DEF Typed, Frame, NotifyPoints
  <1>3. todo' \in [Procs -> Seq(Lists)]
    <2>1. <<"spin", "block", "async">> \in Seq(Lists)
      BY DEF Lists
    <2> QED
      BY <1>1, <2>1 DEF Frame, Typed
  <1>4. /\ how' \in [Procs -> Lists] /\ timed' \in [Procs -> BOOLEAN]
        /\ expired' \in [Procs -> BOOLEAN]
    BY OuterTypes, ChooseType DEF Typed
  <1>5. Typed'
    BY <1>1, <1>2, <1>3, <1>4, OuterTypes DEF Typed, Frame
  <1>6. StagesMatch'
    <2>1. pc'[p] = "take" => todo'[p] # <<>>
      <3>1. pc'[p] = "take" => todo'[p] = <<"spin", "block", "async">>
        BY <1>1 DEF Frame, Typed
      <3> QED
        BY <3>1, NotEmpty
    <2>2. \A q \in Procs \ {p} : expired'[q] = expired[q]
      <3>1. expired' = expired \/ expired' = [expired EXCEPT ![p] = FALSE]
        BY OuterTypes DEF Choose
      <3> QED
        BY <3>1 DEF Typed
    <2>3. gen' = gen /\ pc'[p] \notin WaitPoints \cup {"unlock"}
      BY <1>1 DEF Frame, WaitPoints
    <2> QED
      BY <1>1, <2>1, <2>2, <2>3 DEF StagesMatch, Frame, WaitPoints
  <1>7. Aside(p)
    <2>1. ~InWait(p) /\ ~InWait(p)'
      BY <1>1 DEF Frame, InWait, WaitPoints
    <2>2. \/ how'[p] = how[p] /\ timed'[p] = timed[p]
          \/ \E w \in Waits[p] : /\ how'[p] = WaitSync(p, w[1])
                                 /\ timed'[p] = w[2]
      <3>1. CASE how' = how /\ timed' = timed
        BY <3>1
      <3>2. ASSUME NEW w \in Waits[p], Choose(p, w)
            PROVE  how'[p] = WaitSync(p, w[1]) /\ timed'[p] = w[2]
        BY <3>2 DEF Choose, Typed
      <3> QED
        BY <3>1, <3>2, OuterTypes
    <2> QED
      BY <1>1, <2>1, <2>2 DEF Aside, Frame
  <1> QED
    BY <1>5, <1>6, <1>7, InvAside

-----------------------------------------------------------------------------
\* The mutex and the places where its guard is held.

Inside == {"held", "push", "count", "enlist", "unlock"}

StatusAt(p) == status[p] = IF pc[p] = "lock" THEN "waiting"
                           ELSE IF pc[p] \in Inside THEN "in" ELSE "out"

\* At most one process holds the guard.
Guarded == /\ \A p \in Procs : StatusAt(p)
           /\ \A p, q \in Procs : pc[p] \in Inside /\ pc[q] \in Inside => p = q

\* How a step of the Condvar moves a process.
LEMMA CondvarMoves ==
    ASSUME Typed, Roles, Guarded, NEW p \in Procs, InCondvar(p)
    PROVE  /\ \A q \in Procs \ {p} : pc'[q] = pc[q] /\ status'[q] = status[q]
           /\ StatusAt(p)'
           /\ pc'[p] \in Inside =>
                  \/ pc[p] = "enlist" /\ pc'[p] = "unlock"
                  \/ \A q \in Procs : status[q] # "in"
           /\ pc'[p] \in ControlPoints \ {"enlist"}
           /\ pc'[p] = "unlock" => pc[p] = "enlist"
           /\ p \in Senders =>
                  \/ pc'[p] \in {"take", "wake", "idle"}
                  \/ pc[p] = "lock" /\ pc'[p] = "held"
           /\ pc'[p] \in WaitPoints => pc[p] \in WaitPoints \cup {"unlock"}
           /\ how' = how /\ timed' = timed /\ calls' = calls
  <1> USE SendersAssumption DEF Typed, Goto, methodVars, wakeVars, notifyVars,
          boundVars, ControlPoints, WaitPoints, NotifyPoints, SenderPoints,
          Inside
  <1>0. StatusAt(p) /\ (p \in Senders => pc[p] \in SenderPoints)
    BY DEF Guarded, Roles
  <1>1. CASE Enlist(p) \/ Unlock(p) \/ NotSignalled(p) \/ Clock(p)
    BY <1>0, <1>1
    DEF Enlist, Unlock, NotSignalled, Clock, Lock!Leave, StatusAt
  <1>2. CASE Signalled(p) \/ Recheck(p) \/ Withdraw(p)
    <2>1. CASE Signalled(p)
      BY <1>0, <2>1 DEF Signalled, Resume, Lock!Request, StatusAt
    <2>2. CASE Recheck(p)
      BY <1>0, <2>2 DEF Recheck, Resume, Lock!Request, StatusAt
    <2>3. CASE Withdraw(p)
      BY <1>0, <2>3 DEF Withdraw, Resume, Lock!Request, StatusAt
    <2> QED
      BY <1>2, <2>1, <2>2, <2>3
  <1>3. CASE Unparked(p) \/ ParkSpuriously(p)
    BY <1>0, <1>3
    DEF Unparked, ParkSpuriously, Resume, Lock!Request, StatusAt
  <1>4. CASE p = receiver /\ (DeadlinePasses(p) \/ Cancel(p))
    <2>1. CASE DeadlinePasses(p)
      BY <1>0, <1>4, <2>1 DEF DeadlinePasses, StatusAt, Waiting
    <2>2. CASE Cancel(p)
      BY <1>0, <1>4, <2>2 DEF Cancel, StatusAt
    <2> QED
      BY <1>4, <2>1, <2>2
  <1>5. CASE NotifyStep(p)
    BY <1>0, <1>5 DEF NotifyStep, Take, Wake, Woken, StatusAt
  <1>6. CASE Acquire(p)
    BY <1>0, <1>6 DEF Acquire, Lock!Enter, StatusAt
  <1> QED
    BY <1>1, <1>2, <1>3, <1>4, <1>5, <1>6
    DEF InCondvar, WaitStep, CancelRecv

\* How the others do.
LEMMA OuterMoves ==
    ASSUME Typed, Roles, Guarded, NEW p \in Procs, Outer(p)
    PROVE  /\ StatusAt(p)'
           /\ pc'[p] \in Inside =>
                  \/ pc[p] \in Inside
                  \/ \A q \in Procs : status[q] # "in"
           /\ p \in Senders => pc'[p] \in SenderPoints
           /\ p = receiver => pc'[p] \in ControlPoints \cup {"count"}
  <1> USE SendersAssumption DEF Typed, Goto, Finish, Return, ControlPoints,
          WaitPoints, NotifyPoints, SenderPoints, Inside
  <1>0. StatusAt(p) /\ (p \in Senders => pc[p] \in SenderPoints)
    BY DEF Guarded, Roles
  <1>1. CASE /\ p \in Senders
             /\ CallSend(p) \/ FirstCheck(p) \/ SecondCheck(p) \/ CancelSend(p)
    <2>1. CASE CallSend(p) \/ CancelSend(p)
      BY <1>0, <1>1, <2>1 DEF CallSend, CancelSend, StatusAt
    <2>2. CASE FirstCheck(p)
      BY <1>0, <1>1, <2>2 DEF FirstCheck, Lock!Request, StatusAt
    <2>3. CASE SecondCheck(p)
      BY <1>0, <1>1, <2>3 DEF SecondCheck, StatusAt
    <2> QED
      BY <1>1, <2>1, <2>2, <2>3
  <1>2. CASE Push(p) \/ DropSender(p) \/ (p = receiver /\ DropReceiver(p))
    BY <1>0, <1>2 DEF Push, DropSender, DropReceiver, Notify, CanCall,
                      Lock!Leave, StatusAt
  <1>3. CASE p = receiver /\ (CallRecv(p) \/ CallTryRecv(p))
    <2>1. CASE CallRecv(p)
      BY <1>0, <2>1 DEF CallRecv, CanCall, Lock!Request, StatusAt
    <2>2. CASE CallTryRecv(p)
      BY <1>0, <1>3, <2>2 DEF CallTryRecv, CanCall, StatusAt
    <2> QED
      BY <1>3, <2>1, <2>2
  <1>4. CASE p = receiver /\ (LockTimesOut(p) \/ Pop(p) \/ SeeSenders(p))
    BY <1>0, <1>4 DEF LockTimesOut, Pop, SeeSenders, StatusAt
  <1> QED
    BY <1>1, <1>2, <1>3, <1>4 DEF Outer, SenderStep, ReceiverStep

\* Between them they keep the roles, and the mutex theirs.
LEMMA RolesStep ==
    ASSUME CondvarInv, Roles, Guarded, ChannelNext
    PROVE  CondvarInv' /\ Roles' /\ Guarded'
  <1> USE SendersAssumption
  <1>0. Typed
    BY DEF CondvarInv
  <1>1. ASSUME NEW p \in Procs, InCondvar(p)
        PROVE  CondvarInv' /\ Roles' /\ Guarded'
    <2>1. CondvarInv'
      BY <1>1, CondvarSteps, InvStep
    <2>2. Roles'
      BY <1>0, <1>1, CondvarMoves DEF Roles, SenderPoints
    <2>3. Guarded'
      BY <1>0, <1>1, CondvarMoves DEF Guarded, StatusAt, Inside
    <2> QED
      BY <2>1, <2>2, <2>3
  <1>2. ASSUME NEW p \in Procs, Outer(p)
        PROVE  CondvarInv' /\ Roles' /\ Guarded'
    <2>1. CondvarInv'
      BY <1>2, OuterInv
    <2>2. Frame(p)
      BY <1>0, <1>2, FrameStep
    <2>3. p \in Senders => timed'[p] = timed[p]
      BY <1>0, <1>2, OuterTypes
    <2>4. Roles'
      BY <1>0, <1>2, <2>2, <2>3, OuterMoves DEF Roles, Frame
    <2>5. Guarded'
      BY <1>0, <1>2, <2>2, OuterMoves DEF Guarded, StatusAt, Inside, Frame
    <2> QED
      BY <2>1, <2>4, <2>5
  <1>3. ASSUME NEW s \in Senders, Pass(s)
        PROVE  CondvarInv' /\ Roles' /\ Guarded'
    <2>1. UNCHANGED vars
      BY <1>3 DEF Pass, GiveBack, Clone, Lend
    <2>2. CondvarInv'
      BY <2>1, InvStays
    <2> QED
      BY <2>1, <2>2 DEF vars, methodVars, Roles, Guarded, StatusAt
  <1>4. CASE \E s \in Senders : SenderStep(s) \/ Pass(s)
    <2>1. PICK s \in Senders : SenderStep(s) \/ Pass(s)
      BY <1>4
    <2>2. s \in Procs
      OBVIOUS
    <2>3. CASE SenderStep(s)
      <3>1. Outer(s)
        BY <2>1, <2>3 DEF Outer
      <3> QED
        BY <1>2, <2>2, <3>1
    <2> QED
      BY <1>3, <2>1, <2>3
  <1>5. CASE ReceiverStep(receiver)
    BY <1>2, <1>5 DEF Outer
  <1> QED
    BY <1>1, <1>4, <1>5, StepCases

-----------------------------------------------------------------------------
\* Type correctness, and who may use a Sender.

Owners == {s \in Senders : owner[s] = "owns"}

\* A Sender that is lent out is still there, and whoever sends has one.
Owned ==
    /\ IsFiniteSet(Owners)
    /\ \A s \in Senders : Borrows(s) => owner[s] \in Owners
    /\ \A s \in Senders :
           pc[s] \in {"is_active", "lock", "held", "push"} =>
               MayUse(s) /\ calls[s] \in 1..MaxCalls[s]

\* The number of senders is that of the owners.
LEMMA OwnersStep ==
    ASSUME ChannelTypeOK, Owned, ChannelNext
    PROVE  /\ owner' \in [Senders -> {"new", "owns", "dropped"} \cup Senders]
           /\ sender_count' \in Nat /\ IsFiniteSet(Owners')
           /\ sender_count' = Cardinality(Owners')
  <1> USE SendersAssumption
  <1>0. /\ owner \in [Senders -> {"new", "owns", "dropped"} \cup Senders]
        /\ sender_count \in Nat /\ IsFiniteSet(Owners)
        /\ sender_count = Cardinality(Owners)
    BY DEF ChannelTypeOK, Owned, Owners
  <1>1. ASSUME NEW s \in Senders, NEW t \in Senders, Clone(s, t)
        PROVE  /\ owner' \in [Senders -> {"new", "owns", "dropped"}
                                             \cup Senders]
               /\ sender_count' \in Nat /\ IsFiniteSet(Owners')
               /\ sender_count' = Cardinality(Owners')
    <2>1. Owners' = Owners \cup {t} /\ t \notin Owners
      BY <1>0, <1>1 DEF Clone, Owners
    <2>2. /\ IsFiniteSet(Owners \cup {t})
          /\ Cardinality(Owners \cup {t}) = Cardinality(Owners) + 1
      BY <1>0, <2>1, FS_AddElement
    <2> QED
      BY <1>0, <1>1, <2>1, <2>2 DEF Clone
  <1>2. ASSUME NEW s \in Senders, DropSender(s)
        PROVE  /\ owner' \in [Senders -> {"new", "owns", "dropped"}
                                             \cup Senders]
               /\ sender_count' \in Nat /\ IsFiniteSet(Owners')
               /\ sender_count' = Cardinality(Owners')
    <2>1. Owners' = Owners \ {s} /\ s \in Owners
      BY <1>0, <1>2 DEF DropSender, Owners
    <2>2. /\ IsFiniteSet(Owners \ {s})
          /\ Cardinality(Owners \ {s}) = Cardinality(Owners) - 1
      BY <1>0, <2>1, FS_RemoveElement
    <2>3. Cardinality(Owners \ {s}) \in Nat
      BY <2>2, FS_CardinalityType
    <2>4. owner' = [owner EXCEPT ![s] = "dropped"]
          /\ sender_count' = sender_count - 1
      BY <1>2 DEF DropSender
    <2> QED
      BY <1>0, <2>1, <2>2, <2>3, <2>4
  <1>3. ASSUME NEW s \in Senders,
               GiveBack(s) \/ \E t \in Senders : Lend(s, t)
        PROVE  /\ owner' \in [Senders -> {"new", "owns", "dropped"}
                                             \cup Senders]
               /\ sender_count' = sender_count /\ Owners' = Owners
    <2>1. CASE GiveBack(s)
      BY <1>0, <2>1 DEF GiveBack, Borrows, Owners, sharedVars
    <2>2. ASSUME NEW t \in Senders, Lend(s, t)
          PROVE  /\ owner' \in [Senders -> {"new", "owns", "dropped"}
                                               \cup Senders]
                 /\ sender_count' = sender_count /\ Owners' = Owners
      <3>1. owner' = [owner EXCEPT ![t] = s] /\ owner[t] = "new" /\ s # "owns"
        BY <2>2 DEF Lend
      <3>2. sender_count' = sender_count
        BY <2>2 DEF Lend, sharedVars
      <3> QED
        BY <1>0, <3>1, <3>2 DEF Owners
    <2> QED
      BY <1>3, <2>1, <2>2
  <1>4. CASE UNCHANGED <<owner, sender_count>>
    BY <1>0, <1>4 DEF Owners
  <1>5. \/ UNCHANGED <<owner, sender_count>>
        \/ \E s \in Senders :
              \/ DropSender(s) \/ GiveBack(s)
              \/ \E t \in Senders : Clone(s, t) \/ Lend(s, t)
    BY DEF ChannelNext, Calls, CallsOf, Own, Outside, CallSend, FirstCheck,
           SecondCheck, Push, CancelSend, CallRecv, CallTryRecv, CancelRecv,
           DropReceiver, LockTimesOut, Pop, SeeSenders, channelVars,
           sharedVars
  <1> QED
    BY <1>0, <1>1, <1>2, <1>3, <1>4, <1>5

\* The queue grows by a message of the sender, or loses its head.
LEMMA QueueStep ==
    ASSUME Roles, ChannelNext
    PROVE  \/ UNCHANGED <<queue, got>>
           \/ \E s \in Senders : Push(s)
           \/ Pop(receiver) /\ queue # <<>> /\ queue' = Tail(queue)
                            /\ got' = Append(got, Head(queue))
  <1> USE SendersAssumption
          DEF channelVars, sharedVars, historyVars
  <1>1. ASSUME NEW p \in Procs, InCondvar(p) PROVE UNCHANGED <<queue, got>>
    BY <1>1 DEF InCondvar, CancelRecv
  <1>2. ASSUME NEW s \in Senders, SenderStep(s) \/ Pass(s)
        PROVE  UNCHANGED <<queue, got>> \/ Push(s)
    BY <1>2 DEF SenderStep, Pass, CallSend, FirstCheck, SecondCheck,
                CancelSend, DropSender, GiveBack, Clone, Lend
  <1>3. CASE ReceiverStep(receiver)
    BY <1>3 DEF ReceiverStep, CallRecv, CallTryRecv, DropReceiver,
                LockTimesOut, Pop, SeeSenders
  <1> QED
    BY <1>1, <1>2, <1>3, StepCases

\* The other variables of the channel keep their types.
LEMMA FlagsStep ==
    ASSUME ChannelTypeOK, ChannelNext
    PROVE  /\ receiver_active' \in BOOLEAN /\ told' \in BOOLEAN
           /\ op' \in {"none", "recv", "waiting", "try_recv"}
           /\ result' \in {"ok", "empty", "timeout", "disconnected"}
  <1> USE DEF ChannelTypeOK, channelVars, sharedVars, historyVars, Return
  <1>1. CASE UNCHANGED <<receiver_active, told, op, result>>
    BY <1>1
  <1>2. CASE CallsOf(receiver)
    BY <1>2 DEF CallsOf, CallRecv, CallTryRecv, CancelRecv, DropReceiver
  <1>3. CASE \E p \in Procs : LockTimesOut(p) \/ Pop(p) \/ SeeSenders(p)
    BY <1>3 DEF LockTimesOut, Pop, SeeSenders
  <1> QED
    BY <1>1, <1>2, <1>3
    DEF ChannelNext, Calls, Own, Outside, CallSend, FirstCheck, SecondCheck,
        Push, CancelSend, DropSender, GiveBack, Clone, Lend

LEMMA ChannelTypeStep ==
    ASSUME Typed, Roles, ChannelTypeOK, Owned, ChannelNext
    PROVE  ChannelTypeOK'
  <1>1. queue' \in Seq(Senders \X Nat) /\ got' \in Seq(Senders \X Nat)
    <2> USE DEF ChannelTypeOK
    <2>1. ASSUME NEW s \in Senders, Push(s)
          PROVE  queue' \in Seq(Senders \X Nat) /\ got' = got
      <3>1. Message(s) \in Senders \X Nat
        BY SendersAssumption DEF Message, Typed
      <3> QED
        BY <2>1, <3>1 DEF Push, historyVars
    <2>2. queue # <<>> => /\ Head(queue) \in Senders \X Nat
                          /\ Tail(queue) \in Seq(Senders \X Nat)
      OBVIOUS
    <2>3. CASE queue # <<>> /\ queue' = Tail(queue)
               /\ got' = Append(got, Head(queue))
      BY <2>2, <2>3
    <2> QED
      BY <2>1, <2>3, QueueStep
  <1>2. Owners' = {s \in Senders : owner'[s] = "owns"}
    BY DEF Owners
  <1> QED
    BY <1>1, <1>2, OwnersStep, FlagsStep DEF ChannelTypeOK


\* Nobody who has begun to send loses the Sender.
LEMMA OwnerStep ==
    ASSUME ChannelTypeOK, ChannelNext, NEW s \in Senders,
           owner'[s] # owner[s]
    PROVE  owner[s] = "new" \/ pc[s] = "idle"
  <1> USE DEF ChannelTypeOK, channelVars
  <1>1. CASE UNCHANGED owner
    BY <1>1
  <1>2. ASSUME NEW t \in Senders, Calls(t)
        PROVE  owner[s] = "new" \/ pc[s] = "idle"
    <2>1. CASE GiveBack(t) \/ DropSender(t)
      BY <2>1 DEF GiveBack, DropSender
    <2>2. CASE \E u \in Senders : Clone(t, u) \/ Lend(t, u)
      BY <2>2 DEF Clone, Lend
    <2>3. CASE CallSend(t) \/ CancelSend(t)
      BY <2>3 DEF CallSend, CancelSend
    <2> QED
      BY <1>2, <2>1, <2>2, <2>3 DEF Calls
  <1> QED
    BY <1>1, <1>2
    DEF ChannelNext, CallsOf, Own, Outside, FirstCheck, SecondCheck, Push,
        CallRecv, CallTryRecv, CancelRecv, DropReceiver, LockTimesOut, Pop,
        SeeSenders

\* Nobody sends without a Sender.
LEMMA OwnedStep ==
    ASSUME Typed, Roles, Guarded, ChannelTypeOK, Owned, ChannelNext
    PROVE  Owned'
  <1> USE SendersAssumption
  <1> DEFINE Sending(s) == pc[s] \in {"is_active", "lock", "held", "push"}
             Able(s) == MayUse(s) /\ calls[s] \in 1..MaxCalls[s]
             Kept(s) == pc'[s] = pc[s] /\ calls'[s] = calls[s]
  <1>0. owner \in [Senders -> {"new", "owns", "dropped"} \cup Senders]
    BY DEF ChannelTypeOK
  <1>1. \A s \in Senders : Borrows(s)' => owner'[s] \in Owners'
    <2>1. ASSUME NEW s \in Senders, NEW t \in Senders,
                 Clone(s, t) \/ Lend(s, t)
          PROVE  \A u \in Senders : Borrows(u)' => owner'[u] \in Owners'
      <3>1. /\ owner[t] = "new"
            /\ \/ owner' = [owner EXCEPT ![t] = "owns"]
               \/ owner' = [owner EXCEPT ![t] = s] /\ owner[s] = "owns"
        BY <2>1 DEF Clone, Lend
      <3> QED
        BY <1>0, <3>1 DEF Owned, Owners, Borrows
    <2>2. ASSUME NEW s \in Senders, GiveBack(s) \/ DropSender(s)
          PROVE  \A u \in Senders : Borrows(u)' => owner'[u] \in Owners'
      <3>1. \/ owner' = [owner EXCEPT ![s] = "new"] /\ owner[s] \in Senders
            \/ /\ owner' = [owner EXCEPT ![s] = "dropped"]
               /\ \A t \in Senders : owner[t] # s
        BY <2>2 DEF GiveBack, DropSender, Borrows
      <3> QED
        BY <1>0, <3>1 DEF Owned, Owners, Borrows
    <2>3. CASE UNCHANGED owner
      BY <2>3 DEF Owned, Owners, Borrows
    <2>4. \/ UNCHANGED owner
          \/ \E s \in Senders :
                \/ DropSender(s) \/ GiveBack(s)
                \/ \E t \in Senders : Clone(s, t) \/ Lend(s, t)
      BY DEF ChannelNext, Calls, CallsOf, Own, Outside, CallSend, FirstCheck,
             SecondCheck, Push, CancelSend, CallRecv, CallTryRecv,
             CancelRecv, DropReceiver, LockTimesOut, Pop, SeeSenders,
             channelVars
    <2> QED
      BY <2>1, <2>2, <2>3, <2>4
  <1>2. ASSUME NEW s \in Senders, Sending(s)'
        PROVE  \/ Sending(s) /\ calls'[s] = calls[s]
               \/ CallSend(s)
    <2>1. ASSUME NEW p \in Procs, InCondvar(p)
          PROVE  Sending(s) /\ calls'[s] = calls[s]
      BY <1>2, <2>1, CondvarMoves
    <2>2. ASSUME NEW p \in Procs, Outer(p)
          PROVE  (Sending(s) /\ calls'[s] = calls[s]) \/ CallSend(s)
      <3>1. CASE p # s
        BY <1>2, <2>2, <3>1, FrameStep DEF Frame
      <3>2. CASE p = s
        <4>1. CASE FirstCheck(s) \/ SecondCheck(s) \/ CancelSend(s)
          BY <1>2, <4>1
          DEF FirstCheck, SecondCheck, CancelSend, Typed, boundVars
        <4>2. CASE Push(s) \/ DropSender(s)
          BY <1>2, <4>2 DEF Push, DropSender, Notify, Goto, Typed, boundVars
        <4> QED
          BY <2>2, <3>2, <4>1, <4>2 DEF Outer, SenderStep
      <3> QED
        BY <3>1, <3>2
    <2>3. ASSUME NEW t \in Senders, Pass(t)
          PROVE  Sending(s) /\ calls'[s] = calls[s]
      BY <1>2, <2>3
      DEF Pass, GiveBack, Clone, Lend, vars, boundVars
    <2>4. \/ \E p \in Procs : InCondvar(p) \/ Outer(p)
          \/ \E t \in Senders : Pass(t)
      BY StepCases DEF Outer
    <2> QED
      BY <2>1, <2>2, <2>3, <2>4
  <1>3. ASSUME NEW s \in Senders, Sending(s)' PROVE Able(s)'
    <2>1. CASE Sending(s) /\ calls'[s] = calls[s]
      <3>1. MayUse(s) /\ calls[s] \in 1..MaxCalls[s]
        BY <2>1 DEF Owned
      <3>2. owner'[s] = owner[s]
        BY <2>1, <3>1, OwnerStep DEF MayUse, Borrows
      <3> QED
        BY <2>1, <3>1, <3>2 DEF MayUse, Borrows
    <2>2. CASE CallSend(s)
      <3>1. calls'[s] = calls[s] + 1 /\ calls[s] < MaxCalls[s]
        BY <2>2 DEF CallSend, Count, Typed
      <3>2. calls[s] \in Nat /\ MaxCalls[s] \in Nat
        BY BoundsAssumption DEF Typed
      <3>3. MayUse(s)'
        BY <2>2 DEF CallSend, MayUse, Borrows, channelVars
      <3> QED
        BY <3>1, <3>2, <3>3
    <2> QED
      BY <1>2, <1>3, <2>1, <2>2
  <1>4. IsFiniteSet(Owners')
    BY OwnersStep
  <1> QED
    BY <1>1, <1>3, <1>4 DEF Owned

-----------------------------------------------------------------------------
\* The invariant of the channel.

\* A receiver that goes on to wait has seen that there is no message, and
\* holds the guard.
QueueSeen == pc[receiver] \in {"count", "enlist", "unlock"} => queue = <<>>

LEMMA QueueSeenStep ==
    ASSUME Typed, Roles, Guarded, QueueSeen, ChannelNext
    PROVE  QueueSeen'
  <1> USE SendersAssumption
  <1> DEFINE Sees == pc[receiver] \in {"count", "enlist", "unlock"}
  <1>1. Sees' => Sees \/ (Pop(receiver) /\ queue = <<>> /\ queue' = queue)
    <2>1. ASSUME NEW p \in Procs, InCondvar(p) PROVE Sees' => Sees
      BY <2>1, CondvarMoves DEF ControlPoints, WaitPoints, NotifyPoints
    <2>2. ASSUME NEW s \in Senders, SenderStep(s) PROVE Sees' => Sees
      <3>1. Frame(s)
        BY <2>2, FrameStep DEF Outer
      <3> QED
        BY <3>1 DEF Frame
    <2>3. ASSUME NEW s \in Senders, Pass(s) PROVE Sees' => Sees
      BY <2>3 DEF Pass, GiveBack, Clone, Lend, vars
    <2>4. CASE ReceiverStep(receiver)
      <3> USE DEF Return, Finish, Goto, Typed
      <3>1. CASE Pop(receiver)
        BY <3>1 DEF Pop
      <3>2. CASE SeeSenders(receiver)
        BY <3>2 DEF SeeSenders
      <3>3. CASE CallRecv(receiver) \/ CallTryRecv(receiver)
        <4>1. pc'[receiver] \in {"lock", "idle", "held"}
          BY <3>3 DEF CallRecv, CallTryRecv
        <4> QED
          BY <4>1
      <3>4. CASE DropReceiver(receiver) \/ LockTimesOut(receiver)
        BY <3>4 DEF DropReceiver, LockTimesOut, Notify
      <3> QED
        BY <2>4, <3>1, <3>2, <3>3, <3>4 DEF ReceiverStep
    <2> QED
      BY <2>1, <2>2, <2>3, <2>4, StepCases
  <1>2. Sees => queue' = queue
    <2>1. ASSUME NEW s \in Senders, Push(s), Sees PROVE FALSE
      BY <2>1 DEF Push, Guarded, Inside
    <2>2. Pop(receiver) => ~Sees
      BY DEF Pop
    <2> QED
      BY <2>1, <2>2, QueueStep
  <1> QED
    BY <1>1, <1>2 DEF QueueSeen, Pop

ChannelInv == /\ CondvarInv /\ Roles /\ Guarded /\ ChannelTypeOK /\ Owned
              /\ QueueSeen

LEMMA ChannelInit == InitChannel => ChannelInv
  <1> SUFFICES ASSUME InitChannel PROVE ChannelInv
    OBVIOUS
  <1> USE SendersAssumption
  <1>1. Init /\ \A p \in Procs : /\ pc[p] = "idle" /\ ~timed[p]
                                /\ status[p] = "out"
    BY DEF InitChannel, Init, Lock!Init
  <1>2. CondvarInv
    BY <1>1, InvInit
  <1>3. Roles /\ Guarded /\ QueueSeen
    BY <1>1 DEF Roles, Guarded, StatusAt, Inside, QueueSeen, SenderPoints,
                ControlPoints
  <1>4. owner = [s \in Senders |-> IF s = first THEN "owns" ELSE "new"]
    BY DEF InitChannel
  <1>5. Owners = {first}
    BY <1>4 DEF Owners
  <1>6. IsFiniteSet({first}) /\ Cardinality({first}) = 1
    BY FS_Singleton
  <1>7. Owned
    BY <1>1, <1>4, <1>5, <1>6 DEF Owned, Borrows
  <1>8. ChannelTypeOK
    <2>1. <<>> \in Seq(Senders \X Nat)
      OBVIOUS
    <2> QED
      BY <1>4, <1>5, <1>6, <2>1 DEF InitChannel, ChannelTypeOK, Owners
  <1> QED
    BY <1>2, <1>3, <1>7, <1>8 DEF ChannelInv

LEMMA ChannelStep == ChannelInv /\ [ChannelNext]_allVars => ChannelInv'
  <1>1. ChannelInv /\ ChannelNext => ChannelInv'
    <2>1. CondvarInv => Typed
      BY DEF CondvarInv
    <2> QED
      BY <2>1, RolesStep, ChannelTypeStep, OwnedStep, QueueSeenStep
      DEF ChannelInv
  <1>2. ChannelInv /\ UNCHANGED allVars => ChannelInv'
    <2> SUFFICES ASSUME ChannelInv, UNCHANGED allVars PROVE ChannelInv'
      OBVIOUS
    <2> USE DEF allVars, channelVars, sharedVars, historyVars
    <2>1. CondvarInv'
      BY InvStays DEF ChannelInv
    <2>2. Roles' /\ Guarded' /\ QueueSeen'
      BY DEF ChannelInv, vars, methodVars, Roles, Guarded, StatusAt, QueueSeen
    <2>3. ChannelTypeOK' /\ Owned'
      BY DEF ChannelInv, vars, boundVars, ChannelTypeOK, Owned, Owners,
             Borrows, MayUse
    <2> QED
      BY <2>1, <2>2, <2>3 DEF ChannelInv
  <1> QED
    BY <1>1, <1>2

LEMMA ChannelCorrect == ChannelSpec => []ChannelInv
  BY ChannelInit, ChannelStep, PTL DEF ChannelSpec

\* The channel's own variables have their types, and sender_count is the
\* number of those who own a Sender, whoever clones, lends and drops them.
THEOREM ChannelTypesCorrect == ChannelSpec => []ChannelTypeOK
  <1>1. ChannelInv => ChannelTypeOK
    BY DEF ChannelInv
  <1> QED
    BY <1>1, ChannelCorrect, PTL

\* Once the receiver is gone no send comes to its push any more, and of those
\* that were past their second look only one pushes: there is only one.
THEOREM NobodySendsToNobody == ChannelSpec => NoSendToNobody
  <1> DEFINE late == \E s \in Senders : pc[s] = "push"
             none == \A s \in Senders : pc'[s] # "push"
  <1>1. ChannelInv /\ [ChannelNext]_allVars
            => [~receiver_active =>
                   /\ \A s \in Senders : pc'[s] = "push" => pc[s] = "push"
                   /\ Len(queue') > Len(queue) => late /\ none]_allVars
    <2> SUFFICES ASSUME ChannelInv, ChannelNext, ~receiver_active
                 PROVE  /\ \A s \in Senders : pc'[s] = "push"
                                                  => pc[s] = "push"
                        /\ Len(queue') > Len(queue) => late /\ none
      OBVIOUS
    <2>0. Typed /\ Roles /\ Guarded /\ queue \in Seq(Senders \X Nat)
      BY DEF ChannelInv, CondvarInv, ChannelTypeOK
    <2>1. ASSUME NEW s \in Senders, pc'[s] = "push", pc[s] # "push"
          PROVE  FALSE
      <3> USE SendersAssumption
      <3>1. ASSUME NEW p \in Procs, InCondvar(p) PROVE FALSE
        BY <2>0, <2>1, <3>1, CondvarMoves
      <3>2. ASSUME NEW t \in Senders, SenderStep(t) PROVE FALSE
        BY <2>0, <2>1, <3>2
        DEF SenderStep, CallSend, FirstCheck, SecondCheck, Push, CancelSend,
            DropSender, Notify, Finish, Goto, Typed
      <3>3. ASSUME NEW t \in Senders, Pass(t) PROVE FALSE
        BY <2>1, <3>3 DEF Pass, GiveBack, Clone, Lend, vars
      <3>4. CASE ReceiverStep(receiver)
        <4>1. Frame(receiver)
          BY <2>0, <3>4, FrameStep DEF Outer
        <4> QED
          BY <2>1, <4>1 DEF Frame
      <3> QED
        BY <2>0, <3>1, <3>2, <3>3, <3>4, StepCases
    <2>2. ASSUME Len(queue') > Len(queue) PROVE late /\ none
      <3>1. queue # <<>> => Len(Tail(queue)) <= Len(queue)
        BY <2>0
      <3>2. Len(queue) \in Nat /\ (queue # <<>> => Len(Tail(queue)) \in Nat)
        BY <2>0
      <3>3. PICK s \in Senders : Push(s)
        BY <2>0, <2>2, <3>1, <3>2, QueueStep
      <3>4. pc[s] = "push" /\ pc' = [pc EXCEPT ![s] = "take"]
        BY <2>0, <3>3 DEF Push, Notify, Goto
      <3>5. \A t \in Senders : pc[t] = "push" => t = s
        BY <2>0, <3>4, SendersAssumption DEF Guarded, Inside
      <3>6. none
        BY <2>0, <3>4, <3>5, SendersAssumption DEF Typed
      <3> QED
        BY <3>4, <3>6
    <2> QED
      BY <2>1, <2>2
  <1> QED
    BY <1>1, ChannelCorrect, PTL DEF ChannelSpec, NoSendToNobody

\* The channel implements the abstract one: messages are received in the order
\* in which they were pushed, once each, and Disconnected is returned only when
\* none is left and no Sender is.
THEOREM ChannelImplemented == ChannelSpec => ImplementsChannel
  <1> USE SendersAssumption
  <1>1. InitChannel => Channel!Init
    <2> SUFFICES ASSUME InitChannel PROVE Channel!Init
      OBVIOUS
    <2>1. {s \in Senders : owner[s] = "owns"} = {first}
      BY DEF InitChannel
    <2> QED
      BY <2>1 DEF InitChannel, Channel!Init
  <1>2. ChannelInv /\ [ChannelNext]_allVars
            => [Channel!Next]_<<queue, {s \in Senders : owner[s] = "owns"},
                                got, told>>
    <2> SUFFICES ASSUME ChannelInv, ChannelNext
                 PROVE  [Channel!Next]_<<queue,
                            {s \in Senders : owner[s] = "owns"}, got, told>>
      BY DEF allVars, channelVars, sharedVars, historyVars
    <2> DEFINE kept == UNCHANGED <<queue, owner, got, told>>
    <2>0. /\ Typed /\ Roles /\ Guarded /\ Owned /\ QueueSeen
          /\ owner \in [Senders -> {"new", "owns", "dropped"} \cup Senders]
      BY DEF ChannelInv, CondvarInv, ChannelTypeOK
    <2>1. ASSUME NEW s \in Senders, Push(s) PROVE Channel!Send
      <3>1. MayUse(s) /\ calls[s] \in 1..MaxCalls[s]
        BY <2>0, <2>1 DEF Owned, Push
      <3>2. {t \in Senders : owner[t] = "owns"} # {}
        BY <2>0, <3>1 DEF Owned, MayUse, Owners
      <3>3. Message(s) \in Sent
        BY <3>1 DEF Message, Sent
      <3> QED
        BY <2>1, <3>2, <3>3 DEF Push, Channel!Send, historyVars
    <2>2. ASSUME NEW s \in Senders, NEW t \in Senders, Clone(s, t)
          PROVE  Channel!Clone
      <3>1. MayUse(s)
        BY <2>2 DEF Clone
      <3>2. {u \in Senders : owner[u] = "owns"} # {}
        BY <2>0, <3>1 DEF Owned, MayUse, Owners
      <3>3. {u \in Senders : owner'[u] = "owns"}
                = {u \in Senders : owner[u] = "owns"} \cup {t}
        BY <2>0, <2>2 DEF Clone
      <3> QED
        BY <2>2, <3>2, <3>3 DEF Clone, Channel!Clone, historyVars
    <2>3. ASSUME NEW s \in Senders, DropSender(s) PROVE Channel!Drop
      <3>1. {u \in Senders : owner'[u] = "owns"}
                = {u \in Senders : owner[u] = "owns"} \ {s}
        BY <2>0, <2>3 DEF DropSender
      <3> QED
        BY <2>3, <3>1 DEF DropSender, Channel!Drop, historyVars
    <2>4. ASSUME NEW s \in Senders,
                 GiveBack(s) \/ \E t \in Senders : Lend(s, t)
          PROVE  UNCHANGED <<queue, {u \in Senders : owner[u] = "owns"},
                             got, told>>
      <3>1. UNCHANGED <<queue, got, told>>
        BY <2>4 DEF GiveBack, Lend, sharedVars, historyVars
      <3>2. ASSUME NEW t \in Senders, Lend(s, t)
            PROVE  {u \in Senders : owner'[u] = "owns"}
                       = {u \in Senders : owner[u] = "owns"}
        <4>1. s # "owns"
          OBVIOUS
        <4> QED
          BY <2>0, <3>2, <4>1 DEF Lend
      <3>3. GiveBack(s) => {u \in Senders : owner'[u] = "owns"}
                               = {u \in Senders : owner[u] = "owns"}
        BY <2>0 DEF GiveBack, Borrows
      <3> QED
        BY <2>4, <3>1, <3>2, <3>3
    <2>5. Pop(receiver) => Channel!Receive \/ kept
      <3> SUFFICES ASSUME Pop(receiver) PROVE Channel!Receive \/ kept
        OBVIOUS
      <3>1. owner' = owner /\ told' = told
        BY DEF Pop
      <3>2. \/ UNCHANGED <<queue, got>>
            \/ /\ queue # <<>> /\ queue' = Tail(queue)
               /\ got' = Append(got, Head(queue))
        BY DEF Pop
      <3> QED
        BY <3>1, <3>2 DEF Channel!Receive
    <2>6. SeeSenders(receiver) => Channel!Disconnect \/ kept
      <3> SUFFICES ASSUME SeeSenders(receiver)
                   PROVE  Channel!Disconnect \/ kept
        OBVIOUS
      <3>1. queue = <<>> /\ queue' = queue /\ owner' = owner /\ got' = got
        BY <2>0 DEF SeeSenders, QueueSeen, sharedVars
      <3>2. ASSUME sender_count = 0
            PROVE  {s \in Senders : owner[s] = "owns"} = {}
        <4>1. /\ IsFiniteSet({s \in Senders : owner[s] = "owns"})
              /\ Cardinality({s \in Senders : owner[s] = "owns"}) = 0
          BY <2>0, <3>2 DEF Owned, Owners, ChannelInv, ChannelTypeOK
        <4> QED
          BY <4>1, FS_EmptySet
      <3>3. (sender_count = 0 /\ told' = TRUE) \/ told' = told
        BY DEF SeeSenders
      <3> QED
        BY <3>1, <3>2, <3>3 DEF Channel!Disconnect
    <2>7. \/ kept
          \/ \E s \in Senders :
                \/ Push(s) \/ DropSender(s) \/ GiveBack(s)
                \/ \E t \in Senders : Clone(s, t) \/ Lend(s, t)
          \/ Pop(receiver) \/ SeeSenders(receiver)
      <3> USE DEF channelVars, sharedVars, historyVars
      <3>1. ASSUME NEW p \in Procs, InCondvar(p) PROVE kept
        BY <3>1 DEF InCondvar, CancelRecv
      <3>2. ASSUME NEW s \in Senders, SenderStep(s)
            PROVE  kept \/ Push(s) \/ DropSender(s)
        BY <3>2 DEF SenderStep, CallSend, FirstCheck, SecondCheck, CancelSend
      <3>3. CASE ReceiverStep(receiver)
        BY <3>3 DEF ReceiverStep, CallRecv, CallTryRecv, DropReceiver,
                    LockTimesOut
      <3> QED
        BY <2>0, <3>1, <3>2, <3>3, StepCases DEF Pass
    <2> QED
      BY <2>1, <2>2, <2>3, <2>4, <2>5, <2>6, <2>7 DEF Channel!Next
  <1> QED
    BY <1>1, <1>2, ChannelCorrect, PTL
    DEF ChannelSpec, ImplementsChannel, Channel!Spec

-----------------------------------------------------------------------------
\* The receiver does not sleep beside a message.

\* What a notifier has yet to look at.
Rests == {<<>>, <<"async">>, <<"block", "async">>,
          <<"spin", "block", "async">>}

LEMMA RestOf ==
    ASSUME NEW t \in Rests, t # <<>>
    PROVE  /\ t \in Seq(Lists) /\ Head(t) \in Lists /\ Tail(t) \in Rests
           /\ \A h : Contains(t, h) =>
                  \/ h = Head(t)
                  \/ /\ Contains(Tail(t), h)
                     /\ Head(t) = "spin" \/ (Head(t) = "block" /\ h = "async")
  <1>1. CASE t = <<"async">>
    <2>1. Head(t) = "async" /\ Tail(t) = <<>> /\ t \in Seq(Lists)
      BY <1>1 DEF Lists
    <2>2. \A h : Contains(t, h) => h = "async"
      BY <1>1 DEF Contains
    <2> QED
      BY <2>1, <2>2 DEF Rests, Lists
  <1>2. CASE t = <<"block", "async">>
    <2>1. Head(t) = "block" /\ Tail(t) = <<"async">> /\ t \in Seq(Lists)
      BY <1>2 DEF Lists
    <2>2. \A h : Contains(t, h) => h = "block" \/ h = "async"
      BY <1>2 DEF Contains
    <2>3. Contains(<<"async">>, "async")
      BY DEF Contains
    <2> QED
      BY <2>1, <2>2, <2>3 DEF Rests, Lists
  <1>3. CASE t = <<"spin", "block", "async">>
    <2>1. /\ Head(t) = "spin" /\ Tail(t) = <<"block", "async">>
          /\ t \in Seq(Lists)
      BY <1>3 DEF Lists
    <2>2. \A h : Contains(t, h) => h = Head(t) \/ Contains(Tail(t), h)
      BY <2>1, InTail
    <2> QED
      BY <2>1, <2>2 DEF Rests, Lists
  <1> QED
    BY <1>1, <1>2, <1>3 DEF Rests

LEMMA RestHas == \A l \in Lists : Contains(<<"spin", "block", "async">>, l)
  BY DEF Contains, Lists

r == receiver

TodoRests == \A p \in Procs : todo[p] \in Rests

\* The receiver that may leave entries behind only parks without a deadline.
Neat == LeavesEntries(r) => how[r] # "async" /\ ~(how[r] = "block" /\ timed[r])

\* Only the receiver waits.
OnlyReceiver == \A l \in Lists : waiting[l] \in Seq({r} \X Nat)

\* No entry of an earlier wait is in the list that a notifier looks at first,
SpinAlone ==
    \A x : Contains(waiting["spin"], x) =>
               InWait(r) /\ how[r] = "spin" /\ x = Handle(r)

\* and in that of the async waits it comes before that of the present one.
Newest == /\ InWait(r) /\ how[r] # "block" /\ Listed(r)
          => Last(waiting[how[r]]) = Handle(r)

\* Beside a message the receiver is in its list only as long as a sender has
\* yet to look there.
Heeded ==
    /\ pc[r] \in WaitPoints /\ queue # <<>> /\ Listed(r)
    /\ \/ Tidy(r)
       \/ ~token[r] /\ \A q \in Procs : ~Contains(waking[q], Handle(r))
    => \E s \in Senders : Contains(todo[s], how[r])

SleepInv == TodoRests /\ Neat /\ OnlyReceiver /\ SpinAlone /\ Newest /\ Heeded

\* A step outside the Condvar leaves a waiting receiver as it is, or notifies.
LEMMA SleepOuter ==
    ASSUME NoStrays, ChannelInv, SleepInv, NEW p \in Procs, Outer(p)
    PROVE  SleepInv'
  <1> USE SendersAssumption
  <1>0. Typed /\ Roles /\ r \in Procs /\ r \notin Senders /\ how[r] \in Lists
    BY DEF ChannelInv, CondvarInv, Typed, r
  <1>1. Frame(p)
    BY <1>0, FrameStep
  <1>2. TodoRests'
    BY <1>0, <1>1 DEF SleepInv, TodoRests, Rests, Frame, Typed
  <1>3. Neat'
    <2>1. LeavesEntries(r)' <=> LeavesEntries(r)
      BY DEF LeavesEntries, WaitSync, r
    <2>2. CASE how' = how /\ timed' = timed
      BY <2>1, <2>2 DEF SleepInv, Neat
    <2>3. ASSUME p = r, NEW w \in Waits[r], Choose(r, w)
          PROVE  Neat'
      <3>1. how'[r] = WaitSync(r, w[1]) /\ timed'[r] = w[2]
        BY <1>0, <2>3 DEF Choose, Typed
      <3> QED
        BY <2>1, <3>1 DEF NoStrays, Neat, r
    <2> QED
      BY <1>0, <2>2, <2>3, OuterTypes DEF r
  <1>4. ~InWait(p) /\ ~InWait(p)'
    BY <1>1 DEF Frame, InWait, WaitPoints
  <1>5. OnlyReceiver'
    BY <1>1 DEF SleepInv, OnlyReceiver, Frame
  <1>6. p # r => /\ pc'[r] = pc[r] /\ Handle(r)' = Handle(r)
                 /\ how'[r] = how[r] /\ (InWait(r)' <=> InWait(r))
                 /\ (Listed(r)' <=> Listed(r)) /\ (Tidy(r)' <=> Tidy(r))
    BY <1>0, <1>1
    DEF Frame, Handle, HandleOf, InWait, Listed, Tidy, LeavesEntries, WaitSync
  <1>7. SpinAlone' /\ Newest'
    BY <1>0, <1>1, <1>4, <1>6 DEF SleepInv, SpinAlone, Newest, Frame
  <1>8. Heeded'
    <2>1. CASE p = r
      BY <1>4, <2>1 DEF Heeded, InWait
    <2>2. CASE p # r
      <3>1. p \in Senders /\ SenderStep(p)
        BY <2>2 DEF Outer, r
      <3>2. pc'[p] = "take" => Contains(todo'[p], how[r])
        <4>1. pc'[p] = "take" => todo'[p] = <<"spin", "block", "async">>
          BY <1>0, <1>1 DEF Frame, Typed
        <4> QED
          BY <1>0, <4>1, RestHas
      <3>3. queue' = queue \/ pc'[p] = "take"
        BY <1>0, <3>1
        DEF SenderStep, CallSend, FirstCheck, SecondCheck, Push, CancelSend,
            DropSender, Notify, Goto, channelVars, sharedVars, Typed
      <3>4. \A s \in Senders : Contains(todo[s], how[r])
                => Contains(todo'[s], how[r]) \/ pc'[p] = "take"
        BY <1>0, <1>1 DEF Frame, Typed
      <3> QED
        BY <1>1, <1>6, <2>2, <3>1, <3>2, <3>3, <3>4
        DEF SleepInv, Heeded, Frame
    <2> QED
      BY <2>1, <2>2
  <1> QED
    BY <1>2, <1>3, <1>5, <1>7, <1>8 DEF SleepInv

\* What a step of a sender in the Condvar does to a waiting receiver: it takes
\* from a list, or wakes.
LEMMA SleepSender ==
    ASSUME ChannelInv, SleepInv, CondvarInv', NEW p \in Senders, InCondvar(p)
    PROVE  SleepInv'
  <1> USE SendersAssumption
  <1>0. /\ Typed /\ StagesMatch /\ Roles /\ Guarded /\ KindsMatch /\ SoleAt(r)
        /\ r \in Procs /\ p \in Procs /\ p # r /\ how[r] \in Lists /\ Step(p)
    BY CondvarSteps DEF ChannelInv, CondvarInv, Typed, Sole, r
  <1>1. /\ pc'[r] = pc[r] /\ how' = how /\ timed' = timed /\ gen'[r] = gen[r]
        /\ queue' = queue
    BY <1>0, CondvarMoves, OthersStay
    DEF InCondvar, channelVars, sharedVars, r
  <1>2. /\ Handle(r)' = Handle(r) /\ (InWait(r)' <=> InWait(r))
        /\ (Tidy(r)' <=> Tidy(r)) /\ (LeavesEntries(r)' <=> LeavesEntries(r))
    BY <1>1 DEF Handle, HandleOf, InWait, Tidy, LeavesEntries, WaitSync, r
  <1>3. Take(p) \/ Wake(p) \/ Woken(p) \/ Acquire(p)
    <2>1. pc[p] \in SenderPoints
      BY <1>0 DEF Roles
    <2> QED
      BY <1>0, <2>1
      DEF InCondvar, WaitStep, NotifyStep, Enlist, Unlock, Signalled,
          NotSignalled, Clock, Unparked, Recheck, Withdraw, SenderPoints, r
  <1>4. ~Enlist(p)
    BY <1>3 DEF Take, Wake, Woken, Acquire, Enlist
  <1>5. \A l \in Lists : \A x :
            /\ Contains(waiting'[l], x) => Contains(waiting[l], x)
            /\ Once(waiting[l], x) => Once(waiting'[l], x)
    BY <1>0, <1>4, ListShrinks DEF Typed
  <1>6. OnlyReceiver'
    BY <1>0, <1>4, ListShrinks DEF SleepInv, OnlyReceiver
  <1>7. Neat' /\ SpinAlone'
    <2>1. "spin" \in Lists
      BY DEF Lists
    <2> QED
      BY <1>1, <1>2, <1>5, <2>1 DEF SleepInv, Neat, SpinAlone
  <1>8. Listed(r)' => Listed(r)
    BY <1>0, <1>1, <1>2, <1>5 DEF Listed
  <1>9. CASE ~Take(p)
    <2>1. waiting' = waiting /\ todo' = todo
      BY <1>3, <1>9 DEF Wake, Woken, Acquire, notifyVars
    <2>2. TodoRests' /\ Newest'
      BY <1>1, <1>2, <2>1 DEF SleepInv, TodoRests, Newest, Listed
    <2>3. /\ ~Tidy(r) /\ ~token'[r]
          /\ \A q \in Procs : ~Contains(waking'[q], Handle(r))
          => /\ ~token[r]
             /\ \A q \in Procs : ~Contains(waking[q], Handle(r))
      <3> SUFFICES ASSUME ~Tidy(r), ~token'[r],
                          \A q \in Procs : ~Contains(waking'[q], Handle(r))
                   PROVE  /\ ~token[r]
                          /\ \A q \in Procs : ~Contains(waking[q], Handle(r))
        OBVIOUS
      <3>1. ~token[r]
        BY <1>0, SignalStep
      <3>2. ASSUME Wake(p), Contains(waking[p], Handle(r)) PROVE FALSE
        <4>1. waking[p] # <<>> /\ waking'[p] = Tail(waking[p])
          BY <1>0, <3>2 DEF Wake, Typed
        <4>2. Handle(r) = Head(waking[p])
          <5>1. waking[p] \in Seq(Handles)
            BY <1>0 DEF Typed
          <5>2. ~Contains(Tail(waking[p]), Handle(r))
            BY <1>0, <4>1
          <5> QED
            BY <3>2, <4>1, <5>1, <5>2, InTail
        <4>3. Handle(r)[1] = r /\ Handle(r)[2] = 0
          BY DEF Tidy, Handle, HandleOf
        <4>4. token' = [token EXCEPT ![Head(waking[p])[1]] = TRUE]
          BY <3>2, <4>2, <4>3 DEF Wake
        <4>5. token'[r]
          BY <1>0, <4>2, <4>3, <4>4 DEF Typed
        <4> QED
          BY <4>5
      <3>3. ~Wake(p) => waking' = waking
        BY <1>0, <1>9, WakingStep
      <3>4. Wake(p) => \A q \in Procs \ {p} : waking'[q] = waking[q]
        BY <1>0 DEF Wake, Typed
      <3> QED
        BY <3>1, <3>2, <3>3, <3>4
    <2>4. Heeded'
      BY <1>1, <1>2, <1>8, <2>1, <2>3 DEF SleepInv, Heeded
    <2> QED
      BY <1>6, <1>7, <2>2, <2>4 DEF SleepInv
  <1>10. CASE Take(p)
    <2> DEFINE l == Head(todo[p])
    <2>1. /\ todo[p] \in Rests /\ todo[p] # <<>>
      BY <1>0, <1>10 DEF SleepInv, TodoRests, StagesMatch, Take
    <2>2. l \in Lists /\ Tail(todo[p]) \in Rests
      BY <2>1, RestOf
    <2>3. waiting[l] \in Seq(Handles) /\ waiting[l] \in Seq(HandlesOf(l))
          /\ waiting[l] \in Seq({r} \X Nat)
      BY <1>0, <2>2 DEF Typed, KindsMatch, SleepInv, OnlyReceiver
    <2>4. \A k \in Lists : k # l => waiting'[k] = waiting[k]
      BY <1>0, <1>10, <2>2 DEF Take, Typed
    <2>5. IF one[p] /\ waiting[l] # <<>>
          THEN /\ waking'[p] = <<Last(waiting[l])>>
               /\ waiting'[l] = Front(waiting[l])
               /\ todo' = [todo EXCEPT ![p] = <<>>]
          ELSE /\ waking'[p] = waiting[l] /\ waiting'[l] = <<>>
               /\ todo' = [todo EXCEPT ![p] = Tail(@)]
      BY <1>0, <1>10, <2>2 DEF Take, Typed
    <2>6. TodoRests'
      BY <1>0, <2>1, <2>2, <2>5 DEF SleepInv, TodoRests, Typed, Rests
    <2> HIDE DEF l
    <2>7. ASSUME InWait(r), Listed(r), l = how[r]
          PROVE  /\ Tidy(r) => ~Listed(r)'
                 /\ Contains(waking'[p], Handle(r))
      <3>0. waiting[l] # <<>> /\ Contains(waiting[l], Handle(r))
        BY <2>7, InEmpty DEF Listed
      <3>1. CASE one[p]
        <4>1. Last(waiting[l]) = Handle(r)
          <5>1. CASE how[r] # "block"
            BY <2>7, <5>1 DEF SleepInv, Newest
          <5>2. CASE how[r] = "block"
            <6>1. Last(waiting[l]) \in HandlesOf(l)
              BY <2>3, <3>0, InFront
            <6>2. Last(waiting[l]) \in {r} \X Nat
              BY <2>3, <3>0, InFront
            <6> QED
              BY <2>7, <5>2, <6>1, <6>2 DEF HandlesOf, Handle, HandleOf
          <5> QED
            BY <5>1, <5>2
        <4>2. Tidy(r) => ~Contains(Front(waiting[l]), Handle(r))
          BY <1>0, <2>3, <2>7, <3>0, <4>1, OnceFront DEF SoleAt
        <4>3. Contains(<<Handle(r)>>, Handle(r))
          BY DEF Contains
        <4> QED
          BY <1>1, <1>2, <2>5, <2>7, <3>0, <3>1, <4>1, <4>2, <4>3 DEF Listed
      <3>2. CASE ~one[p]
        BY <1>1, <1>2, <2>5, <2>7, <3>0, <3>2, InEmpty DEF Listed
      <3> QED
        BY <3>1, <3>2
    <2>8. Newest'
      <3> SUFFICES ASSUME InWait(r), how[r] # "block", Listed(r)'
                   PROVE  Last(waiting'[how[r]]) = Handle(r)
        BY <1>1, <1>2 DEF Newest
      <3>1. l # how[r]
        BY <1>8, <2>7 DEF Tidy
      <3> QED
        BY <1>0, <1>8, <2>4, <3>1 DEF SleepInv, Newest
    <2>9. Heeded'
      <3> SUFFICES ASSUME pc[r] \in WaitPoints, queue # <<>>, Listed(r)',
                          \/ Tidy(r)
                          \/ /\ ~token'[r]
                             /\ \A q \in Procs :
                                    ~Contains(waking'[q], Handle(r))
                   PROVE  \E s \in Senders : Contains(todo'[s], how[r])
        BY <1>1, <1>2 DEF Heeded
      <3>1. InWait(r) /\ Listed(r)
        BY <1>8 DEF InWait
      <3>2. l # how[r]
        BY <1>0, <2>7, <3>1
      <3>3. ~Tidy(r) => /\ ~token[r]
                        /\ \A q \in Procs : ~Contains(waking[q], Handle(r))
        <4>1. /\ waking[p] = <<>>
              /\ \A q \in Procs : q # p => waking'[q] = waking[q]
          BY <1>0, <1>10, WakingStep
        <4> QED
          BY <1>0, <4>1, InEmpty, SignalStep
      <3>4. PICK s \in Senders : Contains(todo[s], how[r])
        BY <3>1, <3>3 DEF SleepInv, Heeded
      <3>5. CASE s # p
        BY <1>0, <2>5, <3>4, <3>5 DEF Typed
      <3>6. CASE s = p
        <4>1. /\ Contains(Tail(todo[p]), how[r])
              /\ l = "spin" \/ (l = "block" /\ how[r] = "async")
          BY <2>1, <3>2, <3>4, <3>6, RestOf DEF l
        <4>2. waiting[l] = <<>>
          <5>1. ASSUME waiting[l] # <<>> PROVE FALSE
            <6> DEFINE x == waiting[l][1]
            <6>1. /\ Contains(waiting[l], x) /\ x \in HandlesOf(l)
                  /\ x \in {r} \X Nat
              BY <2>3, <5>1 DEF Contains
            <6> HIDE DEF x
            <6>2. l # "spin"
              BY <3>2, <6>1 DEF SleepInv, SpinAlone
            <6>3. ~LeavesEntries(r) /\ x = <<r, 0>>
              BY <4>1, <6>1, <6>2 DEF SleepInv, Neat, HandlesOf
            <6> QED
              BY <1>0, <4>1, <6>1, <6>2, <6>3 DEF SoleAt
          <5> QED
            BY <5>1
        <4>3. todo'[p] = Tail(todo[p])
          BY <1>0, <2>5, <4>2 DEF Typed
        <4> QED
          BY <4>1, <4>3
      <3> QED
        BY <3>5, <3>6
    <2> QED
      BY <1>6, <1>7, <2>6, <2>8, <2>9 DEF SleepInv
  <1> QED
    BY <1>9, <1>10

\* A step of the receiver in the Condvar that goes on waiting.
LEMMA GoOnWaiting ==
    ASSUME ChannelInv, SleepInv, CondvarInv', InCondvar(r), ~Enlist(r),
           InWait(r), InWait(r)'
    PROVE  Heeded' /\ Newest'
  <1> USE SendersAssumption
  <1>0. /\ Typed /\ StagesMatch /\ Roles /\ Guarded /\ QueueSeen
        /\ r \in Procs /\ r = receiver /\ how[r] \in Lists /\ Step(r)
    BY CondvarSteps DEF ChannelInv, CondvarInv, Typed, r
  <1>1. how' = how /\ timed' = timed
    BY <1>0, CondvarMoves
  <1>2. pc[r] \in WaitPoints \/ pc[r] = "unlock"
    BY DEF InWait
  <1>3. \/ Unlock(r) \/ Signalled(r) \/ NotSignalled(r) \/ Clock(r)
        \/ Unparked(r) \/ Recheck(r) \/ Withdraw(r) \/ ParkSpuriously(r)
        \/ DeadlinePasses(r) \/ Cancel(r)
    BY <1>0, <1>2
    DEF InCondvar, WaitStep, NotifyStep, Take, Wake, Woken, Acquire,
        CancelRecv, WaitPoints
  <1>4. ~Signalled(r) /\ ~Cancel(r)
    BY <1>0 DEF Signalled, Resume, Cancel, Goto, InWait, WaitPoints, Typed
  <1>5. /\ UNCHANGED <<gen, todo, waking, queue>>
        /\ token' = token \/ (Unparked(r) /\ how[r] = "block" /\ timed[r])
    <2>1. queue' = queue
      BY <1>4 DEF InCondvar, CancelRecv, channelVars, sharedVars
    <2>2. UNCHANGED <<gen, todo, waking>>
      BY <1>3, <1>4
      DEF Unlock, NotSignalled, Clock, Unparked, Recheck, Withdraw,
          ParkSpuriously, DeadlinePasses, wakeVars, notifyVars
    <2>3. Unparked(r) \/ token' = token
      BY <1>3, <1>4
      DEF Unlock, NotSignalled, Clock, Recheck, Withdraw, ParkSpuriously,
          DeadlinePasses, wakeVars
    <2>4. Unparked(r) => how[r] = "block" /\ timed[r]
      BY <1>0 DEF Unparked, Resume, Goto, InWait, WaitPoints, Typed
    <2> QED
      BY <2>1, <2>2, <2>3, <2>4
  <1>6. /\ Handle(r)' = Handle(r)
        /\ (Tidy(r)' <=> Tidy(r)) /\ (LeavesEntries(r)' <=> LeavesEntries(r))
    BY <1>1, <1>5 DEF Handle, HandleOf, Tidy, LeavesEntries, WaitSync
  <1>7. waiting' = waiting \/ (~Listed(r) /\ ~Listed(r)')
    <2>1. CASE Withdraw(r)
      <3>1. ~Listed(r)
        BY <1>0, <2>1 DEF Withdraw, Resume, Goto, InWait, WaitPoints, Typed
      <3>2. Contains(waiting'[how[r]], Handle(r))
                => Contains(waiting[how[r]], Handle(r))
        BY <1>0, ListShrinks DEF Typed
      <3> QED
        BY <1>1, <1>6, <3>1, <3>2 DEF Listed
    <2>2. CASE ~Withdraw(r)
      BY <1>3, <1>4, <2>2
      DEF Unlock, NotSignalled, Clock, Unparked, Recheck, ParkSpuriously,
          DeadlinePasses
    <2> QED
      BY <2>1, <2>2
  <1>8. Newest'
    BY <1>1, <1>6, <1>7 DEF SleepInv, Newest, Listed
  <1>9. Heeded'
    <2>1. CASE pc[r] = "unlock"
      BY <1>0, <1>5, <2>1 DEF QueueSeen, Heeded
    <2>2. CASE pc[r] \in WaitPoints
      <3> SUFFICES ASSUME queue # <<>>, Listed(r)',
                          \/ Tidy(r)
                          \/ /\ ~token'[r]
                             /\ \A q \in Procs :
                                    ~Contains(waking[q], Handle(r))
                   PROVE  \E s \in Senders : Contains(todo[s], how[r])
        BY <1>1, <1>5, <1>6 DEF Heeded
      <3>1. Listed(r)
        BY <1>1, <1>6, <1>7 DEF Listed
      <3>2. Tidy(r) \/ token' = token
        BY <1>5 DEF SleepInv, Neat, Tidy
      <3> QED
        BY <2>2, <3>1, <3>2 DEF SleepInv, Heeded
    <2> QED
      BY <1>2, <2>1, <2>2
  <1> QED
    BY <1>8, <1>9

\* A wait of the receiver that ends leaves nothing in the list of those that
\* spin.
LEMMA WaitIsOver ==
    ASSUME ChannelInv, SleepInv, InCondvar(r), ~Enlist(r), InWait(r),
           ~InWait(r)'
    PROVE  \A x : ~Contains(waiting'["spin"], x)
  <1> USE SendersAssumption
  <1>0. /\ Typed /\ StagesMatch /\ NotedAt(r) /\ SoleAt(r)
        /\ r \in Procs /\ r = receiver /\ "spin" \in Lists /\ Step(r)
    BY CondvarSteps DEF ChannelInv, CondvarInv, Noted, Sole, Lists, r
  <1>1. \A x : Contains(waiting'["spin"], x) => Contains(waiting["spin"], x)
    BY <1>0, ListShrinks DEF Typed
  <1>2. SUFFICES ASSUME how[r] = "spin"
                 PROVE  ~Contains(waiting'["spin"], Handle(r))
    BY <1>1 DEF SleepInv, SpinAlone
  <1>3. Signalled(r) \/ Recheck(r) \/ Withdraw(r)
    <2>1. pc[r] \in WaitPoints \/ pc[r] = "unlock"
      BY DEF InWait
    <2>2. ~NotSignalled(r) /\ ~Clock(r) /\ ~DeadlinePasses(r) /\ ~Unlock(r)
      BY <1>0, <2>1
      DEF NotSignalled, Clock, DeadlinePasses, Unlock, Goto, InWait,
          WaitPoints, Typed
    <2> QED
      BY <1>0, <1>2, <2>1, <2>2
      DEF InCondvar, WaitStep, NotifyStep, Take, Wake, Woken, Acquire,
          CancelRecv, Cancel, Unparked, ParkSpuriously, WaitPoints
  <1>4. Tidy(r) /\ Once(waiting["spin"], Handle(r))
    BY <1>0, <1>2 DEF SoleAt, Tidy
  <1>5. CASE Signalled(r)
    <2>1. notified[r]
      BY <1>0, <1>2, <1>5 DEF Signalled, NotedAt, WaitPoints
    <2> QED
      BY <1>0, <1>1, <1>2, <1>4, <2>1 DEF SoleAt, Listed
  <1>6. CASE Recheck(r)
    <2>1. ~Listed(r)
      BY <1>0, <1>6 DEF Recheck, Goto, InWait, WaitPoints, Typed
    <2> QED
      BY <1>1, <1>2, <2>1 DEF Listed
  <1>7. CASE Withdraw(r)
    <2>1. waiting'["spin"] = RemoveFirst(waiting["spin"], Handle(r))
      BY <1>0, <1>2, <1>7 DEF Withdraw, Typed
    <2>2. waiting["spin"] \in Seq(Handles)
      BY <1>0 DEF Typed
    <2> QED
      BY <1>4, <2>1, <2>2, OnceRemoveFirst
  <1> QED
    BY <1>3, <1>5, <1>6, <1>7

\* What a step of the receiver in the Condvar does to itself.
LEMMA SleepReceiver ==
    ASSUME ChannelInv, SleepInv, CondvarInv', InCondvar(r)
    PROVE  SleepInv'
  <1> USE SendersAssumption
  <1>0. /\ Typed /\ StagesMatch /\ Roles /\ Guarded
        /\ r \in Procs /\ r = receiver /\ how[r] \in Lists /\ Step(r)
        /\ "spin" \in Lists
    BY CondvarSteps DEF ChannelInv, CondvarInv, Typed, Lists, r
  <1>1. how' = how /\ timed' = timed
    BY <1>0, CondvarMoves
  <1>2. Neat'
    BY <1>1 DEF SleepInv, Neat, LeavesEntries, WaitSync
  <1>3. TodoRests'
    <2>1. CASE Take(r)
      <3>1. todo[r] \in Rests /\ todo[r] # <<>>
        BY <1>0, <2>1 DEF SleepInv, TodoRests, StagesMatch, Take
      <3>2. Tail(todo[r]) \in Rests /\ <<>> \in Rests
        BY <3>1, RestOf DEF Rests
      <3>3. \/ todo' = [todo EXCEPT ![r] = <<>>]
            \/ todo' = [todo EXCEPT ![r] = Tail(@)]
        BY <2>1 DEF Take
      <3> QED
        BY <1>0, <3>2, <3>3 DEF SleepInv, TodoRests, Typed
    <2>2. CASE ~Take(r)
      <3>1. todo' = todo
        BY <2>2
        DEF InCondvar, WaitStep, NotifyStep, Wake, Woken, Acquire, Enlist,
            Unlock, Signalled, NotSignalled, Clock, Unparked, Recheck,
            Withdraw, ParkSpuriously, DeadlinePasses, CancelRecv, Cancel,
            notifyVars
      <3> QED
        BY <3>1 DEF SleepInv, TodoRests
    <2> QED
      BY <2>1, <2>2
  <1>4. CASE Enlist(r)
    <2> DEFINE h == Handle(r)'
    <2>1. /\ h = HandleOf(r, gen[r] + 1) /\ h \in Handles
          /\ waiting' = [waiting EXCEPT ![how[r]] = Append(@, h)]
      BY <1>0, <1>4, EnlistStep
    <2>2. h \in {r} \X Nat
      BY <1>0, <2>1 DEF HandleOf, Typed
    <2>3. pc[r] = "enlist" /\ pc'[r] = "unlock"
      BY <1>0, <1>4 DEF Enlist, Goto, Typed
    <2>4. waiting'[how[r]] = Append(waiting[how[r]], h)
      BY <1>0, <2>1 DEF Typed
    <2>5. \A l \in Lists : l # how[r] => waiting'[l] = waiting[l]
      BY <1>0, <2>1 DEF Typed
    <2>6. waiting[how[r]] \in Seq({r} \X Nat)
      BY <1>0 DEF SleepInv, OnlyReceiver
    <2> HIDE DEF h
    <2>7. Append(waiting[how[r]], h) \in Seq({r} \X Nat)
      BY <2>2, <2>6, InAppend
    <2>8. OnlyReceiver'
      <3> SUFFICES ASSUME NEW l \in Lists
                   PROVE  waiting'[l] \in Seq({r} \X Nat)
        BY DEF OnlyReceiver, r
      <3> QED
        BY <2>4, <2>5, <2>7 DEF SleepInv, OnlyReceiver
    <2>9. SpinAlone'
      <3> SUFFICES ASSUME NEW x, Contains(waiting'["spin"], x)
                   PROVE  how[r] = "spin" /\ x = h
        BY <1>1, <2>3 DEF SpinAlone, InWait, h, r
      <3>1. ~Contains(waiting["spin"], x)
        BY <2>3 DEF SleepInv, SpinAlone, InWait, WaitPoints
      <3>2. how[r] = "spin"
        BY <1>0, <2>5, <3>1
      <3> QED
        BY <2>2, <2>4, <2>6, <3>1, <3>2, OnceAppend
    <2>10. Newest'
      <3>1. Last(Append(waiting[how[r]], h)) = h
        BY <2>2, <2>6, LastOfAppend
      <3> QED
        BY <1>1, <2>4, <3>1 DEF Newest, h, r
    <2>11. Heeded'
      BY <2>3 DEF Heeded, WaitPoints, r
    <2> QED
      BY <1>2, <1>3, <2>8, <2>9, <2>10, <2>11 DEF SleepInv
  <1>5. CASE ~Enlist(r)
    <2>1. OnlyReceiver'
      <3> SUFFICES ASSUME NEW l \in Lists
                   PROVE  waiting'[l] \in Seq({r} \X Nat)
        BY DEF OnlyReceiver, r
      <3> QED
        BY <1>0, <1>5, ListShrinks DEF SleepInv, OnlyReceiver
    <2>2. \A x : Contains(waiting'["spin"], x) => Contains(waiting["spin"], x)
      BY <1>0, <1>5, ListShrinks DEF Typed
    <2>3. CASE ~InWait(r)
      <3>1. InWait(r)' => pc[r] = "enlist"
        BY <1>0, <2>3, CondvarMoves DEF InWait
      <3>2. pc[r] # "enlist"
        BY <1>0, <1>5
        DEF InCondvar, WaitStep, NotifyStep, Take, Wake, Woken, Acquire,
            Unlock, Signalled, NotSignalled, Clock, Unparked, Recheck,
            Withdraw, ParkSpuriously, DeadlinePasses, Waiting, CancelRecv,
            Cancel, WaitPoints
      <3> QED
        BY <1>2, <1>3, <2>1, <2>2, <2>3, <3>1, <3>2
        DEF SleepInv, SpinAlone, Newest, Heeded, InWait
    <2>4. CASE InWait(r) /\ ~InWait(r)'
      BY <1>2, <1>3, <1>5, <2>1, <2>4, WaitIsOver
      DEF SleepInv, SpinAlone, Newest, Heeded, InWait
    <2>5. CASE InWait(r) /\ InWait(r)'
      <3>1. Handle(r)' = Handle(r)
        <4>1. gen' = gen
          BY <1>5
          DEF InCondvar, WaitStep, NotifyStep, Take, Wake, Woken, Acquire,
              Unlock, Signalled, NotSignalled, Clock, Unparked, Recheck,
              Withdraw, ParkSpuriously, DeadlinePasses, CancelRecv, Cancel
        <4> QED
          BY <1>1, <4>1 DEF Handle, HandleOf
      <3>2. SpinAlone'
        BY <1>1, <2>2, <2>5, <3>1 DEF SleepInv, SpinAlone
      <3> QED
        BY <1>2, <1>3, <1>5, <2>1, <2>5, <3>2, GoOnWaiting DEF SleepInv
    <2> QED
      BY <2>3, <2>4, <2>5
  <1> QED
    BY <1>4, <1>5

LEMMA SleepStays ==
    ASSUME SleepInv, UNCHANGED vars, queue' = queue
    PROVE  SleepInv'
  BY DEF vars, methodVars, wakeVars, notifyVars, SleepInv, TodoRests, Neat,
         OnlyReceiver, SpinAlone, Newest, Heeded, InWait, Listed, Tidy,
         LeavesEntries, WaitSync, Handle, HandleOf, Contains, r

LEMMA SleepInit == NoStrays /\ InitChannel => SleepInv
  <1> SUFFICES ASSUME NoStrays, InitChannel PROVE SleepInv
    OBVIOUS
  <1>1. Init /\ queue = <<>> /\ r \in Procs
    BY SendersAssumption DEF InitChannel, r
  <1>2. \A l \in Lists : waiting[l] = <<>>
    BY <1>1 DEF Init
  <1>3. ~InWait(r) /\ how[r] = "spin"
    BY <1>1 DEF Init, InWait, WaitPoints
  <1>4. "spin" \in Lists /\ \A x : ~Contains(<<>>, x)
    BY InEmpty DEF Lists
  <1>5. OnlyReceiver
    <2>1. <<>> \in Seq({r} \X Nat)
      OBVIOUS
    <2> QED
      BY <1>2, <2>1 DEF OnlyReceiver
  <1>6. TodoRests
    BY <1>1 DEF Init, TodoRests, Rests
  <1> QED
    BY <1>1, <1>2, <1>3, <1>4, <1>5, <1>6
    DEF SleepInv, Neat, SpinAlone, Newest, Heeded

LEMMA SleepStep ==
    NoStrays /\ ChannelInv /\ SleepInv /\ [ChannelNext]_allVars => SleepInv'
  <1> USE SendersAssumption
  <1>1. ASSUME NoStrays, ChannelInv, SleepInv, ChannelNext PROVE SleepInv'
    <2>1. ChannelInv' /\ Typed /\ Roles
      BY <1>1, ChannelStep DEF ChannelInv, CondvarInv
    <2>2. CondvarInv'
      BY <2>1 DEF ChannelInv
    <2>3. ASSUME NEW p \in Procs, InCondvar(p) PROVE SleepInv'
      BY <1>1, <2>2, <2>3, SleepSender, SleepReceiver DEF r
    <2>4. ASSUME NEW p \in Procs, Outer(p) PROVE SleepInv'
      BY <1>1, <2>4, SleepOuter
    <2>5. ASSUME NEW s \in Senders, Pass(s) PROVE SleepInv'
      <3>1. UNCHANGED vars /\ queue' = queue
        BY <2>5 DEF Pass, GiveBack, Clone, Lend, sharedVars
      <3> QED
        BY <1>1, <3>1, SleepStays
    <2> QED
      BY <1>1, <2>1, <2>3, <2>4, <2>5, StepCases DEF Outer
  <1>2. SleepInv /\ UNCHANGED allVars => SleepInv'
    BY SleepStays DEF allVars, channelVars, sharedVars
  <1> QED
    BY <1>1, <1>2

\* The receiver does not sleep beside a message that no sender is about to
\* wake it for, if its waits leave no entry that a later one trips over.
THEOREM NoMessageIsMissed ==
    ASSUME NoStrays PROVE ChannelSpec => []NoMissedMessage
  <1> USE SendersAssumption
  <1>1. ChannelInv /\ SleepInv => NoMissedMessage
    <2> SUFFICES ASSUME ChannelInv, SleepInv, Asleep, queue # <<>>
                 PROVE  \E s \in Senders : pc[s] \in NotifyPoints
      BY DEF NoMissedMessage
    <2>1. /\ Typed /\ Roles /\ NoneForgotten /\ NotedAt(r) /\ SoleAt(r)
          /\ r \in Procs /\ r = receiver
      BY DEF ChannelInv, CondvarInv, Noted, Sole, r
    <2>2. /\ pc[r] = "pause"
          /\ IF how[r] = "block" THEN ~token[r] ELSE ~signal[r]
      BY DEF Asleep, r
    <2>3. Remembered(r)
      BY <2>1, <2>2 DEF NoneForgotten, Unheard
    <2>4. ASSUME NEW q \in Procs, Contains(waking[q], Handle(r))
          PROVE  \E s \in Senders : pc[s] \in NotifyPoints
      <3>1. waking[q] # <<>>
        BY <2>4, InEmpty
      <3>2. pc[q] = "wake"
        BY <2>1, <3>1 DEF Typed
      <3> QED
        BY <2>1, <2>2, <3>2 DEF NotifyPoints
    <2>5. ASSUME \A q \in Procs : ~Contains(waking[q], Handle(r))
          PROVE  \E s \in Senders : pc[s] \in NotifyPoints
      <3>1. Listed(r)
        BY <2>3, <2>5 DEF Remembered
      <3>2. PICK s \in Senders : Contains(todo[s], how[r])
        BY <2>2, <2>5, <3>1 DEF SleepInv, Heeded, Tidy, WaitPoints
      <3>3. todo[s] # <<>>
        BY <3>2, InEmpty
      <3> QED
        BY <2>1, <3>3 DEF Typed
    <2> QED
      BY <2>4, <2>5
  <1>2. ChannelSpec => [](ChannelInv /\ SleepInv)
    BY ChannelInit, ChannelStep, SleepInit, SleepStep, PTL DEF ChannelSpec
  <1> QED
    BY <1>1, <1>2, PTL
=============================================================================
