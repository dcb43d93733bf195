-------------------------------- MODULE Mpsc --------------------------------
(***************************************************************************)
(* The channel of src/mpsc.rs: a queue under a Mutex, a Condvar on which   *)
(* the receiver waits, the number of senders and whether there still is a  *)
(* receiver.  It is built on module Condvar, and through it on             *)
(* AbstractLock.  All send_* methods do the same but for how they wait for *)
(* the mutex, which AbstractLock leaves open; the recv_* methods differ    *)
(* also in how they wait on the Condvar, which is Waits[receiver].         *)
(***************************************************************************)
EXTENDS Condvar

CONSTANTS Senders,     \* threads and tasks that may come to use a Sender
          first,       \* the one that is given the Sender channel() returns
          receiver     \* the thread or task that owns the Receiver

ASSUME SendersAssumption ==
    /\ first \in Senders
    /\ receiver \notin Senders /\ Procs = Senders \cup {receiver}
    /\ {"new", "owns", "dropped"} \cap Senders = {}

VARIABLES
    queue,             \* the VecDeque under Shared::queue
    sender_count,
    receiver_active,
    owner,             \* Senders: "new", "owns" a Sender, "dropped" it, or
                       \* whose Sender it uses by a shared reference
    op,                \* the receiver's call: "none", "try_recv", or "recv",
                       \* which is "waiting" from its first wait on
    result,            \* how its last call ended
    got,               \* history: the messages received
    told               \* history: Disconnected was returned

sharedVars  == <<queue, sender_count, receiver_active>>
historyVars == <<got, told>>
channelVars == <<sharedVars, owner, op, result, historyVars>>
allVars == <<vars, channelVars>>

\* What no step of the channel's own code changes but through Condvar.
condvarVars == <<waiting, gen, wakeVars, notified>>

\* A message is known by its sender and its number.
Message(s) == <<s, calls[s]>>

\* channel()
InitChannel ==
    /\ Init
    /\ queue = <<>>
    /\ sender_count = 1
    /\ receiver_active = TRUE
    /\ owner = [s \in Senders |-> IF s = first THEN "owns" ELSE "new"]
    /\ op = "none"
    /\ result = "ok"
    /\ got = <<>>
    /\ told = FALSE

\* A call ends, and its guard, if there is one, is dropped.
Finish(p) == /\ status' = [status EXCEPT ![p] = "out"]
             /\ Goto(p, "idle")

Borrows(s) == owner[s] \in Senders
MayUse(s)  == owner[s] = "owns" \/ Borrows(s)

\* The receiver's call ends with result r.
Return(r) == Finish(receiver) /\ op' = "none" /\ result' = r

-----------------------------------------------------------------------------
\* Sender.

CallSend(s) ==
    /\ pc[s] = "idle" /\ MayUse(s) /\ Count(s)
    /\ Goto(s, "is_active")
    /\ UNCHANGED <<status, condvarVars, methodVars, expired, timed_out,
                   notifyVars, channelVars>>

\* The first look at receiver_active, without the lock.
FirstCheck(s) ==
    /\ pc[s] = "is_active"
    /\ IF receiver_active THEN Lock!Request(s) /\ Goto(s, "lock")
                          ELSE Finish(s)
    /\ UNCHANGED <<condvarVars, methodVars, expired, timed_out, notifyVars,
                   boundVars, channelVars>>

\* The receiver is looked at only once.
MutantSecondCheck(s) ==
    /\ s \in Senders /\ pc[s] = "held"
    /\ Goto(s, "push")
    /\ UNCHANGED <<status, condvarVars, methodVars, expired, timed_out,
                   notifyVars, boundVars, channelVars>>

\* The second, with it.
SecondCheck(s) ==
    /\ s \in Senders /\ pc[s] = "held"
    /\ IF receiver_active THEN Goto(s, "push") /\ UNCHANGED status
                          ELSE Finish(s)
    /\ UNCHANGED <<condvarVars, methodVars, expired, timed_out, notifyVars,
                   boundVars, channelVars>>

\* send_* forgets to notify.
MutantPush(s) ==
    /\ pc[s] = "push"
    /\ queue' = Append(queue, Message(s))
    /\ Finish(s)
    /\ UNCHANGED <<condvarVars, methodVars, expired, timed_out, notifyVars,
                   boundVars, sender_count, receiver_active, owner, op,
                   result, historyVars>>

\* The push, the drop of the guard, and the call of notify_one.
Push(s) ==
    /\ pc[s] = "push"
    /\ queue' = Append(queue, Message(s))
    /\ Lock!Leave(s)
    /\ Notify(s, TRUE)
    /\ UNCHANGED <<boundVars, sender_count, receiver_active, owner, op,
                   result, historyVars>>

\* The future of send_async is dropped while it awaits the mutex.
CancelSend(s) ==
    /\ pc[s] = "lock"
    /\ Finish(s)
    /\ UNCHANGED <<condvarVars, methodVars, expired, timed_out, notifyVars,
                   boundVars, channelVars>>

\* Clone, for another process to own.
Clone(s, t) ==
    /\ pc[s] = "idle" /\ MayUse(s) /\ owner[t] = "new"
    /\ sender_count' = sender_count + 1
    /\ owner' = [owner EXCEPT ![t] = "owns"]
    /\ UNCHANGED <<vars, queue, receiver_active, op, result, historyVars>>

\* Sender is Sync: t uses s's Sender beside s, until it returns it.
Lend(s, t) ==
    /\ pc[s] = "idle" /\ owner[s] = "owns" /\ owner[t] = "new"
    /\ owner' = [owner EXCEPT ![t] = s]
    /\ UNCHANGED <<vars, sharedVars, op, result, historyVars>>

GiveBack(t) ==
    /\ pc[t] = "idle" /\ Borrows(t)
    /\ owner' = [owner EXCEPT ![t] = "new"]
    /\ UNCHANGED <<vars, sharedVars, op, result, historyVars>>

\* The count is read, not decremented.
MutantDropSender(s) ==
    /\ pc[s] = "idle" /\ owner[s] = "owns"
    /\ \A t \in Senders : owner[t] # s
    /\ owner' = [owner EXCEPT ![s] = "dropped"]
    /\ IF sender_count = 1
       THEN Notify(s, FALSE)
       ELSE UNCHANGED <<condvarVars, pc, methodVars, expired, timed_out,
                        notifyVars>>
    /\ UNCHANGED <<status, boundVars, sharedVars, op, result, historyVars>>

\* Drop: the last Sender notifies the receiver, without the lock.
DropSender(s) ==
    /\ pc[s] = "idle" /\ owner[s] = "owns"
    /\ \A t \in Senders : owner[t] # s
    /\ sender_count' = sender_count - 1
    /\ owner' = [owner EXCEPT ![s] = "dropped"]
    /\ IF sender_count = 1
       THEN Notify(s, FALSE)
       ELSE UNCHANGED <<condvarVars, pc, methodVars, expired, timed_out,
                        notifyVars>>
    /\ UNCHANGED <<status, boundVars, queue, receiver_active, op, result,
                   historyVars>>

-----------------------------------------------------------------------------
\* Receiver.

CanCall(r) == r = receiver /\ pc[r] = "idle" /\ receiver_active

\* recv_*, recv_*_timeout, and next of the iterator, which is recv_sync.
CallRecv(r) ==
    /\ CanCall(r) /\ Count(r)
    /\ \E w \in Waits[r] : Choose(r, w)
    /\ timed_out' = [timed_out EXCEPT ![r] = FALSE]
    /\ op' = "recv"
    /\ Lock!Request(r)
    /\ Goto(r, "lock")
    /\ UNCHANGED <<condvarVars, notifyVars, sharedVars, owner, result,
                   historyVars>>

\* try_recv: try_lock fails while the mutex is held.
CallTryRecv(r) ==
    /\ CanCall(r) /\ Count(r)
    /\ timed_out' = [timed_out EXCEPT ![r] = FALSE]
    /\ IF \E p \in Procs : status[p] = "in"
       THEN Return("empty")
       ELSE /\ status' = [status EXCEPT ![r] = "in"]
            /\ op' = "try_recv"
            /\ Goto(r, "held")
            /\ UNCHANGED result
    /\ UNCHANGED <<condvarVars, methodVars, expired, notifyVars, sharedVars,
                   owner, historyVars>>

\* lock_*_timeout returns None.
LockTimesOut(r) ==
    /\ pc[r] = "lock" /\ op = "recv"
    /\ timed[r] /\ expired[r]
    /\ Return("timeout")
    /\ UNCHANGED <<condvarVars, methodVars, expired, timed_out, notifyVars,
                   boundVars, sharedVars, owner, historyVars>>

\* Once the senders are gone the queue is not looked at.
MutantPop(r) ==
    /\ r = receiver /\ pc[r] = "held"
    /\ IF timed_out[r]
       THEN Return("timeout") /\ UNCHANGED <<queue, got>>
       ELSE IF queue # <<>> /\ sender_count # 0
       THEN /\ Return("ok")
            /\ queue' = Tail(queue)
            /\ got' = Append(got, Head(queue))
       ELSE /\ Goto(r, "count")
            /\ UNCHANGED <<status, op, result, queue, got>>
    /\ UNCHANGED <<condvarVars, methodVars, expired, timed_out, notifyVars,
                   boundVars, sender_count, receiver_active, owner, told>>

\* With the lock: a wait that timed out ends the call, else a message does.
Pop(r) ==
    /\ r = receiver /\ pc[r] = "held"
    /\ IF timed_out[r]
       THEN Return("timeout") /\ UNCHANGED <<queue, got>>
       ELSE IF queue # <<>>
       THEN /\ Return("ok")
            /\ queue' = Tail(queue)
            /\ got' = Append(got, Head(queue))
       ELSE /\ Goto(r, "count")
            /\ UNCHANGED <<status, op, result, queue, got>>
    /\ UNCHANGED <<condvarVars, methodVars, expired, timed_out, notifyVars,
                   boundVars, sender_count, receiver_active, owner, told>>

\* Without a message: is there a sender left?
SeeSenders(r) ==
    /\ pc[r] = "count"
    /\ IF sender_count = 0
       THEN Return("disconnected") /\ told' = TRUE
       ELSE /\ UNCHANGED told
            /\ IF op = "try_recv"
               THEN Return("empty")
               ELSE /\ op' = "waiting"
                    /\ Goto(r, "enlist")
                    /\ UNCHANGED <<status, result>>
    /\ UNCHANGED <<condvarVars, methodVars, expired, timed_out, notifyVars,
                   boundVars, sharedVars, owner, got>>

\* The future of recv_async* is dropped.
CancelRecv(r) ==
    /\ Cancel(r)
    /\ op' = "none"
    /\ UNCHANGED <<sharedVars, owner, result, historyVars>>

\* Drop: senders see it the next time they look.
DropReceiver(r) ==
    /\ CanCall(r)
    /\ receiver_active' = FALSE
    /\ Notify(r, FALSE)
    /\ UNCHANGED <<status, boundVars, queue, sender_count, owner, op, result,
                   historyVars>>

-----------------------------------------------------------------------------
\* What a process does on its own within a call.
Own(p) ==
    \/ (WaitStep(p) \/ NotifyStep(p) \/ Acquire(p)) /\ UNCHANGED channelVars
    \/ FirstCheck(p) \/ SecondCheck(p) \/ Push(p)
    \/ LockTimesOut(p) \/ Pop(p) \/ SeeSenders(p)

\* What its client does.
Calls(s) == \/ CallSend(s) \/ CancelSend(s) \/ DropSender(s) \/ GiveBack(s)
            \/ \E t \in Senders : Clone(s, t) \/ Lend(s, t)

CallsOf(r) == CallRecv(r) \/ CallTryRecv(r) \/ CancelRecv(r) \/ DropReceiver(r)

\* What the clock and the platform do.
Outside == (DeadlinePasses(receiver) \/ ParkSpuriously(receiver))
           /\ UNCHANGED channelVars

ChannelNext ==
    \/ \E s \in Senders : Calls(s)
    \/ CallsOf(receiver)
    \/ \E p \in Procs : Own(p)
    \/ Outside

ChannelSpec == InitChannel /\ [][ChannelNext]_allVars

\* Threads are scheduled, executors poll, clocks advance.
ChannelFairSpec ==
    /\ ChannelSpec
    /\ \A p \in Procs : WF_allVars(Own(p))
    /\ WF_allVars(DeadlinePasses(receiver) /\ UNCHANGED channelVars)

-----------------------------------------------------------------------------
\* Properties.

\* The channel's own variables have their types, and the two counts of
\* senders agree.
ChannelTypeOK ==
    /\ queue \in Seq(Senders \X Nat)
    /\ sender_count \in Nat
    /\ sender_count = Cardinality({s \in Senders : owner[s] = "owns"})
    /\ receiver_active \in BOOLEAN
    /\ owner \in [Senders -> {"new", "owns", "dropped"} \cup Senders]
    /\ op \in {"none", "recv", "waiting", "try_recv"}
    /\ result \in {"ok", "empty", "timeout", "disconnected"}
    /\ got \in Seq(Senders \X Nat)
    /\ told \in BOOLEAN

\* What the bounds let each of them send.
Sent == UNION {{s} \X (1..MaxCalls[s]) : s \in Senders}

Channel == INSTANCE AbstractChannel
               WITH Producers <- Senders, Messages <- Sent,
                    senders <- {s \in Senders : owner[s] = "owns"}

\* The channel implements the abstract one: messages are received in the
\* order in which they were pushed, once; and Disconnected is returned only
\* when the queue is empty for good, although recv looks at the queue first
\* and at sender_count, which no lock protects, after that.
ImplementsChannel == Channel!Spec

\* The receiver waits and nothing has happened yet that will end its wait.
Asleep == /\ pc[receiver] = "pause"
          /\ IF how[receiver] = "block" THEN ~token[receiver]
                                        ELSE ~signal[receiver]

\* src/mpsc.rs:180 "All data sent on the `Sender` will become available on the
\* `Receiver`": the receiver does not sleep beside a message, unless a sender
\* has yet to notify it.
NoMissedMessage ==
    Asleep /\ queue # <<>> => \E s \in Senders : pc[s] \in NotifyPoints

\* That takes a receiver whose waits leave no entry in the Condvar that one of
\* its later waits trips over: if it parks without a deadline, it neither
\* parks with one nor awaits.
NoStrays ==
    LeavesEntries(receiver) =>
        \A w \in Waits[receiver] :
            LET h == WaitSync(receiver, w[1])
            IN  h = "spin" \/ (h = "block" /\ ~w[2])

\* A receive returns if there is a message or a deadline, whatever senders do
\* and however often the receiver is woken for a message it already has.
RecvReturns ==
    op # "none" /\ (timed[receiver] \/ queue # <<>>) ~> op = "none"

\* Once the receiver is gone at most one message more is queued, and only by a
\* send that had found it there: no sender passes its second look any more, and
\* of those that have, the first to push is the last, because the look and the
\* push are under one lock of the mutex.
NoSendToNobody ==
    [][~receiver_active =>
          /\ \A s \in Senders : pc'[s] = "push" => pc[s] = "push"
          /\ Len(queue') > Len(queue) =>
                 /\ \E s \in Senders : pc[s] = "push"
                 /\ \A s \in Senders : pc'[s] # "push"]_allVars

\* src/mpsc.rs:491 "and will yield `None` when the channel is disconnected".
RecvSeesDisconnect ==
    op # "none" /\ sender_count = 0 ~> op = "none"
=============================================================================
