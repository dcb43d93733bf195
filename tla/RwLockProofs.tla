---------------------------- MODULE RwLockProofs ----------------------------
(***************************************************************************)
(* What TLAPS proves of module RwLock, for any processes, methods, bounds  *)
(* and width of the lock word.  The invariants are proved one after the    *)
(* other: TypeOK with MethodMatches; that the lock word counts the guards; *)
(* and that no wake-up is lost.                                            *)
(***************************************************************************)
EXTENDS RwLock, SequenceFacts, FiniteSetTheorems

\* fetch_sub on a word that counts somebody does not wrap, nor leave the word
\* when it does.
LEMMA SubtractOne ==
    ASSUME NEW n \in Nat \ {0}, NEW w \in 0..(n - 1)
    PROVE  /\ (w + n - 1) % n \in 0..(n - 1)
           /\ w > 0 => (w + n - 1) % n = w - 1
  OBVIOUS

-----------------------------------------------------------------------------
\* Type correctness.

\* A new RwLock has the types that TypeOK states.
LEMMA TypeInit == Init => TypeOK
  <1> SUFFICES ASSUME Init PROVE TypeOK
    OBVIOUS
  <1>1. <<>> \in Seq(Lists) /\ <<>> \in Seq(Handles)
    OBVIOUS
  <1>2. "idle" \in ControlPoints /\ "try" \in Hows /\ "read" \in Kinds
    BY DEF ControlPoints, Hows, Kinds
  <1>3. 0 \in 0..(2 * LOCKED_WRITE - 1)
    BY WordAssumption
  <1> QED
    BY <1>1, <1>2, <1>3 DEF Init, TypeOK

\* lock_sync_* resolves to a way to lock, and that to the point it starts at.
LEMMA LockSyncType ==
    ASSUME NEW p \in Procs, NEW h \in Hows
    PROVE  /\ LockSync(p, h) \in Hows
           /\ Entry(LockSync(p, h)) \in SearchPoints
  BY DEF LockSync, Entry, Hows, SearchPoints

\* A free word that one more reader or a writer takes is in its range.
LEMMA EnterType ==
    ASSUME TypeOK, NEW p \in Procs, Enter(p)
    PROVE  data_lock' \in 0..(2 * LOCKED_WRITE - 1) /\ kind[p] \in Kinds
  BY WordAssumption DEF TypeOK, Enter, Blocked, Kinds

\* The way to lock decides the control points that a process passes, a task
\* that waits has made a continuation, a process that cannot wait on an atomic
\* runs no _block method, and who is to take a list has one to take.
MatchesAt(p) ==
    /\ pc[p] \in {"try", "spin"} => how[p] = pc[p]
    /\ pc[p] \in {"register", "wait"} => how[p] \in {"block", "async"}
    /\ pc[p] = "wait" /\ how[p] = "async" => gen[p] > 0
    /\ how[p] = "block" => p \in CanPark
    /\ pc[p] = "take" => todo[p] # <<>>

MethodMatches == \A p \in Procs : MatchesAt(p)

\* No step of the code leaves the types.
LEMMA TypeStep == TypeOK /\ MethodMatches /\ [Next]_vars => TypeOK'
  <1> SUFFICES ASSUME TypeOK, MethodMatches, [Next]_vars PROVE TypeOK'
    OBVIOUS
  <1> USE DEF TypeOK, Goto, wakeVars, unlockVars, boundVars
  <1>a. /\ {"idle", "take", "wake"} \subseteq ControlPoints
        /\ SearchPoints \subseteq ControlPoints
        /\ Kinds \subseteq ControlPoints
        /\ UnlockPoints = {"take", "wake"}
        /\ SearchPoints = {"try", "spin", "register", "wait"}
    BY DEF ControlPoints, UnlockPoints, SearchPoints
  <1>b. {SyncRead, AsyncRead, SyncWrite, AsyncWrite} \subseteq Lists
    BY DEF Lists, Kinds, SyncRead, AsyncRead, SyncWrite, AsyncWrite
  <1>c. 2 * LOCKED_WRITE \in Nat \ {0} /\ 0 \in 0..(2 * LOCKED_WRITE - 1)
    BY WordAssumption
  <1>1. CASE UNCHANGED vars
    BY <1>1 DEF vars
  <1>2. ASSUME NEW p \in Procs, Call(p) PROVE TypeOK'
    <2>1. PICK m \in Methods[p] :
              /\ how' = [how EXCEPT ![p] = LockSync(p, m[1])]
              /\ kind' = [kind EXCEPT ![p] = m[2]]
              /\ pc' = [pc EXCEPT ![p] = Entry(LockSync(p, m[1]))]
      BY <1>2 DEF Call
    <2>2. m[1] \in Hows /\ m[2] \in Kinds
      BY ProcsAssumption
    <2>3. /\ LockSync(p, m[1]) \in Hows
          /\ Entry(LockSync(p, m[1])) \in ControlPoints
      BY <2>2, LockSyncType, <1>a
    <2>4. /\ how' \in [Procs -> Hows] /\ kind' \in [Procs -> Kinds]
          /\ pc' \in [Procs -> ControlPoints]
      BY <2>1, <2>2, <2>3
    <2>5. calls' \in [Procs -> Nat]
      BY <1>2 DEF Call
    <2>6. \A q \in Procs : pc[q] \in UnlockPoints => pc'[q] = pc[q]
      BY <1>2, <2>1, <1>a DEF Call
    <2> QED
      BY <1>2, <2>4, <2>5, <2>6, <1>a DEF Call
  <1>3. ASSUME NEW p \in Procs, Try(p) \/ Spin(p) PROVE TypeOK'
    <2>1. CASE Enter(p)
      BY <1>3, <2>1, <1>a, EnterType DEF Try, Spin, Enter
    <2>2. CASE ~Enter(p)
      BY <1>3, <2>2, <1>a DEF Try, Spin
    <2> QED
      BY <2>1, <2>2
  <1>4. ASSUME NEW p \in Procs, Register(p) PROVE TypeOK'
    <2>1. CASE Enter(p) /\ UNCHANGED <<waiting, gen, woken>>
      BY <1>4, <2>1, <1>a, EnterType DEF Register, Enter
    <2>2. CASE ~(Enter(p) /\ UNCHANGED <<waiting, gen, woken>>)
      <3>1. NewHandle(p) \in Handles
        BY DEF NewHandle, Handles
      <3>a. /\ waiting' = [waiting EXCEPT ![ListOf(p)] =
                               Append(@, NewHandle(p))]
            /\ gen' = [gen EXCEPT ![p] =
                           IF how[p] = "async" THEN @ + 1 ELSE @]
            /\ woken' = [woken EXCEPT ![p] = FALSE]
        BY <1>4, <2>2 DEF Register
      <3>2. waiting' \in [Lists -> Seq(Handles)]
        BY <3>a, <3>1, InAppend
      <3>3. gen' \in [Procs -> Nat] /\ woken' \in [Procs -> BOOLEAN]
        BY <3>a
      <3> QED
        BY <1>4, <2>2, <3>2, <3>3, <1>a DEF Register
    <2> QED
      BY <2>1, <2>2
  <1>5. ASSUME NEW p \in Procs, TooManyReaders(p) PROVE TypeOK'
    <2>1. stuck' \subseteq Lists
      <3>1. pc[p] = "register" => ListOf(p) \in Lists
        BY DEF MethodMatches, MatchesAt, ListOf, Lists
      <3> QED
        BY <1>5, <3>1 DEF TooManyReaders
    <2> QED
      BY <1>5, <2>1, <1>a DEF TooManyReaders
  <1>6. ASSUME NEW p \in Procs, Wait(p) PROVE TypeOK'
    <2>1. token' \in [Procs -> BOOLEAN]
      BY <1>6 DEF Wait
    <2> QED
      BY <1>6, <2>1, <1>a DEF Wait
  <1>7. ASSUME NEW p \in Procs, ParkSpuriously(p) \/ Cancel(p) PROVE TypeOK'
    <2>1. CASE ParkSpuriously(p)
      BY <2>1, <1>a DEF ParkSpuriously
    <2>2. CASE Cancel(p)
      BY <2>2, <1>a DEF Cancel
    <2> QED
      BY <1>7, <2>1, <2>2
  <1>8. ASSUME NEW p \in Procs, DropRead(p) \/ DropWrite(p) PROVE TypeOK'
    <2>1. data_lock' \in 0..(2 * LOCKED_WRITE - 1)
      BY <1>8, <1>c, SubtractOne DEF DropRead, DropWrite
    <2>2. todo' \in [Procs -> Seq(Lists)]
      <3>1. /\ <<SyncWrite, AsyncWrite>> \in Seq(Lists)
            /\ <<SyncRead, AsyncRead, SyncWrite, AsyncWrite>> \in Seq(Lists)
        BY <1>b
      <3> QED
        BY <1>8, <3>1 DEF DropRead, DropWrite
    <2> QED
      BY <1>8, <2>1, <2>2, <1>a DEF DropRead, DropWrite
  <1>9. ASSUME NEW p \in Procs, Take(p) PROVE TypeOK'
    <2>1. todo[p] # <<>>
      BY <1>9 DEF Take, MethodMatches, MatchesAt
    <2>2. Head(todo[p]) \in Lists /\ Tail(todo[p]) \in Seq(Lists)
      BY <2>1, InTail
    <2> QED
      BY <1>9, <2>2, <1>a DEF Take
  <1>10. ASSUME NEW p \in Procs, Wake(p) PROVE TypeOK'
    <2>1. Head(waking[p]) \in Handles /\ Tail(waking[p]) \in Seq(Handles)
      BY <1>10, InTail DEF Wake
    <2>2. token' \in [Procs -> BOOLEAN] /\ woken' \in [Procs -> BOOLEAN]
      BY <1>10, <2>1 DEF Wake, Handles
    <2> QED
      BY <1>10, <2>1, <2>2, <1>a DEF Wake
  <1>11. ASSUME NEW p \in Procs, Woken(p) PROVE TypeOK'
    BY <1>11, <1>a DEF Woken
  <1> QED
    BY <1>1, <1>2, <1>3, <1>4, <1>5, <1>6, <1>7, <1>8, <1>9, <1>10, <1>11
    DEF Next, Search, did_unlock, Drop

\* The lists that an unlock is to take are not none.
LEMMA NotEmpty ==
    ASSUME NEW a, NEW b, NEW c, NEW d
    PROVE  <<a, b>> # <<>> /\ <<a, b, c, d>> # <<>>
  OBVIOUS

\* No step takes a process to a point outside the method it runs.
LEMMA MatchesStep == TypeOK /\ MethodMatches /\ [Next]_vars => MethodMatches'
  <1> SUFFICES ASSUME TypeOK, MethodMatches, [Next]_vars PROVE MethodMatches'
    OBVIOUS
  <1> USE DEF TypeOK, Goto, wakeVars, unlockVars, boundVars
  <1>1. CASE UNCHANGED vars
    BY <1>1 DEF vars, MethodMatches, MatchesAt
  <1>2. ASSUME NEW p \in Procs,
               \/ Call(p) \/ Search(p) \/ Cancel(p) \/ Drop(p)
               \/ did_unlock(p) \/ ParkSpuriously(p)
        PROVE  MethodMatches'
    <2>a. MatchesAt(p)
      BY DEF MethodMatches
    <2>1. ASSUME NEW q \in Procs, q # p PROVE MatchesAt(q)'
      <3>1. /\ pc'[q] = pc[q] /\ how'[q] = how[q]
            /\ gen'[q] = gen[q] /\ todo'[q] = todo[q]
        BY <1>2, <2>1
        DEF Call, Search, Cancel, Drop, did_unlock, ParkSpuriously, Try, Spin,
            Register, TooManyReaders, Wait, Enter, DropRead, DropWrite, Take,
            Wake, Woken
      <3> QED
        BY <3>1 DEF MethodMatches, MatchesAt
    <2>2. MatchesAt(p)'
      <3>1. CASE Call(p)
        <4>1. PICK m \in Methods[p] :
                  /\ how' = [how EXCEPT ![p] = LockSync(p, m[1])]
                  /\ pc' = [pc EXCEPT ![p] = Entry(LockSync(p, m[1]))]
          BY <3>1 DEF Call
        <4>2. m[1] \in Hows /\ (m[1] = "block" => p \in CanPark)
          BY ProcsAssumption
        <4>3. /\ how'[p] = LockSync(p, m[1])
              /\ pc'[p] = Entry(LockSync(p, m[1]))
          BY <4>1
        <4> QED
          BY <4>2, <4>3 DEF MatchesAt, LockSync, Entry, Hows
      <3>2. CASE Try(p) \/ Spin(p)
        BY <3>2, <2>a DEF MatchesAt, Try, Spin, Enter, Kinds
      <3>3. CASE Register(p)
        BY <3>3, <2>a DEF MatchesAt, Register, Enter, Kinds
      <3>4. CASE TooManyReaders(p) \/ Wait(p) \/ ParkSpuriously(p) \/ Cancel(p)
        BY <3>4, <2>a
        DEF MatchesAt, TooManyReaders, Wait, ParkSpuriously, Cancel
      <3>5. CASE DropRead(p) \/ DropWrite(p)
        <4>1. pc'[p] = "take" /\ how'[p] = how[p]
          BY <3>5 DEF DropRead, DropWrite
        <4>2. \/ todo'[p] = <<SyncWrite, AsyncWrite>>
              \/ todo'[p] = <<SyncRead, AsyncRead, SyncWrite, AsyncWrite>>
          BY <3>5 DEF DropRead, DropWrite
        <4>3. todo'[p] # <<>>
          BY <4>2, NotEmpty
        <4> QED
          BY <4>1, <4>3, <2>a DEF MatchesAt
      <3>6. CASE Take(p) \/ Wake(p) \/ Woken(p)
        BY <3>6, <2>a DEF MatchesAt, Take, Wake, Woken
      <3> QED
        BY <1>2, <3>1, <3>2, <3>3, <3>4, <3>5, <3>6
        DEF Search, Drop, did_unlock
    <2> QED
      BY <2>1, <2>2 DEF MethodMatches
  <1> QED
    BY <1>1, <1>2 DEF Next

\* Types and methods keep each other.
LEMMA MatchesCorrect == Spec => [](TypeOK /\ MethodMatches)
  <1>1. Init => MethodMatches
    BY DEF Init, MethodMatches, MatchesAt
  <1> QED
    BY <1>1, TypeInit, TypeStep, MatchesStep, PTL DEF Spec

\* The variables of the RwLock always have their types, and the local lists of
\* did_unlock_read and did_unlock_write are empty outside them.
THEOREM TypeCorrect == Spec => []TypeOK
  BY MatchesCorrect, PTL

\* A thread that cannot wait on an atomic never parks in an RwLock.
THEOREM MainThreadSafe == Spec => []MainThreadNeverParks
  <1>1. MethodMatches => MainThreadNeverParks
    BY DEF MethodMatches, MatchesAt, MainThreadNeverParks
  <1> QED
    BY <1>1, MatchesCorrect, PTL
-----------------------------------------------------------------------------
\* The lock word.

\* A step moves one process, to l: neither from a guard nor into one, to read,
\* to write, or from a guard; and if it is not a call that begins, it leaves
\* its kind alone.
MovesTo(p, l) ==
    /\ pc' = [pc EXCEPT ![p] = l]
    /\ \/ kind' = kind
       \/ /\ pc[p] = "idle" /\ l \in SearchPoints
          /\ \E k \in Kinds : kind' = [kind EXCEPT ![p] = k]
    /\ \/ pc[p] \notin Kinds /\ l \notin Kinds /\ data_lock' = data_lock
       \/ /\ pc[p] \in SearchPoints /\ l = "read" /\ kind[p] = l
          /\ data_lock < LOCKED_WRITE - 1 /\ data_lock' = data_lock + 1
       \/ /\ pc[p] \in SearchPoints /\ l = "write" /\ kind[p] = l
          /\ data_lock = 0 /\ data_lock' = LOCKED_WRITE
       \/ /\ pc[p] = "read" /\ l = "take"
          /\ data_lock' =
                 (data_lock + 2 * LOCKED_WRITE - 1) % (2 * LOCKED_WRITE)
       \/ pc[p] = "write" /\ l = "take" /\ data_lock' = 0

\* Every step moves one process, and touches the lock word only when that
\* process takes the lock or drops its guard.
LEMMA StepMoves ==
    ASSUME TypeOK, NEW p \in Procs,
           \/ Call(p) \/ Search(p) \/ Cancel(p) \/ Drop(p)
           \/ did_unlock(p) \/ ParkSpuriously(p)
    PROVE  \E l \in ControlPoints : MovesTo(p, l)
  <1> USE DEF TypeOK, Goto, MovesTo
  <1>a. /\ ControlPoints = {"idle", "read", "write", "try", "spin", "register",
                            "wait", "take", "wake"}
        /\ SearchPoints = {"try", "spin", "register", "wait"}
        /\ Kinds = {"read", "write"}
    BY DEF ControlPoints, UnlockPoints, SearchPoints, Kinds
  <1>1. CASE Call(p)
    <2>1. PICK m \in Methods[p] :
              /\ kind' = [kind EXCEPT ![p] = m[2]]
              /\ pc' = [pc EXCEPT ![p] = Entry(LockSync(p, m[1]))]
      BY <1>1 DEF Call
    <2>2. m[2] \in Kinds /\ Entry(LockSync(p, m[1])) \in SearchPoints
      BY ProcsAssumption, LockSyncType
    <2>3. pc[p] = "idle" /\ data_lock' = data_lock
      BY <1>1 DEF Call
    <2> QED
      BY <2>1, <2>2, <2>3, <1>a
  <1>2. CASE Enter(p) /\ pc[p] \in SearchPoints /\ kind' = kind
    BY <1>2, <1>a, WordAssumption DEF Enter, Blocked
  <1>3. CASE (Try(p) \/ Spin(p) \/ Register(p)) /\ ~Enter(p)
    BY <1>3, <1>a DEF Try, Spin, Register
  <1>4. CASE Try(p) \/ Spin(p) \/ Register(p)
    <2>1. pc[p] \in SearchPoints /\ kind' = kind
      BY <1>4, <1>a DEF Try, Spin, Register
    <2> QED
      BY <2>1, <1>2, <1>3, <1>4
  <1>5. CASE TooManyReaders(p) \/ Wait(p) \/ ParkSpuriously(p) \/ Cancel(p)
    BY <1>5, <1>a DEF TooManyReaders, Wait, ParkSpuriously, Cancel
  <1>6. CASE DropRead(p) \/ DropWrite(p)
    BY <1>6, <1>a DEF DropRead, DropWrite
  <1>7. CASE Take(p) \/ Woken(p)
    BY <1>7, <1>a DEF Take, Woken
  <1>8. CASE Wake(p)
    <2>1. pc' = [pc EXCEPT ![p] = "wake"]
      BY <1>8 DEF Wake
    <2> QED
      BY <1>8, <2>1, <1>a DEF Wake
  <1> QED
    BY <1>1, <1>4, <1>5, <1>6, <1>7, <1>8 DEF Search, Drop, did_unlock

\* LockWordCounts, in terms of the sets rather than their sizes.
WordCounts ==
    /\ IsFiniteSet(Readers)
    /\ \/ (\E p \in Procs : Writers = {p}) /\ Readers = {}
          /\ data_lock = LOCKED_WRITE
       \/ /\ Writers = {} /\ data_lock = Cardinality(Readers)
          /\ data_lock < LOCKED_WRITE

\* A reader adds one to the word while it is below the write bit, and takes it
\* away again; a writer finds the word 0 and leaves it so.
LEMMA WordStep == TypeOK /\ WordCounts /\ [Next]_vars => WordCounts'
  <1> SUFFICES ASSUME TypeOK, WordCounts, [Next]_vars PROVE WordCounts'
    OBVIOUS
  <1>1. CASE UNCHANGED vars
    BY <1>1 DEF vars, WordCounts, Readers, Writers
  <1>2. CASE Next
    <2>1. PICK p \in Procs, l \in ControlPoints : MovesTo(p, l)
      BY <1>2, StepMoves DEF Next
    <2>2. \A q \in Procs : pc'[q] = IF q = p THEN l ELSE pc[q]
      BY <2>1 DEF MovesTo, TypeOK
    <2>a. /\ Cardinality(Readers) \in Nat
          /\ LOCKED_WRITE \in Nat /\ LOCKED_WRITE > 0
      BY FS_CardinalityType, WordAssumption DEF WordCounts
    <2>3. CASE pc[p] \notin Kinds /\ l \notin Kinds /\ data_lock' = data_lock
      <3>1. Readers' = Readers /\ Writers' = Writers
        BY <2>2, <2>3 DEF Readers, Writers, Kinds
      <3> QED
        BY <2>3, <3>1 DEF WordCounts
    <2>4. CASE /\ pc[p] \in SearchPoints /\ l = "read" /\ kind[p] = l
               /\ data_lock < LOCKED_WRITE - 1 /\ data_lock' = data_lock + 1
      <3>1. /\ Readers' = Readers \cup {p} /\ p \notin Readers
            /\ Writers' = Writers
        BY <2>2, <2>4 DEF Readers, Writers, SearchPoints
      <3>2. /\ IsFiniteSet(Readers')
            /\ Cardinality(Readers') = Cardinality(Readers) + 1
        BY <3>1, FS_AddElement DEF WordCounts
      <3>3. Writers = {} /\ data_lock = Cardinality(Readers)
        BY <2>4, <2>a DEF WordCounts
      <3> QED
        BY <2>4, <2>a, <3>1, <3>2, <3>3 DEF WordCounts
    <2>5. CASE /\ pc[p] \in SearchPoints /\ l = "write" /\ kind[p] = l
               /\ data_lock = 0 /\ data_lock' = LOCKED_WRITE
      <3>1. Readers = {} /\ Writers = {}
        BY <2>5, <2>a, FS_EmptySet DEF WordCounts
      <3>2. Readers' = {} /\ Writers' = {p}
        BY <2>2, <2>5, <3>1 DEF Readers, Writers
      <3> QED
        BY <2>5, <3>2, FS_EmptySet DEF WordCounts
    <2>6. CASE /\ pc[p] = "read" /\ l = "take"
               /\ data_lock' =
                      (data_lock + 2 * LOCKED_WRITE - 1) % (2 * LOCKED_WRITE)
      <3>1. /\ Readers' = Readers \ {p} /\ p \in Readers
            /\ Writers' = Writers
        BY <2>2, <2>6 DEF Readers, Writers
      <3>2. /\ IsFiniteSet(Readers')
            /\ Cardinality(Readers') = Cardinality(Readers) - 1
            /\ Cardinality(Readers') \in Nat
        BY <3>1, FS_RemoveElement, FS_CardinalityType DEF WordCounts
      <3>3. /\ Writers = {} /\ data_lock = Cardinality(Readers)
            /\ data_lock < LOCKED_WRITE
        BY <3>1 DEF WordCounts
      <3>4. data_lock' = data_lock - 1
        <4>1. /\ 2 * LOCKED_WRITE \in Nat \ {0}
              /\ data_lock \in 0..(2 * LOCKED_WRITE - 1)
          BY <2>a, <3>3
        <4>2. data_lock > 0
          BY <2>a, <3>2, <3>3
        <4> QED
          BY <2>6, <4>1, <4>2, SubtractOne
      <3> QED
        BY <2>a, <3>1, <3>2, <3>3, <3>4 DEF WordCounts
    <2>7. CASE pc[p] = "write" /\ l = "take" /\ data_lock' = 0
      <3>1. Readers = {} /\ Writers = {p}
        BY <2>7 DEF WordCounts, Writers
      <3>2. Readers' = {} /\ Writers' = {}
        BY <2>2, <2>7, <3>1 DEF Readers, Writers
      <3> QED
        BY <2>7, <2>a, <3>2, FS_EmptySet DEF WordCounts
    <2> QED
      BY <2>1, <2>3, <2>4, <2>5, <2>6, <2>7 DEF MovesTo
  <1> QED
    BY <1>1, <1>2

\* In every state the lock word says who holds guards.
LEMMA WordCorrect == Spec => []WordCounts
  <1>1. Init => WordCounts
    <2> SUFFICES ASSUME Init PROVE WordCounts
      OBVIOUS
    <2>1. Readers = {} /\ Writers = {}
      BY DEF Init, Readers, Writers
    <2> QED
      BY <2>1, FS_EmptySet, WordAssumption DEF Init, WordCounts
  <1> QED
    BY <1>1, WordStep, TypeCorrect, PTL DEF Spec

\* The lock word is the write bit or counts the readers, of which there are
\* never so many that they carry into the bit.
THEOREM WordIsRight == Spec => []LockWordCounts
  <1>1. WordCounts => LockWordCounts
    BY FS_Singleton DEF WordCounts, LockWordCounts
  <1> QED
    BY <1>1, WordCorrect, PTL
-----------------------------------------------------------------------------
\* The lock it promises to be.

\* A new RwLock is a new abstract lock.
LEMMA AbstractInit == Init => Abstract!Init
  BY DEF Init, Abstract!Init, Status, Kinds, SearchPoints

\* Every step of the code is one of the abstract lock, or stutters.
LEMMA AbstractStep ==
    TypeOK /\ WordCounts /\ [Next]_vars
        => [Abstract!Next]_[p \in Procs |-> Status(p)]
  <1> DEFINE status == [p \in Procs |-> Status(p)]
  <1> SUFFICES ASSUME TypeOK, WordCounts, [Next]_vars
               PROVE  Abstract!Next \/ status' = status
    BY DEF Abstract!Next
  <1>1. CASE UNCHANGED vars
    BY <1>1 DEF vars, Status
  <1>2. CASE Next
    <2>1. PICK p \in Procs, l \in ControlPoints : MovesTo(p, l)
      BY <1>2, StepMoves DEF Next
    <2>2. \A q \in Procs : /\ pc'[q] = IF q = p THEN l ELSE pc[q]
                           /\ kind'[q] = kind[q] \/ q = p
      BY <2>1 DEF MovesTo, TypeOK
    <2>3. status' = [status EXCEPT ![p] = Status(p)']
      <3>1. ASSUME NEW q \in Procs, q # p PROVE Status(q)' = Status(q)
        BY <2>2, <3>1 DEF Status
      <3> QED
        BY <3>1
    <2>a. Cardinality(Readers) \in Nat /\ LOCKED_WRITE \in Nat
      BY FS_CardinalityType, WordAssumption DEF WordCounts
    <2>4. CASE pc[p] \notin Kinds /\ l \notin Kinds /\ data_lock' = data_lock
      <3>1. status[p] \in {"out", "want_read", "want_write"}
        BY <2>4 DEF Status
      <3>2. /\ Status(p)' \in {"out", "want_read", "want_write"}
            /\ status[p] # "out" => Status(p)' \in {"out", status[p]}
        BY <2>1, <2>2, <2>4 DEF Status, MovesTo, SearchPoints
      <3> QED
        BY <2>3, <3>1, <3>2
        DEF Abstract!Next, Abstract!Request, Abstract!GiveUp, Abstract!Becomes
    <2>5. CASE /\ pc[p] \in SearchPoints /\ l = "read" /\ kind[p] = l
               /\ data_lock < LOCKED_WRITE - 1
      <3>1. \A q \in Procs : status[q] # "write"
        BY <2>5, <2>a DEF WordCounts, Writers, Status, Kinds
      <3>2. status[p] = "want_read" /\ Status(p)' = "read"
        BY <2>2, <2>5 DEF Status, Kinds, SearchPoints
      <3> QED
        BY <2>3, <3>1, <3>2
        DEF Abstract!Next, Abstract!EnterToRead, Abstract!Becomes
    <2>6. CASE /\ pc[p] \in SearchPoints /\ l = "write" /\ kind[p] = l
               /\ data_lock = 0
      <3>1. Readers = {} /\ Writers = {}
        BY <2>6, <2>a, FS_EmptySet, WordAssumption DEF WordCounts
      <3>2. \A q \in Procs : status[q] \notin {"read", "write"}
        BY <3>1 DEF Readers, Writers, Status, Kinds
      <3>3. status[p] = "want_write" /\ Status(p)' = "write"
        BY <2>2, <2>6 DEF Status, Kinds, SearchPoints
      <3> QED
        BY <2>3, <3>2, <3>3
        DEF Abstract!Next, Abstract!EnterToWrite, Abstract!Becomes
    <2>7. CASE pc[p] \in Kinds /\ l = "take"
      <3>1. status[p] \in {"read", "write"} /\ Status(p)' = "out"
        BY <2>2, <2>7 DEF Status, Kinds, SearchPoints
      <3> QED
        BY <2>3, <3>1 DEF Abstract!Next, Abstract!Leave, Abstract!Becomes
    <2> QED
      BY <2>1, <2>4, <2>5, <2>6, <2>7 DEF MovesTo, Kinds
  <1> QED
    BY <1>1, <1>2

\* An RwLock implements the abstract read-write lock: every step of every
\* method is a step of a client asking, entering, giving up or leaving, or no
\* step at all, and no WriteGuard is ever beside another guard.
THEOREM RwLockImplementsLock == Spec => ImplementsRwLock
  BY AbstractInit, AbstractStep, TypeCorrect, WordCorrect, PTL
  DEF Spec, ImplementsRwLock, Abstract!Spec

\* A call that ends without a guard has met the guards that exclude its own,
\* or as many ReadGuards as the lock word can count.
THEOREM FailuresAreHonest == Spec => HonestFailure
  <1> DEFINE Honest(p) ==
                 \/ how[p] = "try" /\ Writers # {}
                 \/ how[p] = "try" /\ kind[p] = "write" /\ Readers # {}
                 \/ kind[p] = "read" /\ Cardinality(Readers) = LOCKED_WRITE - 1
  <1>1. ASSUME TypeOK, MethodMatches, WordCounts, [Next]_vars,
               NEW p \in Procs, pc[p] \in SearchPoints \ {"wait"},
               pc'[p] = "idle"
        PROVE  Honest(p)
    <2>a. pc[p] \in {"try", "spin", "register"}
      BY <1>1 DEF SearchPoints
    <2>b. LOCKED_WRITE \in Nat /\ LOCKED_WRITE >= 2
      BY WordAssumption
    <2>1. CASE Try(p) /\ Blocked(p)
      <3>1. how[p] = "try" /\ kind[p] \in Kinds
        BY <1>1, <2>1 DEF Try, MethodMatches, MatchesAt, TypeOK
      <3>2. data_lock # 0 /\ (kind[p] = "read" => data_lock >= LOCKED_WRITE)
        BY <2>1, <2>b DEF Blocked
      <3>3. CASE Writers = {}
        <4>1. data_lock = Cardinality(Readers) /\ data_lock < LOCKED_WRITE
          BY <1>1, <3>3 DEF WordCounts
        <4>2. kind[p] = "write"
          BY <2>b, <3>1, <3>2, <4>1, FS_CardinalityType, <1>1
          DEF Kinds, WordCounts
        <4>3. Readers # {}
          BY <3>2, <4>1, FS_EmptySet
        <4> QED
          BY <3>1, <4>2, <4>3
      <3> QED
        BY <3>1, <3>3
    <2>2. CASE TooManyReaders(p)
      <3>1. kind[p] = "read" /\ data_lock = LOCKED_WRITE - 1
        BY <2>2 DEF TooManyReaders
      <3>2. Cardinality(Readers) = LOCKED_WRITE - 1
        BY <1>1, <2>b, <3>1 DEF WordCounts
      <3> QED
        BY <3>1, <3>2
    <2>3. Try(p) \/ TooManyReaders(p)
      <3>1. PICK q \in Procs : \/ Call(q) \/ Search(q) \/ Cancel(q) \/ Drop(q)
                               \/ did_unlock(q) \/ ParkSpuriously(q)
        BY <1>1, <2>a DEF Next, vars
      <3>2. q = p
        BY <1>1, <2>a, <3>1, StepMoves DEF MovesTo, TypeOK
      <3> QED
        BY <1>1, <2>a, <3>1, <3>2
        DEF Call, Search, Cancel, Drop, did_unlock, ParkSpuriously, Spin,
            Register, Wait, Enter, DropRead, DropWrite, Take, Wake, Woken,
            Goto, TypeOK, Kinds
    <2>4. Try(p) => Blocked(p)
      BY <1>1 DEF Try, Enter, Goto, TypeOK, Kinds
    <2> QED
      BY <2>1, <2>2, <2>3, <2>4
  <1>2. TypeOK /\ MethodMatches /\ WordCounts /\ [Next]_vars
            => [\A p \in Procs :
                    pc[p] \in SearchPoints \ {"wait"} /\ pc'[p] = "idle"
                        => Honest(p)]_vars
    BY <1>1
  <1> QED
    BY <1>2, MatchesCorrect, WordCorrect, PTL DEF Spec, HonestFailure
-----------------------------------------------------------------------------
\* No wake-up is lost.

\* What NoLostWakeup says of one process.
Asleep(p) == /\ pc[p] = "wait"
             /\ IF how[p] = "async" THEN ~woken[p] ELSE ~token[p]

WillWake(p) ==
    \/ \E q \in Procs : Contains(waking[q], Handle(p))
    \/ /\ Contains(waiting[ListOf(p)], Handle(p))
       /\ Blocked(p) \/ \E q \in Procs : Contains(todo[q], ListOf(p))

\* A step of another process does not touch what names a waiter.
LEMMA OthersStay ==
    ASSUME TypeOK, NEW p \in Procs, NEW r \in Procs, r # p,
           \/ Call(p) \/ Search(p) \/ Cancel(p) \/ Drop(p)
           \/ did_unlock(p) \/ ParkSpuriously(p)
    PROVE  /\ pc'[r] = pc[r] /\ how'[r] = how[r] /\ kind'[r] = kind[r]
           /\ gen'[r] = gen[r]
  BY DEF Call, Search, Cancel, Drop, did_unlock, ParkSpuriously, Try, Spin,
         Register, TooManyReaders, Wait, Enter, DropRead, DropWrite, Take,
         Wake, Woken, Goto, TypeOK, wakeVars

\* What the unlocks go through contains every list of waiters that may have
\* been kept out.
LEMMA TodoContains ==
    ASSUME NEW k \in Kinds, NEW h \in {"block", "async"}
    PROVE  /\ Contains(<<SyncRead, AsyncRead, SyncWrite, AsyncWrite>>,
                       <<h, k>>)
           /\ k = "write" => Contains(<<SyncWrite, AsyncWrite>>, <<h, k>>)
  BY DEF Contains, SyncRead, AsyncRead, SyncWrite, AsyncWrite, Kinds

\* Whoever is in a list, or about to be woken, still is, or was woken.
LEMMA WakeupStep ==
    TypeOK /\ MethodMatches /\ WordCounts /\ NoLostWakeup /\ [Next]_vars
        => NoLostWakeup'
  <1> SUFFICES ASSUME TypeOK, MethodMatches, WordCounts, NoLostWakeup,
                      [Next]_vars
               PROVE  NoLostWakeup'
    OBVIOUS
  <1>1. CASE UNCHANGED vars
    BY <1>1
    DEF vars, wakeVars, unlockVars, NoLostWakeup, Contains, Handle, ListOf,
        Blocked
  <1>2. ASSUME NEW p \in Procs,
               \/ Call(p) \/ Search(p) \/ Cancel(p) \/ Drop(p)
               \/ did_unlock(p) \/ ParkSpuriously(p),
               NEW r \in Procs, Asleep(r)'
        PROVE  WillWake(r)'
    <2> USE DEF TypeOK, Goto
    <2>a. LOCKED_WRITE \in Nat /\ LOCKED_WRITE >= 2
      BY WordAssumption
    <2>1. CASE r = p
      <3>1. CASE Register(p) /\ ~Enter(p)
        <4>1. /\ Handle(p)' = NewHandle(p) /\ ListOf(p)' = ListOf(p)
              /\ Blocked(p)'
          BY <3>1 DEF Register, Handle, NewHandle, ListOf, Blocked
        <4>2. ListOf(p) \in Lists /\ NewHandle(p) \in Handles
          BY <3>1 DEF Register, MethodMatches, MatchesAt, ListOf, Lists,
                      NewHandle, Handles
        <4>3. waiting'[ListOf(p)] = Append(waiting[ListOf(p)], NewHandle(p))
          BY <3>1, <4>2 DEF Register
        <4>4. Contains(waiting'[ListOf(p)], NewHandle(p))
          BY <4>2, <4>3, InAppend
        <4> QED
          BY <2>1, <4>1, <4>4 DEF WillWake, ListOf
      <3>2. CASE pc'[p] # "wait"
        BY <1>2, <2>1, <3>2 DEF Asleep
      <3>3. CASE ~(Register(p) /\ ~Enter(p))
        <4>1. pc'[p] # "wait"
          BY <1>2, <3>3, LockSyncType
          DEF Call, Search, Cancel, Drop, did_unlock, ParkSpuriously, Try,
              Spin, Register, TooManyReaders, Wait, Enter, DropRead,
              DropWrite, Take, Wake, Woken, Kinds, Entry
        <4> QED
          BY <3>2, <4>1
      <3> QED
        BY <3>1, <3>3
    <2>2. CASE r # p
      <3>1. /\ pc'[r] = pc[r] /\ how'[r] = how[r] /\ kind'[r] = kind[r]
            /\ gen'[r] = gen[r]
        BY <1>2, <2>2, OthersStay
      <3>2. Handle(r)' = Handle(r) /\ ListOf(r)' = ListOf(r)
        BY <3>1 DEF Handle, ListOf
      <3>3. /\ pc[r] = "wait" /\ how[r] \in {"block", "async"}
            /\ kind[r] \in Kinds /\ ListOf(r) \in Lists
            /\ how[r] = "async" => gen[r] > 0
        BY <1>2, <3>1
        DEF Asleep, MethodMatches, MatchesAt, ListOf, Lists
      <3>4. Asleep(r)
        BY <1>2, <2>2, <3>1, <3>3
        DEF Asleep, Call, Search, Cancel, Drop, did_unlock, ParkSpuriously,
            Try, Spin, Register, TooManyReaders, Wait, Enter, DropRead,
            DropWrite, Take, Wake, Woken, wakeVars
      <3>5. WillWake(r)
        BY <3>4 DEF NoLostWakeup, Asleep, WillWake
      <3>6. CASE Call(p) \/ Cancel(p) \/ ParkSpuriously(p) \/ Woken(p)
                 \/ Wait(p) \/ TooManyReaders(p) \/ Try(p) \/ Spin(p)
                 \/ Register(p)
        <4>1. waking' = waking /\ todo' = todo
          BY <3>6
          DEF Call, Cancel, ParkSpuriously, Woken, Wait, TooManyReaders, Try,
              Spin, Register, unlockVars
        <4>2. \/ waiting' = waiting
              \/ waiting' = [waiting EXCEPT ![ListOf(p)] =
                                 Append(@, NewHandle(p))]
          BY <3>6
          DEF Call, Cancel, ParkSpuriously, Woken, Wait, TooManyReaders, Try,
              Spin, Register
        <4>3. Contains(waiting[ListOf(r)], Handle(r))
                  => Contains(waiting'[ListOf(r)], Handle(r))
          <5>1. NewHandle(p) \in Handles
            BY DEF NewHandle, Handles
          <5>2. waiting'[ListOf(r)] \in
                    {waiting[ListOf(r)],
                     Append(waiting[ListOf(r)], NewHandle(p))}
            BY <3>3, <4>2
          <5>3. waiting[ListOf(r)] \in Seq(Handles)
            BY <3>3
          <5>4. Contains(waiting[ListOf(r)], Handle(r))
                    => Contains(Append(waiting[ListOf(r)], NewHandle(p)),
                                Handle(r))
            BY <5>1, <5>3, InAppend
          <5> QED
            BY <5>2, <5>4
        <4>4. Blocked(r) => Blocked(r)'
          <5>1. data_lock' = data_lock \/ Enter(p)
            BY <3>6
            DEF Call, Cancel, ParkSpuriously, Woken, Wait, TooManyReaders,
                Try, Spin, Register
          <5>2. Enter(p) => \/ data_lock' = data_lock + 1
                            \/ data_lock' = LOCKED_WRITE /\ data_lock = 0
            BY DEF Enter, Blocked, Kinds
          <5> QED
            BY <5>1, <5>2, <3>1, <2>a DEF Blocked
        <4> QED
          BY <3>2, <3>5, <4>1, <4>3, <4>4 DEF WillWake
      <3>7. CASE DropRead(p) \/ DropWrite(p)
        <4>1. waiting' = waiting /\ waking' = waking
          BY <3>7 DEF DropRead, DropWrite
        <4>2. todo[p] = <<>>
          BY <3>7 DEF DropRead, DropWrite, UnlockPoints
        <4>3. \A q \in Procs : Contains(todo[q], ListOf(r))
                  => Contains(todo'[q], ListOf(r))
          <5>1. \A q \in Procs : q # p => todo'[q] = todo[q]
            BY <3>7 DEF DropRead, DropWrite
          <5> QED
            BY <4>2, <5>1, InEmpty
        <4>4. CASE DropWrite(p)
          <5>1. Contains(todo'[p], ListOf(r))
            BY <3>3, <4>4, TodoContains DEF DropWrite, ListOf
          <5> QED
            BY <3>2, <3>5, <4>1, <5>1 DEF WillWake
        <4>5. CASE DropRead(p) /\ kind[r] = "write"
          <5>1. Contains(todo'[p], ListOf(r))
            BY <3>3, <4>5, TodoContains DEF DropRead, ListOf
          <5> QED
            BY <3>2, <3>5, <4>1, <5>1 DEF WillWake
        <4>6. CASE DropRead(p) /\ kind[r] = "read"
          <5>1. data_lock < LOCKED_WRITE
            BY <4>6 DEF DropRead, WordCounts, Readers
          <5>2. ~Blocked(r)
            BY <2>a, <4>6, <5>1 DEF Blocked
          <5> QED
            BY <3>2, <3>5, <4>1, <4>3, <5>2 DEF WillWake
        <4> QED
          BY <3>3, <3>7, <4>4, <4>5, <4>6 DEF Kinds
      <3>8. CASE Take(p)
        <4>1. /\ todo[p] # <<>> /\ waking[p] = <<>>
              /\ data_lock' = data_lock
          BY <3>8 DEF Take, MethodMatches, MatchesAt
        <4>2. /\ waking' = [waking EXCEPT ![p] = waiting[Head(todo[p])]]
              /\ waiting' = [waiting EXCEPT ![Head(todo[p])] = <<>>]
              /\ todo' = [todo EXCEPT ![p] = Tail(@)]
          BY <3>8 DEF Take
        <4>3. ASSUME NEW q \in Procs, Contains(waking[q], Handle(r))
              PROVE  WillWake(r)'
          <5>1. q # p
            BY <4>1, <4>3, InEmpty
          <5>2. waking'[q] = waking[q]
            BY <4>2, <5>1
          <5> QED
            BY <3>2, <4>3, <5>2 DEF WillWake
        <4>4. CASE /\ Contains(waiting[ListOf(r)], Handle(r))
                   /\ Head(todo[p]) = ListOf(r)
          <5>1. waking'[p] = waiting[ListOf(r)]
            BY <4>2, <4>4
          <5> QED
            BY <3>2, <4>4, <5>1 DEF WillWake
        <4>5. CASE /\ Contains(waiting[ListOf(r)], Handle(r))
                   /\ Head(todo[p]) # ListOf(r)
          <5>1. waiting'[ListOf(r)] = waiting[ListOf(r)]
            BY <3>3, <4>2, <4>5
          <5>2. \A q \in Procs : Contains(todo[q], ListOf(r))
                    => Contains(todo'[q], ListOf(r))
            BY <4>1, <4>2, <4>5, InTail
          <5>3. Blocked(r)' = Blocked(r)
            BY <3>1, <4>1 DEF Blocked
          <5> QED
            BY <3>2, <3>5, <4>3, <4>5, <5>1, <5>2, <5>3 DEF WillWake
        <4> QED
          BY <3>5, <4>3, <4>4, <4>5 DEF WillWake
      <3>9. CASE Wake(p)
        <4>1. /\ waiting' = waiting /\ todo' = todo /\ data_lock' = data_lock
              /\ waking[p] # <<>> /\ waking' = [waking EXCEPT ![p] = Tail(@)]
          BY <3>9 DEF Wake
        <4>2. Head(waking[p]) # Handle(r)
          <5> SUFFICES ASSUME Head(waking[p]) = Handle(r) PROVE FALSE
            OBVIOUS
          <5>1. CASE how[r] = "async"
            <6>1. Handle(r)[1] = r /\ Handle(r)[2] = gen[r] /\ gen[r] # 0
              BY <3>3, <5>1 DEF Handle
            <6>2. woken'[r]
              BY <3>9, <6>1 DEF Wake
            <6> QED
              BY <1>2, <3>1, <5>1, <6>2 DEF Asleep
          <5>2. CASE how[r] = "block"
            <6>1. Handle(r)[1] = r /\ Handle(r)[2] = 0
              BY <5>2 DEF Handle
            <6>2. token'[r]
              BY <3>9, <6>1 DEF Wake
            <6> QED
              BY <1>2, <3>1, <5>2, <6>2 DEF Asleep
          <5> QED
            BY <3>3, <5>1, <5>2
        <4>3. \A q \in Procs : Contains(waking[q], Handle(r))
                  => Contains(waking'[q], Handle(r))
          BY <4>1, <4>2, InTail
        <4>4. Blocked(r)' = Blocked(r)
          BY <3>1, <4>1 DEF Blocked
        <4> QED
          BY <3>2, <3>5, <4>1, <4>3, <4>4 DEF WillWake
      <3> QED
        BY <1>2, <3>6, <3>7, <3>8, <3>9 DEF Search, Drop, did_unlock
    <2> QED
      BY <2>1, <2>2
  <1> QED
    BY <1>1, <1>2 DEF Next, NoLostWakeup, Asleep, WillWake

\* A waiter that nobody has woken is about to be, or is in the list of its
\* method and still excluded, or an unlock will yet take that list.
THEOREM NoWakeupIsLost == Spec => []NoLostWakeup
  <1>1. Init => NoLostWakeup
    BY DEF Init, NoLostWakeup
  <1> QED
    BY <1>1, WakeupStep, MatchesCorrect, WordCorrect, PTL DEF Spec
=============================================================================
