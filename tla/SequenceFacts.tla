--------------------------- MODULE SequenceFacts ---------------------------
(***************************************************************************)
(* What the proofs use of the lists of waiters: what is in a sequence.     *)
(***************************************************************************)
EXTENDS Naturals, SequencesExt, SequenceTheorems, WellFoundedInduction, TLAPS

\* What is appended to a sequence is in it, and so is what was in it before.
LEMMA InAppend ==
    ASSUME NEW S, NEW s \in Seq(S), NEW e \in S
    PROVE  /\ Append(s, e) \in Seq(S)
           /\ Contains(Append(s, e), e)
           /\ \A x : Contains(s, x) => Contains(Append(s, e), x)
  BY DEF Contains

\* What is in a sequence is its head or in its tail.
LEMMA InTail ==
    ASSUME NEW S, NEW s \in Seq(S), s # <<>>
    PROVE  /\ Head(s) \in S
           /\ Tail(s) \in Seq(S)
           /\ \A x : Contains(s, x) => x = Head(s) \/ Contains(Tail(s), x)
  <1>1. Head(s) \in S /\ Tail(s) \in Seq(S)
    OBVIOUS
  <1>2. ASSUME NEW x, Contains(s, x), x # Head(s)
        PROVE  Contains(Tail(s), x)
    <2>1. PICK i \in 1..Len(s) : s[i] = x
      BY <1>2 DEF Contains
    <2>2. i # 1 /\ i - 1 \in 1..Len(Tail(s)) /\ Tail(s)[i - 1] = x
      BY <1>2, <2>1
    <2> QED
      BY <2>2 DEF Contains
  <1> QED
    BY <1>1, <1>2

\* Nothing is in the empty sequence.
LEMMA InEmpty == ASSUME NEW x PROVE ~Contains(<<>>, x)
  BY DEF Contains

\* A set of natural numbers that is not empty has a least one.
LEMMA MinExists ==
    ASSUME NEW I \in SUBSET Nat, I # {}
    PROVE  Min(I) \in I
  <1> DEFINE R == OpToRel(<, Nat)
  <1>1. \A x, y \in Nat : <<x, y>> \in R <=> x < y
    BY Zenon DEF OpToRel
  <1>2. PICK x \in I : \A y \in I : ~(<<y, x>> \in R)
    BY WFMin, NatLessThanWellFounded, Zenon
  <1> HIDE DEF R
  <1>3. ASSUME NEW y \in I PROVE x <= y
    <2>1. x \in Nat /\ y \in Nat /\ ~(<<y, x>> \in R)
      BY <1>2
    <2>2. ~(y < x)
      BY <1>1, <2>1
    <2> QED
      BY <2>1, <2>2
  <1> QED
    BY <1>3 DEF Min

\* Front leaves out the last element.
LEMMA FrontIs ==
    ASSUME NEW S, NEW s \in Seq(S), s # <<>>
    PROVE  /\ Front(s) \in Seq(S)
           /\ Len(Front(s)) = Len(s) - 1
           /\ \A i \in 1..(Len(s) - 1) : Front(s)[i] = s[i]
  <1> DEFINE n == Len(s) - 1
  <1>1. n \in Nat /\ \A i \in 1..n : s[i] \in S
    OBVIOUS
  <1> HIDE DEF n
  <1>2. /\ SubSeq(s, 1, n) \in Seq(S)
        /\ Len(SubSeq(s, 1, n)) = IF 1 <= n THEN n - 1 + 1 ELSE 0
        /\ \A i \in 1..(n - 1 + 1) : SubSeq(s, 1, n)[i] = s[1 + i - 1]
    BY <1>1, SubSeqProperties
  <1>3. (IF 1 <= n THEN n - 1 + 1 ELSE 0) = n
    BY <1>1
  <1>4. \A i \in 1..n : i \in 1..(n - 1 + 1) /\ 1 + i - 1 = i
    BY <1>1
  <1>5. /\ SubSeq(s, 1, n) \in Seq(S) /\ Len(SubSeq(s, 1, n)) = n
        /\ \A i \in 1..n : SubSeq(s, 1, n)[i] = s[i]
    BY <1>2, <1>3, <1>4
  <1> QED
    BY <1>5 DEF Front, n

\* What is in a sequence is its last element or before it.
LEMMA InFront ==
    ASSUME NEW S, NEW s \in Seq(S), s # <<>>
    PROVE  /\ Last(s) \in S
           /\ Front(s) \in Seq(S)
           /\ \A x : Contains(s, x) => x = Last(s) \/ Contains(Front(s), x)
  <1>1. Len(s) \in Nat \ {0} /\ \A i \in 1..Len(s) : s[i] \in S
    OBVIOUS
  <1>2. Last(s) \in S
    BY <1>1 DEF Last
  <1> QED
    BY <1>1, <1>2, FrontIs DEF Contains, Last

\* RemoveFirst removes from where the element is, if it is anywhere.
LEMMA FirstPlace ==
    ASSUME NEW S, NEW s \in Seq(S), NEW e, Contains(s, e)
    PROVE  \E i \in 1..Len(s) :
               s[i] = e /\ RemoveFirst(s, e) = RemoveAt(s, i)
  <1> DEFINE I == {i \in 1..Len(s) : s[i] = e}
  <1>1. I # {} /\ I \in SUBSET Nat
    BY DEF Contains
  <1>2. Min(I) \in I
    BY <1>1, MinExists
  <1>3. SelectInSeq(s, LAMBDA v : v = e) = Min(I)
    BY <1>1 DEF SelectInSeq
  <1>4. RemoveFirst(s, e) = RemoveAt(s, Min(I))
    BY <1>3 DEF RemoveFirst, Contains
  <1> QED
    BY <1>2, <1>4

\* RemoveAt closes the gap.
LEMMA RemoveAtIs ==
    ASSUME NEW S, NEW s \in Seq(S), NEW i \in 1..Len(s)
    PROVE  /\ RemoveAt(s, i) \in Seq(S)
           /\ Len(RemoveAt(s, i)) = Len(s) - 1
           /\ \A j \in 1..(Len(s) - 1) :
                  RemoveAt(s, i)[j] = IF j < i THEN s[j] ELSE s[j + 1]
  <1> DEFINE a == SubSeq(s, 1, i - 1)
             b == SubSeq(s, i + 1, Len(s))
  <1>0. Len(s) \in Nat /\ i \in Nat /\ 1 <= i /\ i <= Len(s)
    OBVIOUS
  <1>1. a \in Seq(S) /\ Len(a) = i - 1 /\ \A j \in 1..(i - 1) : a[j] = s[j]
    OBVIOUS
  <1>2. /\ b \in Seq(S) /\ Len(b) = Len(s) - i
        /\ \A j \in 1..(Len(s) - i) : b[j] = s[i + j]
    OBVIOUS
  <1> DEFINE c == a \o b
  <1> HIDE DEF a, b
  <1>3. /\ c \in Seq(S) /\ Len(c) = Len(a) + Len(b)
        /\ \A j \in 1..(Len(a) + Len(b)) :
               c[j] = IF j <= Len(a) THEN a[j] ELSE b[j - Len(a)]
    BY <1>1, <1>2, ConcatProperties
  <1> HIDE DEF c
  <1>4. Len(a) + Len(b) = Len(s) - 1
    BY <1>0, <1>1, <1>2
  <1>5. ASSUME NEW j \in 1..(Len(s) - 1)
        PROVE  c[j] = IF j < i THEN s[j] ELSE s[j + 1]
    <2>1. c[j] = IF j <= Len(a) THEN a[j] ELSE b[j - Len(a)]
      BY <1>3, <1>4
    <2>2. CASE j < i
      <3>1. j <= Len(a) /\ j \in 1..(i - 1)
        BY <1>0, <1>1, <2>2
      <3> QED
        BY <1>1, <2>1, <2>2, <3>1
    <2>3. CASE ~(j < i)
      <3>1. /\ ~(j <= Len(a)) /\ j - Len(a) \in 1..(Len(s) - i)
            /\ i + (j - Len(a)) = j + 1
        BY <1>0, <1>1, <2>3
      <3>2. b[j - Len(a)] = s[i + (j - Len(a))]
        BY <1>2, <3>1
      <3> QED
        BY <2>1, <2>3, <3>1, <3>2
    <2> QED
      BY <2>2, <2>3
  <1> QED
    BY <1>3, <1>4, <1>5 DEF RemoveAt, a, b, c

\* What is in a sequence stays there but for the element removed.
LEMMA InRemoveAt ==
    ASSUME NEW S, NEW s \in Seq(S), NEW i \in 1..Len(s)
    PROVE  /\ RemoveAt(s, i) \in Seq(S)
           /\ \A x : Contains(s, x) => x = s[i] \/ Contains(RemoveAt(s, i), x)
  <1> DEFINE c == RemoveAt(s, i)
  <1>0. Len(s) \in Nat /\ i \in Nat /\ 1 <= i /\ i <= Len(s)
    OBVIOUS
  <1>1. /\ c \in Seq(S) /\ Len(c) = Len(s) - 1
        /\ \A j \in 1..(Len(s) - 1) : c[j] = IF j < i THEN s[j] ELSE s[j + 1]
    BY RemoveAtIs
  <1> HIDE DEF c
  <1>2. ASSUME NEW x, Contains(s, x), x # s[i] PROVE Contains(c, x)
    <2>1. PICK j \in 1..Len(s) : s[j] = x
      BY <1>2 DEF Contains
    <2>2. CASE j < i
      <3>1. j \in 1..Len(c) /\ c[j] = x
        BY <1>0, <1>1, <2>1, <2>2
      <3> QED
        BY <3>1 DEF Contains
    <2>3. CASE j > i
      <3>1. j - 1 \in 1..Len(c) /\ ~(j - 1 < i) /\ j - 1 + 1 = j
        BY <1>0, <1>1, <2>3
      <3>2. c[j - 1] = s[j - 1 + 1]
        BY <1>1, <3>1
      <3> QED
        BY <2>1, <3>1, <3>2 DEF Contains
    <2> QED
      BY <1>0, <1>2, <2>1, <2>2, <2>3
  <1> QED
    BY <1>1, <1>2 DEF c

\* The same of RemoveFirst, which removes nothing but what it is told to.
LEMMA InRemoveFirst ==
    ASSUME NEW S, NEW s \in Seq(S), NEW e
    PROVE  /\ RemoveFirst(s, e) \in Seq(S)
           /\ \A x : Contains(s, x) => x = e \/ Contains(RemoveFirst(s, e), x)
  <1>1. CASE Contains(s, e)
    BY <1>1, FirstPlace, InRemoveAt
  <1>2. CASE ~Contains(s, e)
    BY <1>2 DEF RemoveFirst, Contains
  <1> QED
    BY <1>1, <1>2

\* The tail of a sequence contains nothing new.
LEMMA TailInside ==
    ASSUME NEW S, NEW s \in Seq(S), s # <<>>, NEW x, Contains(Tail(s), x)
    PROVE  Contains(s, x)
  <1>1. PICK i \in 1..Len(Tail(s)) : Tail(s)[i] = x
    BY DEF Contains
  <1>2. i + 1 \in 1..Len(s) /\ s[i + 1] = x
    BY <1>1
  <1> QED
    BY <1>2 DEF Contains

\* What a sequence over a set contains is in the set.
LEMMA InSeq ==
    ASSUME NEW S, NEW s \in Seq(S), NEW x, Contains(s, x)
    PROVE  x \in S
  BY DEF Contains

\* What is appended is the last.
LEMMA LastOfAppend ==
    ASSUME NEW S, NEW s \in Seq(S), NEW e \in S
    PROVE  Last(Append(s, e)) = e
  BY DEF Last

\* A sequence over a set is one over a larger set.
LEMMA LargerSeq ==
    ASSUME NEW S, NEW T, S \subseteq T, NEW s \in Seq(S)
    PROVE  s \in Seq(T)
  BY SeqMonotonic

-----------------------------------------------------------------------------
\* Sequences that have an element at most once.

Once(s, x) == \A i, j \in 1..Len(s) : s[i] = x /\ s[j] = x => i = j

\* What is new to a sequence is in it once when it has been appended.
LEMMA OnceAppend ==
    ASSUME NEW S, NEW s \in Seq(S), NEW e \in S, NEW x
    PROVE  /\ Contains(Append(s, e), x) => x = e \/ Contains(s, x)
           /\ Once(s, x) /\ ~(x = e /\ Contains(s, x))
                  => Once(Append(s, e), x)
  <1>1. /\ Len(Append(s, e)) = Len(s) + 1 /\ Len(s) \in Nat
        /\ Append(s, e)[Len(s) + 1] = e
        /\ \A i \in 1..Len(s) : Append(s, e)[i] = s[i]
    OBVIOUS
  <1> DEFINE a == Append(s, e)
  <1> HIDE DEF a
  <1>2. \A i \in 1..Len(a) : i \in 1..Len(s) \/ i = Len(s) + 1
    BY <1>1 DEF a
  <1> QED
    BY <1>1, <1>2 DEF a, Once, Contains

\* The front of a sequence contains nothing new, and not its last element.
LEMMA OnceFront ==
    ASSUME NEW S, NEW s \in Seq(S), s # <<>>, NEW x
    PROVE  /\ Contains(Front(s), x) => Contains(s, x)
           /\ Once(s, x) => Once(Front(s), x)
           /\ Once(s, x) /\ x = Last(s) => ~Contains(Front(s), x)
  <1> DEFINE f == Front(s)
  <1>0. Len(s) \in Nat \ {0} /\ Last(s) = s[Len(s)]
    BY DEF Last
  <1>1. Len(f) = Len(s) - 1 /\ \A i \in 1..(Len(s) - 1) : f[i] = s[i]
    BY FrontIs
  <1> HIDE DEF f
  <1>2. \A i \in 1..Len(f) : i \in 1..Len(s) /\ i # Len(s) /\ f[i] = s[i]
    BY <1>0, <1>1
  <1>3. Len(s) \in 1..Len(s)
    BY <1>0
  <1> QED
    BY <1>0, <1>2, <1>3 DEF f, Once, Contains

\* RemoveFirst brings in nothing new, and removes all there is of the element.
LEMMA OnceRemoveFirst ==
    ASSUME NEW S, NEW s \in Seq(S), NEW e, NEW x
    PROVE  /\ Contains(RemoveFirst(s, e), x) => Contains(s, x)
           /\ Once(s, x) => Once(RemoveFirst(s, e), x)
           /\ Once(s, e) => ~Contains(RemoveFirst(s, e), e)
  <1>1. CASE ~Contains(s, e)
    BY <1>1 DEF RemoveFirst, Contains
  <1>2. CASE Contains(s, e)
    <2>1. PICK i \in 1..Len(s) : s[i] = e /\ RemoveFirst(s, e) = RemoveAt(s, i)
      BY <1>2, FirstPlace
    <2> DEFINE c == RemoveAt(s, i)
               at(j) == IF j < i THEN j ELSE j + 1
    <2>2. Len(s) \in Nat /\ i \in Nat /\ 1 <= i /\ i <= Len(s)
      BY <2>1
    <2>3. Len(c) = Len(s) - 1 /\ \A j \in 1..(Len(s) - 1) : c[j] = s[at(j)]
      BY RemoveAtIs
    <2> HIDE DEF c
    <2>4. \A j \in 1..Len(c) : at(j) \in 1..Len(s) /\ at(j) # i
      BY <2>2, <2>3
    <2>5. \A j, k \in 1..Len(c) : at(j) = at(k) => j = k
      BY <2>2, <2>3
    <2>6. \A j \in 1..Len(c) : c[j] = s[at(j)]
      BY <2>3
    <2> HIDE DEF at
    <2>7. Contains(c, x) => Contains(s, x)
      BY <2>4, <2>6 DEF Contains
    <2>8. Once(s, x) => Once(c, x)
      BY <2>4, <2>5, <2>6 DEF Once
    <2>9. Once(s, e) => ~Contains(c, e)
      BY <2>1, <2>4, <2>6 DEF Once, Contains
    <2> QED
      BY <2>1, <2>7, <2>8, <2>9 DEF c
  <1> QED
    BY <1>1, <1>2
=============================================================================
