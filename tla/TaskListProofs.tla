--------------------------- MODULE TaskListProofs ---------------------------
(***************************************************************************)
(* The lists of task.c: the queue, the children of a task, who depends on  *)
(* whom, and the stacks of tasks the threads are in.  What a step does to  *)
(* them is first put as a predicate that says which task moves where       *)
(* (Starts, Releases, Orphans, Ends, Begins, Drops, Defers); that it keeps *)
(* the invariant, CoreInv, is proved of the predicate.  TeamTasksProofs    *)
(* puts the steps together.                                                *)
(***************************************************************************)
EXTENDS TeamTasks, FiniteSetTheorems, SequenceTheorems, WellFoundedInduction, TLAPS


(* What a list holds, and that it holds nothing twice.                     *)
In(x, s) == \E i \in DOMAIN s : s[i] = x
Injective(s) == \A i, j \in DOMAIN s : s[i] = s[j] => i = j

LEMMA InContains ==
  ASSUME NEW S, NEW s \in Seq(S)
  PROVE  \A x : Contains(s, x) <=> In(x, s)
BY DEF Contains, In

LEMMA InNothing == \A x : ~In(x, <<>>)
BY DEF In

LEMMA InTyped == ASSUME NEW S, NEW s \in Seq(S) PROVE \A x : In(x, s) => x \in S
BY DEF In

LEMMA InSomething ==
  ASSUME NEW S, NEW s \in Seq(S), s # <<>>
  PROVE  In(Head(s), s)
BY DEF In

LEMMA AppendTyped ==
  ASSUME NEW S, NEW s \in Seq(S), NEW e \in S
  PROVE  Append(s, e) \in Seq(S)
OBVIOUS

LEMMA InAppend ==
  ASSUME NEW S, NEW s \in Seq(S), NEW e \in S
  PROVE  \A x : In(x, Append(s, e)) <=> In(x, s) \/ x = e
<1>1. /\ DOMAIN Append(s, e) = 1..Len(s) + 1 /\ Append(s, e)[Len(s) + 1] = e
      /\ \A i \in 1..Len(s) : Append(s, e)[i] = s[i]
      /\ DOMAIN s = 1..Len(s) /\ Len(s) \in Nat
  OBVIOUS
<1> SUFFICES ASSUME NEW x PROVE In(x, Append(s, e)) <=> In(x, s) \/ x = e
  OBVIOUS
<1>2. Len(s) + 1 \in 1..Len(s) + 1 /\ \A i \in 1..Len(s) : i \in 1..Len(s) + 1
  BY <1>1
<1>3. \A i \in 1..Len(s) + 1 : i \in 1..Len(s) \/ i = Len(s) + 1
  BY <1>1
<1> QED BY <1>1, <1>2, <1>3, Zenon DEF In

\* Nothing gets into a list twice, so that RemoveFirst removes all of it.
LEMMA AppendOnce ==
  ASSUME NEW S, NEW s \in Seq(S), NEW e \in S, Injective(s), ~In(e, s)
  PROVE  Injective(Append(s, e))
<1>1. /\ DOMAIN Append(s, e) = 1..Len(s) + 1 /\ Append(s, e)[Len(s) + 1] = e
      /\ \A i \in 1..Len(s) : Append(s, e)[i] = s[i]
      /\ DOMAIN s = 1..Len(s) /\ Len(s) \in Nat
  OBVIOUS
<1>3. \A i \in 1..Len(s) + 1 : i \in 1..Len(s) \/ i = Len(s) + 1
  BY <1>1
<1> QED BY <1>1, <1>3 DEF In, Injective

LEMMA ConcatTyped ==
  ASSUME NEW S, NEW s \in Seq(S), NEW r \in Seq(S)
  PROVE  s \o r \in Seq(S)
BY ConcatProperties

LEMMA InConcat ==
  ASSUME NEW S, NEW s \in Seq(S), NEW r \in Seq(S)
  PROVE  \A x : In(x, s \o r) <=> In(x, s) \/ In(x, r)
<1>1. /\ s \o r \in Seq(S) /\ Len(s \o r) = Len(s) + Len(r)
      /\ Len(s) \in Nat /\ Len(r) \in Nat
      /\ DOMAIN s = 1..Len(s) /\ DOMAIN r = 1..Len(r)
      /\ \A i \in 1..Len(s) + Len(r) : (s \o r)[i] =
             IF i <= Len(s) THEN s[i] ELSE r[i - Len(s)]
  BY ConcatProperties
<1>2. DOMAIN (s \o r) = 1..Len(s) + Len(r)
  BY <1>1
<1> SUFFICES ASSUME NEW x PROVE In(x, s \o r) <=> In(x, s) \/ In(x, r)
  OBVIOUS
<1>3. ASSUME In(x, s \o r) PROVE In(x, s) \/ In(x, r)
  <2>1. PICK i \in 1..Len(s) + Len(r) : (s \o r)[i] = x
    BY <1>2, <1>3 DEF In
  <2>2. CASE i <= Len(s)
    BY <2>1, <2>2, <1>1 DEF In
  <2>3. CASE ~(i <= Len(s))
    <3>1. i - Len(s) \in 1..Len(r) /\ r[i - Len(s)] = x
      BY <2>1, <2>3, <1>1
    <3> QED BY <3>1, <1>1 DEF In
  <2> QED BY <2>2, <2>3
<1>4. ASSUME In(x, s) PROVE In(x, s \o r)
  <2>1. PICK i \in 1..Len(s) : s[i] = x
    BY <1>1, <1>4 DEF In
  <2>2. i \in 1..Len(s) + Len(r) /\ (s \o r)[i] = x
    BY <2>1, <1>1
  <2> QED BY <1>2, <2>2 DEF In
<1>5. ASSUME In(x, r) PROVE In(x, s \o r)
  <2>1. PICK i \in 1..Len(r) : r[i] = x
    BY <1>1, <1>5 DEF In
  <2>2. i + Len(s) \in 1..Len(s) + Len(r) /\ (s \o r)[i + Len(s)] = x
    BY <2>1, <1>1
  <2> QED BY <1>2, <2>2 DEF In
<1> QED BY <1>3, <1>4, <1>5

LEMMA ConcatOnce ==
  ASSUME NEW S, NEW s \in Seq(S), NEW r \in Seq(S), Injective(s), Injective(r),
         \A x : ~(In(x, s) /\ In(x, r))
  PROVE  Injective(s \o r)
<1>1. /\ s \o r \in Seq(S) /\ Len(s \o r) = Len(s) + Len(r)
      /\ Len(s) \in Nat /\ Len(r) \in Nat
      /\ DOMAIN s = 1..Len(s) /\ DOMAIN r = 1..Len(r)
      /\ \A i \in 1..Len(s) + Len(r) : (s \o r)[i] =
             IF i <= Len(s) THEN s[i] ELSE r[i - Len(s)]
  BY ConcatProperties
<1>2. DOMAIN (s \o r) = 1..Len(s) + Len(r)
  BY <1>1
<1> SUFFICES ASSUME NEW i \in 1..Len(s) + Len(r), NEW j \in 1..Len(s) + Len(r),
                    (s \o r)[i] = (s \o r)[j]
             PROVE  i = j
  BY <1>2 DEF Injective
<1>3. CASE i <= Len(s) /\ j <= Len(s)
  BY <1>1, <1>3 DEF Injective
<1>4. CASE ~(i <= Len(s)) /\ ~(j <= Len(s))
  <2>1. i - Len(s) \in 1..Len(r) /\ j - Len(s) \in 1..Len(r)
    BY <1>1, <1>4
  <2>2. r[i - Len(s)] = r[j - Len(s)]
    BY <1>1, <1>4
  <2>3. i - Len(s) = j - Len(s)
    BY <2>1, <2>2, <1>1 DEF Injective
  <2> QED BY <2>3, <1>1
<1>5. CASE i <= Len(s) /\ ~(j <= Len(s))
  <2>1. i \in 1..Len(s) /\ j - Len(s) \in 1..Len(r) /\ s[i] = r[j - Len(s)]
    BY <1>1, <1>5
  <2>2. In(s[i], s) /\ In(s[i], r)
    BY <2>1, <1>1 DEF In
  <2> QED BY <2>2
<1>6. CASE ~(i <= Len(s)) /\ j <= Len(s)
  <2>1. j \in 1..Len(s) /\ i - Len(s) \in 1..Len(r) /\ s[j] = r[i - Len(s)]
    BY <1>1, <1>6
  <2>2. In(s[j], s) /\ In(s[j], r)
    BY <2>1, <1>1 DEF In
  <2> QED BY <2>2
<1> QED BY <1>3, <1>4, <1>5, <1>6

LEMMA ReverseTyped ==
  ASSUME NEW S, NEW s \in Seq(S)
  PROVE  Reverse(s) \in Seq(S)
<1>1. \A i \in 1..Len(s) : s[Len(s) - i + 1] \in S
  OBVIOUS
<1> QED BY <1>1 DEF Reverse

LEMMA InReverse ==
  ASSUME NEW S, NEW s \in Seq(S)
  PROVE  \A x : In(x, Reverse(s)) <=> In(x, s)
<1>1. /\ DOMAIN Reverse(s) = 1..Len(s) /\ DOMAIN s = 1..Len(s) /\ Len(s) \in Nat
      /\ \A i \in 1..Len(s) : Reverse(s)[i] = s[Len(s) - i + 1]
  BY DEF Reverse
<1>2. \A i \in 1..Len(s) : Len(s) - i + 1 \in 1..Len(s) /\ Len(s) - (Len(s) - i + 1) + 1 = i
  BY <1>1
<1> SUFFICES ASSUME NEW x PROVE In(x, Reverse(s)) <=> In(x, s)
  OBVIOUS
<1>3. ASSUME In(x, Reverse(s)) PROVE In(x, s)
  BY <1>1, <1>2, <1>3 DEF In
<1>4. ASSUME In(x, s) PROVE In(x, Reverse(s))
  <2>1. PICK i \in 1..Len(s) : s[i] = x
    BY <1>1, <1>4 DEF In
  <2>2. PICK j \in 1..Len(s) : j = Len(s) - i + 1
    BY <1>2
  <2>3. Reverse(s)[j] = x
    BY <1>1, <1>2, <2>1, <2>2
  <2> QED BY <1>1, <2>3 DEF In
<1> QED BY <1>3, <1>4

LEMMA RotateTyped ==
  ASSUME NEW S, NEW s \in Seq(S), NEW x \in S
  PROVE  Rotate(s, x) \in Seq(S)
<1>1. CASE s # <<>> /\ Head(s) = x
  BY <1>1, HeadTailProperties, AppendTyped DEF Rotate
<1> QED BY <1>1 DEF Rotate

LEMMA InRotate ==
  ASSUME NEW S, NEW s \in Seq(S), NEW x \in S
  PROVE  \A y : In(y, Rotate(s, x)) <=> In(y, s)
<1>1. CASE s # <<>> /\ Head(s) = x
  <2>1. /\ Tail(s) \in Seq(S) /\ Len(Tail(s)) = Len(s) - 1
        /\ \A i \in 1..Len(Tail(s)) : Tail(s)[i] = s[i + 1]
        /\ s[1] = x /\ DOMAIN s = 1..Len(s) /\ Len(s) \in Nat /\ Len(s) > 0
    BY <1>1, HeadTailProperties
  <2>2. DOMAIN Tail(s) = 1..Len(s) - 1
    BY <2>1
  <2>3. Rotate(s, x) = Append(Tail(s), x)
    BY <1>1 DEF Rotate
  <2> SUFFICES ASSUME NEW y PROVE In(y, Rotate(s, x)) <=> In(y, s)
    OBVIOUS
  <2>4. In(y, Rotate(s, x)) <=> In(y, Tail(s)) \/ y = x
    <3>1. \A z : In(z, Append(Tail(s), x)) <=> In(z, Tail(s)) \/ z = x
      BY <2>1, InAppend
    <3> QED BY <2>3, <3>1
  <2>5. ASSUME In(y, Tail(s)) PROVE In(y, s)
    <3>1. PICK i \in 1..Len(s) - 1 : Tail(s)[i] = y
      BY <2>2, <2>5 DEF In
    <3>2. i + 1 \in 1..Len(s) /\ s[i + 1] = y
      BY <2>1, <3>1
    <3> QED BY <2>1, <3>2 DEF In
  <2>6. ASSUME In(y, s), y # x PROVE In(y, Tail(s))
    <3>1. PICK i \in 1..Len(s) : s[i] = y
      BY <2>1, <2>6 DEF In
    <3>2. i - 1 \in 1..Len(s) - 1 /\ Tail(s)[i - 1] = y
      BY <2>1, <2>6, <3>1
    <3> QED BY <2>2, <3>2 DEF In
  <2>7. In(x, s)
    BY <2>1 DEF In
  <2> QED BY <2>4, <2>5, <2>6, <2>7
<1> QED BY <1>1 DEF Rotate

\* The minimum of a set of natural numbers is in the set and below the others.
LEMMA MinOfNats ==
    ASSUME NEW S \in SUBSET Nat, S # {}
    PROVE  Min(S) \in S /\ \A y \in S : Min(S) <= y
<1>1. \E x \in S : \A y \in S : ~(<<y, x>> \in OpToRel(<, Nat))
  BY WFMin, NatLessThanWellFounded, Zenon
<1>2. PICK x \in S : \A y \in S : ~(<<y, x>> \in OpToRel(<, Nat))
  BY <1>1
<1>3. \A y \in S : ~(y < x)
  BY <1>2 DEF OpToRel
<1>4. \E z \in S : \A y \in S : z =< y
  BY <1>3
<1> QED
  BY <1>4 DEF Min

(* One occurrence is taken out, wherever it is.                            *)
LEMMA RemovedWhere ==
  ASSUME NEW S, NEW s \in Seq(S), NEW x, In(x, s)
  PROVE  \E k \in 1..Len(s) : s[k] = x /\ RemoveFirst(s, x) = SubSeq(s, 1, k - 1) \o SubSeq(s, k + 1, Len(s))
<1> DEFINE I == {i \in 1..Len(s) : s[i] = x}
<1>1. I \in SUBSET Nat /\ I # {}
  BY DEF In
<1>2. Min(I) \in I
  BY <1>1, MinOfNats
<1>3. PICK k \in I : k = Min(I)
  BY <1>2
<1>4. RemoveFirst(s, x) = RemoveAt(s, Min(I))
  <2>1. \E i \in 1..Len(s) : s[i] = x
    BY DEF In
  <2>2. {i \in 1..Len(s) : s[i] = x} # {}
    BY <1>1
  <2> QED BY <2>1, <2>2 DEF RemoveFirst, SelectInSeq
<1> QED BY <1>3, <1>4 DEF RemoveAt

\* What is left when the entry in place k is taken out.
LEMMA WithoutPlace ==
  ASSUME NEW S, NEW s \in Seq(S), NEW k \in 1..Len(s), NEW r,
         r = SubSeq(s, 1, k - 1) \o SubSeq(s, k + 1, Len(s))
  PROVE  /\ r \in Seq(S) /\ Len(r) = Len(s) - 1
         /\ \A i \in 1..Len(s) - 1 : r[i] = IF i < k THEN s[i] ELSE s[i + 1]
<1>1. Len(s) \in Nat /\ k \in Nat
  OBVIOUS
<1>2. /\ SubSeq(s, 1, k - 1) \in Seq(S) /\ Len(SubSeq(s, 1, k - 1)) = k - 1
      /\ \A i \in 1..k - 1 : SubSeq(s, 1, k - 1)[i] = s[i]
  <2>1. \A i \in 1..k - 1 : s[i] \in S
    OBVIOUS
  <2> QED BY <1>1, <2>1, SubSeqProperties
<1>3. /\ SubSeq(s, k + 1, Len(s)) \in Seq(S) /\ Len(SubSeq(s, k + 1, Len(s))) = Len(s) - k
      /\ \A i \in 1..Len(s) - k : SubSeq(s, k + 1, Len(s))[i] = s[k + i]
  <2>1. \A i \in k + 1..Len(s) : s[i] \in S
    OBVIOUS
  <2> QED BY <1>1, <2>1, SubSeqProperties
<1>4. PICK p, q : p = SubSeq(s, 1, k - 1) /\ q = SubSeq(s, k + 1, Len(s))
  OBVIOUS
<1>5. p \in Seq(S) /\ q \in Seq(S) /\ r = p \o q
  BY <1>2, <1>3, <1>4
<1>6. PICK n \in Nat : n = Len(s)
  BY <1>1
<1>7. /\ Len(p) = k - 1 /\ Len(q) = n - k
      /\ \A i \in 1..k - 1 : p[i] = s[i]
      /\ \A i \in 1..n - k : q[i] = s[k + i]
  BY <1>2, <1>3, <1>4, <1>6
<1>8. /\ r \in Seq(S) /\ Len(r) = Len(p) + Len(q)
      /\ \A i \in 1..Len(p) + Len(q) : r[i] = IF i <= Len(p) THEN p[i] ELSE q[i - Len(p)]
  BY <1>5, ConcatProperties
<1>9. Len(p) + Len(q) = n - 1 /\ k <= n
  BY <1>1, <1>6, <1>7
<1>10. ASSUME NEW i \in 1..n - 1 PROVE r[i] = IF i < k THEN s[i] ELSE s[i + 1]
  <2>1. r[i] = IF i <= k - 1 THEN p[i] ELSE q[i - (k - 1)]
    BY <1>7, <1>8, <1>9
  <2>2. CASE i < k
    <3>1. i \in 1..k - 1 /\ i <= k - 1
      BY <1>1, <2>2
    <3> QED BY <2>1, <2>2, <3>1, <1>7
  <2>3. CASE ~(i < k)
    <3>1. i - (k - 1) \in 1..n - k /\ k + (i - (k - 1)) = i + 1 /\ ~(i <= k - 1)
      BY <1>1, <2>3
    <3>2. q[i - (k - 1)] = s[k + (i - (k - 1))]
      BY <3>1, <1>7
    <3> QED BY <2>1, <2>3, <3>1, <3>2
  <2> QED BY <2>2, <2>3
<1> QED BY <1>6, <1>8, <1>9, <1>10

LEMMA RemoveTyped ==
  ASSUME NEW S, NEW s \in Seq(S), NEW x
  PROVE  RemoveFirst(s, x) \in Seq(S)
<1>1. CASE In(x, s)
  <2>1. PICK k \in 1..Len(s) :
           s[k] = x /\ RemoveFirst(s, x) = SubSeq(s, 1, k - 1) \o SubSeq(s, k + 1, Len(s))
    BY <1>1, RemovedWhere
  <2>2. PICK r : r = RemoveFirst(s, x)
    OBVIOUS
  <2>3. r \in Seq(S)
    BY <2>1, <2>2, WithoutPlace
  <2> QED BY <2>2, <2>3
<1>2. CASE ~In(x, s)
  <2>1. RemoveFirst(s, x) = s
    BY <1>2 DEF RemoveFirst, In
  <2> QED BY <2>1
<1> QED BY <1>1, <1>2

LEMMA InRemove ==
  ASSUME NEW S, NEW s \in Seq(S), NEW x
  PROVE  /\ \A y : In(y, RemoveFirst(s, x)) => In(y, s)
         /\ \A y : In(y, s) /\ y # x => In(y, RemoveFirst(s, x))
<1>1. CASE In(x, s)
  <2>1. PICK k \in 1..Len(s) :
           s[k] = x /\ RemoveFirst(s, x) = SubSeq(s, 1, k - 1) \o SubSeq(s, k + 1, Len(s))
    BY <1>1, RemovedWhere
  <2>2. PICK r : r = RemoveFirst(s, x)
    OBVIOUS
  <2>3. /\ r \in Seq(S) /\ Len(r) = Len(s) - 1
        /\ \A i \in 1..Len(s) - 1 : r[i] = IF i < k THEN s[i] ELSE s[i + 1]
    BY <2>1, <2>2, WithoutPlace
  <2>4. DOMAIN r = 1..Len(s) - 1 /\ DOMAIN s = 1..Len(s) /\ Len(s) \in Nat
    BY <2>3
  <2>5. ASSUME NEW y, In(y, r) PROVE In(y, s)
    <3>1. PICK i \in 1..Len(s) - 1 : r[i] = y
      BY <2>4, <2>5 DEF In
    <3>2. (i \in 1..Len(s) /\ s[i] = y) \/ (i + 1 \in 1..Len(s) /\ s[i + 1] = y)
      BY <2>3, <2>4, <3>1
    <3> QED BY <2>4, <3>2 DEF In
  <2>6. ASSUME NEW y, In(y, s), y # x PROVE In(y, r)
    <3>1. PICK i \in 1..Len(s) : s[i] = y
      BY <2>4, <2>6 DEF In
    <3>2. i # k
      BY <2>1, <2>6, <3>1
    <3>3. \/ i \in 1..Len(s) - 1 /\ r[i] = y
          \/ i - 1 \in 1..Len(s) - 1 /\ r[i - 1] = y
      BY <2>3, <2>4, <3>1, <3>2
    <3> QED BY <2>4, <3>3 DEF In
  <2> QED BY <2>2, <2>5, <2>6
<1>2. CASE ~In(x, s)
  <2>1. RemoveFirst(s, x) = s
    BY <1>2 DEF RemoveFirst, In
  <2> QED BY <2>1
<1> QED BY <1>1, <1>2

LEMMA RemoveOnce ==
  ASSUME NEW S, NEW s \in Seq(S), NEW x, Injective(s)
  PROVE  Injective(RemoveFirst(s, x)) /\ ~In(x, RemoveFirst(s, x))
<1>1. CASE In(x, s)
  <2>1. PICK k \in 1..Len(s) :
           s[k] = x /\ RemoveFirst(s, x) = SubSeq(s, 1, k - 1) \o SubSeq(s, k + 1, Len(s))
    BY <1>1, RemovedWhere
  <2>2. PICK r : r = RemoveFirst(s, x)
    OBVIOUS
  <2>3. /\ r \in Seq(S) /\ Len(r) = Len(s) - 1
        /\ \A i \in 1..Len(s) - 1 : r[i] = IF i < k THEN s[i] ELSE s[i + 1]
    BY <2>1, <2>2, WithoutPlace
  <2>4. DOMAIN r = 1..Len(s) - 1 /\ DOMAIN s = 1..Len(s) /\ Len(s) \in Nat
    BY <2>3
  <2>5. \A i \in 1..Len(s), j \in 1..Len(s) : s[i] = s[j] => i = j
    BY <2>4 DEF Injective
  <2>6. ASSUME NEW i \in 1..Len(s) - 1, NEW j \in 1..Len(s) - 1, r[i] = r[j]
        PROVE  i = j
    <3>1. PICK a \in 1..Len(s) : r[i] = s[a] /\ a = IF i < k THEN i ELSE i + 1
      BY <2>3, <2>4
    <3>2. PICK b \in 1..Len(s) : r[j] = s[b] /\ b = IF j < k THEN j ELSE j + 1
      BY <2>3, <2>4
    <3>3. a = b
      BY <2>5, <2>6, <3>1, <3>2
    <3> QED BY <3>1, <3>2, <3>3, <2>4
  <2>7. ASSUME NEW i \in 1..Len(s) - 1, r[i] = x
        PROVE  FALSE
    <3>1. PICK a \in 1..Len(s) : r[i] = s[a] /\ a = IF i < k THEN i ELSE i + 1
      BY <2>3, <2>4
    <3>2. a = k
      BY <2>1, <2>5, <2>7, <3>1
    <3> QED BY <3>1, <3>2, <2>4
  <2> QED BY <2>2, <2>4, <2>6, <2>7 DEF In, Injective
<1>2. CASE ~In(x, s)
  <2>1. RemoveFirst(s, x) = s
    BY <1>2 DEF RemoveFirst, In
  <2> QED BY <1>2, <2>1
<1> QED BY <1>1, <1>2

(* The last task of a stack.                                               *)
LEMMA FrontTyped ==
  ASSUME NEW S, NEW s \in Seq(S), s # <<>>
  PROVE  /\ Front(s) \in Seq(S) /\ DOMAIN Front(s) = 1..Len(s) - 1
         /\ \A i \in 1..Len(s) - 1 : Front(s)[i] = s[i]
         /\ Len(s) \in DOMAIN s /\ Last(s) = s[Len(s)] /\ Last(s) \in S
<1>1. Len(s) \in Nat \ {0} /\ DOMAIN s = 1..Len(s)
  OBVIOUS
<1>2. /\ SubSeq(s, 1, Len(s) - 1) \in Seq(S) /\ Len(SubSeq(s, 1, Len(s) - 1)) = Len(s) - 1
      /\ \A i \in 1..Len(s) - 1 : SubSeq(s, 1, Len(s) - 1)[i] = s[i]
  <2>1. \A i \in 1..Len(s) - 1 : s[i] \in S
    OBVIOUS
  <2> QED BY <1>1, <2>1, SubSeqProperties
<1> QED BY <1>1, <1>2 DEF Front, Last

(* As many as there are places: the length of a list without repetition.   *)
LEMMA LengthIsCardinality ==
  ASSUME NEW S, NEW s \in Seq(S), Injective(s)
  PROVE  IsFiniteSet(ToSet(s)) /\ Len(s) = Cardinality(ToSet(s))
<1>1. Len(s) \in Nat /\ DOMAIN s = 1..Len(s) /\ s \in [1..Len(s) -> S]
  OBVIOUS
<1>2. s \in Bijection(1..Len(s), ToSet(s))
  <2>1. s \in [1..Len(s) -> ToSet(s)]
    BY <1>1 DEF ToSet
  <2>2. s \in Surjection(1..Len(s), ToSet(s))
    BY <1>1, <2>1 DEF Surjection, ToSet
  <2>3. s \in Injection(1..Len(s), ToSet(s))
    BY <1>1, <2>1 DEF Injection, IsInjective, Injective
  <2> QED BY <2>2, <2>3 DEF Bijection
<1>3. ExistsBijection(1..Len(s), ToSet(s))
  BY <1>2 DEF ExistsBijection
<1> QED BY <1>1, <1>3, FS_CountingElements, FS_NatBijection

(* What the recursive function in Among is: the elements among the first n. *)
IsUpTo(s, S, m, f) ==
    f = [n \in 0..m |-> IF n = 0 THEN <<>>
                        ELSE IF s[n] \in S THEN Append(f[n - 1], s[n]) ELSE f[n - 1]]

\* There is such a function: otherwise there would be a least m without one.
LEMMA UpToExists ==
  ASSUME NEW s, NEW S, NEW m \in Nat
  PROVE  \E f : IsUpTo(s, S, m, f)
<1> DEFINE Missing == {n \in Nat : ~\E f : IsUpTo(s, S, n, f)}
<1>1. Missing = {}
  <2>1. SUFFICES ASSUME Missing # {} PROVE FALSE
    OBVIOUS
  <2>2. Missing \in SUBSET Nat
    OBVIOUS
  <2>3. PICK n \in Missing : \A k \in Missing : n <= k
    <3>1. Min(Missing) \in Missing /\ \A k \in Missing : Min(Missing) <= k
      BY <2>1, <2>2, MinOfNats
    <3> QED BY <3>1
  <2>4. n \in Nat /\ ~\E f : IsUpTo(s, S, n, f)
    BY <2>3
  <2>5. n # 0
    <3>1. IsUpTo(s, S, 0, [i \in 0..0 |-> <<>>])
      BY DEF IsUpTo
    <3> QED BY <2>4, <3>1
  <2>6. PICK f : IsUpTo(s, S, n - 1, f)
    <3>1. n - 1 \in Nat /\ ~(n <= n - 1)
      BY <2>4, <2>5
    <3>2. n - 1 \notin Missing
      BY <2>3, <3>1
    <3> QED BY <3>1, <3>2
  <2> DEFINE last == IF s[n] \in S THEN Append(f[n - 1], s[n]) ELSE f[n - 1]
             g == [i \in 0..n |-> IF i = n THEN last ELSE f[i]]
  <2>7. \A i \in 0..n : g[i] = IF i = 0 THEN <<>>
                               ELSE IF s[i] \in S THEN Append(g[i - 1], s[i]) ELSE g[i - 1]
    <3> SUFFICES ASSUME NEW i \in 0..n
                 PROVE  g[i] = IF i = 0 THEN <<>>
                               ELSE IF s[i] \in S THEN Append(g[i - 1], s[i]) ELSE g[i - 1]
      OBVIOUS
    <3>1. CASE i = n
      <4>1. n - 1 \in 0..n /\ n - 1 # n
        BY <2>4, <2>5
      <4>2. g[n - 1] = f[n - 1] /\ g[n] = last
        BY <2>4, <4>1
      <4> QED BY <2>5, <3>1, <4>2
    <3>2. CASE i # n
      <4>1. i \in 0..n - 1 /\ g[i] = f[i]
        BY <2>4, <3>2
      <4>2. f[i] = IF i = 0 THEN <<>>
                   ELSE IF s[i] \in S THEN Append(f[i - 1], s[i]) ELSE f[i - 1]
        BY <2>6, <4>1 DEF IsUpTo
      <4>3. i # 0 => g[i - 1] = f[i - 1]
        BY <2>4, <4>1
      <4> QED BY <4>1, <4>2, <4>3
    <3> QED BY <3>1, <3>2
  <2>8. g = [i \in 0..n |-> g[i]]
    OBVIOUS
  <2> HIDE DEF g
  <2>9. IsUpTo(s, S, n, g)
    BY <2>7, <2>8 DEF IsUpTo
  <2> QED BY <2>4, <2>9
<1> QED BY <1>1

LEMMA AmongIs ==
  ASSUME NEW U, NEW s \in Seq(U), NEW S
  PROVE  \E f : IsUpTo(s, S, Len(s), f) /\ Among(s, S) = f[Len(s)]
<1>1. Len(s) \in Nat
  OBVIOUS
<1>2. \E f : IsUpTo(s, S, Len(s), f)
  BY <1>1, UpToExists
<1> DEFINE f == CHOOSE f : IsUpTo(s, S, Len(s), f)
<1>3. IsUpTo(s, S, Len(s), f)
  BY <1>2
<1>4. Among(s, S) = f[Len(s)]
  BY DEF Among, IsUpTo
<1> QED BY <1>3, <1>4

\* Up to every place: what is taken over is typed, in S and from that part.
LEMMA UpTo ==
  ASSUME NEW U, NEW s \in Seq(U), NEW S, NEW f, IsUpTo(s, S, Len(s), f)
  PROVE  \A n \in 0..Len(s) :
            /\ f[n] \in Seq(U)
            /\ \A x : In(x, f[n]) <=> x \in S /\ \E i \in 1..n : s[i] = x
            /\ Injective(s) => Injective(f[n])
<1> DEFINE Fine(n) == /\ f[n] \in Seq(U)
                      /\ \A x : In(x, f[n]) <=> x \in S /\ \E i \in 1..n : s[i] = x
                      /\ Injective(s) => Injective(f[n])
           Bad == {n \in 0..Len(s) : ~Fine(n)}
<1>1. SUFFICES ASSUME Bad # {} PROVE FALSE
  OBVIOUS
<1>2. Len(s) \in Nat /\ DOMAIN s = 1..Len(s)
  OBVIOUS
<1>3. Bad \in SUBSET Nat
  BY <1>2
<1>4. PICK n \in Bad : \A k \in Bad : n <= k
  <2>1. Min(Bad) \in Bad /\ \A k \in Bad : Min(Bad) <= k
    BY <1>1, <1>3, MinOfNats
  <2> QED BY <2>1
<1>5. n \in 0..Len(s) /\ n \in Nat
  BY <1>2, <1>4
<1>6. f[n] = IF n = 0 THEN <<>>
             ELSE IF s[n] \in S THEN Append(f[n - 1], s[n]) ELSE f[n - 1]
  BY <1>5 DEF IsUpTo
<1>7. ~Fine(n)
  BY <1>4
<1>8. n # 0
  <2>1. ASSUME n = 0 PROVE Fine(n)
    <3>1. f[n] = <<>>
      BY <2>1, <1>6
    <3>2. ~\E i \in 1..n : TRUE
      BY <2>1
    <3> QED BY <3>1, <3>2, InNothing DEF Injective
  <2> QED BY <1>7, <2>1
<1>9. PICK m \in 0..Len(s) : m = n - 1
  BY <1>5, <1>8
<1>10. Fine(m)
  <2>1. ~(n <= m)
    BY <1>2, <1>5, <1>9
  <2>2. m \notin Bad
    BY <1>4, <2>1
  <2> QED BY <2>2
<1>11. n \in 1..Len(s) /\ s[n] \in U
  BY <1>2, <1>5, <1>8
<1>12. \A i : i \in 1..n <=> i \in 1..m \/ i = n
  BY <1>5, <1>8, <1>9
<1>13. CASE s[n] \in S
  <2>1. PICK r, e : r = f[m] /\ e = s[n]
    OBVIOUS
  <2>2. f[n] = Append(r, e) /\ r \in Seq(U) /\ e \in U
    BY <1>6, <1>8, <1>9, <1>10, <1>11, <1>13, <2>1
  <2>3. Append(r, e) \in Seq(U) /\ \A x : In(x, Append(r, e)) <=> In(x, r) \/ x = e
    BY <2>2, InAppend, AppendTyped
  <2>4. \A x : In(x, f[n]) <=> x \in S /\ \E i \in 1..n : s[i] = x
    BY <1>10, <1>12, <1>13, <2>1, <2>2, <2>3
  <2>5. ASSUME Injective(s) PROVE Injective(f[n])
    <3>1. Injective(r) /\ \A x : In(x, r) => \E i \in 1..m : s[i] = x
      BY <1>10, <2>1, <2>5
    <3>2. \A i \in 1..m : s[i] # e
      <4> SUFFICES ASSUME NEW i \in 1..m, s[i] = s[n] PROVE FALSE
        BY <2>1
      <4>1. i \in 1..Len(s) /\ i # n
        BY <1>2, <1>5, <1>9
      <4> QED BY <1>2, <1>11, <2>5, <4>1 DEF Injective
    <3>3. ~In(e, r)
      BY <3>1, <3>2
    <3> QED BY <2>2, <3>1, <3>3, AppendOnce
  <2> QED BY <1>7, <2>2, <2>3, <2>4, <2>5
<1>14. CASE s[n] \notin S
  <2>1. f[n] = f[m]
    BY <1>6, <1>8, <1>9, <1>14
  <2>2. \A x : In(x, f[n]) <=> x \in S /\ \E i \in 1..n : s[i] = x
    BY <1>10, <1>12, <1>14, <2>1
  <2> QED BY <1>7, <1>10, <2>1, <2>2
<1> QED BY <1>13, <1>14

LEMMA AmongTyped ==
  ASSUME NEW U, NEW s \in Seq(U), NEW S
  PROVE  Among(s, S) \in Seq(U)
<1>1. PICK f : IsUpTo(s, S, Len(s), f) /\ Among(s, S) = f[Len(s)]
  BY AmongIs
<1>2. Len(s) \in 0..Len(s)
  OBVIOUS
<1> QED BY <1>1, <1>2, UpTo

LEMMA InAmong ==
  ASSUME NEW U, NEW s \in Seq(U), NEW S
  PROVE  \A x : In(x, Among(s, S)) <=> In(x, s) /\ x \in S
<1>1. PICK f : IsUpTo(s, S, Len(s), f) /\ Among(s, S) = f[Len(s)]
  BY AmongIs
<1>2. Len(s) \in 0..Len(s) /\ DOMAIN s = 1..Len(s)
  OBVIOUS
<1>3. \A x : In(x, Among(s, S)) <=> x \in S /\ \E i \in 1..Len(s) : s[i] = x
  BY <1>1, <1>2, UpTo
<1> QED BY <1>2, <1>3 DEF In

LEMMA AmongOnce ==
  ASSUME NEW U, NEW s \in Seq(U), NEW S, Injective(s)
  PROVE  Injective(Among(s, S))
<1>1. PICK f : IsUpTo(s, S, Len(s), f) /\ Among(s, S) = f[Len(s)]
  BY AmongIs
<1>2. Len(s) \in 0..Len(s)
  OBVIOUS
<1> QED BY <1>1, <1>2, UpTo
-----------------------------------------------------------------------------
(* The order of a list.                                                    *)

Ahead(x, y, s) == \E i, j \in DOMAIN s : i < j /\ s[i] = x /\ s[j] = y

LEMMA AheadIn == \A x, y, s : Ahead(x, y, s) => In(x, s) /\ In(y, s)
BY DEF Ahead, In

LEMMA AheadNothing == \A x, y : ~Ahead(x, y, <<>>)
BY DEF Ahead

LEMMA AheadConcat ==
  ASSUME NEW S, NEW s \in Seq(S), NEW r \in Seq(S)
  PROVE  \A x, y : Ahead(x, y, s \o r) <=>
             Ahead(x, y, s) \/ Ahead(x, y, r) \/ (In(x, s) /\ In(y, r))
<1>1. /\ s \o r \in Seq(S) /\ Len(s \o r) = Len(s) + Len(r)
      /\ Len(s) \in Nat /\ Len(r) \in Nat
      /\ DOMAIN s = 1..Len(s) /\ DOMAIN r = 1..Len(r)
      /\ \A i \in 1..Len(s) + Len(r) : (s \o r)[i] =
             IF i <= Len(s) THEN s[i] ELSE r[i - Len(s)]
  BY ConcatProperties
<1>2. DOMAIN (s \o r) = 1..Len(s) + Len(r)
  BY <1>1
<1>3. PICK m \in Nat, n \in Nat : m = Len(s) /\ n = Len(r)
  BY <1>1
<1>4. PICK c : c = s \o r
  OBVIOUS
<1>5. /\ DOMAIN c = 1..m + n /\ DOMAIN s = 1..m /\ DOMAIN r = 1..n
      /\ \A i \in 1..m + n : c[i] = IF i <= m THEN s[i] ELSE r[i - m]
  BY <1>1, <1>2, <1>3, <1>4
<1>6. /\ \A i \in 1..m : i \in 1..m + n /\ c[i] = s[i]
      /\ \A i \in 1..n : i + m \in 1..m + n /\ c[i + m] = r[i] /\ m < i + m
  <2>1. \A i \in 1..m : i \in 1..m + n /\ i <= m
    OBVIOUS
  <2>2. \A i \in 1..n : i + m \in 1..m + n /\ ~(i + m <= m) /\ (i + m) - m = i
    OBVIOUS
  <2> QED BY <1>5, <2>1, <2>2
<1>7. \A i \in 1..m + n : \/ i \in 1..m /\ c[i] = s[i]
                          \/ i - m \in 1..n /\ c[i] = r[i - m] /\ m < i
  BY <1>5
<1> SUFFICES ASSUME NEW x, NEW y
             PROVE  Ahead(x, y, c) <=> Ahead(x, y, s) \/ Ahead(x, y, r) \/ (In(x, s) /\ In(y, r))
  BY <1>4
<1>8. ASSUME Ahead(x, y, c) PROVE Ahead(x, y, s) \/ Ahead(x, y, r) \/ (In(x, s) /\ In(y, r))
  <2>1. PICK i \in 1..m + n, j \in 1..m + n : i < j /\ c[i] = x /\ c[j] = y
    BY <1>5, <1>8 DEF Ahead
  <2>2. CASE j \in 1..m /\ c[j] = s[j]
    <3>1. i \in 1..m
      BY <2>1, <2>2
    <3> QED BY <1>5, <1>6, <2>1, <2>2, <3>1 DEF Ahead
  <2>3. CASE j - m \in 1..n /\ c[j] = r[j - m]
    <3>1. CASE i \in 1..m /\ c[i] = s[i]
      BY <1>5, <2>1, <2>3, <3>1 DEF In
    <3>2. CASE i - m \in 1..n /\ c[i] = r[i - m]
      <4>1. i - m < j - m
        BY <2>1
      <4> QED BY <1>5, <2>1, <2>3, <3>2, <4>1 DEF Ahead
    <3> QED BY <1>7, <3>1, <3>2
  <2> QED BY <1>7, <2>2, <2>3
<1>9. ASSUME Ahead(x, y, s) PROVE Ahead(x, y, c)
  BY <1>5, <1>6, <1>9 DEF Ahead
<1>10. ASSUME Ahead(x, y, r) PROVE Ahead(x, y, c)
  <2>1. PICK i \in 1..n, j \in 1..n : i < j /\ r[i] = x /\ r[j] = y
    BY <1>5, <1>10 DEF Ahead
  <2>2. i + m < j + m
    BY <2>1
  <2> QED BY <1>5, <1>6, <2>1, <2>2 DEF Ahead
<1>11. ASSUME In(x, s), In(y, r) PROVE Ahead(x, y, c)
  <2>1. PICK i \in 1..m, j \in 1..n : s[i] = x /\ r[j] = y
    BY <1>5, <1>11 DEF In
  <2>2. i < j + m
    BY <1>6
  <2> QED BY <1>5, <1>6, <2>1, <2>2 DEF Ahead
<1> QED BY <1>8, <1>9, <1>10, <1>11

LEMMA AheadReverse ==
  ASSUME NEW S, NEW s \in Seq(S), NEW x, NEW y, Ahead(x, y, Reverse(s))
  PROVE  Ahead(y, x, s)
<1>1. /\ DOMAIN Reverse(s) = 1..Len(s) /\ DOMAIN s = 1..Len(s) /\ Len(s) \in Nat
      /\ \A i \in 1..Len(s) : Reverse(s)[i] = s[Len(s) - i + 1]
  BY DEF Reverse
<1>2. PICK n \in Nat : n = Len(s)
  BY <1>1
<1>3. PICK i \in 1..n, j \in 1..n : i < j /\ Reverse(s)[i] = x /\ Reverse(s)[j] = y
  BY <1>1, <1>2 DEF Ahead
<1>4. PICK k \in 1..n, l \in 1..n : k = n - i + 1 /\ l = n - j + 1
  <2>1. n - i + 1 \in 1..n /\ n - j + 1 \in 1..n
    OBVIOUS
  <2> QED BY <2>1
<1>5. s[k] = x /\ s[l] = y
  BY <1>1, <1>2, <1>3, <1>4
<1>6. l < k
  BY <1>3, <1>4
<1> QED BY <1>1, <1>2, <1>5, <1>6 DEF Ahead

LEMMA AheadRemove ==
  ASSUME NEW S, NEW s \in Seq(S), NEW z
  PROVE  /\ \A x, y : Ahead(x, y, RemoveFirst(s, z)) => Ahead(x, y, s)
         /\ \A x, y : Ahead(x, y, s) /\ x # z /\ y # z => Ahead(x, y, RemoveFirst(s, z))
<1>1. CASE In(z, s)
  <2>1. PICK k \in 1..Len(s) :
           s[k] = z /\ RemoveFirst(s, z) = SubSeq(s, 1, k - 1) \o SubSeq(s, k + 1, Len(s))
    BY <1>1, RemovedWhere
  <2>2. PICK r : r = RemoveFirst(s, z)
    OBVIOUS
  <2>3. /\ r \in Seq(S) /\ Len(r) = Len(s) - 1
        /\ \A i \in 1..Len(s) - 1 : r[i] = IF i < k THEN s[i] ELSE s[i + 1]
    BY <2>1, <2>2, WithoutPlace
  <2>4. PICK n \in Nat : n = Len(s)
    OBVIOUS
  <2>5. /\ DOMAIN r = 1..n - 1 /\ DOMAIN s = 1..n /\ k \in 1..n /\ s[k] = z
        /\ \A i \in 1..n - 1 : r[i] = IF i < k THEN s[i] ELSE s[i + 1]
    BY <2>1, <2>3, <2>4
  <2>6. ASSUME NEW x, NEW y, Ahead(x, y, r) PROVE Ahead(x, y, s)
    <3>1. PICK i \in 1..n - 1, j \in 1..n - 1 : i < j /\ r[i] = x /\ r[j] = y
      BY <2>5, <2>6 DEF Ahead
    <3>2. PICK a \in 1..n : r[i] = s[a] /\ a = IF i < k THEN i ELSE i + 1
      BY <2>5
    <3>3. PICK b \in 1..n : r[j] = s[b] /\ b = IF j < k THEN j ELSE j + 1
      BY <2>5
    <3>4. a < b
      BY <2>5, <3>1, <3>2, <3>3
    <3> QED BY <2>5, <3>1, <3>2, <3>3, <3>4 DEF Ahead
  <2>7. ASSUME NEW x, NEW y, Ahead(x, y, s), x # z, y # z PROVE Ahead(x, y, r)
    <3>1. PICK i \in 1..n, j \in 1..n : i < j /\ s[i] = x /\ s[j] = y
      BY <2>5, <2>7 DEF Ahead
    <3>2. i # k /\ j # k
      BY <2>5, <2>7, <3>1
    <3>3. PICK a \in 1..n - 1 : r[a] = x /\ a = IF i < k THEN i ELSE i - 1
      <4>1. i < k => i \in 1..n - 1 /\ r[i] = x
        BY <2>5, <3>1
      <4>2. ~(i < k) => i - 1 \in 1..n - 1 /\ ~(i - 1 < k) /\ (i - 1) + 1 = i
        BY <2>5, <3>1, <3>2
      <4> QED BY <2>5, <3>1, <4>1, <4>2
    <3>4. PICK b \in 1..n - 1 : r[b] = y /\ b = IF j < k THEN j ELSE j - 1
      <4>1. j < k => j \in 1..n - 1 /\ r[j] = y
        BY <2>5, <3>1
      <4>2. ~(j < k) => j - 1 \in 1..n - 1 /\ ~(j - 1 < k) /\ (j - 1) + 1 = j
        BY <2>5, <3>1, <3>2
      <4> QED BY <2>5, <3>1, <4>1, <4>2
    <3>5. a < b
      BY <2>5, <3>1, <3>2, <3>3, <3>4
    <3> QED BY <2>5, <3>3, <3>4, <3>5 DEF Ahead
  <2> QED BY <2>2, <2>6, <2>7
<1>2. CASE ~In(z, s)
  <2>1. RemoveFirst(s, z) = s
    BY <1>2 DEF RemoveFirst, In
  <2> QED BY <2>1
<1> QED BY <1>1, <1>2

\* The head of a list.
LEMMA AheadHead ==
  ASSUME NEW S, NEW s \in Seq(S), s # <<>>
  PROVE  /\ \A y : In(y, s) /\ y # Head(s) => Ahead(Head(s), y, s)
         /\ Injective(s) => \A x : ~Ahead(x, Head(s), s)
<1>1. PICK n \in Nat : n = Len(s) /\ DOMAIN s = 1..n /\ 1 \in 1..n /\ Head(s) = s[1]
  <2>1. Len(s) \in Nat /\ Len(s) # 0 /\ DOMAIN s = 1..Len(s) /\ Head(s) = s[1]
    OBVIOUS
  <2>2. 1 \in 1..Len(s)
    BY <2>1
  <2> QED BY <2>1, <2>2
<1>2. ASSUME NEW y, In(y, s), y # Head(s) PROVE Ahead(Head(s), y, s)
  <2>1. PICK i \in 1..n : s[i] = y
    BY <1>1, <1>2 DEF In
  <2>2. i # 1
    BY <1>1, <1>2, <2>1
  <2>3. 1 < i
    BY <2>2
  <2> QED BY <1>1, <2>1, <2>3 DEF Ahead
<1>3. ASSUME Injective(s), NEW x, Ahead(x, Head(s), s) PROVE FALSE
  <2>1. PICK i \in 1..n, j \in 1..n : i < j /\ s[j] = s[1]
    BY <1>1, <1>3 DEF Ahead
  <2>2. j = 1
    BY <1>1, <1>3, <2>1 DEF Injective
  <2> QED BY <2>1, <2>2
<1> QED BY <1>2, <1>3

\* A list that is rotated is cut in two.
LEMMA RotateIs ==
  ASSUME NEW S, NEW s \in Seq(S), s # <<>>
  PROVE  /\ s = <<Head(s)>> \o Tail(s) /\ Append(Tail(s), Head(s)) = Tail(s) \o <<Head(s)>>
         /\ Tail(s) \in Seq(S) /\ Head(s) \in S /\ <<Head(s)>> \in Seq(S)
OBVIOUS

LEMMA InSingle == \A x, y : In(x, <<y>>) <=> x = y
<1>1. ASSUME NEW x, NEW y PROVE In(x, <<y>>) <=> x = y
  <2>1. DOMAIN <<y>> = {1} /\ <<y>>[1] = y
    OBVIOUS
  <2> QED BY <2>1 DEF In
<1> QED BY <1>1

LEMMA SingleOnce == \A y : Injective(<<y>>)
<1>1. ASSUME NEW y PROVE Injective(<<y>>)
  <2>1. DOMAIN <<y>> = {1}
    OBVIOUS
  <2> QED BY <2>1 DEF Injective
<1> QED BY <1>1

LEMMA NoneAheadInSingle == \A x, y, z : ~Ahead(x, y, <<z>>)
<1>1. ASSUME NEW x, NEW y, NEW z PROVE ~Ahead(x, y, <<z>>)
  <2>1. DOMAIN <<z>> = {1}
    OBVIOUS
  <2> QED BY <2>1 DEF Ahead
<1> QED BY <1>1

LEMMA RotateAhead ==
  ASSUME NEW S, NEW s \in Seq(S), NEW z, NEW x, NEW y, y # z, Ahead(x, y, Rotate(s, z))
  PROVE  /\ Ahead(x, y, s)
         /\ Injective(s) /\ s # <<>> /\ Head(s) = z => x # z
<1>1. CASE s # <<>> /\ Head(s) = z
  <2>1. /\ Tail(s) \in Seq(S) /\ <<z>> \in Seq(S)
        /\ s = <<z>> \o Tail(s) /\ Rotate(s, z) = Tail(s) \o <<z>>
    <3>1. /\ s = <<Head(s)>> \o Tail(s) /\ Append(Tail(s), Head(s)) = Tail(s) \o <<Head(s)>>
          /\ Tail(s) \in Seq(S) /\ <<Head(s)>> \in Seq(S)
      BY <1>1, RotateIs
    <3>2. Rotate(s, z) = Append(Tail(s), z) /\ Head(s) = z
      BY <1>1 DEF Rotate
    <3> QED BY <3>1, <3>2
  <2>2. PICK r \in Seq(S), q \in Seq(S) :
           r = Tail(s) /\ q = <<z>> /\ s = q \o r /\ Rotate(s, z) = r \o q
    BY <2>1
  <2>3. /\ \A x1 : In(x1, q) <=> x1 = z
        /\ \A x1, y1 : ~Ahead(x1, y1, q)
        /\ Injective(q)
    BY <2>2, InSingle, NoneAheadInSingle, SingleOnce
  <2>4. Ahead(x, y, r \o q) /\ ~Ahead(x, y, q) /\ ~In(y, q)
    BY <2>2, <2>3
  <2>5. Ahead(x, y, r)
    BY <2>4, AheadConcat
  <2>6. Ahead(x, y, s)
    BY <2>2, <2>5, AheadConcat
  <2>7. ASSUME Injective(s), x = z PROVE FALSE
    <3>1. In(z, q) /\ In(x, r)
      BY <2>2, <2>5, <2>3, AheadIn
    <3>2. Ahead(z, x, s)
      BY <2>2, <3>1, AheadConcat
    <3> QED BY <1>1, <2>7, <3>2, AheadHead
  <2> QED BY <2>6, <2>7
<1>2. CASE ~(s # <<>> /\ Head(s) = z)
  BY <1>2 DEF Rotate
<1> QED BY <1>1, <1>2

LEMMA RotateOnce ==
  ASSUME NEW S, NEW s \in Seq(S), NEW z, Injective(s)
  PROVE  Injective(Rotate(s, z))
<1>1. CASE s # <<>> /\ Head(s) = z
  <2>1. /\ Tail(s) \in Seq(S) /\ <<z>> \in Seq(S)
        /\ s = <<z>> \o Tail(s) /\ Rotate(s, z) = Tail(s) \o <<z>>
    <3>1. /\ s = <<Head(s)>> \o Tail(s) /\ Append(Tail(s), Head(s)) = Tail(s) \o <<Head(s)>>
          /\ Tail(s) \in Seq(S) /\ <<Head(s)>> \in Seq(S)
      BY <1>1, RotateIs
    <3>2. Rotate(s, z) = Append(Tail(s), z) /\ Head(s) = z
      BY <1>1 DEF Rotate
    <3> QED BY <3>1, <3>2
  <2>2. PICK r \in Seq(S), q \in Seq(S) :
           r = Tail(s) /\ q = <<z>> /\ s = q \o r /\ Rotate(s, z) = r \o q
    BY <2>1
  <2>3. /\ \A x1 : In(x1, q) <=> x1 = z
        /\ \A x1, y1 : ~Ahead(x1, y1, q)
        /\ Injective(q)
    BY <2>2, InSingle, NoneAheadInSingle, SingleOnce
  <2>4. ~In(z, r)
    <3>1. In(z, r) => Ahead(z, z, s)
      <4>1. \A x1, y1 : In(x1, q) /\ In(y1, r) => Ahead(x1, y1, q \o r)
        BY AheadConcat
      <4> QED BY <2>2, <2>3, <4>1
    <3> QED BY <1>1, <3>1, AheadHead
  <2>5. Injective(q) /\ \A x : ~(In(x, r) /\ In(x, q))
    BY <2>4, <2>3
  <2>6. Injective(r)
    <3>1. Len(s) \in Nat /\ Len(r) = Len(s) - 1 /\ \A i \in 1..Len(r) : r[i] = s[i + 1]
      BY <1>1, <2>2, HeadTailProperties
    <3>2. PICK n \in Nat : n = Len(s)
      BY <3>1
    <3>3. DOMAIN r = 1..n - 1 /\ DOMAIN s = 1..n /\ \A i \in 1..n - 1 : r[i] = s[i + 1] /\ i + 1 \in 1..n
      BY <3>1, <3>2
    <3>4. \A i \in 1..n - 1, j \in 1..n - 1 : i + 1 = j + 1 => i = j
      OBVIOUS
    <3> QED BY <3>3, <3>4 DEF Injective
  <2> QED BY <2>2, <2>5, <2>6, ConcatOnce
<1>2. CASE ~(s # <<>> /\ Head(s) = z)
  BY <1>2 DEF Rotate
<1> QED BY <1>1, <1>2

LEMMA ReverseOnce ==
  ASSUME NEW S, NEW s \in Seq(S), Injective(s)
  PROVE  Injective(Reverse(s))
<1>1. /\ DOMAIN Reverse(s) = 1..Len(s) /\ DOMAIN s = 1..Len(s) /\ Len(s) \in Nat
      /\ \A i \in 1..Len(s) : Reverse(s)[i] = s[Len(s) - i + 1]
  BY DEF Reverse
<1>2. PICK n \in Nat : n = Len(s)
  BY <1>1
<1>3. \A i \in 1..n, j \in 1..n : /\ n - i + 1 \in 1..n /\ n - j + 1 \in 1..n
                                  /\ n - i + 1 = n - j + 1 => i = j
  OBVIOUS
<1> QED BY <1>1, <1>2, <1>3 DEF Injective
-----------------------------------------------------------------------------
(* The lists and dependences of task.c.                                    *)

(* Where a task is on its way out: Late, behind the step that releases the *)
(* tasks that wait for it.                                                 *)
Late == {"finish2", "finish2null", "finish3"}
Finishing == {"finish1"} \cup Late
Past(y) == \E s \in Threads : Cur(s) = y /\ tpc[s] \in Late
Going(y) == Unfinished(y) /\ ~Past(y)

(* p can still be a parent: a task is none any more from the step on in    *)
(* which its children lose their parent.                                   *)
Alive(p) ==
    /\ p # None
    /\ p \in Tasks => /\ kind[p] # "gone"
                      /\ \A s \in Threads : Cur(s) = p => tpc[s] # "finish3"

(* Released, but not counted in the queue yet.                             *)
Ready(x) == status[x] = "blocked" /\ num_dependees[x] = 0

\* The frames of a stack are tasks with the loop that runs them.
Frames == [task : Tasks, ctx : Contexts]

(* The types of the variables that say where the tasks are.                *)
Typed ==
    /\ status \in [Tasks -> TB!Statuses]
    /\ btask \in [Threads -> Tasks \cup {None}]
    /\ pc \in [Threads -> TB!PCs]
    /\ task_queue \in Seq(Tasks)
    /\ kind \in [Tasks -> Kinds]
    /\ parent \in [Tasks -> Owners \cup {None}]
    /\ children \in [Owners -> Seq(Tasks)]
    /\ depend \in [Tasks -> [Addrs -> {"no", "in", "out"}]]
    /\ depend_hash \in [Owners -> [Addrs -> SUBSET Tasks]]
    /\ dependers \in [Tasks -> Seq(Tasks)]
    /\ num_dependees \in [Tasks -> Int]
    /\ tpc \in [Threads -> Positions]
    /\ stack \in [Threads -> Seq(Frames)]
    /\ new \in [Threads -> Tasks \cup {None}]
    /\ after \in [Tasks -> SUBSET Tasks]

(* A task is on one stack at most, and its kind says how it got there.     *)
StackInv ==
    /\ \A t \in Threads : \A i \in DOMAIN stack[t] :
          /\ kind[stack[t][i].task] =
                IF stack[t][i].ctx = "inline" THEN "iffalse" ELSE "tied"
          /\ stack[t][i].ctx = "barrier" => i = 1 /\ btask[t] = stack[t][i].task
    /\ \A s, t \in Threads : \A i \in DOMAIN stack[s], j \in DOMAIN stack[t] :
          stack[s][i].task = stack[t][j].task => s = t /\ i = j
    /\ \A t \in Threads : btask[t] # None =>
          stack[t] # <<>> /\ stack[t][1] = [task |-> btask[t], ctx |-> "barrier"]

(* The kind of a task follows its state in the barrier; the task under     *)
(* construction is known to the thread that creates it only.               *)
KindInv ==
    /\ \A x \in Tasks :
          /\ status[x] \in {"blocked", "queued"} => kind[x] = "waiting"
          /\ status[x] = "running" <=> kind[x] = "tied"
          /\ status[x] = "done" => kind[x] = "gone"
          /\ kind[x] = "gone" => status[x] \in {"none", "done"}
          /\ kind[x] = "unused" => parent[x] = None
    /\ \A t \in Threads : new[t] # None =>
          /\ kind[new[t]] = "waiting" /\ status[new[t]] = "none"
          /\ parent[new[t]] = Cur(t)
          /\ \A s \in Threads : new[s] = new[t] => s = t

(* Where a thread is in task.c and in the barrier.                         *)
PosOf(t) ==
    /\ tpc[t] = "defer" <=> new[t] # None
    /\ tpc[t] \in Finishing =>
          /\ stack[t] # <<>> /\ Context(t) # "inline"
          /\ pc[t] = "user" \/ Context(t) = "barrier"
    /\ tpc[t] # "code" => pc[t] \in {"user", "finish", "cancelled"}
    /\ pc[t] \in {"finish", "cancelled"} =>
          tpc[t] \in Finishing /\ Context(t) = "barrier"
    /\ pc[t] \notin {"user", "finish", "cancelled"} =>
          stack[t] = <<>> \/ (pc[t] = "post" /\ btask[t] # None)

(* The sections of several steps are entered with task_lock held.          *)
LockOf(t) ==
    pc[t] = "top" \/ tpc[t] \in {"taskwait", "taskgroup"} \cup Finishing => task_lock = t

PosInv == \A t \in Threads : PosOf(t) /\ LockOf(t)

(* The queue holds, once, the tasks that nothing keeps from being started. *)
QueueInv ==
    /\ Injective(task_queue)
    /\ \A x \in Tasks : In(x, task_queue) <=> status[x] = "queued" \/ Ready(x)

(* x is in the list of dependers of y.                                     *)
Edge(y, x) == In(x, dependers[y])
Before(x) == {y \in Tasks : Edge(y, x)}

(* x waits for y: both are siblings, y is not finished, and num_dependees  *)
(* counts such y.                                                          *)
DepInv ==
    /\ \A y \in Tasks : Injective(dependers[y])
    /\ \A x, y \in Tasks : Edge(y, x) =>
          /\ status[x] = "blocked" /\ Going(y)
          /\ \A p \in Owners : Alive(p) => (parent[x] = p <=> parent[y] = p)
    /\ \A x \in Tasks : status[x] = "blocked" =>
          /\ num_dependees[x] = Cardinality(Before(x))
          /\ num_dependees[x] = 0 => \E t \in Threads : tpc[t] \in Late

(* Siblings do not wait for each other in a circle: there always is one    *)
(* that waits for none of a given set.                                     *)
Acyclic ==
    \A S \in SUBSET Tasks : S # {} => \E x \in S : \A z \in S : ~Edge(z, x)

(* Two depend clauses on one address, one of them depend(out).             *)
Conflict(d, e) ==
    \E a \in Addrs : "no" \notin {d[a], e[a]} /\ "out" \in {d[a], e[a]}

(* The hash table of a parent: its children with a clause on the address,  *)
(* those excepted that a later depend(out) in the table has to wait for.   *)
HashInv ==
    \A p \in Owners, a \in Addrs : Alive(p) =>
        /\ \A y \in depend_hash[p][a] :
              Going(y) /\ parent[y] = p /\ depend[y][a] # "no"
        /\ \A y \in Tasks : Going(y) /\ parent[y] = p /\ depend[y][a] # "no" =>
              \/ y \in depend_hash[p][a]
              \/ \E z \in depend_hash[p][a] : depend[z][a] = "out" /\ y \in after[z]

(* The children a parent's list must hold.                                 *)
ChildInv ==
    \A p \in Owners : Alive(p) =>
        /\ \A y \in Tasks : In(y, children[p]) => parent[y] = p
        /\ \A y \in Tasks :
              Going(y) /\ parent[y] = p /\ (status[y] # "blocked" \/ Ready(y)) =>
                  In(y, children[p])

(* after[x] is finished before x is queued: until then x waits for each of *)
(* its members, or for a sibling that had to wait for it.                  *)
AfterInv ==
    /\ \A x \in Tasks : \A y \in after[x] : status[y] # "none"
    /\ \A x \in Tasks : status[x] \in {"queued", "running"} \/ kind[x] = "iffalse" =>
          \A y \in after[x] : status[y] = "done"
    /\ \A x \in Tasks : status[x] = "blocked" =>
          \A y \in after[x] : Going(y) =>
              \E z \in Tasks : Edge(z, x) /\ (z = y \/ y \in after[z])
    /\ \A t \in Threads : new[t] # None =>
          \A y \in Tasks : Unfinished(y) =>
              (y \in after[new[t]] <=>
                  parent[y] = Cur(t) /\ Conflict(depend[new[t]], depend[y]))

\* Threads, tasks and None are different things.
LEMMA Names ==
  /\ Threads \cap Tasks = {} /\ None \notin Owners /\ None \notin Groups
  /\ IsFiniteSet(Tasks) /\ Owners = Threads \cup Tasks
  /\ \A r \in Regions : r.tasks \subseteq Tasks
BY TasksAssumption DEF Owners

LEMMA LastOfStack ==
  ASSUME Typed, NEW t \in Threads, stack[t] # <<>>
  PROVE  /\ Len(stack[t]) \in DOMAIN stack[t] /\ Len(stack[t]) \in Nat \ {0}
         /\ DOMAIN stack[t] = 1..Len(stack[t])
         /\ Cur(t) = stack[t][Len(stack[t])].task
         /\ Context(t) = stack[t][Len(stack[t])].ctx
         /\ Cur(t) \in Tasks /\ Context(t) \in Contexts
<1>1. stack[t] \in Seq(Frames)
  BY DEF Typed
<1>2. /\ Len(stack[t]) \in Nat /\ Len(stack[t]) # 0 /\ DOMAIN stack[t] = 1..Len(stack[t])
  BY <1>1
<1>3. stack[t][Len(stack[t])] \in Frames
  BY <1>1, <1>2, ElementOfSeq
<1>4. Last(stack[t]) = stack[t][Len(stack[t])]
  BY DEF Last
<1> QED BY <1>2, <1>3, <1>4 DEF Cur, Context, Frames

LEMMA CurTyped ==
  ASSUME Typed, NEW t \in Threads
  PROVE  Cur(t) \in Owners /\ (Cur(t) \in Tasks <=> stack[t] # <<>>)
<1>1. CASE stack[t] = <<>>
  BY <1>1, Names DEF Cur
<1>2. CASE stack[t] # <<>>
  BY <1>2, LastOfStack, Names
<1> QED BY <1>1, <1>2

\* No two threads are in the same task.
LEMMA CurInjective ==
  ASSUME Typed, StackInv, NEW s \in Threads, NEW t \in Threads, Cur(s) = Cur(t)
  PROVE  s = t
<1>1. CASE stack[s] = <<>>
  <2>1. stack[t] = <<>>
    BY <1>1, CurTyped
  <2> QED BY <1>1, <2>1 DEF Cur
<1>2. CASE stack[s] # <<>>
  <2>1. stack[t] # <<>>
    BY <1>2, CurTyped
  <2>2. /\ Len(stack[s]) \in DOMAIN stack[s] /\ Cur(s) = stack[s][Len(stack[s])].task
        /\ Len(stack[t]) \in DOMAIN stack[t] /\ Cur(t) = stack[t][Len(stack[t])].task
    BY <1>2, <2>1, LastOfStack
  <2>3. \A i \in DOMAIN stack[s], j \in DOMAIN stack[t] :
           stack[s][i].task = stack[t][j].task => s = t /\ i = j
    BY DEF StackInv
  <2> QED BY <2>2, <2>3
<1> QED BY <1>1, <1>2

LEMMA KindOnStack ==
  ASSUME Typed, StackInv, NEW t \in Threads, stack[t] # <<>>
  PROVE  kind[Cur(t)] = IF Context(t) = "inline" THEN "iffalse" ELSE "tied"
BY LastOfStack DEF StackInv

\* What a thread is in is not freed.
LEMMA CurAlive ==
  ASSUME Typed, StackInv, NEW t \in Threads, tpc[t] # "finish3"
  PROVE  Alive(Cur(t))
<1>1. Cur(t) # None
  BY CurTyped, Names
<1>2. ASSUME Cur(t) \in Tasks PROVE kind[Cur(t)] # "gone"
  BY <1>2, CurTyped, KindOnStack
<1> QED BY <1>1, <1>2, CurInjective DEF Alive

\* One thread at a time is in the sections that take several steps.
LEMMA OneFinishes ==
  ASSUME PosInv, NEW t \in Threads, task_lock = t
  PROVE  \A s \in Threads : s # t => tpc[s] \notin {"taskwait", "taskgroup"} \cup Finishing
BY DEF PosInv, LockOf

\* While the lock is free no thread is in such a section.
LEMMA NobodyFinishes ==
  ASSUME PosInv, task_lock = None
  PROVE  \A s \in Threads : tpc[s] \notin {"taskwait", "taskgroup"} \cup Finishing
BY TasksAssumption DEF PosInv, LockOf

LEMMA NobodyPast ==
  ASSUME \A s \in Threads : tpc[s] \notin Late
  PROVE  /\ \A y : ~Past(y)
         /\ \A y : Going(y) <=> Unfinished(y)
BY DEF Past, Going

\* The task that is being finished.
LEMMA FinishedTask ==
  ASSUME Typed, StackInv, KindInv, PosInv, NEW t \in Threads, tpc[t] \in Finishing
  PROVE  /\ Cur(t) \in Tasks /\ kind[Cur(t)] = "tied" /\ status[Cur(t)] = "running"
         /\ new[t] = None /\ task_lock = t /\ Context(t) \in Contexts
         /\ \A s \in Threads : s # t => tpc[s] \notin {"taskwait", "taskgroup"} \cup Finishing
         /\ \A s \in Threads : s # t => Cur(s) # Cur(t)
<1>1. stack[t] # <<>> /\ Context(t) # "inline" /\ new[t] = None /\ task_lock = t
  BY DEF PosInv, PosOf, LockOf, Finishing, Late
<1>2. Cur(t) \in Tasks /\ kind[Cur(t)] = "tied" /\ Context(t) \in Contexts
  BY <1>1, KindOnStack, LastOfStack
<1>3. status[Cur(t)] = "running"
  BY <1>2 DEF KindInv
<1> QED BY <1>1, <1>2, <1>3, OneFinishes, CurInjective
-----------------------------------------------------------------------------
(* Steps that leave the tasks' lists, stacks and dependences as they are.  *)
SameTasks ==
    /\ UNCHANGED <<status, btask, task_queue, kind, parent, children, depend>>
    /\ UNCHANGED <<depend_hash, dependers, num_dependees, stack, new, after>>

SameEnds == \A s \in Threads : /\ tpc'[s] \in Late <=> tpc[s] \in Late
                               /\ tpc'[s] = "finish3" <=> tpc[s] = "finish3"

LEMMA SameFacts ==
  ASSUME SameTasks, SameEnds
  PROVE  /\ \A s : Cur(s)' = Cur(s)
         /\ \A y : Past(y)' <=> Past(y)
         /\ \A y : Going(y)' <=> Going(y)
         /\ \A y : Unfinished(y)' <=> Unfinished(y)
         /\ \A y : Ready(y)' <=> Ready(y)
         /\ \A y : Alive(y)' <=> Alive(y)
         /\ \A y, x : Edge(y, x)' <=> Edge(y, x)
<1>1. \A s : Cur(s)' = Cur(s)
  BY DEF SameTasks, Cur
<1>2. \A y : Past(y)' <=> Past(y)
  BY <1>1 DEF SameEnds, Past
<1>3. \A y : Unfinished(y)' <=> Unfinished(y)
  BY DEF SameTasks, Unfinished
<1>4. \A y : Going(y)' <=> Going(y)
  BY <1>2, <1>3 DEF Going
<1>5. \A y : Ready(y)' <=> Ready(y)
  BY DEF SameTasks, Ready
<1>6. \A y : Alive(y)' <=> Alive(y)
  BY <1>1 DEF SameTasks, SameEnds, Alive
<1>7. \A y, x : Edge(y, x)' <=> Edge(y, x)
  BY DEF SameTasks, Edge
<1> QED BY <1>1, <1>2, <1>3, <1>4, <1>5, <1>6, <1>7

(* Stacks, queue, lists of children and dependences.                       *)
CoreInv == /\ StackInv /\ KindInv /\ QueueInv /\ DepInv /\ Acyclic /\ HashInv
           /\ ChildInv /\ AfterInv

LEMMA SameKeeps ==
  ASSUME CoreInv, SameTasks, SameEnds
  PROVE  CoreInv'
<1>1. StackInv'
  BY DEF CoreInv, SameTasks, StackInv
<1>2. KindInv'
  BY SameFacts DEF CoreInv, SameTasks, KindInv
<1>3. QueueInv'
  BY SameFacts DEF CoreInv, SameTasks, QueueInv
<1>4. DepInv'
  <2>1. \A x : Before(x)' = Before(x)
    BY SameFacts DEF Before
  <2>2. (\E t \in Threads : tpc[t] \in Late) => \E t \in Threads : tpc'[t] \in Late
    BY DEF SameEnds
  <2> QED BY <2>1, <2>2, SameFacts DEF CoreInv, SameTasks, DepInv
<1>5. Acyclic'
  BY SameFacts DEF CoreInv, Acyclic
<1>6. HashInv'
  BY SameFacts DEF CoreInv, SameTasks, HashInv
<1>7. ChildInv'
  BY SameFacts DEF CoreInv, SameTasks, ChildInv
<1>8. AfterInv'
  BY SameFacts DEF CoreInv, SameTasks, AfterInv, Conflict
<1> QED BY <1>1, <1>2, <1>3, <1>4, <1>5, <1>6, <1>7, <1>8 DEF CoreInv
-----------------------------------------------------------------------------
(* The side of the other threads, and of the barrier.                      *)

(* What a step of t leaves to the other threads.                           *)
OthersKeep(t) ==
    \A s \in Threads : s # t =>
        /\ tpc'[s] = tpc[s] /\ stack'[s] = stack[s] /\ new'[s] = new[s]
        /\ btask'[s] = btask[s]
        /\ pc'[s] = pc[s] \/ (pc[s] = "asleep" /\ pc'[s] = "load")
        /\ task_lock = s => task_lock' = s

LEMMA OthersPlaced ==
  ASSUME PosInv, NEW t \in Threads, OthersKeep(t), PosOf(t)', LockOf(t)'
  PROVE  PosInv'
<1> SUFFICES ASSUME NEW s \in Threads, s # t PROVE PosOf(s)' /\ LockOf(s)'
  BY DEF PosInv
<1>1. PosOf(s) /\ LockOf(s)
  BY DEF PosInv
<1>2. /\ tpc'[s] = tpc[s] /\ stack'[s] = stack[s] /\ new'[s] = new[s]
      /\ btask'[s] = btask[s]
      /\ task_lock = s => task_lock' = s
      /\ pc'[s] = pc[s] \/ (pc[s] = "asleep" /\ pc'[s] = "load")
  BY DEF OthersKeep
<1>3. PosOf(s)'
  BY <1>1, <1>2 DEF PosOf, Context
<1>4. LockOf(s)'
  BY <1>1, <1>2 DEF LockOf
<1> QED BY <1>3, <1>4

\* A step that leaves t where it is in task.c and in the barrier.
LEMMA StaysPlaced ==
  ASSUME PosInv, NEW t \in Threads, tpc'[t] = tpc[t], stack'[t] = stack[t],
         new'[t] = new[t], btask'[t] = btask[t], pc'[t] = pc[t],
         task_lock = t => task_lock' = t
  PROVE  PosOf(t)' /\ LockOf(t)'
<1>1. PosOf(t) /\ LockOf(t)
  BY DEF PosInv
<1> QED BY <1>1 DEF PosOf, LockOf, Context

\* In the code of the barrier, outside its tasks, a thread moves.
Free == {"user", "finish", "cancelled", "post"}
LEMMA MovesPlaced ==
  ASSUME PosInv, NEW t \in Threads, tpc'[t] = tpc[t], stack'[t] = stack[t],
         new'[t] = new[t], btask'[t] = btask[t], pc[t] \notin Free,
         pc'[t] \notin {"finish", "cancelled"}, pc'[t] = "top" => task_lock' = t
  PROVE  PosOf(t)' /\ LockOf(t)'
<1>1. PosOf(t) /\ LockOf(t)
  BY DEF PosInv
<1>2. stack[t] = <<>> /\ tpc[t] = "code"
  BY <1>1 DEF PosOf, Free
<1> QED BY <1>1, <1>2 DEF PosOf, LockOf, Context, Finishing, Late, Free

(* The steps of the barrier.                                               *)
Moved(t, l) ==
    /\ pc'[t] = l
    /\ \A s \in Threads : s # t =>
          pc'[s] = pc[s] \/ (pc[s] = "asleep" /\ pc'[s] = "load")

LEMMA GotoMoves ==
  ASSUME Typed, NEW t \in Threads, NEW l, TB!Goto(t, l) PROVE Moved(t, l)
BY DEF Typed, TB!Goto, Moved

LEMMA WakeUpMoves ==
  ASSUME NEW t \in Threads, NEW l, NEW W \in SUBSET TB!Sleepers, TB!WakeUp(W, t, l)
  PROVE  Moved(t, l)
BY DEF TB!WakeUp, Moved, TB!Sleepers

LEMMA WakesMove ==
  ASSUME NEW t \in Threads, NEW l,
         TB!WakeAll(t, l) \/ \E k \in Nat : TB!WakeSome(k, t, l)
  PROVE  Moved(t, l)
BY WakeUpMoves, Zenon DEF TB!WakeAll, TB!WakeSome

LEMMA LeavesBarrier ==
  ASSUME Typed, NEW t \in Threads, TB!Leave(t) \/ TB!JumpToEnd(t)
  PROVE  \E l \in {"user", "gone"} : Moved(t, l)
BY GotoMoves DEF TB!Leave, TB!JumpToEnd

\* Most steps: from a place outside all tasks to one that needs no lock.
LEMMA BarrierMoves ==
  ASSUME Typed, NEW t \in Threads,
         \/ TB!Arrive(t) \/ TB!LastThread(t) \/ TB!Complete(t) \/ TB!WakeAndLeave(t)
         \/ TB!DoWait(t) \/ TB!Load(t) \/ TB!Reload(t) \/ TB!DoneWake(t)
         \/ TB!BarrierCancel(t) \/ TB!CancelWake(t) \/ TB!Interrupted(t)
  PROVE  /\ \E l \in TB!PCs \ {"top", "finish", "cancelled"} : Moved(t, l)
         /\ pc[t] \notin Free \cup {"top"}
         /\ UNCHANGED <<status, btask, task_lock>>
<1> USE DEF TB!PCs, Free, TB!taskVars
<1>1. CASE TB!Arrive(t)
  BY <1>1, GotoMoves, LeavesBarrier DEF TB!Arrive
<1>2. CASE TB!LastThread(t)
  BY <1>2, GotoMoves DEF TB!LastThread
<1>3. CASE TB!Complete(t)
  BY <1>3, GotoMoves DEF TB!Complete
<1>4. CASE TB!WakeAndLeave(t)
  BY <1>4, WakesMove DEF TB!WakeAndLeave
<1>5. CASE TB!DoWait(t)
  BY <1>5, GotoMoves DEF TB!DoWait
<1>6. CASE TB!Load(t)
  BY <1>6, GotoMoves, LeavesBarrier DEF TB!Load, TB!LoopTest
<1>7. CASE TB!Reload(t)
  BY <1>7, GotoMoves, LeavesBarrier DEF TB!Reload, TB!LoopTest
<1>8. CASE TB!DoneWake(t)
  BY <1>8, WakesMove DEF TB!DoneWake
<1>9. CASE TB!BarrierCancel(t)
  BY <1>9, GotoMoves, LeavesBarrier DEF TB!BarrierCancel
<1>10. CASE TB!CancelWake(t)
  BY <1>10, WakesMove DEF TB!CancelWake
<1>11. CASE TB!Interrupted(t)
  BY <1>11, GotoMoves DEF TB!Interrupted
<1> QED BY <1>1, <1>2, <1>3, <1>4, <1>5, <1>6, <1>7, <1>8, <1>9, <1>10, <1>11

\* The others' side of a step that leaves the variables of task.c alone.
LEMMA OwnKept ==
  ASSUME NEW t \in Threads, UNCHANGED ownVars, NEW l, Moved(t, l), UNCHANGED btask,
         \A s \in Threads : s # t => (task_lock = s => task_lock' = s)
  PROVE  OthersKeep(t)
BY DEF ownVars, OthersKeep, Moved, listVars, bodyVars

LEMMA OwnSame ==
  ASSUME UNCHANGED ownVars, UNCHANGED <<status, btask>>
  PROVE  SameTasks /\ SameEnds /\ tpc' = tpc /\ stack' = stack /\ new' = new
BY DEF ownVars, SameTasks, SameEnds, listVars, bodyVars

\* A step inside the barrier that starts no task.
LEMMA BarrierStepQuiet ==
  ASSUME Typed, PosInv, do_wake \in [Threads -> Nat], NEW t \in Threads,
         BarrierStep(t) \/ Interrupted(t)
  PROVE  SameTasks /\ SameEnds /\ PosInv'
<1> USE DEF TB!taskVars
<1>1. UNCHANGED ownVars
  BY Zenon DEF BarrierStep, Interrupted
<1>2. CASE \/ TB!Arrive(t) \/ TB!LastThread(t) \/ TB!Complete(t) \/ TB!WakeAndLeave(t)
           \/ TB!DoWait(t) \/ TB!Load(t) \/ TB!Reload(t) \/ TB!DoneWake(t)
           \/ TB!BarrierCancel(t) \/ TB!CancelWake(t) \/ TB!Interrupted(t)
  <2>1. /\ \E l \in TB!PCs \ {"top", "finish", "cancelled"} : Moved(t, l)
        /\ pc[t] \notin Free \cup {"top"}
        /\ UNCHANGED <<status, btask, task_lock>>
    BY <1>2, BarrierMoves
  <2>2. PICK l \in TB!PCs \ {"top", "finish", "cancelled"} : Moved(t, l)
    BY <2>1
  <2>3. OthersKeep(t)
    BY <1>1, <2>1, <2>2, OwnKept
  <2>4. SameTasks /\ SameEnds /\ tpc' = tpc /\ stack' = stack /\ new' = new
    BY <1>1, <2>1, OwnSame
  <2>5. pc'[t] = l
    BY <2>2 DEF Moved
  <2>6. PosOf(t)' /\ LockOf(t)'
    BY <2>1, <2>4, <2>5, MovesPlaced
  <2> QED BY <2>3, <2>4, <2>6, OthersPlaced
<1>3. CASE TB!HandleTasks(t) \/ TB!Relock(t)
  <2>1. /\ UNCHANGED <<status, btask>> /\ task_lock = None
        /\ pc[t] \in {"handle", "relock"}
        /\ \E l \in {"donereturn", "top"} :
              Moved(t, l) /\ (l = "top" => task_lock' = t)
    BY <1>3, GotoMoves DEF TB!HandleTasks, TB!Relock
  <2>2. PICK l \in {"donereturn", "top"} : Moved(t, l) /\ (l = "top" => task_lock' = t)
    BY <2>1
  <2>3. OthersKeep(t)
    BY <1>1, <2>1, <2>2, OwnKept, TasksAssumption
  <2>4. SameTasks /\ SameEnds /\ tpc' = tpc /\ stack' = stack /\ new' = new
    BY <1>1, <2>1, OwnSame
  <2>5. pc'[t] = l
    BY <2>2 DEF Moved
  <2>6. PosOf(t)' /\ LockOf(t)'
    BY <2>1, <2>2, <2>4, <2>5, MovesPlaced DEF Free
  <2> QED BY <2>3, <2>4, <2>6, OthersPlaced
<1>4. CASE TB!PostWake(t)
  <2>1. PICK l : /\ l = (IF btask[t] # None THEN "user" ELSE TB!HandleReturn(t))
                 /\ TB!WakeSome(do_wake[t], t, l)
    BY <1>4 DEF TB!PostWake
  <2>2. UNCHANGED <<status, btask, task_lock>> /\ pc[t] = "post"
    BY <1>4 DEF TB!PostWake
  <2>3. Moved(t, l)
    BY <2>1, WakesMove
  <2>4. OthersKeep(t)
    BY <1>1, <2>2, <2>3, OwnKept
  <2>5. SameTasks /\ SameEnds /\ tpc' = tpc /\ stack' = stack /\ new' = new
    BY <1>1, <2>2, OwnSame
  <2>6. pc'[t] = l /\ l \in {"user", "dowait", "reload"} /\ (btask[t] = None \/ l = "user")
    BY <2>1, <2>3 DEF Moved, TB!HandleReturn
  <2>7. PosOf(t) /\ LockOf(t)
    BY DEF PosInv
  <2>8. tpc[t] = "code" /\ new[t] = None /\ (stack[t] = <<>> \/ btask[t] # None)
    BY <2>2, <2>7 DEF PosOf
  <2>9. PosOf(t)' /\ LockOf(t)'
    BY <2>2, <2>5, <2>6, <2>8 DEF PosOf, LockOf, Finishing, Late
  <2> QED BY <2>4, <2>5, <2>9, OthersPlaced
<1>5. CASE TB!UserWake(t)
  <2>1. /\ UNCHANGED <<status, btask, task_lock>> /\ pc[t] = "user"
        /\ TB!WakeSome(do_wake[t], t, "user")
    BY <1>5 DEF TB!UserWake
  <2>2. Moved(t, "user")
    BY <2>1, WakesMove
  <2>3. OthersKeep(t)
    BY <1>1, <2>1, <2>2, OwnKept
  <2>4. SameTasks /\ SameEnds /\ tpc' = tpc /\ stack' = stack /\ new' = new
    BY <1>1, <2>1, OwnSame
  <2>5. pc'[t] = pc[t]
    BY <2>1, <2>2 DEF Moved
  <2>6. PosOf(t)' /\ LockOf(t)'
    BY <2>1, <2>4, <2>5, StaysPlaced
  <2> QED BY <2>3, <2>4, <2>6, OthersPlaced
<1> QED BY <1>2, <1>3, <1>4, <1>5, Zenon DEF BarrierStep, Interrupted

\* Between tasks a thread enters a barrier or is told of a cancellation.
LEMMA ImplicitQuiet ==
  ASSUME Typed, PosInv, NEW t \in Threads, EnterBarrier(t) \/ Cancellation(t)
  PROVE  SameTasks /\ SameEnds /\ PosInv'
<1>1. UNCHANGED ownVars /\ tpc[t] = "code" /\ stack[t] = <<>>
  BY DEF EnterBarrier, Cancellation, Implicit, InCode
<1>2. /\ UNCHANGED <<status, btask, task_lock>>
      /\ \E l \in {"arrive", "cancel", "user"} : Moved(t, l)
  <2>1. CASE TB!LoadState(t)
    BY <2>1, GotoMoves DEF TB!LoadState, TB!taskVars
  <2>2. CASE TB!CancelTeam(t)
    BY <2>2, GotoMoves DEF TB!CancelTeam, TB!taskVars
  <2>3. CASE TB!CancellationPoint(t)
    BY <2>3, GotoMoves DEF TB!CancellationPoint, TB!JumpToEnd, TB!taskVars
  <2> QED BY <2>1, <2>2, <2>3 DEF EnterBarrier, Cancellation
<1>3. PICK l \in {"arrive", "cancel", "user"} : Moved(t, l)
  BY <1>2
<1>4. OthersKeep(t)
  BY <1>1, <1>2, <1>3, OwnKept
<1>5. SameTasks /\ SameEnds /\ tpc' = tpc /\ stack' = stack /\ new' = new
  BY <1>1, <1>2, OwnSame
<1>6. pc'[t] = l
  BY <1>3 DEF Moved
<1>7. PosOf(t) /\ LockOf(t)
  BY DEF PosInv
<1>8. PosOf(t)' /\ LockOf(t)'
  BY <1>1, <1>2, <1>5, <1>6, <1>7 DEF PosOf, LockOf, Finishing, Late
<1> QED BY <1>4, <1>5, <1>8, OthersPlaced
-----------------------------------------------------------------------------
(* Waiting.                                                                *)

\* What the steps below do to the variables of the tasks and of the threads.
WaitVars == <<status, btask, task_queue, kind, parent, children, depend, depend_hash,
              dependers, num_dependees, stack, new, after, pc>>

LEMMA WaitSame ==
  ASSUME UNCHANGED WaitVars
  PROVE  SameTasks /\ stack' = stack /\ new' = new /\ pc' = pc /\ btask' = btask
BY DEF WaitVars, SameTasks

\* What is neither "defer" nor the end of a task.
Waits == {"code", "taskwait", "taskwaitsleep", "taskgroup", "taskgroupsleep"}

TMoved(t, l) == tpc'[t] = l /\ \A s \in Threads : s # t => tpc'[s] = tpc[s]

LEMMA TGotoMoves ==
  ASSUME Typed, NEW t \in Threads, NEW l, TGoto(t, l)
  PROVE  TMoved(t, l)
BY DEF Typed, TGoto, TMoved

LEMMA TSame ==
  ASSUME NEW t \in Threads, tpc' = tpc PROVE TMoved(t, tpc[t])
BY DEF TMoved

LEMMA WaitQuiet ==
  ASSUME Typed, PosInv, NEW t \in Threads, pc[t] = "user", tpc[t] \in Waits,
         UNCHANGED WaitVars, NEW l \in Waits, TMoved(t, l),
         \A s \in Threads : s # t => (task_lock = s => task_lock' = s),
         l \in {"taskwait", "taskgroup"} => task_lock' = t
  PROVE  SameTasks /\ SameEnds /\ PosInv'
<1>1. SameTasks /\ stack' = stack /\ new' = new /\ pc' = pc /\ btask' = btask
  BY WaitSame
<1>2. SameEnds
  BY DEF TMoved, SameEnds, Waits, Late
<1>3. OthersKeep(t)
  BY <1>1 DEF TMoved, OthersKeep
<1>4. PosOf(t)
  BY DEF PosInv
<1>5. PosOf(t)' /\ LockOf(t)'
  BY <1>1, <1>4 DEF TMoved, PosOf, LockOf, Waits, Finishing, Late
<1> QED BY <1>1, <1>2, <1>3, <1>5, OthersPlaced

LEMMA ListVarsKept ==
  UNCHANGED <<listVars, bodyVars, stack, new>> =>
    UNCHANGED <<task_queue, kind, parent, children, depend, depend_hash,
                dependers, num_dependees, stack, new, after>>
BY DEF listVars, bodyVars

LEMMA BodyVarsKept ==
  UNCHANGED bodyVars => UNCHANGED <<depend, after>>
BY DEF bodyVars

\* WaitLock and WaitUnlock, which change the lock only.
LEMMA LocksOnly ==
  ASSUME NEW t \in Threads, TB!WaitLock(t) \/ TB!WaitUnlock(t)
  PROVE  /\ pc[t] = "user" /\ UNCHANGED <<status, btask, pc>>
         /\ \A s \in Threads : s # t => (task_lock = s => task_lock' = s)
         /\ TB!WaitLock(t) => task_lock' = t
BY TasksAssumption DEF TB!WaitLock, TB!WaitUnlock, TB!InUserCode, TB!taskVars

\* GOMP_taskwait, but for the step that starts a task.
LEMMA TaskwaitQuiet ==
  ASSUME Typed, PosInv, NEW t \in Threads,
         \/ Taskwait(t) \/ TaskwaitWake(t)
         \/ TaskwaitLoop(t) /\ TB!WaitUnlock(t)
  PROVE  SameTasks /\ SameEnds /\ PosInv'
<1>1. TB!WaitLock(t) \/ TB!WaitUnlock(t)
  BY DEF Taskwait, TaskwaitWake
<1>2. UNCHANGED <<task_queue, kind, parent, children, depend, depend_hash,
                  dependers, num_dependees, stack, new, after>>
  <2>1. CASE Taskwait(t)
    BY <2>1, ListVarsKept DEF Taskwait
  <2>2. CASE TaskwaitWake(t)
    BY <2>2, BodyVarsKept DEF TaskwaitWake
  <2>3. CASE TaskwaitLoop(t) /\ TB!WaitUnlock(t)
    <3>1. ~TB!WaitTake(t)
      BY <2>3, TasksAssumption DEF TB!WaitUnlock, TB!WaitTake, TB!TakeOff, TB!taskVars, Typed, TB!Statuses
    <3> QED BY <2>3, <3>1, ListVarsKept, BodyVarsKept DEF TaskwaitLoop, StartTask
  <2> QED BY <2>1, <2>2, <2>3
<1>3. \E l \in Waits : TMoved(t, l) /\ (l \in {"taskwait", "taskgroup"} => TB!WaitLock(t))
  <2>1. CASE Taskwait(t)
    BY <2>1, TGotoMoves DEF Taskwait, Waits
  <2>2. CASE TaskwaitWake(t)
    BY <2>2, TGotoMoves DEF TaskwaitWake, Waits
  <2>3. CASE TaskwaitLoop(t) /\ TB!WaitUnlock(t)
    <3>1. ~TB!WaitTake(t)
      BY <2>3, TasksAssumption DEF TB!WaitUnlock, TB!WaitTake, TB!TakeOff, TB!taskVars, Typed, TB!Statuses
    <3> QED BY <2>3, <3>1, TGotoMoves DEF TaskwaitLoop, StartTask, Waits
  <2> QED BY <2>1, <2>2, <2>3
<1>4. tpc[t] \in Waits
  BY DEF Taskwait, TaskwaitWake, TaskwaitLoop, InCode, Waits
<1>5. PICK l \in Waits : TMoved(t, l) /\ (l \in {"taskwait", "taskgroup"} => TB!WaitLock(t))
  BY <1>3
<1>6. /\ pc[t] = "user" /\ UNCHANGED <<status, btask, pc>>
      /\ \A s \in Threads : s # t => (task_lock = s => task_lock' = s)
      /\ TB!WaitLock(t) => task_lock' = t
  BY <1>1, LocksOnly
<1>7. UNCHANGED WaitVars
  BY <1>2, <1>6 DEF WaitVars
<1> QED BY <1>4, <1>5, <1>6, <1>7, WaitQuiet

LEMMA NotTaken ==
  ASSUME Typed, NEW t \in Threads, TB!WaitUnlock(t) \/ TB!WaitLock(t)
  PROVE  ~TB!WaitTake(t)
BY TasksAssumption DEF TB!WaitUnlock, TB!WaitLock, TB!WaitTake, TB!TakeOff, TB!taskVars,
                       Typed, TB!Statuses

\* Everything but the groups is left alone.
GroupsOnly ==
    UNCHANGED <<task_queue, kind, parent, children, depend, depend_hash,
                dependers, num_dependees, stack, new, after>>

LEMMA TbVarsKept ==
  UNCHANGED tbVars => UNCHANGED <<status, btask, pc, task_lock>>
BY DEF tbVars

\* The taskgroup functions, but for the step that starts a task.
LEMMA TaskgroupQuiet ==
  ASSUME Typed, PosInv, NEW t \in Threads,
         \/ TaskgroupStart(t) \/ TaskgroupEnd(t) \/ TaskgroupWake(t)
         \/ CancelTaskgroup(t)
         \/ TaskgroupLoop(t) /\ TB!WaitUnlock(t)
  PROVE  SameTasks /\ SameEnds /\ PosInv'
<1>1. /\ pc[t] = "user" /\ UNCHANGED <<status, btask, pc>>
      /\ \A s \in Threads : s # t => (task_lock = s => task_lock' = s)
      /\ TB!WaitLock(t) => task_lock' = t
  <2>1. CASE UNCHANGED tbVars
    <3>1. InCode(t) /\ ~TB!WaitLock(t)
      <4>1. task_lock' = task_lock /\ None # t
        BY <2>1, TbVarsKept, TasksAssumption
      <4>2. ~TB!WaitLock(t) /\ ~TB!WaitUnlock(t)
        BY <4>1 DEF TB!WaitLock, TB!WaitUnlock
      <4> QED BY <4>2 DEF TaskgroupStart, TaskgroupEnd, TaskgroupWake, CancelTaskgroup
    <3> QED BY <2>1, <3>1, TbVarsKept DEF InCode, TB!InUserCode
  <2>2. CASE TB!WaitLock(t) \/ TB!WaitUnlock(t)
    BY <2>2, LocksOnly
  <2> QED BY <2>1, <2>2
          DEF TaskgroupStart, TaskgroupEnd, TaskgroupWake, CancelTaskgroup
<1>2. GroupsOnly
  <2>1. CASE TaskgroupStart(t)
    BY <2>1 DEF TaskgroupStart, GroupsOnly
  <2>2. CASE TaskgroupEnd(t)
    BY <2>2, ListVarsKept DEF TaskgroupEnd, FreeGroup, GroupsOnly
  <2>3. CASE TaskgroupWake(t)
    BY <2>3, BodyVarsKept DEF TaskgroupWake, GroupsOnly
  <2>4. CASE CancelTaskgroup(t)
    BY <2>4, BodyVarsKept DEF CancelTaskgroup, GroupsOnly
  <2>5. CASE TaskgroupLoop(t) /\ TB!WaitUnlock(t)
    BY <2>5, NotTaken, BodyVarsKept DEF TaskgroupLoop, StartTask, FreeGroup, GroupsOnly
  <2> QED BY <2>1, <2>2, <2>3, <2>4, <2>5
<1>3. tpc[t] \in Waits
  BY DEF TaskgroupStart, TaskgroupEnd, TaskgroupWake, CancelTaskgroup, TaskgroupLoop,
         InCode, Waits
<1>4. \E l \in Waits : TMoved(t, l) /\ (l \in {"taskwait", "taskgroup"} => TB!WaitLock(t))
  <2>1. CASE TaskgroupStart(t)
    BY <2>1, TSame DEF TaskgroupStart, InCode, Waits
  <2>2. CASE TaskgroupEnd(t)
    BY <2>2, TGotoMoves, TSame DEF TaskgroupEnd, InCode, Waits
  <2>3. CASE TaskgroupWake(t)
    BY <2>3, TGotoMoves DEF TaskgroupWake, Waits
  <2>4. CASE CancelTaskgroup(t)
    BY <2>4, TSame DEF CancelTaskgroup, InCode, Waits
  <2>5. CASE TaskgroupLoop(t) /\ TB!WaitUnlock(t)
    BY <2>5, NotTaken, TGotoMoves DEF TaskgroupLoop, StartTask, Waits
  <2> QED BY <2>1, <2>2, <2>3, <2>4, <2>5
<1>5. PICK l \in Waits : TMoved(t, l) /\ (l \in {"taskwait", "taskgroup"} => TB!WaitLock(t))
  BY <1>4
<1>6. UNCHANGED WaitVars
  BY <1>1, <1>2 DEF WaitVars, GroupsOnly
<1> QED BY <1>1, <1>3, <1>5, <1>6, WaitQuiet

\* The code of a task returns to the loop that ran it.
LEMMA ReturnQuiet ==
  ASSUME Typed, PosInv, NEW t \in Threads, TaskReturn(t)
  PROVE  SameTasks /\ SameEnds /\ PosInv'
<1>1. /\ UNCHANGED <<status, btask>> /\ task_lock = None /\ task_lock' = t
      /\ \E l \in {"user", "finish"} : Moved(t, l) /\ (l = "user" \/ Context(t) = "barrier")
  <2>1. CASE TB!TaskEnd(t) /\ Context(t) = "barrier"
    BY <2>1, GotoMoves DEF TB!TaskEnd, TB!taskVars
  <2>2. CASE TB!WaitLock(t) /\ Context(t) # "barrier"
    BY <2>2 DEF TB!WaitLock, TB!InUserCode, TB!taskVars, Moved
  <2> QED BY <2>1, <2>2 DEF TaskReturn
<1>2. PICK l \in {"user", "finish"} : Moved(t, l) /\ (l = "user" \/ Context(t) = "barrier")
  BY <1>1
<1>3. /\ UNCHANGED <<listVars, bodyVars, stack, new>> /\ TGoto(t, "finish1")
      /\ tpc[t] = "code" /\ stack[t] # <<>> /\ Context(t) # "inline"
  BY DEF TaskReturn, InCode
<1>4. TMoved(t, "finish1")
  BY <1>3, TGotoMoves
<1>5. SameTasks
  BY <1>1, <1>3, ListVarsKept DEF SameTasks
<1>6. SameEnds
  BY <1>3, <1>4 DEF TMoved, SameEnds, Late
<1>7. OthersKeep(t)
  BY <1>1, <1>2, <1>4, <1>5, TasksAssumption DEF TMoved, Moved, OthersKeep, SameTasks
<1>8. PosOf(t)
  BY DEF PosInv
<1>9. Context(t)' = Context(t) /\ stack' = stack /\ new' = new
  BY <1>5 DEF SameTasks, Context
<1>10. PosOf(t)' /\ LockOf(t)'
  BY <1>1, <1>2, <1>3, <1>4, <1>8, <1>9 DEF TMoved, Moved, PosOf, LockOf, Finishing, Late
<1> QED BY <1>5, <1>6, <1>7, <1>10, OthersPlaced
-----------------------------------------------------------------------------
(* Stacks.                                                                 *)

(* Entering and leaving a task.                                            *)
LEMMA Pushed ==
  ASSUME Typed, NEW t \in Threads, NEW x \in Tasks, NEW c \in Contexts, Push(t, x, c)
  PROVE  /\ stack' \in [Threads -> Seq(Frames)]
         /\ Len(stack[t]) \in Nat /\ DOMAIN stack[t] = 1..Len(stack[t])
         /\ DOMAIN stack'[t] = 1..Len(stack[t]) + 1
         /\ \A i \in 1..Len(stack[t]) : stack'[t][i] = stack[t][i]
         /\ stack'[t][Len(stack[t]) + 1] = [task |-> x, ctx |-> c]
         /\ \A s \in Threads : s # t => stack'[s] = stack[s] /\ Cur(s)' = Cur(s)
         /\ stack'[t] # <<>> /\ Cur(t)' = x /\ Context(t)' = c
<1>1. PICK f : f = [task |-> x, ctx |-> c]
  OBVIOUS
<1>2. f \in Frames /\ f.task = x /\ f.ctx = c
  BY <1>1 DEF Frames
<1>3. stack \in [Threads -> Seq(Frames)] /\ stack' = [stack EXCEPT ![t] = Append(@, f)]
  BY <1>1 DEF Typed, Push
<1>4. PICK s : s = stack[t]
  OBVIOUS
<1>5. s \in Seq(Frames) /\ stack'[t] = Append(s, f)
  BY <1>3, <1>4
<1>6. /\ Append(s, f) \in Seq(Frames) /\ Len(s) \in Nat /\ DOMAIN s = 1..Len(s)
      /\ DOMAIN Append(s, f) = 1..Len(s) + 1 /\ Append(s, f)[Len(s) + 1] = f
      /\ Len(Append(s, f)) = Len(s) + 1 /\ Append(s, f) # <<>>
      /\ \A i \in 1..Len(s) : Append(s, f)[i] = s[i]
  BY <1>2, <1>5
<1>7. \A r \in Threads : r # t => stack'[r] = stack[r]
  BY <1>3
<1>8. \A r \in Threads : r # t => Cur(r)' = Cur(r)
  BY <1>7 DEF Cur
<1>9. Last(stack'[t]) = f
  BY <1>5, <1>6 DEF Last
<1>10. Cur(t)' = x /\ Context(t)' = c
  BY <1>2, <1>5, <1>6, <1>9 DEF Cur, Context
<1>11. stack' \in [Threads -> Seq(Frames)]
  BY <1>3, <1>5, <1>6
<1> QED BY <1>1, <1>4, <1>5, <1>6, <1>7, <1>8, <1>10, <1>11

\* A task that is on no stack is entered.
LEMMA PushKeepsStacks ==
  ASSUME Typed, StackInv, NEW t \in Threads, NEW x \in Tasks, NEW c \in Contexts,
         Push(t, x, c), kind[x] \notin {"iffalse", "tied"},
         kind' = [kind EXCEPT ![x] = IF c = "inline" THEN "iffalse" ELSE "tied"],
         \/ c = "barrier" /\ stack[t] = <<>> /\ btask' = [btask EXCEPT ![t] = x]
         \/ c # "barrier" /\ btask' = btask
  PROVE  StackInv'
<1>1. /\ Len(stack[t]) \in Nat /\ DOMAIN stack[t] = 1..Len(stack[t])
      /\ DOMAIN stack'[t] = 1..Len(stack[t]) + 1
      /\ \A i \in 1..Len(stack[t]) : stack'[t][i] = stack[t][i]
      /\ stack'[t][Len(stack[t]) + 1] = [task |-> x, ctx |-> c]
      /\ \A s \in Threads : s # t => stack'[s] = stack[s]
      /\ stack'[t] # <<>>
  BY Pushed
<1>2. PICK n \in Nat : n = Len(stack[t])
  BY <1>1
<1>3. /\ stack'[t][n + 1].task = x /\ stack'[t][n + 1].ctx = c
      /\ DOMAIN stack'[t] = 1..n + 1 /\ DOMAIN stack[t] = 1..n
      /\ \A i \in 1..n : stack'[t][i] = stack[t][i]
  BY <1>1, <1>2
<1>4. \A s \in Threads : \A i \in DOMAIN stack[s] : stack[s][i].task \in Tasks
  <2> SUFFICES ASSUME NEW s \in Threads, NEW i \in DOMAIN stack[s]
               PROVE  stack[s][i].task \in Tasks
    OBVIOUS
  <2>1. stack[s] \in Seq(Frames) /\ i \in 1..Len(stack[s])
    BY DEF Typed
  <2>2. stack[s][i] \in Frames
    BY <2>1, ElementOfSeq
  <2> QED BY <2>2 DEF Frames
<1>5. \A s \in Threads : \A i \in DOMAIN stack[s] : stack[s][i].task # x
  BY DEF StackInv
<1>6. kind'[x] = (IF c = "inline" THEN "iffalse" ELSE "tied")
      /\ \A y \in Tasks : y # x => kind'[y] = kind[y]
  BY DEF Typed
<1>7. \A i : i \in 1..n + 1 <=> i \in 1..n \/ i = n + 1
  BY <1>2
<1>8. c = "barrier" => n = 0
  <2>1. Len(<<>>) = 0
    OBVIOUS
  <2> QED BY <1>2, <2>1
<1>9. \A s \in Threads : \A i \in DOMAIN stack'[s] :
          /\ kind'[stack'[s][i].task] =
                IF stack'[s][i].ctx = "inline" THEN "iffalse" ELSE "tied"
          /\ stack'[s][i].ctx = "barrier" => i = 1 /\ btask'[s] = stack'[s][i].task
  <2> SUFFICES ASSUME NEW s \in Threads, NEW i \in DOMAIN stack'[s]
               PROVE  /\ kind'[stack'[s][i].task] =
                            IF stack'[s][i].ctx = "inline" THEN "iffalse" ELSE "tied"
                      /\ stack'[s][i].ctx = "barrier" => i = 1 /\ btask'[s] = stack'[s][i].task
    OBVIOUS
  <2>1. CASE s = t /\ i = n + 1
    BY <2>1, <1>3, <1>6, <1>8 DEF Typed
  <2>2. CASE ~(s = t /\ i = n + 1)
    <3>1. i \in DOMAIN stack[s] /\ stack'[s][i] = stack[s][i]
      BY <2>2, <1>1, <1>3, <1>7
    <3>2. /\ kind[stack[s][i].task] = IF stack[s][i].ctx = "inline" THEN "iffalse" ELSE "tied"
          /\ stack[s][i].ctx = "barrier" => i = 1 /\ btask[s] = stack[s][i].task
      BY <3>1 DEF StackInv
    <3>3. c = "barrier" => s # t
      BY <3>1, <1>3, <1>8
    <3> QED BY <3>1, <3>2, <3>3, <1>4, <1>5, <1>6 DEF Typed
  <2> QED BY <2>1, <2>2
<1>10. \A r, s \in Threads : \A i \in DOMAIN stack'[r], j \in DOMAIN stack'[s] :
          stack'[r][i].task = stack'[s][j].task => r = s /\ i = j
  <2> SUFFICES ASSUME NEW r \in Threads, NEW s \in Threads,
                      NEW i \in DOMAIN stack'[r], NEW j \in DOMAIN stack'[s],
                      stack'[r][i].task = stack'[s][j].task
               PROVE  r = s /\ i = j
    OBVIOUS
  <2>1. (r = t /\ i = n + 1) \/ (i \in DOMAIN stack[r] /\ stack'[r][i] = stack[r][i])
    BY <1>1, <1>3, <1>7
  <2>2. (s = t /\ j = n + 1) \/ (j \in DOMAIN stack[s] /\ stack'[s][j] = stack[s][j])
    BY <1>1, <1>3, <1>7
  <2>3. \A p, q \in Threads : \A k \in DOMAIN stack[p], l \in DOMAIN stack[q] :
           stack[p][k].task = stack[q][l].task => p = q /\ k = l
    BY DEF StackInv
  <2> QED BY <2>1, <2>2, <2>3, <1>3, <1>5
<1>11. \A s \in Threads : btask'[s] # None =>
          stack'[s] # <<>> /\ stack'[s][1] = [task |-> btask'[s], ctx |-> "barrier"]
  <2> SUFFICES ASSUME NEW s \in Threads, btask'[s] # None
               PROVE  stack'[s] # <<>> /\ stack'[s][1] = [task |-> btask'[s], ctx |-> "barrier"]
    OBVIOUS
  <2>1. CASE s # t
    BY <2>1, <1>1 DEF StackInv, Typed
  <2>2. CASE s = t /\ c = "barrier"
    <3>1. n = 0 /\ btask'[t] = x
      BY <2>2, <1>8 DEF Typed
    <3> QED BY <2>2, <3>1, <1>1, <1>2
  <2>3. CASE s = t /\ c # "barrier"
    <3>1. stack[t] # <<>> /\ stack[t][1] = [task |-> btask[t], ctx |-> "barrier"] /\ btask' = btask
      BY <2>3 DEF StackInv
    <3>2. 1 \in 1..n
      <4>1. stack[t] \in Seq(Frames)
        BY DEF Typed
      <4> QED BY <3>1, <4>1, <1>2
    <3> QED BY <2>3, <3>1, <3>2, <1>1, <1>3
  <2> QED BY <2>1, <2>2, <2>3
<1> QED BY <1>9, <1>10, <1>11 DEF StackInv

LEMMA Popped ==
  ASSUME Typed, NEW t \in Threads, stack[t] # <<>>, Pop(t)
  PROVE  /\ stack' \in [Threads -> Seq(Frames)]
         /\ Len(stack[t]) \in Nat \ {0} /\ DOMAIN stack[t] = 1..Len(stack[t])
         /\ DOMAIN stack'[t] = 1..Len(stack[t]) - 1
         /\ \A i \in 1..Len(stack[t]) - 1 : stack'[t][i] = stack[t][i]
         /\ \A s \in Threads : s # t => stack'[s] = stack[s] /\ Cur(s)' = Cur(s)
<1>1. stack \in [Threads -> Seq(Frames)] /\ stack' = [stack EXCEPT ![t] = Front(@)]
  BY DEF Typed, Pop
<1>2. PICK s : s = stack[t]
  OBVIOUS
<1>3. s \in Seq(Frames) /\ s # <<>> /\ stack'[t] = Front(s)
  BY <1>1, <1>2
<1>4. /\ Front(s) \in Seq(Frames) /\ DOMAIN Front(s) = 1..Len(s) - 1
      /\ \A i \in 1..Len(s) - 1 : Front(s)[i] = s[i]
      /\ Len(s) \in Nat \ {0} /\ DOMAIN s = 1..Len(s)
  BY <1>3, FrontTyped
<1>5. \A r \in Threads : r # t => stack'[r] = stack[r]
  BY <1>1
<1>6. \A r \in Threads : r # t => Cur(r)' = Cur(r)
  BY <1>5 DEF Cur
<1>7. stack' \in [Threads -> Seq(Frames)]
  BY <1>1, <1>3, <1>4
<1> QED BY <1>2, <1>3, <1>4, <1>5, <1>6, <1>7

LEMMA PopLeaves ==
  ASSUME Typed, StackInv, NEW t \in Threads, stack[t] # <<>>, Pop(t)
  PROVE  Cur(t)' # Cur(t)
<1>1. /\ Len(stack[t]) \in Nat \ {0} /\ Len(stack[t]) \in DOMAIN stack[t]
      /\ Cur(t) = stack[t][Len(stack[t])].task /\ Cur(t) \in Tasks
  BY LastOfStack
<1>2. /\ stack' \in [Threads -> Seq(Frames)]
      /\ DOMAIN stack[t] = 1..Len(stack[t])
      /\ DOMAIN stack'[t] = 1..Len(stack[t]) - 1
      /\ \A i \in 1..Len(stack[t]) - 1 : stack'[t][i] = stack[t][i]
  BY Popped
<1>3. CASE stack'[t] = <<>>
  <2>1. Cur(t)' = t
    BY <1>3 DEF Cur
  <2> QED BY <2>1, <1>1, Names
<1>4. CASE stack'[t] # <<>>
  <2>1. stack'[t] \in Seq(Frames)
    BY <1>2
  <2>2. Len(stack'[t]) = Len(stack[t]) - 1 /\ Len(stack'[t]) # 0
    BY <2>1, <1>1, <1>2, <1>4
  <2>3. Cur(t)' = stack'[t][Len(stack'[t])].task
    BY <1>4 DEF Cur, Last
  <2>4. PICK n \in 1..Len(stack[t]) - 1 : n = Len(stack'[t])
    <3>1. PICK m \in Nat \ {0} : m = Len(stack[t])
      BY <1>1
    <3>2. m # 1
      BY <2>2, <3>1
    <3>3. \A k \in Nat : k # 0 /\ k # 1 => k - 1 \in 1..k - 1
      OBVIOUS
    <3>4. m \in Nat /\ m # 0
      OBVIOUS
    <3> QED BY <2>2, <3>1, <3>2, <3>3, <3>4
  <2>5. Cur(t)' = stack[t][n].task /\ n \in DOMAIN stack[t] /\ n # Len(stack[t])
    BY <2>3, <2>4, <1>1, <1>2
  <2>6. \A i, j \in DOMAIN stack[t] : stack[t][i].task = stack[t][j].task => i = j
    BY DEF StackInv
  <2> QED BY <2>5, <2>6, <1>1
<1> QED BY <1>3, <1>4

\* The innermost task of a thread is left.
LEMMA PopKeepsStacks ==
  ASSUME Typed, StackInv, NEW t \in Threads, stack[t] # <<>>, Pop(t),
         kind' = [kind EXCEPT ![Cur(t)] = "gone"],
         \/ Context(t) = "barrier" /\ btask' = [btask EXCEPT ![t] = None]
         \/ Context(t) # "barrier" /\ btask' = btask
  PROVE  StackInv'
<1>1. /\ Len(stack[t]) \in Nat \ {0} /\ Len(stack[t]) \in DOMAIN stack[t]
      /\ Cur(t) = stack[t][Len(stack[t])].task /\ Cur(t) \in Tasks
      /\ Context(t) = stack[t][Len(stack[t])].ctx
  BY LastOfStack
<1>2. /\ DOMAIN stack[t] = 1..Len(stack[t])
      /\ DOMAIN stack'[t] = 1..Len(stack[t]) - 1
      /\ \A i \in 1..Len(stack[t]) - 1 : stack'[t][i] = stack[t][i]
      /\ \A s \in Threads : s # t => stack'[s] = stack[s]
      /\ stack' \in [Threads -> Seq(Frames)]
  BY Popped
<1>3. PICK n \in Nat \ {0} : n = Len(stack[t])
  BY <1>1
<1>4. \A s \in Threads : \A i \in DOMAIN stack'[s] :
         /\ i \in DOMAIN stack[s] /\ stack'[s][i] = stack[s][i]
         /\ s = t => i # n
  BY <1>1, <1>2, <1>3
<1>5. \A r, s \in Threads : \A i \in DOMAIN stack[r], j \in DOMAIN stack[s] :
         stack[r][i].task = stack[s][j].task => r = s /\ i = j
  BY DEF StackInv
<1>6. \A s \in Threads : \A i \in DOMAIN stack'[s] : stack[s][i].task # Cur(t)
  BY <1>1, <1>3, <1>4, <1>5
<1>7. \A y : y # Cur(t) => kind'[y] = kind[y]
  BY DEF Typed
<1>8. Context(t) = "barrier" => n = 1
  BY <1>1, <1>3 DEF StackInv
<1>9. \A s \in Threads : \A i \in DOMAIN stack'[s] :
          /\ kind'[stack'[s][i].task] =
                IF stack'[s][i].ctx = "inline" THEN "iffalse" ELSE "tied"
          /\ stack'[s][i].ctx = "barrier" => i = 1 /\ btask'[s] = stack'[s][i].task
  <2> SUFFICES ASSUME NEW s \in Threads, NEW i \in DOMAIN stack'[s]
               PROVE  /\ kind'[stack'[s][i].task] =
                            IF stack'[s][i].ctx = "inline" THEN "iffalse" ELSE "tied"
                      /\ stack'[s][i].ctx = "barrier" => i = 1 /\ btask'[s] = stack'[s][i].task
    OBVIOUS
  <2>1. i \in DOMAIN stack[s] /\ stack'[s][i] = stack[s][i]
    BY <1>4
  <2>2. /\ kind[stack[s][i].task] = IF stack[s][i].ctx = "inline" THEN "iffalse" ELSE "tied"
        /\ stack[s][i].ctx = "barrier" => i = 1 /\ btask[s] = stack[s][i].task
    BY <2>1 DEF StackInv
  <2>3. kind'[stack[s][i].task] = kind[stack[s][i].task]
    BY <1>6, <1>7
  <2>4. Context(t) = "barrier" => s # t
    <3> SUFFICES ASSUME n = 1, s = t PROVE FALSE
      BY <1>8
    <3>1. i \in 1..n - 1
      BY <1>2, <1>3
    <3> QED BY <3>1
  <2> QED BY <2>1, <2>2, <2>3, <2>4 DEF Typed
<1>10. \A r, s \in Threads : \A i \in DOMAIN stack'[r], j \in DOMAIN stack'[s] :
          stack'[r][i].task = stack'[s][j].task => r = s /\ i = j
  BY <1>4, <1>5
<1>11. \A s \in Threads : btask'[s] # None =>
          stack'[s] # <<>> /\ stack'[s][1] = [task |-> btask'[s], ctx |-> "barrier"]
  <2> SUFFICES ASSUME NEW s \in Threads, btask'[s] # None
               PROVE  stack'[s] # <<>> /\ stack'[s][1] = [task |-> btask'[s], ctx |-> "barrier"]
    OBVIOUS
  <2>1. ~(s = t /\ Context(t) = "barrier") /\ btask'[s] = btask[s]
    BY DEF Typed
  <2>2. stack[s] # <<>> /\ stack[s][1] = [task |-> btask[s], ctx |-> "barrier"]
    BY <2>1 DEF StackInv
  <2>3. CASE s # t
    BY <2>1, <2>2, <2>3, <1>2
  <2>4. CASE s = t
    <3>1. stack[t][1].ctx = "barrier" /\ Context(t) # "barrier"
      BY <2>1, <2>2, <2>4
    <3>2. n # 1
      BY <3>1, <1>1, <1>3
    <3>3. 1 \in DOMAIN stack'[t] /\ stack'[t][1] = stack[t][1]
      <4>1. 1 \in 1..n - 1
        BY <3>2
      <4> QED BY <4>1, <1>2, <1>3
    <3>4. stack'[t] # <<>>
      BY <3>3
    <3> QED BY <2>1, <2>2, <2>4, <3>3, <3>4
  <2> QED BY <2>3, <2>4
<1> QED BY <1>9, <1>10, <1>11 DEF StackInv
-----------------------------------------------------------------------------
(* Starting a task.                                                        *)

(* A queued task is taken from the queue and entered.                      *)
Starts(t, x, c) ==
    /\ status[x] = "queued" /\ kind[x] = "waiting" /\ new[t] = None
    /\ status' = [status EXCEPT ![x] = "running"]
    /\ kind' = [kind EXCEPT ![x] = "tied"]
    /\ task_queue' = Dequeue(x)
    /\ \A p \in Owners : \A y : In(y, children'[p]) <=> In(y, children[p])
    /\ UNCHANGED <<parent, depend, depend_hash, dependers, num_dependees, new, after>>
    /\ Push(t, x, c)
    /\ \A s \in Threads : tpc[s] \notin Late /\ tpc'[s] \notin Late
    /\ \/ c = "barrier" /\ stack[t] = <<>> /\ btask' = [btask EXCEPT ![t] = x]
       \/ c \in {"taskwait", "group"} /\ btask' = btask

LEMMA StartFacts ==
  ASSUME Typed, NEW t \in Threads, NEW x \in Tasks, NEW c \in Contexts, Starts(t, x, c)
  PROVE  /\ Cur(t)' = x /\ \A s \in Threads : s # t => Cur(s)' = Cur(s)
         /\ \A y \in Tasks : Going(y)' <=> Going(y)
         /\ \A y \in Tasks : Unfinished(y)' <=> Unfinished(y)
         /\ \A y \in Tasks : Ready(y)' <=> Ready(y)
         /\ \A y : Alive(y)' <=> Alive(y)
         /\ \A y, z : Edge(y, z)' <=> Edge(y, z)
<1>1. Cur(t)' = x /\ \A s \in Threads : s # t => Cur(s)' = Cur(s)
  BY Pushed DEF Starts
<1>2. \A y \in Tasks : Unfinished(y)' <=> Unfinished(y)
  BY DEF Starts, Typed, Unfinished
<1>3. \A y : ~Past(y) /\ ~Past(y)'
  BY DEF Starts, Past
<1>4. \A y \in Tasks : Going(y)' <=> Going(y)
  BY <1>2, <1>3 DEF Going
<1>5. \A y \in Tasks : Ready(y)' <=> Ready(y)
  BY DEF Starts, Typed, Ready
<1>6. \A y : Alive(y) <=> y # None /\ (y \in Tasks => kind[y] # "gone")
  BY DEF Starts, Alive, Late
<1>7. \A y : Alive(y)' <=> y # None /\ (y \in Tasks => kind'[y] # "gone")
  BY DEF Starts, Alive, Late
<1>8. \A y \in Tasks : kind'[y] = "gone" <=> kind[y] = "gone"
  BY DEF Starts, Typed
<1>9. \A y, z : Edge(y, z)' <=> Edge(y, z)
  BY DEF Starts, Edge
<1> QED BY <1>1, <1>2, <1>4, <1>5, <1>6, <1>7, <1>8, <1>9

\* Starting a task keeps the invariants of the lists.
LEMMA StartKeeps ==
  ASSUME Typed, CoreInv, NEW t \in Threads, NEW x \in Tasks, NEW c \in Contexts,
         Starts(t, x, c)
  PROVE  CoreInv'
<1>1. StackInv'
  BY PushKeepsStacks DEF CoreInv, Starts
<1>2. KindInv'
  <2>1. /\ \A y \in Tasks : y # x => status'[y] = status[y] /\ kind'[y] = kind[y]
        /\ status'[x] = "running" /\ kind'[x] = "tied"
        /\ parent' = parent /\ new' = new
    BY DEF Starts, Typed
  <2>2. \A s \in Threads : new[s] # None => s # t /\ new[s] # x /\ new[s] \in Tasks
    BY DEF Starts, CoreInv, KindInv, Typed
  <2>3. \A y \in Tasks :
          /\ status'[y] \in {"blocked", "queued"} => kind'[y] = "waiting"
          /\ status'[y] = "running" <=> kind'[y] = "tied"
          /\ status'[y] = "done" => kind'[y] = "gone"
          /\ kind'[y] = "gone" => status'[y] \in {"none", "done"}
          /\ kind'[y] = "unused" => parent'[y] = None
    BY <2>1 DEF CoreInv, KindInv
  <2>4. \A s \in Threads : new'[s] # None =>
          /\ kind'[new'[s]] = "waiting" /\ status'[new'[s]] = "none"
          /\ parent'[new'[s]] = Cur(s)'
          /\ \A r \in Threads : new'[r] = new'[s] => r = s
    BY <2>1, <2>2, StartFacts DEF CoreInv, KindInv
  <2> QED BY <2>3, <2>4 DEF KindInv
<1>3. QueueInv'
  <2>1. task_queue \in Seq(Tasks) /\ task_queue' = RemoveFirst(task_queue, x)
        /\ Injective(task_queue)
    BY DEF Typed, CoreInv, QueueInv, Starts, Dequeue
  <2>2. Injective(task_queue') /\ ~In(x, task_queue')
    BY <2>1, RemoveOnce
  <2>3. \A y : y # x => (In(y, task_queue') <=> In(y, task_queue))
    BY <2>1, InRemove
  <2>4. \A y \in Tasks : y # x => status'[y] = status[y]
    BY DEF Starts, Typed
  <2>5. status'[x] = "running" /\ ~Ready(x)'
    BY DEF Starts, Typed, Ready
  <2> QED BY <2>2, <2>3, <2>4, <2>5, StartFacts DEF QueueInv, CoreInv
<1>4. DepInv'
  <2>1. \A z \in Tasks : Before(z)' = Before(z)
    BY StartFacts DEF Before
  <2>2. \A z \in Tasks : status'[z] = "blocked" <=> status[z] = "blocked"
    BY DEF Starts, Typed
  <2>3. UNCHANGED <<num_dependees, dependers, parent>>
    BY DEF Starts
  <2>4. \A z \in Tasks : status[z] = "blocked" => num_dependees[z] # 0
    BY DEF CoreInv, DepInv, Starts
  <2> QED BY <2>1, <2>2, <2>3, <2>4, StartFacts DEF CoreInv, DepInv
<1>5. Acyclic'
  BY StartFacts DEF CoreInv, Acyclic
<1>6. HashInv'
  <2>1. depend_hash' = depend_hash /\ parent' = parent /\ depend' = depend /\ after' = after
    BY DEF Starts
  <2>2. \A p \in Owners, a \in Addrs : depend_hash[p][a] \subseteq Tasks
    BY DEF Typed
  <2> QED BY <2>1, <2>2, StartFacts DEF CoreInv, HashInv
<1>7. ChildInv'
  <2>1. parent' = parent /\ \A p \in Owners : \A y : In(y, children'[p]) <=> In(y, children[p])
    BY DEF Starts
  <2>2. \A z \in Tasks : status'[z] = "blocked" <=> status[z] = "blocked"
    BY DEF Starts, Typed
  <2> QED BY <2>1, <2>2, StartFacts DEF CoreInv, ChildInv
<1>8. AfterInv'
  <2>1. after' = after /\ parent' = parent /\ depend' = depend /\ new' = new /\ new[t] = None
    BY DEF Starts
  <2>2. \A y \in Tasks : y # x => status'[y] = status[y] /\ kind'[y] = kind[y]
    BY DEF Starts, Typed
  <2>3. status'[x] = "running" /\ status[x] = "queued" /\ kind'[x] = "tied"
    BY DEF Starts, Typed
  <2>4. \A z \in Tasks : after[z] \subseteq Tasks
    BY DEF Typed
  <2>5. \A z \in Tasks : \A y \in after[z] : status'[y] # "none"
    BY <2>2, <2>3, <2>4 DEF CoreInv, AfterInv
  <2>6. \A z \in Tasks : status'[z] \in {"queued", "running"} \/ kind'[z] = "iffalse" =>
          \A y \in after[z] : status'[y] = "done"
    <3> SUFFICES ASSUME NEW z \in Tasks, NEW y \in after[z],
                        status'[z] \in {"queued", "running"} \/ kind'[z] = "iffalse"
                 PROVE  status'[y] = "done"
      OBVIOUS
    <3>1. status[z] \in {"queued", "running"} \/ kind[z] = "iffalse"
      BY <2>2, <2>3
    <3>2. status[y] = "done"
      BY <3>1 DEF CoreInv, AfterInv
    <3> QED BY <2>2, <2>3, <2>4, <3>2
  <2>7. \A z \in Tasks : status'[z] = "blocked" =>
          \A y \in after[z] : Going(y)' =>
              \E w \in Tasks : Edge(w, z)' /\ (w = y \/ y \in after[w])
    <3> SUFFICES ASSUME NEW z \in Tasks, NEW y \in after[z], status'[z] = "blocked",
                        Going(y)'
                 PROVE  \E w \in Tasks : Edge(w, z)' /\ (w = y \/ y \in after[w])
      OBVIOUS
    <3>1. status[z] = "blocked" /\ Going(y)
      BY <2>2, <2>3, <2>4, StartFacts
    <3>2. \E w \in Tasks : Edge(w, z) /\ (w = y \/ y \in after[w])
      BY <3>1 DEF CoreInv, AfterInv
    <3> QED BY <3>2, StartFacts
  <2>8. \A s \in Threads : new[s] # None =>
          \A y \in Tasks : Unfinished(y)' =>
              (y \in after[new[s]] <=>
                  parent[y] = Cur(s)' /\ Conflict(depend[new[s]], depend[y]))
    BY <2>1, StartFacts DEF CoreInv, AfterInv
  <2> QED BY <2>1, <2>5, <2>6, <2>7, <2>8 DEF AfterInv, Conflict
<1> QED BY <1>1, <1>2, <1>3, <1>4, <1>5, <1>6, <1>7, <1>8 DEF CoreInv

\* The lists keep their members when x is run.
LEMMA RunPreLists ==
  ASSUME Typed, NEW x \in Tasks, RunPre(x)
  PROVE  /\ \A p \in Owners : \A y : In(y, children'[p]) <=> In(y, children[p])
         /\ children' \in [Owners -> Seq(Tasks)]
         /\ task_queue' \in Seq(Tasks)
<1>1. task_queue' \in Seq(Tasks)
  BY RemoveTyped DEF RunPre, Dequeue, Typed
<1>2. CASE parent[x] = None
  BY <1>1, <1>2 DEF RunPre, Typed
<1>3. CASE parent[x] # None
  <2>1. PICK p \in Owners : p = parent[x]
    BY <1>3 DEF Typed
  <2>2. children' = [children EXCEPT ![p] = Rotate(@, x)]
    BY <1>3, <2>1 DEF RunPre
  <2>3. children[p] \in Seq(Tasks)
    BY DEF Typed
  <2>4. Rotate(children[p], x) \in Seq(Tasks)
    BY <2>3, RotateTyped
  <2>5. \A y : In(y, Rotate(children[p], x)) <=> In(y, children[p])
    BY <2>3, InRotate
  <2>6. children'[p] = Rotate(children[p], x) /\ \A q \in Owners : q # p => children'[q] = children[q]
    BY <2>2 DEF Typed
  <2>7. children' \in [Owners -> Seq(Tasks)]
    BY <2>2, <2>4 DEF Typed
  <2> QED BY <1>1, <2>5, <2>6, <2>7
<1> QED BY <1>2, <1>3

\* The loops of GOMP_taskwait and GOMP_taskgroup_end start tasks this way.
LEMMA TaskStarts ==
  ASSUME Typed, CoreInv, PosInv, NEW t \in Threads, NEW x \in Tasks,
         NEW c \in {"taskwait", "group"}, tpc[t] \in {"taskwait", "taskgroup"},
         kind[x] = "waiting", StartTask(t, x, c)
  PROVE  Starts(t, x, c) /\ OthersKeep(t) /\ PosOf(t)' /\ LockOf(t)'
<1>1. RunPre(x) /\ Push(t, x, c) /\ TB!WaitTake(t) /\ status'[x] = "running"
  BY DEF StartTask
<1>2. PosOf(t) /\ LockOf(t) /\ task_lock = t
  BY DEF PosInv, LockOf
<1>3. new[t] = None
  BY <1>2 DEF PosOf
<1>4. status[x] # "running"
  BY DEF CoreInv, KindInv
<1>5. PICK z \in Tasks : status[z] = "queued" /\ TB!TakeOff(t, z)
  BY <1>1 DEF TB!WaitTake
<1>6. status' = [status EXCEPT ![z] = "running"]
  BY <1>5 DEF TB!TakeOff
<1>7. z = x
  BY <1>1, <1>4, <1>6 DEF Typed
<1>8. /\ pc[t] = "user" /\ UNCHANGED <<pc, btask>>
      /\ \A s \in Threads : s # t => task_lock # s
  BY <1>1, <1>2 DEF TB!WaitTake
<1>9. /\ UNCHANGED <<parent, depend_hash, dependers, num_dependees, bodyVars, new>>
      /\ TGoto(t, IF Skipped(x) THEN "finish1" ELSE "code")
      /\ task_lock' = IF Skipped(x) THEN t ELSE None
  BY DEF StartTask
<1>10. TMoved(t, IF Skipped(x) THEN "finish1" ELSE "code")
  BY <1>9, TGotoMoves
<1>11. \A s \in Threads : tpc[s] \notin Late /\ tpc'[s] \notin Late
  BY <1>2, <1>10, OneFinishes DEF TMoved, Finishing, Late
<1>12. UNCHANGED <<depend, after>>
  BY <1>9, BodyVarsKept
<1>13. /\ kind' = [kind EXCEPT ![x] = "tied"] /\ task_queue' = Dequeue(x)
       /\ \A p \in Owners : \A y : In(y, children'[p]) <=> In(y, children[p])
  BY <1>1, RunPreLists DEF RunPre
<1>14. Starts(t, x, c)
  BY <1>1, <1>3, <1>5, <1>6, <1>7, <1>8, <1>9, <1>11, <1>12, <1>13 DEF Starts
<1>15. /\ \A s \in Threads : s # t => stack'[s] = stack[s]
       /\ stack'[t] # <<>> /\ Context(t)' = c
  BY <1>1, Pushed DEF Contexts
<1>16. OthersKeep(t)
  BY <1>8, <1>9, <1>10, <1>15 DEF OthersKeep, TMoved
<1>17. PosOf(t)'
  BY <1>3, <1>8, <1>9, <1>10, <1>15 DEF PosOf, TMoved, Finishing, Late
<1>18. LockOf(t)'
  BY <1>8, <1>9, <1>10 DEF LockOf, TMoved, Finishing, Late
<1> QED BY <1>14, <1>16, <1>17, <1>18

\* So does the loop of gomp_barrier_handle_tasks.
LEMMA LoopStarts ==
  ASSUME Typed, CoreInv, PosInv, NEW t \in Threads, btask[t] = None,
         BarrierLoop(t), task_queue # <<>>
  PROVE  \E x \in Tasks :
            /\ Starts(t, x, "barrier") /\ RunPre(x)
            /\ OthersKeep(t) /\ PosOf(t)' /\ LockOf(t)'
<1>1. PICK x \in Tasks : x = Head(task_queue)
  BY DEF Typed
<1>2. /\ btask'[t] = x /\ RunPre(x) /\ Push(t, x, "barrier") /\ TB!LoopTop(t)
      /\ pc'[t] = "cancelled" <=> Skipped(x)
      /\ TGoto(t, IF Skipped(x) THEN "finish1" ELSE "code")
      /\ UNCHANGED <<parent, depend, depend_hash, dependers, num_dependees, after, new>>
  BY <1>1 DEF BarrierLoop
<1>3. PosOf(t) /\ LockOf(t) /\ pc[t] = "top"
  BY <1>2 DEF PosInv, TB!LoopTop
<1>4. new[t] = None /\ tpc[t] = "code" /\ stack[t] = <<>> /\ task_lock = t
  BY <1>3 DEF PosOf, LockOf
<1>5. PICK z \in Tasks :
        /\ status[z] = "queued" /\ TB!TakeOff(t, z)
        /\ btask' = [btask EXCEPT ![t] = z]
        /\ \/ task_lock' = None /\ TB!Goto(t, TB!AfterUnlock(t, "user"))
           \/ TB!Goto(t, "cancelled") /\ UNCHANGED task_lock
  <2>1. ~(btask' = btask)
    BY <1>2, Names DEF Owners
  <2> QED BY <1>2, <2>1 DEF TB!LoopTop
<1>6. z = x /\ status' = [status EXCEPT ![x] = "running"] /\ status[x] = "queued"
  BY <1>2, <1>5 DEF TB!TakeOff, Typed
<1>7. kind[x] = "waiting"
  BY <1>6 DEF CoreInv, KindInv
<1>8. TMoved(t, IF Skipped(x) THEN "finish1" ELSE "code")
  BY <1>2, TGotoMoves
<1>9. \A s \in Threads : tpc[s] \notin Late /\ tpc'[s] \notin Late
  BY <1>4, <1>8, OneFinishes DEF TMoved, Finishing, Late
<1>10. /\ kind' = [kind EXCEPT ![x] = "tied"] /\ task_queue' = Dequeue(x)
       /\ \A p \in Owners : \A y : In(y, children'[p]) <=> In(y, children[p])
  BY <1>2, RunPreLists DEF RunPre
<1>11. Starts(t, x, "barrier")
  BY <1>2, <1>4, <1>5, <1>6, <1>7, <1>9, <1>10 DEF Starts
<1>12. /\ \A s \in Threads : s # t => stack'[s] = stack[s]
       /\ stack'[t] # <<>> /\ Context(t)' = "barrier"
  BY <1>2, Pushed DEF Contexts
<1>13. \E l \in {"user", "post", "cancelled"} :
          Moved(t, l) /\ (l = "cancelled" => task_lock' = t)
  <2>1. CASE TB!Goto(t, TB!AfterUnlock(t, "user"))
    BY <2>1, GotoMoves DEF TB!AfterUnlock
  <2>2. CASE TB!Goto(t, "cancelled") /\ UNCHANGED task_lock
    BY <2>2, <1>4, GotoMoves
  <2> QED BY <1>5, <2>1, <2>2
<1>14. PICK l \in {"user", "post", "cancelled"} :
          Moved(t, l) /\ (l = "cancelled" => task_lock' = t)
  BY <1>13
<1>15. pc'[t] = l /\ \A s \in Threads : s # t =>
          pc'[s] = pc[s] \/ (pc[s] = "asleep" /\ pc'[s] = "load")
  BY <1>14 DEF Moved
<1>16. OthersKeep(t)
  BY <1>2, <1>4, <1>5, <1>8, <1>12, <1>15 DEF OthersKeep, TMoved, Typed
<1>17. PosOf(t)'
  BY <1>2, <1>4, <1>8, <1>12, <1>15, Names DEF PosOf, TMoved, Finishing, Late, Owners
<1>18. LockOf(t)'
  BY <1>2, <1>8, <1>14, <1>15 DEF LockOf, TMoved, Finishing, Late
<1> QED BY <1>2, <1>11, <1>16, <1>17, <1>18

\* The loop of gomp_barrier_handle_tasks finds the queue empty and returns.
LEMMA LoopReturns ==
  ASSUME Typed, CoreInv, PosInv, NEW t \in Threads, BarrierLoop(t), task_queue = <<>>
  PROVE  SameTasks /\ SameEnds /\ PosInv'
<1>1. UNCHANGED ownVars /\ TB!LoopTop(t)
  BY DEF BarrierLoop
<1>2. \A x \in Tasks : status[x] # "queued"
  BY InNothing DEF CoreInv, QueueInv
<1>3. /\ pc[t] = "top" /\ UNCHANGED <<status, btask>> /\ task_lock' = None
      /\ TB!Goto(t, TB!AfterUnlock(t, TB!HandleReturn(t)))
  BY <1>1, <1>2 DEF TB!LoopTop, TB!taskVars
<1>4. \E l \in {"post", "dowait", "reload"} : Moved(t, l)
  BY <1>3, GotoMoves DEF TB!AfterUnlock, TB!HandleReturn
<1>5. PICK l \in {"post", "dowait", "reload"} : Moved(t, l)
  BY <1>4
<1>6. task_lock = t
  BY <1>3 DEF PosInv, LockOf
<1>7. OthersKeep(t)
  BY <1>1, <1>3, <1>5, <1>6, OwnKept
<1>8. SameTasks /\ SameEnds /\ tpc' = tpc /\ stack' = stack /\ new' = new
  BY <1>1, <1>3, OwnSame
<1>9. pc'[t] = l
  BY <1>5 DEF Moved
<1>10. PosOf(t)' /\ LockOf(t)'
  BY <1>3, <1>8, <1>9, MovesPlaced DEF Free
<1> QED BY <1>7, <1>8, <1>10, OthersPlaced
-----------------------------------------------------------------------------
(* Releasing the dependers of a task.                                      *)

(* The task x of t has ended: the tasks that waited for it wait no longer. *)
Releases(t, x) ==
    /\ Cur(t) = x /\ tpc[t] = "finish1" /\ tpc'[t] \in {"finish2", "finish2null"}
    /\ \A s \in Threads : s # t => tpc'[s] = tpc[s]
    /\ UNCHANGED <<status, btask, kind, parent, depend, stack, new, after, pc, task_lock>>
    /\ dependers' \in [Tasks -> Seq(Tasks)]
    /\ \A y \in Tasks : Injective(dependers'[y])
    /\ \A y \in Tasks : \A z : In(z, dependers'[y]) <=> In(z, dependers[y]) /\ y # x
    /\ \A z \in Tasks : num_dependees'[z] = IF Edge(x, z) THEN num_dependees[z] - 1
                                                           ELSE num_dependees[z]
    /\ Injective(task_queue')
    /\ \A z : In(z, task_queue') <=> In(z, task_queue) \/ (Edge(x, z) /\ num_dependees[z] = 1)
    /\ \A p \in Owners : \A y : In(y, children'[p]) =>
          In(y, children[p]) \/ (p = parent[x] /\ Edge(x, y))
    /\ \A p \in Owners : \A y : y # x =>
          (In(y, children[p]) \/ (p = parent[x] /\ Edge(x, y) /\ num_dependees[y] = 1) =>
              In(y, children'[p]))
    /\ \A p \in Owners, a \in Addrs : \A y :
          y \in depend_hash'[p][a] <=> y \in depend_hash[p][a] /\ ~(p = parent[x] /\ y = x)

LEMMA ReleaseFacts ==
  ASSUME Typed, CoreInv, PosInv, NEW t \in Threads, NEW x \in Tasks, Releases(t, x)
  PROVE  /\ status[x] = "running" /\ kind[x] = "tied" /\ new[t] = None
         /\ \A s : Cur(s)' = Cur(s)
         /\ \A y : Going(y)' <=> Going(y) /\ y # x
         /\ \A y : ~Past(y)
         /\ \A y : Alive(y)' <=> Alive(y)
         /\ \A y \in Tasks : \A z : Edge(y, z)' <=> Edge(y, z) /\ y # x
         /\ \A y \in Tasks : ~(y \in after[x] /\ Going(y))
<1>1. /\ status[x] = "running" /\ kind[x] = "tied" /\ new[t] = None
      /\ \A s \in Threads : s # t => tpc[s] \notin {"taskwait", "taskgroup"} \cup Finishing
      /\ \A s \in Threads : s # t => Cur(s) # Cur(t)
      /\ Cur(t) = x
  BY FinishedTask DEF Releases, Finishing, CoreInv
<1>2. \A s : Cur(s)' = Cur(s)
  BY DEF Releases, Cur
<1>3. \A y : ~Past(y)
  BY <1>1 DEF Releases, Past, Finishing, Late
<1>4. \A y : Past(y)' <=> y = x
  BY <1>1, <1>2 DEF Releases, Past, Finishing, Late
<1>5. \A y : Going(y)' <=> Going(y) /\ y # x
  BY <1>3, <1>4 DEF Going, Unfinished, Releases
<1>6. \A s \in Threads : tpc[s] # "finish3" /\ tpc'[s] # "finish3"
  BY <1>1 DEF Releases, Finishing, Late
<1>7. \A y : Alive(y)' <=> Alive(y)
  BY <1>6 DEF Alive, Releases
<1>8. \A y \in Tasks : \A z : Edge(y, z)' <=> Edge(y, z) /\ y # x
  BY DEF Edge, Releases
<1>9. \A y \in Tasks : ~(y \in after[x] /\ Going(y))
  <2>1. \A y \in after[x] : status[y] = "done"
    BY <1>1 DEF CoreInv, AfterInv
  <2> QED BY <2>1 DEF Going, Unfinished
<1> QED BY <1>1, <1>2, <1>3, <1>5, <1>7, <1>8, <1>9

LEMMA BeforeFinite ==
  \A z : IsFiniteSet(Before(z)) /\ Cardinality(Before(z)) \in Nat
         /\ (Cardinality(Before(z)) = 0 <=> Before(z) = {})
<1> SUFFICES ASSUME NEW z
             PROVE  /\ IsFiniteSet(Before(z)) /\ Cardinality(Before(z)) \in Nat
                    /\ (Cardinality(Before(z)) = 0 <=> Before(z) = {})
  OBVIOUS
<1>1. Before(z) \subseteq Tasks /\ IsFiniteSet(Tasks)
  BY Names DEF Before
<1>2. IsFiniteSet(Before(z))
  BY <1>1, FS_Subset
<1> QED BY <1>2, FS_CardinalityType, FS_EmptySet

\* One dependee less for each of them, and no edge from x is left.
LEMMA ReleaseDependences ==
  ASSUME Typed, CoreInv, PosInv, NEW t \in Threads, NEW x \in Tasks, Releases(t, x)
  PROVE  DepInv'
<1>1. \A y \in Tasks : Injective(dependers'[y])
  BY DEF Releases
<1>2. \A z, y \in Tasks : Edge(y, z)' =>
          /\ status'[z] = "blocked" /\ Going(y)'
          /\ \A p \in Owners : Alive(p)' => (parent'[z] = p <=> parent'[y] = p)
  <2>1. parent' = parent /\ status' = status
    BY DEF Releases
  <2>2. \A z, y \in Tasks : Edge(y, z) =>
          /\ status[z] = "blocked" /\ Going(y)
          /\ \A p \in Owners : Alive(p) => (parent[z] = p <=> parent[y] = p)
    BY DEF CoreInv, DepInv
  <2> QED BY <2>1, <2>2, ReleaseFacts
<1>3. ASSUME NEW z \in Tasks, status'[z] = "blocked"
      PROVE  num_dependees'[z] = Cardinality(Before(z)')
  <2>1. num_dependees[z] = Cardinality(Before(z))
    BY <1>3 DEF CoreInv, DepInv, Releases
  <2>2. CASE Edge(x, z)
    <3>1. Before(z)' = Before(z) \ {x} /\ x \in Before(z)
      BY <2>2, ReleaseFacts DEF Before
    <3>2. Cardinality(Before(z) \ {x}) = Cardinality(Before(z)) - 1
      BY <3>1, BeforeFinite, FS_RemoveElement
    <3> QED BY <2>1, <2>2, <3>1, <3>2 DEF Releases
  <2>3. CASE ~Edge(x, z)
    <3>1. Before(z)' = Before(z)
      BY <2>3, ReleaseFacts DEF Before
    <3> QED BY <2>1, <2>3, <3>1 DEF Releases
  <2> QED BY <2>2, <2>3
<1>4. \E s \in Threads : tpc'[s] \in Late
  BY DEF Releases, Late
<1> QED BY <1>1, <1>2, <1>3, <1>4 DEF DepInv

LEMMA ReleaseQueues ==
  ASSUME Typed, CoreInv, PosInv, NEW t \in Threads, NEW x \in Tasks, Releases(t, x)
  PROVE  /\ \A z \in Tasks : Ready(z)' <=> Ready(z) \/ (Edge(x, z) /\ num_dependees[z] = 1)
         /\ QueueInv'
<1>1. ASSUME NEW z \in Tasks
      PROVE  Ready(z)' <=> Ready(z) \/ (Edge(x, z) /\ num_dependees[z] = 1)
  <2>1. /\ Edge(x, z) => status[z] = "blocked"
        /\ status[z] = "blocked" => num_dependees[z] = Cardinality(Before(z))
    BY DEF CoreInv, DepInv
  <2>2. Edge(x, z) => Before(z) # {}
    BY DEF Before
  <2>3. Edge(x, z) => num_dependees[z] # 0
    BY <2>1, <2>2, BeforeFinite
  <2>4. num_dependees[z] \in Int /\ status' = status
    BY DEF Typed, Releases
  <2>5. num_dependees'[z] = IF Edge(x, z) THEN num_dependees[z] - 1 ELSE num_dependees[z]
    BY DEF Releases
  <2> QED BY <2>1, <2>3, <2>4, <2>5 DEF Ready
<1>2. QueueInv'
  BY <1>1 DEF CoreInv, QueueInv, Releases
<1> QED BY <1>1, <1>2

\* Releasing the dependers of a task keeps the invariants of the lists.
LEMMA ReleaseKeeps ==
  ASSUME Typed, CoreInv, PosInv, NEW t \in Threads, NEW x \in Tasks, Releases(t, x)
  PROVE  CoreInv'
<1>1. StackInv'
  BY DEF CoreInv, StackInv, Releases
<1>2. KindInv'
  <2>1. UNCHANGED <<status, kind, parent, new>>
    BY DEF Releases
  <2> QED BY <2>1, ReleaseFacts DEF CoreInv, KindInv
<1>3. QueueInv' /\ DepInv'
  BY ReleaseQueues, ReleaseDependences
<1>4. Acyclic'
  BY ReleaseFacts DEF CoreInv, Acyclic
<1>5. HashInv'
  <2>0. UNCHANGED <<parent, depend, after>>
    BY DEF Releases
  <2> SUFFICES ASSUME NEW p \in Owners, NEW a \in Addrs, Alive(p)
               PROVE  /\ \A y \in depend_hash'[p][a] :
                            Going(y)' /\ parent[y] = p /\ depend[y][a] # "no"
                      /\ \A y \in Tasks : Going(y)' /\ parent[y] = p /\ depend[y][a] # "no" =>
                            \/ y \in depend_hash'[p][a]
                            \/ \E z \in depend_hash'[p][a] : depend[z][a] = "out" /\ y \in after[z]
    BY <2>0, ReleaseFacts DEF HashInv
  <2>1. \A y : y \in depend_hash'[p][a] <=> y \in depend_hash[p][a] /\ ~(p = parent[x] /\ y = x)
    BY DEF Releases
  <2>2. /\ \A y \in depend_hash[p][a] :
              Going(y) /\ parent[y] = p /\ depend[y][a] # "no"
        /\ \A y \in Tasks : Going(y) /\ parent[y] = p /\ depend[y][a] # "no" =>
              \/ y \in depend_hash[p][a]
              \/ \E z \in depend_hash[p][a] : depend[z][a] = "out" /\ y \in after[z]
    BY DEF CoreInv, HashInv
  <2>3. \A y \in depend_hash'[p][a] : y # x /\ y \in depend_hash[p][a]
    BY <2>1, <2>2
  <2>4. \A y : y \in depend_hash[p][a] /\ y # x => y \in depend_hash'[p][a]
    BY <2>1
  <2> QED BY <2>2, <2>3, <2>4, ReleaseFacts
<1>6. ChildInv'
  <2>0. UNCHANGED <<parent, status>>
    BY DEF Releases
  <2> SUFFICES ASSUME NEW p \in Owners, Alive(p)
               PROVE  /\ \A y \in Tasks : In(y, children'[p]) => parent[y] = p
                      /\ \A y \in Tasks :
                            Going(y)' /\ parent[y] = p /\ (status[y] # "blocked" \/ Ready(y)') =>
                                In(y, children'[p])
    BY <2>0, ReleaseFacts DEF ChildInv
  <2>1. /\ \A y \in Tasks : In(y, children[p]) => parent[y] = p
        /\ \A y \in Tasks :
              Going(y) /\ parent[y] = p /\ (status[y] # "blocked" \/ Ready(y)) =>
                  In(y, children[p])
    BY DEF CoreInv, ChildInv
  <2>2. \A y \in Tasks : Edge(x, y) => (parent[y] = p <=> parent[x] = p)
    BY DEF CoreInv, DepInv
  <2>3. \A y : In(y, children'[p]) => In(y, children[p]) \/ (p = parent[x] /\ Edge(x, y))
    BY DEF Releases
  <2>4. \A y : y # x =>
          (In(y, children[p]) \/ (p = parent[x] /\ Edge(x, y) /\ num_dependees[y] = 1) =>
              In(y, children'[p]))
    BY DEF Releases
  <2> QED BY <2>1, <2>2, <2>3, <2>4, ReleaseFacts, ReleaseQueues
<1>7. AfterInv'
  <2>1. UNCHANGED <<status, kind, parent, depend, new, after>>
    BY DEF Releases
  <2>2. \A z \in Tasks : status[z] = "blocked" =>
          \A y \in after[z] : Going(y)' =>
              \E w \in Tasks : Edge(w, z)' /\ (w = y \/ y \in after[w])
    <3> SUFFICES ASSUME NEW z \in Tasks, status[z] = "blocked", NEW y \in after[z], Going(y)'
                 PROVE  \E w \in Tasks : Edge(w, z)' /\ (w = y \/ y \in after[w])
      OBVIOUS
    <3>1. Going(y) /\ y # x /\ y \in Tasks
      BY ReleaseFacts DEF Typed
    <3>2. PICK w \in Tasks : Edge(w, z) /\ (w = y \/ y \in after[w])
      BY <3>1 DEF CoreInv, AfterInv
    <3>3. w # x
      BY <3>1, <3>2, ReleaseFacts
    <3> QED BY <3>2, <3>3, ReleaseFacts
  <2>3. \A y : Unfinished(y)' <=> Unfinished(y)
    BY <2>1 DEF Unfinished
  <2> QED BY <2>1, <2>2, <2>3, ReleaseFacts DEF CoreInv, AfterInv, Conflict
<1> QED BY <1>1, <1>2, <1>3, <1>4, <1>5, <1>6, <1>7 DEF CoreInv

\* The released ones are those that waited for x only.
LEMMA ReleasedAre ==
  ASSUME Typed, CoreInv, NEW x \in Tasks
  PROVE  /\ Released(x) \in Seq(Tasks) /\ Injective(Released(x))
         /\ \A z : In(z, Released(x)) <=> Edge(x, z) /\ num_dependees[z] = 1
<1>1. dependers[x] \in Seq(Tasks) /\ Injective(dependers[x])
  BY DEF Typed, CoreInv, DepInv
<1> DEFINE S == {y \in Tasks : num_dependees[y] = 1}
<1>2. Released(x) = Among(dependers[x], S)
  BY DEF Released
<1> HIDE DEF S
<1>3. Released(x) \in Seq(Tasks) /\ Injective(Released(x))
  BY <1>1, <1>2, AmongTyped, AmongOnce
<1>4. \A z : In(z, Released(x)) <=> In(z, dependers[x]) /\ z \in S
  BY <1>1, <1>2, InAmong
<1>5. \A z : In(z, dependers[x]) => z \in Tasks
  BY <1>1, InTyped
<1> QED BY <1>3, <1>4, <1>5 DEF S, Edge

LEMMA ReleaseQueue ==
  ASSUME Typed, CoreInv, NEW x \in Tasks, task_queue' = task_queue \o Released(x)
  PROVE  /\ task_queue' \in Seq(Tasks) /\ Injective(task_queue')
         /\ \A z : In(z, task_queue') <=> In(z, task_queue) \/ (Edge(x, z) /\ num_dependees[z] = 1)
<1>1. task_queue \in Seq(Tasks) /\ Injective(task_queue)
  BY DEF Typed, CoreInv, QueueInv
<1>2. PICK r : r = Released(x)
  OBVIOUS
<1>3. /\ r \in Seq(Tasks) /\ Injective(r)
      /\ \A z : In(z, r) <=> Edge(x, z) /\ num_dependees[z] = 1
  BY <1>2, ReleasedAre
<1>4. \A z : ~(In(z, task_queue) /\ In(z, r))
  <2> SUFFICES ASSUME NEW z, In(z, task_queue), In(z, r) PROVE FALSE
    OBVIOUS
  <2>1. z \in Tasks /\ Edge(x, z) /\ num_dependees[z] = 1
    BY <1>1, <1>3, InTyped
  <2>2. status[z] = "blocked"
    BY <2>1 DEF CoreInv, DepInv
  <2>3. status[z] = "queued" \/ Ready(z)
    BY <2>1 DEF CoreInv, QueueInv
  <2> QED BY <2>1, <2>2, <2>3 DEF Ready
<1>5. task_queue \o r \in Seq(Tasks) /\ Injective(task_queue \o r)
  BY <1>1, <1>3, <1>4, ConcatTyped, ConcatOnce
<1>6. \A z : In(z, task_queue \o r) <=> In(z, task_queue) \/ In(z, r)
  BY <1>1, <1>3, InConcat
<1> QED BY <1>2, <1>3, <1>5, <1>6

LEMMA ReleaseChildren ==
  ASSUME Typed, CoreInv, NEW x \in Tasks,
         IF parent[x] = None THEN children' = children
         ELSE children' = [children EXCEPT
                  ![parent[x]] = RemoveFirst(Reverse(Released(x)) \o @, x)]
  PROVE  /\ children' \in [Owners -> Seq(Tasks)]
         /\ \A p \in Owners : \A y : In(y, children'[p]) =>
               In(y, children[p]) \/ (p = parent[x] /\ Edge(x, y))
         /\ \A p \in Owners : \A y : y # x =>
               (In(y, children[p]) \/ (p = parent[x] /\ Edge(x, y) /\ num_dependees[y] = 1) =>
                   In(y, children'[p]))
<1>1. CASE parent[x] = None
  BY <1>1, Names DEF Typed
<1>2. CASE parent[x] # None
  <2>1. PICK q \in Owners : q = parent[x]
    BY <1>2 DEF Typed
  <2>2. PICK r : r = Released(x)
    OBVIOUS
  <2>3. /\ r \in Seq(Tasks) /\ \A z : In(z, r) <=> Edge(x, z) /\ num_dependees[z] = 1
    BY <2>2, ReleasedAre
  <2>4. Reverse(r) \in Seq(Tasks) /\ \A z : In(z, Reverse(r)) <=> In(z, r)
    BY <2>3, ReverseTyped, InReverse
  <2>5. PICK c : c = children[q]
    OBVIOUS
  <2>6. c \in Seq(Tasks)
    BY <2>5 DEF Typed
  <2>7. PICK l : l = Reverse(r) \o c
    OBVIOUS
  <2>8. l \in Seq(Tasks) /\ \A z : In(z, l) <=> In(z, r) \/ In(z, c)
    BY <2>4, <2>6, <2>7, ConcatTyped, InConcat
  <2>9. PICK m : m = RemoveFirst(l, x)
    OBVIOUS
  <2>10. /\ m \in Seq(Tasks)
         /\ \A y : In(y, m) => In(y, l)
         /\ \A y : In(y, l) /\ y # x => In(y, m)
    BY <2>8, <2>9, RemoveTyped, InRemove
  <2>11. children' = [children EXCEPT ![q] = m]
    BY <1>2, <2>1, <2>2, <2>5, <2>7, <2>9
  <2>12. /\ children'[q] = m /\ \A p \in Owners : p # q => children'[p] = children[p]
         /\ children' \in [Owners -> Seq(Tasks)]
    BY <2>10, <2>11 DEF Typed
  <2>13. \A p \in Owners : \A y : In(y, children'[p]) =>
               In(y, children[p]) \/ (p = q /\ Edge(x, y))
    BY <2>3, <2>5, <2>8, <2>10, <2>12
  <2>14. \A p \in Owners : \A y : y # x =>
               (In(y, children[p]) \/ (p = q /\ Edge(x, y) /\ num_dependees[y] = 1) =>
                   In(y, children'[p]))
    BY <2>3, <2>5, <2>8, <2>10, <2>12
  <2> QED BY <2>1, <2>12, <2>13, <2>14
<1> QED BY <1>1, <1>2

LEMMA ReleaseDependers ==
  ASSUME Typed, CoreInv, NEW x \in Tasks, dependers' = [dependers EXCEPT ![x] = <<>>]
  PROVE  /\ dependers' \in [Tasks -> Seq(Tasks)]
         /\ \A y \in Tasks : Injective(dependers'[y])
         /\ \A y \in Tasks : \A z : In(z, dependers'[y]) <=> In(z, dependers[y]) /\ y # x
<1>1. /\ dependers'[x] = <<>> /\ \A y \in Tasks : y # x => dependers'[y] = dependers[y]
      /\ dependers' \in [Tasks -> Seq(Tasks)]
  BY DEF Typed
<1>2. \A y \in Tasks : Injective(dependers[y])
  BY DEF CoreInv, DepInv
<1>3. Injective(<<>>)
  BY DEF Injective
<1> QED BY <1>1, <1>2, <1>3, InNothing

LEMMA ReleaseHash ==
  ASSUME Typed, NEW x \in Tasks, depend_hash' = LeaveHash(parent[x], x)
  PROVE  /\ depend_hash' \in [Owners -> [Addrs -> SUBSET Tasks]]
         /\ \A p \in Owners, a \in Addrs : \A y :
               y \in depend_hash'[p][a] <=>
                   y \in depend_hash[p][a] /\ ~(p = parent[x] /\ y = x)
<1>1. CASE parent[x] = None
  BY <1>1, Names DEF Typed, LeaveHash
<1>2. CASE parent[x] # None
  <2>1. PICK q \in Owners : q = parent[x]
    BY <1>2 DEF Typed
  <2>2. depend_hash' = [depend_hash EXCEPT ![q] = [a \in Addrs |-> @[a] \ {x}]]
    BY <1>2, <2>1 DEF LeaveHash
  <2> QED BY <2>1, <2>2 DEF Typed
<1> QED BY <1>1, <1>2

\* The first part of finishing a task does just that.
LEMMA TaskReleases ==
  ASSUME Typed, CoreInv, PosInv, NEW t \in Threads, Finish1(t)
  PROVE  /\ Cur(t) \in Tasks /\ Releases(t, Cur(t))
         /\ children' \in [Owners -> Seq(Tasks)] /\ task_queue' \in Seq(Tasks)
         /\ dependers' \in [Tasks -> Seq(Tasks)]
         /\ depend_hash' \in [Owners -> [Addrs -> SUBSET Tasks]]
         /\ num_dependees' \in [Tasks -> Int]
         /\ OthersKeep(t) /\ PosOf(t)' /\ LockOf(t)'
<1>1. tpc[t] = "finish1" /\ tpc[t] \in Finishing
  BY DEF Finish1, Finishing
<1>2. PICK x \in Tasks : x = Cur(t) /\ task_lock = t
  BY <1>1, FinishedTask DEF CoreInv
<1>3. /\ depend_hash' = LeaveHash(parent[x], x)
      /\ num_dependees' = [y \in Tasks |->
                IF Contains(dependers[x], y) THEN num_dependees[y] - 1
                                             ELSE num_dependees[y]]
      /\ dependers' = [dependers EXCEPT ![x] = <<>>]
      /\ task_queue' = task_queue \o Released(x)
      /\ IF parent[x] = None THEN children' = children
         ELSE children' = [children EXCEPT
                  ![parent[x]] = RemoveFirst(Reverse(Released(x)) \o @, x)]
      /\ UNCHANGED <<tbVars, kind, parent, bodyVars, stack, new>>
  BY <1>2 DEF Finish1
<1>4. \E l \in {"finish2", "finish2null"} : TGoto(t, l)
  BY DEF Finish1
<1>5. PICK l \in {"finish2", "finish2null"} : TMoved(t, l)
  BY <1>4, TGotoMoves
<1>6. dependers[x] \in Seq(Tasks) /\ num_dependees \in [Tasks -> Int]
  BY DEF Typed
<1>7. \A y \in Tasks : Contains(dependers[x], y) <=> Edge(x, y)
  BY <1>6, InContains DEF Edge
<1>8. /\ num_dependees' \in [Tasks -> Int]
      /\ \A z \in Tasks : num_dependees'[z] = IF Edge(x, z) THEN num_dependees[z] - 1
                                                             ELSE num_dependees[z]
  BY <1>3, <1>6, <1>7
<1>9. UNCHANGED <<status, btask, pc, task_lock, depend, after>>
  BY <1>3 DEF tbVars, bodyVars
<1>10. tpc'[t] \in {"finish2", "finish2null"} /\ \A s \in Threads : s # t => tpc'[s] = tpc[s]
  BY <1>5 DEF TMoved
<1>11. Releases(t, x)
  BY <1>1, <1>2, <1>3, <1>8, <1>9, <1>10, ReleaseDependers, ReleaseQueue, ReleaseChildren,
     ReleaseHash DEF Releases
<1>12. /\ children' \in [Owners -> Seq(Tasks)] /\ task_queue' \in Seq(Tasks)
       /\ dependers' \in [Tasks -> Seq(Tasks)]
       /\ depend_hash' \in [Owners -> [Addrs -> SUBSET Tasks]]
  BY <1>3, ReleaseDependers, ReleaseQueue, ReleaseChildren, ReleaseHash
<1>13. OthersKeep(t)
  BY <1>3, <1>9, <1>10 DEF OthersKeep
<1>14. PosOf(t) /\ LockOf(t)
  BY DEF PosInv
<1>15. PosOf(t)' /\ LockOf(t)'
  BY <1>1, <1>2, <1>3, <1>9, <1>10, <1>14 DEF PosOf, LockOf, Context, Finishing, Late
<1> QED BY <1>2, <1>8, <1>11, <1>12, <1>13, <1>15
-----------------------------------------------------------------------------
(* Ending a task.                                                          *)

(* The children of the task x that t is in lose their parent: x is being   *)
(* finished, or was undeferred and ends here.                              *)
Orphans(t, x) ==
    /\ Cur(t) = x /\ new[t] = None /\ parent' = ClearParent(x)
    /\ UNCHANGED <<status, btask, task_queue, children, depend, depend_hash>>
    /\ UNCHANGED <<dependers, num_dependees, new, after, pc, task_lock>>
    /\ \A s \in Threads : s # t => tpc'[s] = tpc[s] /\ stack'[s] = stack[s]
    /\ \/ /\ tpc[t] \in {"finish2", "finish2null"} /\ tpc'[t] = "finish3"
          /\ UNCHANGED <<kind, stack>>
       \/ /\ tpc[t] = "code" /\ tpc'[t] = "code" /\ kind' = [kind EXCEPT ![x] = "gone"]
          /\ stack[t] # <<>> /\ Context(t) = "inline" /\ Pop(t)

LEMMA ParentsCleared ==
  ASSUME Typed, CoreInv, NEW x \in Tasks, Alive(x), parent' = ClearParent(x)
  PROVE  /\ parent' \in [Tasks -> Owners \cup {None}]
         /\ \A y \in Tasks : parent'[y] = None \/ parent'[y] = parent[y]
         /\ \A y \in Tasks, q \in Owners : q # x => (parent'[y] = q <=> parent[y] = q)
<1>1. children[x] \in Seq(Tasks)
  BY Names DEF Typed
<1>2. \A y \in Tasks : parent'[y] = IF In(y, children[x]) THEN None ELSE parent[y]
  BY <1>1, InContains DEF ClearParent
<1>3. \A y \in Tasks : In(y, children[x]) => parent[y] = x
  BY Names DEF CoreInv, ChildInv
<1>4. parent' \in [Tasks -> Owners \cup {None}]
  BY DEF ClearParent, Typed
<1> QED BY <1>2, <1>3, <1>4, Names

LEMMA OrphanFacts ==
  ASSUME Typed, CoreInv, PosInv, NEW t \in Threads, NEW x \in Tasks, Orphans(t, x)
  PROVE  /\ \A s \in Threads : s # t => Cur(s)' = Cur(s) /\ Cur(s) # x
         /\ \A y : Unfinished(y)' <=> Unfinished(y)
         /\ \A y : Going(y)' <=> Going(y)
         /\ \A y : Ready(y)' <=> Ready(y)
         /\ \A y : Alive(y)' <=> Alive(y) /\ y # x
         /\ \A y, z : Edge(y, z)' <=> Edge(y, z)
         /\ \A y \in Tasks : parent'[y] = None \/ parent'[y] = parent[y]
         /\ \A y \in Tasks, q \in Owners : q # x => (parent'[y] = q <=> parent[y] = q)
<1>1. StackInv /\ Cur(t) = x
  BY DEF CoreInv, Orphans
<1>2. \A s \in Threads : s # t => Cur(s)' = Cur(s)
  BY DEF Orphans, Cur
<1>3. \A s \in Threads : s # t => Cur(s) # x
  BY <1>1, CurInjective
<1>4. \A y : Unfinished(y)' <=> Unfinished(y)
  BY DEF Orphans, Unfinished
<1>5. \A y : Ready(y)' <=> Ready(y)
  BY DEF Orphans, Ready
<1>6. \A y, z : Edge(y, z)' <=> Edge(y, z)
  BY DEF Orphans, Edge
<1>7. Alive(x)
  BY <1>1, CurAlive DEF Orphans
<1>8. /\ \A y \in Tasks : parent'[y] = None \/ parent'[y] = parent[y]
      /\ \A y \in Tasks, q \in Owners : q # x => (parent'[y] = q <=> parent[y] = q)
  BY <1>7, ParentsCleared DEF Orphans
<1>9. /\ \A y : Past(y)' <=> Past(y)
      /\ \A y : Alive(y)' <=> Alive(y) /\ y # x
  <2>1. CASE /\ tpc[t] \in {"finish2", "finish2null"} /\ tpc'[t] = "finish3"
             /\ UNCHANGED <<kind, stack>>
    <3>1. \A s \in Threads : Cur(s)' = Cur(s) /\ (s # t => tpc'[s] = tpc[s])
      BY <2>1 DEF Cur, Orphans
    <3>2. \A y : Past(y)' <=> Past(y)
      BY <2>1, <3>1 DEF Past, Late
    <3>3. \A y : Alive(y)' <=> Alive(y) /\ y # x
      BY <1>1, <1>3, <1>7, <2>1, <3>1 DEF Alive
    <3> QED BY <3>2, <3>3
  <2>2. CASE /\ tpc[t] = "code" /\ tpc'[t] = "code" /\ kind' = [kind EXCEPT ![x] = "gone"]
             /\ stack[t] # <<>> /\ Context(t) = "inline" /\ Pop(t)
    <3>1. \A s \in Threads : s # t => Cur(s)' = Cur(s) /\ tpc'[s] = tpc[s]
      BY <1>2 DEF Orphans
    <3>2. \A y : Past(y)' <=> Past(y)
      BY <2>2, <3>1 DEF Past, Late
    <3>3. /\ \A y \in Tasks : y # x => kind'[y] = kind[y]
          /\ kind'[x] = "gone"
      BY <2>2 DEF Typed
    <3>4. \A y : Alive(y)' <=> Alive(y) /\ y # x
      BY <1>1, <1>3, <1>7, <2>2, <3>1, <3>3 DEF Alive
    <3> QED BY <3>2, <3>4
  <2> QED BY <2>1, <2>2 DEF Orphans
<1>10. \A y : Going(y)' <=> Going(y)
  BY <1>4, <1>9 DEF Going
<1> QED BY <1>2, <1>3, <1>4, <1>5, <1>6, <1>8, <1>9, <1>10

LEMMA OrphansKeep ==
  ASSUME Typed, CoreInv, PosInv, NEW t \in Threads, NEW x \in Tasks, Orphans(t, x)
  PROVE  CoreInv'
<1>0. /\ UNCHANGED <<status, btask, task_queue, children, depend, depend_hash>>
      /\ UNCHANGED <<dependers, num_dependees, new, after>>
      /\ new[t] = None
  BY DEF Orphans
<1>1. /\ \A s \in Threads : s # t => Cur(s)' = Cur(s) /\ Cur(s) # x
      /\ \A s \in Threads : Cur(s) \in Owners
  BY OrphanFacts, CurTyped
<1>2. \A y \in Tasks : kind'[y] = kind[y] \/ (kind[y] = "iffalse" /\ kind'[y] = "gone")
  <2>1. CASE UNCHANGED kind
    BY <2>1
  <2>2. CASE kind' = [kind EXCEPT ![x] = "gone"] /\ stack[t] # <<>> /\ Context(t) = "inline"
    <3>1. kind[x] = "iffalse"
      BY <2>2, KindOnStack DEF Orphans, CoreInv
    <3> QED BY <2>2, <3>1 DEF Typed
  <2> QED BY <2>1, <2>2 DEF Orphans
<1>3. StackInv'
  <2>1. CASE UNCHANGED <<kind, stack>>
    BY <1>0, <2>1 DEF CoreInv, StackInv
  <2>2. CASE kind' = [kind EXCEPT ![x] = "gone"] /\ stack[t] # <<>> /\ Context(t) = "inline"
             /\ Pop(t)
    BY <1>0, <2>2, PopKeepsStacks DEF CoreInv, Orphans
  <2> QED BY <2>1, <2>2 DEF Orphans
<1>4. KindInv'
  <2>1. \A y \in Tasks :
          /\ status[y] \in {"blocked", "queued"} => kind[y] = "waiting"
          /\ status[y] = "running" <=> kind[y] = "tied"
          /\ status[y] = "done" => kind[y] = "gone"
          /\ kind[y] = "gone" => status[y] \in {"none", "done"}
          /\ kind[y] = "unused" => parent[y] = None
          /\ status[y] \in TB!Statuses
    BY DEF CoreInv, KindInv, Typed
  <2>2. \A y \in Tasks :
          /\ status[y] \in {"blocked", "queued"} => kind'[y] = "waiting"
          /\ status[y] = "running" <=> kind'[y] = "tied"
          /\ status[y] = "done" => kind'[y] = "gone"
          /\ kind'[y] = "gone" => status[y] \in {"none", "done"}
          /\ kind'[y] = "unused" => parent'[y] = None
    BY <1>2, <2>1, OrphanFacts DEF TB!Statuses
  <2>3. \A s \in Threads : new[s] # None =>
          /\ s # t /\ new[s] \in Tasks /\ kind[new[s]] = "waiting" /\ status[new[s]] = "none"
          /\ parent[new[s]] = Cur(s)
          /\ \A r \in Threads : new[r] = new[s] => r = s
    BY <1>0 DEF CoreInv, KindInv, Typed
  <2>4. \A s \in Threads : new[s] # None =>
          /\ kind'[new[s]] = "waiting" /\ parent'[new[s]] = Cur(s)'
    BY <1>1, <1>2, <2>3, OrphanFacts
  <2> QED BY <1>0, <2>2, <2>3, <2>4 DEF KindInv
<1>5. QueueInv'
  BY <1>0, OrphanFacts DEF CoreInv, QueueInv
<1>6. DepInv'
  <2>1. \A z : Before(z)' = Before(z)
    BY OrphanFacts DEF Before
  <2>2. (\E s \in Threads : tpc[s] \in Late) => \E s \in Threads : tpc'[s] \in Late
    BY DEF Orphans, Late
  <2>3. \A z, y \in Tasks : Edge(y, z) =>
          /\ status[z] = "blocked" /\ Going(y)
          /\ \A p \in Owners : Alive(p) => (parent[z] = p <=> parent[y] = p)
    BY DEF CoreInv, DepInv
  <2>4. \A z, y \in Tasks : Edge(y, z)' =>
          /\ status[z] = "blocked" /\ Going(y)'
          /\ \A p \in Owners : Alive(p)' => (parent'[z] = p <=> parent'[y] = p)
    BY <2>3, OrphanFacts
  <2> QED BY <1>0, <2>1, <2>2, <2>4 DEF CoreInv, DepInv
<1>7. Acyclic'
  BY OrphanFacts DEF CoreInv, Acyclic
<1>8. HashInv'
  BY <1>0, OrphanFacts DEF CoreInv, HashInv, Typed
<1>9. ChildInv'
  BY <1>0, OrphanFacts DEF CoreInv, ChildInv
<1>10. AfterInv'
  <2>1. \A z \in Tasks : kind'[z] = "iffalse" => kind[z] = "iffalse"
    BY <1>2
  <2>2. \A s \in Threads : new[s] # None =>
          \A y \in Tasks : Unfinished(y) =>
              (y \in after[new[s]] <=>
                  parent'[y] = Cur(s)' /\ Conflict(depend[new[s]], depend[y]))
    <3>1. \A s \in Threads : new[s] # None => s # t /\ Cur(s)' = Cur(s) /\ Cur(s) # x
      BY <1>0, <1>1
    <3>2. \A s \in Threads : new[s] # None =>
            \A y \in Tasks : parent'[y] = Cur(s) <=> parent[y] = Cur(s)
      BY <1>1, <3>1, OrphanFacts
    <3> QED BY <3>1, <3>2 DEF CoreInv, AfterInv
  <2> QED BY <1>0, <2>1, <2>2, OrphanFacts DEF CoreInv, AfterInv, Conflict
<1> QED BY <1>3, <1>4, <1>5, <1>6, <1>7, <1>8, <1>9, <1>10 DEF CoreInv

LEMMA FinishOrphans ==
  ASSUME Typed, CoreInv, PosInv, NEW t \in Threads, Finish2(t)
  PROVE  /\ Cur(t) \in Tasks /\ Orphans(t, Cur(t))
         /\ parent' \in [Tasks -> Owners \cup {None}]
         /\ OthersKeep(t) /\ PosOf(t)' /\ LockOf(t)'
<1>1. tpc[t] \in {"finish2", "finish2null"} /\ tpc[t] \in Finishing
  BY DEF Finish2, Finishing, Late
<1>2. PICK x \in Tasks : x = Cur(t) /\ task_lock = t /\ new[t] = None
  BY <1>1, FinishedTask DEF CoreInv
<1>3. /\ parent' = ClearParent(x) /\ TGoto(t, "finish3")
      /\ UNCHANGED <<task_queue, kind, children, depend_hash, dependers,
                     num_dependees, stack, new>>
      /\ UNCHANGED tbVars /\ UNCHANGED bodyVars
  BY <1>2 DEF Finish2
<1>4. UNCHANGED <<status, btask, pc, task_lock, depend, after>>
  BY <1>3 DEF tbVars, bodyVars
<1>5. TMoved(t, "finish3")
  BY <1>3, TGotoMoves
<1>6. Orphans(t, x)
  BY <1>1, <1>2, <1>3, <1>4, <1>5 DEF Orphans, TMoved
<1>7. Alive(x)
  BY <1>1, <1>2, CurAlive DEF CoreInv
<1>8. OthersKeep(t)
  BY <1>3, <1>4, <1>5 DEF OthersKeep, TMoved
<1>9. PosOf(t) /\ LockOf(t)
  BY DEF PosInv
<1>10. PosOf(t)' /\ LockOf(t)'
  BY <1>1, <1>2, <1>3, <1>4, <1>5, <1>9 DEF PosOf, LockOf, Context, Finishing, Late, TMoved
<1> QED BY <1>2, <1>3, <1>6, <1>7, <1>8, <1>10, ParentsCleared

LEMMA InlineOrphans ==
  ASSUME Typed, CoreInv, PosInv, NEW t \in Threads, InlineEnd(t)
  PROVE  /\ Cur(t) \in Tasks /\ Orphans(t, Cur(t))
         /\ parent' \in [Tasks -> Owners \cup {None}]
         /\ kind' \in [Tasks -> Kinds]
         /\ stack' \in [Threads -> Seq(Frames)]
         /\ OthersKeep(t) /\ PosOf(t)' /\ LockOf(t)'
<1>1. /\ tpc[t] = "code" /\ pc[t] = "user" /\ stack[t] # <<>> /\ Context(t) = "inline"
      /\ Pop(t)
  BY DEF InlineEnd, InCode, TB!InUserCode
<1>2. PICK x \in Tasks : x = Cur(t)
  BY <1>1, LastOfStack
<1>3. /\ parent' = ClearParent(x) /\ kind' = [kind EXCEPT ![x] = "gone"]
      /\ UNCHANGED <<task_queue, children, depend_hash, dependers,
                     num_dependees, tpc, new>>
      /\ UNCHANGED tbVars /\ UNCHANGED bodyVars
  BY <1>2 DEF InlineEnd
<1>4. UNCHANGED <<status, btask, pc, task_lock, depend, after>>
  BY <1>3 DEF tbVars, bodyVars
<1>5. PosOf(t) /\ LockOf(t)
  BY DEF PosInv
<1>6. new[t] = None
  BY <1>1, <1>5 DEF PosOf
<1>7. /\ \A s \in Threads : s # t => stack'[s] = stack[s]
      /\ stack' \in [Threads -> Seq(Frames)]
  BY <1>1, Popped
<1>8. Orphans(t, x)
  BY <1>1, <1>2, <1>3, <1>4, <1>6, <1>7 DEF Orphans
<1>9. Alive(x)
  BY <1>1, <1>2, CurAlive DEF CoreInv
<1>10. OthersKeep(t)
  BY <1>3, <1>4, <1>7 DEF OthersKeep
<1>11. PosOf(t)' /\ LockOf(t)'
  BY <1>1, <1>3, <1>4, <1>5, <1>6 DEF PosOf, LockOf, Finishing, Late
<1>12. kind' \in [Tasks -> Kinds]
  BY <1>3 DEF Typed, Kinds
<1> QED BY <1>2, <1>3, <1>7, <1>8, <1>9, <1>10, <1>11, <1>12, ParentsCleared

(* The task x of t is finished, the tasks it released are queued.          *)
Ends(t, x) ==
    /\ Cur(t) = x /\ tpc[t] = "finish3" /\ tpc'[t] \in {"code", "taskwait", "taskgroup"}
    /\ new[t] = None /\ stack[t] # <<>> /\ Pop(t)
    /\ \A s \in Threads : s # t => tpc'[s] = tpc[s]
    /\ status' \in [Tasks -> TB!Statuses] /\ status'[x] = "done"
    /\ \A y \in Tasks : y # x => status'[y] = IF Ready(y) THEN "queued" ELSE status[y]
    /\ kind' = [kind EXCEPT ![x] = "gone"]
    /\ UNCHANGED <<task_queue, parent, children, depend, depend_hash, dependers>>
    /\ UNCHANGED <<num_dependees, new, after>>
    /\ \/ Context(t) = "barrier" /\ btask' = [btask EXCEPT ![t] = None]
       \/ Context(t) # "barrier" /\ btask' = btask

LEMMA EndFacts ==
  ASSUME Typed, CoreInv, PosInv, NEW t \in Threads, NEW x \in Tasks, Ends(t, x)
  PROVE  /\ status[x] = "running" /\ kind[x] = "tied"
         /\ \A s \in Threads : s # t => Cur(s)' = Cur(s) /\ Cur(s) # x
         /\ \A y : Past(y) <=> y = x
         /\ \A y \in Tasks : Unfinished(y)' <=> Unfinished(y) /\ y # x
         /\ \A y \in Tasks : Going(y)' <=> Going(y)
         /\ \A y \in Tasks : ~Ready(y)'
         /\ \A y : Alive(y)' <=> Alive(y)
         /\ \A y, z : Edge(y, z)' <=> Edge(y, z)
         /\ \A y, z \in Tasks : Edge(y, z) => ~Ready(z)
<1>1. /\ status[x] = "running" /\ kind[x] = "tied" /\ Cur(t) = x
      /\ \A s \in Threads : s # t => tpc[s] \notin {"taskwait", "taskgroup"} \cup Finishing
      /\ \A s \in Threads : s # t => Cur(s) # x
  BY FinishedTask DEF Ends, Finishing, Late, CoreInv
<1>2. \A s \in Threads : s # t => Cur(s)' = Cur(s)
  BY Popped DEF Ends
<1>3. \A y : Past(y) <=> y = x
  BY <1>1 DEF Ends, Past, Finishing, Late
<1>4. \A s \in Threads : tpc'[s] \notin Late
  BY <1>1 DEF Ends, Finishing, Late
<1>5. \A y : ~Past(y)'
  BY <1>4 DEF Past
<1>6. \A y \in Tasks : Unfinished(y)' <=> Unfinished(y) /\ y # x
  BY DEF Ends, Unfinished, Ready
<1>7. \A y \in Tasks : Going(y)' <=> Going(y)
  BY <1>3, <1>5, <1>6 DEF Going
<1>8. \A y \in Tasks : ~Ready(y)'
  BY DEF Ends, Ready
<1>9. \A y : Alive(y)' <=> Alive(y)
  <2>1. /\ \A y \in Tasks : y # x => kind'[y] = kind[y]
        /\ kind'[x] = "gone"
    BY DEF Ends, Typed
  <2>2. \A s \in Threads : /\ tpc'[s] # "finish3"
                           /\ tpc[s] = "finish3" <=> s = t
    BY <1>1, <1>4 DEF Ends, Finishing, Late
  <2> QED BY <1>1, <2>1, <2>2 DEF Alive
<1>10. \A y, z : Edge(y, z)' <=> Edge(y, z)
  BY DEF Ends, Edge
<1>11. \A y, z \in Tasks : Edge(y, z) => ~Ready(z)
  <2> SUFFICES ASSUME NEW y \in Tasks, NEW z \in Tasks, Edge(y, z), Ready(z) PROVE FALSE
    OBVIOUS
  <2>1. num_dependees[z] = Cardinality(Before(z)) /\ num_dependees[z] = 0
    BY DEF CoreInv, DepInv, Ready
  <2>2. Before(z) # {}
    BY DEF Before
  <2> QED BY <2>1, <2>2, BeforeFinite
<1> QED BY <1>1, <1>2, <1>3, <1>6, <1>7, <1>8, <1>9, <1>10, <1>11

LEMMA EndKeeps ==
  ASSUME Typed, CoreInv, PosInv, NEW t \in Threads, NEW x \in Tasks, Ends(t, x)
  PROVE  CoreInv'
<1>0. /\ UNCHANGED <<task_queue, parent, children, depend, depend_hash, dependers>>
      /\ UNCHANGED <<num_dependees, new, after>>
      /\ new[t] = None
  BY DEF Ends
<1>1. /\ status'[x] = "done"
      /\ \A y \in Tasks : y # x => status'[y] = IF Ready(y) THEN "queued" ELSE status[y]
  BY DEF Ends
<1>2. kind'[x] = "gone" /\ \A y \in Tasks : y # x => kind'[y] = kind[y]
  BY DEF Ends, Typed
<1>3. StackInv'
  BY PopKeepsStacks DEF Ends, CoreInv
<1>4. KindInv'
  <2>1. \A y \in Tasks :
          /\ status'[y] \in {"blocked", "queued"} => kind'[y] = "waiting"
          /\ status'[y] = "running" <=> kind'[y] = "tied"
          /\ status'[y] = "done" => kind'[y] = "gone"
          /\ kind'[y] = "gone" => status'[y] \in {"none", "done"}
          /\ kind'[y] = "unused" => parent'[y] = None
    BY <1>0, <1>1, <1>2 DEF CoreInv, KindInv, Ready
  <2>2. \A s \in Threads : new[s] # None =>
          /\ s # t /\ new[s] \in Tasks /\ kind[new[s]] = "waiting" /\ status[new[s]] = "none"
          /\ parent[new[s]] = Cur(s)
          /\ \A r \in Threads : new[r] = new[s] => r = s
    BY <1>0 DEF CoreInv, KindInv, Typed
  <2>3. \A s \in Threads : new[s] # None =>
          /\ kind'[new[s]] = "waiting" /\ status'[new[s]] = "none" /\ Cur(s)' = Cur(s)
    BY <1>1, <1>2, <2>2, EndFacts DEF Ready
  <2> QED BY <1>0, <2>1, <2>2, <2>3 DEF KindInv
<1>5. QueueInv'
  BY <1>0, <1>1, EndFacts DEF CoreInv, QueueInv, Ready
<1>6. DepInv'
  <2>1. \A z : Before(z)' = Before(z)
    BY EndFacts DEF Before
  <2>2. \A z, y \in Tasks : Edge(y, z) =>
          /\ status[z] = "blocked" /\ Going(y)
          /\ \A p \in Owners : Alive(p) => (parent[z] = p <=> parent[y] = p)
    BY DEF CoreInv, DepInv
  <2>3. \A z, y \in Tasks : Edge(y, z)' =>
          /\ status'[z] = "blocked" /\ Going(y)'
          /\ \A p \in Owners : Alive(p)' => (parent'[z] = p <=> parent'[y] = p)
    BY <1>0, <1>1, <2>2, EndFacts
  <2>4. \A z \in Tasks : status'[z] = "blocked" =>
          status[z] = "blocked" /\ num_dependees[z] # 0
    BY <1>1 DEF Ready
  <2> QED BY <1>0, <2>1, <2>3, <2>4 DEF CoreInv, DepInv
<1>7. Acyclic'
  BY EndFacts DEF CoreInv, Acyclic
<1>8. HashInv'
  <2>1. \A p \in Owners, a \in Addrs : depend_hash[p][a] \subseteq Tasks
    BY DEF Typed
  <2> QED BY <1>0, <2>1, EndFacts DEF CoreInv, HashInv
<1>9. ChildInv'
  <2>1. \A y \in Tasks : Going(y)' /\ (status'[y] # "blocked" \/ Ready(y)') =>
            Going(y) /\ (status[y] # "blocked" \/ Ready(y))
    BY <1>1, EndFacts
  <2> QED BY <1>0, <2>1, EndFacts DEF CoreInv, ChildInv
<1>10. AfterInv'
  <2>0. \A z \in Tasks : after[z] \subseteq Tasks
    BY DEF Typed
  <2>1. \A z \in Tasks : \A y \in after[z] : status'[y] # "none"
    BY <1>1, <2>0 DEF CoreInv, AfterInv
  <2>2. ASSUME NEW z \in Tasks, NEW y \in after[z],
               status'[z] \in {"queued", "running"} \/ kind'[z] = "iffalse"
        PROVE  status'[y] = "done"
    <3>1. y \in Tasks /\ status[y] # "none"
      BY <2>0 DEF CoreInv, AfterInv
    <3>2. CASE status[z] \in {"queued", "running"} \/ kind[z] = "iffalse"
      <4>1. status[y] = "done"
        BY <3>2 DEF CoreInv, AfterInv
      <4> QED BY <1>1, <3>1, <4>1 DEF Ready
    <3>3. CASE Ready(z)
      <4>1. status[z] = "blocked" /\ \A w \in Tasks : ~Edge(w, z)
        BY <3>3, EndFacts DEF Ready
      <4>2. ~Going(y)
        BY <4>1 DEF CoreInv, AfterInv
      <4>3. y = x \/ ~Unfinished(y)
        BY <4>2, EndFacts DEF Going
      <4>4. y = x \/ status[y] = "done"
        BY <3>1, <4>3 DEF Unfinished, Typed, TB!Statuses
      <4> QED BY <1>1, <3>1, <4>4 DEF Ready
    <3>4. z # x
      BY <1>1, <1>2, <2>2
    <3> QED BY <1>1, <1>2, <2>2, <3>2, <3>3, <3>4
  <2>3. ASSUME NEW z \in Tasks, NEW y \in after[z], status'[z] = "blocked", Going(y)'
        PROVE  \E w \in Tasks : Edge(w, z)' /\ (w = y \/ y \in after[w])
    <3>1. status[z] = "blocked" /\ Going(y)
      BY <1>1, <2>0, <2>3, EndFacts
    <3>2. \E w \in Tasks : Edge(w, z) /\ (w = y \/ y \in after[w])
      BY <3>1 DEF CoreInv, AfterInv
    <3> QED BY <3>2, EndFacts
  <2>4. \A s \in Threads : new[s] # None =>
          \A y \in Tasks : Unfinished(y)' =>
              (y \in after[new[s]] <=>
                  parent[y] = Cur(s)' /\ Conflict(depend[new[s]], depend[y]))
    <3>1. \A s \in Threads : new[s] # None => Cur(s)' = Cur(s)
      BY <1>0, EndFacts
    <3> QED BY <3>1, EndFacts DEF CoreInv, AfterInv
  <2> QED BY <1>0, <2>1, <2>2, <2>3, <2>4 DEF AfterInv, Conflict
<1> QED BY <1>3, <1>4, <1>5, <1>6, <1>7, <1>8, <1>9, <1>10 DEF CoreInv

\* The task that the barrier's step finishes is the one the thread is in.
LEMMA FinishesTask ==
  ASSUME Typed, NEW x \in Tasks, NEW y \in Tasks, NEW R \in SUBSET Tasks,
         status[x] = "running", status'[x] = "done", TB!FinishTask(y, R),
         {z \in Tasks : status[z] = "blocked" /\ status'[z] = "queued"} = JustReleased
  PROVE  /\ status' \in [Tasks -> TB!Statuses]
         /\ \A z \in Tasks : z # x => status'[z] = IF Ready(z) THEN "queued" ELSE status[z]
<1>1. /\ R \subseteq {z \in Tasks : status[z] = "blocked"}
      /\ status' = [z \in Tasks |-> IF z = y THEN "done"
                                  ELSE IF z \in R THEN "queued" ELSE status[z]]
  BY DEF TB!FinishTask
<1>2. y = x
  BY <1>1
<1>3. \A z \in Tasks : Ready(z) <=> status[z] = "blocked" /\ status'[z] = "queued"
  BY DEF JustReleased, Ready
<1>4. \A z \in Tasks : z # x => (Ready(z) <=> z \in R)
  BY <1>1, <1>2, <1>3
<1>5. status' \in [Tasks -> TB!Statuses]
  BY <1>1 DEF Typed, TB!Statuses
<1> QED BY <1>1, <1>2, <1>4, <1>5

LEMMA TaskEnds ==
  ASSUME Typed, CoreInv, PosInv, NEW t \in Threads, Finish3(t)
  PROVE  /\ Cur(t) \in Tasks /\ Ends(t, Cur(t))
         /\ kind' \in [Tasks -> Kinds]
         /\ stack' \in [Threads -> Seq(Frames)]
         /\ OthersKeep(t) /\ PosOf(t)' /\ LockOf(t)'
<1>1. tpc[t] = "finish3" /\ tpc[t] \in Finishing
  BY DEF Finish3, Finishing, Late
<1>2. /\ task_lock = t /\ new[t] = None /\ stack[t] # <<>> /\ Cur(t) \in Tasks
      /\ PosOf(t) /\ LockOf(t)
  BY <1>1, FinishedTask DEF CoreInv, PosInv, PosOf
<1>3. PICK x \in Tasks : x = Cur(t) /\ status[x] = "running"
  BY <1>1, FinishedTask DEF CoreInv
<1>4. /\ kind' = [kind EXCEPT ![x] = "gone"] /\ Pop(t) /\ status'[x] = "done"
      /\ {y \in Tasks : status[y] = "blocked" /\ status'[y] = "queued"} = JustReleased
      /\ UNCHANGED <<task_queue, parent, children, depend_hash, dependers, num_dependees, new>>
      /\ UNCHANGED bodyVars
  BY <1>3 DEF Finish3
<1>5. UNCHANGED <<depend, after>>
  BY <1>4 DEF bodyVars
<1>6. /\ stack' \in [Threads -> Seq(Frames)]
      /\ \A s \in Threads : s # t => stack'[s] = stack[s]
  BY <1>2, <1>4, Popped
<1>7. kind' \in [Tasks -> Kinds]
  BY <1>4 DEF Typed, Kinds
<1>8. CASE Context(t) = "barrier"
  <2>1. TB!BarrierFinish(t) /\ TGoto(t, "code")
    BY <1>8 DEF Finish3
  <2>2. PICK y \in Tasks : y = btask[t]
    BY <1>2, <1>8, LastOfStack DEF CoreInv, StackInv
  <2>3. PICK R \in SUBSET Tasks : TB!FinishTask(y, R)
    BY <2>1, <2>2 DEF TB!BarrierFinish
  <2>4. /\ status' \in [Tasks -> TB!Statuses]
        /\ \A z \in Tasks : z # x => status'[z] = IF Ready(z) THEN "queued" ELSE status[z]
    BY <1>3, <1>4, <2>3, FinishesTask
  <2>5. btask' = [btask EXCEPT ![t] = None]
    BY <2>1 DEF TB!BarrierFinish
  <2>6. \E l \in {"donewake", "top"} :
          TB!Goto(t, l) /\ (l = "top" => task_lock' = task_lock)
    BY <2>1 DEF TB!BarrierFinish
  <2>7. PICK l \in {"donewake", "top"} :
          Moved(t, l) /\ (l = "top" => task_lock' = task_lock)
    BY <2>6, GotoMoves
  <2>8. TMoved(t, "code")
    BY <2>1, TGotoMoves
  <2>9. Ends(t, x)
    BY <1>1, <1>2, <1>3, <1>4, <1>5, <1>8, <2>4, <2>5, <2>8 DEF Ends, TMoved
  <2>10. OthersKeep(t)
    BY <1>2, <1>4, <1>6, <2>5, <2>7, <2>8 DEF OthersKeep, TMoved, Moved, Typed
  <2>11. stack'[t] = <<>>
    <3>1. PICK n \in Nat : n = Len(stack[t])
      BY <1>2, LastOfStack
    <3>2. n \in DOMAIN stack[t] /\ stack[t][n].ctx = "barrier"
      BY <1>2, <1>8, <3>1, LastOfStack
    <3>3. n = 1
      BY <3>2 DEF CoreInv, StackInv
    <3>4. PICK s \in Seq(Frames) : s = stack'[t]
      BY <1>6
    <3>5. DOMAIN s = 1..n - 1
      BY <1>2, <1>4, <3>1, <3>4, Popped
    <3>6. s = <<>>
      <4>1. Len(s) \in Nat /\ DOMAIN s = 1..Len(s) /\ (Len(s) = 0 => s = <<>>)
        OBVIOUS
      <4>2. Len(s) = 0
        BY <3>3, <3>5, <4>1
      <4> QED BY <4>1, <4>2
    <3> QED BY <3>4, <3>6
  <2>12. PosOf(t)' /\ LockOf(t)'
    BY <1>2, <1>4, <2>7, <2>8, <2>11 DEF PosOf, LockOf, Finishing, Late, TMoved, Moved
  <2> QED BY <1>2, <1>3, <1>6, <1>7, <2>9, <2>10, <2>12
<1>9. CASE Context(t) # "barrier"
  <2>1. /\ TB!WaitFinish(t)
        /\ TGoto(t, IF Context(t) = "taskwait" THEN "taskwait" ELSE "taskgroup")
    BY <1>9 DEF Finish3
  <2>2. \E y \in Tasks, R \in SUBSET Tasks : TB!FinishTask(y, R)
    BY <2>1 DEF TB!WaitFinish, TB!Executing
  <2>3. PICK y \in Tasks, R \in SUBSET Tasks : TB!FinishTask(y, R)
    BY <2>2
  <2>4. /\ status' \in [Tasks -> TB!Statuses]
        /\ \A z \in Tasks : z # x => status'[z] = IF Ready(z) THEN "queued" ELSE status[z]
    BY <1>3, <1>4, <2>3, FinishesTask
  <2>5. pc[t] = "user" /\ UNCHANGED <<pc, btask, task_lock>>
    BY <2>1 DEF TB!WaitFinish
  <2>6. PICK l \in {"taskwait", "taskgroup"} : TMoved(t, l)
    <3>1. \E l \in {"taskwait", "taskgroup"} : TGoto(t, l)
      BY <2>1
    <3> QED BY <3>1, TGotoMoves
  <2>7. Ends(t, x)
    BY <1>1, <1>2, <1>3, <1>4, <1>5, <1>9, <2>4, <2>5, <2>6 DEF Ends, TMoved
  <2>8. OthersKeep(t)
    BY <1>2, <1>4, <1>6, <2>5, <2>6 DEF OthersKeep, TMoved
  <2>9. PosOf(t)' /\ LockOf(t)'
    BY <1>2, <1>4, <2>5, <2>6 DEF PosOf, LockOf, Finishing, Late, TMoved
  <2> QED BY <1>2, <1>3, <1>6, <1>7, <2>7, <2>8, <2>9
<1> QED BY <1>8, <1>9
-----------------------------------------------------------------------------
(* Creating a task.                                                        *)

\* The hash table shows every conflict: with the sibling itself or with one
\* that has to wait for it.
LEMMA ConflictFound ==
  ASSUME Typed, CoreInv, NEW p \in Owners, Alive(p),
         NEW d \in [Addrs -> {"no", "in", "out"}],
         NEW y \in Tasks, parent[y] = p, Going(y), Conflict(d, depend[y])
  PROVE  \E z \in Conflicting(p, d) : z = y \/ y \in after[z]
<1>1. PICK a \in Addrs : "no" \notin {d[a], depend[y][a]} /\ "out" \in {d[a], depend[y][a]}
  BY DEF Conflict
<1>2. depend_hash[p][a] \subseteq Tasks /\ d[a] \in {"no", "in", "out"}
  BY DEF Typed
<1>3. \/ y \in depend_hash[p][a]
      \/ \E z \in depend_hash[p][a] : depend[z][a] = "out" /\ y \in after[z]
  BY <1>1 DEF CoreInv, HashInv
<1> QED BY <1>1, <1>2, <1>3 DEF Conflicting

\* What a new task has to follow, by the conflicts of the clauses.
LEMMA MustFollowIs ==
  ASSUME NEW p, NEW d
  PROVE  \A y : y \in MustFollow(p, d) <=>
             y \in Tasks /\ parent[y] = p /\ Unfinished(y) /\ Conflict(d, depend[y])
BY DEF MustFollow, Unfinished, Conflict

\* A task that does not overtake has nothing to follow.
LEMMA NothingToFollow ==
  ASSUME Typed, CoreInv, NEW p \in Owners, Alive(p),
         NEW d \in [Addrs -> {"no", "in", "out"}], Conflicting(p, d) = {},
         d = NoDepend \/ \A y : ~Past(y)
  PROVE  MustFollow(p, d) = {}
<1> SUFFICES ASSUME NEW y \in MustFollow(p, d) PROVE FALSE
  OBVIOUS
<1>1. y \in Tasks /\ parent[y] = p /\ Unfinished(y) /\ Conflict(d, depend[y])
  BY MustFollowIs
<1>2. d # NoDepend
  BY <1>1 DEF NoDepend, Conflict
<1>3. Going(y)
  BY <1>1, <1>2 DEF Going
<1> QED BY <1>1, <1>3, ConflictFound

(* t meets a task construct: x runs at once, or is going to be deferred.   *)
Begins(t, x, d) ==
    /\ kind[x] = "unused" /\ tpc[t] = "code" /\ new[t] = None
    /\ d \in [Addrs -> {"no", "in", "out"}]
    /\ parent' = [parent EXCEPT ![x] = Cur(t)]
    /\ depend' = [depend EXCEPT ![x] = d]
    /\ after' = [after EXCEPT ![x] = MustFollow(Cur(t), d)]
    /\ UNCHANGED <<status, btask, task_queue, children, depend_hash>>
    /\ UNCHANGED <<dependers, num_dependees, pc, task_lock>>
    /\ \/ /\ kind' = [kind EXCEPT ![x] = "iffalse"] /\ Push(t, x, "inline")
          /\ Conflicting(Cur(t), d) = {} /\ (d = NoDepend \/ task_lock = None)
          /\ UNCHANGED <<new, tpc>>
       \/ /\ kind' = [kind EXCEPT ![x] = "waiting"] /\ UNCHANGED stack
          /\ new' = [new EXCEPT ![t] = x] /\ TMoved(t, "defer")

LEMMA BeginFacts ==
  ASSUME Typed, CoreInv, PosInv, NEW t \in Threads, NEW x \in Tasks, NEW d, Begins(t, x, d)
  PROVE  /\ status[x] = "none" /\ parent[x] = None
         /\ \A s \in Threads : s # t => Cur(s)' = Cur(s)
         /\ \A s \in Threads : new[s] # x
         /\ \A y : Unfinished(y)' <=> Unfinished(y)
         /\ \A y \in Tasks : Unfinished(y) => y # x
         /\ \A y : Going(y)' <=> Going(y)
         /\ \A y : Ready(y)' <=> Ready(y)
         /\ \A y : Alive(y)' <=> Alive(y)
         /\ \A y, z : Edge(y, z)' <=> Edge(y, z)
         /\ \A y, z \in Tasks : Edge(y, z) => y # x /\ z # x
         /\ \A s \in Threads : tpc'[s] \in Late <=> tpc[s] \in Late
<1>1. status[x] = "none" /\ parent[x] = None
  BY DEF Begins, CoreInv, KindInv, Typed, TB!Statuses
<1>2. \A s \in Threads : s # t => Cur(s)' = Cur(s)
  BY Pushed DEF Begins, Cur, Contexts
<1>3. \A s \in Threads : new[s] # x
  BY Names DEF Begins, CoreInv, KindInv, Owners
<1>4. \A y : Unfinished(y)' <=> Unfinished(y)
  BY DEF Begins, Unfinished
<1>5. \A y \in Tasks : Unfinished(y) => y # x
  BY <1>1 DEF Unfinished
<1>6. /\ \A s \in Threads : s # t => tpc'[s] = tpc[s]
      /\ tpc[t] = "code" /\ tpc'[t] \in {"code", "defer"}
  BY DEF Begins, TMoved
<1>7. \A y : Past(y)' <=> Past(y)
  BY <1>2, <1>6 DEF Past, Late
<1>8. \A y : Going(y)' <=> Going(y)
  BY <1>4, <1>7 DEF Going
<1>9. \A y : Ready(y)' <=> Ready(y)
  BY DEF Begins, Ready
<1>10. \A y : Alive(y)' <=> Alive(y)
  <2>1. \A y \in Tasks : kind'[y] = "gone" <=> kind[y] = "gone"
    BY DEF Begins, Typed
  <2>2. \A y : (\A s \in Threads : Cur(s)' = y => tpc'[s] # "finish3") <=>
               (\A s \in Threads : Cur(s) = y => tpc[s] # "finish3")
    BY <1>2, <1>6
  <2> QED BY <2>1, <2>2 DEF Alive
<1>11. \A y, z : Edge(y, z)' <=> Edge(y, z)
  BY DEF Begins, Edge
<1>12. \A y, z \in Tasks : Edge(y, z) => y # x /\ z # x
  <2>1. \A y, z \in Tasks : Edge(y, z) => status[z] = "blocked" /\ Going(y)
    BY DEF CoreInv, DepInv
  <2> QED BY <1>1, <1>5, <2>1 DEF Going
<1>13. \A s \in Threads : tpc'[s] \in Late <=> tpc[s] \in Late
  BY <1>6 DEF Late
<1> QED BY <1>1, <1>2, <1>3, <1>4, <1>5, <1>8, <1>9, <1>10, <1>11, <1>12, <1>13

\* Creating a task keeps the invariants of the lists.
LEMMA BeginKeeps ==
  ASSUME Typed, CoreInv, PosInv, NEW t \in Threads, NEW x \in Tasks, NEW d, Begins(t, x, d)
  PROVE  CoreInv'
<1>0. /\ UNCHANGED <<status, btask, task_queue, children, depend_hash>>
      /\ UNCHANGED <<dependers, num_dependees>>
      /\ d \in [Addrs -> {"no", "in", "out"}] /\ new[t] = None
  BY DEF Begins
<1>1. /\ parent'[x] = Cur(t) /\ depend'[x] = d /\ after'[x] = MustFollow(Cur(t), d)
      /\ \A y \in Tasks : y # x => /\ parent'[y] = parent[y] /\ depend'[y] = depend[y]
                                   /\ after'[y] = after[y] /\ kind'[y] = kind[y]
      /\ kind'[x] \in {"iffalse", "waiting"}
  BY DEF Begins, Typed
<1>2. Alive(Cur(t)) /\ Cur(t) \in Owners
  BY CurAlive, CurTyped DEF CoreInv, Begins
<1>3. \/ /\ kind'[x] = "iffalse" /\ Push(t, x, "inline")
         /\ Conflicting(Cur(t), d) = {} /\ (d = NoDepend \/ task_lock = None)
         /\ UNCHANGED new
      \/ /\ kind'[x] = "waiting" /\ new' = [new EXCEPT ![t] = x] /\ Cur(t)' = Cur(t)
  BY DEF Begins, Typed, Cur
<1>4. StackInv'
  <2>1. CASE kind' = [kind EXCEPT ![x] = "iffalse"] /\ Push(t, x, "inline")
    BY <1>0, <2>1, PushKeepsStacks DEF CoreInv, Begins, Contexts
  <2>2. CASE kind' = [kind EXCEPT ![x] = "waiting"] /\ UNCHANGED stack
    <3>1. \A s \in Threads : \A i \in DOMAIN stack[s] :
            /\ kind[stack[s][i].task] =
                  IF stack[s][i].ctx = "inline" THEN "iffalse" ELSE "tied"
            /\ stack[s][i].ctx = "barrier" => i = 1 /\ btask[s] = stack[s][i].task
      BY DEF CoreInv, StackInv
    <3>2. \A s \in Threads : \A i \in DOMAIN stack[s] : stack[s][i].task # x
      BY <3>1 DEF Begins
    <3>3. \A s \in Threads : \A i \in DOMAIN stack[s] : stack[s][i] \in Frames
      <4>1. \A s \in Threads : stack[s] \in Seq(Frames)
        BY DEF Typed
      <4> QED BY <4>1, ElementOfSeq
    <3>4. \A s \in Threads : \A i \in DOMAIN stack[s] : stack[s][i].task \in Tasks
      BY <3>3 DEF Frames
    <3>5. \A s \in Threads : \A i \in DOMAIN stack[s] :
            kind'[stack[s][i].task] = kind[stack[s][i].task]
      BY <1>1, <3>2, <3>4
    <3> QED BY <1>0, <2>2, <3>1, <3>5 DEF CoreInv, StackInv
  <2> QED BY <2>1, <2>2 DEF Begins
<1>5. KindInv'
  <2>1. \A y \in Tasks :
          /\ status[y] \in {"blocked", "queued"} => kind'[y] = "waiting"
          /\ status[y] = "running" <=> kind'[y] = "tied"
          /\ status[y] = "done" => kind'[y] = "gone"
          /\ kind'[y] = "gone" => status[y] \in {"none", "done"}
          /\ kind'[y] = "unused" => parent'[y] = None
    BY <1>1, BeginFacts DEF CoreInv, KindInv
  <2>2. \A s \in Threads : new[s] # None =>
          /\ s # t /\ new[s] \in Tasks /\ kind[new[s]] = "waiting" /\ status[new[s]] = "none"
          /\ parent[new[s]] = Cur(s)
          /\ \A r \in Threads : new[r] = new[s] => r = s
    BY <1>0 DEF CoreInv, KindInv, Typed
  <2>3. \A s \in Threads : new[s] # None =>
          kind'[new[s]] = "waiting" /\ parent'[new[s]] = Cur(s)'
    BY <1>1, <2>2, BeginFacts
  <2>4. CASE UNCHANGED new
    BY <1>0, <2>1, <2>2, <2>3, <2>4 DEF KindInv
  <2>5. CASE kind'[x] = "waiting" /\ new' = [new EXCEPT ![t] = x] /\ Cur(t)' = Cur(t)
    <3>1. /\ new'[t] = x /\ \A s \in Threads : s # t => new'[s] = new[s]
      BY <2>5 DEF Typed
    <3>2. \A s \in Threads : new'[s] # None =>
            /\ kind'[new'[s]] = "waiting" /\ status[new'[s]] = "none"
            /\ parent'[new'[s]] = Cur(s)'
            /\ \A r \in Threads : new'[r] = new'[s] => r = s
      BY <1>1, <2>2, <2>3, <2>5, <3>1, BeginFacts
    <3> QED BY <1>0, <2>1, <3>2 DEF KindInv
  <2> QED BY <1>3, <2>4, <2>5
<1>6. QueueInv'
  BY <1>0, BeginFacts DEF CoreInv, QueueInv
<1>7. DepInv'
  <2>1. \A z : Before(z)' = Before(z)
    BY BeginFacts DEF Before
  <2>2. \A z, y \in Tasks : Edge(y, z) =>
          /\ status[z] = "blocked" /\ Going(y)
          /\ \A p \in Owners : Alive(p) => (parent[z] = p <=> parent[y] = p)
    BY DEF CoreInv, DepInv
  <2>3. \A z, y \in Tasks : Edge(y, z)' =>
          /\ status[z] = "blocked" /\ Going(y)'
          /\ \A p \in Owners : Alive(p)' => (parent'[z] = p <=> parent'[y] = p)
    BY <1>1, <2>2, BeginFacts
  <2>4. (\E s \in Threads : tpc[s] \in Late) => \E s \in Threads : tpc'[s] \in Late
    BY BeginFacts
  <2> QED BY <1>0, <2>1, <2>3, <2>4 DEF CoreInv, DepInv
<1>8. Acyclic'
  BY BeginFacts DEF CoreInv, Acyclic
<1>9. HashInv'
  <2>1. \A p \in Owners, a \in Addrs : depend_hash[p][a] \subseteq Tasks
    BY DEF Typed
  <2>2. \A y \in Tasks : Going(y) =>
          parent'[y] = parent[y] /\ depend'[y] = depend[y] /\ after'[y] = after[y]
    BY <1>1, BeginFacts DEF Going
  <2> SUFFICES ASSUME NEW p \in Owners, NEW a \in Addrs, Alive(p)
               PROVE  /\ \A y \in depend_hash[p][a] :
                            Going(y) /\ parent'[y] = p /\ depend'[y][a] # "no"
                      /\ \A y \in Tasks : Going(y) /\ parent'[y] = p /\ depend'[y][a] # "no" =>
                            \/ y \in depend_hash[p][a]
                            \/ \E z \in depend_hash[p][a] : depend'[z][a] = "out" /\ y \in after'[z]
    BY <1>0, BeginFacts DEF HashInv
  <2>3. /\ \A y \in depend_hash[p][a] :
              Going(y) /\ parent[y] = p /\ depend[y][a] # "no"
        /\ \A y \in Tasks : Going(y) /\ parent[y] = p /\ depend[y][a] # "no" =>
              \/ y \in depend_hash[p][a]
              \/ \E z \in depend_hash[p][a] : depend[z][a] = "out" /\ y \in after[z]
    BY DEF CoreInv, HashInv
  <2> QED BY <2>1, <2>2, <2>3
<1>10. ChildInv'
  <2>1. \A y \in Tasks : Going(y) => parent'[y] = parent[y]
    BY <1>1, BeginFacts DEF Going
  <2>2. \A p \in Owners, y \in Tasks : parent[y] = p => parent'[y] = p
    BY <1>1, BeginFacts, Names
  <2> QED BY <1>0, <2>1, <2>2, BeginFacts DEF CoreInv, ChildInv
<1>11. AfterInv'
  <2>1. \A y : y \in after'[x] <=>
          y \in Tasks /\ parent[y] = Cur(t) /\ Unfinished(y) /\ Conflict(d, depend[y])
    BY <1>1, MustFollowIs
  <2>2. \A z \in Tasks : \A y \in after'[z] : status[y] # "none"
    BY <1>1, <2>1 DEF CoreInv, AfterInv, Unfinished
  <2>3. \A z \in Tasks : status[z] \in {"queued", "running"} \/ kind'[z] = "iffalse" =>
          \A y \in after'[z] : status[y] = "done"
    <3>1. kind'[x] = "iffalse" => after'[x] = {}
      <4> SUFFICES ASSUME kind'[x] = "iffalse" PROVE after'[x] = {}
        OBVIOUS
      <4>1. Conflicting(Cur(t), d) = {} /\ (d = NoDepend \/ task_lock = None)
        BY <1>3
      <4>2. d = NoDepend \/ \A y : ~Past(y)
        <5>1. CASE task_lock = None
          <6>1. \A s \in Threads : tpc[s] \notin Late
            BY <5>1, NobodyFinishes DEF Finishing
          <6> QED BY <6>1, NobodyPast
        <5> QED BY <4>1, <5>1
      <4> QED BY <1>0, <1>1, <1>2, <4>1, <4>2, NothingToFollow
    <3>2. status[x] = "none"
      BY BeginFacts
    <3>3. \A z \in Tasks : z # x => kind'[z] = kind[z] /\ after'[z] = after[z]
      BY <1>1
    <3> QED BY <3>1, <3>2, <3>3 DEF CoreInv, AfterInv
  <2>4. ASSUME NEW z \in Tasks, status[z] = "blocked", NEW y \in after'[z], Going(y)
        PROVE  \E w \in Tasks : Edge(w, z)' /\ (w = y \/ y \in after'[w])
    <3>1. z # x
      BY <2>4, BeginFacts
    <3>2. PICK w \in Tasks : Edge(w, z) /\ (w = y \/ y \in after[w])
      BY <1>1, <2>4, <3>1 DEF CoreInv, AfterInv
    <3>3. w # x
      BY <3>2, BeginFacts
    <3> QED BY <1>1, <3>2, <3>3, BeginFacts
  <2>5. ASSUME NEW s \in Threads, new'[s] # None, NEW y \in Tasks, Unfinished(y)
        PROVE  y \in after'[new'[s]] <=>
                  parent'[y] = Cur(s)' /\ Conflict(depend'[new'[s]], depend'[y])
    <3>1. y # x /\ parent'[y] = parent[y] /\ depend'[y] = depend[y]
      BY <1>1, <2>5, BeginFacts
    <3>2. CASE s # t
      <4>1. new'[s] = new[s] /\ new[s] \in Tasks /\ new[s] # x /\ Cur(s)' = Cur(s)
        BY <1>3, <2>5, <3>2, BeginFacts DEF Typed
      <4>2. y \in after[new[s]] <=>
                  parent[y] = Cur(s) /\ Conflict(depend[new[s]], depend[y])
        BY <2>5, <4>1 DEF CoreInv, AfterInv
      <4> QED BY <1>1, <3>1, <4>1, <4>2
    <3>3. CASE s = t
      <4>1. new'[t] = x /\ Cur(t)' = Cur(t)
        BY <1>0, <1>3, <2>5, <3>3 DEF Typed
      <4> QED BY <1>1, <2>1, <2>5, <3>1, <3>3, <4>1
    <3> QED BY <3>2, <3>3
  <2>6. \A s \in Threads : new'[s] # None =>
          \A y \in Tasks : Unfinished(y)' =>
              (y \in after'[new'[s]] <=>
                  parent'[y] = Cur(s)' /\ Conflict(depend'[new'[s]], depend'[y]))
    BY <2>5, BeginFacts
  <2>7. /\ \A z \in Tasks : \A y \in after'[z] : status'[y] # "none"
        /\ \A z \in Tasks : status'[z] \in {"queued", "running"} \/ kind'[z] = "iffalse" =>
              \A y \in after'[z] : status'[y] = "done"
        /\ \A z \in Tasks : status'[z] = "blocked" =>
              \A y \in after'[z] : Going(y)' =>
                  \E w \in Tasks : Edge(w, z)' /\ (w = y \/ y \in after'[w])
    BY <1>0, <2>2, <2>3, <2>4, BeginFacts
  <2> QED BY <2>6, <2>7 DEF AfterInv, Conflict
<1> QED BY <1>4, <1>5, <1>6, <1>7, <1>8, <1>9, <1>10, <1>11 DEF CoreInv

\* The entry of GOMP_task.
LEMMA TaskBegins ==
  ASSUME Typed, CoreInv, PosInv, region \in Regions, NEW t \in Threads, GompTask(t)
  PROVE  /\ \E x \in Tasks, d \in [Addrs -> {"no", "in", "out"}] : Begins(t, x, d)
         /\ parent' \in [Tasks -> Owners \cup {None}]
         /\ kind' \in [Tasks -> Kinds]
         /\ depend' \in [Tasks -> [Addrs -> {"no", "in", "out"}]]
         /\ after' \in [Tasks -> SUBSET Tasks]
         /\ stack' \in [Threads -> Seq(Frames)]
         /\ new' \in [Threads -> Tasks \cup {None}]
         /\ OthersKeep(t) /\ PosOf(t)' /\ LockOf(t)'
<1>1. /\ tpc[t] = "code" /\ pc[t] = "user"
      /\ \E x \in region.tasks : kind[x] = "unused"
  BY DEF GompTask, InCode, TB!InUserCode
<1>2. PICK x \in Tasks : x = FreshTask /\ kind[x] = "unused"
  <2>1. FreshTask \in region.tasks /\ kind[FreshTask] = "unused"
    BY <1>1 DEF FreshTask
  <2> QED BY <2>1, Names
<1>3. PICK d \in [Addrs -> {"no", "in", "out"}], atOnce \in BOOLEAN :
        /\ InitTask(t, x, d)
        /\ atOnce /\ d # NoDepend => task_lock = None
        /\ after' = [after EXCEPT ![x] = MustFollow(Cur(t), d)]
        /\ IF atOnce /\ ~Overtakes(Cur(t), d)
           THEN /\ Push(t, x, "inline")
                /\ kind' = [kind EXCEPT ![x] = "iffalse"]
                /\ UNCHANGED <<copy_ctors_done, new, tpc>>
           ELSE /\ kind' = [kind EXCEPT ![x] = "waiting"]
                /\ new' = [new EXCEPT ![t] = x]
                /\ TGoto(t, "defer")
                /\ UNCHANGED stack
  BY <1>2 DEF GompTask
<1>4. UNCHANGED <<tbVars, task_queue, children, depend_hash, dependers, num_dependees>>
  BY DEF GompTask
<1>5. UNCHANGED <<status, btask, pc, task_lock>>
  BY <1>4 DEF tbVars
<1>6. /\ parent' = [parent EXCEPT ![x] = Cur(t)]
      /\ depend' = [depend EXCEPT ![x] = d]
  BY <1>3 DEF InitTask
<1>7. PosOf(t) /\ LockOf(t) /\ new[t] = None
  BY <1>1 DEF PosInv, PosOf
<1>8. \/ /\ Push(t, x, "inline") /\ kind' = [kind EXCEPT ![x] = "iffalse"]
         /\ UNCHANGED <<new, tpc>>
         /\ Conflicting(Cur(t), d) = {} /\ (d = NoDepend \/ task_lock = None)
      \/ /\ kind' = [kind EXCEPT ![x] = "waiting"] /\ new' = [new EXCEPT ![t] = x]
         /\ TMoved(t, "defer") /\ UNCHANGED stack
  BY <1>3, TGotoMoves DEF Overtakes
<1>9. Begins(t, x, d)
  BY <1>1, <1>2, <1>3, <1>4, <1>5, <1>6, <1>7, <1>8 DEF Begins
<1>10. /\ stack' \in [Threads -> Seq(Frames)]
       /\ \A s \in Threads : s # t => stack'[s] = stack[s]
       /\ new' \in [Threads -> Tasks \cup {None}]
       /\ kind' \in [Tasks -> Kinds]
  <2>1. /\ stack' \in [Threads -> Seq(Frames)]
        /\ \A s \in Threads : s # t => stack'[s] = stack[s]
    <3>1. CASE Push(t, x, "inline")
      BY <3>1, Pushed DEF Contexts
    <3>2. CASE UNCHANGED stack
      BY <3>2 DEF Typed
    <3> QED BY <1>8, <3>1, <3>2
  <2>2. new' \in [Threads -> Tasks \cup {None}]
    BY <1>8 DEF Typed
  <2>3. kind' \in [Tasks -> Kinds]
    BY <1>8 DEF Typed, Kinds
  <2> QED BY <2>1, <2>2, <2>3
<1>11. Cur(t) \in Owners /\ MustFollow(Cur(t), d) \subseteq Tasks
  BY CurTyped DEF MustFollow
<1>12. /\ parent' \in [Tasks -> Owners \cup {None}]
       /\ depend' \in [Tasks -> [Addrs -> {"no", "in", "out"}]]
       /\ after' \in [Tasks -> SUBSET Tasks]
  BY <1>3, <1>6, <1>11 DEF Typed
<1>13. OthersKeep(t)
  BY <1>5, <1>8, <1>10 DEF OthersKeep, TMoved, Typed
<1>14. PosOf(t)' /\ LockOf(t)'
  <2>1. CASE Push(t, x, "inline") /\ UNCHANGED <<new, tpc>>
    BY <1>1, <1>5, <1>7, <2>1 DEF PosOf, LockOf, Finishing, Late
  <2>2. CASE new' = [new EXCEPT ![t] = x] /\ TMoved(t, "defer") /\ UNCHANGED stack
    <3>1. new'[t] # None
      BY <2>2, Names DEF Typed, Owners
    <3> QED BY <1>1, <1>5, <1>7, <2>2, <3>1 DEF PosOf, LockOf, TMoved, Finishing, Late
  <2> QED BY <1>8, <2>1, <2>2
<1> QED BY <1>9, <1>10, <1>12, <1>13, <1>14
-----------------------------------------------------------------------------
(* Deferring a task.                                                       *)

(* GOMP_task finds its group cancelled and drops the new task.             *)
Drops(t, x) ==
    /\ new[t] = x /\ task_lock = None
    /\ kind' = [kind EXCEPT ![x] = "gone"] /\ new' = [new EXCEPT ![t] = None]
    /\ UNCHANGED <<status, btask, task_queue, parent, children, depend, depend_hash>>
    /\ UNCHANGED <<dependers, num_dependees, stack, after>>
    /\ TMoved(t, "code")

\* Nobody notices a task that is dropped.
LEMMA DropsKeep ==
  ASSUME Typed, CoreInv, PosInv, NEW t \in Threads, NEW x \in Tasks, Drops(t, x)
  PROVE  CoreInv'
<1>0. /\ UNCHANGED <<status, btask, task_queue, parent, children, depend, depend_hash>>
      /\ UNCHANGED <<dependers, num_dependees, stack, after>>
      /\ new'[t] = None /\ \A s \in Threads : s # t => new'[s] = new[s]
      /\ kind'[x] = "gone" /\ \A y \in Tasks : y # x => kind'[y] = kind[y]
  BY DEF Drops, Typed
<1>1. /\ kind[x] = "waiting" /\ status[x] = "none" /\ parent[x] = Cur(t)
      /\ \A s \in Threads : new[s] = x => s = t
  BY Names DEF Drops, CoreInv, KindInv, Owners
<1>2. \A s : Cur(s)' = Cur(s)
  BY <1>0 DEF Cur
<1>3. \A s \in Threads : tpc[s] \notin Finishing /\ tpc'[s] \notin Late
  BY NobodyFinishes DEF Drops, TMoved, Finishing, Late
<1>4. \A y : ~Past(y) /\ ~Past(y)'
  BY <1>3 DEF Past, Finishing
<1>5. \A y : (Unfinished(y)' <=> Unfinished(y)) /\ (Ready(y)' <=> Ready(y))
  BY <1>0 DEF Unfinished, Ready
<1>6. \A y : Going(y)' <=> Going(y)
  BY <1>4, <1>5 DEF Going
<1>7. \A y : Alive(y)' => Alive(y)
  BY <1>0, <1>3 DEF Alive, Finishing, Late
<1>8. \A y, z : Edge(y, z)' <=> Edge(y, z)
  BY <1>0 DEF Edge
<1>9. StackInv'
  <2>1. \A s \in Threads : \A i \in DOMAIN stack[s] :
          /\ kind[stack[s][i].task] =
                IF stack[s][i].ctx = "inline" THEN "iffalse" ELSE "tied"
          /\ stack[s][i].ctx = "barrier" => i = 1 /\ btask[s] = stack[s][i].task
    BY DEF CoreInv, StackInv
  <2>2. \A s \in Threads : \A i \in DOMAIN stack[s] : stack[s][i].task # x
    BY <1>1, <2>1
  <2>3. \A s \in Threads : \A i \in DOMAIN stack[s] : stack[s][i] \in Frames
    <3>1. \A s \in Threads : stack[s] \in Seq(Frames)
      BY DEF Typed
    <3> QED BY <3>1, ElementOfSeq
  <2>4. \A s \in Threads : \A i \in DOMAIN stack[s] :
          kind'[stack[s][i].task] = kind[stack[s][i].task]
    BY <1>0, <2>2, <2>3 DEF Frames
  <2> QED BY <1>0, <2>1, <2>4 DEF CoreInv, StackInv
<1>10. KindInv'
  <2>1. \A y \in Tasks :
          /\ status[y] \in {"blocked", "queued"} => kind'[y] = "waiting"
          /\ status[y] = "running" <=> kind'[y] = "tied"
          /\ status[y] = "done" => kind'[y] = "gone"
          /\ kind'[y] = "gone" => status[y] \in {"none", "done"}
          /\ kind'[y] = "unused" => parent[y] = None
    BY <1>0, <1>1 DEF CoreInv, KindInv
  <2>2. \A s \in Threads : new'[s] # None =>
          /\ s # t /\ new'[s] = new[s] /\ new[s] \in Tasks /\ new[s] # x
          /\ kind[new[s]] = "waiting" /\ status[new[s]] = "none" /\ parent[new[s]] = Cur(s)
          /\ \A r \in Threads : new[r] = new[s] => r = s
    BY <1>0, <1>1 DEF CoreInv, KindInv, Typed
  <2>3. \A s \in Threads : new'[s] # None =>
          /\ kind'[new'[s]] = "waiting" /\ status[new'[s]] = "none"
          /\ parent[new'[s]] = Cur(s)'
          /\ \A r \in Threads : new'[r] = new'[s] => r = s
    BY <1>0, <1>2, <2>2
  <2> QED BY <1>0, <2>1, <2>3 DEF KindInv
<1>11. QueueInv'
  BY <1>0, <1>5 DEF CoreInv, QueueInv
<1>12. DepInv'
  <2>1. \A z : Before(z)' = Before(z)
    BY <1>8 DEF Before
  <2>2. \A z, y \in Tasks : Edge(y, z) =>
          /\ status[z] = "blocked" /\ Going(y)
          /\ \A p \in Owners : Alive(p) => (parent[z] = p <=> parent[y] = p)
    BY DEF CoreInv, DepInv
  <2>3. \A z, y \in Tasks : Edge(y, z)' =>
          /\ status[z] = "blocked" /\ Going(y)'
          /\ \A p \in Owners : Alive(p)' => (parent[z] = p <=> parent[y] = p)
    BY <1>6, <1>7, <1>8, <2>2
  <2>4. ~\E s \in Threads : tpc[s] \in Late
    BY <1>3 DEF Finishing
  <2> QED BY <1>0, <2>1, <2>3, <2>4 DEF CoreInv, DepInv
<1>13. Acyclic'
  BY <1>8 DEF CoreInv, Acyclic
<1>14. HashInv'
  BY <1>0, <1>6, <1>7 DEF CoreInv, HashInv
<1>15. ChildInv'
  BY <1>0, <1>5, <1>6, <1>7 DEF CoreInv, ChildInv
<1>16. AfterInv'
  <2>1. \A y \in Tasks : kind'[y] = "iffalse" => kind[y] = "iffalse"
    BY <1>0
  <2>2. \A s \in Threads : new'[s] # None =>
          \A y \in Tasks : Unfinished(y) =>
              (y \in after[new'[s]] <=>
                  parent[y] = Cur(s)' /\ Conflict(depend[new'[s]], depend[y]))
    <3>1. \A s \in Threads : new'[s] # None => new'[s] = new[s]
      BY <1>0
    <3> QED BY <1>2, <3>1 DEF CoreInv, AfterInv
  <2> QED BY <1>0, <1>5, <1>6, <1>8, <2>1, <2>2 DEF CoreInv, AfterInv, Conflict
<1> QED BY <1>9, <1>10, <1>11, <1>12, <1>13, <1>14, <1>15, <1>16 DEF CoreInv
-----------------------------------------------------------------------------
(* GOMP_task queues the new task, or makes it wait for siblings.           *)
Preds(t, x) == Conflicting(Cur(t), depend[x])

Defers(t, x) ==
    /\ new[t] = x /\ task_lock = None
    /\ new' = [new EXCEPT ![t] = None]
    /\ status' = [status EXCEPT ![x] = IF Preds(t, x) # {} THEN "blocked" ELSE "queued"]
    /\ depend_hash' = [depend_hash EXCEPT ![Cur(t)] = EnterHash(@, x)]
    /\ \A y \in Tasks : Injective(dependers'[y])
    /\ \A y \in Tasks : \A z : In(z, dependers'[y]) <=>
          In(z, dependers[y]) \/ (z = x /\ y \in Preds(t, x))
    /\ num_dependees' = [num_dependees EXCEPT ![x] = Cardinality(Preds(t, x))]
    /\ Injective(task_queue')
    /\ \A z : In(z, task_queue') <=> In(z, task_queue) \/ (z = x /\ Preds(t, x) = {})
    /\ \A q \in Owners : \A y : In(y, children'[q]) <=>
          In(y, children[q]) \/ (q = Cur(t) /\ y = x /\ Preds(t, x) = {})
    /\ UNCHANGED <<btask, kind, parent, depend, stack, after>>
    /\ TMoved(t, "code")

\* The task under construction is known to nobody yet.
LEMMA NewTask ==
  ASSUME Typed, CoreInv, PosInv, NEW t \in Threads, NEW x \in Tasks, new[t] = x,
         task_lock = None
  PROVE  /\ kind[x] = "waiting" /\ status[x] = "none" /\ parent[x] = Cur(t)
         /\ \A s \in Threads : new[s] = x => s = t
         /\ Alive(Cur(t)) /\ Cur(t) \in Owners
         /\ \A s \in Threads : tpc[s] \notin Late
         /\ \A y \in Tasks : ~Edge(y, x) /\ ~Edge(x, y) /\ x \notin after[y]
         /\ \A y \in Preds(t, x) : y \in Tasks /\ y # x /\ parent[y] = Cur(t) /\ Going(y)
         /\ ~In(x, task_queue)
         /\ IsFiniteSet(Preds(t, x))
         /\ Cardinality(Preds(t, x)) \in Nat
         /\ (Cardinality(Preds(t, x)) = 0 <=> Preds(t, x) = {})
         /\ \A y \in Tasks : Going(y) => (y \in after[x] <=>
                parent[y] = Cur(t) /\ Conflict(depend[x], depend[y]))
<1>1. /\ kind[x] = "waiting" /\ status[x] = "none" /\ parent[x] = Cur(t)
      /\ \A s \in Threads : new[s] = x => s = t
  BY Names DEF CoreInv, KindInv, Owners
<1>2. \A s \in Threads : tpc[s] \notin Finishing
  BY NobodyFinishes
<1>3. Alive(Cur(t)) /\ Cur(t) \in Owners
  BY <1>2, CurAlive, CurTyped DEF CoreInv, Finishing, Late
<1>4. \A y \in Tasks : ~Edge(y, x) /\ ~Edge(x, y) /\ x \notin after[y]
  BY <1>1 DEF CoreInv, DepInv, AfterInv, Going, Unfinished
<1>5. ~In(x, task_queue)
  BY <1>1 DEF CoreInv, QueueInv, Ready
<1>6. \A y \in Preds(t, x) : y \in Tasks /\ y # x /\ parent[y] = Cur(t) /\ Going(y)
  <2> SUFFICES ASSUME NEW y \in Preds(t, x)
               PROVE  y \in Tasks /\ y # x /\ parent[y] = Cur(t) /\ Going(y)
    OBVIOUS
  <2>1. y \in Tasks /\ \E a \in Addrs : y \in depend_hash[Cur(t)][a]
    BY DEF Preds, Conflicting
  <2>2. Going(y) /\ parent[y] = Cur(t)
    BY <1>3, <2>1 DEF CoreInv, HashInv
  <2> QED BY <1>1, <2>1, <2>2 DEF Going, Unfinished
<1>7. /\ IsFiniteSet(Preds(t, x)) /\ Cardinality(Preds(t, x)) \in Nat
      /\ (Cardinality(Preds(t, x)) = 0 <=> Preds(t, x) = {})
  <2>1. Preds(t, x) \subseteq Tasks /\ IsFiniteSet(Tasks)
    BY Names DEF Preds, Conflicting
  <2>2. IsFiniteSet(Preds(t, x))
    BY <2>1, FS_Subset
  <2> QED BY <2>2, FS_CardinalityType, FS_EmptySet
<1>8. \A y \in Tasks : Going(y) => (y \in after[x] <=>
                parent[y] = Cur(t) /\ Conflict(depend[x], depend[y]))
  BY Names DEF CoreInv, AfterInv, Going, Owners
<1> QED BY <1>1, <1>2, <1>3, <1>4, <1>5, <1>6, <1>7, <1>8 DEF Finishing

LEMMA DeferFacts ==
  ASSUME Typed, CoreInv, PosInv, NEW t \in Threads, NEW x \in Tasks, Defers(t, x)
  PROVE  /\ \A s : Cur(s)' = Cur(s)
         /\ \A y \in Tasks : y # x => status'[y] = status[y]
         /\ status'[x] = IF Preds(t, x) # {} THEN "blocked" ELSE "queued"
         /\ \A y \in Tasks : Unfinished(y)' <=> Unfinished(y) \/ y = x
         /\ \A y \in Tasks : Going(y)' <=> Going(y) \/ y = x
         /\ \A y \in Tasks : ~Ready(y) /\ ~Ready(y)'
         /\ \A y : Alive(y)' <=> Alive(y)
         /\ \A y \in Tasks : \A z : Edge(y, z)' <=> Edge(y, z) \/ (z = x /\ y \in Preds(t, x))
<1>1. /\ status[x] = "none"
      /\ \A s \in Threads : tpc[s] \notin Late
      /\ Cardinality(Preds(t, x)) = 0 <=> Preds(t, x) = {}
  BY NewTask DEF Defers
<1>2. \A s : Cur(s)' = Cur(s)
  BY DEF Defers, Cur
<1>3. /\ \A y \in Tasks : y # x => status'[y] = status[y]
      /\ status'[x] = IF Preds(t, x) # {} THEN "blocked" ELSE "queued"
      /\ \A y \in Tasks : y # x => num_dependees'[y] = num_dependees[y]
      /\ num_dependees'[x] = Cardinality(Preds(t, x))
  BY DEF Defers, Typed
<1>4. \A y \in Tasks : Unfinished(y)' <=> Unfinished(y) \/ y = x
  BY <1>3 DEF Unfinished
<1>5. \A s \in Threads : tpc[s] \notin Late /\ tpc'[s] \notin Late
  BY <1>1 DEF Defers, TMoved, Late
<1>6. \A y : ~Past(y) /\ ~Past(y)'
  BY <1>5 DEF Past
<1>7. \A y \in Tasks : Going(y)' <=> Going(y) \/ y = x
  BY <1>4, <1>6 DEF Going
<1>8. \A y \in Tasks : ~Ready(y)
  BY <1>1 DEF CoreInv, DepInv, Ready
<1>9. \A y \in Tasks : ~Ready(y)'
  BY <1>1, <1>3, <1>8 DEF Ready
<1>10. \A y : Alive(y)' <=> Alive(y)
  BY <1>5 DEF Alive, Defers, Late
<1>11. \A y \in Tasks : \A z : Edge(y, z)' <=> Edge(y, z) \/ (z = x /\ y \in Preds(t, x))
  BY DEF Edge, Defers
<1> QED BY <1>2, <1>3, <1>4, <1>7, <1>8, <1>9, <1>10, <1>11

\* The table shows the new task, and what it replaces is ordered before it.
LEMMA DeferHash ==
  ASSUME Typed, CoreInv, PosInv, NEW t \in Threads, NEW x \in Tasks, Defers(t, x)
  PROVE  HashInv'
<1>0. /\ UNCHANGED <<parent, depend, after>> /\ new[t] = x /\ task_lock = None
      /\ depend_hash' = [depend_hash EXCEPT ![Cur(t)] = EnterHash(@, x)]
  BY DEF Defers
<1>1. Alive(Cur(t)) /\ Cur(t) \in Owners /\ parent[x] = Cur(t) /\ status[x] = "none"
  BY <1>0, NewTask
<1> SUFFICES ASSUME NEW p \in Owners, NEW a \in Addrs, Alive(p)
             PROVE  /\ \A y \in depend_hash'[p][a] :
                          Going(y)' /\ parent[y] = p /\ depend[y][a] # "no"
                    /\ \A y \in Tasks : Going(y)' /\ parent[y] = p /\ depend[y][a] # "no" =>
                          \/ y \in depend_hash'[p][a]
                          \/ \E z \in depend_hash'[p][a] : depend[z][a] = "out" /\ y \in after[z]
  BY <1>0, DeferFacts DEF HashInv
<1>2. /\ \A y \in depend_hash[p][a] :
            Going(y) /\ parent[y] = p /\ depend[y][a] # "no"
      /\ \A y \in Tasks : Going(y) /\ parent[y] = p /\ depend[y][a] # "no" =>
            \/ y \in depend_hash[p][a]
            \/ \E z \in depend_hash[p][a] : depend[z][a] = "out" /\ y \in after[z]
  BY DEF CoreInv, HashInv
<1>3. /\ depend_hash[p][a] \subseteq Tasks
      /\ \A y \in Tasks : depend[y][a] \in {"no", "in", "out"}
  BY DEF Typed
<1>4. \A y \in Tasks : Going(y)' <=> Going(y) \/ y = x
  BY DeferFacts
<1>5. CASE p # Cur(t)
  <2>1. depend_hash'[p] = depend_hash[p]
    BY <1>0, <1>5 DEF Typed
  <2> QED BY <1>1, <1>2, <1>3, <1>4, <1>5, <2>1
<1>6. CASE p = Cur(t)
  <2>1. depend_hash'[p][a] = EnterHash(depend_hash[p], x)[a]
    BY <1>0, <1>6 DEF Typed
  <2>2. CASE depend[x][a] = "no"
    <3>1. depend_hash'[p][a] = depend_hash[p][a]
      BY <2>1, <2>2 DEF EnterHash
    <3> QED BY <1>2, <1>3, <1>4, <2>2, <3>1
  <2>3. CASE depend[x][a] = "in"
    <3>1. depend_hash'[p][a] = depend_hash[p][a] \cup {x}
      BY <2>1, <2>3 DEF EnterHash
    <3> QED BY <1>1, <1>2, <1>3, <1>4, <1>6, <2>3, <3>1
  <2>4. CASE depend[x][a] = "out"
    <3>1. depend_hash'[p][a] = {y \in depend_hash[p][a] : depend[y][a] = "in"} \cup {x}
      BY <2>1, <2>4 DEF EnterHash
    <3>2. ASSUME NEW y \in Tasks, Going(y), parent[y] = p, depend[y][a] # "no"
          PROVE  y \in after[x]
      <4>1. Conflict(depend[x], depend[y])
        BY <2>4, <3>2 DEF Conflict
      <4> QED BY <1>0, <1>6, <3>2, <4>1, NewTask
    <3> QED BY <1>1, <1>2, <1>3, <1>4, <1>6, <2>4, <3>1, <3>2
  <2> QED BY <1>3, <2>2, <2>3, <2>4
<1> QED BY <1>5, <1>6

\* It waits for what it must follow, or for one that waits for that.
LEMMA DeferAfter ==
  ASSUME Typed, CoreInv, PosInv, NEW t \in Threads, NEW x \in Tasks, Defers(t, x)
  PROVE  AfterInv'
<1>0. /\ UNCHANGED <<kind, parent, depend, after>> /\ new[t] = x /\ task_lock = None
      /\ new'[t] = None /\ \A s \in Threads : s # t => new'[s] = new[s]
  BY DEF Defers, Typed
<1>1. /\ Alive(Cur(t)) /\ Cur(t) \in Owners /\ parent[x] = Cur(t) /\ status[x] = "none"
      /\ kind[x] = "waiting"
      /\ \A y \in Tasks : x \notin after[y]
      /\ \A y \in Tasks : Going(y) => (y \in after[x] <=>
                parent[y] = Cur(t) /\ Conflict(depend[x], depend[y]))
  BY <1>0, NewTask
<1>2. /\ \A y \in Tasks : y # x => status'[y] = status[y]
      /\ status'[x] = IF Preds(t, x) # {} THEN "blocked" ELSE "queued"
  BY DeferFacts
<1>3. \A z \in Tasks : after[z] \subseteq Tasks
  BY DEF Typed
<1>4. \A y \in after[x] : Going(y) => \E z \in Preds(t, x) : z = y \/ y \in after[z]
  <2> SUFFICES ASSUME NEW y \in after[x], Going(y)
               PROVE  \E z \in Preds(t, x) : z = y \/ y \in after[z]
    OBVIOUS
  <2>1. y \in Tasks /\ parent[y] = Cur(t) /\ Conflict(depend[x], depend[y])
    BY <1>1, <1>3
  <2>2. depend[x] \in [Addrs -> {"no", "in", "out"}]
    BY DEF Typed
  <2> QED BY <1>1, <2>1, <2>2, ConflictFound DEF Preds
<1>5. \A y : ~Past(y)
  BY <1>0, NewTask, NobodyPast
<1>6. \A z \in Tasks : \A y \in after[z] : status'[y] # "none"
  BY <1>1, <1>2, <1>3 DEF CoreInv, AfterInv
<1>7. \A z \in Tasks : status'[z] \in {"queued", "running"} \/ kind[z] = "iffalse" =>
          \A y \in after[z] : status'[y] = "done"
  <2> SUFFICES ASSUME NEW z \in Tasks, NEW y \in after[z],
                      status'[z] \in {"queued", "running"} \/ kind[z] = "iffalse"
               PROVE  status[y] = "done"
    BY <1>1, <1>2, <1>3
  <2>1. CASE z # x
    BY <1>2, <2>1 DEF CoreInv, AfterInv
  <2>2. CASE z = x
    <3>1. Preds(t, x) = {}
      BY <1>1, <1>2, <2>2
    <3>2. ~Unfinished(y)
      BY <1>4, <1>5, <2>2, <3>1 DEF Going
    <3>3. status[y] # "none" /\ y \in Tasks
      BY <1>3 DEF CoreInv, AfterInv
    <3> QED BY <3>2, <3>3 DEF Unfinished, Typed, TB!Statuses
  <2> QED BY <2>1, <2>2
<1>8. ASSUME NEW z \in Tasks, NEW y \in after[z], status'[z] = "blocked", Going(y)'
      PROVE  \E w \in Tasks : Edge(w, z)' /\ (w = y \/ y \in after[w])
  <2>1. y \in Tasks /\ y # x /\ Going(y)
    BY <1>1, <1>3, <1>8, DeferFacts
  <2>2. CASE z # x
    <3>1. status[z] = "blocked"
      BY <1>2, <1>8, <2>2
    <3>2. \E w \in Tasks : Edge(w, z) /\ (w = y \/ y \in after[w])
      BY <2>1, <3>1 DEF CoreInv, AfterInv
    <3> QED BY <3>2, DeferFacts
  <2>3. CASE z = x
    <3>1. PICK w \in Preds(t, x) : w = y \/ y \in after[w]
      BY <1>4, <2>1, <2>3
    <3>2. w \in Tasks
      BY <3>1 DEF Preds, Conflicting
    <3> QED BY <2>3, <3>1, <3>2, DeferFacts
  <2> QED BY <2>2, <2>3
<1>9. ASSUME NEW s \in Threads, new'[s] # None, NEW y \in Tasks, Unfinished(y)'
      PROVE  y \in after[new'[s]] <=>
                parent[y] = Cur(s) /\ Conflict(depend[new'[s]], depend[y])
  <2>1. s # t /\ new'[s] = new[s] /\ new[s] \in Tasks
    BY <1>0, <1>9 DEF Typed
  <2>2. CASE y # x
    <3>1. Unfinished(y)
      BY <1>9, <2>2, DeferFacts
    <3> QED BY <1>9, <2>1, <3>1 DEF CoreInv, AfterInv
  <2>3. CASE y = x
    <3>1. y \notin after[new'[s]]
      BY <1>1, <2>1, <2>3
    <3>2. Cur(s) # Cur(t)
      BY <2>1, CurInjective DEF CoreInv
    <3> QED BY <1>1, <2>3, <3>1, <3>2
  <2> QED BY <2>2, <2>3
<1>10. \A s \in Threads : new'[s] # None =>
          \A y \in Tasks : Unfinished(y)' =>
              (y \in after[new'[s]] <=>
                  parent[y] = Cur(s)' /\ Conflict(depend[new'[s]], depend[y]))
  BY <1>9, DeferFacts
<1> QED BY <1>0, <1>6, <1>7, <1>8, <1>10 DEF AfterInv, Conflict

\* Deferring a task keeps the invariants of the lists.
LEMMA DeferKeeps ==
  ASSUME Typed, CoreInv, PosInv, NEW t \in Threads, NEW x \in Tasks, Defers(t, x)
  PROVE  CoreInv'
<1>0. /\ UNCHANGED <<btask, kind, parent, depend, stack, after>>
      /\ new[t] = x /\ task_lock = None
      /\ new'[t] = None /\ \A s \in Threads : s # t => new'[s] = new[s]
  BY DEF Defers, Typed
<1>1. /\ Alive(Cur(t)) /\ Cur(t) \in Owners /\ parent[x] = Cur(t) /\ status[x] = "none"
      /\ kind[x] = "waiting" /\ \A s \in Threads : new[s] = x => s = t
      /\ \A y \in Tasks : ~Edge(y, x) /\ ~Edge(x, y)
      /\ \A y \in Preds(t, x) : y \in Tasks /\ y # x /\ parent[y] = Cur(t) /\ Going(y)
      /\ Cardinality(Preds(t, x)) = 0 <=> Preds(t, x) = {}
      /\ \A s \in Threads : tpc[s] \notin Late
  BY <1>0, NewTask
<1>2. /\ \A y \in Tasks : y # x => status'[y] = status[y]
      /\ status'[x] = IF Preds(t, x) # {} THEN "blocked" ELSE "queued"
  BY DeferFacts
<1>3. StackInv'
  BY <1>0 DEF CoreInv, StackInv
<1>4. KindInv'
  <2>1. \A y \in Tasks :
          /\ status'[y] \in {"blocked", "queued"} => kind[y] = "waiting"
          /\ status'[y] = "running" <=> kind[y] = "tied"
          /\ status'[y] = "done" => kind[y] = "gone"
          /\ kind[y] = "gone" => status'[y] \in {"none", "done"}
          /\ kind[y] = "unused" => parent[y] = None
    BY <1>1, <1>2 DEF CoreInv, KindInv
  <2>2. \A s \in Threads : new'[s] # None =>
          /\ s # t /\ new'[s] = new[s] /\ new[s] \in Tasks /\ new[s] # x
          /\ kind[new[s]] = "waiting" /\ status[new[s]] = "none" /\ parent[new[s]] = Cur(s)
          /\ \A r \in Threads : new[r] = new[s] => r = s
    BY <1>0, <1>1 DEF CoreInv, KindInv, Typed
  <2>3. \A s \in Threads : new'[s] # None =>
          /\ kind[new'[s]] = "waiting" /\ status'[new'[s]] = "none"
          /\ parent[new'[s]] = Cur(s)'
          /\ \A r \in Threads : new'[r] = new'[s] => r = s
    BY <1>0, <1>2, <2>2, DeferFacts
  <2> QED BY <1>0, <2>1, <2>3 DEF KindInv
<1>5. QueueInv'
  <2>1. /\ Injective(task_queue')
        /\ \A z : In(z, task_queue') <=> In(z, task_queue) \/ (z = x /\ Preds(t, x) = {})
    BY DEF Defers
  <2> QED BY <1>1, <1>2, <2>1, DeferFacts DEF CoreInv, QueueInv
<1>6. DepInv'
  <2>1. /\ \A y \in Tasks : Injective(dependers'[y])
        /\ \A y \in Tasks : y # x => num_dependees'[y] = num_dependees[y]
        /\ num_dependees'[x] = Cardinality(Preds(t, x))
    BY DEF Defers, Typed
  <2>2. \A z, y \in Tasks : Edge(y, z) =>
          /\ status[z] = "blocked" /\ Going(y)
          /\ \A p \in Owners : Alive(p) => (parent[z] = p <=> parent[y] = p)
    BY DEF CoreInv, DepInv
  <2>3. \A z, y \in Tasks : Edge(y, z)' =>
          /\ status'[z] = "blocked" /\ Going(y)'
          /\ \A p \in Owners : Alive(p)' => (parent[z] = p <=> parent[y] = p)
    BY <1>1, <1>2, <2>2, DeferFacts
  <2>4. Before(x)' = Preds(t, x)
    BY <1>1, DeferFacts DEF Before
  <2>5. \A z \in Tasks : z # x => Before(z)' = Before(z)
    BY DeferFacts DEF Before
  <2>6. \A z \in Tasks : status'[z] = "blocked" =>
          num_dependees'[z] = Cardinality(Before(z)') /\ num_dependees'[z] # 0
    BY <1>1, <1>2, <2>1, <2>4, <2>5 DEF CoreInv, DepInv
  <2> QED BY <1>0, <2>1, <2>3, <2>6 DEF DepInv
<1>7. Acyclic'
  <2> SUFFICES ASSUME NEW S \in SUBSET Tasks, S # {}
               PROVE  \E y \in S : \A z \in S : ~Edge(z, y)'
    BY DEF Acyclic
  <2>1. CASE S \ {x} = {}
    <3>1. S = {x}
      BY <2>1
    <3> QED BY <1>1, <3>1, DeferFacts
  <2>2. CASE S \ {x} # {}
    <3>1. PICK y \in S \ {x} : \A z \in S \ {x} : ~Edge(z, y)
      BY <2>2 DEF CoreInv, Acyclic
    <3>2. \A z \in S : ~Edge(z, y)
      BY <1>1, <3>1
    <3> QED BY <3>1, <3>2, DeferFacts
  <2> QED BY <2>1, <2>2
<1>8. ChildInv'
  <2>1. \A q \in Owners : \A y : In(y, children'[q]) <=>
          In(y, children[q]) \/ (q = Cur(t) /\ y = x /\ Preds(t, x) = {})
    BY DEF Defers
  <2>2. \A p \in Owners : Alive(p) =>
          /\ \A y \in Tasks : In(y, children'[p]) => parent[y] = p
          /\ \A y \in Tasks :
                Going(y)' /\ parent[y] = p /\ (status'[y] # "blocked" \/ Ready(y)') =>
                    In(y, children'[p])
    BY <1>1, <1>2, <2>1, DeferFacts DEF CoreInv, ChildInv
  <2> QED BY <1>0, <2>2, DeferFacts DEF ChildInv
<1> QED BY <1>3, <1>4, <1>5, <1>6, <1>7, <1>8, DeferHash, DeferAfter DEF CoreInv

\* The section of GOMP_task that defers a task.
LEMMA TaskDeferred ==
  ASSUME Typed, CoreInv, PosInv, NEW t \in Threads, Defer(t)
  PROVE  /\ new[t] \in Tasks /\ (Drops(t, new[t]) \/ Defers(t, new[t]))
         /\ kind' \in [Tasks -> Kinds] /\ new' \in [Threads -> Tasks \cup {None}]
         /\ children' \in [Owners -> Seq(Tasks)] /\ task_queue' \in Seq(Tasks)
         /\ depend_hash' \in [Owners -> [Addrs -> SUBSET Tasks]]
         /\ dependers' \in [Tasks -> Seq(Tasks)]
         /\ num_dependees' \in [Tasks -> Int]
         /\ OthersKeep(t) /\ PosOf(t)' /\ LockOf(t)'
<1>1. tpc[t] = "defer" /\ task_lock = None /\ TGoto(t, "code") /\ new' = [new EXCEPT ![t] = None]
      /\ UNCHANGED <<parent, depend, after, stack>>
  BY DEF Defer
<1>2. PosOf(t) /\ LockOf(t)
  BY DEF PosInv
<1>3. PICK x \in Tasks : x = new[t]
  BY <1>1, <1>2 DEF PosOf, Typed
<1>4. TMoved(t, "code")
  BY <1>1, TGotoMoves
<1>5. new' \in [Threads -> Tasks \cup {None}]
  BY <1>1 DEF Typed
<1>6. CASE /\ kind' = [kind EXCEPT ![x] = "gone"]
           /\ UNCHANGED <<tbVars, task_queue, children, depend_hash, dependers, num_dependees>>
  <2>1. UNCHANGED <<status, btask, pc, task_lock>>
    BY <1>6 DEF tbVars
  <2>2. Drops(t, x)
    BY <1>1, <1>3, <1>4, <1>6, <2>1 DEF Drops
  <2>3. OthersKeep(t)
    BY <1>1, <1>4, <1>6, <2>1 DEF OthersKeep, TMoved, Typed
  <2>4. PosOf(t)' /\ LockOf(t)'
    BY <1>1, <1>2, <1>4, <2>1 DEF PosOf, LockOf, TMoved, Finishing, Late, Typed
  <2>5. kind' \in [Tasks -> Kinds]
    BY <1>6 DEF Typed, Kinds
  <2> QED BY <1>3, <1>5, <1>6, <2>2, <2>3, <2>4, <2>5 DEF Typed
<1>7. CASE /\ depend_hash' = [depend_hash EXCEPT ![Cur(t)] = EnterHash(@, x)]
           /\ dependers' = [y \in Tasks |-> IF y \in Preds(t, x)
                                  THEN Append(dependers[y], x) ELSE dependers[y]]
           /\ num_dependees' = [num_dependees EXCEPT ![x] = Cardinality(Preds(t, x))]
           /\ TB!CreateTask(t, x)
           /\ IF Preds(t, x) # {}
              THEN /\ status'[x] = "blocked"
                   /\ UNCHANGED <<children, task_queue>>
              ELSE /\ status'[x] = "queued"
                   /\ children' = [children EXCEPT ![Cur(t)] = <<x>> \o @]
                   /\ task_queue' = Append(task_queue, x)
           /\ UNCHANGED kind
  <2>1. UNCHANGED <<btask, pc, task_lock>>
    BY <1>7 DEF TB!CreateTask
  <2>2. status' = [status EXCEPT ![x] = IF Preds(t, x) # {} THEN "blocked" ELSE "queued"]
    <3>1. \/ status' = [status EXCEPT ![x] = "queued"]
          \/ status' = [status EXCEPT ![x] = "blocked"]
      BY <1>7 DEF TB!CreateTask
    <3> QED BY <1>7, <3>1 DEF Typed
  <2>3. /\ Cur(t) \in Owners /\ Cardinality(Preds(t, x)) \in Nat
        /\ ~In(x, task_queue) /\ \A y \in Tasks : ~Edge(y, x)
    BY <1>1, <1>3, NewTask
  <2>4. /\ task_queue \in Seq(Tasks) /\ Injective(task_queue)
        /\ \A y \in Tasks : dependers[y] \in Seq(Tasks) /\ Injective(dependers[y])
        /\ \A y \in Owners : children[y] \in Seq(Tasks)
    BY DEF Typed, CoreInv, QueueInv, DepInv
  <2>5. /\ task_queue' \in Seq(Tasks) /\ Injective(task_queue')
        /\ \A z : In(z, task_queue') <=> In(z, task_queue) \/ (z = x /\ Preds(t, x) = {})
    <3>1. CASE Preds(t, x) # {}
      BY <1>7, <2>4, <3>1
    <3>2. CASE Preds(t, x) = {}
      <4>1. PICK q \in Seq(Tasks) : q = task_queue
        BY <2>4
      <4>2. Injective(q) /\ ~In(x, q) /\ task_queue' = Append(q, x)
        BY <1>7, <2>3, <2>4, <3>2, <4>1
      <4>3. /\ Append(q, x) \in Seq(Tasks) /\ Injective(Append(q, x))
            /\ \A z : In(z, Append(q, x)) <=> In(z, q) \/ z = x
        BY <4>2, AppendTyped, AppendOnce, InAppend
      <4> QED BY <3>2, <4>1, <4>2, <4>3
    <3> QED BY <3>1, <3>2
  <2>6. /\ children' \in [Owners -> Seq(Tasks)]
        /\ \A q \in Owners : \A y : In(y, children'[q]) <=>
              In(y, children[q]) \/ (q = Cur(t) /\ y = x /\ Preds(t, x) = {})
    <3>1. CASE Preds(t, x) # {}
      BY <1>7, <3>1 DEF Typed
    <3>2. CASE Preds(t, x) = {}
      <4>1. PICK q \in Owners : q = Cur(t)
        BY <2>3
      <4>2. PICK c \in Seq(Tasks) : c = children[q]
        BY <2>4
      <4>3. PICK s \in Seq(Tasks) : s = <<x>>
        <5>1. <<x>> \in Seq(Tasks)
          OBVIOUS
        <5> QED BY <5>1
      <4>4. \A y : In(y, s) <=> y = x
        BY <4>3 DEF In
      <4>5. s \o c \in Seq(Tasks) /\ \A y : In(y, s \o c) <=> In(y, s) \/ In(y, c)
        BY ConcatTyped, InConcat
      <4>6. children' = [children EXCEPT ![q] = s \o c]
        BY <1>7, <3>2, <4>1, <4>2, <4>3
      <4>7. /\ children'[q] = s \o c /\ \A r \in Owners : r # q => children'[r] = children[r]
            /\ children' \in [Owners -> Seq(Tasks)]
        BY <4>5, <4>6 DEF Typed
      <4> QED BY <3>2, <4>1, <4>2, <4>4, <4>5, <4>7
    <3> QED BY <3>1, <3>2
  <2>7. /\ dependers' \in [Tasks -> Seq(Tasks)]
        /\ \A y \in Tasks : Injective(dependers'[y])
        /\ \A y \in Tasks : \A z : In(z, dependers'[y]) <=>
              In(z, dependers[y]) \/ (z = x /\ y \in Preds(t, x))
    <3>1. \A y \in Tasks : /\ Append(dependers[y], x) \in Seq(Tasks)
                           /\ Injective(Append(dependers[y], x))
                           /\ \A z : In(z, Append(dependers[y], x)) <=> In(z, dependers[y]) \/ z = x
      BY <2>3, <2>4, AppendTyped, AppendOnce, InAppend DEF Edge
    <3>2. \A y \in Tasks : dependers'[y] = IF y \in Preds(t, x)
                                  THEN Append(dependers[y], x) ELSE dependers[y]
      BY <1>7
    <3>3. dependers' \in [Tasks -> Seq(Tasks)]
      BY <1>7, <2>4, <3>1
    <3> QED BY <2>4, <3>1, <3>2, <3>3
  <2>8. num_dependees' \in [Tasks -> Int]
    BY <1>7, <2>3 DEF Typed
  <2>9. depend_hash' \in [Owners -> [Addrs -> SUBSET Tasks]]
    <3>1. EnterHash(depend_hash[Cur(t)], x) \in [Addrs -> SUBSET Tasks]
      <4>1. depend_hash[Cur(t)] \in [Addrs -> SUBSET Tasks] /\ depend[x] \in [Addrs -> {"no", "in", "out"}]
        BY <2>3 DEF Typed
      <4> QED BY <4>1 DEF EnterHash
    <3> QED BY <1>7, <3>1 DEF Typed
  <2>10. Defers(t, x)
    BY <1>1, <1>3, <1>4, <1>7, <2>1, <2>2, <2>5, <2>6, <2>7 DEF Defers
  <2>11. OthersKeep(t)
    BY <1>1, <1>4, <1>7, <2>1 DEF OthersKeep, TMoved, Typed
  <2>12. PosOf(t)' /\ LockOf(t)'
    BY <1>1, <1>2, <1>4, <2>1 DEF PosOf, LockOf, TMoved, Finishing, Late, Typed
  <2> QED BY <1>3, <1>5, <1>7, <2>5, <2>6, <2>7, <2>8, <2>9, <2>10, <2>11, <2>12 DEF Typed
<1> QED BY <1>3, <1>6, <1>7 DEF Defer, Preds, Dependees, LinkIn
=============================================================================
