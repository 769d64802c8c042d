----------------------------- MODULE LoopProofs -----------------------------
(***************************************************************************)
(* Iterations and the threads that execute them: every iteration of a      *)
(* static, dynamic or guided loop and of a sections construct is executed  *)
(* once, for every loop whose own numbers fit, every word size and every   *)
(* team; so is every iteration of a BinLPT or SRR loop, by the thread its  *)
(* map names, for every table, every array of loads, and whatever map the  *)
(* balancers compute; and the ordered sections of dynamic and guided loops *)
(* are executed in the order of the iterations.                            *)
(***************************************************************************)
EXTENDS LoopIter, WorkloadLoop, Ordered, FiniteSetTheorems, SequenceTheorems,
        WellFoundedInduction, TLAPS

-----------------------------------------------------------------------------
(* The static schedule.                                                    *)

\* The first call of thread i gives it iteration x, counted from zero.
Gets(n, nthreads, i, x) ==
    LET answer == StaticShare(n, nthreads, i, 0)
    IN answer.ret = 0 /\ answer.first <= x /\ x < answer.behind

\* Division with remainder.
LEMMA Division ==
    ASSUME NEW a \in Nat, NEW b \in Nat \ {0}
    PROVE  /\ a \div b \in Nat /\ a % b \in 0..(b - 1)
           /\ a = b * (a \div b) + (a % b)
  OBVIOUS

\* A product with a larger factor is no smaller.
LEMMA Monotone ==
    ASSUME NEW q \in Nat, NEW a \in Nat, NEW b \in Nat, a <= b
    PROVE  q * a \in Nat /\ q * b \in Nat /\ q * a <= q * b
  <1>1. PICK d \in Nat : b = a + d
    <2>1. b - a \in Nat /\ b = a + (b - a)
      OBVIOUS
    <2> QED BY <2>1
  <1>2. q * d \in Nat /\ q * a \in Nat /\ q * b = q * a + q * d
    BY <1>1
  <1> QED BY <1>2

\* Where a thread's block ends: where the next thread's begins.
LEMMA ShareEnds ==
    ASSUME NEW q \in Nat, NEW t \in Nat, NEW i \in Nat
    PROVE  /\ ShareStart(q, t, i) \in Nat
           /\ ShareStart(q, t, i + 1) =
                ShareStart(q, t, i) + (IF i < t THEN q + 1 ELSE q)
  <1>1. /\ q * i \in Nat /\ (q + 1) * i = q * i + i
        /\ q * (i + 1) = q * i + q /\ (q + 1) * (i + 1) = q * i + i + q + 1
    OBVIOUS
  <1>2. CASE i + 1 < t
    BY <1>1, <1>2 DEF ShareStart
  <1>3. CASE i + 1 = t
    BY <1>1, <1>3 DEF ShareStart
  <1>4. CASE i >= t
    BY <1>1, <1>4 DEF ShareStart
  <1> QED BY <1>2, <1>3, <1>4

\* Blocks of later threads begin later.
LEMMA SharesAscend ==
    ASSUME NEW q \in Nat, NEW t \in Nat, NEW i \in Nat, NEW j \in Nat, i <= j
    PROVE  ShareStart(q, t, i) <= ShareStart(q, t, j)
  <1>1. /\ q * i \in Nat /\ q * j \in Nat /\ q * i <= q * j
        /\ (q + 1) * i = q * i + i /\ (q + 1) * j = q * j + j
    BY Monotone
  <1> QED BY <1>1 DEF ShareStart

\* Which thread has iteration x.
LEMMA ShareOf ==
    ASSUME NEW n \in Nat, NEW nthreads \in Nat \ {0}, NEW x \in 0..(n - 1)
    PROVE  LET q == n \div nthreads
               t == n % nthreads
           IN \E i \in 0..(nthreads - 1) :
                 ShareStart(q, t, i) <= x /\ x < ShareStart(q, t, i + 1)
  <1> DEFINE q == n \div nthreads
             t == n % nthreads
  <1>1. q \in Nat /\ t \in Nat /\ t < nthreads /\ n = nthreads * q + t
    BY Division
  <1> HIDE DEF q, t
  <1>2. q * t \in Nat /\ (q + 1) * t = q * t + t
    BY <1>1
  <1>3. CASE x < (q + 1) * t
    <2> DEFINE p == q + 1
               i == x \div p
               r == x % p
    <2>1. i \in Nat /\ r \in 0..q /\ x = (q + 1) * i + r
      <3>1. x \in Nat /\ p \in Nat \ {0} /\ p - 1 = q
        BY <1>1
      <3> HIDE DEF p
      <3>2. i \in Nat /\ r \in 0..(p - 1) /\ x = p * i + r
        BY <3>1, Division
      <3> QED BY <3>1, <3>2 DEF p
    <2> HIDE DEF i, r
    <2>2. i < t
      <3>1. SUFFICES ASSUME t <= i PROVE FALSE
        BY <1>1, <2>1
      <3>2. (q + 1) * t <= (q + 1) * i
        BY <1>1, <2>1, <3>1, Monotone
      <3> QED BY <1>1, <1>2, <1>3, <2>1, <3>2
    <2>3. ShareStart(q, t, i) = (q + 1) * i /\ ShareStart(q, t, i + 1) = (q + 1) * i + q + 1
      BY <1>1, <2>1, <2>2, ShareEnds DEF ShareStart
    <2>4. (q + 1) * i \in Nat
      BY <1>1, <2>1
    <2>5. ShareStart(q, t, i) <= x /\ x < ShareStart(q, t, i + 1)
      BY <1>1, <2>1, <2>3, <2>4
    <2> QED BY <1>1, <2>1, <2>2, <2>5
  <1>4. CASE x >= (q + 1) * t
    <2>1. PICK y \in Nat : x = y + t
      <3>1. x - t \in Nat /\ x = (x - t) + t
        BY <1>1, <1>2, <1>4
      <3> QED BY <3>1
    <2>2. q \in Nat \ {0}
      <3>1. q = 0 => n = t /\ (q + 1) * t = t
        BY <1>1
      <3> QED BY <1>1, <1>4, <3>1
    <2> DEFINE i == y \div q
               r == y % q
    <2>3. i \in Nat /\ r \in 0..(q - 1) /\ y = q * i + r
      BY <2>1, <2>2, Division
    <2> HIDE DEF i, r
    <2>4. t <= i
      <3>1. SUFFICES ASSUME i + 1 <= t PROVE FALSE
        BY <1>1, <2>3
      <3>2. q * (i + 1) <= q * t /\ q * (i + 1) = q * i + q /\ q * i \in Nat
        BY <1>1, <2>3, <3>1, Monotone
      <3> QED BY <1>1, <1>2, <1>4, <2>1, <2>3, <3>2
    <2>5. i < nthreads
      <3>1. SUFFICES ASSUME nthreads <= i PROVE FALSE
        BY <1>1, <2>3
      <3>2. q * nthreads <= q * i /\ q * i \in Nat /\ q * nthreads = nthreads * q
        BY <1>1, <2>3, <3>1, Monotone
      <3> QED BY <1>1, <2>1, <2>3, <3>2
    <2>6. ShareStart(q, t, i) = q * i + t /\ ShareStart(q, t, i + 1) = q * i + t + q
      BY <1>1, <2>3, <2>4, ShareEnds DEF ShareStart
    <2>7. q * i \in Nat
      BY <1>1, <2>3
    <2>8. ShareStart(q, t, i) <= x /\ x < ShareStart(q, t, i + 1)
      BY <1>1, <2>1, <2>3, <2>6, <2>7
    <2> QED BY <1>1, <2>3, <2>5, <2>8
  <1>5. (q + 1) * t \in Nat
    BY <1>1
  <1> QED BY <1>1, <1>3, <1>4, <1>5 DEF q, t

\* A first call gives what lies between a thread's start and the next one's.
LEMMA FirstCall ==
    ASSUME NEW n \in Nat, NEW nthreads \in Nat \ {0},
           NEW i \in 0..(nthreads - 1), NEW x \in Nat
    PROVE  Gets(n, nthreads, i, x) <=>
              /\ ShareStart(n \div nthreads, n % nthreads, i) <= x
              /\ x < ShareStart(n \div nthreads, n % nthreads, i + 1)
  <1> DEFINE q == n \div nthreads
             t == n % nthreads
             s0 == ShareStart(q, t, i)
             e0 == s0 + (IF i < t THEN q + 1 ELSE q)
  <1>1. q \in Nat /\ t \in Nat /\ i \in Nat
    BY Division
  <1> HIDE DEF q, t
  <1>2. s0 \in Nat /\ e0 = ShareStart(q, t, i + 1)
    BY <1>1, ShareEnds
  <1>3. e0 \in Nat
    BY <1>1, <1>2
  <1> HIDE DEF s0, e0
  <1>4. StaticShare(n, nthreads, i, 0) =
           IF s0 >= e0 THEN Answer(1, 0, 0, 1)
           ELSE Answer(0, s0, e0, IF e0 = n THEN -1 ELSE 1)
    BY DEF StaticShare, q, t, s0, e0
  <1>5. CASE s0 >= e0
    <2>1. ~Gets(n, nthreads, i, x)
      BY <1>4, <1>5 DEF Gets, Answer
    <2>2. ~(s0 <= x /\ x < e0)
      BY <1>2, <1>3, <1>5
    <2> QED BY <1>2, <2>1, <2>2 DEF s0, q, t
  <1>6. CASE ~(s0 >= e0)
    <2>1. Gets(n, nthreads, i, x) <=> s0 <= x /\ x < e0
      BY <1>4, <1>6 DEF Gets, Answer
    <2> QED BY <1>2, <2>1 DEF s0, q, t
  <1> QED BY <1>5, <1>6

\* The blocks of a static schedule without a chunk size tile the loop: each
\* iteration is in the block of one thread of the team, and of one only.
THEOREM StaticSharesTile ==
    ASSUME NEW n \in Nat, NEW nthreads \in Nat \ {0}, NEW x \in 0..(n - 1)
    PROVE  \E i \in 0..(nthreads - 1) :
              /\ Gets(n, nthreads, i, x)
              /\ \A j \in 0..(nthreads - 1) : Gets(n, nthreads, j, x) => j = i
  <1> DEFINE q == n \div nthreads
             t == n % nthreads
             Start(i) == ShareStart(q, t, i)
  <1>0. q \in Nat /\ t \in Nat /\ x \in Nat
    BY Division
  <1>1. PICK i \in 0..(nthreads - 1) : Start(i) <= x /\ x < Start(i + 1)
    BY ShareOf
  <1>2. ASSUME NEW k \in Nat PROVE Start(k) \in Nat
    <2> HIDE DEF q, t
    <2> QED BY <1>0, ShareEnds
  <1>3. ASSUME NEW j \in Nat, NEW k \in Nat, j <= k PROVE Start(j) <= Start(k)
    <2> HIDE DEF q, t
    <2> QED BY <1>0, <1>3, SharesAscend
  <1>4. ASSUME NEW k \in 0..(nthreads - 1)
        PROVE  Gets(n, nthreads, k, x) <=> Start(k) <= x /\ x < Start(k + 1)
    BY <1>0, FirstCall
  <1> HIDE DEF Start
  <1>5. ASSUME NEW j \in 0..(nthreads - 1), Gets(n, nthreads, j, x)
        PROVE  j = i
    <2>1. Start(j) <= x /\ x < Start(j + 1)
      BY <1>4, <1>5
    <2>2. ~(i + 1 <= j)
      <3>1. i + 1 <= j => Start(i + 1) <= Start(j)
        BY <1>3
      <3> QED BY <1>1, <1>2, <2>1, <3>1
    <2>3. ~(j + 1 <= i)
      <3>1. j + 1 <= i => Start(j + 1) <= Start(i)
        BY <1>3
      <3> QED BY <1>1, <1>2, <2>1, <3>1
    <2> QED BY <2>2, <2>3
  <1> QED BY <1>1, <1>4, <1>5
-----------------------------------------------------------------------------
(* BinLPT and SRR loops.                                                   *)

Mine(t) == {i \in 0..ntasks - 1 : ws.taskmap[i] = t}

Shape ==
    /\ ntasks \in Nat
    /\ DOMAIN ws = {"active", "loop", "sched", "taskmap", "nthreads", "thread_start"}
    /\ ws.thread_start \in [0..MaxTeam - 1 -> Nat]
    /\ given \in [0..MaxTeam - 1 -> Seq(Nat)]

Ascending(s) == \A k, l \in DOMAIN s : k < l => s[k] < s[l]
Holds(s, x) == \E k \in DOMAIN s : s[k] = x

(* Why no two threads execute the same iteration although they share no    *)
(* counter: thread_start separates what a thread was given from what it    *)
(* was not, and given is in ascending order.                               *)
Ascends(t) == Ascending(given[t])

GivenBelowStart(t) ==
    \A i \in Nat : Holds(given[t], i) <=> i \in Mine(t) /\ i < ws.thread_start[t]

DoneMeansBehind(t) == t \in done => \A i \in Mine(t) : i < ws.thread_start[t]

LoopInv ==
    /\ Shape
    /\ ws.active => \A t \in 0..MaxTeam - 1 :
                        Ascends(t) /\ GivenBelowStart(t) /\ DoneMeansBehind(t)

\* The minimum of a set of natural numbers is in the set and below the others.
LEMMA MinOfNats ==
    ASSUME NEW S \in SUBSET Nat, S # {}
    PROVE  Min(S) \in S /\ \A y \in S : Min(S) <= y
<1>1. \E x \in S : \A y \in S : ~(<<y, x>> \in OpToRel(<, Nat))
  BY WFMin, NatLessThanWellFounded, Zenon
<1>2. PICK x \in S : \A y \in S : ~(<<y, x>> \in OpToRel(<, Nat))
  BY <1>1
<1>3. \A y \in S : ~(y < x)
  BY <1>2 DEF OpToRel
<1>4. \E z \in S : \A y \in S : z =< y
  BY <1>3
<1> QED
  BY <1>4 DEF Min
-----------------------------------------------------------------------------
(* What a thread's call hands out: the iterations from the next of its own *)
(* on, up to the end of the run, all of them its own.                      *)

Ahead(mine, from) == {i \in mine : from <= i}

LEMMA NextRun ==
    ASSUME ntasks \in Nat, NEW mine \in SUBSET (0..ntasks - 1), NEW from \in Nat,
           Ahead(mine, from) # {}
    PROVE  LET i == Min(Ahead(mine, from))
               end == RunEnd(mine, i)
           IN /\ i \in mine /\ from <= i /\ \A j \in mine : from <= j => i <= j
              /\ end \in i + 1..ntasks /\ \A j \in i..end - 1 : j \in mine
<1> DEFINE ahead == Ahead(mine, from)
           i == Min(ahead)
           others == {j \in i + 1..ntasks : j \notin mine}
           end == Min(others)
<1> USE DEF Ahead
<1>1. /\ i \in mine /\ from <= i
      /\ \A j \in mine : from <= j => i <= j
  <2>1. ahead \in SUBSET Nat /\ ahead # {}
    BY mine \in SUBSET Nat
  <2>2. i \in ahead /\ \A y \in ahead : i <= y
    BY ONLY <2>1, MinOfNats
  <2> QED
    BY <2>2
<1> HIDE DEF i
<1>2. others \in SUBSET Nat /\ ntasks \in others
  BY <1>1
<1>3. end \in others /\ \A y \in others : end <= y
  BY ONLY <1>2, MinOfNats
<1> HIDE DEF end
<1>4. end \in i + 1..ntasks
  BY <1>3
<1>5. ASSUME NEW j \in i..end - 1 PROVE j \in mine
  BY <1>1, <1>3, <1>4
<1> QED
  BY <1>1, <1>4, <1>5 DEF i, end, RunEnd

\* What follows when a thread's sequence s is extended by the run i..end - 1.
LEMMA Appended ==
    ASSUME NEW s \in Seq(Nat), NEW i \in Nat, NEW end \in Nat, i < end
    PROVE  LET e == s \o Upto(i, end - 1)
           IN /\ e \in Seq(Nat) /\ DOMAIN e = 1..Len(s) + (end - i)
              /\ \A k \in DOMAIN e : e[k] = IF k <= Len(s) THEN s[k] ELSE i + (k - Len(s)) - 1
<1> DEFINE u == Upto(i, end - 1)
           e == s \o u
<1>1. /\ u = [k \in 1..end - i |-> i + k - 1]
      /\ end - i \in Nat
  BY DEF Upto
<1>2. u \in Seq(Nat) /\ Len(u) = end - i
  BY <1>1
<1>3. \A k \in 1..end - i : u[k] = i + k - 1
  BY <1>1
<1> HIDE DEF u
<1>4. /\ e \in Seq(Nat) /\ Len(e) = Len(s) + Len(u)
      /\ \A k \in 1..Len(s) + Len(u) : e[k] = IF k <= Len(s) THEN s[k] ELSE u[k - Len(s)]
  BY ONLY <1>2, s \in Seq(Nat), ConcatProperties, Zenon
<1> HIDE DEF e
<1>5. DOMAIN e = 1..Len(s) + (end - i) /\ Len(s) \in Nat
  BY <1>2, <1>4
<1>6. ASSUME NEW k \in 1..Len(s) + (end - i)
      PROVE  e[k] = IF k <= Len(s) THEN s[k] ELSE i + (k - Len(s)) - 1
  <2>1. e[k] = IF k <= Len(s) THEN s[k] ELSE u[k - Len(s)]
    BY <1>2, <1>4
  <2>2. CASE k <= Len(s)
    BY <2>1, <2>2
  <2>3. CASE ~(k <= Len(s))
    <3>1. k - Len(s) \in 1..end - i
      BY <1>5, <2>3
    <3> QED
      BY <1>3, <2>1, <2>3, <3>1
  <2> QED
    BY <2>2, <2>3
<1> QED
  BY <1>4, <1>5, <1>6 DEF e, u
LEMMA Extended ==
    ASSUME NEW s \in Seq(Nat), NEW i \in Nat, NEW end \in Nat, i < end,
           Ascending(s), \A k \in DOMAIN s : s[k] < i
    PROVE  LET e == s \o Upto(i, end - 1)
           IN /\ e \in Seq(Nat) /\ Ascending(e)
              /\ \A x \in Nat : Holds(e, x) <=> Holds(s, x) \/ x \in i..end - 1
<1> DEFINE e == s \o Upto(i, end - 1)
           m == Len(s)
<1>1. /\ e \in Seq(Nat) /\ DOMAIN e = 1..m + (end - i)
      /\ \A k \in DOMAIN e : e[k] = IF k <= m THEN s[k] ELSE i + (k - m) - 1
  BY Appended
<1>2. DOMAIN s = 1..m /\ m \in Nat /\ \A k \in 1..m : s[k] \in Nat
  OBVIOUS
<1> HIDE DEF e, m
<1>3. /\ \A k \in 1..m : s[k] \in Nat /\ s[k] < i
      /\ \A k, l \in 1..m : k < l => s[k] < s[l]
  BY <1>2 DEF Ascending
<1>4. \A k \in 1..m + (end - i) : e[k] = IF k <= m THEN s[k] ELSE i + (k - m) - 1
  BY <1>1
<1>5. /\ \A k, l \in 1..m + (end - i) : k < l => e[k] < e[l]
      /\ \A x \in Nat : (\E k \in 1..m + (end - i) : e[k] = x)
             <=> (\E k \in 1..m : s[k] = x) \/ x \in i..end - 1
  <2>1. ASSUME NEW k \in 1..m + (end - i), NEW l \in 1..m + (end - i), k < l
        PROVE  e[k] < e[l]
    <3>1. CASE l <= m
      BY <1>2, <1>3, <1>4, <2>1, <3>1
    <3>2. CASE l > m /\ k <= m
      BY <1>2, <1>3, <1>4, <2>1, <3>2
    <3>3. CASE k > m
      BY <1>2, <1>4, <2>1, <3>3
    <3> QED
      BY <1>2, <3>1, <3>2, <3>3
  <2>2. ASSUME NEW x \in Nat, NEW k \in 1..m + (end - i), e[k] = x
        PROVE  (\E l \in 1..m : s[l] = x) \/ x \in i..end - 1
    BY <1>2, <1>4, <2>2
  <2>3. ASSUME NEW x \in Nat, NEW l \in 1..m, s[l] = x
        PROVE  \E k \in 1..m + (end - i) : e[k] = x
    BY <1>2, <1>4, <2>3
  <2>4. ASSUME NEW x \in i..end - 1 PROVE \E k \in 1..m + (end - i) : e[k] = x
    <3>1. /\ m + (x - i) + 1 \in 1..m + (end - i)
          /\ e[m + (x - i) + 1] = x
      BY <1>2, <1>4
    <3> QED
      BY <3>1
  <2> QED
    BY <2>1, <2>2, <2>3, <2>4
<1>6. Ascending(e)
  BY <1>1, <1>5 DEF Ascending
<1>7. \A x \in Nat : Holds(e, x) <=> Holds(s, x) \/ x \in i..end - 1
  BY <1>1, <1>2, <1>5 DEF Holds
<1> QED
  BY <1>1, <1>6, <1>7 DEF e
-----------------------------------------------------------------------------
LEMMA LoopInvInit == Init => LoopInv
<1> SUFFICES ASSUME Init PROVE LoopInv
  OBVIOUS
<1>1. \A t : <<>> \in Seq(Nat)
  OBVIOUS
<1> QED
  BY <1>1 DEF Init, LoopInv, Shape, NoLoop

LEMMA LoopInvIter == ASSUME LoopInv, NEW t \in 0..MaxTeam - 1, IterNext(t) PROVE LoopInv'
<1> DEFINE ahead == Ahead(Mine(t), ws.thread_start[t])
           i == Min(ahead)
           run == RunEnd(Mine(t), i)
           end == IF ws.sched = "srr" THEN i + 1 ELSE run
<1>0. /\ Shape /\ ws.active /\ t \notin done
      /\ \A s \in 0..MaxTeam - 1 : Ascends(s) /\ GivenBelowStart(s) /\ DoneMeansBehind(s)
      /\ UNCHANGED ntasks
  BY DEF LoopInv, IterNext
<1>1. CASE ahead = {}
  <2>1. done' = done \cup {t} /\ UNCHANGED <<ws, given>>
    BY <1>1 DEF IterNext, Mine, Ahead
  <2>2. \A j \in Mine(t) : j < ws.thread_start[t]
    <3>1. ws.thread_start[t] \in Nat /\ ntasks \in Nat
      BY <1>0 DEF Shape
    <3> QED
      BY <3>1, <1>1 DEF Mine, Ahead
  <2> QED
    BY <1>0, <2>1, <2>2
       DEF LoopInv, Shape, Ascends, GivenBelowStart, DoneMeansBehind, Mine
<1>2. CASE ahead # {}
  <2>1. /\ ws' = [ws EXCEPT !.thread_start[t] = end]
        /\ given' = [given EXCEPT ![t] = @ \o Upto(i, end - 1)]
        /\ done' = done
    BY <1>2 DEF IterNext, Mine, StartBehind, Ahead
  <2>2. /\ ws.thread_start[t] \in Nat /\ ntasks \in Nat /\ given[t] \in Seq(Nat)
        /\ Mine(t) \in SUBSET (0..ntasks - 1)
    BY <1>0 DEF Shape, Mine
  <2>3. /\ i \in Mine(t) /\ ws.thread_start[t] <= i
        /\ \A j \in Mine(t) : ws.thread_start[t] <= j => i <= j
        /\ run \in i + 1..ntasks /\ \A j \in i..run - 1 : j \in Mine(t)
    BY <2>2, <1>2, NextRun
  <2> HIDE DEF i, run
  <2>4. /\ i \in Nat /\ end \in Nat /\ i < end /\ end <= ntasks
        /\ \A j \in i..end - 1 : j \in Mine(t)
    BY <2>2, <2>3
  <2> HIDE DEF end, ahead
  <2>5. ASSUME NEW k \in DOMAIN given[t] PROVE given[t][k] < i
    <3>1. given[t][k] \in Nat
      BY <2>2
    <3>2. given[t][k] < ws.thread_start[t]
      BY <1>0, <3>1 DEF GivenBelowStart, Holds
    <3> QED
      BY <2>2, <2>3, <2>4, <3>1, <3>2
  <2> DEFINE e == given[t] \o Upto(i, end - 1)
  <2>6. /\ e \in Seq(Nat) /\ Ascending(e)
        /\ \A x \in Nat : Holds(e, x) <=> Holds(given[t], x) \/ x \in i..end - 1
    BY <1>0, <2>2, <2>4, <2>5, Extended DEF Ascends
  <2> HIDE DEF e
  <2>7. given' = [given EXCEPT ![t] = e]
    BY <2>1 DEF e
  <2>8. /\ DOMAIN ws' = DOMAIN ws
        /\ ws'.active = ws.active /\ ws'.taskmap = ws.taskmap
        /\ ws'.thread_start = [ws.thread_start EXCEPT ![t] = end]
    BY <1>0, <2>1 DEF Shape
  <2>9. \A s \in 0..MaxTeam - 1 : Mine(s)' = Mine(s)
    BY <1>0, <2>8 DEF Mine
  <2>10. Shape'
    BY <1>0, <2>4, <2>6, <2>7, <2>8 DEF Shape
  <2>11. ASSUME NEW s \in 0..MaxTeam - 1
         PROVE  Ascends(s)' /\ GivenBelowStart(s)' /\ DoneMeansBehind(s)'
    <3>1. CASE s # t
      <4>1. given'[s] = given[s] /\ ws'.thread_start[s] = ws.thread_start[s]
        BY <1>0, <2>7, <2>8, <3>1 DEF Shape
      <4> QED
        <5>1. Ascends(s)'
          BY <1>0, <4>1 DEF Ascends
        <5>2. GivenBelowStart(s)'
          BY <1>0, <2>9, <4>1 DEF GivenBelowStart
        <5>3. DoneMeansBehind(s)'
          BY <1>0, <2>1, <2>9, <4>1 DEF DoneMeansBehind
        <5> QED
          BY <5>1, <5>2, <5>3
    <3>2. CASE s = t
      <4>1. given'[t] = e /\ ws'.thread_start[t] = end
        BY <1>0, <2>7, <2>8 DEF Shape
      <4>2. Ascends(t)'
        BY <4>1, <2>6 DEF Ascends
      <4>3. ASSUME NEW x \in Nat
            PROVE  Holds(e, x) <=> x \in Mine(t) /\ x < end
        <5>1. Holds(given[t], x) <=> x \in Mine(t) /\ x < ws.thread_start[t]
          BY <1>0 DEF GivenBelowStart
        <5>2. x \in Mine(t) /\ x < end
                 <=> (x \in Mine(t) /\ x < ws.thread_start[t]) \/ x \in i..end - 1
          BY <2>2, <2>3, <2>4
        <5> QED
          BY <2>6, <5>1, <5>2
      <4>4. GivenBelowStart(t)'
        BY <4>1, <4>3, <2>9 DEF GivenBelowStart
      <4>5. DoneMeansBehind(t)'
        BY <1>0, <2>1 DEF DoneMeansBehind
      <4> QED
        BY <3>2, <4>2, <4>4, <4>5
    <3> QED
      BY <3>1, <3>2
  <2> QED
    BY <2>10, <2>11 DEF LoopInv
<1> QED
  BY <1>1, <1>2

\* The calls between loops leave no loop behind; a loop starts with nothing given.
LEMMA LoopInvOther ==
    ASSUME LoopInv,
           \/ LoopRegister
           \/ \E i \in Ids : LoopUnregister(i)
           \/ \E i \in Ids, a \in Arrays, o \in BOOLEAN : SetWorkload(i, a, o)
           \/ \E s \in Scheds, n \in Teams, c \in Modifiers : LoopStart(s, n, c)
           \/ LoopEnd
    PROVE  LoopInv'
<1> USE DEF LoopInv
<1>0. <<>> \in Seq(Nat)
  OBVIOUS
<1>1. CASE LoopRegister
  BY <1>1 DEF LoopRegister, Shape
<1>2. CASE \E i \in Ids : LoopUnregister(i)
  BY <1>2 DEF LoopUnregister, Shape
<1>3. CASE \E i \in Ids, a \in Arrays, o \in BOOLEAN : SetWorkload(i, a, o)
  <2>1. PICK i \in Ids, a \in Arrays, o \in BOOLEAN : SetWorkload(i, a, o)
    BY <1>3
  <2>2. Size(a) \in Nat
    BY WorkloadAssumption, FS_CardinalityType DEF Size
  <2> QED
    BY <2>1, <2>2 DEF SetWorkload, Shape
<1>4. CASE \E s \in Scheds, n \in Teams, c \in Modifiers : LoopStart(s, n, c)
  <2>1. /\ \E s, n : ws' = [active |-> TRUE, loop |-> curr_loop, sched |-> s,
                          taskmap |-> taskmap'[curr_loop], nthreads |-> n,
                          thread_start |-> [t \in 0..MaxTeam - 1 |-> 0]]
        /\ done' = {} /\ given' = [t \in 0..MaxTeam - 1 |-> <<>>] /\ UNCHANGED ntasks
    BY <1>4 DEF LoopStart
  <2>2. Shape'
    BY <1>0, <2>1 DEF Shape
  <2>3. \A t \in 0..MaxTeam - 1 : ws'.thread_start[t] = 0 /\ DOMAIN given'[t] = {}
    BY <2>1
  <2> QED
    BY <2>1, <2>2, <2>3 DEF Ascends, GivenBelowStart, DoneMeansBehind, Ascending, Holds
<1>5. CASE LoopEnd
  BY <1>0, <1>5 DEF LoopEnd, Shape, NoLoop
<1> QED
  BY <1>1, <1>2, <1>3, <1>4, <1>5

LEMMA LoopInvariant == Spec => []LoopInv
<1>1. LoopInv /\ [Next]_vars => LoopInv'
  <2> SUFFICES ASSUME LoopInv, [Next]_vars PROVE LoopInv'
    OBVIOUS
  <2>1. CASE UNCHANGED vars
    BY <2>1 DEF vars, LoopInv, Shape, Ascends, GivenBelowStart, DoneMeansBehind, Mine
  <2>2. CASE \E t \in 0..MaxTeam - 1 : IterNext(t)
    BY <2>2, LoopInvIter
  <2>3. CASE Next /\ ~\E t \in 0..MaxTeam - 1 : IterNext(t)
    BY <2>3, LoopInvOther DEF Next
  <2> QED
    BY <2>1, <2>2, <2>3
<1> QED
  BY <1>1, LoopInvInit, PTL DEF Spec

(* gomp_iter_binlpt_next and gomp_iter_srr_next: no iteration is handed    *)
(* out twice, whatever the map.                                            *)
THEOREM WorkloadHandedOutOnce == Spec => []HandedOutOnce
<1>1. LoopInv => HandedOutOnce
  <2> SUFFICES ASSUME LoopInv, ws.active,
                      NEW s \in 0..MaxTeam - 1, NEW t \in 0..MaxTeam - 1,
                      NEW k \in DOMAIN given[s], NEW l \in DOMAIN given[t]
               PROVE  /\ given[s][k] = given[t][l] => s = t /\ k = l
                      /\ given[s][k] \in 0..ntasks - 1
    BY DEF HandedOutOnce
  <2>1. /\ k \in Nat /\ l \in Nat /\ given[s][k] \in Nat /\ given[t][l] \in Nat
        /\ given[s] \in Seq(Nat) /\ given[t] \in Seq(Nat)
    BY DEF LoopInv, Shape
  <2>2. given[s][k] \in Mine(s) /\ given[t][l] \in Mine(t)
    BY <2>1 DEF LoopInv, GivenBelowStart, Holds
  <2>3. given[s][k] = given[t][l] => s = t
    BY <2>2 DEF Mine
  <2>4. s = t /\ k # l => given[s][k] # given[t][l]
    BY <2>1 DEF LoopInv, Ascends, Ascending
  <2> QED
    BY <2>2, <2>3, <2>4 DEF Mine
<1> QED
  BY <1>1, LoopInvariant, PTL

(* A thread that was told false has executed all that the map assigns to   *)
(* it, and nothing else.                                                   *)
ToldFalseHasAll ==
    ws.active => \A t \in 0..MaxTeam - 1 :
        t \in done => {given[t][k] : k \in DOMAIN given[t]} = Mine(t)

(* Iterations are left over only if the map names no thread of the team:   *)
(* the disagreement that FalseMeansAllAssigned shows has no other cause.   *)
THEOREM WorkloadToldFalse == Spec => []ToldFalseHasAll
<1>1. LoopInv => ToldFalseHasAll
  <2> SUFFICES ASSUME LoopInv, ws.active, NEW t \in 0..MaxTeam - 1, t \in done
               PROVE  {given[t][k] : k \in DOMAIN given[t]} = Mine(t)
    BY DEF ToldFalseHasAll
  <2>1. given[t] \in Seq(Nat) /\ Mine(t) \subseteq Nat
    BY DEF LoopInv, Shape, Mine
  <2> QED
    BY <2>1 DEF LoopInv, GivenBelowStart, DoneMeansBehind, Holds
<1> QED
  BY <1>1, LoopInvariant, PTL
-----------------------------------------------------------------------------
(* Ordered loops with a dynamic or guided schedule: the ring of the        *)
(* threads that hold a block.                                              *)

\* The i-th thread of the ring r of a team of n, from its head.
Nth(r, i, n) == r.team_ids[Behind(r, i, n)]

Rings(n) == [owner : -1..n - 1, cur : 0..n - 1, num_used : 0..n,
             team_ids : [0..n - 1 -> 0..n - 1]]

Positions == {"loop", "body", "sync", "wait", "own", "section", "next", "end"}

\* The work share of loop k, made by its first thread.
Loops == 1..program.length
FirstOf(k) == LoopInit(0, program.loops[k].n, 1, program.loops[k].sched,
                       program.loops[k].chunk, program.nthreads)
ShareAt(k) == IF wshare[k] = OpenShare THEN FirstOf(k) ELSE wshare[k]

OrderedTypes ==
    /\ program \in OrderedPrograms
    /\ \A k \in Loops : program.loops[k].sched # "static"
    /\ pos \in [Ring -> Positions] /\ inLoop \in [Ring -> Nat \ {0}]
    /\ \A t \in Ring : pos[t] # "loop" => inLoop[t] \in Loops
    /\ iteration \in [Ring -> Int] /\ behind \in [Ring -> Int]
    /\ then \in [Ring -> {"none", "section", "next"}]
    /\ \A t \in Ring : pos[t] \in {"sync", "wait", "own"} => then[t] # "none"
    /\ DOMAIN wshare = Loops
    /\ \A k \in Loops : /\ ShareAt(k).next \in 0..FirstOf(k).end
                        /\ ShareAt(k) = [FirstOf(k) EXCEPT !.next = ShareAt(k).next]
    /\ ring \in [Loops -> Rings(program.nthreads)]
    /\ ordered_release \in [Ring -> Nat]
    /\ latest \in [Loops -> Int]

\* Thread t has a block of loop k.
Has(t, k) == inLoop[t] = k /\ pos[t] \notin {"loop", "end"}
AsksNext(t) == \/ pos[t] = "next"
               \/ pos[t] \in {"sync", "wait", "own"} /\ then[t] = "next"

\* What is left of the blocks lies behind the latest section.
BlocksInv ==
    \A k \in Loops :
        /\ latest[k] < ShareAt(k).next
        /\ \A t \in Ring : Has(t, k) =>
              /\ iteration[t] <= behind[t] /\ behind[t] <= ShareAt(k).next
              /\ AsksNext(t) \/ iteration[t] < behind[t]
              /\ IF pos[t] = "section" THEN latest[k] = iteration[t]
                 ELSE latest[k] < iteration[t]

\* The ring holds the threads that have a block in the order of their blocks, ...
Used(k) == ring[k].num_used
At(k, i) == Nth(ring[k], i, program.nthreads)
RingInv ==
    program.nthreads > 1 => \A k \in Loops :
        /\ \A t \in Ring : Has(t, k) => \E i \in 0..Used(k) - 1 : At(k, i) = t
        /\ \A i \in 0..Used(k) - 1 : Has(At(k, i), k)
        /\ \A i, j \in 0..Used(k) - 1 : i < j =>
              At(k, i) # At(k, j) /\ behind[At(k, i)] <= iteration[At(k, j)]

\* ... its head has the turn, or a post of its own that tells it so, ...
IsHead(t) == \E k \in Loops : Has(t, k) /\ Used(k) > 0 /\ At(k, 0) = t
Owns(t) == \E k \in Loops : inLoop[t] = k /\ ring[k].owner = t
TurnInv ==
    program.nthreads > 1 =>
        /\ \A k \in Loops : ring[k].owner # -1 => Used(k) > 0 /\ At(k, 0) = ring[k].owner
        /\ \A t \in Ring : /\ pos[t] \in {"section", "next"} => Owns(t)
                           /\ pos[t] = "own" => IsHead(t) /\ ~Owns(t)
                           /\ ordered_release[t] = IF IsHead(t) /\ ~Owns(t) /\ pos[t] # "own"
                                                   THEN 1 ELSE 0

OrderedInv == OrderedTypes /\ BlocksInv /\ RingInv /\ TurnInv

\* The fields of a ring.
LEMMA RingFields ==
    ASSUME NEW n \in Nat \ {0}, NEW r \in Rings(n)
    PROVE  /\ r.cur \in 0..n - 1 /\ r.num_used \in 0..n /\ r.owner \in -1..n - 1
           /\ r.team_ids \in [0..n - 1 -> 0..n - 1]
BY DEF Rings

\* A ring with other fields.
LEMMA RingWith ==
    ASSUME NEW O, NEW C, NEW U, NEW I,
           NEW r \in [owner : O, cur : C, num_used : U, team_ids : I],
           NEW o \in O, NEW c \in C, NEW u \in U, NEW ids \in I
    PROVE  /\ [r EXCEPT !.team_ids = ids, !.num_used = u]
                  \in [owner : O, cur : C, num_used : U, team_ids : I]
           /\ [r EXCEPT !.owner = o, !.num_used = u, !.cur = c]
                  \in [owner : O, cur : C, num_used : U, team_ids : I]
           /\ [r EXCEPT !.owner = o, !.cur = c, !.team_ids = ids]
                  \in [owner : O, cur : C, num_used : U, team_ids : I]
           /\ [r EXCEPT !.owner = o]
                  \in [owner : O, cur : C, num_used : U, team_ids : I]
OBVIOUS

\* One step round the ring leads to the next place.
LEMMA Neighbour ==
    ASSUME NEW n \in Nat \ {0}, NEW c \in 0..n - 1, NEW i \in 0..n - 1
    PROVE  /\ (c + i) % n \in 0..n - 1 /\ (c + 1) % n \in 0..n - 1
           /\ (((c + 1) % n) + i) % n = (c + (i + 1)) % n
           /\ (c + 0) % n = c /\ (c + n) % n = c
<1>1. (c + i) % n \in 0..n - 1 /\ (c + 1) % n \in 0..n - 1
  OBVIOUS
<1>2. (((c + 1) % n) + i) % n = (c + (i + 1)) % n
  OBVIOUS
<1> QED
  BY <1>1, <1>2

\* Places less than n steps behind the head differ.
LEMMA RoundOnce ==
    ASSUME NEW n \in Nat \ {0}, NEW c \in 0..n - 1, NEW i \in 0..n - 1, NEW j \in 0..n - 1,
           i # j
    PROVE  (c + i) % n # (c + j) % n
OBVIOUS

\* Enqueue puts a thread at the end, ...
LEMMA Enqueues ==
    ASSUME NEW n \in Nat \ {0}, NEW r \in Rings(n), NEW t \in 0..n - 1, r.num_used < n
    PROVE  LET s == Enqueue(r, t, n)
           IN /\ s \in Rings(n) /\ s.num_used = r.num_used + 1 /\ s.owner = r.owner
              /\ \A i \in 0..r.num_used - 1 : Nth(s, i, n) = Nth(r, i, n)
              /\ Nth(s, r.num_used, n) = t
<1> DEFINE s == Enqueue(r, t, n)
           place(i) == (r.cur + i) % n
           ids == [r.team_ids EXCEPT ![place(r.num_used)] = t]
<1>1. PICK c \in 0..n - 1, u \in 0..n : c = r.cur /\ u = r.num_used
  BY RingFields
<1>2. u \in 0..n - 1 /\ u + 1 \in 0..n
  BY <1>1
<1>3. r.team_ids \in [0..n - 1 -> 0..n - 1]
  BY RingFields
<1>4. place(u) \in 0..n - 1
  BY <1>1, <1>2, Neighbour
<1>5. ASSUME NEW i \in 0..u - 1
      PROVE  place(i) \in 0..n - 1 /\ place(i) # place(u)
  <2>1. i \in 0..n - 1 /\ i # u
    BY <1>2
  <2>2. place(i) \in 0..n - 1
    BY <1>1, <2>1, Neighbour
  <2>3. place(i) # place(u)
    BY <1>1, <1>2, <2>1, RoundOnce
  <2> QED
    BY <2>2, <2>3
<1> HIDE DEF place
<1>6. ids \in [0..n - 1 -> 0..n - 1]
  BY <1>3
<1>7. s = [r EXCEPT !.team_ids = ids, !.num_used = r.num_used + 1]
  BY DEF Enqueue, Behind, place
<1>8. s \in Rings(n)
  <2> HIDE DEF ids, s
  <2> QED
    BY <1>1, <1>2, <1>6, <1>7, RingWith DEF Rings
<1>9. s.num_used = u + 1 /\ s.owner = r.owner /\ s.cur = r.cur /\ s.team_ids = ids
  <2> HIDE DEF ids, s
  <2> QED
    BY <1>1, <1>7 DEF Rings
<1>10. ASSUME NEW i \in 0..u - 1 PROVE Nth(s, i, n) = Nth(r, i, n)
  <2>1. ids[place(i)] = r.team_ids[place(i)]
    BY <1>1, <1>3, <1>5
  <2> HIDE DEF s, ids
  <2> QED
    BY <1>9, <2>1 DEF Nth, Behind, place
<1>11. Nth(s, u, n) = t
  <2>1. ids[place(u)] = t
    BY <1>1, <1>3, <1>4
  <2> HIDE DEF s, ids
  <2> QED
    BY <1>9, <2>1 DEF Nth, Behind, place
<1> HIDE DEF s
<1> QED
  BY <1>1, <1>8, <1>9, <1>10, <1>11 DEF s

\* ... DropHead takes the head out, ...
LEMMA Drops ==
    ASSUME NEW n \in Nat \ {0}, NEW r \in Rings(n), r.num_used > 0
    PROVE  LET s == DropHead(r, n)
           IN /\ s \in Rings(n) /\ s.num_used = r.num_used - 1 /\ s.owner = -1
              /\ \A i \in 0..r.num_used - 2 : Nth(s, i, n) = Nth(r, i + 1, n)
<1> DEFINE s == DropHead(r, n)
           place(i) == (r.cur + i) % n
           h == IF r.num_used > 1 THEN place(1) ELSE r.cur
<1>1. PICK c \in 0..n - 1, u \in 0..n : c = r.cur /\ u = r.num_used
  BY RingFields
<1>2. u - 1 \in 0..n /\ -1 \in -1..n - 1 /\ 0 \in 0..n - 1
  BY <1>1
<1>3. place(1) \in 0..n - 1
  BY <1>1, <1>2, Neighbour
<1>4. ASSUME NEW i \in 0..u - 2
      PROVE  u > 1 /\ (place(1) + i) % n = place(i + 1)
  <2>1. u > 1 /\ i \in 0..n - 1
    BY <1>1
  <2> QED
    BY <1>1, <2>1, Neighbour
<1> HIDE DEF place
<1>5. h \in 0..n - 1
  BY <1>1, <1>3
<1>6. s = [r EXCEPT !.owner = -1, !.num_used = r.num_used - 1, !.cur = h]
  BY DEF DropHead, Behind, place
<1>7. s \in Rings(n)
  <2> HIDE DEF h, s
  <2> QED
    BY <1>1, <1>2, <1>5, <1>6, RingWith DEF Rings
<1>8. s.num_used = u - 1 /\ s.owner = -1 /\ s.cur = h /\ s.team_ids = r.team_ids
  <2> HIDE DEF h, s
  <2> QED
    BY <1>1, <1>6 DEF Rings
<1>9. ASSUME NEW i \in 0..u - 2 PROVE Nth(s, i, n) = Nth(r, i + 1, n)
  <2>1. (h + i) % n = place(i + 1)
    BY <1>1, <1>4
  <2> HIDE DEF s, h
  <2> QED
    BY <1>8, <2>1 DEF Nth, Behind, place
<1> HIDE DEF s
<1> QED
  BY <1>1, <1>7, <1>8, <1>9 DEF s

\* ... and Rotate puts it to the end, also in a full ring.
LEMMA Rotates ==
    ASSUME NEW n \in Nat \ {0}, NEW r \in Rings(n), r.num_used > 0,
           NEW t \in 0..n - 1, Nth(r, 0, n) = t
    PROVE  LET s == Rotate(r, t, n)
           IN /\ s \in Rings(n) /\ s.num_used = r.num_used /\ s.owner = -1
              /\ \A i \in 0..r.num_used - 2 : Nth(s, i, n) = Nth(r, i + 1, n)
              /\ Nth(s, r.num_used - 1, n) = t
<1> DEFINE s == Rotate(r, t, n)
           place(i) == (r.cur + i) % n
           ids == IF r.num_used < n THEN [r.team_ids EXCEPT ![place(r.num_used)] = t]
                  ELSE r.team_ids
<1>1. PICK c \in 0..n - 1, u \in 0..n : c = r.cur /\ u = r.num_used
  BY RingFields
<1>2. u - 1 \in 0..n - 1 /\ -1 \in -1..n - 1 /\ 0 \in 0..n - 1 /\ (u - 1) + 1 = u
  BY <1>1
<1>3. r.team_ids \in [0..n - 1 -> 0..n - 1]
  BY RingFields
<1>4. CASE u = 1
  <2>1. s = [r EXCEPT !.owner = -1]
    BY <1>1, <1>4 DEF Rotate
  <2>2. s \in Rings(n)
    <3> HIDE DEF s
    <3> QED
      BY <1>1, <1>2, <1>3, <2>1, RingWith DEF Rings
  <2>3. s.num_used = u /\ s.owner = -1 /\ s.cur = r.cur /\ s.team_ids = r.team_ids
    <3> HIDE DEF s
    <3> QED
      BY <1>1, <2>1 DEF Rings
  <2>4. Nth(s, u - 1, n) = t
    <3>1. u - 1 = 0
      BY <1>4
    <3> HIDE DEF s
    <3> QED
      BY <2>3, <3>1 DEF Nth, Behind
  <2>5. \A i \in 0..u - 2 : FALSE
    BY <1>4
  <2> HIDE DEF s
  <2> QED
    BY <1>1, <2>2, <2>3, <2>4, <2>5 DEF s
<1>5. CASE u > 1
  <2>1. place(1) \in 0..n - 1 /\ place(n) = place(0)
    BY <1>1, <1>2, Neighbour
  <2>2. u < n => place(u) \in 0..n - 1
    <3>1. u < n => u \in 0..n - 1
      BY <1>1
    <3> QED
      BY <1>1, <3>1, Neighbour
  <2>3. ASSUME NEW i \in 0..u - 2
        PROVE  /\ (place(1) + i) % n = place(i + 1) /\ place(i + 1) \in 0..n - 1
               /\ u < n => place(i + 1) # place(u)
    <3>1. i \in 0..n - 1 /\ i + 1 \in 0..n - 1 /\ i + 1 # u /\ (u < n => u \in 0..n - 1)
      BY <1>1
    <3>2. (place(1) + i) % n = place(i + 1)
      BY <1>1, <3>1, Neighbour
    <3>3. place(i + 1) \in 0..n - 1
      BY <1>1, <3>1, Neighbour
    <3>4. u < n => place(i + 1) # place(u)
      BY <1>1, <3>1, RoundOnce
    <3> QED
      BY <3>2, <3>3, <3>4
  <2>4. (place(1) + (u - 1)) % n = place(u)
    <3>1. (place(1) + (u - 1)) % n = place((u - 1) + 1)
      BY <1>1, <1>2, Neighbour
    <3> QED
      BY <1>2, <3>1
  <2> HIDE DEF place
  <2>5. ids \in [0..n - 1 -> 0..n - 1]
    BY <1>1, <1>3, <2>2
  <2>6. s = [r EXCEPT !.owner = -1, !.cur = place(1), !.team_ids = ids]
    <3>1. r.num_used # 1
      BY <1>1, <1>5
    <3> QED
      BY <3>1 DEF Rotate, Behind, place
  <2>7. s \in Rings(n)
    <3> HIDE DEF s, ids
    <3> QED
      BY <1>1, <1>2, <2>1, <2>5, <2>6, RingWith DEF Rings
  <2>8. s.num_used = u /\ s.owner = -1 /\ s.cur = place(1) /\ s.team_ids = ids
    <3> HIDE DEF s, ids
    <3> QED
      BY <1>1, <2>6 DEF Rings
  <2>9. ASSUME NEW i \in 0..u - 2 PROVE Nth(s, i, n) = Nth(r, i + 1, n)
    <3>1. ids[place(i + 1)] = r.team_ids[place(i + 1)]
      BY <1>1, <1>3, <2>3
    <3> HIDE DEF s, ids
    <3> QED
      BY <2>3, <2>8, <3>1 DEF Nth, Behind, place
  <2>10. Nth(s, u - 1, n) = t
    <3>1. ids[place(u)] = t
      <4>1. CASE u < n
        BY <1>1, <1>3, <2>2, <4>1
      <4>2. CASE ~(u < n)
        <5>1. u = n
          BY <1>1, <4>2
        <5>2. r.team_ids[place(0)] = t
          BY DEF Nth, Behind, place
        <5> QED
          BY <1>1, <2>1, <4>2, <5>1, <5>2
      <4> QED
        BY <4>1, <4>2
    <3> HIDE DEF s, ids
    <3> QED
      BY <2>4, <2>8, <3>1 DEF Nth, Behind, place
  <2> HIDE DEF s
  <2> QED
    BY <1>1, <2>7, <2>8, <2>9, <2>10 DEF s
<1>6. u = 1 \/ u > 1
  BY <1>1
<1> QED
  BY <1>4, <1>5, <1>6

\* A set of one element more has twice as many subsets.
LEMMA PowersOfTwo ==
    ASSUME NEW a \in Nat
    PROVE  2^a \in Nat \ {0} /\ 2^(a + 1) = 2 * 2^a
<1> DEFINE S == 1..a
           T == 1..(a + 1)
           P == SUBSET S
           Q == {X \in SUBSET T : a + 1 \in X}
           f == [X \in P |-> X \cup {a + 1}]
<1>1. IsFiniteSet(S) /\ Cardinality(S) = a
  BY FS_Interval
<1>2. IsFiniteSet(T) /\ Cardinality(T) = a + 1
  BY FS_Interval
<1>3. T = S \cup {a + 1} /\ a + 1 \notin S
  OBVIOUS
<1> HIDE DEF S, T
<1>4. IsFiniteSet(P) /\ Cardinality(P) = 2^a
  BY <1>1, FS_SUBSET
<1>5. IsFiniteSet(SUBSET T) /\ Cardinality(SUBSET T) = 2^(a + 1)
  BY <1>2, FS_SUBSET
<1>6. f \in Bijection(P, Q)
  <2>1. \A X \in P : X \cup {a + 1} \in Q
    <3>1. \A X : X \subseteq S => X \cup {a + 1} \subseteq T
      BY <1>3
    <3> QED
      BY <3>1
  <2>2. ASSUME NEW X \in P, NEW Y \in P, X \cup {a + 1} = Y \cup {a + 1} PROVE X = Y
    BY <1>3, <2>2
  <2>3. ASSUME NEW Y \in Q PROVE \E X \in P : X \cup {a + 1} = Y
    <3>1. Y \subseteq T /\ a + 1 \in Y
      OBVIOUS
    <3>2. Y \ {a + 1} \subseteq S /\ (Y \ {a + 1}) \cup {a + 1} = Y
      BY <1>3, <3>1
    <3> QED
      BY <3>2
  <2> HIDE DEF P, Q
  <2> QED
    BY <2>1, <2>2, <2>3 DEF Bijection, Injection, Surjection, IsInjective
<1>7. IsFiniteSet(Q) /\ Cardinality(Q) = Cardinality(P)
  <2> HIDE DEF f, P, Q
  <2>1. f \in Surjection(P, Q) /\ f \in Injection(P, Q)
    BY <1>6 DEF Bijection
  <2> QED
    BY <1>4, <2>1, FS_Surjection
<1>8. SUBSET T = P \cup Q /\ P \cap Q = {}
  <2>1. \A X : (X \in P <=> X \subseteq S) /\ (X \in Q <=> X \subseteq T /\ a + 1 \in X)
    OBVIOUS
  <2>2. \A X : /\ X \subseteq T => X \subseteq S \/ a + 1 \in X
               /\ X \subseteq S => X \subseteq T /\ a + 1 \notin X
    BY <1>3
  <2> HIDE DEF P, Q
  <2> QED
    BY <2>1, <2>2
<1>9. Cardinality(P) \in Nat /\ Cardinality(P) # 0
  <2>1. {} \in P
    OBVIOUS
  <2> HIDE DEF P
  <2> QED
    BY <1>4, <2>1, FS_CardinalityType, FS_EmptySet
<1>10. Cardinality(SUBSET T) = Cardinality(P) + Cardinality(Q) - Cardinality(P \cap Q)
  <2> HIDE DEF P, Q
  <2> QED
    BY <1>4, <1>7, <1>8, FS_Union
<1>11. Cardinality(P \cap Q) = 0
  BY <1>8, FS_EmptySet
<1> HIDE DEF P, Q
<1> QED
  BY <1>4, <1>5, <1>7, <1>9, <1>10, <1>11

\* The numbers of a word.
LEMMA Words ==
    /\ LONG_MAX \in Nat /\ 2^(WordBits - 1) = LONG_MAX + 1
    /\ 2^WordBits = 2 * (LONG_MAX + 1)
<1>1. WordBits - 1 \in Nat /\ (WordBits - 1) + 1 = WordBits
  BY WordAssumption
<1>2. 2^(WordBits - 1) \in Nat \ {0} /\ 2^((WordBits - 1) + 1) = 2 * 2^(WordBits - 1)
  BY <1>1, PowersOfTwo
<1>3. PICK m \in Nat \ {0} : 2^(WordBits - 1) = m
  BY <1>2
<1> QED
  BY <1>1, <1>2, <1>3 DEF LONG_MAX

\* A number that a long has room for is what it is.
LEMMA Signs ==
    /\ \A x \in -LONG_MAX - 1..LONG_MAX : Signed(x) = x
    /\ \A x \in 0..LONG_MAX : Unsigned(x) = x
    /\ \A x \in Int : Unsigned(x) \in Nat
<1>1. PICK m \in Nat \ {0}, w \in Nat : m = LONG_MAX + 1 /\ w = 2^WordBits /\ w = 2 * m
  BY Words
<1>2. LONG_MAX = m - 1
  BY <1>1, Words
<1>3. ASSUME NEW x \in Int PROVE x % w \in Nat
  BY <1>1
<1>4. ASSUME NEW x \in 0..m - 1 PROVE x % w = x
  BY <1>1
<1>5. ASSUME NEW x \in -m..m - 1 PROVE (x + m) % w = x + m
  BY <1>1
<1>6. \A x \in 0..LONG_MAX : Unsigned(x) = x
  BY <1>1, <1>2, <1>4 DEF Unsigned
<1>7. \A x \in Int : Unsigned(x) \in Nat
  BY <1>1, <1>3 DEF Unsigned
<1>8. ASSUME NEW x \in -LONG_MAX - 1..LONG_MAX PROVE Signed(x) = x
  <2>1. x \in -m..m - 1 /\ LONG_MAX + 1 = m /\ x + LONG_MAX + 1 = x + m
    BY <1>2
  <2>2. Signed(x) = ((x + m) % w) - m
    BY <1>1, <2>1 DEF Signed, Unsigned
  <2> QED
    BY <1>5, <2>1, <2>2
<1> QED
  BY <1>6, <1>7, <1>8

\* A block that is taken is not empty, and does not reach beyond the loop.
LEMMA BlockEnds ==
    ASSUME NEW sh, sh.incr = 1, sh.chunk \in 1..LONG_MAX, sh.end \in 0..LONG_MAX,
           NEW x \in 0..sh.end - 1, NEW n \in Nat \ {0}
    PROVE  /\ DynamicEnd(sh, x) \in x + 1..sh.end
           /\ GuidedEnd(sh, x, n) \in x + 1..sh.end
<1>1. PICK e \in 0..LONG_MAX, c \in 1..LONG_MAX : e = sh.end /\ c = sh.chunk
  OBVIOUS
<1>2. LONG_MAX \in Nat
  BY Words
<1>3. PICK d \in 1..LONG_MAX : d = e - x /\ Signed(sh.end - x) = d
  <2>1. e - x \in 1..LONG_MAX /\ e - x \in -LONG_MAX - 1..LONG_MAX
    BY <1>1, <1>2
  <2> QED
    BY <1>1, <2>1, Signs
<1>4. DynamicEnd(sh, x) \in x + 1..sh.end
  <2> DEFINE b == IF c > d THEN d ELSE c
  <2>1. DynamicEnd(sh, x) = Signed(x + b)
    BY <1>1, <1>2, <1>3 DEF DynamicEnd
  <2>2. x + b \in x + 1..e /\ x + b \in -LONG_MAX - 1..LONG_MAX
    BY <1>1, <1>2, <1>3
  <2> HIDE DEF b
  <2> QED
    BY <1>1, <2>1, <2>2, Signs
<1>5. GuidedEnd(sh, x, n) \in x + 1..sh.end
  <2>1. Quotient(d, 1) = d
    <3>1. d \div 1 = d /\ ~(d < 0) /\ ~(1 < 0)
      BY <1>2, <1>3
    <3> QED
      BY <3>1 DEF Quotient
  <2>2. Unsigned(d) = d /\ d \in 0..LONG_MAX
    BY <1>2, <1>3, Signs
  <2>3. PICK u \in Nat : u = Unsigned(d + n - 1)
    <3>1. d + n - 1 \in Int
      BY <1>2, <1>3
    <3> QED
      BY <3>1, Signs
  <2>4. PICK v \in Nat : v = u \div n
    OBVIOUS
  <2>5. PICK q \in Nat \ {0} : q = AtLeastChunk(v, c)
    BY <1>2 DEF AtLeastChunk
  <2>6. GuidedEnd(sh, x, n) = IF q <= d THEN Signed(x + q * 1) ELSE sh.end
    BY <1>1, <1>3, <2>1, <2>2, <2>3, <2>4, <2>5 DEF GuidedEnd
  <2>7. q <= d => x + q \in x + 1..e /\ x + q \in -LONG_MAX - 1..LONG_MAX /\ q * 1 = q
    BY <1>1, <1>2, <1>3
  <2>8. e \in x + 1..e
    BY <1>1, <1>2, <1>3
  <2> QED
    BY <1>1, <2>6, <2>7, <2>8, Signs
<1> QED
  BY <1>4, <1>5

(* Work shares.                                                            *)

\* What the loops of the program look like.
LEMMA QueuedPrograms ==
    ASSUME program \in OrderedPrograms,
           \A k \in Loops : program.loops[k].sched # "static"
    PROVE  /\ program.nthreads \in Nat \ {0} /\ program.length \in Nat
           /\ Ring = 0..program.nthreads - 1 /\ Loops = 1..program.length
           /\ \A k \in Loops :
                 /\ program.loops[k].sched \in {"dynamic", "guided"}
                 /\ program.loops[k].chunk \in 1..LONG_MAX
                 /\ program.loops[k].n \in -LONG_MAX - 1..LONG_MAX
<1>1. /\ program.nthreads \in Nat \ {0} /\ program.length \in Nat
      /\ \A k \in 1..program.length :
            /\ {program.loops[k].n, program.loops[k].chunk} \subseteq -LONG_MAX - 1..LONG_MAX
            /\ program.loops[k].sched \in {"static", "dynamic", "guided"}
            /\ program.loops[k].sched # "static" => program.loops[k].chunk > 0
  BY OrderedAssumption
<1>2. ASSUME NEW k \in Loops
      PROVE  /\ program.loops[k].sched \in {"dynamic", "guided"}
             /\ program.loops[k].chunk \in 1..LONG_MAX
             /\ program.loops[k].n \in -LONG_MAX - 1..LONG_MAX
  <2>1. program.loops[k].sched \in {"dynamic", "guided"}
    BY <1>1 DEF Loops
  <2>2. /\ program.loops[k].chunk \in -LONG_MAX - 1..LONG_MAX
        /\ program.loops[k].n \in -LONG_MAX - 1..LONG_MAX
    BY <1>1 DEF Loops
  <2>3. program.loops[k].chunk > 0
    BY <1>1, <2>1 DEF Loops
  <2> QED
    BY <2>1, <2>2, <2>3, Words
<1> QED
  BY <1>1, <1>2 DEF Ring, Loops

\* So they do when the invariant holds.
LEMMA ProgramTypes ==
    ASSUME OrderedTypes
    PROVE  /\ program.nthreads \in Nat \ {0} /\ program.length \in Nat
           /\ Ring = 0..program.nthreads - 1 /\ Loops = 1..program.length
           /\ \A k \in Loops :
                 /\ program.loops[k].sched \in {"dynamic", "guided"}
                 /\ program.loops[k].chunk \in 1..LONG_MAX
                 /\ program.loops[k].n \in -LONG_MAX - 1..LONG_MAX
BY QueuedPrograms DEF OrderedTypes

\* The share of loop k as its first thread makes it.
LEMMA MadeShares ==
    ASSUME NEW k \in Loops, program \in OrderedPrograms,
           \A j \in Loops : program.loops[j].sched # "static"
    PROVE  \A x : LET sh == [FirstOf(k) EXCEPT !.next = x]
                  IN /\ sh.next = x /\ sh.end = FirstOf(k).end /\ sh.incr = 1
                     /\ sh.end \in 0..LONG_MAX /\ sh.chunk \in 1..LONG_MAX
                     /\ sh.sched \in {"dynamic", "guided"}
                     /\ FirstOf(k).next = 0 /\ FirstOf(k) = [FirstOf(k) EXCEPT !.next = 0]
<1>1. PICK n \in -LONG_MAX - 1..LONG_MAX, c \in 1..LONG_MAX, s \in {"dynamic", "guided"} :
         n = program.loops[k].n /\ c = program.loops[k].chunk /\ s = program.loops[k].sched
  BY QueuedPrograms
<1>2. LONG_MAX \in Nat /\ c \in -LONG_MAX - 1..LONG_MAX /\ c * 1 = c
  BY Words
<1>3. Signed(c * 1) = c
  BY <1>2, Signs
<1>4. PICK m, e :
         e \in 0..LONG_MAX /\
         FirstOf(k) = [type |-> "long", sched |-> s, chunk |-> c, end |-> e,
                       incr |-> 1, next |-> 0, mode |-> m]
  <2> DEFINE e == CanonicalEnd(1 > 0, 0, n)
  <2>1. e \in 0..LONG_MAX
    BY <1>2 DEF CanonicalEnd
  <2> HIDE DEF e
  <2>2. \E m : FirstOf(k) = [type |-> "long", sched |-> s, chunk |-> c, end |-> e,
                             incr |-> 1, next |-> 0, mode |-> m]
    BY <1>1, <1>3 DEF FirstOf, LoopInit, e
  <2> QED
    BY <2>1, <2>2
<1> QED
  BY <1>4

\* The same share when the invariant holds.
LEMMA FirstShares ==
    ASSUME OrderedTypes, NEW k \in Loops
    PROVE  \A x : LET sh == [FirstOf(k) EXCEPT !.next = x]
                  IN /\ sh.next = x /\ sh.end = FirstOf(k).end /\ sh.incr = 1
                     /\ sh.end \in 0..LONG_MAX /\ sh.chunk \in 1..LONG_MAX
                     /\ sh.sched \in {"dynamic", "guided"}
                     /\ FirstOf(k).next = 0 /\ FirstOf(k) = [FirstOf(k) EXCEPT !.next = 0]
BY MadeShares DEF OrderedTypes

\* The share of a loop of which some has been handed out.
LEMMA Shares ==
    ASSUME OrderedTypes, NEW k \in Loops
    PROVE  /\ ShareAt(k).next \in 0..ShareAt(k).end /\ ShareAt(k).end = FirstOf(k).end
           /\ ShareAt(k).incr = 1 /\ ShareAt(k).chunk \in 1..LONG_MAX
           /\ ShareAt(k).end \in 0..LONG_MAX
           /\ ShareAt(k).sched \in {"dynamic", "guided"}
           /\ ShareAt(k).next # ShareAt(k).end =>
                 NextBlock(ShareAt(k)) \in ShareAt(k).next + 1..ShareAt(k).end
<1> DEFINE sh == ShareAt(k)
<1>1. sh = [FirstOf(k) EXCEPT !.next = sh.next] /\ sh.next \in 0..FirstOf(k).end
  BY DEF OrderedTypes
<1> HIDE DEF sh
<1>2. /\ sh.end = FirstOf(k).end /\ sh.incr = 1 /\ sh.chunk \in 1..LONG_MAX
      /\ sh.end \in 0..LONG_MAX /\ sh.sched \in {"dynamic", "guided"}
  <2>1. PICK x : x = sh.next
    OBVIOUS
  <2>2. sh = [FirstOf(k) EXCEPT !.next = x]
    BY <1>1, <2>1
  <2> QED
    BY <2>2, FirstShares
<1>3. ASSUME sh.next # sh.end PROVE NextBlock(sh) \in sh.next + 1..sh.end
  <2>1. sh.next \in 0..sh.end - 1 /\ program.nthreads \in Nat \ {0}
    BY <1>1, <1>2, <1>3, ProgramTypes, Words
  <2> QED
    BY <1>2, <2>1, BlockEnds DEF NextBlock
<1> QED
  BY <1>1, <1>2, <1>3 DEF sh

\* A thread finds the share of its loop or makes it, and may move it on.
LEMMA SharesMove ==
    ASSUME OrderedTypes, NEW k \in Loops, program' = program, NEW x \in 0..FirstOf(k).end,
           wshare' = [wshare EXCEPT ![k] = [ShareAt(k) EXCEPT !.next = x]]
    PROVE  /\ DOMAIN wshare' = Loops /\ Loops' = Loops /\ Ring' = Ring
           /\ \A j \in Loops :
                 /\ FirstOf(j)' = FirstOf(j)
                 /\ ShareAt(j)' = IF j = k THEN [ShareAt(k) EXCEPT !.next = x]
                                  ELSE ShareAt(j)
                 /\ ShareAt(j)'.next = IF j = k THEN x ELSE ShareAt(j).next
                 /\ ShareAt(j)'.next \in 0..FirstOf(j)'.end
                 /\ ShareAt(j)' = [FirstOf(j)' EXCEPT !.next = ShareAt(j)'.next]
<1> DEFINE sh == [ShareAt(k) EXCEPT !.next = x]
<1>1. sh = [FirstOf(k) EXCEPT !.next = x]
  <2>1. PICK y : ShareAt(k) = [FirstOf(k) EXCEPT !.next = y]
    BY DEF OrderedTypes
  <2> QED
    BY <2>1
<1>2. sh.next = x /\ x \in 0..FirstOf(k).end /\ FirstOf(k).end \in Int
  BY <1>1, FirstShares
<1>3. sh # OpenShare
  <2>1. x # -1
    BY <1>2
  <2> HIDE DEF sh
  <2> QED
    BY <1>2, <2>1 DEF OpenShare
<1> HIDE DEF sh
<1>4. Loops' = Loops /\ Ring' = Ring /\ \A j \in Loops : FirstOf(j)' = FirstOf(j)
  BY DEF Loops, Ring, FirstOf
<1>5. /\ DOMAIN wshare' = Loops /\ wshare'[k] = sh
      /\ \A j \in Loops : j # k => wshare'[j] = wshare[j]
  BY DEF OrderedTypes, sh
<1>6. /\ ShareAt(k)' = sh
      /\ \A j \in Loops : j # k => ShareAt(j)' = ShareAt(j)
  BY <1>3, <1>4, <1>5 DEF ShareAt
<1>7. \A j \in Loops : /\ ShareAt(j).next \in 0..FirstOf(j).end
                       /\ ShareAt(j) = [FirstOf(j) EXCEPT !.next = ShareAt(j).next]
  BY DEF OrderedTypes
<1>8. sh = [ShareAt(k) EXCEPT !.next = x]
  BY DEF sh
<1>9. ASSUME NEW j \in Loops
      PROVE  /\ FirstOf(j)' = FirstOf(j)
             /\ ShareAt(j)' = IF j = k THEN sh ELSE ShareAt(j)
             /\ ShareAt(j)'.next = IF j = k THEN x ELSE ShareAt(j).next
             /\ ShareAt(j)'.next \in 0..FirstOf(j)'.end
             /\ ShareAt(j)' = [FirstOf(j)' EXCEPT !.next = ShareAt(j)'.next]
  <2>1. FirstOf(j)' = FirstOf(j)
    BY <1>4
  <2>2. CASE j = k
    BY <1>1, <1>2, <1>6, <2>1, <2>2
  <2>3. CASE j # k
    BY <1>6, <1>7, <2>1, <2>3
  <2> QED
    BY <2>2, <2>3, <2>1
<1> QED
  BY <1>4, <1>5, <1>8, <1>9

(* Threads in the ring.                                                    *)

\* Places of the ring have threads of the team.
LEMMA AtRing ==
    ASSUME OrderedTypes, NEW k \in Loops
    PROVE  /\ ring[k] \in Rings(program.nthreads) /\ Used(k) \in 0..program.nthreads
           /\ ring[k].owner \in -1..program.nthreads - 1
           /\ \A i \in 0..Used(k) - 1 : i \in 0..program.nthreads - 1 /\ At(k, i) \in Ring
<1>1. PICK n \in Nat \ {0} : n = program.nthreads /\ Ring = 0..n - 1
  BY ProgramTypes
<1>2. ring[k] \in Rings(n)
  BY <1>1 DEF OrderedTypes
<1>3. PICK c \in 0..n - 1, u \in 0..n : c = ring[k].cur /\ u = Used(k)
  BY <1>2, RingFields DEF Used
<1>4. ring[k].owner \in -1..n - 1 /\ ring[k].team_ids \in [0..n - 1 -> 0..n - 1]
  BY <1>2, RingFields
<1>5. ASSUME NEW i \in 0..u - 1 PROVE i \in 0..n - 1 /\ At(k, i) \in Ring
  <2>1. i \in 0..n - 1
    BY <1>3
  <2>2. (c + i) % n \in 0..n - 1
    BY <2>1, Neighbour
  <2> QED
    BY <1>1, <1>3, <1>4, <2>1, <2>2 DEF At, Nth, Behind
<1> QED
  BY <1>1, <1>2, <1>3, <1>4, <1>5

\* There is room in the ring for a thread that is not in it.
LEMMA RoomInRing ==
    ASSUME OrderedTypes, RingInv, program.nthreads > 1, NEW k \in Loops, NEW t \in Ring,
           ~Has(t, k)
    PROVE  Used(k) < program.nthreads
<1> DEFINE S == 0..Used(k) - 1
           T == Ring \ {t}
           f == [i \in S |-> At(k, i)]
<1>0. PICK n \in Nat \ {0} : n = program.nthreads /\ Ring = 0..n - 1
  BY ProgramTypes
<1>1. PICK u \in 0..n : u = Used(k)
  BY <1>0, AtRing
<1>2. IsFiniteSet(Ring) /\ Cardinality(Ring) = n
  <2>1. 0 \in Int /\ n - 1 \in Int /\ ~(0 > n - 1) /\ (n - 1) - 0 + 1 = n
    OBVIOUS
  <2>2. IsFiniteSet(0..n - 1) /\ Cardinality(0..n - 1) = n
    BY <2>1, FS_Interval
  <2> QED
    BY <1>0, <2>2
<1>3. IsFiniteSet(T) /\ Cardinality(T) = n - 1
  BY <1>2, FS_RemoveElement
<1>4. Cardinality(S) = u
  BY <1>1, FS_Interval
<1>5. f \in Injection(S, T)
  <2>1. \A i \in S : At(k, i) \in T
    BY AtRing DEF RingInv
  <2>2. ASSUME NEW i \in S, NEW j \in S, At(k, i) = At(k, j) PROVE i = j
    <3>1. i \in Int /\ j \in Int
      OBVIOUS
    <3>2. ~(i < j) /\ ~(j < i)
      BY <2>2 DEF RingInv
    <3> QED
      BY <3>1, <3>2
  <2> HIDE DEF S, T
  <2> QED
    BY <2>1, <2>2 DEF Injection, IsInjective
<1>6. Cardinality(S) <= Cardinality(T)
  <2> HIDE DEF f, S, T
  <2> QED
    BY <1>3, <1>5, FS_Injection
<1> HIDE DEF S, T
<1> QED
  BY <1>0, <1>1, <1>3, <1>4, <1>6

\* Who is not the head begins behind it and is not in its section.
LEMMA OthersBehind ==
    ASSUME OrderedInv, NEW t \in Ring, NEW s \in Ring, s # t,
           program.nthreads > 1 => IsHead(t), Has(s, inLoop[t])
    PROVE  behind[t] <= iteration[s] /\ pos[s] # "section"
<1>1. program.nthreads > 1
  BY ProgramTypes DEF OrderedInv
<1>2. PICK k \in Loops : Has(t, k) /\ Used(k) > 0 /\ At(k, 0) = t
  BY <1>1 DEF IsHead
<1>3. k = inLoop[t] /\ Has(s, k)
  BY <1>2 DEF Has
<1>4. PICK i \in 0..Used(k) - 1 : At(k, i) = s
  BY <1>1, <1>3 DEF OrderedInv, RingInv
<1>5. Used(k) \in Int /\ 0 \in 0..Used(k) - 1 /\ i > 0
  <2>1. Used(k) \in Int
    BY AtRing DEF OrderedInv
  <2> QED
    BY <1>2, <1>4, <2>1
<1>6. behind[t] <= iteration[s]
  BY <1>1, <1>2, <1>4, <1>5 DEF OrderedInv, RingInv
<1>7. ASSUME pos[s] = "section" PROVE FALSE
  <2>1. Owns(s)
    BY <1>1, <1>7 DEF OrderedInv, TurnInv
  <2>2. ring[k].owner = s /\ s # -1
    BY <1>3, <2>1, ProgramTypes DEF Owns, Has, OrderedInv
  <2> QED
    BY <1>1, <1>2, <2>2 DEF OrderedInv, TurnInv
<1> QED
  BY <1>6, <1>7
-----------------------------------------------------------------------------
(* Steps between two blocks.                                               *)

Walks(t, p) ==
    /\ UNCHANGED <<program, inLoop, behind, wshare>>
    /\ pos[t] \notin {"loop", "end"} /\ p \in Positions \ {"loop", "end"}
    /\ pos' = [pos EXCEPT ![t] = p]
    /\ iteration' \in [Ring -> Int] /\ then' \in [Ring -> {"none", "section", "next"}]
    /\ \A s \in Ring : s # t => iteration'[s] = iteration[s] /\ then'[s] = then[s]
    /\ iteration[t] <= iteration'[t] /\ iteration'[t] <= behind[t]
    /\ p \in {"sync", "wait", "own"} => then'[t] # "none"
    /\ ordered_release' \in [Ring -> Nat]
    /\ ring' \in [Loops -> Rings(program.nthreads)]
    /\ \A k \in Loops : /\ ring'[k].cur = ring[k].cur /\ ring'[k].num_used = ring[k].num_used
                        /\ ring'[k].team_ids = ring[k].team_ids

\* The ring stays as it is.
LEMMA WalksFrame ==
    ASSUME OrderedTypes, NEW t \in Ring, NEW p, Walks(t, p)
    PROVE  /\ Loops' = Loops /\ Ring' = Ring /\ inLoop[t] \in Loops
           /\ pos' \in [Ring -> Positions] /\ pos'[t] = p
           /\ \A s \in Ring : s # t => pos'[s] = pos[s] /\ (AsksNext(s)' <=> AsksNext(s))
           /\ \A k \in Loops : /\ Used(k)' = Used(k) /\ \A i : At(k, i)' = At(k, i)
                               /\ ShareAt(k)' = ShareAt(k) /\ FirstOf(k)' = FirstOf(k)
           /\ \A s \in Ring : /\ \A k \in Loops : Has(s, k)' <=> Has(s, k)
                              /\ IsHead(s)' <=> IsHead(s)
<1>1. Loops' = Loops /\ Ring' = Ring /\ inLoop[t] \in Loops
  BY DEF Walks, Loops, Ring, OrderedTypes
<1>2. /\ pos' \in [Ring -> Positions] /\ pos'[t] = p
      /\ \A s \in Ring : s # t => pos'[s] = pos[s]
  BY DEF Walks, OrderedTypes
<1>3. \A s \in Ring : s # t => (AsksNext(s)' <=> AsksNext(s))
  BY <1>2 DEF AsksNext, Walks
<1>4. \A k \in Loops : /\ Used(k)' = Used(k) /\ \A i : At(k, i)' = At(k, i)
                       /\ ShareAt(k)' = ShareAt(k) /\ FirstOf(k)' = FirstOf(k)
  BY DEF Walks, Used, At, Nth, Behind, ShareAt, FirstOf
<1>5. \A s \in Ring, k \in Loops : Has(s, k)' <=> Has(s, k)
  BY <1>2 DEF Walks, Has
<1>6. \A s \in Ring : IsHead(s)' <=> IsHead(s)
  BY <1>1, <1>4, <1>5 DEF IsHead
<1> QED
  BY <1>1, <1>2, <1>3, <1>4, <1>5, <1>6

\* What a thread must see to when it takes such a step.
LEMMA WalksKeep ==
    ASSUME OrderedInv, NEW t \in Ring, NEW p, Walks(t, p), latest' \in [Loops -> Int],
           NEW k, k = inLoop[t],
           \A j \in Loops : j # k => latest'[j] = latest[j],
           latest'[k] # latest[k] => /\ latest'[k] < behind[t]
                                     /\ program.nthreads > 1 => IsHead(t),
           AsksNext(t)' \/ iteration'[t] < behind[t],
           IF p = "section" THEN latest'[k] = iteration'[t] ELSE latest'[k] < iteration'[t]
    PROVE  OrderedTypes' /\ BlocksInv' /\ RingInv'
<1> USE DEF OrderedInv
<1>1. /\ Loops' = Loops /\ Ring' = Ring /\ inLoop' = inLoop /\ behind' = behind
      /\ program' = program /\ k \in Loops /\ Has(t, k) /\ Has(t, k)'
      /\ \A j \in Loops : j # k => ~Has(t, j)
  BY WalksFrame DEF Walks, Has
<1>2. /\ pos' \in [Ring -> Positions] /\ pos'[t] = p
      /\ \A s \in Ring : s # t => pos'[s] = pos[s] /\ (AsksNext(s)' <=> AsksNext(s))
      /\ \A j \in Loops : /\ Used(j)' = Used(j) /\ \A i : At(j, i)' = At(j, i)
                          /\ ShareAt(j)' = ShareAt(j) /\ FirstOf(j)' = FirstOf(j)
      /\ \A s \in Ring, j \in Loops : Has(s, j)' <=> Has(s, j)
  BY WalksFrame
<1>3. /\ iteration \in [Ring -> Int] /\ behind \in [Ring -> Int] /\ latest \in [Loops -> Int]
      /\ iteration' \in [Ring -> Int]
      /\ \A s \in Ring : iteration[s] <= iteration'[s]
      /\ \A s \in Ring : s # t => iteration'[s] = iteration[s]
  <2>1. /\ iteration \in [Ring -> Int] /\ behind \in [Ring -> Int]
        /\ latest \in [Loops -> Int] /\ iteration' \in [Ring -> Int]
        /\ \A s \in Ring : s # t => iteration'[s] = iteration[s]
        /\ iteration[t] <= iteration'[t]
    BY DEF OrderedTypes, Walks
  <2>2. ASSUME NEW s \in Ring PROVE iteration[s] <= iteration'[s]
    <3>1. iteration[s] \in Int
      BY <2>1
    <3> QED
      BY <2>1, <3>1
  <2> QED
    BY <2>1, <2>2
<1>4. OrderedTypes'
  <2>1. \A s \in Ring : pos'[s] # "loop" => inLoop'[s] \in Loops
    BY <1>1, <1>2 DEF OrderedTypes, Walks
  <2>2. \A s \in Ring : pos'[s] \in {"sync", "wait", "own"} => then'[s] # "none"
    BY <1>2 DEF OrderedTypes, Walks
  <2>3. /\ inLoop' \in [Ring -> Nat \ {0}] /\ behind' \in [Ring -> Int]
        /\ then' \in [Ring -> {"none", "section", "next"}]
        /\ ring' \in [Loops -> Rings(program'.nthreads)] /\ ordered_release' \in [Ring -> Nat]
        /\ DOMAIN wshare' = Loops /\ program' \in OrderedPrograms
        /\ \A j \in Loops : program'.loops[j].sched # "static"
    BY <1>1 DEF OrderedTypes, Walks
  <2>4. \A j \in Loops : /\ ShareAt(j)'.next \in 0..FirstOf(j)'.end
                         /\ ShareAt(j)' = [FirstOf(j)' EXCEPT !.next = ShareAt(j)'.next]
    BY <1>2 DEF OrderedTypes
  <2> QED
    BY <1>1, <1>2, <1>3, <2>1, <2>2, <2>3, <2>4 DEF OrderedTypes
<1>5. BlocksInv'
  <2> SUFFICES ASSUME NEW j \in Loops
               PROVE  /\ latest'[j] < ShareAt(j).next
                      /\ \A s \in Ring : Has(s, j) =>
                            /\ iteration'[s] <= behind[s] /\ behind[s] <= ShareAt(j).next
                            /\ AsksNext(s)' \/ iteration'[s] < behind[s]
                            /\ IF pos'[s] = "section" THEN latest'[j] = iteration'[s]
                               ELSE latest'[j] < iteration'[s]
    BY <1>1, <1>2 DEF BlocksInv
  <2>1. /\ latest[j] < ShareAt(j).next
        /\ \A s \in Ring : Has(s, j) =>
              /\ iteration[s] <= behind[s] /\ behind[s] <= ShareAt(j).next
              /\ AsksNext(s) \/ iteration[s] < behind[s]
              /\ IF pos[s] = "section" THEN latest[j] = iteration[s]
                 ELSE latest[j] < iteration[s]
    BY DEF BlocksInv
  <2>2. ShareAt(j).next \in Int
    BY Shares
  <2>3. CASE j # k
    BY <1>1, <1>2, <1>3, <2>1, <2>3
  <2>4. CASE j = k
    <3>1. latest'[k] < ShareAt(k).next
      <4>1. behind[t] \in Int /\ latest'[k] \in Int /\ behind[t] <= ShareAt(k).next
        BY <1>1, <1>3, <2>1, <2>4
      <4> QED
        BY <2>1, <2>2, <2>4, <4>1
    <3>2. ASSUME NEW s \in Ring, Has(s, k)
          PROVE  /\ iteration'[s] <= behind[s] /\ behind[s] <= ShareAt(k).next
                 /\ AsksNext(s)' \/ iteration'[s] < behind[s]
                 /\ IF pos'[s] = "section" THEN latest'[k] = iteration'[s]
                    ELSE latest'[k] < iteration'[s]
      <4>1. CASE s = t
        BY <1>1, <1>2, <2>1, <2>4, <4>1 DEF Walks
      <4>2. CASE s # t /\ latest'[k] = latest[k]
        BY <1>1, <1>2, <1>3, <2>1, <2>4, <3>2, <4>2
      <4>3. CASE s # t /\ latest'[k] # latest[k]
        <5>1. behind[t] <= iteration[s] /\ pos[s] # "section"
          BY <3>2, <4>3, OthersBehind
        <5>2. /\ iteration[s] \in Int /\ behind[t] \in Int /\ latest'[k] \in Int
              /\ latest'[k] < behind[t]
          BY <1>1, <1>3, <4>3
        <5> QED
          BY <1>1, <1>2, <1>3, <2>1, <2>4, <3>2, <4>3, <5>1, <5>2
      <4> QED
        BY <4>1, <4>2, <4>3
    <3> QED
      BY <2>4, <3>1, <3>2
  <2> QED
    BY <2>3, <2>4
<1>6. RingInv'
  <2>1. SUFFICES ASSUME program.nthreads > 1, NEW j \in Loops
        PROVE  /\ \A s \in Ring : Has(s, j) => \E i \in 0..Used(j) - 1 : At(j, i) = s
               /\ \A i \in 0..Used(j) - 1 : Has(At(j, i), j)'
               /\ \A i, h \in 0..Used(j) - 1 : i < h =>
                     At(j, i) # At(j, h) /\ behind[At(j, i)] <= iteration'[At(j, h)]
    BY <1>1, <1>2 DEF RingInv
  <2>2. \A s \in Ring : Has(s, j) => \E i \in 0..Used(j) - 1 : At(j, i) = s
    BY <2>1 DEF RingInv
  <2>3. \A i \in 0..Used(j) - 1 : Has(At(j, i), j) /\ At(j, i) \in Ring
    BY <2>1, AtRing DEF RingInv
  <2>4. ASSUME NEW i \in 0..Used(j) - 1, NEW h \in 0..Used(j) - 1, i < h
        PROVE  At(j, i) # At(j, h) /\ behind[At(j, i)] <= iteration'[At(j, h)]
    <3>1. At(j, i) # At(j, h) /\ behind[At(j, i)] <= iteration[At(j, h)]
      BY <2>1, <2>4 DEF RingInv
    <3>2. /\ behind[At(j, i)] \in Int /\ iteration[At(j, h)] \in Int
          /\ iteration'[At(j, h)] \in Int /\ iteration[At(j, h)] <= iteration'[At(j, h)]
      BY <1>3, <2>3
    <3> QED
      BY <3>1, <3>2
  <2> QED
    BY <1>2, <2>2, <2>3, <2>4
<1> QED
  BY <1>4, <1>5, <1>6

\* A step of a thread that leaves the ring and the posts alone keeps the turn,
\* when who comes to its section or for its next block owns the ring.
LEMMA WalksTurn ==
    ASSUME OrderedInv, NEW t \in Ring, NEW p, Walks(t, p), ring' = ring,
           ordered_release' = ordered_release, pos[t] # "own", p # "own",
           program.nthreads > 1 /\ p \in {"section", "next"} => Owns(t)
    PROVE  TurnInv'
<1> USE DEF OrderedInv
<1>1. /\ Loops' = Loops /\ Ring' = Ring /\ program' = program
      /\ pos'[t] = p /\ \A s \in Ring : s # t => pos'[s] = pos[s]
      /\ \A s \in Ring : IsHead(s)' <=> IsHead(s)
      /\ \A k \in Loops : Used(k)' = Used(k) /\ \A i : At(k, i)' = At(k, i)
  BY WalksFrame DEF Walks
<1>2. \A s \in Ring : Owns(s)' <=> Owns(s)
  BY <1>1 DEF Owns, Walks
<1> SUFFICES ASSUME program.nthreads > 1
             PROVE  /\ \A k \in Loops : ring[k].owner # -1 =>
                          Used(k) > 0 /\ At(k, 0) = ring[k].owner
                    /\ \A s \in Ring :
                          /\ pos'[s] \in {"section", "next"} => Owns(s)
                          /\ pos'[s] = "own" => IsHead(s) /\ ~Owns(s)
                          /\ ordered_release[s] =
                                IF IsHead(s) /\ ~Owns(s) /\ pos'[s] # "own" THEN 1 ELSE 0
  BY <1>1, <1>2 DEF TurnInv
<1>3. \A k \in Loops : ring[k].owner # -1 => Used(k) > 0 /\ At(k, 0) = ring[k].owner
  BY DEF TurnInv
<1>4. ASSUME NEW s \in Ring
      PROVE  /\ pos[s] \in {"section", "next"} => Owns(s)
             /\ pos[s] = "own" => IsHead(s) /\ ~Owns(s)
             /\ ordered_release[s] =
                   IF IsHead(s) /\ ~Owns(s) /\ pos[s] # "own" THEN 1 ELSE 0
  BY DEF TurnInv
<1> QED
  BY <1>1, <1>3, <1>4

\* What a thread that holds a block knows.
LEMMA HoldsBlock ==
    ASSUME OrderedInv, NEW t \in Ring, pos[t] \notin {"loop", "end"}
    PROVE  /\ inLoop[t] \in Loops /\ Has(t, inLoop[t])
           /\ iteration[t] \in Int /\ behind[t] \in Int /\ latest[inLoop[t]] \in Int
           /\ iteration[t] <= behind[t] /\ behind[t] <= ShareAt(inLoop[t]).next
           /\ AsksNext(t) \/ iteration[t] < behind[t]
           /\ IF pos[t] = "section" THEN latest[inLoop[t]] = iteration[t]
              ELSE latest[inLoop[t]] < iteration[t]
           /\ program.nthreads > 1 => /\ IsHead(t) <=> /\ Used(inLoop[t]) > 0
                                                      /\ At(inLoop[t], 0) = t
                                      /\ Owns(t) <=> ring[inLoop[t]].owner = t
                                      /\ Owns(t) => IsHead(t)
<1> USE DEF OrderedInv
<1>1. inLoop[t] \in Loops /\ Has(t, inLoop[t])
  BY DEF OrderedTypes, Has
<1>2. iteration[t] \in Int /\ behind[t] \in Int /\ latest[inLoop[t]] \in Int
  BY <1>1 DEF OrderedTypes
<1>3. /\ iteration[t] <= behind[t] /\ behind[t] <= ShareAt(inLoop[t]).next
      /\ AsksNext(t) \/ iteration[t] < behind[t]
      /\ IF pos[t] = "section" THEN latest[inLoop[t]] = iteration[t]
         ELSE latest[inLoop[t]] < iteration[t]
  BY <1>1 DEF BlocksInv
<1>4. ASSUME program.nthreads > 1
      PROVE  /\ IsHead(t) <=> Used(inLoop[t]) > 0 /\ At(inLoop[t], 0) = t
             /\ Owns(t) <=> ring[inLoop[t]].owner = t
             /\ Owns(t) => IsHead(t)
  <2>1. /\ IsHead(t) <=> Used(inLoop[t]) > 0 /\ At(inLoop[t], 0) = t
        /\ Owns(t) <=> ring[inLoop[t]].owner = t
    BY <1>1 DEF IsHead, Owns, Has
  <2>2. t # -1
    BY ProgramTypes
  <2> QED
    BY <1>1, <1>4, <2>1, <2>2 DEF TurnInv
<1> QED
  BY <1>1, <1>2, <1>3, <1>4

\* ++iteration, and then the next iteration or the next block.
LEMMA AdvanceKeeps ==
    ASSUME OrderedInv, NEW t \in Ring, pos[t] \in {"body", "section"}, Advance(t)
    PROVE  OrderedInv'
<1> DEFINE p == IF iteration[t] + 1 < behind[t] THEN "body" ELSE "sync"
           k == inLoop[t]
<1> USE DEF OrderedInv
<1>1. /\ k \in Loops /\ iteration[t] \in Int /\ behind[t] \in Int /\ latest[k] \in Int
      /\ iteration[t] < behind[t] /\ latest[k] <= iteration[t]
  <2>1. ~AsksNext(t)
    BY DEF AsksNext
  <2> QED
    BY <2>1, HoldsBlock
<1>2. /\ iteration'[t] = iteration[t] + 1 /\ iteration' \in [Ring -> Int]
      /\ \A s \in Ring : s # t => iteration'[s] = iteration[s]
  BY <1>1 DEF Advance, OrderedTypes
<1>3. /\ then' \in [Ring -> {"none", "section", "next"}]
      /\ \A s \in Ring : s # t => then'[s] = then[s]
      /\ p = "sync" => then'[t] = "next"
      /\ pos' = [pos EXCEPT ![t] = p]
  BY DEF Advance, Call, OrderedTypes
<1>4. Walks(t, p)
  <2>1. iteration[t] <= iteration'[t] /\ iteration'[t] <= behind[t]
    BY <1>1, <1>2
  <2>2. ordered_release' \in [Ring -> Nat] /\ ring' \in [Loops -> Rings(program.nthreads)]
    BY DEF Advance, OrderedTypes
  <2>3. pos[t] \notin {"loop", "end"} /\ p \in Positions \ {"loop", "end"}
    BY DEF Positions
  <2> QED
    BY <1>2, <1>3, <2>1, <2>2, <2>3 DEF Walks, Advance
<1>5. pos'[t] = p /\ latest' = latest /\ ring' = ring /\ ordered_release' = ordered_release
  BY <1>3 DEF Advance, OrderedTypes
<1>6. AsksNext(t)' \/ iteration'[t] < behind[t]
  BY <1>1, <1>2, <1>3, <1>5 DEF AsksNext
<1>7. p \notin {"section", "own", "next"} /\ pos[t] # "own"
  OBVIOUS
<1>8. latest'[k] < iteration'[t] /\ latest' \in [Loops -> Int]
  BY <1>1, <1>2, <1>5 DEF OrderedTypes
<1> HIDE DEF p
<1>9. OrderedTypes' /\ BlocksInv' /\ RingInv'
  BY <1>4, <1>5, <1>6, <1>7, <1>8, WalksKeep
<1>10. TurnInv'
  BY <1>4, <1>5, <1>7, WalksTurn
<1> QED
  BY <1>9, <1>10

\* GOMP_ordered_start calls gomp_ordered_sync.
LEMMA OrderedStartKeeps ==
    ASSUME OrderedInv, NEW t \in Ring, OrderedStart(t)
    PROVE  OrderedInv'
<1> USE DEF OrderedInv
<1>1. /\ inLoop[t] \in Loops /\ iteration[t] \in Int /\ behind[t] \in Int
      /\ iteration[t] < behind[t] /\ latest[inLoop[t]] < iteration[t]
  <2>1. pos[t] = "body" /\ ~AsksNext(t)
    BY DEF AsksNext, OrderedStart
  <2> QED
    BY <2>1, HoldsBlock
<1>2. /\ then' \in [Ring -> {"none", "section", "next"}] /\ then'[t] = "section"
      /\ \A s \in Ring : s # t => then'[s] = then[s]
      /\ pos' = [pos EXCEPT ![t] = "sync"] /\ pos'[t] = "sync"
      /\ iteration' = iteration /\ latest' = latest /\ ring' = ring
      /\ ordered_release' = ordered_release
  BY DEF OrderedStart, Call, OrderedTypes
<1>3. Walks(t, "sync")
  <2>1. iteration[t] <= iteration[t] /\ iteration[t] <= behind[t]
    BY <1>1
  <2> QED
    BY <1>2, <2>1 DEF Walks, OrderedStart, OrderedTypes, Positions
<1>4. pos[t] # "own" /\ latest' \in [Loops -> Int]
  BY <1>2 DEF OrderedStart, OrderedTypes
<1>5. OrderedTypes' /\ BlocksInv' /\ RingInv'
  BY <1>1, <1>2, <1>3, <1>4, WalksKeep
<1>6. TurnInv'
  BY <1>2, <1>3, <1>4, WalksTurn
<1> QED
  BY <1>5, <1>6

\* gomp_ordered_sync returns to a thread that is alone or at the head of the ring.
LEMMA Returns ==
    ASSUME OrderedInv, NEW t \in Ring, pos[t] \in {"sync", "own"}, Return(t),
           program.nthreads > 1 => IsHead(t),
           UNCHANGED <<program, inLoop, iteration, behind, then, trip, wshare,
                       ordered_release>>,
           ring' \in [Loops -> Rings(program.nthreads)],
           \A k \in Loops : /\ ring'[k].cur = ring[k].cur
                            /\ ring'[k].num_used = ring[k].num_used
                            /\ ring'[k].team_ids = ring[k].team_ids
    PROVE  /\ Walks(t, then[t]) /\ then[t] \in {"section", "next"}
           /\ OrderedTypes' /\ BlocksInv' /\ RingInv'
<1> DEFINE k == inLoop[t]
<1> USE DEF OrderedInv
<1>1. /\ k \in Loops /\ iteration[t] \in Int /\ behind[t] \in Int /\ latest[k] \in Int
      /\ iteration[t] <= behind[t]
      /\ AsksNext(t) \/ iteration[t] < behind[t]
      /\ latest[k] < iteration[t]
  BY HoldsBlock
<1>2. then[t] \in {"section", "next"}
  BY DEF OrderedTypes
<1>3. Walks(t, then[t])
  <2>1. iteration[t] <= iteration[t] /\ iteration[t] <= behind[t]
    BY <1>1
  <2>2. pos' = [pos EXCEPT ![t] = then[t]]
    BY DEF Return
  <2>3. /\ iteration' = iteration /\ then' = then /\ ordered_release' = ordered_release
        /\ UNCHANGED <<program, inLoop, behind, wshare>>
    OBVIOUS
  <2>4. /\ iteration \in [Ring -> Int] /\ then \in [Ring -> {"none", "section", "next"}]
        /\ ordered_release \in [Ring -> Nat]
    BY DEF OrderedTypes
  <2>5. /\ pos[t] \notin {"loop", "end"} /\ then[t] \in Positions \ {"loop", "end"}
        /\ then[t] # "none"
    BY <1>2 DEF Positions
  <2> QED
    BY <2>1, <2>2, <2>3, <2>4, <2>5 DEF Walks
<1>4. /\ latest' \in [Loops -> Int]
      /\ \A j \in Loops : j # k => latest'[j] = latest[j]
      /\ latest'[k] = IF then[t] = "section" THEN iteration[t] ELSE latest[k]
  BY <1>1 DEF Return, OrderedTypes
<1>5. pos'[t] = then[t] /\ iteration'[t] = iteration[t]
  BY DEF Return, OrderedTypes
<1>6. AsksNext(t) <=> then[t] = "next"
  BY DEF AsksNext
<1>7. AsksNext(t)' \/ iteration'[t] < behind[t]
  BY <1>1, <1>5, <1>6 DEF AsksNext
<1>8. latest'[k] # latest[k] => latest'[k] < behind[t]
  BY <1>1, <1>2, <1>4, <1>6
<1>9. IF then[t] = "section" THEN latest'[k] = iteration'[t] ELSE latest'[k] < iteration'[t]
  BY <1>1, <1>4, <1>5
<1>10. OrderedTypes' /\ BlocksInv' /\ RingInv'
  BY <1>3, <1>4, <1>7, <1>8, <1>9, WalksKeep
<1> QED
  BY <1>2, <1>3, <1>10

\* gomp_ordered_sync finds that the thread owns the ring, or has it wait.
LEMMA SyncCheckKeeps ==
    ASSUME OrderedInv, NEW t \in Ring, SyncCheck(t)
    PROVE  OrderedInv'
<1> USE DEF OrderedInv
<1>1. /\ inLoop[t] \in Loops /\ iteration[t] \in Int /\ behind[t] \in Int
      /\ iteration[t] <= behind[t]
      /\ AsksNext(t) \/ iteration[t] < behind[t]
      /\ latest[inLoop[t]] < iteration[t]
      /\ program.nthreads > 1 => /\ Owns(t) <=> ring[inLoop[t]].owner = t
                                 /\ Owns(t) => IsHead(t)
  BY HoldsBlock DEF SyncCheck
<1>2. program.nthreads = 1 => ~(program.nthreads > 1)
  OBVIOUS
<1>3. pos[t] = "sync" /\ ring' = ring /\ ring \in [Loops -> Rings(program.nthreads)]
      /\ ordered_release' = ordered_release
  BY DEF SyncCheck, OrderedTypes
<1>4. CASE program.nthreads = 1 \/ ring[inLoop[t]].owner = t
  <2>1. Return(t) /\ (program.nthreads > 1 => Owns(t) /\ IsHead(t))
    BY <1>1, <1>2, <1>4 DEF SyncCheck
  <2>2. /\ Walks(t, then[t]) /\ then[t] \in {"section", "next"}
        /\ OrderedTypes' /\ BlocksInv' /\ RingInv'
    BY <1>3, <2>1, Returns DEF SyncCheck
  <2>3. TurnInv'
    BY <1>3, <2>1, <2>2, WalksTurn
  <2> QED
    BY <2>2, <2>3
<1>5. CASE ~(program.nthreads = 1 \/ ring[inLoop[t]].owner = t)
  <2>1. /\ pos' = [pos EXCEPT ![t] = "wait"] /\ pos'[t] = "wait" /\ latest' = latest
        /\ iteration' = iteration /\ then' = then /\ then[t] # "none"
    BY <1>5 DEF SyncCheck, OrderedTypes
  <2>2. Walks(t, "wait")
    <3>1. iteration[t] <= iteration[t] /\ iteration[t] <= behind[t]
      BY <1>1
    <3> QED
      BY <1>3, <2>1, <3>1 DEF Walks, SyncCheck, OrderedTypes, Positions
  <2>3. AsksNext(t)' \/ iteration'[t] < behind[t]
    BY <1>1, <1>3, <2>1 DEF AsksNext
  <2>4. latest' \in [Loops -> Int]
    BY <2>1 DEF OrderedTypes
  <2>5. OrderedTypes' /\ BlocksInv' /\ RingInv'
    BY <1>1, <2>1, <2>2, <2>3, <2>4, WalksKeep
  <2>6. TurnInv'
    BY <1>3, <2>2, WalksTurn
  <2> QED
    BY <2>5, <2>6
<1> QED
  BY <1>4, <1>5

\* It takes its post.
LEMMA SyncWaitKeeps ==
    ASSUME OrderedInv, NEW t \in Ring, SyncWait(t)
    PROVE  OrderedInv'
<1> USE DEF OrderedInv
<1>1. /\ inLoop[t] \in Loops /\ iteration[t] \in Int /\ behind[t] \in Int
      /\ iteration[t] <= behind[t]
      /\ AsksNext(t) \/ iteration[t] < behind[t]
      /\ latest[inLoop[t]] < iteration[t]
  BY HoldsBlock DEF SyncWait
<1>2. /\ pos[t] = "wait" /\ pos' = [pos EXCEPT ![t] = "own"] /\ pos'[t] = "own"
      /\ latest' = latest /\ iteration' = iteration /\ then' = then /\ then[t] # "none"
      /\ ring' = ring
  BY DEF SyncWait, OrderedTypes
<1>3. /\ ordered_release[t] > 0 /\ ordered_release'[t] = ordered_release[t] - 1
      /\ ordered_release' \in [Ring -> Nat]
      /\ \A s \in Ring : s # t => ordered_release'[s] = ordered_release[s]
  BY DEF SyncWait, OrderedTypes
<1>4. Walks(t, "own")
  <2>1. iteration[t] <= iteration[t] /\ iteration[t] <= behind[t]
    BY <1>1
  <2> QED
    BY <1>2, <1>3, <2>1 DEF Walks, SyncWait, OrderedTypes, Positions
<1>5. AsksNext(t)' \/ iteration'[t] < behind[t]
  BY <1>1, <1>2 DEF AsksNext
<1>6. latest' \in [Loops -> Int]
  BY <1>2 DEF OrderedTypes
<1>7. OrderedTypes' /\ BlocksInv' /\ RingInv'
  BY <1>1, <1>2, <1>4, <1>5, <1>6, WalksKeep
<1>8. TurnInv'
  <2>1. /\ Loops' = Loops /\ Ring' = Ring /\ program' = program
        /\ \A s \in Ring : s # t => pos'[s] = pos[s]
        /\ \A s \in Ring : IsHead(s)' <=> IsHead(s)
        /\ \A k \in Loops : Used(k)' = Used(k) /\ \A i : At(k, i)' = At(k, i)
    BY <1>4, WalksFrame DEF Walks
  <2>2. \A s \in Ring : Owns(s)' <=> Owns(s)
    BY <1>2, <1>4, <2>1 DEF Owns, Walks
  <2> SUFFICES ASSUME program.nthreads > 1
               PROVE  /\ \A k \in Loops : ring[k].owner # -1 =>
                            Used(k) > 0 /\ At(k, 0) = ring[k].owner
                      /\ \A s \in Ring :
                            /\ pos'[s] \in {"section", "next"} => Owns(s)
                            /\ pos'[s] = "own" => IsHead(s) /\ ~Owns(s)
                            /\ ordered_release'[s] =
                                  IF IsHead(s) /\ ~Owns(s) /\ pos'[s] # "own" THEN 1 ELSE 0
    BY <1>2, <2>1, <2>2 DEF TurnInv
  <2>3. \A k \in Loops : ring[k].owner # -1 => Used(k) > 0 /\ At(k, 0) = ring[k].owner
    BY DEF TurnInv
  <2>4. ASSUME NEW s \in Ring
        PROVE  /\ pos[s] \in {"section", "next"} => Owns(s)
               /\ pos[s] = "own" => IsHead(s) /\ ~Owns(s)
               /\ ordered_release[s] =
                     IF IsHead(s) /\ ~Owns(s) /\ pos[s] # "own" THEN 1 ELSE 0
    BY DEF TurnInv
  <2>5. IsHead(t) /\ ~Owns(t) /\ ordered_release'[t] = 0
    BY <1>2, <1>3, <2>4
  <2> QED
    BY <1>2, <1>3, <2>1, <2>3, <2>4, <2>5
<1> QED
  BY <1>7, <1>8

\* share->ordered_owner = team_id
LEMMA SyncOwnKeeps ==
    ASSUME OrderedInv, NEW t \in Ring, SyncOwn(t)
    PROVE  OrderedInv'
<1> DEFINE k == inLoop[t]
<1> USE DEF OrderedInv
<1>1. pos[t] = "own" /\ ring' = [ring EXCEPT ![k].owner = t] /\ Return(t)
      /\ UNCHANGED <<program, inLoop, iteration, behind, then, trip, wshare,
                     ordered_release>>
  BY DEF SyncOwn
<1>2. /\ k \in Loops
      /\ program.nthreads > 1 => /\ IsHead(t) <=> Used(k) > 0 /\ At(k, 0) = t
                                 /\ Owns(t) <=> ring[k].owner = t
  BY <1>1, HoldsBlock
<1>3. program.nthreads > 1 => IsHead(t) /\ ~Owns(t)
  BY <1>1 DEF TurnInv
<1>4. /\ ring' \in [Loops -> Rings(program.nthreads)]
      /\ \A j \in Loops : /\ ring'[j].cur = ring[j].cur
                          /\ ring'[j].num_used = ring[j].num_used
                          /\ ring'[j].team_ids = ring[j].team_ids
                          /\ ring'[j].owner = IF j = k THEN t ELSE ring[j].owner
  <2> DEFINE r == [ring[k] EXCEPT !.owner = t]
  <2>1. ring \in [Loops -> Rings(program.nthreads)]
    BY DEF OrderedTypes
  <2>2. r \in Rings(program.nthreads)
    <3>1. ring[k] \in Rings(program.nthreads) /\ t \in -1..program.nthreads - 1
      BY <1>2, <2>1, ProgramTypes
    <3> HIDE DEF k
    <3> QED
      BY <3>1 DEF Rings
  <2>3. /\ r.cur = ring[k].cur /\ r.num_used = ring[k].num_used
        /\ r.team_ids = ring[k].team_ids /\ r.owner = t
    <3>1. ring[k] \in Rings(program.nthreads)
      BY <1>2, <2>1
    <3> HIDE DEF k
    <3> QED
      BY <3>1 DEF Rings
  <2> HIDE DEF r
  <2>4. ring' = [ring EXCEPT ![k] = r]
    BY <1>1 DEF r
  <2> QED
    BY <1>2, <2>1, <2>2, <2>3, <2>4
<1>5. /\ Walks(t, then[t]) /\ then[t] \in {"section", "next"}
      /\ OrderedTypes' /\ BlocksInv' /\ RingInv'
  BY <1>1, <1>3, <1>4, Returns
<1>6. TurnInv'
  <2>1. /\ Loops' = Loops /\ Ring' = Ring /\ program' = program /\ inLoop' = inLoop
        /\ pos'[t] = then[t] /\ \A s \in Ring : s # t => pos'[s] = pos[s]
        /\ \A s \in Ring : IsHead(s)' <=> IsHead(s)
        /\ \A j \in Loops : Used(j)' = Used(j) /\ \A i : At(j, i)' = At(j, i)
    BY <1>5, WalksFrame DEF Walks
  <2> SUFFICES ASSUME program.nthreads > 1
               PROVE  /\ \A j \in Loops : ring'[j].owner # -1 =>
                            Used(j) > 0 /\ At(j, 0) = ring'[j].owner
                      /\ \A s \in Ring :
                            /\ pos'[s] \in {"section", "next"} => Owns(s)'
                            /\ pos'[s] = "own" => IsHead(s) /\ ~Owns(s)'
                            /\ ordered_release[s] =
                                  IF IsHead(s) /\ ~Owns(s)' /\ pos'[s] # "own" THEN 1 ELSE 0
    BY <1>1, <2>1 DEF TurnInv
  <2>2. /\ \A j \in Loops : ring[j].owner # -1 => Used(j) > 0 /\ At(j, 0) = ring[j].owner
        /\ \A s \in Ring : /\ pos[s] \in {"section", "next"} => Owns(s)
                           /\ pos[s] = "own" => IsHead(s) /\ ~Owns(s)
                           /\ ordered_release[s] =
                                 IF IsHead(s) /\ ~Owns(s) /\ pos[s] # "own" THEN 1 ELSE 0
    BY DEF TurnInv
  <2>3. ring[k].owner = -1 /\ IsHead(t) /\ Used(k) > 0 /\ At(k, 0) = t
    BY <1>2, <1>3, <2>2
  <2>4. Owns(t)' /\ ordered_release[t] = 0
    BY <1>1, <1>2, <1>4, <2>1, <2>2 DEF Owns
  <2>5. ASSUME NEW s \in Ring, s # t PROVE Owns(s)' <=> Owns(s)
    <3>1. s # -1
      BY ProgramTypes
    <3> QED
      BY <1>4, <2>1, <2>3, <2>5, <3>1 DEF Owns
  <2>6. \A j \in Loops : ring'[j].owner # -1 => Used(j) > 0 /\ At(j, 0) = ring'[j].owner
    BY <1>4, <2>2, <2>3
  <2> QED
    BY <1>5, <2>1, <2>2, <2>4, <2>5, <2>6
<1> QED
  BY <1>5, <1>6

(* Blocks, from the start of a loop to its end.                            *)

\* A thread that holds no block goes on and stays without one.
LEMMA OutsideKeeps ==
    ASSUME OrderedInv, NEW t \in Ring, NEW p, pos[t] \in {"loop", "end"},
           p \in {"loop", "end"}, pos' = [pos EXCEPT ![t] = p],
           inLoop' \in [Ring -> Nat \ {0}], p = "end" => inLoop'[t] \in Loops,
           \A s \in Ring : s # t => inLoop'[s] = inLoop[s],
           UNCHANGED <<program, iteration, behind, then, ring, ordered_release, latest>>,
           DOMAIN wshare' = Loops,
           \A k \in Loops : ShareAt(k)' = ShareAt(k)
    PROVE  OrderedInv'
<1> USE DEF OrderedInv
<1>1. /\ Loops' = Loops /\ Ring' = Ring /\ \A k \in Loops : FirstOf(k)' = FirstOf(k)
      /\ pos' \in [Ring -> Positions] /\ pos'[t] = p
      /\ \A s \in Ring : s # t => pos'[s] = pos[s]
  BY DEF Loops, Ring, FirstOf, OrderedTypes, Positions
<1>2. \A s \in Ring, k \in Loops : Has(s, k)' <=> Has(s, k)
  BY <1>1 DEF Has
<1>3. \A k \in Loops : Used(k)' = Used(k) /\ \A i : At(k, i)' = At(k, i)
  BY DEF Used, At, Nth, Behind
<1>4. OrderedTypes'
  <2>1. \A k \in Loops : /\ ShareAt(k)'.next \in 0..FirstOf(k)'.end
                         /\ ShareAt(k)' = [FirstOf(k)' EXCEPT !.next = ShareAt(k)'.next]
    BY <1>1 DEF OrderedTypes
  <2>2. \A s \in Ring : pos'[s] # "loop" => inLoop'[s] \in Loops
    BY <1>1 DEF OrderedTypes
  <2>3. \A s \in Ring : pos'[s] \in {"sync", "wait", "own"} => then'[s] # "none"
    BY <1>1 DEF OrderedTypes
  <2> QED
    BY <1>1, <2>1, <2>2, <2>3 DEF OrderedTypes
<1>5. \A s \in Ring, k \in Loops : Has(s, k) => s # t
  BY DEF Has
<1>6. \A s \in Ring : s # t => (AsksNext(s)' <=> AsksNext(s))
  BY <1>1 DEF AsksNext
<1>7. BlocksInv'
  BY <1>1, <1>2, <1>5, <1>6 DEF BlocksInv
<1>8. RingInv'
  <2>1. \A k \in Loops : \A i \in 0..Used(k) - 1 : At(k, i) \in Ring
    BY AtRing
  <2> QED
    BY <1>1, <1>2, <1>3, <2>1 DEF RingInv
<1>9. TurnInv'
  <2>1. \A s \in Ring : IsHead(s)' <=> IsHead(s)
    BY <1>1, <1>2, <1>3 DEF IsHead
  <2>2. \A s \in Ring : s # t => (Owns(s)' <=> Owns(s))
    BY <1>1 DEF Owns
  <2>3. ~IsHead(t)
    BY <1>5 DEF IsHead
  <2> SUFFICES ASSUME program.nthreads > 1
               PROVE  /\ \A k \in Loops : ring[k].owner # -1 =>
                            Used(k) > 0 /\ At(k, 0) = ring[k].owner
                      /\ \A s \in Ring :
                            /\ pos'[s] \in {"section", "next"} => Owns(s)'
                            /\ pos'[s] = "own" => IsHead(s) /\ ~Owns(s)'
                            /\ ordered_release[s] =
                                  IF IsHead(s) /\ ~Owns(s)' /\ pos'[s] # "own" THEN 1 ELSE 0
    BY <1>1, <1>3, <2>1 DEF TurnInv
  <2>4. /\ \A k \in Loops : ring[k].owner # -1 => Used(k) > 0 /\ At(k, 0) = ring[k].owner
        /\ \A s \in Ring : /\ pos[s] \in {"section", "next"} => Owns(s)
                           /\ pos[s] = "own" => IsHead(s) /\ ~Owns(s)
                           /\ ordered_release[s] =
                                 IF IsHead(s) /\ ~Owns(s) /\ pos[s] # "own" THEN 1 ELSE 0
    BY DEF TurnInv
  <2>5. ordered_release[t] = 0
    BY <2>3, <2>4
  <2> QED
    BY <1>1, <2>2, <2>3, <2>4, <2>5
<1> QED
  BY <1>4, <1>7, <1>8, <1>9

\* The end of a loop.
LEMMA LoopEndKeeps ==
    ASSUME OrderedInv, NEW t \in Ring, OrderedLoopEnd(t)
    PROVE  OrderedInv'
<1>1. /\ inLoop' \in [Ring -> Nat \ {0}]
      /\ \A s \in Ring : s # t => inLoop'[s] = inLoop[s]
  BY DEF OrderedLoopEnd, OrderedInv, OrderedTypes
<1>2. \A k \in Loops : ShareAt(k)' = ShareAt(k)
  BY DEF OrderedLoopEnd, ShareAt, FirstOf
<1>3. DOMAIN wshare' = Loops
  BY DEF OrderedLoopEnd, OrderedInv, OrderedTypes
<1>4. /\ pos[t] = "end" /\ pos' = [pos EXCEPT ![t] = "loop"]
      /\ UNCHANGED <<program, iteration, behind, then, ring, ordered_release, latest>>
  BY DEF OrderedLoopEnd
<1> QED
  BY <1>1, <1>2, <1>3, <1>4, OutsideKeeps

\* A thread takes the next block of its loop.
LEMMA TakesBlock ==
    ASSUME OrderedInv, NEW t \in Ring, NEW k \in Loops, k = inLoop[t],
           ShareAt(k).next # ShareAt(k).end, HoldNext(t, ShareAt(k)),
           UNCHANGED <<program, inLoop, then, latest>>,
           ring' \in [Loops -> Rings(program.nthreads)], ordered_release' \in [Ring -> Nat]
    PROVE  /\ OrderedTypes' /\ BlocksInv' /\ Loops' = Loops /\ Ring' = Ring
           /\ pos'[t] = "body" /\ Has(t, k)'
           /\ \A j \in Loops : j # k => ~Has(t, j)'
           /\ \A s \in Ring : s # t => /\ pos'[s] = pos[s] /\ iteration'[s] = iteration[s]
                                       /\ behind'[s] = behind[s]
                                       /\ \A j \in Loops : Has(s, j)' <=> Has(s, j)
           /\ \A s \in Ring : Has(s, k) => behind[s] <= iteration'[t]
<1> DEFINE sh == ShareAt(k)
           b == NextBlock(sh)
<1> USE DEF OrderedInv
<1>1. /\ sh.next \in Int /\ sh.next >= 0 /\ b \in Int /\ b >= 0 /\ sh.next < b
      /\ b \in 0..FirstOf(k).end
  <2>1. /\ sh.next \in 0..sh.end /\ sh.end = FirstOf(k).end /\ sh.end \in 0..LONG_MAX
        /\ b \in sh.next + 1..sh.end
    BY Shares
  <2> HIDE DEF sh, b
  <2> QED
    BY <2>1, Words
<1>2. /\ pos' = [pos EXCEPT ![t] = "body"] /\ iteration' = [iteration EXCEPT ![t] = sh.next]
      /\ behind' = [behind EXCEPT ![t] = b]
      /\ wshare' = [wshare EXCEPT ![k] = [sh EXCEPT !.next = b]]
  BY DEF HoldNext, Hold
<1> HIDE DEF b
<1>3. /\ DOMAIN wshare' = Loops /\ Loops' = Loops /\ Ring' = Ring
      /\ \A j \in Loops :
            /\ FirstOf(j)' = FirstOf(j)
            /\ ShareAt(j)'.next = IF j = k THEN b ELSE ShareAt(j).next
            /\ ShareAt(j)'.next \in 0..FirstOf(j)'.end
            /\ ShareAt(j)' = [FirstOf(j)' EXCEPT !.next = ShareAt(j)'.next]
  BY <1>1, <1>2, SharesMove
<1> HIDE DEF sh
<1>4. /\ pos' \in [Ring -> Positions] /\ pos'[t] = "body"
      /\ iteration' \in [Ring -> Int] /\ iteration'[t] = sh.next
      /\ behind' \in [Ring -> Int] /\ behind'[t] = b
      /\ \A s \in Ring : s # t => /\ pos'[s] = pos[s] /\ iteration'[s] = iteration[s]
                                  /\ behind'[s] = behind[s]
  BY <1>1, <1>2 DEF OrderedTypes, Positions
<1>5. /\ Has(t, k)' /\ \A j \in Loops : j # k => ~Has(t, j)'
      /\ \A s \in Ring : s # t => \A j \in Loops : Has(s, j)' <=> Has(s, j)
  BY <1>4 DEF Has
<1>6. OrderedTypes'
  <2>1. \A s \in Ring : pos'[s] # "loop" => inLoop'[s] \in Loops
    BY <1>4 DEF OrderedTypes
  <2>2. \A s \in Ring : pos'[s] \in {"sync", "wait", "own"} => then'[s] # "none"
    BY <1>4 DEF OrderedTypes
  <2> QED
    BY <1>3, <1>4, <2>1, <2>2 DEF OrderedTypes
<1>7. /\ latest[k] \in Int /\ latest[k] < sh.next
      /\ \A s \in Ring : Has(s, k) => behind[s] <= sh.next /\ behind[s] \in Int
  BY DEF BlocksInv, OrderedTypes, sh
<1>8. BlocksInv'
  <2> SUFFICES ASSUME NEW j \in Loops
               PROVE  /\ latest[j] < ShareAt(j)'.next
                      /\ \A s \in Ring : Has(s, j)' =>
                            /\ iteration'[s] <= behind'[s] /\ behind'[s] <= ShareAt(j)'.next
                            /\ AsksNext(s)' \/ iteration'[s] < behind'[s]
                            /\ IF pos'[s] = "section" THEN latest[j] = iteration'[s]
                               ELSE latest[j] < iteration'[s]
    BY <1>3 DEF BlocksInv
  <2>1. /\ latest[j] < ShareAt(j).next
        /\ \A s \in Ring : Has(s, j) =>
              /\ iteration[s] <= behind[s] /\ behind[s] <= ShareAt(j).next
              /\ AsksNext(s) \/ iteration[s] < behind[s]
              /\ IF pos[s] = "section" THEN latest[j] = iteration[s]
                 ELSE latest[j] < iteration[s]
    BY DEF BlocksInv
  <2>2. latest[j] < ShareAt(j)'.next
    BY <1>1, <1>3, <1>7, <2>1
  <2>3. ASSUME NEW s \in Ring, Has(s, j)'
        PROVE  /\ iteration'[s] <= behind'[s] /\ behind'[s] <= ShareAt(j)'.next
               /\ AsksNext(s)' \/ iteration'[s] < behind'[s]
               /\ IF pos'[s] = "section" THEN latest[j] = iteration'[s]
                  ELSE latest[j] < iteration'[s]
    <3>1. CASE s = t
      <4>1. j = k
        BY <1>5, <2>3, <3>1
      <4> QED
        BY <1>1, <1>3, <1>4, <1>7, <3>1, <4>1
    <3>2. CASE s # t
      <4>1. Has(s, j) /\ (AsksNext(s)' <=> AsksNext(s))
        BY <1>4, <1>5, <2>3, <3>2 DEF AsksNext
      <4>2. behind[s] <= ShareAt(j)'.next
        <5>1. CASE j = k
          BY <1>1, <1>3, <1>7, <4>1, <5>1
        <5>2. CASE j # k
          BY <1>3, <2>1, <4>1, <5>2
        <5> QED
          BY <5>1, <5>2
      <4> QED
        BY <1>4, <2>1, <3>2, <4>1, <4>2
    <3> QED
      BY <3>1, <3>2
  <2> QED
    BY <2>2, <2>3
<1> QED
  BY <1>3, <1>4, <1>5, <1>6, <1>7, <1>8

\* One ring changes.
LEMMA OneRing ==
    ASSUME OrderedTypes, NEW k \in Loops, NEW r \in Rings(program.nthreads),
           ring' = [ring EXCEPT ![k] = r], program' = program
    PROVE  /\ ring' \in [Loops -> Rings(program.nthreads)]
           /\ ring'[k] = r /\ Used(k)' = r.num_used
           /\ \A i : At(k, i)' = Nth(r, i, program.nthreads)
           /\ \A j \in Loops : j # k => /\ ring'[j] = ring[j] /\ Used(j)' = Used(j)
                                        /\ \A i : At(j, i)' = At(j, i)
           /\ r.team_ids[r.cur] = Nth(r, 0, program.nthreads)
<1>1. PICK n \in Nat \ {0} : n = program.nthreads
  BY ProgramTypes
<1>2. PICK c \in 0..n - 1 : c = r.cur
  BY <1>1, RingFields
<1>3. (c + 0) % n = c
  BY <1>2, Neighbour
<1>4. r.team_ids[r.cur] = Nth(r, 0, n)
  BY <1>2, <1>3 DEF Nth, Behind
<1>5. /\ ring' \in [Loops -> Rings(program.nthreads)] /\ ring'[k] = r
      /\ \A j \in Loops : j # k => ring'[j] = ring[j]
  BY DEF OrderedTypes
<1> QED
  BY <1>1, <1>4, <1>5 DEF Used, At

\* Without a team there is no ring to look after.
LEMMA AloneKeeps ==
    ASSUME OrderedTypes, program.nthreads = 1, program' = program
    PROVE  RingInv' /\ TurnInv'
<1>1. ~(program'.nthreads > 1)
  OBVIOUS
<1> QED
  BY <1>1 DEF RingInv, TurnInv

\* The first block of a thread: gomp_loop_ordered_dynamic_start,
\* gomp_loop_ordered_guided_start.
LEMMA QueueStartKeeps ==
    ASSUME OrderedInv, NEW t \in Ring, QueueStart(t)
    PROVE  OrderedInv'
<1> USE DEF OrderedInv
<1>0. PICK k \in Loops : k = inLoop[t]
  <2>1. inLoop[t] \in Nat \ {0} /\ program.length \in Nat /\ Loops = 1..program.length
    BY ProgramTypes DEF OrderedTypes
  <2>2. inLoop[t] <= program.length
    BY DEF QueueStart
  <2> QED
    BY <2>1, <2>2
<1> DEFINE sh == ShareAt(k)
           n == program.nthreads
<1>1. k = inLoop[t] /\ pos[t] = "loop" /\ Share(t) = sh
  BY <1>0 DEF Share, ShareAt, FirstOf, LoopOf, QueueStart
<1>2. UNCHANGED <<program, inLoop, then, trip, latest>>
  BY DEF QueueStart
<1>3. CASE /\ sh.next = sh.end /\ NoMore(t) /\ wshare' = [wshare EXCEPT ![k] = sh]
           /\ UNCHANGED <<ring, ordered_release>>
  <2>1. sh = [sh EXCEPT !.next = sh.next] /\ sh.next \in 0..FirstOf(k).end
    <3>1. PICK y : sh = [FirstOf(k) EXCEPT !.next = y] /\ y = sh.next
      BY <1>1 DEF OrderedTypes
    <3>2. sh.next \in 0..FirstOf(k).end
      BY <1>1 DEF OrderedTypes
    <3> HIDE DEF sh
    <3> QED
      BY <3>1, <3>2
  <2>2. PICK x \in 0..FirstOf(k).end : x = sh.next
    BY <2>1
  <2>3. /\ DOMAIN wshare' = Loops
        /\ \A j \in Loops : ShareAt(j)' = IF j = k THEN [ShareAt(k) EXCEPT !.next = x]
                                         ELSE ShareAt(j)
    <3>1. wshare' = [wshare EXCEPT ![k] = [ShareAt(k) EXCEPT !.next = x]]
      BY <1>3, <2>1, <2>2
    <3>2. OrderedTypes /\ program' = program
      BY <1>2
    <3> QED
      BY <3>1, <3>2, SharesMove
  <2>4. \A j \in Loops : ShareAt(j)' = ShareAt(j)
    BY <2>1, <2>2, <2>3
  <2>5. inLoop' \in [Ring -> Nat \ {0}] /\ inLoop'[t] \in Loops
    BY <1>1, <1>2 DEF OrderedTypes
  <2>6. pos' = [pos EXCEPT ![t] = "end"] /\ UNCHANGED <<iteration, behind>>
    BY <1>3 DEF NoMore
  <2>7. \A s \in Ring : inLoop'[s] = inLoop[s]
    BY <1>2
  <2> QED
    BY <1>1, <1>2, <1>3, <2>3, <2>4, <2>5, <2>6, <2>7, OutsideKeeps
<1>4. CASE /\ sh.next # sh.end /\ HoldNext(t, sh)
           /\ n = 1 /\ UNCHANGED <<ring, ordered_release>>
  <2>1. ring' \in [Loops -> Rings(n)] /\ ordered_release' \in [Ring -> Nat]
    BY <1>4 DEF OrderedTypes
  <2>2. OrderedTypes' /\ BlocksInv'
    BY <1>1, <1>2, <1>4, <2>1, TakesBlock
  <2>3. RingInv' /\ TurnInv'
    BY <1>2, <1>4, AloneKeeps
  <2> QED
    BY <2>2, <2>3
<1>5. CASE /\ sh.next # sh.end /\ HoldNext(t, sh) /\ n # 1
           /\ ring' = [ring EXCEPT ![k] = Enqueue(@, t, n)]
           /\ IF ring[k].num_used = 0 THEN Post(t) ELSE UNCHANGED ordered_release
  <2> DEFINE r == Enqueue(ring[k], t, n)
  <2>1. n \in Nat /\ n > 1 /\ Ring = 0..n - 1
    BY <1>5, ProgramTypes
  <2>2. \A j \in Loops : ~Has(t, j)
    BY <1>1 DEF Has
  <2>3. PICK u \in Nat : ring[k] \in Rings(n) /\ u = Used(k) /\ u < n
    <3>1. Used(k) \in 0..n /\ ring[k] \in Rings(n)
      BY <1>1, AtRing
    <3>2. Used(k) < n
      BY <1>1, <2>1, <2>2, RoomInRing
    <3> QED
      BY <2>1, <3>1, <3>2
  <2>4. /\ r \in Rings(n) /\ r.num_used = u + 1 /\ r.owner = ring[k].owner
        /\ \A i \in 0..u - 1 : Nth(r, i, n) = At(k, i)
        /\ Nth(r, u, n) = t
    <3>1. n \in Nat \ {0} /\ t \in 0..n - 1 /\ ring[k].num_used < n
      BY <2>1, <2>3 DEF Used
    <3> HIDE DEF n
    <3> QED
      BY <2>3, <3>1, Enqueues DEF Used, At, n
  <2>5. ring' = [ring EXCEPT ![k] = r]
    BY <1>5
  <2> HIDE DEF r
  <2>6. /\ ring' \in [Loops -> Rings(n)] /\ ring'[k] = r /\ Used(k)' = u + 1
        /\ \A i \in 0..u - 1 : At(k, i)' = At(k, i)
        /\ At(k, u)' = t
        /\ \A j \in Loops : j # k => /\ ring'[j] = ring[j] /\ Used(j)' = Used(j)
                                     /\ \A i : At(j, i)' = At(j, i)
        /\ ring'[k].owner = ring[k].owner
    <3>0. OrderedTypes /\ program' = program
      BY <1>2
    <3>1. /\ ring' \in [Loops -> Rings(n)] /\ ring'[k] = r /\ Used(k)' = r.num_used
          /\ \A i : At(k, i)' = Nth(r, i, n)
          /\ \A j \in Loops : j # k => /\ ring'[j] = ring[j] /\ Used(j)' = Used(j)
                                       /\ \A i : At(j, i)' = At(j, i)
      BY <2>4, <2>5, <3>0, OneRing
    <3> QED
      BY <2>4, <3>1
  <2>7. /\ ordered_release' \in [Ring -> Nat]
        /\ \A s \in Ring : ordered_release'[s] = IF s = t /\ u = 0
                                                THEN ordered_release[t] + 1
                                                ELSE ordered_release[s]
    <3>1. CASE u = 0
      <4>1. Post(t)
        BY <1>5, <2>3, <3>1 DEF Used
      <4> QED
        BY <3>1, <4>1 DEF Post, OrderedTypes
    <3>2. CASE u # 0
      <4>1. ordered_release' = ordered_release
        BY <1>5, <2>3, <3>2 DEF Used
      <4> QED
        BY <3>2, <4>1 DEF OrderedTypes
    <3> QED
      BY <3>1, <3>2
  <2>8. /\ OrderedTypes' /\ BlocksInv' /\ Loops' = Loops /\ Ring' = Ring
        /\ pos'[t] = "body" /\ Has(t, k)'
        /\ \A j \in Loops : j # k => ~Has(t, j)'
        /\ \A s \in Ring : s # t => /\ pos'[s] = pos[s] /\ iteration'[s] = iteration[s]
                                    /\ behind'[s] = behind[s]
                                    /\ \A j \in Loops : Has(s, j)' <=> Has(s, j)
        /\ \A s \in Ring : Has(s, k) => behind[s] <= iteration'[t]
    BY <1>1, <1>2, <1>5, <2>6, <2>7, TakesBlock
  <2> HIDE DEF sh
  <2>9. RingInv'
    <3> SUFFICES ASSUME NEW j \in Loops
                 PROVE  /\ \A s \in Ring : Has(s, j)' => \E i \in 0..Used(j)' - 1 : At(j, i)' = s
                        /\ \A i \in 0..Used(j)' - 1 : Has(At(j, i), j)'
                        /\ \A i, h \in 0..Used(j)' - 1 : i < h =>
                              /\ At(j, i)' # At(j, h)'
                              /\ behind'[At(j, i)'] <= iteration'[At(j, h)']
      BY <2>8 DEF RingInv
    <3>1. /\ \A s \in Ring : Has(s, j) => \E i \in 0..Used(j) - 1 : At(j, i) = s
          /\ \A i \in 0..Used(j) - 1 : Has(At(j, i), j) /\ At(j, i) \in Ring /\ At(j, i) # t
          /\ \A i, h \in 0..Used(j) - 1 : i < h =>
                At(j, i) # At(j, h) /\ behind[At(j, i)] <= iteration[At(j, h)]
      <4>1. \A i \in 0..Used(j) - 1 : Has(At(j, i), j) /\ At(j, i) \in Ring
        BY <2>1, AtRing DEF RingInv
      <4> QED
        BY <2>1, <2>2, <4>1 DEF RingInv
    <3>2. CASE j # k
      <4>1. Used(j)' = Used(j) /\ \A i : At(j, i)' = At(j, i)
        BY <2>6, <3>2
      <4>2. ~Has(t, j)'
        BY <2>8, <3>2
      <4> QED
        BY <2>8, <3>1, <4>1, <4>2
    <3>3. CASE j = k
      <4>1. u \in Nat /\ Used(k)' = u + 1
        BY <2>3, <2>6
      <4>2. \A i \in 0..u : i \in 0..u - 1 \/ i = u
        BY <4>1
      <4>3. ASSUME NEW s \in Ring, Has(s, k)'
            PROVE  \E i \in 0..u : At(k, i)' = s
        <5>1. CASE s = t
          BY <2>6, <4>1, <5>1
        <5>2. CASE s # t
          <6>1. PICK i \in 0..u - 1 : At(k, i) = s
            BY <2>3, <2>8, <3>1, <3>3, <4>3, <5>2
          <6>2. i \in 0..u /\ At(k, i)' = s
            BY <2>6, <4>1, <6>1
          <6> QED
            BY <6>2
        <5> QED
          BY <5>1, <5>2
      <4>4. ASSUME NEW i \in 0..u PROVE Has(At(k, i), k)'
        <5>1. CASE i = u
          <6>1. At(k, i)' = t
            BY <2>6, <5>1
          <6> QED
            BY <1>2, <2>8, <6>1 DEF Has
        <5>2. CASE i \in 0..u - 1
          <6>1. At(k, i)' = At(k, i) /\ At(k, i) \in Ring /\ At(k, i) # t
                /\ Has(At(k, i), k)
            BY <2>3, <2>6, <3>1, <3>3, <5>2
          <6> QED
            BY <2>8, <6>1 DEF Has
        <5> QED
          BY <4>2, <5>1, <5>2
      <4>5. ASSUME NEW i \in 0..u, NEW h \in 0..u, i < h
            PROVE  At(k, i)' # At(k, h)' /\ behind'[At(k, i)'] <= iteration'[At(k, h)']
        <5>1. i \in 0..u - 1
          BY <4>1, <4>5
        <5>2. At(k, i)' = At(k, i) /\ At(k, i) \in Ring /\ At(k, i) # t /\ Has(At(k, i), k)
          BY <2>3, <2>6, <3>1, <3>3, <5>1
        <5>3. CASE h = u
          BY <2>6, <2>8, <5>2, <5>3
        <5>4. CASE h \in 0..u - 1
          <6>1. At(k, h)' = At(k, h) /\ At(k, h) \in Ring /\ At(k, h) # t
            BY <2>3, <2>6, <3>1, <3>3, <5>4
          <6>2. At(k, i) # At(k, h) /\ behind[At(k, i)] <= iteration[At(k, h)]
            BY <2>3, <3>1, <3>3, <4>5, <5>1, <5>4
          <6> QED
            BY <2>8, <5>2, <6>1, <6>2
        <5> QED
          BY <4>2, <5>3, <5>4
      <4>6. 0..Used(j)' - 1 = 0..u
        BY <3>3, <4>1
      <4> QED
        BY <3>3, <4>3, <4>4, <4>5, <4>6
    <3> QED
      BY <3>2, <3>3
  <2>10. TurnInv'
    <3>1. /\ \A j \in Loops : ring[j].owner # -1 => Used(j) > 0 /\ At(j, 0) = ring[j].owner
          /\ \A s \in Ring : /\ pos[s] \in {"section", "next"} => Owns(s)
                             /\ pos[s] = "own" => IsHead(s) /\ ~Owns(s)
                             /\ ordered_release[s] =
                                   IF IsHead(s) /\ ~Owns(s) /\ pos[s] # "own" THEN 1 ELSE 0
      BY <2>1 DEF TurnInv
    <3>2. \A j \in Loops : ring'[j].owner = ring[j].owner
      BY <2>6
    <3>3. \A j \in Loops : Used(j) > 0 => Used(j)' > 0 /\ At(j, 0)' = At(j, 0)
      <4>1. \A j \in Loops : j # k => (Used(j) > 0 => Used(j)' > 0 /\ At(j, 0)' = At(j, 0))
        BY <2>6
      <4>2. u > 0 => 0 \in 0..u - 1 /\ u + 1 > 0
        BY <2>3
      <4>3. u > 0 => Used(k)' > 0 /\ At(k, 0)' = At(k, 0)
        BY <2>6, <4>2
      <4> QED
        BY <2>3, <4>1, <4>3
    <3>4. ~IsHead(t)
      BY <2>2 DEF IsHead
    <3>5. \A s \in Ring : Owns(s)' <=> Owns(s)
      BY <1>2, <2>8, <3>2 DEF Owns
    <3>6. ASSUME NEW s \in Ring, s # t PROVE IsHead(s)' <=> IsHead(s)
      <4>1. ASSUME NEW j \in Loops
            PROVE  Used(j)' > 0 /\ At(j, 0)' = s <=> Used(j) > 0 /\ At(j, 0) = s
        <5>1. CASE Used(j) > 0
          BY <3>3, <5>1
        <5>2. CASE ~(Used(j) > 0) /\ j # k
          BY <2>6, <5>2
        <5>3. CASE ~(Used(j) > 0) /\ j = k
          <6>1. u = 0
            BY <2>3, <5>3
          <6>2. At(k, 0)' = t
            BY <2>6, <6>1
          <6> QED
            BY <3>6, <5>3, <6>2
        <5> QED
          BY <5>1, <5>2, <5>3
      <4> QED
        BY <2>8, <3>6, <4>1 DEF IsHead
    <3>7. IsHead(t)' <=> u = 0
      <4>1. IsHead(t)' <=> Used(k)' > 0 /\ At(k, 0)' = t
        BY <1>1, <2>8 DEF IsHead
      <4>2. CASE u = 0
        <5>1. At(k, 0)' = t /\ Used(k)' > 0
          BY <2>6, <4>2
        <5> QED
          BY <4>1, <4>2, <5>1
      <4>3. CASE u # 0
        <5>1. 0 \in 0..u - 1 /\ u > 0
          BY <2>3, <4>3
        <5>2. At(k, 0)' = At(k, 0) /\ Has(At(k, 0), k)
          BY <1>1, <2>1, <2>3, <2>6, <5>1 DEF RingInv
        <5> QED
          BY <1>1, <2>2, <4>1, <4>3, <5>2
      <4> QED
        BY <4>2, <4>3
    <3>8. u = 0 => ~Owns(t)
      <4>1. t # -1 /\ (Owns(t) <=> ring[k].owner = t)
        BY <1>1, <2>1 DEF Owns
      <4>2. ring[k].owner # -1 => Used(k) > 0
        BY <1>0, <3>1
      <4>3. u = 0 => ~(Used(k) > 0)
        BY <2>3
      <4> QED
        BY <4>1, <4>2, <4>3
    <3>9. ordered_release[t] = 0
      BY <3>1, <3>4
    <3>10. ASSUME NEW s \in Ring
           PROVE  /\ pos'[s] \in {"section", "next"} => Owns(s)'
                  /\ pos'[s] = "own" => IsHead(s)' /\ ~Owns(s)'
                  /\ ordered_release'[s] =
                        IF IsHead(s)' /\ ~Owns(s)' /\ pos'[s] # "own" THEN 1 ELSE 0
      <4>1. CASE s = t
        BY <2>7, <2>8, <3>5, <3>7, <3>8, <3>9, <4>1
      <4>2. CASE s # t
        BY <2>7, <2>8, <3>1, <3>5, <3>6, <4>2
      <4> QED
        BY <4>1, <4>2
    <3>11. \A j \in Loops : ring'[j].owner # -1 => Used(j)' > 0 /\ At(j, 0)' = ring'[j].owner
      BY <3>1, <3>2, <3>3
    <3> QED
      BY <2>8, <3>10, <3>11 DEF TurnInv
  <2> QED
    BY <2>8, <2>9, <2>10
<1> QED
  <2>1. \/ /\ sh.next = sh.end /\ NoMore(t) /\ wshare' = [wshare EXCEPT ![k] = sh]
           /\ UNCHANGED <<ring, ordered_release>>
        \/ /\ sh.next # sh.end /\ HoldNext(t, sh)
           /\ IF program.nthreads = 1 THEN UNCHANGED <<ring, ordered_release>>
              ELSE /\ ring' = [ring EXCEPT ![k] = Enqueue(@, t, program.nthreads)]
                   /\ IF ring[k].num_used = 0 THEN Post(t)
                      ELSE UNCHANGED ordered_release
    BY <1>1 DEF QueueStart
  <2> QED
    BY <1>3, <1>4, <1>5, <2>1

\* The head of the ring passes the turn on: to the next thread in the ring, which
\* is the head itself when it is the only one and goes on.
LEMMA TurnPassed ==
    ASSUME OrderedInv, program.nthreads > 1, NEW t \in Ring, pos[t] = "next",
           NEW k \in Loops, inLoop[t] = k, NEW r \in Rings(program.nthreads), NEW u, u = Used(k),
           UNCHANGED <<program, inLoop>>, pos'[t] \in {"body", "end"},
           \A s \in Ring : s # t => pos'[s] = pos[s],
           TellHead(k, r), r.owner = -1,
           \A i \in 0..u - 2 : Nth(r, i, program.nthreads) = At(k, i + 1),
           \/ pos'[t] = "end" /\ r.num_used = u - 1
           \/ pos'[t] = "body" /\ r.num_used = u /\ Nth(r, u - 1, program.nthreads) = t
    PROVE  TurnInv'
<1> USE DEF OrderedInv
<1>1. /\ Loops' = Loops /\ Ring' = Ring /\ t # -1
  BY ProgramTypes DEF Loops, Ring
<1>2. /\ \A j \in Loops : ring[j].owner # -1 => Used(j) > 0 /\ At(j, 0) = ring[j].owner
      /\ \A s \in Ring : /\ pos[s] \in {"section", "next"} => Owns(s)
                         /\ pos[s] = "own" => IsHead(s) /\ ~Owns(s)
                         /\ ordered_release[s] =
                               IF IsHead(s) /\ ~Owns(s) /\ pos[s] # "own" THEN 1 ELSE 0
  BY DEF TurnInv
<1>3. /\ ring[k].owner = t /\ At(k, 0) = t /\ u \in Nat \ {0}
      /\ \A i \in 0..u - 1 : At(k, i) \in Ring /\ Has(At(k, i), k)
      /\ \A i \in 1..u - 1 : At(k, i) # t
  <2>1. ring[k].owner = t
    BY <1>2 DEF Owns
  <2>2. u > 0 /\ At(k, 0) = t
    BY <1>1, <1>2, <2>1
  <2>3. u \in Nat
    BY AtRing, ProgramTypes
  <2>4. \A i \in 0..u - 1 : At(k, i) \in Ring /\ Has(At(k, i), k)
    BY AtRing DEF RingInv
  <2>5. ASSUME NEW i \in 1..u - 1 PROVE At(k, i) # t
    <3>1. 0 \in 0..Used(k) - 1 /\ i \in 0..Used(k) - 1 /\ 0 < i
      BY <2>2, <2>3
    <3>2. At(k, 0) # At(k, i)
      BY <3>1 DEF RingInv
    <3> QED
      BY <2>2, <3>2
  <2> QED
    BY <2>1, <2>2, <2>3, <2>4, <2>5
<1>4. /\ ring'[k] = r /\ Used(k)' = r.num_used
      /\ \A i : At(k, i)' = Nth(r, i, program.nthreads)
      /\ \A j \in Loops : j # k => /\ ring'[j] = ring[j] /\ Used(j)' = Used(j)
                                   /\ \A i : At(j, i)' = At(j, i)
      /\ r.team_ids[r.cur] = At(k, 0)'
  <2>1. ring' = [ring EXCEPT ![k] = r]
    BY DEF TellHead
  <2>2. OrderedTypes /\ program' = program
    OBVIOUS
  <2>3. /\ ring' \in [Loops -> Rings(program.nthreads)]
        /\ ring'[k] = r /\ Used(k)' = r.num_used
        /\ \A i : At(k, i)' = Nth(r, i, program.nthreads)
        /\ \A j \in Loops : j # k => /\ ring'[j] = ring[j] /\ Used(j)' = Used(j)
                                     /\ \A i : At(j, i)' = At(j, i)
        /\ r.team_ids[r.cur] = Nth(r, 0, program.nthreads)
    BY <2>1, <2>2, OneRing
  <2>4. At(k, 0)' = Nth(r, 0, program.nthreads)
    BY <2>3
  <2> QED
    BY <2>3, <2>4
\* the new head
<1>5. r.num_used > 0 =>
         /\ At(k, 0)' \in Ring /\ Has(At(k, 0), k)'
         /\ At(k, 0)' # t => At(k, 0)' = At(k, 1) /\ 1 \in 0..u - 1
         /\ At(k, 0)' = t => pos'[t] = "body"
  <2>1. CASE r.num_used > 0 /\ u > 1
    <3>1. 0 \in 0..u - 2 /\ 1 \in 0..u - 1 /\ 1 \in 1..u - 1 /\ 0 + 1 = 1
      BY <1>3, <2>1
    <3>2. At(k, 0)' = At(k, 1)
      BY <1>4, <3>1
    <3>3. At(k, 1) # t /\ At(k, 1) \in Ring /\ Has(At(k, 1), k)
      BY <1>3, <3>1
    <3>5. Has(At(k, 0), k)'
      BY <3>2, <3>3 DEF Has
    <3> QED
      BY <3>1, <3>2, <3>3, <3>5
  <2>2. CASE r.num_used > 0 /\ ~(u > 1)
    <3>1. u = 1 /\ u - 1 = 0
      BY <1>3, <2>2
    <3>2. pos'[t] = "body" /\ At(k, 0)' = t
      BY <1>4, <2>2, <3>1
    <3> QED
      BY <3>2 DEF Has
  <2> QED
    BY <2>1, <2>2
<1>6. PICK h : IF r.num_used > 0 THEN h = At(k, 0)' ELSE h = -1
  <2>1. CASE r.num_used > 0
    BY <2>1
  <2>2. CASE ~(r.num_used > 0)
    BY <2>2
  <2> QED
    BY <2>1, <2>2
<1>7. /\ h = -1 \/ (h \in Ring /\ inLoop[h] = k /\ Has(h, k)')
      /\ h = t => pos'[t] = "body"
      /\ \A s \in Ring : Used(k)' > 0 /\ At(k, 0)' = s <=> s = h
  <2>1. \A s \in Ring : s # -1
    BY ProgramTypes
  <2>2. CASE r.num_used > 0
    BY <1>4, <1>5, <1>6, <2>1, <2>2 DEF Has
  <2>3. CASE ~(r.num_used > 0)
    <3>1. h = -1 /\ ~(Used(k)' > 0)
      BY <1>4, <1>6, <2>3
    <3>2. t # -1
      BY <2>1
    <3>3. ASSUME NEW s \in Ring PROVE ~(Used(k)' > 0 /\ At(k, 0)' = s) /\ s # h
      BY <2>1, <3>1
    <3>4. h = -1 /\ h # t
      BY <3>1, <3>2
    <3>5. \A s \in Ring : Used(k)' > 0 /\ At(k, 0)' = s <=> s = h
      BY <3>3
    <3> QED
      BY <3>4, <3>5
  <2> QED
    BY <2>2, <2>3
<1>8. ASSUME NEW s \in Ring, s # t
      PROVE  /\ Owns(s)' <=> Owns(s)
             /\ IsHead(s)' <=> IsHead(s) \/ s = h
             /\ inLoop[s] = k => ~IsHead(s) /\ ~Owns(s)
  <2>1. s # -1 /\ \A j \in Loops : Has(s, j)' <=> Has(s, j)
    BY <1>8, ProgramTypes DEF Has
  <2>2. inLoop[s] = k => ~IsHead(s) /\ ~Owns(s)
    BY <1>3, <1>8 DEF IsHead, Owns, Has
  <2>3. Owns(s)' <=> Owns(s)
    BY <1>1, <1>3, <1>4, <1>8, <2>1 DEF Owns
  <2>4. CASE inLoop[s] = k
    <3>1. IsHead(s)' <=> Has(s, k)' /\ Used(k)' > 0 /\ At(k, 0)' = s
      BY <1>1, <2>4 DEF IsHead, Has
    <3>2. IsHead(s)' <=> s = h
      BY <1>7, <2>1, <3>1
    <3> QED
      BY <2>2, <2>3, <2>4, <3>2
  <2>5. CASE inLoop[s] # k
    <3>1. ~Has(s, k) /\ ~Has(s, k)'
      BY <2>5 DEF Has
    <3>2. IsHead(s)' <=> IsHead(s)
      BY <1>1, <1>4, <2>1, <3>1 DEF IsHead
    <3>3. s # h
      BY <1>7, <2>1, <2>5
    <3> QED
      BY <2>3, <2>5, <3>2, <3>3
  <2> QED
    BY <2>4, <2>5
<1>9. ordered_release[t] = 0 /\ ~Owns(t)' /\ (IsHead(t)' <=> h = t)
  <2>1. Owns(t)
    BY <1>2
  <2>2. ~Owns(t)'
    BY <1>1, <1>4 DEF Owns
  <2>3. \A j \in Loops : Has(t, j)' => j = k
    BY DEF Has
  <2>4. IsHead(t)' <=> h = t
    BY <1>1, <1>7, <2>3 DEF IsHead
  <2> QED
    BY <1>2, <2>1, <2>2, <2>4
<1>10. \A s \in Ring : ordered_release'[s] = IF s = h THEN ordered_release[s] + 1
                                            ELSE ordered_release[s]
  <2>1. r.num_used \in Nat
    BY RingFields, ProgramTypes
  <2>2. CASE r.num_used = 0
    <3>1. h = -1 /\ ~(r.num_used > 0)
      BY <1>6, <2>2
    <3>2. \A s \in Ring : s # h
      BY <3>1, ProgramTypes
    <3>3. ordered_release' = ordered_release
      BY <2>2 DEF TellHead
    <3> QED
      BY <3>2, <3>3
  <2>3. CASE r.num_used > 0
    <3>1. ordered_release' = [ordered_release EXCEPT ![h] = @ + 1]
      BY <1>4, <1>6, <2>3 DEF TellHead, Post
    <3>2. ordered_release \in [Ring -> Nat]
      BY DEF OrderedTypes
    <3> QED
      BY <3>1, <3>2
  <2> QED
    BY <2>1, <2>2, <2>3
<1>11. ASSUME NEW s \in Ring
       PROVE  /\ pos'[s] \in {"section", "next"} => Owns(s)'
              /\ pos'[s] = "own" => IsHead(s)' /\ ~Owns(s)'
              /\ ordered_release'[s] =
                    IF IsHead(s)' /\ ~Owns(s)' /\ pos'[s] # "own" THEN 1 ELSE 0
  <2>1. CASE s = t
    BY <1>7, <1>9, <1>10, <2>1
  <2>2. CASE s # t /\ s = h
    <3>1. inLoop[s] = k
      BY <1>7, <2>2, ProgramTypes
    <3>2. ~IsHead(s) /\ ~Owns(s) /\ ~Owns(s)' /\ IsHead(s)'
      BY <1>8, <2>2, <3>1
    <3>3. ordered_release'[s] = 1 /\ pos[s] \notin {"own", "section", "next"}
      BY <1>2, <1>10, <2>2, <3>2
    <3> QED
      BY <2>2, <3>2, <3>3
  <2>3. CASE s # t /\ s # h
    <3>0. pos'[s] = pos[s]
      BY <2>3
    <3>1. (Owns(s)' <=> Owns(s)) /\ (IsHead(s)' <=> IsHead(s))
      BY <1>8, <2>3
    <3>2. ordered_release'[s] = ordered_release[s]
      BY <1>10, <2>3
    <3> QED
      BY <1>2, <3>0, <3>1, <3>2
  <2> QED
    BY <2>1, <2>2, <2>3
<1>12. \A j \in Loops : ring'[j].owner # -1 => Used(j)' > 0 /\ At(j, 0)' = ring'[j].owner
  BY <1>2, <1>4
<1> QED
  BY <1>1, <1>12, <1>11 DEF TurnInv

\* A thread that gets no block leaves its loop.
LEMMA NoMoreKeeps ==
    ASSUME OrderedInv, NEW t \in Ring, pos[t] = "next", NoMore(t),
           UNCHANGED <<program, inLoop, then, latest, wshare>>,
           ring' \in [Loops -> Rings(program.nthreads)], ordered_release' \in [Ring -> Nat]
    PROVE  OrderedTypes' /\ BlocksInv'
<1> USE DEF OrderedInv
<1>1. /\ Loops' = Loops /\ Ring' = Ring
      /\ pos' = [pos EXCEPT ![t] = "end"] /\ pos'[t] = "end"
      /\ \A s \in Ring : s # t => pos'[s] = pos[s]
      /\ iteration' = iteration /\ behind' = behind
  BY DEF Loops, Ring, NoMore, OrderedTypes
<1>2. /\ \A j \in Loops : ~Has(t, j)'
      /\ \A s \in Ring : s # t => \A j \in Loops : Has(s, j)' <=> Has(s, j)
  BY <1>1 DEF Has
<1>3. OrderedTypes'
  <2>1. \A j \in Loops : ShareAt(j)' = ShareAt(j) /\ FirstOf(j)' = FirstOf(j)
    BY DEF ShareAt, FirstOf
  <2>2. \A s \in Ring : pos'[s] \in {"sync", "wait", "own"} => then'[s] # "none"
    BY <1>1 DEF OrderedTypes
  <2>3. \A s \in Ring : pos'[s] # "loop" => inLoop'[s] \in Loops
    BY <1>1 DEF OrderedTypes
  <2>4. pos' \in [Ring -> Positions]
    BY <1>1 DEF OrderedTypes, Positions
  <2> QED
    BY <1>1, <2>1, <2>2, <2>3, <2>4 DEF OrderedTypes
<1>4. BlocksInv'
  <2>1. \A j \in Loops : ShareAt(j)' = ShareAt(j)
    BY DEF ShareAt, FirstOf
  <2>2. \A s \in Ring : s # t => (AsksNext(s)' <=> AsksNext(s))
    BY <1>1 DEF AsksNext
  <2> QED
    BY <1>1, <1>2, <2>1, <2>2 DEF BlocksInv
<1> QED
  BY <1>3, <1>4

\* The head of the ring leaves it when there is no block left.
LEMMA LastBlockKeeps ==
    ASSUME OrderedInv, program.nthreads > 1, NEW t \in Ring, pos[t] = "next",
           NEW k \in Loops, inLoop[t] = k, NoMore(t),
           TellHead(k, DropHead(ring[k], program.nthreads)),
           UNCHANGED <<program, inLoop, then, latest, wshare>>
    PROVE  OrderedInv'
<1> USE DEF OrderedInv
<1> DEFINE r == DropHead(ring[k], program.nthreads)
<1>1. PICK n \in Nat \ {0} : n = program.nthreads /\ Ring = 0..n - 1
  BY ProgramTypes
<1>2. PICK u \in 0..n : u = Used(k)
  BY <1>1, AtRing
<1>3. /\ Loops' = Loops /\ Ring' = Ring
      /\ pos' = [pos EXCEPT ![t] = "end"] /\ pos'[t] = "end"
      /\ \A s \in Ring : s # t => pos'[s] = pos[s]
      /\ iteration' = iteration /\ behind' = behind
  BY DEF Loops, Ring, NoMore, OrderedTypes
<1>4. u > 0 /\ At(k, 0) = t
  <2>1. IsHead(t)
    BY HoldsBlock DEF TurnInv
  <2> QED
    BY <1>2, <2>1, HoldsBlock
<1>5. /\ r \in Rings(program.nthreads) /\ r.num_used = u - 1 /\ r.owner = -1
      /\ \A i \in 0..u - 2 : Nth(r, i, program.nthreads) = At(k, i + 1)
  <2>1. ring[k] \in Rings(n) /\ ring[k].num_used > 0 /\ u = ring[k].num_used
    BY <1>1, <1>2, <1>4, AtRing DEF Used
  <2> QED
    BY <1>1, <2>1, Drops DEF At
<1> HIDE DEF r
<1>6. /\ ring' = [ring EXCEPT ![k] = r] /\ ring' \in [Loops -> Rings(program.nthreads)]
      /\ Used(k)' = u - 1 /\ \A i \in 0..u - 2 : At(k, i)' = At(k, i + 1)
      /\ \A j \in Loops : j # k => /\ Used(j)' = Used(j) /\ \A i : At(j, i)' = At(j, i)
  <2>1. ring' = [ring EXCEPT ![k] = r]
    BY DEF TellHead, r
  <2>2. /\ ring' \in [Loops -> Rings(program.nthreads)]
        /\ ring'[k] = r /\ Used(k)' = r.num_used
        /\ \A i : At(k, i)' = Nth(r, i, program.nthreads)
        /\ \A j \in Loops : j # k => /\ ring'[j] = ring[j] /\ Used(j)' = Used(j)
                                     /\ \A i : At(j, i)' = At(j, i)
        /\ r.team_ids[r.cur] = Nth(r, 0, program.nthreads)
    <3>1. OrderedTypes /\ program' = program
      OBVIOUS
    <3> QED
      BY <1>5, <2>1, <3>1, OneRing
  <2> QED
    BY <1>5, <2>1, <2>2
<1>7. /\ \A j \in Loops : ~Has(t, j)'
      /\ \A s \in Ring : s # t => \A j \in Loops : Has(s, j)' <=> Has(s, j)
  BY <1>3 DEF Has
<1>8. ordered_release' \in [Ring -> Nat]
  <2>1. ordered_release \in [Ring -> Nat]
    BY DEF OrderedTypes
  <2>2. \/ ordered_release' = ordered_release
        \/ \E h : ordered_release' = [ordered_release EXCEPT ![h] = @ + 1]
    BY DEF TellHead, Post
  <2> QED
    BY <2>1, <2>2
<1>9. OrderedTypes' /\ BlocksInv'
  BY <1>6, <1>8, NoMoreKeeps
<1>10. RingInv'
  <2> SUFFICES ASSUME NEW j \in Loops
               PROVE  /\ \A s \in Ring : Has(s, j)' => \E i \in 0..Used(j)' - 1 : At(j, i)' = s
                      /\ \A i \in 0..Used(j)' - 1 : Has(At(j, i), j)'
                      /\ \A i, h \in 0..Used(j)' - 1 : i < h =>
                            /\ At(j, i)' # At(j, h)'
                            /\ behind[At(j, i)'] <= iteration[At(j, h)']
    BY <1>3 DEF RingInv
  <2>1. /\ \A s \in Ring : Has(s, j) => \E i \in 0..Used(j) - 1 : At(j, i) = s
        /\ \A i \in 0..Used(j) - 1 : Has(At(j, i), j) /\ At(j, i) \in Ring
        /\ \A i, h \in 0..Used(j) - 1 : i < h =>
              At(j, i) # At(j, h) /\ behind[At(j, i)] <= iteration[At(j, h)]
    <3>1. \A i \in 0..Used(j) - 1 : At(j, i) \in Ring
      BY AtRing
    <3> QED
      BY <3>1 DEF RingInv
  <2>2. CASE j # k
    <3>1. Used(j)' = Used(j) /\ \A i : At(j, i)' = At(j, i)
      BY <1>6, <2>2
    <3>2. \A i \in 0..Used(j) - 1 : At(j, i) # t
      BY <2>1, <2>2 DEF Has
    <3> QED
      BY <1>7, <2>1, <3>1, <3>2
  <2>3. CASE j = k
    <3>1. /\ 0..Used(j)' - 1 = 0..u - 2 /\ u - 1 \in Nat
          /\ \A i \in 0..u - 2 : i + 1 \in 0..Used(k) - 1 /\ i + 1 > 0
          /\ 0 \in 0..Used(k) - 1
      BY <1>2, <1>4, <1>6, <2>3
    <3>2. ASSUME NEW s \in Ring, Has(s, k)' PROVE \E i \in 0..u - 2 : At(k, i)' = s
      <4>1. s # t /\ Has(s, k)
        BY <1>7, <3>2
      <4>2. PICK i \in 0..u - 1 : At(k, i) = s
        BY <1>2, <2>1, <2>3, <4>1
      <4>3. i - 1 \in 0..u - 2 /\ (i - 1) + 1 = i
        BY <1>2, <1>4, <4>1, <4>2
      <4>4. At(k, i - 1)' = s
        BY <1>6, <4>2, <4>3
      <4> QED
        BY <4>3, <4>4
    <3>3. ASSUME NEW i \in 0..u - 2
          PROVE  At(k, i)' = At(k, i + 1) /\ At(k, i + 1) \in Ring /\ Has(At(k, i), k)'
      <4>1. At(k, i)' = At(k, i + 1) /\ At(k, i + 1) \in Ring /\ Has(At(k, i + 1), k)
        BY <1>6, <2>1, <2>3, <3>1
      <4>2. At(k, i + 1) # t
        BY <1>4, <2>1, <2>3, <3>1
      <4> QED
        BY <1>3, <4>1, <4>2 DEF Has
    <3>4. ASSUME NEW i \in 0..u - 2, NEW h \in 0..u - 2, i < h
          PROVE  At(k, i)' # At(k, h)' /\ behind[At(k, i)'] <= iteration[At(k, h)']
      <4>1. i + 1 < h + 1
        BY <3>4
      <4>2. /\ At(k, i + 1) # At(k, h + 1)
            /\ behind[At(k, i + 1)] <= iteration[At(k, h + 1)]
        BY <2>1, <2>3, <3>1, <4>1
      <4> QED
        BY <3>3, <4>2
    <3>5. 0..Used(j)' - 1 = 0..u - 2
      BY <3>1
    <3> QED
      <4>1. \A s \in Ring : Has(s, j)' => \E i \in 0..Used(j)' - 1 : At(j, i)' = s
        BY <2>3, <3>2, <3>5
      <4>2. \A i \in 0..Used(j)' - 1 : Has(At(j, i), j)'
        BY <2>3, <3>3, <3>5
      <4>3. \A i, h \in 0..Used(j)' - 1 : i < h =>
               /\ At(j, i)' # At(j, h)'
               /\ behind[At(j, i)'] <= iteration[At(j, h)']
        <5> SUFFICES ASSUME NEW i \in 0..u - 2, NEW h \in 0..u - 2, i < h
                     PROVE  /\ At(j, i)' # At(j, h)'
                            /\ behind[At(j, i)'] <= iteration[At(j, h)']
          BY <3>5
        <5> QED
          BY <2>3, <3>4
      <4> QED
        BY <4>1, <4>2, <4>3
  <2> QED
    BY <2>2, <2>3
<1>11. TurnInv'
  <2>1. TellHead(k, r)
    BY DEF r
  <2> QED
    BY <1>2, <1>3, <1>5, <2>1, TurnPassed
<1> QED
  BY <1>9, <1>10, <1>11

\* The head of the ring takes another block and goes to the end of the ring.
LEMMA AnotherBlockKeeps ==
    ASSUME OrderedInv, program.nthreads > 1, NEW t \in Ring, pos[t] = "next",
           NEW k \in Loops, inLoop[t] = k, ShareAt(k).next # ShareAt(k).end,
           HoldNext(t, ShareAt(k)), TellHead(k, Rotate(ring[k], t, program.nthreads)),
           UNCHANGED <<program, inLoop, then, latest>>
    PROVE  OrderedInv'
<1> USE DEF OrderedInv
<1> DEFINE r == Rotate(ring[k], t, program.nthreads)
<1>1. PICK n \in Nat \ {0} : n = program.nthreads /\ Ring = 0..n - 1
  BY ProgramTypes
<1>2. PICK u \in 0..n : u = Used(k)
  BY <1>1, AtRing
<1>3. u > 0 /\ At(k, 0) = t
  <2>1. IsHead(t)
    BY HoldsBlock DEF TurnInv
  <2> QED
    BY <1>2, <2>1, HoldsBlock
<1>4. /\ r \in Rings(program.nthreads) /\ r.num_used = u /\ r.owner = -1
      /\ \A i \in 0..u - 2 : Nth(r, i, program.nthreads) = At(k, i + 1)
      /\ Nth(r, u - 1, program.nthreads) = t
  <2>1. ring[k] \in Rings(n) /\ ring[k].num_used > 0 /\ u = ring[k].num_used
    BY <1>1, <1>2, <1>3, AtRing DEF Used
  <2>2. t \in 0..n - 1 /\ Nth(ring[k], 0, n) = t
    BY <1>1, <1>3 DEF At
  <2> QED
    BY <1>1, <2>1, <2>2, Rotates DEF At
<1> HIDE DEF r
<1>5. /\ ring' \in [Loops -> Rings(program.nthreads)]
      /\ Used(k)' = u /\ \A i \in 0..u - 2 : At(k, i)' = At(k, i + 1)
      /\ At(k, u - 1)' = t
      /\ \A j \in Loops : j # k => /\ Used(j)' = Used(j) /\ \A i : At(j, i)' = At(j, i)
  <2>1. ring' = [ring EXCEPT ![k] = r]
    BY DEF TellHead, r
  <2>2. OrderedTypes /\ program' = program
    OBVIOUS
  <2>3. /\ ring' \in [Loops -> Rings(program.nthreads)]
        /\ ring'[k] = r /\ Used(k)' = r.num_used
        /\ \A i : At(k, i)' = Nth(r, i, program.nthreads)
        /\ \A j \in Loops : j # k => /\ ring'[j] = ring[j] /\ Used(j)' = Used(j)
                                     /\ \A i : At(j, i)' = At(j, i)
        /\ r.team_ids[r.cur] = Nth(r, 0, program.nthreads)
    <3>1. r \in Rings(program.nthreads)
      BY <1>4
    <3> QED
      BY <2>1, <2>2, <3>1, OneRing
  <2> QED
    BY <1>4, <2>3
<1>6. ordered_release' \in [Ring -> Nat]
  <2>1. ordered_release \in [Ring -> Nat]
    BY DEF OrderedTypes
  <2>2. \/ ordered_release' = ordered_release
        \/ \E h : ordered_release' = [ordered_release EXCEPT ![h] = @ + 1]
    BY DEF TellHead, Post
  <2> QED
    BY <2>1, <2>2
<1>7. /\ OrderedTypes' /\ BlocksInv' /\ Loops' = Loops /\ Ring' = Ring
      /\ pos'[t] = "body" /\ Has(t, k)'
      /\ \A j \in Loops : j # k => ~Has(t, j)'
      /\ \A s \in Ring : s # t => /\ pos'[s] = pos[s] /\ iteration'[s] = iteration[s]
                                  /\ behind'[s] = behind[s]
                                  /\ \A j \in Loops : Has(s, j)' <=> Has(s, j)
      /\ \A s \in Ring : Has(s, k) => behind[s] <= iteration'[t]
  BY <1>5, <1>6, TakesBlock
<1>8. RingInv'
  <2> SUFFICES ASSUME NEW j \in Loops
               PROVE  /\ \A s \in Ring : Has(s, j)' => \E i \in 0..Used(j)' - 1 : At(j, i)' = s
                      /\ \A i \in 0..Used(j)' - 1 : Has(At(j, i), j)'
                      /\ \A i, h \in 0..Used(j)' - 1 : i < h =>
                            /\ At(j, i)' # At(j, h)'
                            /\ behind'[At(j, i)'] <= iteration'[At(j, h)']
    BY <1>7 DEF RingInv
  <2>1. /\ \A s \in Ring : Has(s, j) => \E i \in 0..Used(j) - 1 : At(j, i) = s
        /\ \A i \in 0..Used(j) - 1 : Has(At(j, i), j) /\ At(j, i) \in Ring
        /\ \A i, h \in 0..Used(j) - 1 : i < h =>
              At(j, i) # At(j, h) /\ behind[At(j, i)] <= iteration[At(j, h)]
    <3>1. \A i \in 0..Used(j) - 1 : At(j, i) \in Ring
      BY AtRing
    <3> QED
      BY <3>1 DEF RingInv
  <2>2. CASE j # k
    <3>1. Used(j)' = Used(j) /\ \A i : At(j, i)' = At(j, i)
      BY <1>5, <2>2
    <3>2. \A i \in 0..Used(j) - 1 : At(j, i) # t
      BY <2>1, <2>2 DEF Has
    <3>3. ~Has(t, j)'
      BY <1>7, <2>2
    <3> QED
      BY <1>7, <2>1, <3>1, <3>2, <3>3
  <2>3. CASE j = k
    <3>1. /\ 0..Used(j)' - 1 = 0..u - 1 /\ 0 \in 0..Used(k) - 1 /\ u - 1 \in 0..u - 1
          /\ \A i \in 0..u - 2 : i + 1 \in 0..Used(k) - 1 /\ i + 1 > 0
          /\ \A i \in 0..u - 1 : i = u - 1 \/ i \in 0..u - 2
          /\ \A i, h \in 0..u - 1 : i < h => i \in 0..u - 2
      BY <1>2, <1>3, <1>5, <2>3
    <3>2. ASSUME NEW s \in Ring, Has(s, k)' PROVE \E i \in 0..u - 1 : At(k, i)' = s
      <4>1. CASE s = t
        BY <1>5, <3>1, <4>1
      <4>2. CASE s # t
        <5>1. Has(s, k)
          BY <1>7, <3>2, <4>2
        <5>2. PICK i \in 0..u - 1 : At(k, i) = s
          BY <1>2, <2>1, <2>3, <5>1
        <5>3. i - 1 \in 0..u - 2 /\ i - 1 \in 0..u - 1 /\ (i - 1) + 1 = i
          BY <1>2, <1>3, <4>2, <5>2
        <5>4. At(k, i - 1)' = s
          BY <1>5, <5>2, <5>3
        <5> QED
          BY <5>3, <5>4
      <4> QED
        BY <4>1, <4>2
    <3>3. ASSUME NEW i \in 0..u - 2
          PROVE  /\ At(k, i)' = At(k, i + 1) /\ At(k, i + 1) \in Ring
                 /\ At(k, i + 1) # t /\ Has(At(k, i + 1), k)
      <4>1. At(k, i)' = At(k, i + 1) /\ At(k, i + 1) \in Ring /\ Has(At(k, i + 1), k)
        BY <1>5, <2>1, <2>3, <3>1
      <4>2. At(k, i + 1) # t
        BY <1>3, <2>1, <2>3, <3>1
      <4> QED
        BY <4>1, <4>2
    <3>4. ASSUME NEW i \in 0..u - 1 PROVE Has(At(k, i), k)'
      <4>1. CASE i = u - 1
        <5>1. At(k, i)' = t
          BY <1>5, <4>1
        <5> QED
          BY <1>7, <5>1 DEF Has
      <4>2. CASE i \in 0..u - 2
        BY <1>7, <3>3, <4>2 DEF Has
      <4> QED
        BY <3>1, <4>1, <4>2
    <3>5. ASSUME NEW i \in 0..u - 1, NEW h \in 0..u - 1, i < h
          PROVE  At(k, i)' # At(k, h)' /\ behind'[At(k, i)'] <= iteration'[At(k, h)']
      <4>1. i \in 0..u - 2
        BY <3>1, <3>5
      <4>2. CASE h = u - 1
        <5>1. At(k, h)' = t
          BY <1>5, <4>2
        <5> QED
          BY <1>7, <3>3, <4>1, <5>1
      <4>3. CASE h \in 0..u - 2
        <5>1. i + 1 < h + 1
          BY <3>5
        <5>2. /\ At(k, i + 1) # At(k, h + 1)
              /\ behind[At(k, i + 1)] <= iteration[At(k, h + 1)]
          BY <2>1, <2>3, <3>1, <4>1, <4>3, <5>1
        <5> QED
          BY <1>7, <3>3, <4>1, <4>3, <5>2
      <4> QED
        BY <3>1, <4>2, <4>3
    <3>6. \A s \in Ring : Has(s, j)' => \E i \in 0..Used(j)' - 1 : At(j, i)' = s
      BY <2>3, <3>1, <3>2
    <3>7. \A i \in 0..Used(j)' - 1 : Has(At(j, i), j)'
      BY <2>3, <3>1, <3>4
    <3>8. \A i, h \in 0..Used(j)' - 1 : i < h =>
             /\ At(j, i)' # At(j, h)'
             /\ behind'[At(j, i)'] <= iteration'[At(j, h)']
      <4> SUFFICES ASSUME NEW i \in 0..u - 1, NEW h \in 0..u - 1, i < h
                   PROVE  /\ At(j, i)' # At(j, h)'
                          /\ behind'[At(j, i)'] <= iteration'[At(j, h)']
        BY <3>1
      <4> QED
        BY <2>3, <3>5
    <3> QED
      BY <3>6, <3>7, <3>8
  <2> QED
    BY <2>2, <2>3
<1>9. TurnInv'
  <2>1. TellHead(k, r)
    BY DEF r
  <2>2. \A s \in Ring : s # t => pos'[s] = pos[s]
    BY <1>7
  <2> QED
    BY <1>2, <1>4, <1>7, <2>1, <2>2, TurnPassed
<1> QED
  BY <1>7, <1>8, <1>9

\* In a ring of one thread that thread is the caller of gomp_ordered_next, as the
\* comment in it says, so that in every case the head of the new ring is told.
LEMMA PassTurnTellsHead ==
    ASSUME OrderedInv, program.nthreads > 1, NEW t \in Ring, pos[t] = "next",
           NEW k \in Loops, inLoop[t] = k, PassTurn(t, k, program.nthreads)
    PROVE  TellHead(k, Rotate(ring[k], t, program.nthreads))
<1> USE DEF OrderedInv
<1> DEFINE r == Rotate(ring[k], t, program.nthreads)
<1>1. PICK n \in Nat \ {0} : n = program.nthreads /\ Ring = 0..n - 1
  BY ProgramTypes
<1>2. PICK u \in 0..n : u = Used(k)
  BY <1>1, AtRing
<1>3. u > 0 /\ At(k, 0) = t
  <2>1. IsHead(t)
    BY HoldsBlock DEF TurnInv
  <2> QED
    BY <1>2, <2>1, HoldsBlock
<1>4. ring[k] \in Rings(n) /\ ring[k].num_used > 0 /\ u = ring[k].num_used
  BY <1>1, <1>2, <1>3, AtRing DEF Used
<1>5. t \in 0..n - 1 /\ Nth(ring[k], 0, n) = t
  BY <1>1, <1>3 DEF At
<1>6. /\ r \in Rings(n) /\ r.num_used = u
      /\ Nth(r, u - 1, n) = t
  BY <1>1, <1>4, <1>5, Rotates
<1> HIDE DEF r
<1>7. r.cur \in 0..n - 1 /\ r.num_used # 0
  <2>1. r.num_used # 0
    BY <1>3, <1>6
  <2>2. r.cur \in 0..n - 1
    BY <1>6 DEF Rings
  <2> QED
    BY <2>1, <2>2
<1>8. ring[k].num_used = 1 => r.team_ids[r.cur] = t
  <2> SUFFICES ASSUME u = 1 PROVE r.team_ids[r.cur] = t
    BY <1>4
  <2>1. Nth(r, 0, n) = t
    BY <1>6
  <2>2. (r.cur + 0) % n = r.cur
    BY <1>1, <1>7
  <2> QED
    BY <2>1, <2>2 DEF Nth, Behind
<1>9. /\ ring' = [ring EXCEPT ![k] = r]
      /\ Post(IF ring[k].num_used = 1 THEN t ELSE r.team_ids[r.cur])
  BY DEF PassTurn, r
<1>10. Post(r.team_ids[r.cur])
  BY <1>8, <1>9
<1>11. TellHead(k, r)
  BY <1>7, <1>9, <1>10 DEF TellHead
<1> QED
  BY <1>11 DEF r

\* gomp_loop_ordered_dynamic_next, gomp_loop_ordered_guided_next
LEMMA QueueNextKeeps ==
    ASSUME OrderedInv, NEW t \in Ring, QueueNextBlock(t)
    PROVE  OrderedInv'
<1> USE DEF OrderedInv
<1>0. PICK k \in Loops : inLoop[t] = k /\ pos[t] = "next"
  BY HoldsBlock DEF QueueNextBlock
<1> DEFINE sh == ShareAt(k)
           n == program.nthreads
<1>1. Share(t) = sh /\ UNCHANGED <<program, inLoop, then, trip, latest>>
  BY <1>0 DEF Share, ShareAt, FirstOf, LoopOf, QueueNextBlock
<1>2. \/ /\ sh.next # sh.end /\ HoldNext(t, sh)
         /\ IF n = 1 THEN UNCHANGED <<ring, ordered_release>>
            ELSE PassTurn(t, k, n)
      \/ /\ sh.next = sh.end /\ NoMore(t) /\ UNCHANGED wshare
         /\ IF n = 1 THEN UNCHANGED <<ring, ordered_release>>
            ELSE TellHead(k, DropHead(ring[k], n))
  BY <1>0, <1>1 DEF QueueNextBlock
<1>3. n # 1 => n > 1
  BY ProgramTypes
<1>4. CASE /\ sh.next # sh.end /\ HoldNext(t, sh)
           /\ n # 1 /\ PassTurn(t, k, n)
  <2>1. TellHead(k, Rotate(ring[k], t, n))
    BY <1>0, <1>3, <1>4, PassTurnTellsHead
  <2> QED
    BY <1>0, <1>1, <1>3, <1>4, <2>1, AnotherBlockKeeps
<1>5. CASE /\ sh.next = sh.end /\ NoMore(t) /\ UNCHANGED wshare
           /\ n # 1 /\ TellHead(k, DropHead(ring[k], n))
  BY <1>0, <1>1, <1>3, <1>5, LastBlockKeeps
<1>6. CASE n = 1 /\ UNCHANGED <<ring, ordered_release>>
  <2>1. ring' \in [Loops -> Rings(n)] /\ ordered_release' \in [Ring -> Nat]
    BY <1>6 DEF OrderedTypes
  <2>2. OrderedTypes' /\ BlocksInv'
    <3>1. CASE sh.next # sh.end /\ HoldNext(t, sh)
      BY <1>0, <1>1, <2>1, <3>1, TakesBlock
    <3>2. CASE NoMore(t) /\ UNCHANGED wshare
      BY <1>0, <1>1, <2>1, <3>2, NoMoreKeeps
    <3> QED
      BY <1>2, <3>1, <3>2
  <2>3. RingInv' /\ TurnInv'
    BY <1>1, <1>6, AloneKeeps
  <2> QED
    BY <2>2, <2>3
<1> QED
  BY <1>2, <1>4, <1>5, <1>6

\* Nothing has been handed out when the program starts.
LEMMA OrderedInitKeeps ==
    ASSUME OrderedInit,
           \A p \in OrderedPrograms : \A k \in 1..p.length : p.loops[k].sched # "static"
    PROVE  OrderedInv
<1> DEFINE n == program.nthreads
<1>1. /\ program \in OrderedPrograms /\ n \in Nat \ {0} /\ program.length \in Nat
      /\ Ring = 0..n - 1 /\ Loops = 1..program.length
      /\ \A k \in Loops : program.loops[k].sched # "static"
  BY OrderedAssumption DEF OrderedInit, Ring, Loops
<1>2. /\ pos \in [Ring -> Positions] /\ inLoop \in [Ring -> Nat \ {0}]
      /\ iteration \in [Ring -> Int] /\ behind \in [Ring -> Int]
      /\ then \in [Ring -> {"none", "section", "next"}]
      /\ ordered_release \in [Ring -> Nat] /\ latest \in [Loops -> Int]
      /\ \A t \in Ring : pos[t] = "loop" /\ ordered_release[t] = 0
  BY DEF OrderedInit, Positions, Loops
<1>3. /\ ring \in [Loops -> Rings(n)]
      /\ \A k \in Loops : ring[k].owner = -1 /\ Used(k) = 0
  <2>1. NewRing(n) \in Rings(n)
    <3>1. -1 \in -1..n - 1 /\ 0 \in 0..n - 1 /\ 0 \in 0..n
      BY <1>1
    <3> QED
      BY <3>1 DEF NewRing, Rings
  <2>2. NewRing(n).owner = -1 /\ NewRing(n).num_used = 0
    BY DEF NewRing
  <2> QED
    BY <2>1, <2>2 DEF OrderedInit, Used, Loops
<1>4. DOMAIN wshare = Loops /\ \A k \in Loops : ShareAt(k) = FirstOf(k) /\ latest[k] = -1
  BY DEF OrderedInit, ShareAt, Loops
<1>5. ASSUME NEW k \in Loops
      PROVE  /\ FirstOf(k).next = 0 /\ FirstOf(k).end \in 0..LONG_MAX
             /\ FirstOf(k) = [FirstOf(k) EXCEPT !.next = 0]
  BY <1>1, MadeShares
<1>6. OrderedTypes
  <2>1. \A k \in Loops : /\ ShareAt(k).next \in 0..FirstOf(k).end
                         /\ ShareAt(k) = [FirstOf(k) EXCEPT !.next = ShareAt(k).next]
    BY <1>4, <1>5, Words
  <2> QED
    BY <1>1, <1>2, <1>3, <1>4, <2>1 DEF OrderedTypes
<1>7. \A t \in Ring, k \in Loops : ~Has(t, k)
  BY <1>2 DEF Has
<1>8. BlocksInv
  BY <1>4, <1>5, <1>7 DEF BlocksInv
<1>9. RingInv
  BY <1>3, <1>7 DEF RingInv
<1>10. TurnInv
  <2>1. \A t \in Ring : ~IsHead(t)
    BY <1>7 DEF IsHead
  <2> QED
    BY <1>2, <1>3, <2>1 DEF TurnInv
<1> QED
  BY <1>6, <1>8, <1>9, <1>10 DEF OrderedInv

\* Every step keeps the invariant.
LEMMA OrderedNextKeeps == OrderedInv /\ [OrderedNext]_orderedVars => OrderedInv'
<1> SUFFICES ASSUME OrderedInv, [OrderedNext]_orderedVars PROVE OrderedInv'
  OBVIOUS
<1>1. CASE UNCHANGED orderedVars
  <2>1. OrderedTypes'
    BY <1>1 DEF orderedVars, OrderedInv, OrderedTypes, Ring, Loops, ShareAt, FirstOf
  <2>2. BlocksInv'
    BY <1>1 DEF orderedVars, OrderedInv, BlocksInv, Ring, Loops, ShareAt, FirstOf, Has, AsksNext
  <2>3. RingInv'
    BY <1>1 DEF orderedVars, OrderedInv, RingInv, Ring, Loops, Has, Used, At, Nth, Behind
  <2>4. TurnInv'
    BY <1>1 DEF orderedVars, OrderedInv, TurnInv, Ring, Loops, Has, Used, At, Nth, Behind,
                IsHead, Owns
  <2> QED
    BY <2>1, <2>2, <2>3, <2>4 DEF OrderedInv
<1>2. ASSUME NEW t \in Ring, OrderedStep(t) PROVE OrderedInv'
  <2>1. CASE QueueStart(t)
    BY <2>1, QueueStartKeeps
  <2>2. CASE LeaveOutSection(t) \/ OrderedEnd(t)
    BY <2>2, AdvanceKeeps DEF LeaveOutSection, OrderedEnd
  <2>3. CASE OrderedStart(t)
    BY <2>3, OrderedStartKeeps
  <2>4. CASE SyncCheck(t)
    BY <2>4, SyncCheckKeeps
  <2>5. CASE SyncWait(t)
    BY <2>5, SyncWaitKeeps
  <2>6. CASE SyncOwn(t)
    BY <2>6, SyncOwnKeeps
  <2>7. CASE QueueNextBlock(t)
    BY <2>7, QueueNextKeeps
  <2>8. CASE OrderedLoopEnd(t)
    BY <2>8, LoopEndKeeps
  <2>9. CASE StaticStart(t) \/ StaticNextBlock(t)
    <3>1. inLoop[t] \in Loops
      <4>1. CASE StaticStart(t)
        <5>1. inLoop[t] \in Nat \ {0} /\ program.length \in Nat /\ Loops = 1..program.length
          BY ProgramTypes DEF OrderedTypes, OrderedInv
        <5>2. inLoop[t] <= program.length
          BY <4>1 DEF StaticStart
        <5> QED
          BY <5>1, <5>2
      <4>2. CASE StaticNextBlock(t)
        BY <4>2, HoldsBlock DEF StaticNextBlock
      <4> QED
        BY <2>9, <4>1, <4>2
    <3>2. LoopOf(t).sched = "static"
      BY <2>9 DEF StaticStart, StaticNextBlock
    <3> QED
      BY <3>1, <3>2 DEF LoopOf, OrderedInv, OrderedTypes
  <2> QED
    BY <1>2, <2>1, <2>2, <2>3, <2>4, <2>5, <2>6, <2>7, <2>8, <2>9 DEF OrderedStep
<1> QED
  BY <1>1, <1>2 DEF OrderedNext

\* Two threads in their sections of one loop are the same: it owns the ring.
LEMMA OrderedInvInOrder == OrderedInv => InOrder
<1> SUFFICES ASSUME OrderedInv, NEW t \in Ring, pos[t] = "section"
             PROVE  /\ latest[inLoop[t]] = iteration[t]
                    /\ \A u \in Ring : pos[u] = "section" /\ inLoop[u] = inLoop[t] => u = t
  BY DEF InOrder
<1>1. latest[inLoop[t]] = iteration[t]
  BY HoldsBlock
<1>2. ASSUME NEW u \in Ring, pos[u] = "section", inLoop[u] = inLoop[t], u # t PROVE FALSE
  <2>1. program.nthreads > 1
    BY <1>2, ProgramTypes DEF OrderedInv
  <2>2. Owns(t) /\ Owns(u)
    BY <1>2, <2>1 DEF OrderedInv, TurnInv
  <2> QED
    BY <1>2, <2>2 DEF Owns
<1> QED
  BY <1>1, <1>2

\* The sections of every loop with a dynamic or guided schedule are executed in the
\* order of its iterations, one at a time, by any number of threads and in any
\* number of loops, one after the other (gomp_ordered_first, gomp_ordered_last,
\* gomp_ordered_next and gomp_ordered_sync).
THEOREM QueuedInOrder ==
    ASSUME \A p \in OrderedPrograms : \A k \in 1..p.length : p.loops[k].sched # "static"
    PROVE  OrderedSpec => []InOrder
<1>1. OrderedInit => OrderedInv
  BY OrderedInitKeeps
<1>2. OrderedInv /\ [OrderedNext]_orderedVars => OrderedInv'
  BY OrderedNextKeeps
<1>3. OrderedInv => InOrder
  BY OrderedInvInOrder
<1> QED
  BY <1>1, <1>2, <1>3, PTL DEF OrderedSpec
-----------------------------------------------------------------------------
(* Blocks of the compare-and-swap and fetch-and-add loops.                 *)

\* Where a loop ends that is run through from its start, ...
Finish(l) == CanonicalEnd(l.incr > 0, l.start, l.end)
Goal(l) == Distance(l, Finish(l))
\* ... and the bound at a distance from its start.
Place(l, d) == IF l.incr > 0 THEN l.start + d ELSE l.start - d

\* y is the bound behind a block that begins at distance d.
Advances(l, d, y) ==
    \E e \in d + 1..Goal(l) :
        /\ y = Place(l, e)
        /\ e = Goal(l) \/ \E k \in Nat : e = d + k * Stride(l)

\* The loops of the programs.
LEMMA LoopFacts ==
    ASSUME NEW l \in LoopPrograms
    PROVE  /\ Stride(l) \in Nat \ {0} /\ l.chunk \in Nat /\ l.nthreads \in Nat \ {0}
           /\ l.incr \in Int \ {0} /\ l.start \in Int /\ l.end \in Int
           /\ Goal(l) \in Nat /\ Finish(l) = Place(l, Goal(l))
           /\ Finish(l) \in Int
           /\ \A d \in 0..Goal(l) : Place(l, d) \in Values(l.type)
           /\ \A d \in Int : Place(l, d) \in Int /\ Distance(l, Place(l, d)) = d
           /\ \A x \in Int : Distance(l, x) \in Int /\ Place(l, Distance(l, x)) = x
<1>1. LONG_MAX \in Nat /\ ULLONG_MAX \in Nat
  BY Words DEF ULLONG_MAX
<1>2. Values(l.type) \subseteq Int
  BY <1>1 DEF Values
<1>3. /\ l.incr \in Int \ {0} /\ l.chunk \in Nat /\ l.nthreads \in Nat \ {0}
      /\ l.start \in Values(l.type) /\ l.end \in Values(l.type)
  BY LoopAssumption
<1>4. l.start \in Int /\ l.end \in Int
  BY <1>2, <1>3
<1>5. Stride(l) \in Nat \ {0}
  BY <1>3 DEF Stride
<1>6. /\ Goal(l) \in Nat /\ Finish(l) = Place(l, Goal(l)) /\ Finish(l) \in Int
      /\ Finish(l) \in Values(l.type)
  BY <1>3, <1>4 DEF Goal, Finish, Distance, Place, CanonicalEnd
<1>7. ASSUME NEW d \in 0..Goal(l) PROVE Place(l, d) \in Values(l.type)
  <2>1. PICK low \in Int, high \in Int : Values(l.type) = low..high
    BY <1>1 DEF Values
  <2>2. PICK s \in Int, g \in Nat : s = l.start /\ g = Goal(l) /\ d \in 0..g
    BY <1>4, <1>6
  <2>3. /\ Place(l, d) = IF l.incr > 0 THEN s + d ELSE s - d
        /\ Place(l, g) = IF l.incr > 0 THEN s + g ELSE s - g
    BY <2>2 DEF Place
  <2>4. s \in low..high /\ Place(l, g) \in low..high
    BY <1>3, <1>6, <2>1, <2>2
  <2>5. CASE l.incr > 0
    BY <2>1, <2>2, <2>3, <2>4, <2>5
  <2>6. CASE ~(l.incr > 0)
    BY <2>1, <2>2, <2>3, <2>4, <2>6
  <2> QED
    BY <2>5, <2>6
<1>8. /\ \A d \in Int : Place(l, d) \in Int /\ Distance(l, Place(l, d)) = d
      /\ \A x \in Int : Distance(l, x) \in Int /\ Place(l, Distance(l, x)) = x
  BY <1>3, <1>4 DEF Place, Distance
<1> QED
  BY <1>3, <1>4, <1>5, <1>6, <1>7, <1>8

\* A number that is wrapped round the type any number of times.
LEMMA Remainder ==
    ASSUME NEW a \in Int, NEW b \in Nat \ {0}
    PROVE  \E q \in Int : \E r \in 0..b - 1 : r = a % b /\ a = b * q + r
<1>1. a = b * (a \div b) + (a % b)
  OBVIOUS
<1>2. a \div b \in Int /\ a % b \in 0..b - 1
  OBVIOUS
<1> QED
  BY <1>1, <1>2

\* Unsigned(x) is x for a number of the type, however often it was wrapped.
LEMMA Wraps ==
    /\ ULLONG_MAX \in Nat /\ ULLONG_MAX = 2 * LONG_MAX + 1
    /\ \A x \in 0..ULLONG_MAX, k \in Int : Unsigned(x + k * (ULLONG_MAX + 1)) = x
    /\ \A x \in 0..ULLONG_MAX :
           /\ Unsigned(x) = x /\ Unsigned(x - (ULLONG_MAX + 1)) = x
           /\ Unsigned(x + (ULLONG_MAX + 1)) = x
<1>1. PICK m \in Nat : m = LONG_MAX
  BY Words
<1>2. PICK w \in Nat \ {0} : w = 2^WordBits /\ w = 2 * (m + 1)
  BY <1>1, Words
<1>3. ULLONG_MAX = w - 1
  BY <1>2 DEF ULLONG_MAX
<1>4. ASSUME NEW x \in 0..w - 1, NEW k \in Int PROVE (x + k * w) % w = x
  <2>1. PICK z \in Int, p \in Int : p = k * w /\ z = x + p
    OBVIOUS
  <2>0. PICK q \in Int : \E r \in 0..w - 1 : r = z % w /\ z = w * q + r
    BY Remainder
  <2>2. PICK r \in 0..w - 1 : r = z % w /\ z = w * q + r
    BY <2>0
  <2>3. r - x = w * (k - q)
    <3>1. w * (k - q) = k * w - w * q
      BY <1>2
    <3>2. PICK a \in Int : a = w * q
      BY <1>2
    <3>3. z = a + r
      BY <2>2, <3>2
    <3>4. r - x = p - a
      BY <2>1, <3>2, <3>3
    <3> QED
      BY <2>1, <3>1, <3>2, <3>4
  <2>4. PICK j \in Int : j = k - q
    OBVIOUS
  <2>5. j >= 1 => w * j >= w
    OBVIOUS
  <2>6. j <= -1 => w * j <= -w
    OBVIOUS
  <2>7. j = 0 /\ w * j = 0
    <3>1. r - x < w /\ r - x > -w
      BY <2>2
    <3>2. r - x = w * j
      BY <2>3, <2>4
    <3> QED
      BY <2>5, <2>6, <3>1, <3>2
  <2> QED
    <3>1. r - x = 0
      BY <2>3, <2>4, <2>7
    <3>2. r = x
      BY <2>2, <3>1
    <3> QED
      BY <2>2, <2>1, <3>2
<1>5. ASSUME NEW x \in 0..ULLONG_MAX, NEW k \in Int
      PROVE  Unsigned(x + k * (ULLONG_MAX + 1)) = x
  <2>1. x \in 0..w - 1 /\ ULLONG_MAX + 1 = w
    BY <1>2, <1>3
  <2> QED
    BY <1>2, <1>4, <2>1 DEF Unsigned
<1>6. ASSUME NEW x \in 0..ULLONG_MAX
      PROVE  /\ Unsigned(x) = x /\ Unsigned(x - (ULLONG_MAX + 1)) = x
             /\ Unsigned(x + (ULLONG_MAX + 1)) = x
  <2>1. /\ x + 0 * (ULLONG_MAX + 1) = x
        /\ x + (-1) * (ULLONG_MAX + 1) = x - (ULLONG_MAX + 1)
        /\ x + 1 * (ULLONG_MAX + 1) = x + (ULLONG_MAX + 1)
    BY <1>2, <1>3
  <2> QED
    BY <1>5, <2>1
<1> QED
  BY <1>1, <1>2, <1>3, <1>5, <1>6

\* What the work shares of a loop are.
LoopShares == [type : {"long", "ull"}, sched : {"static", "dynamic", "guided"}, chunk : Int,
           end : Int, incr : Int, next : Int, mode : 0..3]

\* One that has got another next.
LEMMA ShareWith ==
    ASSUME NEW sh \in LoopShares, NEW y \in Int
    PROVE  LET other == [sh EXCEPT !.next = y]
           IN /\ other \in LoopShares /\ other.next = y
              /\ other.type = sh.type /\ other.sched = sh.sched /\ other.chunk = sh.chunk
              /\ other.end = sh.end /\ other.incr = sh.incr /\ other.mode = sh.mode
BY DEF LoopShares

\* A work share as the first thread makes it; its bounds are numbers of the type.
LEMMA MadeLoop ==
    ASSUME NEW l \in LoopPrograms
    PROVE  LET sh == FirstShare(l)
               step == Stride(l)
               size == l.chunk * step
               up == l.incr > 0
               w == ULLONG_MAX + 1
           IN /\ sh.type = (IF l.type = "ull" THEN "ull" ELSE "long") /\ sh.sched = l.sched
              /\ sh.end = Finish(l) /\ sh.next = l.start
              /\ sh \in LoopShares
              /\ l.sched # "dynamic" => sh.chunk = l.chunk
              /\ l.type # "ull" =>
                    /\ sh.incr = l.incr /\ sh.mode \in {0, 1}
                    /\ l.sched # "dynamic" => sh.mode = 0
                    /\ l.sched = "dynamic" => sh.chunk = IF up THEN size ELSE -size
              /\ l.type = "ull" =>
                    /\ sh.incr = (IF up THEN step ELSE w - step)
                    /\ sh.mode \in (IF up THEN {0, 1} ELSE {2, 3})
                    /\ l.sched # "dynamic" => sh.mode = IF up THEN 0 ELSE 2
                    /\ l.sched = "dynamic" => sh.chunk = IF up THEN size ELSE w - size
<1> DEFINE size == l.chunk * Stride(l)
<1>1. /\ l.type \in {"long", "ull", "sections"} /\ l.incr \in Int \ {0} /\ l.chunk \in Nat
      /\ Stride(l) \in Values(l.type) /\ size \in Values(l.type) /\ l.start \in Values(l.type)
      /\ l.sched # "static" => l.chunk > 0
      /\ l.type = "sections" => /\ l.sched = "dynamic" /\ l.start = 1 /\ l.end > 0
                               /\ l.incr = 1 /\ l.chunk = 1 /\ l.end \in Values(l.type)
  BY LoopAssumption
<1>2. Stride(l) \in Nat \ {0} /\ Finish(l) \in Int
  BY LoopFacts
<1>3. PICK m \in Nat : m = LONG_MAX /\ ULLONG_MAX = 2 * m + 1
  BY Words, Wraps
<1>4. size \in Nat /\ l.chunk * l.incr = IF l.incr > 0 THEN size ELSE -size
  BY <1>1, <1>2 DEF Stride
<1>5. l.sched = "dynamic" => size > 0
  BY <1>1, <1>2
<1>6. CASE l.type = "long"
  <2>1. size \in 0..m /\ -size \in -m..m
    BY <1>1, <1>3, <1>4, <1>6 DEF Values
  <2>2. Signed(l.chunk * l.incr) = IF l.incr > 0 THEN size ELSE -size
    <3> HIDE DEF size
    <3> QED
      BY <1>3, <1>4, <2>1, Signs
  <2> DEFINE sh == FirstShare(l)
             chunk == IF l.sched = "dynamic" THEN Signed(l.chunk * l.incr) ELSE l.chunk
  <2>3. chunk \in Int
    BY <1>1, <1>4, <2>2
  <2>4. \E b \in {0, 1} : /\ l.sched # "dynamic" => b = 0
                         /\ sh = [type |-> "long", sched |-> l.sched, chunk |-> chunk,
                                  end |-> Finish(l), incr |-> l.incr, next |-> l.start, mode |-> b]
    BY <1>6 DEF FirstShare, LoopInit, Finish
  <2>5. l.start \in Int /\ l.sched \in {"static", "dynamic", "guided"}
    BY LoopFacts, LoopAssumption
  <2>6. sh \in LoopShares
    <3> HIDE DEF sh, chunk
    <3> QED
      BY <1>1, <1>2, <2>3, <2>4, <2>5 DEF LoopShares
  <2> QED
    BY <1>1, <1>6, <2>2, <2>4, <2>6
<1>7. CASE l.type = "sections"
  <2>1. Finish(l) = l.end
    BY <1>1, <1>3, <1>7 DEF Finish, CanonicalEnd, Values
  <2>2. l.end - 1 + 1 = l.end /\ size = 1
    BY <1>1, <1>3, <1>7 DEF Values, Stride
  <2>3. FirstShare(l) \in LoopShares
    BY <1>1, <1>2, <1>7, <2>1, <2>2 DEF FirstShare, SectionsInit, LoopShares
  <2> QED
    BY <1>1, <1>7, <2>1, <2>2, <2>3 DEF FirstShare, SectionsInit
<1>8. CASE l.type = "ull"
  <2>1. size \in 0..ULLONG_MAX /\ Stride(l) \in 1..ULLONG_MAX
    BY <1>1, <1>2, <1>3, <1>8 DEF Values
  <2>2. /\ l.sched = "dynamic" => 
              Unsigned(l.chunk * l.incr) = IF l.incr > 0 THEN size ELSE ULLONG_MAX + 1 - size
        /\ Unsigned(l.incr) = IF l.incr > 0 THEN Stride(l) ELSE ULLONG_MAX + 1 - Stride(l)
    <3>1. l.incr = IF l.incr > 0 THEN Stride(l) ELSE -Stride(l)
      BY <1>1 DEF Stride
    <3>2. ASSUME NEW x \in 1..ULLONG_MAX
          PROVE  Unsigned(x) = x /\ Unsigned(-x) = ULLONG_MAX + 1 - x
      <4>1. /\ ULLONG_MAX + 1 - x \in 0..ULLONG_MAX /\ x \in 0..ULLONG_MAX
            /\ (ULLONG_MAX + 1 - x) - (ULLONG_MAX + 1) = -x
        BY <1>3
      <4> QED
        BY <4>1, Wraps
    <3>3. l.sched = "dynamic" => size \in 1..ULLONG_MAX
      BY <1>3, <1>5, <2>1
    <3> HIDE DEF size
    <3> QED
      BY <1>4, <2>1, <3>1, <3>2, <3>3
  <2> DEFINE sh == FirstShare(l)
  <2>3. sh = LoopUllInit(l.incr > 0, l.start, l.end, l.incr, l.sched, l.chunk, l.seen)
    BY <1>8 DEF FirstShare
  <2>4. /\ sh.type = "ull" /\ sh.sched = l.sched /\ sh.next = l.start
        /\ sh.end = Finish(l)
        /\ sh.incr = Unsigned(l.incr)
        /\ sh.chunk = IF l.sched = "dynamic" THEN Unsigned(l.chunk * l.incr) ELSE l.chunk
    BY <2>3 DEF LoopUllInit, Finish
  <2>5. \E b \in {0, 1} : sh.mode = b + (IF l.incr > 0 THEN 0 ELSE 2)
    BY <2>3 DEF LoopUllInit
  <2>6. sh.mode \in (IF l.incr > 0 THEN {0, 1} ELSE {2, 3})
    BY <2>5
  <2>10. l.sched # "dynamic" => sh.mode = IF l.incr > 0 THEN 0 ELSE 2
    BY <2>3 DEF LoopUllInit
  <2>9. sh \in LoopShares
    <3>1. l.start \in Int /\ l.sched \in {"static", "dynamic", "guided"}
      BY LoopFacts, LoopAssumption
    <3>2. Unsigned(l.incr) \in Int /\ Unsigned(l.chunk * l.incr) \in Int
      BY <1>1, Signs
    <3> QED
      BY <1>1, <1>2, <2>3, <2>6, <3>1, <3>2 DEF LoopUllInit, Finish, LoopShares
  <2> HIDE DEF sh, size
  <2>7. /\ sh.incr = (IF l.incr > 0 THEN Stride(l) ELSE ULLONG_MAX + 1 - Stride(l))
        /\ l.sched = "dynamic" => 
               sh.chunk = IF l.incr > 0 THEN size ELSE ULLONG_MAX + 1 - size
    BY <2>2, <2>4
  <2>8. /\ sh.type = (IF l.type = "ull" THEN "ull" ELSE "long") /\ sh.sched = l.sched
        /\ sh.end = Finish(l) /\ sh.next = l.start
        /\ l.sched # "dynamic" => sh.chunk = l.chunk
    BY <1>8, <2>4
  <2> QED
    <3>1. ~(l.type # "ull")
      BY <1>8
    <3> QED
      BY <1>1, <1>2, <1>3, <1>4, <2>6, <2>7, <2>8, <2>9, <2>10, <3>1 DEF sh, size
<1> QED
  BY <1>1, <1>6, <1>7, <1>8

\* How long the loops are.
LEMMA Lengths ==
    ASSUME NEW l \in LoopPrograms
    PROVE  /\ l.type # "ull" => Goal(l) + Stride(l) - 1 <= LONG_MAX
           /\ Goal(l) <= ULLONG_MAX
           /\ l.sched = "static" => Goal(l) + Stride(l) - 1 <= ULLONG_MAX
           /\ Goal(l) = IF Distance(l, l.end) < 0 THEN 0 ELSE Distance(l, l.end)
<1>1. /\ l.incr \in Int \ {0} /\ l.start \in Values(l.type) /\ l.end \in Values(l.type)
      /\ Stride(l) \in Values(l.type)
      /\ l.type = "ull" \/ Distance(l, l.end) + Stride(l) - 1 <= LONG_MAX
      /\ l.sched = "static" => Distance(l, l.end) + Stride(l) - 1 <= ULLONG_MAX
  BY LoopAssumption
<1>2. l.start \in Int /\ l.end \in Int /\ Stride(l) \in Nat \ {0}
  BY LoopFacts
<1>3. LONG_MAX \in Nat /\ ULLONG_MAX \in Nat /\ ULLONG_MAX = 2 * LONG_MAX + 1
  BY Words, Wraps
<1>4. Goal(l) = IF Distance(l, l.end) < 0 THEN 0 ELSE Distance(l, l.end)
  BY <1>1, <1>2 DEF Goal, Finish, Distance, CanonicalEnd
<1>5. Distance(l, l.end) \in Int
  BY LoopFacts
<1>6. Goal(l) <= ULLONG_MAX
  BY <1>1, <1>2, <1>3, <1>4 DEF Values, Distance
<1>7. l.type # "ull" => Stride(l) <= LONG_MAX
  BY <1>1, <1>3 DEF Values
<1>8. Stride(l) <= ULLONG_MAX
  BY <1>1, <1>2, <1>3 DEF Values
<1> QED
  BY <1>1, <1>2, <1>3, <1>4, <1>5, <1>6, <1>7, <1>8

\* The share of a loop while it is executed.
Steady(l, sh) ==
    LET first == FirstShare(l)
    IN /\ sh \in LoopShares /\ sh.type = first.type /\ sh.sched = first.sched
       /\ sh.chunk = first.chunk /\ sh.end = first.end /\ sh.incr = first.incr
       /\ sh.mode = first.mode

\* The bounds of a loop are numbers of its type: they are not wrapped.
LEMMA Bounds ==
    ASSUME NEW l \in LoopPrograms, NEW d \in 0..Goal(l)
    PROVE  /\ l.type # "ull" => Signed(Place(l, d)) = Place(l, d)
           /\ l.type = "ull" => Unsigned(Place(l, d)) = Place(l, d)
<1>1. Place(l, d) \in Values(l.type)
  BY LoopFacts
<1> QED
  BY <1>1, Signs, Wraps DEF Values

\* The block that gomp_iter_dynamic_next takes by compare-and-swap: a chunk, or what
\* is left of the loop.
LEMMA DynamicBlock ==
    ASSUME NEW l \in LoopPrograms, l.sched = "dynamic", NEW d \in 0..Goal(l) - 1,
           NEW sh, Steady(l, sh)
    PROVE  /\ l.type # "ull" => Advances(l, d, DynamicEnd(sh, Place(l, d)))
           /\ l.type = "ull" => Advances(l, d, UllDynamicEnd(sh, Place(l, d)))
<1>1. PICK g \in Nat, k \in Nat \ {0}, s \in Int, m \in Nat :
          g = Goal(l) /\ k = Stride(l) /\ s = l.start /\ m = LONG_MAX
  BY LoopFacts, Words
<1>2. PICK c \in Nat : c = l.chunk * k
  BY <1>1, LoopFacts
<1>3. c > 0 /\ l.chunk \in Nat /\ c \in Values(l.type) /\ l.incr \in Int \ {0}
  BY <1>1, <1>2, LoopAssumption
<1> DEFINE up == l.incr > 0
<1>5. sh.end = Place(l, g)
  BY <1>1, LoopFacts, MadeLoop DEF Steady
<1>6. \A e \in Int : Place(l, e) = IF up THEN s + e ELSE s - e
  BY <1>1 DEF Place
<1> DEFINE b == IF c > g - d THEN g - d ELSE c
<1>7. /\ d + b \in d + 1..g
      /\ d + b = g \/ (b = l.chunk * k /\ l.chunk \in Nat)
  BY <1>1, <1>2, <1>3
<1>8. Advances(l, d, Place(l, d + b))
  BY <1>1, <1>7 DEF Advances
<1>9. ASSUME l.type # "ull" PROVE DynamicEnd(sh, Place(l, d)) = Place(l, d + b)
  <2>1. g - d \in 1..m
    BY <1>1, <1>9, Lengths
  <2>2. sh.chunk = (IF up THEN c ELSE -c) /\ sh.incr = l.incr
    BY <1>1, <1>2, <1>9, MadeLoop DEF Steady
  <2>3. Signed(sh.end - Place(l, d)) = IF up THEN g - d ELSE -(g - d)
    <3>1. sh.end - Place(l, d) = IF up THEN g - d ELSE -(g - d)
      BY <1>1, <1>5, <1>6
    <3>2. g - d \in -m - 1..m /\ -(g - d) \in -m - 1..m
      BY <1>1, <2>1
    <3> QED
      BY <1>1, <3>1, <3>2, Signs
  <2>4. DynamicEnd(sh, Place(l, d)) = Signed(Place(l, d + b))
    <3>1. CASE up
      BY <1>1, <1>3, <1>6, <2>2, <2>3, <3>1 DEF DynamicEnd
    <3>2. CASE ~up
      <4>1. l.incr < 0
        BY <1>3, <3>2
      <4>2. sh.chunk < -(g - d) <=> c > g - d
        BY <1>1, <2>2, <3>2
      <4>3. DynamicEnd(sh, Place(l, d)) = Signed(Place(l, d) + (-b))
        <5>1. Signed(sh.end - Place(l, d)) = -(g - d) /\ sh.chunk = -c /\ sh.incr = l.incr
          BY <2>2, <2>3, <3>2
        <5>2. DynamicEnd(sh, Place(l, d)) =
                  Signed(Place(l, d) + (IF sh.chunk < -(g - d) THEN -(g - d) ELSE sh.chunk))
          BY <1>3, <4>1, <5>1 DEF DynamicEnd
        <5> QED
          BY <1>1, <4>2, <5>1, <5>2
      <4>4. Place(l, d) + (-b) = Place(l, d + b)
        <5>1. b \in Int
          BY <1>1
        <5> HIDE DEF b
        <5> QED
          BY <1>1, <1>6, <3>2, <5>1
      <4> QED
        BY <4>3, <4>4
    <3> QED
      BY <3>1, <3>2
  <2>5. d + b \in 0..Goal(l)
    BY <1>1, <1>7
  <2> HIDE DEF b
  <2> QED
    BY <1>9, <2>4, <2>5, Bounds
<1>10. ASSUME l.type = "ull" PROVE UllDynamicEnd(sh, Place(l, d)) = Place(l, d + b)
  <2> DEFINE w == ULLONG_MAX + 1
  <2>1. g - d \in 1..ULLONG_MAX /\ ULLONG_MAX \in Nat
    BY <1>1, Lengths, Wraps
  <2>2. /\ sh.chunk = (IF up THEN c ELSE w - c) /\ c \in 1..ULLONG_MAX
        /\ sh.mode \in IF up THEN {0, 1} ELSE {2, 3}
    <3>1. c \in 1..ULLONG_MAX
      BY <1>3, <1>10, <2>1 DEF Values
    <3> QED
      BY <1>1, <1>2, <1>10, <3>1, MadeLoop DEF Steady
  <2>3. Unsigned(sh.end - Place(l, d)) = IF up THEN g - d ELSE w - (g - d)
    <3>1. sh.end - Place(l, d) = IF up THEN g - d ELSE (w - (g - d)) - w
      BY <1>1, <1>5, <1>6, <2>1
    <3>2. g - d \in 0..ULLONG_MAX /\ w - (g - d) \in 0..ULLONG_MAX
      BY <1>1, <2>1
    <3>3. Unsigned(g - d) = g - d /\ Unsigned((w - (g - d)) - w) = w - (g - d)
      BY <3>2, Wraps
    <3> QED
      BY <3>1, <3>3
  <2>4. \/ UllDynamicEnd(sh, Place(l, d)) = Unsigned(Place(l, d + b))
        \/ UllDynamicEnd(sh, Place(l, d)) = Unsigned(Place(l, d + b) + w)
    <3>1. CASE up
      BY <1>1, <1>3, <1>6, <2>2, <2>3, <3>1 DEF UllDynamicEnd
    <3>2. CASE ~up
      <4>1. sh.chunk < w - (g - d) <=> c > g - d
        BY <2>1, <2>2, <3>2
      <4>2. UllDynamicEnd(sh, Place(l, d)) = Unsigned(Place(l, d) + (w - b))
        BY <1>1, <2>1, <2>2, <2>3, <3>2, <4>1 DEF UllDynamicEnd
      <4>3. Place(l, d) + (w - b) = Place(l, d + b) + w
        <5>1. b \in Int
          BY <1>1
        <5> HIDE DEF b
        <5>2. Place(l, d) = s - d /\ Place(l, d + b) = s - (d + b)
          BY <1>6, <3>2, <5>1
        <5>3. PICK u \in Int : u = w
          BY <2>1
        <5> HIDE DEF b, w
        <5> QED
          BY <1>1, <5>1, <5>2, <5>3
      <4> QED
        BY <4>2, <4>3
    <3> QED
      BY <3>1, <3>2
  <2>5. d + b \in 0..Goal(l)
    BY <1>1, <1>7
  <2>6. Place(l, d + b) \in 0..ULLONG_MAX
    <3> HIDE DEF b
    <3> QED
      BY <1>10, <2>5, LoopFacts DEF Values
  <2> HIDE DEF b
  <2> QED
    BY <2>4, <2>6, Wraps
<1> QED
  BY <1>8, <1>9, <1>10

\* Whole strides that fit into a distance.
LEMMA WholeStrides ==
    ASSUME NEW r \in Nat, NEW k \in Nat \ {0}, NEW q \in Nat
    PROVE  /\ r \div k \in 0..r /\ q <= r \div k <=> q * k <= r
           /\ q > 0 => q * k > 0
<1>1. PICK n \in Nat, t \in 0..k - 1 : n = r \div k /\ r = k * n + t
  BY Division
<1>2. n <= k * n
  BY <1>1
<1>3. ASSUME q <= n PROVE q * k <= r
  <2>1. k * q <= k * n
    BY <1>1, <1>3
  <2> QED
    BY <1>1, <2>1
<1>4. ASSUME q >= n + 1 PROVE q * k > r
  <2>1. k * q >= k * (n + 1)
    BY <1>1, <1>4
  <2>2. k * (n + 1) = k * n + k
    BY <1>1
  <2> QED
    BY <1>1, <2>1, <2>2
<1>5. q > 0 => q * k > 0
  OBVIOUS
<1> QED
  BY <1>1, <1>2, <1>3, <1>4, <1>5

\* The block that gomp_iter_guided_next takes.
LEMMA GuidedBlock ==
    ASSUME NEW l \in LoopPrograms, l.sched = "guided", NEW d \in 0..Goal(l) - 1,
           NEW nth \in Nat \ {0}, NEW sh, Steady(l, sh)
    PROVE  /\ l.type # "ull" => Advances(l, d, GuidedEnd(sh, Place(l, d), nth))
           /\ l.type = "ull" => Advances(l, d, UllGuidedEnd(sh, Place(l, d), nth))
<1>1. PICK g \in Nat, k \in Nat \ {0}, s \in Int, m \in Nat, c \in Nat \ {0} :
          g = Goal(l) /\ k = Stride(l) /\ s = l.start /\ m = LONG_MAX /\ c = l.chunk
  <2>1. l.chunk > 0
    BY LoopAssumption
  <2>2. Goal(l) \in Nat /\ Stride(l) \in Nat \ {0} /\ l.start \in Int /\ l.chunk \in Nat
    BY LoopFacts
  <2>3. l.chunk \in Nat \ {0} /\ LONG_MAX \in Nat
    BY <2>1, <2>2, Words
  <2> QED
    BY <2>2, <2>3
<1> DEFINE up == l.incr > 0
<1>2. /\ sh.end = Place(l, g) /\ sh.chunk = c
      /\ l.incr \in Int \ {0} /\ l.incr = IF up THEN k ELSE -k
  <2>1. l.incr \in Int \ {0} /\ l.incr = IF up THEN k ELSE -k
    BY <1>1, LoopFacts DEF Stride
  <2> QED
    BY <1>1, <2>1, LoopFacts, MadeLoop DEF Steady
<1>3. \A e \in Int : Place(l, e) = IF up THEN s + e ELSE s - e
  BY <1>1 DEF Place
<1>4. PICK r \in Nat \ {0} : r = g - d
  BY <1>1
<1>5. PICK n \in Nat : n = r \div k /\ n <= r
  BY <1>1, WholeStrides
<1>6. PICK q \in Nat \ {0} : q = AtLeastChunk(Unsigned(n + nth - 1) \div nth, c)
  <2>1. Unsigned(n + nth - 1) \in Nat
    BY Signs
  <2>2. Unsigned(n + nth - 1) \div nth \in Nat
    BY <2>1
  <2> QED
    BY <2>2 DEF AtLeastChunk
<1>7. q <= n => q * k \in Nat \ {0} /\ d + q * k \in d + 1..g
  <2>1. q <= n => q * k <= r /\ q * k > 0 /\ q * k \in Nat
    BY <1>5, WholeStrides
  <2> QED
    BY <1>1, <1>4, <2>1
<1>8. /\ Advances(l, d, Place(l, g))
      /\ q <= n => Advances(l, d, Place(l, d + q * k))
  <2>1. g \in d + 1..Goal(l)
    BY <1>1
  <2> QED
    BY <1>1, <1>7, <2>1 DEF Advances
<1>9. ASSUME l.type # "ull"
      PROVE  GuidedEnd(sh, Place(l, d), nth) =
                 IF q <= n THEN Place(l, d + q * k) ELSE Place(l, g)
  <2>1. r \in 1..m
    BY <1>1, <1>4, <1>9, Lengths
  <2>2. sh.incr = l.incr
    BY <1>9, MadeLoop DEF Steady
  <2>3. Signed(sh.end - Place(l, d)) = IF up THEN r ELSE -r
    <3>1. sh.end - Place(l, d) = IF up THEN r ELSE -r
      BY <1>1, <1>2, <1>3, <1>4
    <3>2. r \in -m - 1..m /\ -r \in -m - 1..m
      BY <1>1, <2>1
    <3> QED
      BY <1>1, <3>1, <3>2, Signs
  <2>4. Quotient(IF up THEN r ELSE -r, l.incr) = n
    <3>1. CASE up
      BY <1>1, <1>2, <1>4, <1>5, <3>1 DEF Quotient
    <3>2. CASE ~up
      <4>1. -r < 0 /\ -k < 0 /\ -(-r) = r /\ -(-k) = k
        BY <1>1, <1>4
      <4> QED
        BY <1>2, <1>5, <3>2, <4>1 DEF Quotient
    <3> QED
      BY <3>1, <3>2
  <2>5. Unsigned(n) = n
    BY <1>1, <1>5, <2>1, Signs
  <2>6. GuidedEnd(sh, Place(l, d), nth) =
            IF q <= n THEN Signed(Place(l, d) + q * l.incr) ELSE Place(l, g)
    BY <1>2, <1>6, <2>2, <2>3, <2>4, <2>5 DEF GuidedEnd
  <2>7. q <= n => Place(l, d) + q * l.incr = Place(l, d + q * k)
    <3>1. q * l.incr = IF up THEN q * k ELSE -(q * k)
      BY <1>2
    <3>2. PICK a \in Nat : a = q * k
      BY <1>1
    <3>3. d + a \in Int /\ d \in Int
      BY <1>1, <3>2
    <3>4. CASE up
      BY <1>1, <1>3, <3>1, <3>2, <3>3, <3>4
    <3>5. CASE ~up
      BY <1>1, <1>3, <3>1, <3>2, <3>3, <3>5
    <3> QED
      BY <3>4, <3>5
  <2>8. q <= n => Signed(Place(l, d + q * k)) = Place(l, d + q * k)
    <3>1. q <= n => d + q * k \in 0..Goal(l)
      BY <1>1, <1>7
    <3> QED
      BY <1>9, <3>1, Bounds
  <2> QED
    BY <2>6, <2>7, <2>8
<1>10. ASSUME l.type = "ull"
       PROVE  UllGuidedEnd(sh, Place(l, d), nth) =
                  IF q <= n THEN Place(l, d + q * k) ELSE Place(l, g)
  <2>0. PICK w \in Nat \ {0} : w = ULLONG_MAX + 1
    BY Wraps
  <2>1. r \in 1..w - 1 /\ k \in 1..w - 1
    <3>1. Stride(l) \in Values("ull")
      BY <1>10, LoopAssumption
    <3> QED
      BY <1>1, <1>4, <2>0, <3>1, Lengths, Wraps DEF Values
  <2>2. sh.incr = (IF up THEN k ELSE w - k) /\ sh.mode = IF up THEN 0 ELSE 2
    BY <1>1, <1>10, <2>0, MadeLoop DEF Steady
  <2>3. /\ up => Unsigned(sh.end - Place(l, d)) = r
        /\ ~up => Unsigned(Place(l, d) - sh.end) = r /\ Unsigned(-sh.incr) = k
    <3>1. /\ up => sh.end - Place(l, d) = r
          /\ ~up => Place(l, d) - sh.end = r /\ -sh.incr = k - w
      BY <1>1, <1>2, <1>3, <1>4, <2>0, <2>2
    <3>2. r \in 0..ULLONG_MAX /\ k \in 0..ULLONG_MAX
      BY <2>0, <2>1, Wraps
    <3> QED
      BY <2>0, <3>1, <3>2, Wraps
  <2>4. UllGuidedEnd(sh, Place(l, d), nth) =
            IF q <= n THEN Unsigned(Place(l, d) + q * sh.incr) ELSE Place(l, g)
    BY <1>2, <1>5, <1>6, <2>2, <2>3 DEF UllGuidedEnd
  <2>5. ASSUME q <= n PROVE Unsigned(Place(l, d) + q * sh.incr) = Place(l, d + q * k)
    <3>1. Place(l, d + q * k) \in 0..ULLONG_MAX
      <4>1. d + q * k \in 0..Goal(l)
        BY <1>1, <1>7, <2>5
      <4> QED
        BY <1>10, <4>1, LoopFacts DEF Values
    <3>2. CASE up
      <4>1. Place(l, d) + q * sh.incr = Place(l, d + q * k)
        BY <1>1, <1>3, <1>7, <2>2, <2>5, <3>2
      <4> QED
        BY <3>1, <4>1, Wraps
    <3>3. CASE ~up
      <4>1. q * sh.incr = q * w - q * k
        BY <2>0, <2>2, <3>3
      <4>2. PICK a \in Nat, b \in Int : a = q * k /\ b = q * w
        BY <2>0
      <4>3. Place(l, d) + q * sh.incr = Place(l, d + q * k) + q * w
        BY <1>1, <1>3, <3>3, <4>1, <4>2
      <4> QED
        BY <2>0, <3>1, <4>3, Wraps
    <3> QED
      BY <3>2, <3>3
  <2> QED
    BY <2>4, <2>5
<1> QED
  BY <1>8, <1>9, <1>10

\* Powers of two multiply.
LEMMA PowersMultiply ==
    ASSUME NEW a \in Nat, NEW b \in Nat
    PROVE  2^(a + b) = 2^a * 2^b
<1> DEFINE S == {c \in Nat : 2^(a + c) # 2^a * 2^c}
<1>1. SUFFICES S = {}
  BY <1>1
<1>2. SUFFICES ASSUME S # {} PROVE FALSE
  OBVIOUS
<1>3. PICK c \in S : \A y \in S : c <= y
  BY <1>2, MinOfNats
<1>4. /\ 2^(a + 0) = 2^a * 2^0
  <2>1. 2^(a + 0) = 2^a /\ 2^0 = 1
    BY SMT
  <2>2. 2^a \in Nat
    BY PowersOfTwo
  <2> QED
    BY <2>1, <2>2
<1>5. c \in Nat \ {0}
  BY <1>3, <1>4
<1>6. c - 1 \in Nat /\ c - 1 \notin S
  BY <1>3, <1>5
<1>7. 2^(a + (c - 1)) = 2^a * 2^(c - 1)
  BY <1>6
<1>8. 2^(a + c) = 2 * 2^(a + (c - 1)) /\ 2^c = 2 * 2^(c - 1)
  <2>1. a + (c - 1) \in Nat /\ a + (c - 1) + 1 = a + c /\ (c - 1) + 1 = c
    BY <1>5
  <2> QED
    BY <1>6, <2>1, PowersOfTwo
<1>9. 2^(a + c) = 2^a * 2^c
  <2>1. PICK x \in Nat, y \in Nat : x = 2^a /\ y = 2^(c - 1)
    BY <1>6, PowersOfTwo
  <2>2. 2 * (x * y) = x * (2 * y)
    BY <2>1
  <2> QED
    BY <1>7, <1>8, <2>1, <2>2
<1> QED
  BY <1>3, <1>9

\* What "cheap overflow protection" ensures.
LEMMA CheapProducts ==
    ASSUME NEW n \in Nat, NEW c \in Nat, IsCheap(n, c)
    PROVE  (n + 1) * c + 1 <= ULLONG_MAX
<1>1. PICK v \in Nat : v = WordBits \div 2 - 1 /\ WordBits = 2 * v + 2
  <2>1. PICK u \in Nat : u = WordBits \div 2 /\ WordBits = 2 * u + (WordBits % 2)
    <3>1. WordBits \in Nat /\ 2 \in Nat \ {0}
      BY WordAssumption
    <3> QED
      BY <3>1, Division
  <2>2. u - 1 \in Nat /\ WordBits = 2 * (u - 1) + 2
    BY <2>1, WordAssumption
  <2> QED
    BY <2>1, <2>2
<1>2. PICK h \in Nat \ {0} : h = 2^v
  BY <1>1, PowersOfTwo
<1>3. n + 1 <= h /\ c <= h - 1
  BY <1>1, <1>2 DEF IsCheap
<1>4. 2^WordBits = 4 * (h * h)
  <2>1. 2^(v + v) = h * h
    BY <1>2, PowersMultiply
  <2>2. 2^((v + v) + 1) = 2 * 2^(v + v)
    BY PowersOfTwo
  <2>3. 2^((v + v) + 1 + 1) = 2 * 2^((v + v) + 1)
    <3>1. (v + v) + 1 \in Nat
      OBVIOUS
    <3> QED
      BY <3>1, PowersOfTwo
  <2>4. WordBits = (v + v) + 1 + 1
    BY <1>1
  <2>5. h * h \in Nat
    OBVIOUS
  <2> QED
    BY <2>1, <2>2, <2>3, <2>4, <2>5
<1>5. (n + 1) * c <= h * h - h
  <2>1. (n + 1) * c <= h * c
    BY <1>3
  <2>2. h * c <= h * (h - 1)
    BY <1>3
  <2>3. h * (h - 1) = h * h - h
    OBVIOUS
  <2>4. (n + 1) * c \in Nat /\ h * c \in Nat /\ h * h \in Nat
    OBVIOUS
  <2> QED
    BY <2>1, <2>2, <2>3, <2>4
<1>6. h * h >= 1 /\ h * h \in Nat /\ (n + 1) * c \in Nat
  OBVIOUS
<1> QED
  BY <1>4, <1>5, <1>6 DEF ULLONG_MAX

\* The team that a work share with fetch-and-add has room for is the team that
\* executes the loop, or smaller.
InSight(l) ==
    FirstShare(l).mode \in {1, 3} => l.type = "sections" \/ l.nthreads <= l.seen

\* There is room for every thread of the team to add once in vain.
LEMMA RoomForAll ==
    ASSUME NEW l \in LoopPrograms, l.sched = "dynamic", InSight(l),
           FirstShare(l).mode \in {1, 3},
           NEW d \in Nat, d < Goal(l) + (l.nthreads + 1) * (l.chunk * Stride(l))
    PROVE  Place(l, d) \in Values(l.type)
<1>1. PICK g \in Nat, c \in Nat, s \in Int, m \in Nat :
          g = Goal(l) /\ c = l.chunk * Stride(l) /\ s = l.start /\ m = LONG_MAX
  <2>1. l.chunk * Stride(l) \in Nat
    BY LoopFacts
  <2> QED
    BY <2>1, LoopFacts, Words
<1> DEFINE up == l.incr > 0
<1>2. /\ l.incr \in Int \ {0} /\ l.nthreads \in Nat \ {0} /\ l.seen \in Nat \ {0}
      /\ l.type \in {"long", "ull", "sections"} /\ s \in Values(l.type)
      /\ l.type = "sections" => /\ l.start = 1 /\ l.end > 0 /\ l.incr = 1 /\ l.chunk = 1
                              /\ l.end + l.nthreads < LONG_MAX
  BY <1>1, LoopAssumption
<1>3. Finish(l) = IF up THEN s + g ELSE s - g
  BY <1>1, LoopFacts DEF Place
<1>4. Place(l, d) = IF up THEN s + d ELSE s - d
  BY <1>1 DEF Place
<1>5. PICK j \in Nat : j = (l.nthreads + 1) * c /\ d < g + j
  BY <1>1, <1>2
<1>6. PICK k \in Nat : k = (l.seen + 1) * c /\ (l.type = "sections" \/ j <= k)
  <2>1. (l.seen + 1) * c \in Nat
    BY <1>2
  <2>2. l.nthreads <= l.seen => (l.nthreads + 1) * c <= (l.seen + 1) * c
    BY <1>2
  <2> QED
    BY <1>5, <2>1, <2>2 DEF InSight
<1>7. ULLONG_MAX \in Nat /\ c >= 0
  BY Wraps
<1>8. CASE l.type = "sections"
  <2>1. up /\ s = 1 /\ c = 1 /\ j = l.nthreads + 1
    BY <1>1, <1>2, <1>5, <1>8 DEF Stride
  <2>2. l.end \in Int /\ g = l.end - 1
    <3>1. l.end \in Int
      BY LoopFacts
    <3> QED
      BY <1>1, <1>2, <1>8, <2>1, <3>1 DEF Goal, Distance, Finish, CanonicalEnd
  <2>3. s + d \in -m - 1..m
    BY <1>1, <1>2, <1>5, <1>8, <2>1, <2>2
  <2> QED
    BY <1>1, <1>4, <1>8, <2>1, <2>3 DEF Values
<1>9. CASE l.type = "long"
  <2>1. Signed(l.chunk * l.incr) = IF up THEN c ELSE -c
    <3>1. FirstShare(l).chunk = IF up THEN c ELSE -c
      BY <1>1, <1>9, MadeLoop
    <3>2. FirstShare(l).chunk = Signed(l.chunk * l.incr)
      BY <1>9 DEF FirstShare, LoopInit
    <3> QED
      BY <3>1, <3>2
  <2>2. RoomToAdd(l.incr, Finish(l), IF up THEN c ELSE -c, l.seen)
    BY <1>9, <2>1 DEF FirstShare, LoopInit, Finish
  <2>3. CASE up
    <3>1. Finish(l) < m - k
      BY <1>1, <1>6, <2>2, <2>3 DEF RoomToAdd
    <3>2. s + d \in -m - 1..m
      BY <1>1, <1>2, <1>3, <1>5, <1>6, <1>9, <2>3, <3>1 DEF Values
    <3> QED
      BY <1>1, <1>4, <1>9, <2>3, <3>2 DEF Values
  <2>4. CASE ~up
    <3>1. Finish(l) > k - m
      <4>1. -(-c) = c
        OBVIOUS
      <4> QED
        BY <1>1, <1>2, <1>6, <2>2, <2>4, <4>1 DEF RoomToAdd
    <3>2. s - d \in -m - 1..m
      BY <1>1, <1>2, <1>3, <1>5, <1>6, <1>9, <2>4, <3>1 DEF Values
    <3> QED
      BY <1>1, <1>4, <1>9, <2>4, <3>2 DEF Values
  <2> QED
    BY <2>3, <2>4
<1>10. CASE l.type = "ull"
  <2> DEFINE w == ULLONG_MAX + 1
             chunk == IF up THEN c ELSE w - c
  <2>1. Unsigned(l.chunk * l.incr) = chunk
    <3>1. FirstShare(l).chunk = chunk
      BY <1>1, <1>10, MadeLoop
    <3>2. FirstShare(l).chunk = Unsigned(l.chunk * l.incr)
      BY <1>10 DEF FirstShare, LoopUllInit
    <3> QED
      BY <3>1, <3>2
  <2>2. c \in 0..ULLONG_MAX
    BY <1>1, <1>7, <1>10, LoopAssumption DEF Values
  <2>3. Unsigned(-(w - c)) = c
    <3>1. -(w - c) = c - w
      BY <1>7
    <3> QED
      BY <2>2, <3>1, Wraps
  <2>4. IsCheap(l.seen, c) /\ UllRoomToAdd(up, Finish(l), chunk, l.seen)
    <3> HIDE DEF chunk
    <3>1. FirstShare(l) = LoopUllInit(up, l.start, l.end, l.incr, l.sched, l.chunk, l.seen)
      BY <1>10 DEF FirstShare
    <3>2. /\ IsCheap(l.seen, IF up THEN chunk ELSE Unsigned(-chunk))
          /\ UllRoomToAdd(up, Finish(l), chunk, l.seen)
      BY <2>1, <3>1 DEF LoopUllInit, Finish
    <3>3. (IF up THEN chunk ELSE Unsigned(-chunk)) = c
      BY <2>3 DEF chunk
    <3> QED
      BY <3>2, <3>3
  <2>5. k + 1 <= ULLONG_MAX
    BY <1>2, <1>6, <2>4, CheapProducts
  <2>6. CASE up
    <3>1. Unsigned(ULLONG_MAX - k) = ULLONG_MAX - k
      BY <1>7, <2>5, Wraps
    <3>2. Finish(l) < ULLONG_MAX - k
      BY <1>6, <2>4, <2>6, <3>1 DEF UllRoomToAdd
    <3>3. s + d \in 0..ULLONG_MAX
      BY <1>1, <1>2, <1>3, <1>5, <1>6, <1>7, <1>10, <2>6, <3>2 DEF Values
    <3> QED
      BY <1>4, <1>10, <2>6, <3>3 DEF Values
  <2>7. CASE ~up
    <3>1. (l.seen + 1) * (-(w - c)) - ULLONG_MAX = (k + 1) + (-(l.seen + 2)) * w
      <4>1. (l.seen + 1) * (-(w - c)) = (l.seen + 1) * c - (l.seen + 1) * w
        BY <1>2, <1>7
      <4>2. (-(l.seen + 2)) * w = -((l.seen + 1) * w) - w
        BY <1>2, <1>7
      <4>3. PICK a \in Int : a = (l.seen + 1) * w
        BY <1>2, <1>7
      <4> QED
        BY <1>6, <1>7, <4>1, <4>2, <4>3
    <3>2. Unsigned((k + 1) + (-(l.seen + 2)) * w) = k + 1
      <4>1. k + 1 \in 0..ULLONG_MAX /\ -(l.seen + 2) \in Int
        BY <1>2, <1>7, <2>5
      <4> QED
        BY <4>1, Wraps
    <3>3. Finish(l) > k + 1
      BY <2>4, <2>7, <3>1, <3>2 DEF UllRoomToAdd
    <3>4. s - d \in 0..ULLONG_MAX
      BY <1>1, <1>2, <1>3, <1>5, <1>6, <1>7, <1>10, <2>7, <3>3 DEF Values
    <3> QED
      BY <1>4, <1>10, <2>7, <3>4 DEF Values
  <2> QED
    BY <2>6, <2>7
<1> QED
  BY <1>2, <1>8, <1>9, <1>10

\* A fetch-and-add and the block that it reserves.
LEMMA AddedBlocks ==
    ASSUME NEW l \in LoopPrograms, l.sched = "dynamic", InSight(l),
           NEW sh, Steady(l, sh), sh.mode \in {1, 3}, NEW d \in Nat,
           d + l.chunk * Stride(l) < Goal(l) + (l.nthreads + 1) * (l.chunk * Stride(l))
    PROVE  LET c == l.chunk * Stride(l)
               x == Place(l, d)
               added(up) == AddedBlock(sh, up, x)
           IN /\ Wrapped(sh, x + sh.chunk) = Place(l, d + c)
              /\ \A up \in BOOLEAN : up = (l.incr > 0) =>
                    /\ added(up).none <=> d >= Goal(l)
                    /\ added(up).behind = Place(l, IF d + c > Goal(l) THEN Goal(l) ELSE d + c)
<1>1. PICK g \in Nat, c \in Nat, s \in Int :
          g = Goal(l) /\ c = l.chunk * Stride(l) /\ s = l.start
  <2>1. l.chunk * Stride(l) \in Nat
    BY LoopFacts
  <2> QED
    BY <2>1, LoopFacts
<1> DEFINE x == Place(l, d)
           down == ~(l.incr > 0)
           e == d + c
<1>2. FirstShare(l).mode \in {1, 3} /\ l.type \in {"long", "ull", "sections"}
  BY LoopAssumption DEF Steady
<1>3. Place(l, e) \in Values(l.type) /\ e \in Nat
  BY <1>1, <1>2, RoomForAll
<1>4. \A y \in Int : Place(l, y) = IF down THEN s - y ELSE s + y
  BY <1>1 DEF Place
<1>5. sh.end = Place(l, g) /\ sh.type = (IF l.type = "ull" THEN "ull" ELSE "long")
  BY <1>1, LoopFacts, MadeLoop DEF Steady
<1>6. Wrapped(sh, x + sh.chunk) = Place(l, e)
  <2>1. CASE l.type # "ull"
    <3>1. sh.chunk = IF down THEN -c ELSE c
      BY <1>1, <2>1, MadeLoop DEF Steady
    <3>2. x + sh.chunk = Place(l, e)
      BY <1>1, <1>4, <3>1
    <3>3. Place(l, e) \in -LONG_MAX - 1..LONG_MAX
      BY <1>3, <2>1 DEF Values
    <3> HIDE DEF e, x
    <3>4. Signed(x + sh.chunk) = Place(l, e)
      BY <3>2, <3>3, Signs
    <3> QED
      BY <1>5, <2>1, <3>4 DEF Wrapped
  <2>2. CASE l.type = "ull"
    <3> DEFINE w == ULLONG_MAX + 1
    <3>0. w \in Nat
      BY Wraps
    <3>1. sh.chunk = IF down THEN w - c ELSE c
      BY <1>1, <2>2, MadeLoop DEF Steady
    <3>2. x + sh.chunk = IF down THEN Place(l, e) + w ELSE Place(l, e)
      <4> HIDE DEF w
      <4> QED
        BY <1>1, <1>4, <3>0, <3>1
    <3>3. Place(l, e) \in 0..ULLONG_MAX
      BY <1>3, <2>2 DEF Values
    <3> HIDE DEF e, x
    <3>4. Unsigned(x + sh.chunk) = Place(l, e)
      BY <3>2, <3>3, Wraps
    <3> QED
      BY <1>5, <2>2, <3>4 DEF Wrapped
  <2> QED
    BY <2>1, <2>2
<1>7. ASSUME NEW up \in BOOLEAN, up = (l.incr > 0)
      PROVE  /\ AddedBlock(sh, up, x).none <=> d >= g
             /\ AddedBlock(sh, up, x).behind = Place(l, IF e > g THEN g ELSE e)
  <2>1. up <=> ~down
    BY <1>7
  <2>2. /\ AddedBlock(sh, up, x).none <=> IF down THEN x <= Place(l, g) ELSE x >= Place(l, g)
        /\ AddedBlock(sh, up, x).behind =
               IF (~down /\ Place(l, e) > Place(l, g)) \/ (down /\ Place(l, e) < Place(l, g))
               THEN Place(l, g) ELSE Place(l, e)
    <3> HIDE DEF e, x, down
    <3> QED
      BY <1>5, <1>6, <2>1 DEF AddedBlock
  <2>3. CASE down
    <3>1. x = s - d /\ Place(l, g) = s - g /\ Place(l, e) = s - e
      BY <1>1, <1>3, <1>4, <2>3
    <3> HIDE DEF e, x, down
    <3> QED
      BY <1>1, <1>3, <2>2, <2>3, <3>1
  <2>4. CASE ~down
    <3>1. x = s + d /\ Place(l, g) = s + g /\ Place(l, e) = s + e
      BY <1>1, <1>3, <1>4, <2>4
    <3> HIDE DEF e, x, down
    <3> QED
      BY <1>1, <1>3, <2>2, <2>4, <3>1
  <2> QED
    BY <2>3, <2>4
<1> QED
  BY <1>1, <1>6, <1>7

-----------------------------------------------------------------------------
(* The iterations of a loop, by their distances from its start.            *)

\* The multiples of a number.
LEMMA Multiples ==
    ASSUME NEW k \in Nat \ {0}, NEW a \in Nat
    PROVE  a % k = 0 <=> \E j \in Nat : a = j * k
<1>1. ASSUME a % k = 0 PROVE \E j \in Nat : a = j * k
  <2>1. a = k * (a \div k) + (a % k) /\ a \div k \in Nat
    BY Division
  <2>2. PICK q \in Nat : q = a \div k
    BY <2>1
  <2>3. a = q * k
    BY <1>1, <2>1, <2>2
  <2> QED
    BY <2>3
<1>2. ASSUME NEW j \in Nat, a = j * k PROVE a % k = 0
  <2>1. PICK q \in Nat, r \in 0..k - 1 : r = a % k /\ a = k * q + r
    <3>1. a \div k \in Nat /\ a % k \in 0..k - 1 /\ a = k * (a \div k) + (a % k)
      BY Division
    <3> QED
      BY <3>1
  <2>2. PICK i \in Int : i = j - q
    OBVIOUS
  <2>3. r = k * i
    <3>1. k * (j - q) = j * k - k * q
      OBVIOUS
    <3>2. PICK b \in Int : b = k * q
      OBVIOUS
    <3>3. a = b + r
      BY <2>1, <3>2
    <3> QED
      BY <1>2, <2>2, <3>1, <3>2, <3>3
  <2>4. i >= 1 => k * i >= k
    OBVIOUS
  <2>5. i <= 0 => k * i <= 0
    OBVIOUS
  <2> QED
    BY <2>1, <2>3, <2>4, <2>5
<1> QED
  BY <1>1, <1>2

\* The iterations lie at the multiples of the stride.
LEMMA IterationsLie ==
    ASSUME NEW l \in LoopPrograms
    PROVE  \A x : x \in Iterations(l) <=>
              /\ x \in Int /\ Distance(l, x) \in 0..Goal(l) - 1
              /\ \E j \in Nat : Distance(l, x) = j * Stride(l)
<1>1. /\ l.incr \in Int \ {0} /\ l.start \in Int /\ l.end \in Int /\ Stride(l) \in Nat \ {0}
      /\ Goal(l) \in Nat
  BY LoopFacts
<1>2. Goal(l) = IF Distance(l, l.end) < 0 THEN 0 ELSE Distance(l, l.end)
  BY Lengths
<1>3. ASSUME NEW x
      PROVE  x \in (IF l.incr > 0 THEN l.start..l.end - 1 ELSE l.end + 1..l.start) <=>
                 x \in Int /\ Distance(l, x) \in 0..Goal(l) - 1
  <2>1. CASE l.incr > 0
    BY <1>1, <1>2, <2>1 DEF Distance
  <2>2. CASE ~(l.incr > 0)
    BY <1>1, <1>2, <2>2 DEF Distance
  <2> QED
    BY <2>1, <2>2
<1>4. ASSUME NEW x, x \in Int, Distance(l, x) \in 0..Goal(l) - 1
      PROVE  Distance(l, x) % Stride(l) = 0 <=> \E j \in Nat : Distance(l, x) = j * Stride(l)
  <2>1. Distance(l, x) \in Nat
    BY <1>1, <1>4
  <2> QED
    BY <1>1, <2>1, Multiples
<1> QED
  BY <1>3, <1>4 DEF Iterations

\* Those that are handed out when the blocks up to a distance are.
Sofar(l, d) == {x \in Iterations(l) : Distance(l, x) < d}

\* What is executed of a block, up to any bound behind which no iteration lies.
LEMMA BlockTaken ==
    ASSUME NEW l \in LoopPrograms, NEW i \in Nat, NEW d \in Nat, d = i * Stride(l),
           NEW e \in Nat, d < e,
           \A j \in Nat : j * Stride(l) < e => j * Stride(l) < Goal(l)
    PROVE  LET block == Executed(l, Place(l, d), Place(l, e))
           IN /\ \A x : x \in block <=> x \in Iterations(l) /\ d <= Distance(l, x)
                                                          /\ Distance(l, x) < e
              /\ block \subseteq Iterations(l)
              /\ block \cap Sofar(l, d) = {} /\ Sofar(l, d) \cup block = Sofar(l, e)
<1>1. PICK k \in Nat \ {0}, s \in Int, g \in Nat :
          k = Stride(l) /\ s = l.start /\ g = Goal(l) /\ l.incr \in Int \ {0}
  BY LoopFacts
<1>2. d < g
  BY <1>1
<1> DEFINE block == Executed(l, Place(l, d), Place(l, e))
<1>3. ASSUME NEW x
      PROVE  x \in block <=> /\ x \in Int /\ d <= Distance(l, x) /\ Distance(l, x) < e
                             /\ (Distance(l, x) - d) % k = 0
  <2>1. CASE l.incr > 0
    <3>1. Place(l, d) = s + d /\ Place(l, e) = s + e /\ l.incr = k
      BY <1>1, <2>1 DEF Place, Stride
    <3>2. x \in block <=> x = s + d \/ (x \in s + d..s + e - 1 /\ (x - (s + d)) % k = 0)
      BY <2>1, <3>1 DEF Executed
    <3>3. x \in Int => Distance(l, x) = x - s /\ (x - s) - d = x - (s + d)
      BY <1>1, <2>1 DEF Distance
    <3>4. x = s + d => (x - (s + d)) % k = 0
      BY <1>1
    <3>5. x \in block <=> /\ x \in Int /\ d <= x - s /\ x - s < e
                          /\ (x - (s + d)) % k = 0
      <4> HIDE DEF block
      <4> QED
        BY <1>1, <3>2, <3>4
    <3> QED
      BY <3>3, <3>5
  <2>2. CASE ~(l.incr > 0)
    <3>1. Place(l, d) = s - d /\ Place(l, e) = s - e /\ -l.incr = k
      BY <1>1, <2>2 DEF Place, Stride
    <3>2. x \in block <=> x = s - d \/ (x \in s - e + 1..s - d /\ ((s - d) - x) % k = 0)
      BY <2>2, <3>1 DEF Executed
    <3>3. x \in Int => Distance(l, x) = s - x /\ (s - x) - d = (s - d) - x
      BY <1>1, <2>2 DEF Distance
    <3>4. x = s - d => ((s - d) - x) % k = 0
      BY <1>1
    <3>5. x \in block <=> /\ x \in Int /\ d <= s - x /\ s - x < e
                          /\ ((s - d) - x) % k = 0
      <4> HIDE DEF block
      <4> QED
        BY <1>1, <3>2, <3>4
    <3> QED
      BY <3>3, <3>5
  <2> QED
    BY <2>1, <2>2
<1>4. ASSUME NEW z \in Nat, d <= z
      PROVE  (z - d) % k = 0 <=> \E j \in Nat : z = j * k
  <2>1. z - d \in Nat
    BY <1>4
  <2>2. ASSUME NEW j \in Nat, z - d = j * k PROVE z = (j + i) * k
    <3>1. (j + i) * k = j * k + i * k
      OBVIOUS
    <3> QED
      BY <1>1, <2>2, <3>1
  <2>3. ASSUME NEW j \in Nat, z = j * k PROVE j - i \in Nat /\ z - d = (j - i) * k
    <3>1. (j - i) * k = j * k - i * k
      OBVIOUS
    <3>2. j < i => j * k < i * k
      OBVIOUS
    <3> QED
      BY <1>1, <1>4, <2>3, <3>1, <3>2
  <2>4. (z - d) % k = 0 <=> \E j \in Nat : z - d = j * k
    BY <2>1, Multiples
  <2>5. \A j \in Nat : z - d = j * k => j + i \in Nat /\ z = (j + i) * k
    BY <2>2
  <2> QED
    BY <2>3, <2>4, <2>5
<1>5. ASSUME NEW x
      PROVE  x \in block <=> x \in Iterations(l) /\ d <= Distance(l, x) /\ Distance(l, x) < e
  <2>1. x \in Int => Distance(l, x) \in Int
    BY LoopFacts
  <2>2. x \in block <=> /\ x \in Int /\ d <= Distance(l, x) /\ Distance(l, x) < e
                        /\ \E j \in Nat : Distance(l, x) = j * k
    <3>1. ASSUME x \in Int, d <= Distance(l, x)
          PROVE  (Distance(l, x) - d) % k = 0 <=> \E j \in Nat : Distance(l, x) = j * k
      <4>1. Distance(l, x) \in Nat
        BY <2>1, <3>1
      <4> QED
        BY <1>4, <3>1, <4>1
    <3> HIDE DEF block
    <3> QED
      BY <1>3, <3>1
  <2>3. ASSUME x \in Int, Distance(l, x) < e, d <= Distance(l, x),
               \E j \in Nat : Distance(l, x) = j * k
        PROVE  Distance(l, x) \in 0..g - 1
    BY <1>1, <2>1, <2>3
  <2> HIDE DEF block
  <2> QED
    BY <1>1, <2>1, <2>2, <2>3, IterationsLie
<1>6. \A x \in Iterations(l) : Distance(l, x) \in Int
  BY IterationsLie
<1> HIDE DEF block
<1>7. block \cap Sofar(l, d) = {} /\ Sofar(l, d) \cup block = Sofar(l, e)
  BY <1>1, <1>5, <1>6 DEF Sofar
<1> QED
  BY <1>5, <1>7 DEF block

-----------------------------------------------------------------------------
(* Dynamic and guided loops and sections: what is handed out is all up to  *)
(* the place that the work share has reached.                              *)

LoopTypes ==
    /\ loop \in LoopPrograms /\ InSight(loop) /\ Steady(loop, share)
    /\ where \in [LoopTeam -> {"call", "cas", "told"}]
    /\ begin \in [LoopTeam -> Int] /\ static_trip \in [LoopTeam -> Int]
    /\ ~again

Reached == Distance(loop, share.next)
Adding == share.mode \in {1, 3}
WereTold == {t \in LoopTeam : where[t] = "told"}
QueueInv ==
    /\ Reached \in Nat /\ handed = Sofar(loop, Reached)
    /\ Reached < Goal(loop) => WereTold = {} /\ \E i \in Nat : Reached = i * Stride(loop)
    /\ IF Adding
       THEN /\ \A t \in LoopTeam : where[t] # "cas"
            /\ Reached < Goal(loop)
                           + (Cardinality(WereTold) + 1) * (loop.chunk * Stride(loop))
       ELSE /\ Reached <= Goal(loop)
            /\ \A t \in LoopTeam : where[t] = "cas" => Distance(loop, begin[t]) \in 0..Reached

\* A block from the place reached is handed out.
LEMMA HandsOut ==
    ASSUME LoopTypes, QueueInv, Reached < Goal(loop),
           NEW e \in Reached + 1..Goal(loop), HandOut(share.next, Place(loop, e))
    PROVE  handed' = Sofar(loop, e) /\ ~again'
<1>1. loop \in LoopPrograms /\ share.next \in Int
  BY DEF LoopTypes, Steady, LoopShares
<1>2. share.next = Place(loop, Reached) /\ Goal(loop) \in Nat
  BY <1>1, LoopFacts DEF Reached
<1>3. PICK i \in Nat : Reached = i * Stride(loop)
  BY DEF QueueInv
<1>4. /\ Reached \in Nat /\ e \in Nat /\ Reached < e
      /\ \A j \in Nat : j * Stride(loop) < e => j * Stride(loop) < Goal(loop)
  <2>1. \A j \in Nat : j * Stride(loop) \in Int
    BY <1>1, LoopFacts
  <2> QED
    BY <1>2, <2>1 DEF QueueInv
<1> DEFINE block == Executed(loop, Place(loop, Reached), Place(loop, e))
<1>5. /\ block \subseteq Iterations(loop)
      /\ block \cap Sofar(loop, Reached) = {} /\ Sofar(loop, Reached) \cup block = Sofar(loop, e)
  BY <1>1, <1>3, <1>4, BlockTaken
<1>6. handed' = handed \cup block
      /\ again' = (again \/ block \cap handed # {} \/ ~block \subseteq Iterations(loop))
  BY <1>2 DEF HandOut
<1>7. ~again /\ handed = Sofar(loop, Reached)
  BY DEF LoopTypes, QueueInv
<1> HIDE DEF block
<1> QED
  BY <1>5, <1>6, <1>7

\* Past the end nothing is left.
LEMMA AllSofar ==
    ASSUME NEW l \in LoopPrograms, NEW d \in Nat, d >= Goal(l)
    PROVE  Sofar(l, d) = Iterations(l)
<1>1. \A x \in Iterations(l) : Distance(l, x) \in 0..Goal(l) - 1
  BY IterationsLie
<1>2. Goal(l) \in Nat
  BY LoopFacts
<1> QED
  BY <1>1, <1>2 DEF Sofar

\* The share with another next.
LEMMA SteadyNext ==
    ASSUME LoopTypes, NEW y \in Int, share' = [share EXCEPT !.next = y], UNCHANGED loop
    PROVE  Steady(loop, share)' /\ share'.next = y /\ share'.mode = share.mode
<1>1. share \in LoopShares
  BY DEF LoopTypes, Steady
<1> QED
  BY <1>1, ShareWith DEF LoopTypes, Steady

\* "sh->next = nend", by a compare-and-swap that succeeds.
LEMMA SwapSucceeds ==
    ASSUME LoopTypes, QueueInv, ~Adding, NEW t \in LoopTeam, NEW y,
           Reached < Goal(loop), Advances(loop, Reached, y),
           share' = [share EXCEPT !.next = y], HandOut(share.next, y),
           where' = [where EXCEPT ![t] = "call"], UNCHANGED <<loop, begin, static_trip>>
    PROVE  LoopTypes' /\ QueueInv'
<1>1. loop \in LoopPrograms /\ Goal(loop) \in Nat /\ Reached \in Nat
  BY LoopFacts DEF LoopTypes, QueueInv
<1>2. PICK e \in Reached + 1..Goal(loop) :
          /\ y = Place(loop, e)
          /\ e = Goal(loop) \/ \E k \in Nat : e = Reached + k * Stride(loop)
  BY DEF Advances
<1>3. y \in Int /\ Distance(loop, y) = e /\ e \in Nat
  BY <1>1, <1>2, LoopFacts
<1>4. Steady(loop, share)' /\ share'.next = y /\ share'.mode = share.mode
  BY <1>3, SteadyNext
<1>5. handed' = Sofar(loop, e) /\ ~again'
  BY <1>2, HandsOut
<1>6. Reached' = e /\ Goal(loop)' = Goal(loop) /\ LoopTeam' = LoopTeam
  BY <1>3, <1>4 DEF Reached, Distance, Goal, Finish, LoopTeam
<1>7. LoopTypes'
  BY <1>4, <1>5, <1>6 DEF LoopTypes, InSight
<1>8. WereTold' = {}
  BY <1>6 DEF WereTold, QueueInv, LoopTypes
<1>9. e < Goal(loop) => \E i \in Nat : e = i * Stride(loop)
  <2>1. PICK i \in Nat : Reached = i * Stride(loop)
    BY DEF QueueInv
  <2>2. ASSUME NEW k \in Nat, e = Reached + k * Stride(loop)
        PROVE  e = (i + k) * Stride(loop)
    <3>1. (i + k) * Stride(loop) = i * Stride(loop) + k * Stride(loop)
      BY <1>1, LoopFacts
    <3> QED
      BY <2>1, <2>2, <3>1
  <2>3. \A k \in Nat : e = Reached + k * Stride(loop) => i + k \in Nat /\ e = (i + k) * Stride(loop)
    BY <2>2
  <2> QED
    BY <1>2, <1>3, <2>3
<1>10. \A u \in LoopTeam : where'[u] = "cas" => Distance(loop, begin'[u]) \in 0..e
  BY <1>1, <1>2 DEF QueueInv, LoopTypes
<1> QED
  BY <1>2, <1>3, <1>4, <1>5, <1>6, <1>7, <1>8, <1>9, <1>10
  DEF QueueInv, Sofar, Adding, Goal, Finish, Stride, Distance, Iterations

\* What QueueInv speaks of does not change with where, begin and static_trip.
LEMMA SameLoop ==
    ASSUME LoopTypes, UNCHANGED <<loop, share>>
    PROVE  /\ Reached' = Reached /\ Goal(loop)' = Goal(loop) /\ Stride(loop)' = Stride(loop)
           /\ LoopTeam' = LoopTeam /\ Steady(loop, share)' /\ InSight(loop)'
           /\ Adding' = Adding /\ loop' \in LoopPrograms
BY DEF LoopTypes, Reached, Distance, Goal, Finish, Stride, LoopTeam, Steady, InSight, Adding

\* One round of a compare-and-swap loop, where the block that begins at the
\* place reached ends at nend.
LEMMA SwapKeeps ==
    ASSUME LoopTypes, QueueInv, NEW t \in LoopTeam, NEW type, NEW sched, NEW nend,
           TrySwap(t, type, sched, nend),
           (/\ Reached < Goal(loop) /\ begin[t] = share.next
            /\ share.type = type /\ share.sched = sched) => Advances(loop, Reached, nend)
    PROVE  LoopTypes' /\ QueueInv'
<1>1. /\ where[t] = "cas" /\ share.type = type /\ share.sched = sched
      /\ UNCHANGED <<loop, static_trip>>
  BY DEF TrySwap
<1>2. /\ loop \in LoopPrograms /\ Goal(loop) \in Nat /\ share.next \in Int /\ begin[t] \in Int
      /\ Finish(loop) = Place(loop, Goal(loop))
  BY LoopFacts DEF LoopTypes, Steady, LoopShares
<1>3. ~Adding /\ Reached \in 0..Goal(loop) /\ Distance(loop, begin[t]) \in 0..Reached
  BY <1>1, <1>2 DEF QueueInv
<1>4. share.end = Place(loop, Goal(loop))
  BY <1>2, MadeLoop DEF LoopTypes, Steady
<1>5. CASE begin[t] = share.end
  <2>1. Distance(loop, begin[t]) = Goal(loop)
    BY <1>2, <1>4, <1>5, LoopFacts
  <2>2. Reached = Goal(loop)
    BY <1>2, <1>3, <2>1
  <2>3. where' = [where EXCEPT ![t] = "told"] /\ UNCHANGED <<share, begin, handed, again>>
    BY <1>5 DEF TrySwap, Told
  <2>4. LoopTypes'
    BY <1>1, <2>3, SameLoop DEF LoopTypes
  <2> QED
    BY <1>1, <1>2, <1>3, <2>2, <2>3, <2>4, SameLoop DEF QueueInv, Sofar, Iterations, Distance, LoopTypes
<1>6. CASE begin[t] # share.end /\ share.next = begin[t]
  <2>1. /\ share' = [share EXCEPT !.next = nend] /\ HandOut(share.next, nend)
        /\ where' = [where EXCEPT ![t] = "call"] /\ UNCHANGED begin
    BY <1>6 DEF TrySwap, Swaps
  <2>2. Reached # Goal(loop)
    BY <1>2, <1>4, <1>6, LoopFacts DEF Reached
  <2>3. Reached < Goal(loop)
    BY <1>2, <1>3, <2>2
  <2>4. Advances(loop, Reached, nend)
    BY <1>1, <1>6, <2>3
  <2> QED
    BY <1>1, <1>3, <2>1, <2>3, <2>4, SwapSucceeds
<1>7. CASE begin[t] # share.end /\ share.next # begin[t]
  <2>1. begin' = [begin EXCEPT ![t] = share.next] /\ UNCHANGED <<share, handed, again, where>>
    BY <1>7 DEF TrySwap, Swaps
  <2>2. LoopTypes'
    BY <1>1, <1>2, <2>1, SameLoop DEF LoopTypes
  <2>3. \A u \in LoopTeam : where[u] = "cas" => Distance(loop, begin'[u]) \in 0..Reached
    BY <1>2, <1>3, <2>1 DEF QueueInv, LoopTypes, Reached
  <2> QED
    BY <1>1, <1>2, <1>3, <2>1, <2>2, <2>3, SameLoop
       DEF QueueInv, WereTold, Sofar, Iterations, Distance
<1> QED
  BY <1>5, <1>6, <1>7

\* "start = ws->next;"
LEMMA LoadKeeps ==
    ASSUME LoopTypes, QueueInv, NEW t \in LoopTeam, LoadNext(t)
    PROVE  LoopTypes' /\ QueueInv'
<1>1. /\ loop \in LoopPrograms /\ share.next \in Int
      /\ UNCHANGED <<loop, share, static_trip, handed, again>>
      /\ begin' = [begin EXCEPT ![t] = share.next] /\ where' = [where EXCEPT ![t] = "cas"]
      /\ where[t] = "call"
  BY DEF LoopTypes, Steady, LoopShares, LoadNext, Asks
<1>2. ~Adding
  <2>1. /\ share.type = FirstShare(loop).type /\ share.sched = loop.sched
        /\ share.mode = FirstShare(loop).mode
    BY <1>1, MadeLoop DEF LoopTypes, Steady
  <2>2. loop.sched # "dynamic" => ~Adding
    BY <1>1, <2>1, MadeLoop DEF Adding
  <2>3. loop.sched = "dynamic" => ~Adding
    BY <2>1 DEF LoadNext, Asks, Adding
  <2> QED
    BY <2>2, <2>3
<1>3. LoopTypes'
  BY <1>1, SameLoop DEF LoopTypes
<1>4. WereTold' = WereTold
  BY <1>1, SameLoop DEF WereTold, LoopTypes
<1>5. \A u \in LoopTeam : where'[u] = "cas" => Distance(loop, begin'[u]) \in 0..Reached
  BY <1>1, <1>2 DEF QueueInv, LoopTypes, Reached
<1> QED
  BY <1>1, <1>2, <1>3, <1>4, <1>5, SameLoop DEF QueueInv, Sofar, Iterations, Distance

\* A fetch-and-add, with or without a block.
LEMMA AddKeeps ==
    ASSUME LoopTypes, QueueInv, Adding, loop.sched = "dynamic", NEW t \in LoopTeam,
           where[t] = "call", NEW up \in BOOLEAN, up = (loop.incr > 0), UNCHANGED loop,
           TakeAdded(t, AddedBlock(share, up, share.next), Wrapped(share, share.next + share.chunk))
    PROVE  LoopTypes' /\ QueueInv'
<1> DEFINE size == loop.chunk * Stride(loop)
           b == AddedBlock(share, up, share.next)
           n == Cardinality(WereTold)
           d == Reached + size
<1>1. /\ loop \in LoopPrograms /\ Goal(loop) \in Nat /\ share.next \in Int
      /\ share.next = Place(loop, Reached) /\ Reached \in Nat
      /\ Stride(loop) \in Nat \ {0} /\ loop.chunk \in Nat \ {0} /\ loop.nthreads \in Nat \ {0}
  <2>1. loop.chunk > 0
    BY LoopAssumption DEF LoopTypes
  <2> QED
    BY <2>1, LoopFacts DEF LoopTypes, Steady, LoopShares, Reached, QueueInv
<1>2. size \in Nat \ {0}
  BY <1>1
<1>3. n \in Nat /\ n + 1 <= loop.nthreads /\ IsFiniteSet(WereTold)
  <2>1. WereTold \subseteq LoopTeam \ {t}
    BY DEF WereTold
  <2>2. IsFiniteSet(LoopTeam) /\ Cardinality(LoopTeam) = loop.nthreads
    <3>1. PICK m \in Nat \ {0} : m = loop.nthreads
      BY <1>1
    <3>2. IsFiniteSet(0..m - 1) /\ Cardinality(0..m - 1) = (m - 1) - 0 + 1
      <4>1. 0 \in Int /\ m - 1 \in Int /\ 0 <= m - 1
        OBVIOUS
      <4> QED
        BY <4>1, FS_Interval
    <3> QED
      BY <3>1, <3>2 DEF LoopTeam
  <2>3. IsFiniteSet(LoopTeam \ {t}) /\ Cardinality(LoopTeam \ {t}) = loop.nthreads - 1
    BY <2>2, FS_RemoveElement
  <2>4. IsFiniteSet(WereTold) /\ Cardinality(WereTold) <= loop.nthreads - 1
    BY <2>1, <2>3, FS_Subset
  <2> QED
    BY <1>1, <2>4, FS_CardinalityType
<1>4. /\ Reached < Goal(loop) + (n + 1) * size
      /\ \A u \in LoopTeam : where[u] # "cas"
  BY DEF QueueInv
<1>5. d < Goal(loop) + (loop.nthreads + 1) * size
  <2>1. PICK z \in Nat : z = size
    BY <1>2
  <2>2. (n + 1) * z + z <= (loop.nthreads + 1) * z
    <3>1. (n + 1) * z + z = (n + 2) * z
      BY <1>3
    <3>2. (n + 2) * z <= (loop.nthreads + 1) * z
      BY <1>1, <1>3
    <3> QED
      BY <3>1, <3>2
  <2>3. PICK a \in Nat, c \in Nat : a = (n + 1) * z /\ c = (loop.nthreads + 1) * z
    BY <1>1, <1>3
  <2> HIDE DEF size, n
  <2> QED
    BY <1>1, <1>4, <2>1, <2>2, <2>3
<1>6. /\ Wrapped(share, share.next + share.chunk) = Place(loop, d)
      /\ b.none <=> Reached >= Goal(loop)
      /\ b.behind = Place(loop, IF d > Goal(loop) THEN Goal(loop) ELSE d)
  <2>1. InSight(loop) /\ Steady(loop, share) /\ share.mode \in {1, 3}
    BY DEF LoopTypes, Adding
  <2> DEFINE x == Place(loop, Reached)
  <2>2. /\ Wrapped(share, x + share.chunk) = Place(loop, d)
        /\ AddedBlock(share, up, x).none <=> Reached >= Goal(loop)
        /\ AddedBlock(share, up, x).behind = Place(loop, IF d > Goal(loop) THEN Goal(loop) ELSE d)
    BY <1>1, <1>5, <2>1, AddedBlocks
  <2>3. share.next = x
    BY <1>1
  <2> HIDE DEF x
  <2> QED
    BY <2>2, <2>3
<1>7. /\ share' = [share EXCEPT !.next = Place(loop, d)]
      /\ UNCHANGED <<begin, static_trip, loop>>
      /\ \/ b.none /\ Told(t)
         \/ ~b.none /\ HandOut(share.next, b.behind) /\ UNCHANGED where
  BY <1>6 DEF TakeAdded
<1> HIDE DEF b
<1>8. Place(loop, d) \in Int /\ Distance(loop, Place(loop, d)) = d /\ d \in Nat
  BY <1>1, <1>2, LoopFacts
<1>9. Steady(loop, share)' /\ share'.next = Place(loop, d) /\ share'.mode = share.mode
  BY <1>7, <1>8, SteadyNext
<1>10. /\ Reached' = d /\ Goal(loop)' = Goal(loop) /\ LoopTeam' = LoopTeam
       /\ Stride(loop)' = Stride(loop) /\ Adding'
  BY <1>7, <1>8, <1>9 DEF Reached, Distance, Goal, Finish, LoopTeam, Stride, Adding
<1>11. CASE b.none
  <2>1. where' = [where EXCEPT ![t] = "told"] /\ UNCHANGED <<handed, again>>
    BY <1>7, <1>11 DEF Told
  <2>2. LoopTypes'
    BY <1>7, <1>9, <1>10, <2>1 DEF LoopTypes, InSight
  <2>3. WereTold' = WereTold \cup {t} /\ t \notin WereTold
    BY <1>10, <2>1 DEF WereTold, LoopTypes
  <2>4. Cardinality(WereTold') = n + 1
    BY <1>3, <2>3, FS_AddElement
  <2>5. d < Goal(loop) + (n + 2) * size /\ ~(d < Goal(loop))
    <3>1. (n + 2) * size = (n + 1) * size + size
      BY <1>2, <1>3
    <3>2. PICK a \in Nat : a = (n + 1) * size
      BY <1>2, <1>3
    <3> HIDE DEF n, size
    <3> QED
      BY <1>1, <1>2, <1>4, <1>6, <1>11, <3>1, <3>2
  <2>6. handed' = Sofar(loop, d)
    <3>1. Reached >= Goal(loop) /\ d >= Goal(loop)
      BY <1>1, <1>2, <1>6, <1>11
    <3>2. Sofar(loop, Reached) = Iterations(loop) /\ Sofar(loop, d) = Iterations(loop)
      BY <1>1, <1>8, <3>1, AllSofar
    <3> QED
      BY <2>1, <3>2 DEF QueueInv
  <2>7. \A u \in LoopTeam : where'[u] # "cas"
    BY <1>4, <2>1 DEF LoopTypes
  <2>8. (Cardinality(WereTold') + 1) * size = (n + 2) * size
    BY <1>3, <2>4
  <2>9. handed' = Sofar(loop, Reached)' /\ size' = size
    <3> HIDE DEF d
    <3> QED
      BY <1>7, <1>10, <2>6 DEF Sofar, Iterations, Distance, Stride
  <2> HIDE DEF n, size
  <2> QED
    BY <1>8, <1>10, <2>2, <2>5, <2>7, <2>8, <2>9 DEF QueueInv, size
<1>12. CASE ~b.none
  <2>1. Reached < Goal(loop) /\ HandOut(share.next, b.behind) /\ UNCHANGED where
    BY <1>1, <1>6, <1>7, <1>12
  <2>2. PICK e \in Reached + 1..Goal(loop) : e = IF d > Goal(loop) THEN Goal(loop) ELSE d
    BY <1>1, <1>2, <2>1
  <2>3. handed' = Sofar(loop, e) /\ ~again'
    BY <1>6, <2>1, <2>2, HandsOut
  <2>4. Sofar(loop, e) = Sofar(loop, d)
    <3>1. CASE d > Goal(loop)
      BY <1>1, <1>8, <2>2, <3>1, AllSofar
    <3>2. CASE ~(d > Goal(loop))
      BY <2>2, <3>2
    <3> QED
      BY <3>1, <3>2
  <2>5. LoopTypes'
    BY <1>7, <1>9, <1>10, <2>1, <2>3 DEF LoopTypes, InSight
  <2>6. WereTold = {} /\ WereTold' = WereTold /\ n = 0
    <3>1. WereTold = {}
      BY <2>1 DEF QueueInv
    <3> QED
      BY <1>10, <2>1, <3>1, FS_EmptySet DEF WereTold
  <2>7. \E i \in Nat : d = i * Stride(loop)
    <3>1. PICK i \in Nat : Reached = i * Stride(loop)
      BY <2>1 DEF QueueInv
    <3>2. (i + loop.chunk) * Stride(loop) = i * Stride(loop) + loop.chunk * Stride(loop)
      BY <1>1
    <3>3. d = (i + loop.chunk) * Stride(loop) /\ i + loop.chunk \in Nat
      BY <1>1, <3>1, <3>2
    <3> QED
      BY <3>3
  <2>8. d < Goal(loop) + (Cardinality(WereTold') + 1) * size
    <3>1. (Cardinality(WereTold') + 1) * size = size
      BY <1>2, <2>6
    <3> QED
      BY <1>1, <1>2, <2>1, <3>1
  <2>9. handed' = Sofar(loop, Reached)' /\ size' = size
    <3> HIDE DEF d
    <3> QED
      BY <1>7, <1>10, <2>3, <2>4 DEF Sofar, Iterations, Distance, Stride
  <2>10. \A u \in LoopTeam : where'[u] # "cas"
    BY <1>4, <2>1
  <2> HIDE DEF n, size
  <2> QED
    BY <1>8, <1>10, <2>5, <2>6, <2>7, <2>8, <2>9, <2>10 DEF QueueInv, size
<1> QED
  BY <1>11, <1>12

\* A loop that begins: nothing is handed out, and the work share is new.
LEMMA BeginsWell ==
    ASSUME LoopInitial, InSight(loop)
    PROVE  LoopTypes /\ (loop.sched # "static" => QueueInv)
<1>1. /\ loop \in LoopPrograms /\ share = FirstShare(loop) /\ handed = {} /\ again = FALSE
      /\ where = [t \in LoopTeam |-> "call"]
      /\ begin = [t \in LoopTeam |-> 0] /\ static_trip = [t \in LoopTeam |-> 0]
  BY DEF LoopInitial, LoopBegins
<1>2. /\ share \in LoopShares /\ share.next = loop.start /\ Goal(loop) \in Nat /\ loop.start \in Int
      /\ loop.chunk \in Nat /\ Stride(loop) \in Nat \ {0}
  BY <1>1, MadeLoop, LoopFacts
<1>3. LoopTypes
  BY <1>1, <1>2 DEF LoopTypes, Steady
<1>4. Reached = 0
  BY <1>2 DEF Reached, Distance
<1>5. Sofar(loop, 0) = {}
  <2>1. \A x \in Iterations(loop) : Distance(loop, x) \in 0..Goal(loop) - 1
    BY <1>1, IterationsLie
  <2> QED
    BY <1>2, <2>1 DEF Sofar
<1>6. WereTold = {} /\ Cardinality(WereTold) = 0
  <2>1. WereTold = {}
    BY <1>1 DEF WereTold
  <2> QED
    BY <2>1, FS_EmptySet
<1>7. 0 = 0 * Stride(loop)
  BY <1>2
<1>8. loop.sched # "static" => 0 < Goal(loop) + (0 + 1) * (loop.chunk * Stride(loop))
  <2>1. loop.sched # "static" => loop.chunk > 0
    BY <1>1, LoopAssumption
  <2>2. loop.sched # "static" => loop.chunk * Stride(loop) \in Nat \ {0}
    BY <1>2, <2>1
  <2> QED
    BY <1>2, <2>2
<1>9. \A t \in LoopTeam : where[t] # "cas"
  BY <1>1
<1> QED
  BY <1>1, <1>2, <1>3, <1>4, <1>5, <1>6, <1>7, <1>8, <1>9 DEF QueueInv

\* Every step of a dynamic or guided loop, or of a sections construct.
LEMMA QueueSteps ==
    ASSUME LoopTypes, QueueInv, loop.sched # "static", [LoopNext]_loopVars
    PROVE  LoopTypes' /\ QueueInv'
<1>1. /\ loop \in LoopPrograms /\ share.sched = loop.sched /\ loop.nthreads \in Nat \ {0}
      /\ share.type = (IF loop.type = "ull" THEN "ull" ELSE "long")
      /\ Steady(loop, share) /\ share.mode = FirstShare(loop).mode
      /\ share.next = Place(loop, Reached) /\ Reached \in Nat /\ Goal(loop) \in Nat
  BY MadeLoop, LoopFacts DEF LoopTypes, Steady, LoopShares, Reached, QueueInv
<1>2. CASE UNCHANGED loopVars
  <2>1. UNCHANGED <<loop, share, where, begin, static_trip, handed, again>>
    BY <1>2 DEF loopVars
  <2>2. WereTold' = WereTold /\ Sofar(loop, Reached)' = Sofar(loop, Reached)
    BY <2>1 DEF WereTold, LoopTeam, Sofar, Iterations, Distance, Stride, Reached
  <2>3. LoopTypes'
    BY <2>1, SameLoop DEF LoopTypes
  <2> QED
    BY <2>1, <2>2, <2>3, SameLoop DEF QueueInv
<1>3. ASSUME NEW t \in LoopTeam, LoopStep(t) PROVE LoopTypes' /\ QueueInv'
  <2>1. CASE StaticNext(t) \/ UllStaticNext(t)
    BY <1>1, <2>1 DEF StaticNext, UllStaticNext, Asks
  <2>2. CASE LoadNext(t)
    BY <1>3, <2>2, LoadKeeps
  <2>3. CASE DynamicAdd(t)
    <3>1. /\ where[t] = "call" /\ share.type = "long" /\ share.sched = "dynamic"
          /\ share.mode = 1 /\ UNCHANGED loop
          /\ TakeAdded(t, AddedBlock(share, share.incr > 0, share.next),
                       Signed(share.next + share.chunk))
      BY <2>3 DEF DynamicAdd, Asks
    <3>2. share.incr = loop.incr
      BY <1>1, <3>1, MadeLoop DEF Steady
    <3>3. Signed(share.next + share.chunk) = Wrapped(share, share.next + share.chunk)
      BY <3>1 DEF Wrapped
    <3> DEFINE up == share.incr > 0
    <3>4. up \in BOOLEAN /\ up = (loop.incr > 0)
      BY <3>2
    <3>5. TakeAdded(t, AddedBlock(share, up, share.next),
                    Wrapped(share, share.next + share.chunk))
      BY <3>1, <3>3
    <3> HIDE DEF up
    <3> QED
      BY <1>1, <1>3, <3>1, <3>4, <3>5, AddKeeps DEF Adding
  <2>4. CASE UllDynamicAdd(t)
    <3>1. /\ where[t] = "call" /\ share.type = "ull" /\ share.sched = "dynamic"
          /\ share.mode \in {1, 3} /\ UNCHANGED loop
          /\ TakeAdded(t, AddedBlock(share, share.mode = 1, share.next),
                       Unsigned(share.next + share.chunk))
      BY <2>4 DEF UllDynamicAdd, Asks
    <3>2. (share.mode = 1) = (loop.incr > 0)
      <4>1. share.mode \in (IF loop.incr > 0 THEN {0, 1} ELSE {2, 3})
        BY <1>1, <3>1, MadeLoop
      <4> QED
        BY <3>1, <4>1
    <3>3. Unsigned(share.next + share.chunk) = Wrapped(share, share.next + share.chunk)
      BY <3>1 DEF Wrapped
    <3> QED
      BY <1>1, <1>3, <3>1, <3>2, <3>3, AddKeeps DEF Adding
  <2>5. CASE DynamicSwap(t)
    <3>1. ASSUME Reached < Goal(loop), begin[t] = share.next,
                 share.type = "long", share.sched = "dynamic"
          PROVE  Advances(loop, Reached, DynamicEnd(share, begin[t]))
      <4>1. Reached \in 0..Goal(loop) - 1 /\ loop.sched = "dynamic" /\ loop.type # "ull"
        BY <1>1, <3>1
      <4> QED
        BY <1>1, <3>1, <4>1, DynamicBlock
    <3> QED
      BY <1>3, <2>5, <3>1, SwapKeeps DEF DynamicSwap
  <2>6. CASE UllDynamicSwap(t)
    <3>1. ASSUME Reached < Goal(loop), begin[t] = share.next,
                 share.type = "ull", share.sched = "dynamic"
          PROVE  Advances(loop, Reached, UllDynamicEnd(share, begin[t]))
      <4>1. Reached \in 0..Goal(loop) - 1 /\ loop.sched = "dynamic" /\ loop.type = "ull"
        BY <1>1, <3>1
      <4> QED
        BY <1>1, <3>1, <4>1, DynamicBlock
    <3> QED
      BY <1>3, <2>6, <3>1, SwapKeeps DEF UllDynamicSwap
  <2>7. CASE GuidedSwap(t)
    <3>1. ASSUME Reached < Goal(loop), begin[t] = share.next,
                 share.type = "long", share.sched = "guided"
          PROVE  Advances(loop, Reached, GuidedEnd(share, begin[t], loop.nthreads))
      <4>1. Reached \in 0..Goal(loop) - 1 /\ loop.sched = "guided" /\ loop.type # "ull"
        BY <1>1, <3>1
      <4> QED
        BY <1>1, <3>1, <4>1, GuidedBlock
    <3> QED
      BY <1>3, <2>7, <3>1, SwapKeeps DEF GuidedSwap
  <2>8. CASE UllGuidedSwap(t)
    <3>1. ASSUME Reached < Goal(loop), begin[t] = share.next,
                 share.type = "ull", share.sched = "guided"
          PROVE  Advances(loop, Reached, UllGuidedEnd(share, begin[t], loop.nthreads))
      <4>1. Reached \in 0..Goal(loop) - 1 /\ loop.sched = "guided" /\ loop.type = "ull"
        BY <1>1, <3>1
      <4> QED
        BY <1>1, <3>1, <4>1, GuidedBlock
    <3> QED
      BY <1>3, <2>8, <3>1, SwapKeeps DEF UllGuidedSwap
  <2> QED
    BY <1>3, <2>1, <2>2, <2>3, <2>4, <2>5, <2>6, <2>7, <2>8 DEF LoopStep
<1> QED
  BY <1>2, <1>3 DEF LoopNext

-----------------------------------------------------------------------------
(* Static loops: the blocks of every thread are fixed.                     *)

\* The number of iterations.
Trips(l) == (Goal(l) + Stride(l) - 1) \div Stride(l)

LEMMA TripFacts ==
    ASSUME NEW l \in LoopPrograms
    PROVE  /\ Trips(l) \in 0..Goal(l)
           /\ \A j \in Nat : j < Trips(l) <=> j * Stride(l) < Goal(l)
<1>1. PICK k \in Nat \ {0}, g \in Nat : k = Stride(l) /\ g = Goal(l)
  BY LoopFacts
<1>2. g + k - 1 \in Nat
  BY <1>1
<1>3. PICK n \in Nat, r \in 0..k - 1 : n = (g + k - 1) \div k /\ g + k - 1 = k * n + r
  <2>1. PICK a \in Nat : a = g + k - 1
    BY <1>2
  <2>2. a \div k \in Nat /\ a % k \in 0..k - 1 /\ a = k * (a \div k) + (a % k)
    BY Division
  <2> QED
    BY <2>1, <2>2
<1>4. ASSUME NEW j \in Nat PROVE j < n <=> j * k < g
  <2>1. ASSUME j < n PROVE j * k < g
    <3>1. k * (j + 1) <= k * n
      BY <2>1
    <3>2. k * (j + 1) = j * k + k
      OBVIOUS
    <3>3. PICK a \in Nat, b \in Nat : a = j * k /\ b = k * n
      OBVIOUS
    <3> QED
      BY <1>3, <3>1, <3>2, <3>3
  <2>2. ASSUME n <= j PROVE ~(j * k < g)
    <3>1. k * n <= j * k
      BY <2>2
    <3>2. PICK a \in Nat, b \in Nat : a = j * k /\ b = k * n
      OBVIOUS
    <3> QED
      BY <1>3, <3>1, <3>2
  <2> QED
    BY <2>1, <2>2
<1>5. n <= g
  <2>1. g <= g * k
    OBVIOUS
  <2>2. ~(g * k < g)
    BY <2>1
  <2> QED
    BY <1>4, <2>2
<1> QED
  BY <1>1, <1>3, <1>4, <1>5 DEF Trips

\* The number that iter.c and iter_ull.c compute.
LEMMA TripCounts ==
    ASSUME NEW l \in LoopPrograms, l.sched = "static", NEW sh, Steady(l, sh), sh.next = l.start
    PROVE  /\ l.type # "ull" => TripCount(sh) = Trips(l)
           /\ l.type = "ull" => UllTripCount(sh) = Trips(l)
<1>1. PICK k \in Nat \ {0}, g \in Nat, s \in Int, m \in Nat, n \in Nat :
          k = Stride(l) /\ g = Goal(l) /\ s = l.start /\ m = LONG_MAX /\ n = Trips(l)
  <2>1. Trips(l) \in Nat
    BY LoopFacts, TripFacts
  <2> QED
    BY <2>1, LoopFacts, Words
<1> DEFINE up == l.incr > 0
<1>2. sh.end = (IF up THEN s + g ELSE s - g) /\ sh.next = s
  BY <1>1, LoopFacts, MadeLoop DEF Steady, Place
<1>3. n = (g + k - 1) \div k /\ n <= g
  BY <1>1, TripFacts DEF Trips
<1>4. l.incr \in Int \ {0} /\ l.incr = IF up THEN k ELSE -k
  BY <1>1, LoopFacts DEF Stride
<1>5. PICK a \in Nat : a = g + k - 1
  BY <1>1
<1>6. ASSUME l.type # "ull" PROVE TripCount(sh) = n
  <2>1. a <= m /\ sh.incr = l.incr
    BY <1>1, <1>5, <1>6, Lengths, MadeLoop DEF Steady
  <2>2. CASE up
    <3>1. sh.end - sh.next + (sh.incr + (-1)) = a /\ sh.incr = k
      BY <1>1, <1>2, <1>4, <1>5, <2>1, <2>2
    <3>2. Signed(a) = a
      BY <1>1, <2>1, Signs
    <3>3. Quotient(a, k) = n
      BY <1>3, <1>5 DEF Quotient
    <3>4. Unsigned(n) = n
      BY <1>1, <1>3, <1>6, Signs, Lengths
    <3>5. TripCount(sh) = Unsigned(Quotient(Signed(sh.end - sh.next + (sh.incr + (-1))), sh.incr))
      BY <1>4, <2>1, <2>2 DEF TripCount
    <3> QED
      BY <3>1, <3>2, <3>3, <3>4, <3>5
  <2>3. CASE ~up
    <3>1. sh.end - sh.next + (sh.incr + 1) = -a /\ sh.incr = -k
      BY <1>1, <1>2, <1>4, <1>5, <2>1, <2>3
    <3>2. Signed(-a) = -a
      BY <1>1, <2>1, Signs
    <3>3. Quotient(-a, -k) = n
      <4>1. -k < 0 /\ -(-k) = k
        BY <1>1
      <4>2. CASE a <= 0
        <5>1. n = 0
          BY <1>1, <1>3, <1>5, <4>2
        <5>2. ~(-a < 0) /\ -a = 0 /\ 0 \div k = 0
          <6>1. k = 1
            BY <1>1, <1>5, <4>2
          <6>2. 0 = 1 * (0 \div 1) + (0 % 1) /\ 0 \div 1 \in Nat /\ 0 % 1 \in 0..1 - 1
            BY Division
          <6>3. 0 \div 1 = 0
            BY <6>2
          <6>4. -a = 0
            BY <4>2
          <6> QED
            BY <6>1, <6>3, <6>4
        <5> QED
          BY <4>1, <5>1, <5>2 DEF Quotient
      <4>3. CASE a > 0
        <5>1. -a < 0 /\ -(-a) = a
          BY <4>3
        <5> QED
          BY <1>3, <1>5, <4>1, <5>1 DEF Quotient
      <4> QED
        BY <4>2, <4>3
    <3>4. Unsigned(n) = n
      BY <1>1, <1>3, <1>6, Signs, Lengths
    <3>5. TripCount(sh) = Unsigned(Quotient(Signed(sh.end - sh.next + (sh.incr + 1)), sh.incr))
      BY <1>4, <2>1, <2>3 DEF TripCount
    <3> QED
      BY <3>1, <3>2, <3>3, <3>4, <3>5
  <2> QED
    BY <2>2, <2>3
<1>7. ASSUME l.type = "ull" PROVE UllTripCount(sh) = n
  <2>0. PICK w \in Nat \ {0} : w = ULLONG_MAX + 1
    BY Wraps
  <2>1. a \in 0..ULLONG_MAX /\ k \in 0..ULLONG_MAX
    <3>1. a <= ULLONG_MAX /\ ULLONG_MAX \in Nat
      BY <1>1, <1>5, Lengths, Wraps
    <3>2. Stride(l) \in Values("ull")
      BY <1>7, LoopAssumption
    <3> QED
      BY <1>1, <3>1, <3>2 DEF Values
  <2>2. sh.incr = (IF up THEN k ELSE w - k) /\ sh.mode = IF up THEN 0 ELSE 2
    BY <1>1, <1>7, <2>0, MadeLoop DEF Steady
  <2>3. CASE up
    <3>1. sh.end - sh.next + sh.incr - 1 = a /\ sh.incr = k /\ sh.mode = 0
      BY <1>1, <1>2, <1>5, <2>2, <2>3
    <3>2. Unsigned(a) = a
      BY <2>1, Wraps
    <3> QED
      BY <1>3, <1>5, <3>1, <3>2 DEF UllTripCount
  <2>4. CASE ~up
    <3>1. sh.next - sh.end - sh.incr - 1 = a - w /\ -sh.incr = k - w /\ sh.mode = 2
      <4>1. sh.incr = w - k /\ sh.mode = 2 /\ sh.end = s - g /\ sh.next = s
        BY <1>2, <2>2, <2>4
      <4> QED
        BY <1>1, <1>5, <2>0, <4>1
    <3>2. Unsigned(a - w) = a /\ Unsigned(k - w) = k
      BY <2>0, <2>1, Wraps
    <3> QED
      BY <1>3, <1>5, <3>1, <3>2 DEF UllTripCount
  <2> QED
    BY <2>3, <2>4
<1> QED
  BY <1>1, <1>6, <1>7

\* From a number of iterations to a bound.
LEMMA WrapsToPlace ==
    ASSUME NEW l \in LoopPrograms, NEW sh, Steady(l, sh), sh.next = l.start,
           NEW j \in 0..Trips(l), Trips(l) > 0
    PROVE  Wrapped(sh, j * sh.incr + sh.next) = Place(l, j * Stride(l))
<1>1. PICK k \in Nat \ {0}, g \in Nat, s \in Int, n \in Nat :
          k = Stride(l) /\ g = Goal(l) /\ s = l.start /\ n = Trips(l)
  <2>1. Trips(l) \in Nat
    BY LoopFacts, TripFacts
  <2> QED
    BY <2>1, LoopFacts
<1> DEFINE up == l.incr > 0
<1>2. l.incr \in Int \ {0} /\ l.incr = IF up THEN k ELSE -k
  BY <1>1, LoopFacts DEF Stride
<1>3. Place(l, j * k) \in Values(l.type)
  <2>1. CASE j < n
    <3>1. j * k \in 0..Goal(l)
      BY <1>1, <2>1, TripFacts
    <3> QED
      BY <3>1, LoopFacts
  <2>2. CASE j = n
    <3>1. n - 1 \in Nat /\ (n - 1) * k < g /\ (n - 1) * k \in Nat
      BY <1>1, <2>2, TripFacts
    <3>2. Place(l, (n - 1) * k) \in Iterations(l)
      <4>1. Distance(l, Place(l, (n - 1) * k)) = (n - 1) * k /\ Place(l, (n - 1) * k) \in Int
        BY <3>1, LoopFacts
      <4> QED
        BY <1>1, <3>1, <4>1, IterationsLie
    <3>3. Place(l, (n - 1) * k) + l.incr \in Values(l.type)
      BY <3>2, LoopAssumption
    <3>4. Place(l, (n - 1) * k) + l.incr = Place(l, j * k)
      <4>1. j * k = (n - 1) * k + k
        BY <1>1, <2>2
      <4>2. PICK b \in Int : b = (n - 1) * k
        BY <3>1
      <4> QED
        BY <1>1, <1>2, <4>1, <4>2 DEF Place
    <3> QED
      BY <3>3, <3>4
  <2> QED
    BY <1>1, <2>1, <2>2
<1>4. PICK b \in Nat : b = j * k
  BY <1>1
<1>5. Place(l, b) = IF up THEN s + b ELSE s - b
  BY <1>1 DEF Place
<1>6. sh.type = IF l.type = "ull" THEN "ull" ELSE "long"
  BY MadeLoop DEF Steady
<1>7. CASE l.type # "ull"
  <2>1. sh.incr = l.incr
    BY <1>7, MadeLoop DEF Steady
  <2>2. j * sh.incr = IF up THEN b ELSE -b
    BY <1>1, <1>2, <1>4, <2>1
  <2>3. j * sh.incr + sh.next = Place(l, b)
    BY <1>1, <1>5, <2>2
  <2>4. Place(l, b) \in -LONG_MAX - 1..LONG_MAX
    BY <1>3, <1>4, <1>7 DEF Values
  <2>5. Signed(Place(l, b)) = Place(l, b)
    BY <2>4, Signs
  <2> QED
    BY <1>1, <1>4, <1>6, <1>7, <2>3, <2>5 DEF Wrapped
<1>8. CASE l.type = "ull"
  <2>0. PICK w \in Nat \ {0} : w = ULLONG_MAX + 1
    BY Wraps
  <2>1. sh.incr = IF up THEN k ELSE w - k
    BY <1>1, <1>8, <2>0, MadeLoop DEF Steady
  <2>2. Place(l, b) \in 0..ULLONG_MAX
    BY <1>3, <1>4, <1>8 DEF Values
  <2>3. CASE up
    <3>1. j * sh.incr + sh.next = Place(l, b)
      BY <1>1, <1>4, <1>5, <2>1, <2>3
    <3>2. Unsigned(Place(l, b)) = Place(l, b)
      BY <2>2, Wraps
    <3> QED
      BY <1>1, <1>4, <1>6, <1>8, <3>1, <3>2 DEF Wrapped
  <2>4. CASE ~up
    <3>1. j * sh.incr = j * w - b
      BY <1>1, <1>4, <2>0, <2>1, <2>4
    <3>2. PICK c \in Int : c = j * w
      BY <2>0
    <3>3. j * sh.incr + sh.next = Place(l, b) + c
      BY <1>1, <1>4, <1>5, <2>4, <3>1, <3>2
    <3>4. Unsigned(Place(l, b) + c) = Place(l, b)
      BY <2>0, <2>2, <3>2, Wraps
    <3> QED
      BY <1>1, <1>4, <1>6, <1>8, <3>3, <3>4 DEF Wrapped
  <2> QED
    BY <2>3, <2>4
<1> QED
  BY <1>7, <1>8

\* The j-th block of thread i has iteration z, counted from zero.
InBlock(l, i, j, z) ==
    IF l.nthreads = 1 THEN j = 0
    ELSE IF l.chunk = 0 THEN j = 0 /\ Gets(Trips(l), l.nthreads, i, z)
    ELSE LET first == (j * l.nthreads + i) * l.chunk
         IN first <= z /\ z < first + l.chunk

\* Every iteration is in one block of one thread.
LEMMA BlocksTile ==
    ASSUME NEW l \in LoopPrograms, NEW z \in 0..Trips(l) - 1
    PROVE  \E i \in 0..l.nthreads - 1, j \in Nat :
              /\ InBlock(l, i, j, z)
              /\ \A h \in 0..l.nthreads - 1, m \in Nat : InBlock(l, h, m, z) => h = i /\ m = j
<1>1. PICK p \in Nat \ {0}, c \in Nat, n \in Nat :
          p = l.nthreads /\ c = l.chunk /\ n = Trips(l)
  <2>1. Trips(l) \in Nat
    BY LoopFacts, TripFacts
  <2> QED
    BY <2>1, LoopFacts
<1>2. CASE p = 1
  <2>1. 0 \in 0..p - 1 /\ 0 \in Nat
    BY <1>2
  <2>2. \A h \in 0..p - 1, m \in Nat : InBlock(l, h, m, z) <=> h = 0 /\ m = 0
    BY <1>1, <1>2 DEF InBlock
  <2> QED
    BY <1>1, <2>1, <2>2
<1>3. CASE p # 1 /\ c = 0
  <2>1. \A h, m : InBlock(l, h, m, z) <=> m = 0 /\ Gets(n, p, h, z)
    BY <1>1, <1>3 DEF InBlock
  <2>2. PICK i \in 0..p - 1 : /\ Gets(n, p, i, z)
                              /\ \A h \in 0..p - 1 : Gets(n, p, h, z) => h = i
    BY <1>1, StaticSharesTile
  <2>3. 0 \in Nat
    OBVIOUS
  <2> QED
    BY <1>1, <2>1, <2>2, <2>3
<1>4. CASE p # 1 /\ c # 0
  <2>1. c \in Nat \ {0} /\ z \in Nat
    BY <1>1, <1>4
  <2>2. PICK q \in Nat, r \in 0..c - 1 : z = c * q + r
    <3>1. z \div c \in Nat /\ z % c \in 0..c - 1 /\ z = c * (z \div c) + (z % c)
      BY <2>1, Division
    <3> QED
      BY <3>1
  <2>3. PICK j \in Nat, i \in 0..p - 1 : q = p * j + i
    <3>1. q \div p \in Nat /\ q % p \in 0..p - 1 /\ q = p * (q \div p) + (q % p)
      BY Division
    <3> QED
      BY <3>1
  <2>4. ASSUME NEW h \in 0..p - 1, NEW m \in Nat
        PROVE  InBlock(l, h, m, z) <=> (m * p + h) * c <= z /\ z < (m * p + h) * c + c
    BY <1>1, <1>4 DEF InBlock
  <2>5. j * p + i = q /\ q * c <= z /\ z < q * c + c
    <3>1. q * c = c * q /\ j * p = p * j
      OBVIOUS
    <3>2. PICK a \in Nat, b \in Nat : a = q * c /\ b = j * p
      BY <2>1
    <3> QED
      BY <2>1, <2>2, <2>3, <3>1, <3>2
  <2>6. ASSUME NEW h \in 0..p - 1, NEW m \in Nat,
               (m * p + h) * c <= z, z < (m * p + h) * c + c
        PROVE  h = i /\ m = j
    <3>1. PICK u \in Nat : u = m * p + h
      OBVIOUS
    <3>2. u = q
      <4>1. ~(u < q)
        <5>1. u < q => (u + 1) * c <= q * c
          BY <2>1
        <5>2. (u + 1) * c = u * c + c
          BY <2>1
        <5>3. PICK a \in Nat, b \in Nat : a = q * c /\ b = u * c
          BY <2>1
        <5> QED
          BY <2>1, <2>5, <2>6, <3>1, <5>1, <5>2, <5>3
      <4>2. ~(q < u)
        <5>1. q < u => (q + 1) * c <= u * c
          BY <2>1
        <5>2. (q + 1) * c = q * c + c
          BY <2>1
        <5>3. PICK a \in Nat, b \in Nat : a = q * c /\ b = u * c
          BY <2>1
        <5> QED
          BY <2>1, <2>5, <2>6, <3>1, <5>1, <5>2, <5>3
      <4> QED
        BY <4>1, <4>2
    <3>3. m * p + h = j * p + i
      BY <2>5, <3>1, <3>2
    <3>4. ~(m < j)
      <4>1. m < j => (m + 1) * p <= j * p
        OBVIOUS
      <4>2. (m + 1) * p = m * p + p
        OBVIOUS
      <4>3. PICK a \in Nat, b \in Nat : a = m * p /\ b = j * p
        OBVIOUS
      <4> QED
        BY <3>3, <4>1, <4>2, <4>3
    <3>5. ~(j < m)
      <4>1. j < m => (j + 1) * p <= m * p
        OBVIOUS
      <4>2. (j + 1) * p = j * p + p
        OBVIOUS
      <4>3. PICK a \in Nat, b \in Nat : a = m * p /\ b = j * p
        OBVIOUS
      <4> QED
        BY <3>3, <4>1, <4>2, <4>3
    <3>6. m = j
      BY <3>4, <3>5
    <3>7. PICK a \in Nat : a = j * p
      OBVIOUS
    <3> QED
      BY <3>3, <3>6, <3>7
  <2>7. InBlock(l, i, j, z)
    BY <2>4, <2>5
  <2>8. \A h \in 0..p - 1, m \in Nat : InBlock(l, h, m, z) => h = i /\ m = j
    BY <2>4, <2>6
  <2> QED
    BY <1>1, <2>7, <2>8
<1> QED
  BY <1>2, <1>3, <1>4

\* Where thread i can be in a static loop.
TripFits(l, i, round) ==
    \/ round = -1
    \/ /\ round \in Nat
       /\ l.nthreads = 1 => round = 0
       /\ l.nthreads > 1 /\ l.chunk = 0 => round <= 1
       /\ l.nthreads > 1 /\ l.chunk > 0 /\ round > 0 =>
             ((round - 1) * l.nthreads + i + 1) * l.chunk < Trips(l)

\* What a thread is told that asks for its next block: none is left for it, or
\* its block from iteration s to iteration e.
Serves(l, i, round, answer) ==
    LET zs == 0..Trips(l) - 1
    IN /\ TripFits(l, i, answer.trip)
       /\ answer.trip = -1 \/ answer.trip >= round
       /\ answer.ret # 0 =>
             \A z \in zs, j \in Nat : j >= round => ~InBlock(l, i, j, z)
       /\ answer.ret = 0 =>
             /\ answer.trip \in {-1, round + 1}
             /\ answer.trip = -1 =>
                   \A z \in zs, j \in Nat : j > round => ~InBlock(l, i, j, z)
             /\ \E s, e \in 0..Trips(l), y \in Nat :
                   /\ s < e /\ \A z \in zs : InBlock(l, i, round, z) <=> s <= z /\ z < e
                   /\ answer.first = Place(l, s * Stride(l)) /\ answer.behind = Place(l, y)
                   /\ \A j \in Nat : j * Stride(l) < y <=> j < e

\* A thread that is alone gets the whole loop.
LEMMA AloneServed ==
    ASSUME NEW l \in LoopPrograms, NEW sh, Steady(l, sh), sh.next = l.start, l.nthreads = 1
    PROVE  Serves(l, 0, 0, StaticBlock(sh, Trips(l), 1, 0, 0))
<1>1. PICK n \in Nat, g \in Nat, k \in Nat \ {0} :
          /\ n = Trips(l) /\ g = Goal(l) /\ k = Stride(l) /\ n <= g
          /\ \A j \in Nat : j < n <=> j * k < g
  <2>1. Trips(l) \in 0..Goal(l) /\ Goal(l) \in Nat /\ Stride(l) \in Nat \ {0}
    BY LoopFacts, TripFacts
  <2>2. \A j \in Nat : j < Trips(l) <=> j * Stride(l) < Goal(l)
    BY TripFacts
  <2>3. Trips(l) \in Nat /\ Trips(l) <= Goal(l)
    BY <2>1
  <2> QED
    BY <2>1, <2>2, <2>3
<1>2. sh.end = Place(l, g) /\ sh.next = Place(l, 0) /\ l.start \in Int
  <2>1. sh.end = Finish(l)
    BY MadeLoop DEF Steady
  <2>2. Finish(l) = Place(l, Goal(l)) /\ l.start \in Int
    BY LoopFacts
  <2>3. Place(l, 0) = l.start
    BY <2>2 DEF Place
  <2> QED
    BY <1>1, <2>1, <2>2, <2>3
<1>3. sh.next = sh.end <=> n = 0
  <2>1. sh.next = sh.end <=> g = 0
    BY <1>1, <1>2 DEF Place
  <2>2. 0 < n <=> 0 * k < g
    BY <1>1
  <2> QED
    BY <1>1, <2>1, <2>2
<1> DEFINE b == Answer(IF sh.next = sh.end THEN 1 ELSE 0, sh.next, sh.end, -1)
<1>4. StaticBlock(sh, Trips(l), 1, 0, 0) = b
  BY DEF StaticBlock
<1>5. b.ret = (IF n = 0 THEN 1 ELSE 0) /\ b.trip = -1 /\ b.first = sh.next /\ b.behind = sh.end
  BY <1>3 DEF Answer
<1>6. \A z, j : InBlock(l, 0, j, z) <=> j = 0
  BY DEF InBlock
<1>7. n # 0 =>
        \E s, e \in 0..n, y \in Nat :
           /\ s < e /\ \A z \in 0..n - 1 : InBlock(l, 0, 0, z) <=> s <= z /\ z < e
           /\ b.first = Place(l, s * k) /\ b.behind = Place(l, y)
           /\ \A j \in Nat : j * k < y <=> j < e
  <2> HIDE DEF b
  <2>1. 0 * k = 0 /\ 0 \in 0..n /\ n \in 0..n
    BY <1>1
  <2>2. n # 0 =>
          /\ 0 < n /\ \A z \in 0..n - 1 : InBlock(l, 0, 0, z) <=> 0 <= z /\ z < n
          /\ b.first = Place(l, 0 * k) /\ b.behind = Place(l, g)
          /\ \A j \in Nat : j * k < g <=> j < n
    BY <1>1, <1>2, <1>5, <1>6, <2>1
  <2> QED
    BY <1>1, <2>1, <2>2
<1> HIDE DEF b
<1>8. TripFits(l, 0, b.trip)
  BY <1>5 DEF TripFits
<1>9. \A z \in 0..n - 1, j \in Nat : j > 0 => ~InBlock(l, 0, j, z)
  BY <1>6
<1>10. b.ret # 0 => n = 0
  BY <1>5
<1>11. b.ret = 0 => n # 0
  BY <1>5
<1> QED
  BY <1>1, <1>4, <1>5, <1>7, <1>8, <1>9, <1>10, <1>11 DEF Serves

\* The block from iteration s to iteration e, as bounds.
LEMMA BoundsServed ==
    ASSUME NEW l \in LoopPrograms, NEW sh, Steady(l, sh), sh.next = l.start,
           NEW s \in 0..Trips(l), NEW e \in 0..Trips(l), s < e,
           NEW first, first = Wrapped(sh, s * sh.incr + sh.next),
           NEW stop, stop = Wrapped(sh, e * sh.incr + sh.next)
    PROVE  \E y \in Nat : /\ first = Place(l, s * Stride(l)) /\ stop = Place(l, y)
                          /\ \A j \in Nat : j * Stride(l) < y <=> j < e
<1>1. PICK n \in Nat, k \in Nat \ {0} : n = Trips(l) /\ k = Stride(l)
  <2>1. Trips(l) \in Nat /\ Stride(l) \in Nat \ {0}
    BY LoopFacts, TripFacts
  <2> QED
    BY <2>1
<1>2. n > 0 /\ e \in Nat
  BY <1>1
<1>3. first = Place(l, s * k) /\ stop = Place(l, e * k)
  BY <1>1, <1>2, WrapsToPlace
<1>4. ASSUME NEW j \in Nat PROVE j * k < e * k <=> j < e
  <2>1. ASSUME j < e PROVE j * k < e * k
    <3>1. (j + 1) * k <= e * k
      BY <1>2, <2>1
    <3>2. (j + 1) * k = j * k + k
      OBVIOUS
    <3>3. PICK a \in Nat, b \in Nat : a = j * k /\ b = e * k
      BY <1>2
    <3> QED
      BY <3>1, <3>2, <3>3
  <2>2. ASSUME e <= j PROVE e * k <= j * k
    BY <1>2, <2>2
  <2>3. PICK a \in Nat, b \in Nat : a = j * k /\ b = e * k
    BY <1>2
  <2> QED
    BY <1>2, <2>1, <2>2, <2>3
<1>5. e * k \in Nat
  BY <1>2
<1> QED
  BY <1>1, <1>3, <1>4, <1>5

\* The block of thread i of p ends within the loop.
EndsWithin(q, t, p, i) ==
    \E s, e \in Nat :
        /\ s = ShareStart(q, t, i) /\ e = ShareStart(q, t, i + 1)
        /\ e = s + (IF i < t THEN q + 1 ELSE q) /\ s <= e /\ e <= q * p + t

LEMMA ShareWithin ==
    ASSUME NEW q \in Nat, NEW t \in Nat, NEW p \in Nat, t < p, NEW i \in Nat, i + 1 <= p
    PROVE  EndsWithin(q, t, p, i)
<1>1. ShareStart(q, t, i) \in Nat /\ i + 1 \in Nat
  BY ShareEnds
<1>2. ShareStart(q, t, i + 1) \in Nat
  BY <1>1, ShareEnds
<1>3. ShareStart(q, t, i + 1) = ShareStart(q, t, i) + (IF i < t THEN q + 1 ELSE q)
  BY ShareEnds
<1>4. ShareStart(q, t, i + 1) <= ShareStart(q, t, p)
  BY <1>1, SharesAscend
<1>5. ShareStart(q, t, p) = q * p + t
  BY DEF ShareStart
<1> QED
  BY <1>1, <1>2, <1>3, <1>4, <1>5 DEF EndsWithin

\* Blocks without a chunk size: one for every thread.
LEMMA ShareServed ==
    ASSUME NEW l \in LoopPrograms, NEW sh, Steady(l, sh), sh.next = l.start,
           l.sched = "static", l.nthreads > 1, l.chunk = 0,
           NEW i \in 0..l.nthreads - 1, NEW round \in 0..1
    PROVE  Serves(l, i, round, StaticBlock(sh, Trips(l), l.nthreads, i, round))
<1>1. PICK n \in Nat, p \in Nat \ {0}, k \in Nat \ {0} :
          n = Trips(l) /\ p = l.nthreads /\ k = Stride(l)
  <2>1. Trips(l) \in Nat /\ Stride(l) \in Nat \ {0} /\ l.nthreads \in Nat \ {0}
    BY LoopFacts, TripFacts
  <2> QED
    BY <2>1
<1>2. PICK q \in Nat, t \in Nat : q = n \div p /\ t = n % p /\ n = p * q + t /\ t < p
  <2>1. n \div p \in Nat /\ n % p \in 0..p - 1 /\ n = p * (n \div p) + (n % p)
    BY Division
  <2> QED
    BY <2>1
<1>3. PICK s \in Nat, e \in Nat :
          /\ s = ShareStart(q, t, i) /\ e = ShareStart(q, t, i + 1)
          /\ e = s + (IF i < t THEN q + 1 ELSE q) /\ s <= e /\ e <= q * p + t
  <2>1. PICK h \in Nat : h = i /\ h + 1 <= p
    BY <1>1
  <2>2. EndsWithin(q, t, p, h)
    <3>1. t < p
      BY <1>2
    <3> QED
      BY <2>1, <3>1, ShareWithin
  <2>3. EndsWithin(q, t, p, i)
    BY <2>1, <2>2
  <2> QED
    BY <2>3 DEF EndsWithin
<1>4. e <= n
  <2>1. q * p = p * q
    OBVIOUS
  <2> QED
    BY <1>2, <1>3, <2>1
<1>5. \A j, z : InBlock(l, i, j, z) <=> j = 0 /\ Gets(n, p, i, z)
  BY <1>1 DEF InBlock
<1>6. \A z \in 0..n - 1 : Gets(n, p, i, z) <=> s <= z /\ z < e
  <2>1. i \in 0..p - 1
    BY <1>1
  <2>2. ASSUME NEW z \in 0..n - 1 PROVE Gets(n, p, i, z) <=> s <= z /\ z < e
    <3>1. z \in Nat
      OBVIOUS
    <3>2. Gets(n, p, i, z) <=> /\ ShareStart(n \div p, n % p, i) <= z
                               /\ z < ShareStart(n \div p, n % p, i + 1)
      BY <2>1, <3>1, FirstCall
    <3> QED
      BY <1>2, <1>3, <3>2
  <2> QED
    BY <2>2
<1>12. sh.chunk = 0
  BY MadeLoop DEF Steady
<1> DEFINE zero == StaticShare(n, p, i, round)
           b == StaticBlock(sh, n, p, i, round)
<1>8. zero = IF round > 0 \/ s >= e THEN Answer(1, 0, 0, 1)
             ELSE Answer(0, s, e, IF e = n THEN -1 ELSE 1)
  BY <1>2, <1>3 DEF StaticShare
<1>9. b = [zero EXCEPT !.first = Wrapped(sh, @ * sh.incr + sh.next),
                       !.behind = Wrapped(sh, @ * sh.incr + sh.next)]
  <2>1. round # -1 /\ p # 1
    BY <1>1
  <2> QED
    BY <1>12, <2>1 DEF StaticBlock
<1> HIDE DEF b
<1>10. CASE round > 0 \/ s >= e
  <2>1. b.ret = 1 /\ b.trip = 1
    BY <1>8, <1>9, <1>10 DEF Answer
  <2>2. \A z \in 0..n - 1, j \in Nat : j >= round => ~InBlock(l, i, j, z)
    BY <1>5, <1>6, <1>10
  <2>3. TripFits(l, i, 1)
    BY DEF TripFits
  <2> QED
    BY <1>1, <2>1, <2>2, <2>3 DEF b, Serves
<1>11. CASE round = 0 /\ s < e
  <2>1. /\ b.ret = 0 /\ b.trip = (IF e = n THEN -1 ELSE 1)
        /\ b.first = Wrapped(sh, s * sh.incr + sh.next)
        /\ b.behind = Wrapped(sh, e * sh.incr + sh.next)
    BY <1>8, <1>9, <1>11 DEF Answer
  <2>2. PICK y \in Nat : /\ b.first = Place(l, s * k) /\ b.behind = Place(l, y)
                         /\ \A j \in Nat : j * k < y <=> j < e
    <3>1. s \in 0..n /\ e \in 0..n
      BY <1>4, <1>11
    <3> QED
      BY <1>1, <1>11, <2>1, <3>1, BoundsServed
  <2>3. \A z \in 0..n - 1 : InBlock(l, i, round, z) <=> s <= z /\ z < e
    BY <1>5, <1>6, <1>11
  <2>4. \A z \in 0..n - 1, j \in Nat : j > round => ~InBlock(l, i, j, z)
    BY <1>5, <1>11
  <2>5. TripFits(l, i, b.trip)
    BY <2>1 DEF TripFits
  <2>6. s \in 0..n /\ e \in 0..n
    BY <1>4, <1>11
  <2>7. b.trip \in {-1, round + 1} /\ (b.trip = -1 \/ b.trip >= round)
    BY <1>11, <2>1
  <2> QED
    BY <1>1, <1>11, <2>1, <2>2, <2>3, <2>4, <2>5, <2>6, <2>7 DEF b, Serves
<1> QED
  BY <1>10, <1>11

\* Chunks in turn: the number of the chunk does not wrap.
LEMMA ChunkServed ==
    ASSUME NEW l \in LoopPrograms, NEW sh, Steady(l, sh), sh.next = l.start,
           l.sched = "static", l.nthreads > 1, l.chunk > 0,
           NEW i \in 0..l.nthreads - 1, NEW round \in Nat, TripFits(l, i, round)
    PROVE  Serves(l, i, round, StaticBlock(sh, Trips(l), l.nthreads, i, round))
<1>1. PICK n \in Nat, p \in Nat \ {0}, k \in Nat \ {0}, c \in Nat \ {0}, g \in Nat :
          /\ n = Trips(l) /\ p = l.nthreads /\ k = Stride(l) /\ c = l.chunk /\ g = Goal(l)
          /\ n <= g
  <2>1. /\ Trips(l) \in 0..Goal(l) /\ Goal(l) \in Nat /\ Stride(l) \in Nat \ {0}
        /\ l.nthreads \in Nat \ {0} /\ l.chunk \in Nat \ {0}
    BY LoopFacts, TripFacts
  <2> QED
    BY <2>1
<1>2. PICK s \in Nat : s = (round * p + i) * c
  <2>1. round * p + i \in Nat
    BY <1>1
  <2> QED
    BY <2>1
<1>3. n > 0 => s + c <= ULLONG_MAX
  <2>1. PICK a \in Nat, m \in Nat : a = p * c /\ m = ULLONG_MAX
    BY <1>1, Wraps
  <2>2. s + c <= n + a + c
    <3>1. CASE round = 0
      <4>1. i * c <= a /\ i * c = s
        <5>1. round * p + i = i /\ i \in Nat /\ i <= p
          BY <1>1, <3>1
        <5> QED
          BY <1>2, <2>1, <5>1
      <4> QED
        BY <2>1, <4>1
    <3>2. CASE round > 0
      <4>1. ((round - 1) * p + i + 1) * c < n
        BY <1>1, <3>2 DEF TripFits
      <4>2. PICK u \in Nat : u = (round - 1) * p + i + 1
        <5>1. (round - 1) * p \in Nat
          BY <3>2
        <5> QED
          BY <1>1, <5>1
      <4>3. round * p + i = u + p - 1
        <5>1. (round - 1) * p = round * p - p
          OBVIOUS
        <5>2. PICK b \in Nat : b = round * p
          OBVIOUS
        <5> QED
          BY <4>2, <5>1, <5>2
      <4>4. s = u * c + a - c
        <5>1. (u + p - 1) * c = u * c + p * c - c
          OBVIOUS
        <5> QED
          BY <1>2, <2>1, <4>3, <5>1
      <4>5. PICK b \in Nat : b = u * c
        OBVIOUS
      <4> QED
        BY <2>1, <4>1, <4>2, <4>4, <4>5
    <3> QED
      BY <3>1, <3>2
  <2>3. n > 0 => Distance(l, l.end) = g
    <3>1. g = IF Distance(l, l.end) < 0 THEN 0 ELSE Distance(l, l.end)
      BY <1>1, Lengths
    <3> QED
      BY <1>1, <3>1
  <2>4. Distance(l, l.end) + (2 * p + 1) * c <= ULLONG_MAX
    BY <1>1, LoopAssumption
  <2>5. (2 * p + 1) * c = 2 * a + c
    BY <2>1
  <2>6. n > 0 => g + 2 * a + c <= m
    BY <2>1, <2>3, <2>4, <2>5
  <2> QED
    BY <1>1, <2>1, <2>2, <2>6
<1>4. ASSUME NEW j \in Nat
      PROVE  \A z : InBlock(l, i, j, z) <=> (j * p + i) * c <= z /\ z < (j * p + i) * c + c
  <2>1. p # 1 /\ c # 0
    BY <1>1
  <2> QED
    BY <1>1, <2>1 DEF InBlock
<1>5. ASSUME NEW j \in Nat, j > round PROVE (j * p + i) * c \in Nat /\ (j * p + i) * c >= s + c
  <2>1. (round + 1) * p <= j * p
    BY <1>5
  <2>2. (round + 1) * p = round * p + p
    OBVIOUS
  <2>3. PICK a \in Nat, b \in Nat : a = j * p /\ b = round * p
    OBVIOUS
  <2>4. PICK u \in Nat, v \in Nat : u = j * p + i /\ v = round * p + i /\ v + 1 <= u
    <3>1. i \in Nat
      BY <1>1
    <3> QED
      BY <2>1, <2>2, <2>3, <3>1
  <2>5. (v + 1) * c <= u * c /\ (v + 1) * c = v * c + c /\ u * c \in Nat
    BY <2>4
  <2> QED
    BY <1>2, <2>4, <2>5
<1>6. sh.chunk = c
  BY <1>1, MadeLoop DEF Steady
<1> DEFINE zero == StaticChunk(n, p, i, round, c)
           b == StaticBlock(sh, n, p, i, round)
           e == IF s + c > n THEN n ELSE s + c
<1>7. Unsigned((round * p + i) * c) \in Nat
  BY <1>2, Signs
<1>8. n > 0 => Unsigned((round * p + i) * c) = s /\ Unsigned(s + c) = s + c
  <2>1. n > 0 => s \in 0..ULLONG_MAX /\ s + c \in 0..ULLONG_MAX
    <3>1. PICK m \in Nat : m = ULLONG_MAX
      BY Wraps
    <3> QED
      BY <1>3, <3>1
  <2> QED
    BY <1>2, <2>1, Wraps
<1>9. b = [zero EXCEPT !.first = Wrapped(sh, @ * sh.incr + sh.next),
                       !.behind = Wrapped(sh, @ * sh.incr + sh.next)]
  <2>1. round # -1 /\ p # 1 /\ c # 0
    BY <1>1
  <2> QED
    BY <1>6, <2>1 DEF StaticBlock
<1>10. zero = IF n = 0 \/ s >= n THEN Answer(1, 0, 0, round)
              ELSE Answer(0, s, e, IF e = n THEN -1 ELSE round + 1)
  <2>1. CASE n = 0
    BY <1>7, <2>1 DEF StaticChunk
  <2>2. CASE n > 0
    BY <1>8, <2>2 DEF StaticChunk
  <2> QED
    BY <2>1, <2>2
<1> HIDE DEF b, zero
<1>11. CASE n = 0 \/ s >= n
  <2>1. b.ret = 1 /\ b.trip = round
    BY <1>9, <1>10, <1>11 DEF Answer
  <2>2. ASSUME NEW z \in 0..n - 1, NEW j \in Nat, j >= round PROVE ~InBlock(l, i, j, z)
    <3>1. s > z
      BY <1>11
    <3>2. CASE j = round
      BY <1>2, <1>4, <3>1, <3>2
    <3>3. CASE j > round
      <4>1. PICK a \in Nat : a = (j * p + i) * c /\ a >= s + c
        BY <1>5, <3>3
      <4>2. a > z
        BY <3>1, <4>1
      <4> QED
        BY <1>4, <4>1, <4>2
    <3> QED
      BY <2>2, <3>2, <3>3
  <2> QED
    BY <1>1, <2>1, <2>2 DEF b, Serves
<1>12. CASE n > 0 /\ s < n
  <2>1. /\ b.ret = 0 /\ b.trip = (IF e = n THEN -1 ELSE round + 1)
        /\ b.first = Wrapped(sh, s * sh.incr + sh.next)
        /\ b.behind = Wrapped(sh, e * sh.incr + sh.next)
    BY <1>9, <1>10, <1>12 DEF Answer
  <2>2. s \in 0..n /\ e \in 0..n /\ s < e
    BY <1>12
  <2> HIDE DEF e
  <2>3. PICK y \in Nat : /\ b.first = Place(l, s * k) /\ b.behind = Place(l, y)
                         /\ \A j \in Nat : j * k < y <=> j < e
    BY <1>1, <2>1, <2>2, BoundsServed
  <2>4. \A z \in 0..n - 1 : InBlock(l, i, round, z) <=> s <= z /\ z < e
    BY <1>2, <1>4 DEF e
  <2>5. e = n => \A z \in 0..n - 1, j \in Nat : j > round => ~InBlock(l, i, j, z)
    <3>1. e = n => s + c >= n
      BY DEF e
    <3>2. ASSUME NEW z \in 0..n - 1, NEW j \in Nat, j > round, e = n
          PROVE  ~InBlock(l, i, j, z)
      <4>1. PICK a \in Nat : a = (j * p + i) * c /\ a >= s + c
        BY <1>5, <3>2
      <4> QED
        BY <1>4, <3>1, <3>2, <4>1
    <3> QED
      BY <3>2
  <2>6. TripFits(l, i, b.trip)
    <3>1. CASE e = n
      BY <2>1, <3>1 DEF TripFits
    <3>2. CASE e # n
      <4>1. b.trip = round + 1 /\ e = s + c /\ s + c < n
        BY <2>1, <3>2 DEF e
      <4>2. (round * p + i + 1) * c = s + c
        <5>1. PICK v \in Nat : v = round * p + i
          <6>1. round * p + i \in Nat
            BY <1>1
          <6> QED
            BY <6>1
        <5>2. (v + 1) * c = v * c + c
          OBVIOUS
        <5> QED
          BY <1>2, <5>1, <5>2
      <4>3. round + 1 \in Nat /\ round + 1 - 1 = round /\ p # 1 /\ c > 0
        BY <1>1
      <4> QED
        BY <1>1, <4>1, <4>2, <4>3 DEF TripFits
    <3> QED
      BY <3>1, <3>2
  <2>7. b.trip \in {-1, round + 1} /\ (b.trip = -1 \/ b.trip >= round)
    BY <2>1
  <2>8. \E from, to \in 0..n, x \in Nat :
           /\ from < to
           /\ \A z \in 0..n - 1 : InBlock(l, i, round, z) <=> from <= z /\ z < to
           /\ b.first = Place(l, from * k) /\ b.behind = Place(l, x)
           /\ \A j \in Nat : j * k < x <=> j < to
    BY <2>2, <2>3, <2>4
  <2>9. b.trip = -1 => \A z \in 0..n - 1, j \in Nat : j > round => ~InBlock(l, i, j, z)
    BY <2>1, <2>5
  <2>10. Serves(l, i, round, b)
    BY <1>1, <2>1, <2>6, <2>7, <2>8, <2>9 DEF Serves
  <2> QED
    BY <1>1, <2>10 DEF b
<1> QED
  BY <1>11, <1>12

\* gomp_iter_static_next, in all its three cases.
LEMMA Served ==
    ASSUME NEW l \in LoopPrograms, NEW sh, Steady(l, sh), sh.next = l.start,
           l.sched = "static", NEW i \in 0..l.nthreads - 1,
           NEW round, TripFits(l, i, round), round # -1
    PROVE  Serves(l, i, round, StaticBlock(sh, Trips(l), l.nthreads, i, round))
<1>1. l.nthreads \in Nat \ {0} /\ l.chunk \in Nat /\ round \in Nat
  BY LoopFacts DEF TripFits
<1>2. CASE l.nthreads = 1
  <2>1. i = 0 /\ round = 0
    BY <1>1, <1>2 DEF TripFits
  <2> QED
    BY <1>2, <2>1, AloneServed
<1>3. CASE l.nthreads > 1 /\ l.chunk = 0
  <2>1. round \in 0..1
    BY <1>1, <1>3 DEF TripFits
  <2> QED
    BY <1>3, <2>1, ShareServed
<1>4. CASE l.nthreads > 1 /\ l.chunk > 0
  BY <1>1, <1>4, ChunkServed
<1> QED
  BY <1>1, <1>2, <1>3, <1>4

\* Iteration z was in a block that thread t has got.
Taken(t, z) ==
    \E j \in Nat : InBlock(loop, t, j, z) /\ (static_trip[t] = -1 \/ j < static_trip[t])

\* Static loops: the work share is as it was made, and what was handed out is what
\* the trip counters say.
StaticInv ==
    LET zs == 0..Trips(loop) - 1
    IN /\ share.next = loop.start /\ handed \subseteq Iterations(loop)
       /\ \A t \in LoopTeam : TripFits(loop, t, static_trip[t])
       /\ \A z \in zs : Place(loop, z * Stride(loop)) \in handed <=>
                            \E t \in LoopTeam : Taken(t, z)
       /\ \A t \in WereTold, z \in zs, j \in Nat : InBlock(loop, t, j, z) => Taken(t, z)

\* The iterations by their number.
LEMMA Numbered ==
    ASSUME NEW l \in LoopPrograms
    PROVE  /\ \A z \in 0..Trips(l) - 1 :
                  /\ Place(l, z * Stride(l)) \in Iterations(l)
                  /\ Distance(l, Place(l, z * Stride(l))) = z * Stride(l)
           /\ \A x \in Iterations(l) : \E z \in 0..Trips(l) - 1 : x = Place(l, z * Stride(l))
<1>1. PICK n \in Nat, k \in Nat \ {0}, g \in Nat :
          /\ n = Trips(l) /\ k = Stride(l) /\ g = Goal(l)
          /\ \A j \in Nat : j < n <=> j * k < g
  <2>1. Trips(l) \in Nat /\ Stride(l) \in Nat \ {0} /\ Goal(l) \in Nat
    BY LoopFacts, TripFacts
  <2> QED
    BY <2>1, TripFacts
<1>2. ASSUME NEW z \in 0..n - 1
      PROVE  Place(l, z * k) \in Iterations(l) /\ Distance(l, Place(l, z * k)) = z * k
  <2>1. z \in Nat /\ z * k \in Nat /\ z * k < g
    BY <1>1
  <2>2. Place(l, z * k) \in Int /\ Distance(l, Place(l, z * k)) = z * k
    BY <2>1, LoopFacts
  <2>3. z * k \in 0..g - 1
    BY <2>1
  <2> QED
    BY <1>1, <2>1, <2>2, <2>3, IterationsLie
<1>3. ASSUME NEW x \in Iterations(l) PROVE \E z \in 0..n - 1 : x = Place(l, z * k)
  <2>1. /\ x \in Int /\ Distance(l, x) \in 0..g - 1
        /\ \E j \in Nat : Distance(l, x) = j * k
    BY <1>1, IterationsLie
  <2>2. PICK j \in Nat : Distance(l, x) = j * k
    BY <2>1
  <2>3. j \in 0..n - 1
    <3>1. j * k < g
      BY <2>1, <2>2
    <3>2. j < n
      BY <1>1, <3>1
    <3> QED
      BY <3>2
  <2>4. x = Place(l, j * k)
    BY <2>1, <2>2, LoopFacts
  <2> QED
    BY <2>3, <2>4
<1> QED
  BY <1>1, <1>2, <1>3

\* A block of a static loop is handed out.
LEMMA BlockHandedOut ==
    ASSUME LoopTypes, StaticInv, NEW t \in LoopTeam, static_trip[t] # -1,
           NEW s \in 0..Trips(loop), NEW e \in 0..Trips(loop), NEW y \in Nat, s < e,
           \A z \in 0..Trips(loop) - 1 :
               InBlock(loop, t, static_trip[t], z) <=> s <= z /\ z < e,
           \A j \in Nat : j * Stride(loop) < y <=> j < e,
           HandOut(Place(loop, s * Stride(loop)), Place(loop, y))
    PROVE  /\ ~again' /\ handed' \subseteq Iterations(loop)
           /\ \A z \in 0..Trips(loop) - 1 :
                  Place(loop, z * Stride(loop)) \in handed' <=>
                      \/ Place(loop, z * Stride(loop)) \in handed
                      \/ InBlock(loop, t, static_trip[t], z)
<1>1. loop \in LoopPrograms /\ ~again /\ handed \subseteq Iterations(loop)
  BY DEF LoopTypes, StaticInv
<1>2. PICK n \in Nat, k \in Nat \ {0}, g \in Nat :
          /\ n = Trips(loop) /\ k = Stride(loop) /\ g = Goal(loop)
          /\ \A j \in Nat : j < n <=> j * k < g
  <2>1. Trips(loop) \in Nat /\ Stride(loop) \in Nat \ {0} /\ Goal(loop) \in Nat
    BY <1>1, LoopFacts, TripFacts
  <2> QED
    BY <1>1, <2>1, TripFacts
<1>3. s \in Nat /\ e \in Nat /\ e <= n /\ s * k \in Nat /\ s * k < y
  <2>1. s \in Nat /\ e \in Nat /\ e <= n
    BY <1>2
  <2>2. s * k < y
    BY <1>2, <2>1
  <2> QED
    BY <2>1, <2>2
<1>4. \A j \in Nat : j * k < y => j * k < g
  BY <1>2, <1>3
<1> DEFINE block == Executed(loop, Place(loop, s * k), Place(loop, y))
<1>5. /\ \A x : x \in block <=> x \in Iterations(loop) /\ s * k <= Distance(loop, x)
                                                       /\ Distance(loop, x) < y
      /\ block \subseteq Iterations(loop)
  BY <1>1, <1>2, <1>3, <1>4, BlockTaken
<1>6. handed' = handed \cup block
      /\ again' = (again \/ block \cap handed # {} \/ ~block \subseteq Iterations(loop))
  BY <1>2 DEF HandOut
<1> HIDE DEF block
<1>7. ASSUME NEW z \in 0..n - 1
      PROVE  Place(loop, z * k) \in block <=> InBlock(loop, t, static_trip[t], z)
  <2>1. z \in Nat /\ z * k \in Nat
    BY <1>2
  <2>2. Place(loop, z * k) \in Iterations(loop) /\ Distance(loop, Place(loop, z * k)) = z * k
    BY <1>1, <1>2, Numbered
  <2>3. s * k <= z * k <=> s <= z
    <3>1. s <= z => s * k <= z * k
      BY <1>3, <2>1
    <3>2. z < s => (z + 1) * k <= s * k
      BY <1>3, <2>1
    <3>3. (z + 1) * k = z * k + k
      BY <2>1
    <3>4. PICK a \in Nat, b \in Nat : a = s * k /\ b = z * k
      BY <1>3, <2>1
    <3> QED
      BY <1>2, <1>3, <2>1, <3>1, <3>2, <3>3, <3>4
  <2>4. z * k < y <=> z < e
    BY <1>2, <2>1
  <2>5. InBlock(loop, t, static_trip[t], z) <=> s <= z /\ z < e
    BY <1>2
  <2> QED
    BY <1>5, <2>2, <2>3, <2>4, <2>5
<1>8. block \cap handed = {}
  <2>1. SUFFICES ASSUME NEW x \in block, x \in handed PROVE FALSE
    OBVIOUS
  <2>2. PICK z \in 0..n - 1 : x = Place(loop, z * k)
    BY <1>1, <1>2, <2>1, Numbered
  <2>3. InBlock(loop, t, static_trip[t], z)
    BY <1>7, <2>1, <2>2
  <2>4. PICK u \in LoopTeam : Taken(u, z)
    BY <1>2, <2>1, <2>2 DEF StaticInv
  <2>5. PICK j \in Nat : InBlock(loop, u, j, z) /\ (static_trip[u] = -1 \/ j < static_trip[u])
    BY <2>4 DEF Taken
  <2>6. static_trip[t] \in Nat
    BY DEF StaticInv, TripFits
  <2>7. u = t /\ j = static_trip[t]
    <3>1. \E i \in LoopTeam, m \in Nat :
             \A h \in LoopTeam, q \in Nat : InBlock(loop, h, q, z) => h = i /\ q = m
      BY <1>1, <1>2, BlocksTile DEF LoopTeam
    <3> QED
      BY <2>3, <2>5, <2>6, <3>1
  <2> QED
    BY <2>5, <2>6, <2>7
<1> QED
  BY <1>1, <1>2, <1>5, <1>6, <1>7, <1>8

\* One step of gomp_iter_static_next.
LEMMA TakeKeeps ==
    ASSUME LoopTypes, StaticInv, loop.sched = "static", NEW t \in LoopTeam, UNCHANGED loop,
           TakeStatic(t, StaticBlock(share, Trips(loop), loop.nthreads, t, static_trip[t]))
    PROVE  LoopTypes' /\ StaticInv'
<1> DEFINE round == static_trip[t]
           b == StaticBlock(share, Trips(loop), loop.nthreads, t, round)
           zs == 0..Trips(loop) - 1
<1>1. /\ loop \in LoopPrograms /\ Steady(loop, share) /\ share.next = loop.start
      /\ TripFits(loop, t, round)
  BY DEF LoopTypes, StaticInv
<1>2. /\ static_trip' = [static_trip EXCEPT ![t] = b.trip] /\ UNCHANGED <<loop, share, begin>>
      /\ \/ b.ret = 0 /\ HandOut(b.first, b.behind) /\ UNCHANGED where
         \/ b.ret # 0 /\ Told(t)
  BY DEF TakeStatic
<1>3. round = -1 => b.ret = -1 /\ b.trip = -1
  BY DEF StaticBlock, Answer
<1>4. round # -1 => Serves(loop, t, round, b)
  BY <1>1, Served DEF LoopTeam
<1> HIDE DEF b
<1>5. TripFits(loop, t, b.trip) /\ b.trip \in Int
  BY <1>3, <1>4 DEF Serves, TripFits
<1>6. /\ static_trip' \in [LoopTeam -> Int] /\ static_trip'[t] = b.trip
      /\ \A u \in LoopTeam : u # t => static_trip'[u] = static_trip[u]
  BY <1>2, <1>5 DEF LoopTypes
<1>7. /\ Trips(loop)' = Trips(loop) /\ Stride(loop)' = Stride(loop) /\ LoopTeam' = LoopTeam
      /\ Steady(loop, share)' /\ InSight(loop)' /\ loop' \in LoopPrograms
      /\ Iterations(loop)' = Iterations(loop)
  BY <1>2, SameLoop DEF Trips, Iterations, Distance, Stride, Goal, Finish, LoopTeam
<1>8. /\ \A u, j, z : InBlock(loop, u, j, z)' = InBlock(loop, u, j, z)
      /\ \A z : Place(loop, z * Stride(loop))' = Place(loop, z * Stride(loop))
      /\ share'.next = loop'.start
  BY <1>1, <1>2
<1>9. \A u \in LoopTeam : TripFits(loop, u, static_trip'[u])
  BY <1>5, <1>6 DEF StaticInv
<1>10. \A u \in LoopTeam : \A z \in zs : u # t => (Taken(u, z)' <=> Taken(u, z))
  BY <1>6, <1>8 DEF Taken
<1>11. CASE b.ret # 0
  <2>1. /\ where' = [where EXCEPT ![t] = "told"] /\ handed' = handed /\ again' = again
    BY <1>2, <1>11 DEF Told
  <2>2. \A z \in zs : Taken(t, z)' <=> Taken(t, z)
    <3>1. CASE round = -1
      BY <1>3, <1>6, <1>8, <3>1 DEF Taken
    <3>2. CASE round # -1
      <4>1. /\ b.trip = -1 \/ b.trip >= round
            /\ \A z \in zs, j \in Nat : j >= round => ~InBlock(loop, t, j, z)
        BY <1>1, <1>4, <1>11, <3>2 DEF Serves, TripFits
      <4>2. round \in Nat
        BY <1>1, <3>2 DEF TripFits
      <4> QED
        BY <1>5, <1>6, <1>8, <3>2, <4>1, <4>2 DEF Taken
    <3> QED
      BY <3>1, <3>2
  <2>3. \A u \in LoopTeam : \A z \in zs : Taken(u, z)' <=> Taken(u, z)
    BY <1>10, <2>2
  <2>4. \A z \in zs, j \in Nat : InBlock(loop, t, j, z) => Taken(t, z)
    <3>1. CASE round = -1
      BY <3>1 DEF Taken
    <3>2. CASE round # -1
      <4>1. \A z \in zs, j \in Nat : j >= round => ~InBlock(loop, t, j, z)
        BY <1>4, <1>11, <3>2 DEF Serves
      <4>2. round \in Nat
        BY <1>1, <3>2 DEF TripFits
      <4>3. \A j \in Nat : j >= round \/ j < round
        BY <4>2
      <4> QED
        BY <4>1, <4>3 DEF Taken
    <3> QED
      BY <3>1, <3>2
  <2>5. WereTold' = WereTold \cup {t} /\ where' \in [LoopTeam -> {"call", "cas", "told"}]
    BY <1>7, <2>1 DEF WereTold, LoopTypes
  <2>6. \A u \in WereTold', z \in zs, j \in Nat : InBlock(loop, u, j, z) => Taken(u, z)'
    BY <2>3, <2>4, <2>5 DEF StaticInv, WereTold
  <2>7. LoopTypes'
    BY <1>2, <1>6, <1>7, <2>1, <2>5 DEF LoopTypes
  <2>8. \A z \in zs : Place(loop, z * Stride(loop)) \in handed' <=>
                          \E u \in LoopTeam : Taken(u, z)'
    BY <2>1, <2>3 DEF StaticInv
  <2>9. handed' \subseteq Iterations(loop)
    BY <2>1 DEF StaticInv
  <2> QED
    BY <1>7, <1>8, <1>9, <2>6, <2>7, <2>8, <2>9 DEF StaticInv
<1>12. CASE b.ret = 0
  <2>1. HandOut(b.first, b.behind) /\ UNCHANGED where /\ round # -1
    BY <1>2, <1>3, <1>12
  <2>2. /\ b.trip \in {-1, round + 1}
        /\ b.trip = -1 => \A z \in zs, j \in Nat : j > round => ~InBlock(loop, t, j, z)
        /\ \E s, e \in 0..Trips(loop), y \in Nat :
              /\ s < e /\ \A z \in zs : InBlock(loop, t, round, z) <=> s <= z /\ z < e
              /\ b.first = Place(loop, s * Stride(loop)) /\ b.behind = Place(loop, y)
              /\ \A j \in Nat : j * Stride(loop) < y <=> j < e
    BY <1>4, <1>12, <2>1 DEF Serves
  <2>3. round \in Nat
    BY <1>1, <2>1 DEF TripFits
  <2>4. /\ ~again' /\ handed' \subseteq Iterations(loop)
        /\ \A z \in zs : Place(loop, z * Stride(loop)) \in handed' <=>
                            \/ Place(loop, z * Stride(loop)) \in handed
                            \/ InBlock(loop, t, round, z)
    BY <2>1, <2>2, BlockHandedOut
  <2>5. \A z \in zs : Taken(t, z)' <=> Taken(t, z) \/ InBlock(loop, t, round, z)
    <3>1. \A z : Taken(t, z)' <=> \E j \in Nat : /\ InBlock(loop, t, j, z)
                                                 /\ b.trip = -1 \/ j < b.trip
      BY <1>6, <1>8 DEF Taken
    <3>2. \A z : Taken(t, z) <=> \E j \in Nat : InBlock(loop, t, j, z) /\ j < round
      BY <2>1 DEF Taken
    <3>3. CASE b.trip = round + 1
      <4>1. \A j \in Nat : (b.trip = -1 \/ j < b.trip) <=> j < round \/ j = round
        BY <2>3, <3>3
      <4> QED
        BY <2>3, <3>1, <3>2, <4>1
    <3>4. CASE b.trip = -1
      <4>1. \A z \in zs, j \in Nat : InBlock(loop, t, j, z) => j < round \/ j = round
        <5>1. \A j \in Nat : j > round \/ j < round \/ j = round
          BY <2>3
        <5> QED
          BY <2>2, <3>4, <5>1
      <4> QED
        BY <2>3, <3>1, <3>2, <3>4, <4>1
    <3> QED
      BY <2>2, <3>3, <3>4
  <2>6. \A z \in zs : Place(loop, z * Stride(loop)) \in handed' <=>
                          \E u \in LoopTeam : Taken(u, z)'
    BY <1>10, <2>4, <2>5 DEF StaticInv
  <2>7. WereTold' = WereTold
    BY <1>7, <2>1 DEF WereTold
  <2>8. \A u \in WereTold', z \in zs, j \in Nat : InBlock(loop, u, j, z) => Taken(u, z)'
    BY <1>10, <2>5, <2>7 DEF StaticInv, WereTold
  <2>9. LoopTypes'
    BY <1>2, <1>6, <1>7, <2>1, <2>4 DEF LoopTypes
  <2> QED
    BY <1>7, <1>8, <1>9, <2>4, <2>6, <2>8, <2>9 DEF StaticInv
<1> QED
  BY <1>11, <1>12

\* The inductive invariant.
OnceInv == LoopTypes /\ IF loop.sched = "static" THEN StaticInv ELSE QueueInv

\* A static loop that begins.
LEMMA StaticBegins ==
    ASSUME LoopInitial, InSight(loop), loop.sched = "static"
    PROVE  StaticInv
<1>1. /\ loop \in LoopPrograms /\ share = FirstShare(loop) /\ handed = {}
      /\ where = [t \in LoopTeam |-> "call"] /\ static_trip = [t \in LoopTeam |-> 0]
  BY DEF LoopInitial, LoopBegins
<1>2. share.next = loop.start
  BY <1>1, MadeLoop
<1>3. \A t : TripFits(loop, t, 0)
  BY DEF TripFits
<1>4. \A t \in LoopTeam : static_trip[t] = 0
  BY <1>1
<1>5. \A t \in LoopTeam : \A z : ~Taken(t, z)
  <2>1. \A j \in Nat : ~(j < 0)
    OBVIOUS
  <2> QED
    BY <1>4, <2>1 DEF Taken
<1>6. WereTold = {}
  BY <1>1 DEF WereTold
<1> QED
  BY <1>1, <1>2, <1>3, <1>4, <1>5, <1>6 DEF StaticInv

\* Every step of a static loop.
LEMMA StaticSteps ==
    ASSUME LoopTypes, StaticInv, loop.sched = "static", [LoopNext]_loopVars
    PROVE  LoopTypes' /\ StaticInv'
<1>1. /\ loop \in LoopPrograms /\ share.sched = "static" /\ Steady(loop, share)
      /\ share.type = (IF loop.type = "ull" THEN "ull" ELSE "long")
      /\ share.next = loop.start
  BY MadeLoop DEF LoopTypes, Steady, StaticInv
<1>2. CASE UNCHANGED loopVars
  <2>1. UNCHANGED <<loop, share, where, begin, static_trip, handed, again>>
    BY <1>2 DEF loopVars
  <2>2. LoopTypes'
    BY <2>1, SameLoop DEF LoopTypes
  <2>3. /\ WereTold' = WereTold /\ LoopTeam' = LoopTeam
        /\ \A t, z : Taken(t, z)' <=> Taken(t, z)
        /\ Trips(loop)' = Trips(loop) /\ Stride(loop)' = Stride(loop)
        /\ Iterations(loop)' = Iterations(loop)
    BY <2>1 DEF WereTold, LoopTeam, Taken
  <2> QED
    BY <2>1, <2>2, <2>3 DEF StaticInv
<1>3. ASSUME NEW t \in LoopTeam, LoopStep(t) PROVE LoopTypes' /\ StaticInv'
  <2>1. StaticNext(t) \/ UllStaticNext(t)
    BY <1>1, <1>3 DEF LoopStep, DynamicAdd, DynamicSwap, GuidedSwap, UllDynamicAdd,
                      UllDynamicSwap, UllGuidedSwap, LoadNext, Asks, TrySwap
  <2>2. /\ UNCHANGED loop
        /\ TakeStatic(t, StaticBlock(share, Trips(loop), loop.nthreads, t, static_trip[t]))
    <3>1. CASE StaticNext(t)
      <4>1. share.type = "long" /\ UNCHANGED loop
        BY <3>1 DEF StaticNext, Asks
      <4>2. TripCount(share) = Trips(loop)
        BY <1>1, <4>1, TripCounts
      <4> QED
        BY <3>1, <4>1, <4>2 DEF StaticNext
    <3>2. CASE UllStaticNext(t)
      <4>1. share.type = "ull" /\ UNCHANGED loop
        BY <3>2 DEF UllStaticNext, Asks
      <4>2. UllTripCount(share) = Trips(loop)
        BY <1>1, <4>1, TripCounts
      <4> QED
        BY <3>2, <4>1, <4>2 DEF UllStaticNext
    <3> QED
      BY <2>1, <3>1, <3>2
  <2> QED
    BY <1>3, <2>2, TakeKeeps
<1> QED
  BY <1>2, <1>3 DEF LoopNext

\* When everyone was told that all work is assigned, every iteration was handed out.
LEMMA OnceWhenTold ==
    ASSUME OnceInv
    PROVE  EveryIterationOnce
<1>1. loop \in LoopPrograms /\ ~again /\ loop.nthreads \in Nat \ {0} /\ Goal(loop) \in Nat
  BY LoopFacts DEF OnceInv, LoopTypes
<1>2. SUFFICES ASSUME \A t \in LoopTeam : where[t] = "told"
               PROVE  handed = Iterations(loop)
  BY <1>1 DEF EveryIterationOnce
<1>3. WereTold = LoopTeam /\ 0 \in LoopTeam
  BY <1>1, <1>2 DEF WereTold, LoopTeam
<1>4. CASE loop.sched = "static"
  <2>1. StaticInv
    BY <1>4 DEF OnceInv
  <2>2. ASSUME NEW x \in Iterations(loop) PROVE x \in handed
    <3>1. PICK z \in 0..Trips(loop) - 1 : x = Place(loop, z * Stride(loop))
      BY <1>1, Numbered
    <3>2. PICK i \in LoopTeam, j \in Nat : InBlock(loop, i, j, z)
      BY <1>1, BlocksTile DEF LoopTeam
    <3>3. Taken(i, z)
      BY <1>3, <2>1, <3>2 DEF StaticInv
    <3> QED
      BY <2>1, <3>1, <3>3 DEF StaticInv
  <2>3. handed \subseteq Iterations(loop)
    BY <2>1 DEF StaticInv
  <2> QED
    BY <2>2, <2>3
<1>5. CASE loop.sched # "static"
  <2>1. QueueInv
    BY <1>5 DEF OnceInv
  <2>2. Reached >= Goal(loop) /\ Reached \in Nat /\ handed = Sofar(loop, Reached)
    BY <1>1, <1>3, <2>1 DEF QueueInv
  <2> QED
    BY <1>1, <2>2, AllSofar
<1> QED
  BY <1>4, <1>5

\* Every iteration of every loop is executed exactly once: long and unsigned long
\* long, up and down, static, dynamic and guided, by compare-and-swap or by
\* fetch-and-add, and sections; for words of any size and teams of any size, if a
\* work share with fetch-and-add has room for the team that executes the loop
\* (gomp_iter_static_next, gomp_iter_dynamic_next, gomp_iter_guided_next, their
\* twins of iter_ull.c, gomp_loop_init, gomp_loop_ull_init, gomp_sections_init).
THEOREM IterationsOnce ==
    ASSUME \A l \in LoopPrograms : InSight(l)
    PROVE  LoopSpec => []EveryIterationOnce
<1>1. LoopInitial => OnceInv
  BY BeginsWell, StaticBegins DEF OnceInv, LoopInitial
<1>2. OnceInv /\ [LoopNext]_loopVars => OnceInv'
  <2>1. SUFFICES ASSUME OnceInv, [LoopNext]_loopVars PROVE OnceInv'
    OBVIOUS
  <2>2. loop' = loop
    <3>1. ASSUME NEW t \in LoopTeam, LoopStep(t) PROVE loop' = loop
      BY <3>1 DEF LoopStep, StaticNext, UllStaticNext, DynamicAdd, DynamicSwap, GuidedSwap,
                  UllDynamicAdd, UllDynamicSwap, UllGuidedSwap, LoadNext, Asks, TrySwap
    <3> QED
      BY <2>1, <3>1 DEF LoopNext, loopVars
  <2> QED
    BY <2>1, <2>2, StaticSteps, QueueSteps DEF OnceInv
<1> QED
  BY <1>1, <1>2, OnceWhenTold, PTL DEF LoopSpec
=============================================================================
