------------------------------ MODULE LockProofs ----------------------------
(***************************************************************************)
(* The futex mutex is a lock, forgets no sleeper and implements            *)
(* AbstractLock; the pointer lock has one provider, gives nobody anything  *)
(* but the pointer and forgets no sleeper; a nested lock excludes other    *)
(* tasks from the first set to the last unset; critical sections of one    *)
(* name exclude each other; the semaphore keeps its word well formed,      *)
(* forgets no sleeper and implements AbstractSem.  For every set of        *)
(* threads, tasks, names and addresses and any number of posts.            *)
(***************************************************************************)
EXTENDS Mutex, PtrLock, NestLock, CriticalName, Sem, TLAPS

-----------------------------------------------------------------------------
(* The futex mutex.                                                        *)

ThreadStep(t) == Step(t) \/ Lock(t) \/ TestLock(t) \/ Interrupted(t)

(* Mutual exclusion alone is not inductive: that an unlocked word means an *)
(* empty critical section is what makes a successful swap safe.            *)
LockInv == TypeOK /\ MutualExclusion /\ WordTellsHolder

\* The word has one of its three values and every thread is at a known place.
THEOREM MutexTypeOK == Spec => []TypeOK
<1>1. Init => TypeOK
  BY DEF Init, TypeOK, PCs
<1>2. TypeOK /\ [Next]_vars => TypeOK'
  <2> SUFFICES ASSUME TypeOK, [Next]_vars PROVE TypeOK'
    OBVIOUS
  <2>1. CASE UNCHANGED vars
    BY <2>1 DEF TypeOK, vars
  <2>2. ASSUME NEW t \in Threads, ThreadStep(t) PROVE TypeOK'
    BY <2>2 DEF TypeOK, PCs, ThreadStep, Step, Lock, TestLock, Interrupted,
       Spin, RetryCas, Announce, FutexWait, Unlock, FutexWake, CompareAndSwap,
       SlowLoop, Goto
  <2> QED
    BY <2>1, <2>2 DEF Next, ThreadStep
<1> QED
  BY <1>1, <1>2, PTL DEF Spec

LEMMA LockInvInit == Init => LockInv
BY DEF Init, LockInv, TypeOK, PCs, MutualExclusion, WordTellsHolder

LEMMA LockInvStep == LockInv /\ [Next]_vars => LockInv'
<1> SUFFICES ASSUME LockInv, [Next]_vars PROVE LockInv'
  OBVIOUS
<1> USE DEF LockInv, TypeOK, PCs, MutualExclusion, WordTellsHolder
<1>1. CASE UNCHANGED vars
  BY <1>1 DEF vars
<1>2. ASSUME NEW t \in Threads, CompareAndSwap(t), pc[t] # "cs" PROVE LockInv'
  BY <1>2 DEF CompareAndSwap, SlowLoop, Goto
<1>3. ASSUME NEW t \in Threads, TestLock(t) PROVE LockInv'
  BY <1>3 DEF TestLock, Goto
<1>4. ASSUME NEW t \in Threads, Spin(t) \/ FutexWait(t) \/ Interrupted(t) PROVE LockInv'
  BY <1>4 DEF Spin, FutexWait, Interrupted, Goto
<1>5. ASSUME NEW t \in Threads, Announce(t) PROVE LockInv'
  BY <1>5 DEF Announce, Goto
<1>6. ASSUME NEW t \in Threads, Unlock(t) PROVE LockInv'
  BY <1>6 DEF Unlock, Goto
<1>7. ASSUME NEW t \in Threads, FutexWake(t) PROVE LockInv'
  BY <1>7 DEF FutexWake, Goto
<1> QED
  BY <1>1, <1>2, <1>3, <1>4, <1>5, <1>6, <1>7
     DEF Next, Step, Lock, RetryCas

LEMMA LockInvariant == Spec => []LockInv
BY LockInvInit, LockInvStep, PTL DEF Spec

\* At most one thread is between gomp_mutex_lock and gomp_mutex_unlock.
THEOREM MutexExcludes == Spec => []MutualExclusion
<1>1. LockInv => MutualExclusion
  BY DEF LockInv
<1> QED
  BY <1>1, LockInvariant, PTL

\* The word is 0 exactly while no thread is inside.
THEOREM MutexWord == Spec => []WordTellsHolder
<1>1. LockInv => WordTellsHolder
  BY DEF LockInv
<1> QED
  BY <1>1, LockInvariant, PTL

\* While a thread sleeps on the word, the word is -1, a wake call is under way
\* or a woken thread is about to set it to -1 again (mutex.c, second loop).
THEOREM MutexForgetsNoSleeper == Spec => []NoLostWakeup
<1>1. Init => NoLostWakeup
  BY DEF Init, NoLostWakeup
<1>2. TypeOK /\ NoLostWakeup /\ [Next]_vars => NoLostWakeup'
  <2> SUFFICES ASSUME TypeOK, NoLostWakeup, [Next]_vars PROVE NoLostWakeup'
    OBVIOUS
  <2> USE DEF NoLostWakeup, TypeOK, PCs
  <2>1. CASE UNCHANGED vars
    BY <2>1 DEF vars
  <2>2. ASSUME NEW t \in Threads, CompareAndSwap(t), pc[t] \in {"out", "cas"}
        PROVE NoLostWakeup'
    BY <2>2 DEF CompareAndSwap, SlowLoop, Goto
  <2>3. ASSUME NEW t \in Threads, TestLock(t) \/ Spin(t) \/ Interrupted(t)
        PROVE NoLostWakeup'
    BY <2>3 DEF TestLock, Spin, Interrupted, Goto
  <2>4. ASSUME NEW t \in Threads, Announce(t) \/ FutexWait(t) PROVE NoLostWakeup'
    BY <2>4 DEF Announce, FutexWait, Goto
  <2>5. ASSUME NEW t \in Threads, Unlock(t) PROVE NoLostWakeup'
    BY <2>5 DEF Unlock, Goto
  <2>6. ASSUME NEW t \in Threads, FutexWake(t) PROVE NoLostWakeup'
    BY <2>6 DEF FutexWake, Goto
  <2> QED
    BY <2>1, <2>2, <2>3, <2>4, <2>5, <2>6 DEF Next, Step, Lock, RetryCas
<1> QED
  BY <1>1, <1>2, MutexTypeOK, PTL DEF Spec

-----------------------------------------------------------------------------
(* Refinement.                                                             *)

\* holder is well defined: the thread inside, or nobody.
LEMMA HolderInside ==
  ASSUME MutualExclusion, NEW t \in Threads, pc[t] = "cs"
  PROVE  holder = t
BY DEF MutualExclusion, holder

LEMMA HolderOutside ==
  ASSUME \A t \in Threads : pc[t] # "cs"
  PROVE  holder = NoThread
BY DEF holder

LEMMA MutexStepRefines ==
  ASSUME LockInv, LockInv', [Next]_vars
  PROVE  [L!Next]_holder
<1> USE DEF LockInv, TypeOK, PCs
<1>1. ASSUME NEW t \in Threads, pc[t] # "cs", pc'[t] = "cs", mutex = 0
      PROVE  L!Acquire(t)
  <2>1. holder = NoThread
    BY <1>1, HolderOutside DEF WordTellsHolder
  <2>2. holder' = t
    BY <1>1 DEF MutualExclusion, holder
  <2> QED
    BY <2>1, <2>2 DEF L!Acquire
<1>2. ASSUME NEW t \in Threads, Unlock(t) PROVE L!Release(t)
  <2>1. holder = t
    BY <1>2, HolderInside DEF Unlock
  <2>2. \A s \in Threads : pc'[s] # "cs"
    BY <1>2 DEF Unlock, Goto, MutualExclusion
  <2>3. holder' = NoThread
    BY <2>2 DEF holder
  <2> QED
    BY <2>1, <2>3 DEF L!Release
<1>3. ASSUME \A s \in Threads : pc'[s] = "cs" <=> pc[s] = "cs"
      PROVE  UNCHANGED holder
  <2>1. CASE \E s \in Threads : pc[s] = "cs"
    <3> PICK s \in Threads : pc[s] = "cs"
      BY <2>1
    <3> QED
      BY <1>3, HolderInside DEF MutualExclusion, holder
  <2>2. CASE \A s \in Threads : pc[s] # "cs"
    BY <1>3, <2>2 DEF holder
  <2> QED
    BY <2>1, <2>2
<1>4. CASE UNCHANGED vars
  BY <1>3, <1>4 DEF vars
<1>5. ASSUME NEW t \in Threads, CompareAndSwap(t), pc[t] # "cs"
      PROVE  L!Acquire(t) \/ UNCHANGED holder
  BY <1>1, <1>3, <1>5 DEF CompareAndSwap, SlowLoop, Goto
<1>6. ASSUME NEW t \in Threads, TestLock(t) PROVE L!Acquire(t)
  BY <1>1, <1>6 DEF TestLock, Goto
<1>7. ASSUME NEW t \in Threads, Announce(t)
      PROVE  L!Acquire(t) \/ UNCHANGED holder
  BY <1>1, <1>3, <1>7 DEF Announce, Goto
<1>8. ASSUME NEW t \in Threads,
             Spin(t) \/ FutexWait(t) \/ FutexWake(t) \/ Interrupted(t)
      PROVE  UNCHANGED holder
  BY <1>3, <1>8 DEF Spin, FutexWait, FutexWake, Interrupted, Goto
<1> QED
  BY <1>2, <1>4, <1>5, <1>6, <1>7, <1>8
     DEF Next, Step, Lock, RetryCas, L!Next

\* The futex protocol implements a lock that passes from holder to holder only
\* through a release.
THEOREM MutexImplementsLock == Spec => ImplementsLock
<1>1. Init => L!Init
  BY HolderOutside DEF Init, L!Init
<1>2. LockInv /\ LockInv' /\ [Next]_vars => [L!Next]_holder
  BY MutexStepRefines
<1> QED
  BY <1>1, <1>2, LockInvariant, PTL DEF Spec, ImplementsLock, L!Spec
-----------------------------------------------------------------------------
(* Pointer locks.                                                          *)

(* A thread past the first compare-and-swap has seen the word claimed, and *)
(* the word goes from "null" over "owned" and "awaited" to "ptr" only; it  *)
(* is claimed exactly while a thread owns it.                              *)
Claimed ==
    /\ \A t \in Threads :
          lpc[t] \in {"slow", "dowait", "asleep", "load"} => ptrlock # "null"
    /\ (\E t \in Threads : lpc[t] = "owner") <=> ptrlock \in {"owned", "awaited"}
    /\ \A t \in Threads : lpc[t] \in {"dowait", "asleep", "load"} => ptrlock # "owned"

PtrInv == PtrTypeOK /\ OneProvides /\ SleepersWoken /\ Claimed

LEMMA PtrInvInit == PtrInit => PtrInv
BY DEF PtrInit, PtrInv, PtrTypeOK, PtrWords, PtrPCs, OneProvides, SleepersWoken, Claimed

LEMMA PtrInvStep == PtrInv /\ [PtrNext]_ptrVars => PtrInv'
<1> SUFFICES ASSUME PtrInv, [PtrNext]_ptrVars PROVE PtrInv'
  OBVIOUS
<1> USE DEF PtrInv, PtrTypeOK, PtrWords, PtrPCs, OneProvides, SleepersWoken, Claimed, LGoto
<1>1. CASE UNCHANGED ptrVars
  BY <1>1 DEF ptrVars
<1>2. ASSUME NEW t \in Threads, Get(t) PROVE PtrInv'
  BY <1>2 DEF Get
<1>3. ASSUME NEW t \in Threads, Claim(t) PROVE PtrInv'
  BY <1>3 DEF Claim
<1>4. ASSUME NEW t \in Threads, GetSlow(t) PROVE PtrInv'
  BY <1>4 DEF GetSlow
<1>5. ASSUME NEW t \in Threads, DoWait(t) PROVE PtrInv'
  BY <1>5 DEF DoWait
<1>6. ASSUME NEW t \in Threads, Recheck(t) PROVE PtrInv'
  BY <1>6 DEF Recheck, PtrLoad
<1>7. ASSUME NEW t \in Threads, Read(t) \/ PtrInterrupted(t) PROVE PtrInv'
  BY <1>7 DEF Read, PtrInterrupted
<1>8. ASSUME NEW t \in Threads, Set(t) PROVE PtrInv'
  BY <1>8 DEF Set
<1>9. ASSUME NEW t \in Threads, WakeAll(t) PROVE PtrInv'
  BY <1>9 DEF WakeAll
<1> QED
  BY <1>1, <1>2, <1>3, <1>4, <1>5, <1>6, <1>7, <1>8, <1>9 DEF PtrNext, PtrStep

LEMMA PtrInvariant == PtrSpec => []PtrInv
BY PtrInvInit, PtrInvStep, PTL DEF PtrSpec

\* gomp_ptrlock_get returns NULL to one thread only, and to every other thread
\* the pointer that thread has set.
THEOREM PtrLockOneProvides == PtrSpec => []OneProvides
<1>1. PtrInv => OneProvides
  BY DEF PtrInv
<1> QED
  BY <1>1, PtrInvariant, PTL

\* While a thread sleeps, the word makes gomp_ptrlock_set wake all sleepers, or
\* it is about to.
THEOREM PtrLockWakesSleepers == PtrSpec => []SleepersWoken
<1>1. PtrInv => SleepersWoken
  BY DEF PtrInv
<1> QED
  BY <1>1, PtrInvariant, PTL
-----------------------------------------------------------------------------
(* Nested locks.                                                          *)

(* What the unlocked read of owner relies on: owner names the task that    *)
(* holds the mutex or nobody, and is cleared before the mutex is released. *)
OwnerHolds ==
    \A t \in Threads :
        /\ npc[t] \in {"own", "own1", "inc", "dec", "unlock"} => nestHolder = t
        /\ owner = t => nestHolder = t /\ npc[t] \notin {"lock", "own", "own1", "unlock"}
        /\ owner = t /\ npc[t] = "out" => depth[t] > 0
        /\ depth[t] > 0 => owner = t /\ npc[t] \in {"out", "inc"}
        /\ npc[t] = "inc" => owner = t /\ count = depth[t]
        /\ npc[t] \in {"own", "own1", "unlock"} => count = 0 /\ depth[t] = 0
        /\ npc[t] = "dec" => count = 0 /\ depth[t] = 0

\* A task counts only as far as the program nests.
WithinDepth ==
    \A t \in Threads : npc[t] \in {"lock", "own", "own1", "inc"} => depth[t] < MaxDepth

Unowned == nestHolder = NoThread => count = 0

NestInv == NestTypeOK /\ NestExcludes /\ OwnerHolds /\ WithinDepth /\ Unowned

LEMMA NestInvInit == NestInit => NestInv
BY NoThreadAssumption, DepthAssumption
   DEF NestInit, NestInv, NestTypeOK, NestPCs, NestExcludes, OwnerHolds, WithinDepth,
       Unowned, NL!Init

LEMMA NestInvStep == NestInv /\ [NestNext]_nestVars => NestInv'
<1> SUFFICES ASSUME NestInv, [NestNext]_nestVars PROVE NestInv'
  OBVIOUS
<1> USE NoThreadAssumption, DepthAssumption
    DEF NestInv, NestTypeOK, NestPCs, NestExcludes, OwnerHolds, WithinDepth, Unowned,
        NGoto, Entered
<1>1. CASE UNCHANGED nestVars
  BY <1>1 DEF nestVars
<1>2. ASSUME NEW t \in Threads, SetNest(t) PROVE NestInv'
  BY <1>2 DEF SetNest
<1>3. ASSUME NEW t \in Threads, LockNest(t) PROVE NestInv'
  BY <1>3 DEF LockNest, NL!Acquire
<1>4. ASSUME NEW t \in Threads, Own(t) PROVE NestInv'
  BY <1>4 DEF Own
<1>5. ASSUME NEW t \in Threads, Increment(t) PROVE NestInv'
  BY <1>5 DEF Increment
<1>6. ASSUME NEW t \in Threads, TestNest(t) PROVE NestInv'
  BY <1>6 DEF TestNest, NL!Acquire
<1>7. ASSUME NEW t \in Threads, TestOwn(t) PROVE NestInv'
  BY <1>7 DEF TestOwn
<1>8. ASSUME NEW t \in Threads, Unset(t) PROVE NestInv'
  BY <1>8 DEF Unset
<1>9. ASSUME NEW t \in Threads, Disown(t) PROVE NestInv'
  BY <1>9 DEF Disown
<1>10. ASSUME NEW t \in Threads, UnlockNest(t) PROVE NestInv'
  BY <1>10 DEF UnlockNest, NL!Release
<1> QED
  BY <1>1, <1>2, <1>3, <1>4, <1>5, <1>6, <1>7, <1>8, <1>9, <1>10 DEF NestNext

\* A task between its first omp_set_nest_lock and its last omp_unset_nest_lock
\* holds the mutex, and count is the number of its unsets to come.
THEOREM NestLockExcludes == NestSpec => []NestExcludes
<1>1. NestInv => NestExcludes
  BY DEF NestInv
<1> QED
  BY <1>1, NestInvInit, NestInvStep, PTL DEF NestSpec
-----------------------------------------------------------------------------
(* Critical sections.                                                     *)

CritTypeOK ==
    /\ cpc \in [Threads -> {"out", "malloc", "cas", "lock", "in"}]
    /\ section \in [Threads -> Names]
    /\ pptr \in [Names -> Mutexes \cup {NULL}]
    /\ plock \in [Threads -> Mutexes \cup {NULL}]
    /\ nlock \in [Threads -> Mutexes \cup {NULL}]
    /\ live \in SUBSET Mutexes
    /\ holds \in [Mutexes -> Threads \cup {NoThread}]

(* Nobody frees what another thread can reach: a name's mutex is allocated *)
(* and no other name's; one that is not published yet is known to the      *)
(* thread that allocated it alone.                                         *)
Published ==
    \A n \in Names : pptr[n] # NULL =>
        /\ pptr[n] \in live
        /\ \A k \in Names : pptr[k] = pptr[n] => k = n

Private ==
    \A t \in Threads : cpc[t] = "cas" =>
        /\ nlock[t] \in live
        /\ \A n \in Names : pptr[n] # nlock[t]
        /\ \A s \in Threads : cpc[s] = "cas" /\ nlock[s] = nlock[t] => s = t

Found ==
    \A t \in Threads : cpc[t] \in {"lock", "in"} =>
        plock[t] # NULL /\ plock[t] = pptr[section[t]]

Held == \A t \in Threads : cpc[t] = "in" => holds[plock[t]] = t

CritInv == CritTypeOK /\ Published /\ Private /\ Found /\ Held

LEMMA CritInvInit == CritInit => CritInv
BY DEF CritInit, CritInv, CritTypeOK, Published, Private, Found, Held

LEMMA CritInvStep == CritInv /\ [CritNext]_critVars => CritInv'
<1> SUFFICES ASSUME CritInv, [CritNext]_critVars PROVE CritInv'
  OBVIOUS
<1> USE NullAssumption, NoThreadAssumption
    DEF CritInv, CritTypeOK, Published, Private, Found, Held
<1>1. CASE UNCHANGED critVars
  BY <1>1 DEF critVars
<1>2. ASSUME NEW t \in Threads, NEW n \in Names, NameStart(t, n) PROVE CritInv'
  BY <1>2 DEF NameStart
<1>3. ASSUME NEW t \in Threads, NEW m \in Mutexes, NewMutex(t, m) PROVE CritInv'
  BY <1>3 DEF NewMutex
<1>4. ASSUME NEW t \in Threads, SwapName(t) PROVE CritInv'
  BY <1>4 DEF SwapName, SwapsFirst
<1>5. ASSUME NEW t \in Threads, LockName(t) PROVE CritInv'
  BY <1>5 DEF LockName
<1>6. ASSUME NEW t \in Threads, NameEnd(t) PROVE CritInv'
  BY <1>6 DEF NameEnd
<1> QED
  BY <1>1, <1>2, <1>3, <1>4, <1>5, <1>6 DEF CritNext

(* GOMP_critical_name_start and GOMP_critical_name_end exclude, and use no *)
(* mutex that was freed.                                                   *)
THEOREM CriticalExcludes == CritSpec => []NamesExclude
<1>1. CritInv => NamesExclude
  BY NoThreadAssumption
     DEF CritInv, CritTypeOK, Published, Found, Held, NamesExclude
<1> QED
  BY <1>1, CritInvInit, CritInvStep, PTL DEF CritSpec
-----------------------------------------------------------------------------
(* Semaphores.                                                             *)

(* A thread takes one only from a word in which it saw one: without that   *)
(* the count could fall below zero.                                        *)
SawOne == \A t \in Threads : spc[t] \in {"fast", "cas"} => seen[t].count # 0

(* A thread at "setflag" may still have another word in seen than 0 only   *)
(* if the swap is going to fail; whatever it saw, it swaps 0 for SEM_WAIT. *)
SawZero == \A t \in Threads : spc[t] \in {"spin", "setflag"} => seen[t] = Zero

SemInv == SemTypeOK /\ SawOne /\ SawZero

LEMMA SemInvInit == SemInit => SemInv
BY DEF SemInit, SemInv, SemTypeOK, SawOne, SawZero, SemWords, Zero, SemPCs, WaitPCs

(* The three ways in which steps change the state: a swap, a look at the   *)
(* word, and a move of the program counter.                                *)
LEMMA SwapKeeps ==
  ASSUME SemInv, NEW t \in Threads, NEW w \in SemWords,
         NEW l \in SemPCs \ {"fast", "cas", "spin", "setflag"},
         Swap(t, w, l), posts' \in Nat
  PROVE  SemInv'
BY DEF SemInv, SemTypeOK, SawOne, SawZero, Swap, SGoto

LEMMA SeeKeeps ==
  ASSUME SemInv, NEW t \in Threads, NEW l \in SemPCs,
         l \in {"fast", "cas"} => sem.count # 0,
         l \in {"spin", "setflag"} => sem = Zero,
         See(t), SGoto(t, l), UNCHANGED sem, posts' \in Nat
  PROVE  SemInv'
BY DEF SemInv, SemTypeOK, SawOne, SawZero, See, SGoto

LEMMA MoveKeeps ==
  ASSUME SemInv, NEW t \in Threads,
         NEW l \in SemPCs \ {"fast", "cas", "spin"},
         l = "setflag" => seen[t] = Zero,
         SGoto(t, l), UNCHANGED <<sem, seen, posts>>
  PROVE  SemInv'
BY DEF SemInv, SemTypeOK, SawOne, SawZero, SGoto

LEMMA TakeOneWord ==
  ASSUME NEW w \in SemWords, w.count # 0
  PROVE  TakeOne(w) \in SemWords
BY DEF SemWords, TakeOne

LEMMA TakeAndFlagWord ==
  ASSUME NEW w \in SemWords
  PROVE  TakeAndFlag(w) \in SemWords
BY DEF SemWords, TakeAndFlag

LEMMA SlowPlaces ==
  ASSUME NEW w \in SemWords
  PROVE  /\ Slow(w) \in {"spin", "loop"}
         /\ Slow(w) = "spin" => w = Zero
         /\ Fast(w) \in {"fast", "spin", "loop"}
         /\ Fast(w) = "fast" => w.count # 0
         /\ Fast(w) = "spin" => w = Zero
BY DEF Slow, Fast

LEMMA SemInvStep == SemInv /\ [SemNext]_semVars => SemInv'
<1> SUFFICES ASSUME SemInv, [SemNext]_semVars PROVE SemInv'
  OBVIOUS
<1>0. /\ sem \in SemWords /\ posts \in Nat
      /\ \A t \in Threads : seen[t] \in SemWords /\ spc[t] \in SemPCs
  BY DEF SemInv, SemTypeOK
<1> USE DEF SemPCs, WaitPCs
<1>1. CASE UNCHANGED semVars
  BY <1>1 DEF semVars, SemInv, SemTypeOK, SawOne, SawZero
<1>2. ASSUME NEW t \in Threads, Wait(t) PROVE SemInv'
  BY <1>0, <1>2, SeeKeeps, SlowPlaces DEF Wait
<1>3. ASSUME NEW t \in Threads, FastCas(t) \/ SlowCas(t) PROVE SemInv'
  <2>1. TakeOne(seen[t]) \in SemWords
    BY <1>0, <1>3, TakeOneWord DEF FastCas, SlowCas, SemInv, SawOne
  <2> QED
    BY <1>0, <1>3, <2>1, SwapKeeps, SeeKeeps, SlowPlaces DEF FastCas, SlowCas, Miss
<1>4. ASSUME NEW t \in Threads, SemSpin(t) PROVE SemInv'
  BY <1>4, MoveKeeps DEF SemSpin, SemInv, SawZero
<1>5. ASSUME NEW t \in Threads, SetFlag(t) PROVE SemInv'
  <2>1. Waited \in SemWords
    BY DEF Waited, SemWords
  <2> QED
    BY <1>0, <1>5, <2>1, SwapKeeps, SeeKeeps DEF SetFlag, Miss
<1>6. ASSUME NEW t \in Threads, Reread(t) PROVE SemInv'
  BY <1>0, <1>6, SeeKeeps, SlowPlaces DEF Reread
<1>7. ASSUME NEW t \in Threads, SemFutexWait(t) \/ SemInterrupted(t) PROVE SemInv'
  BY <1>7, MoveKeeps DEF SemFutexWait, SemInterrupted
<1>8. ASSUME NEW t \in Threads, SemLoad(t) PROVE SemInv'
  BY <1>0, <1>8, SeeKeeps DEF SemLoad
<1>9. ASSUME NEW t \in Threads, LoopCas(t) PROVE SemInv'
  BY <1>0, <1>9, TakeAndFlagWord, SwapKeeps, SeeKeeps DEF LoopCas, Miss, AfterTake
<1>10. ASSUME NEW t \in Threads, Post(t) PROVE SemInv'
  BY <1>0, <1>10, SeeKeeps DEF Post
<1>11. ASSUME NEW t \in Threads, PostCas(t) PROVE SemInv'
  <2>1. [count |-> seen[t].count + 1, wait |-> FALSE] \in SemWords
    BY <1>0 DEF SemWords
  <2> QED
    BY <1>0, <1>11, <2>1, SwapKeeps, SeeKeeps DEF PostCas, Miss
<1>12. ASSUME NEW t \in Threads, SemFutexWake(t) PROVE SemInv'
  BY <1>12 DEF SemFutexWake, SGoto, SemInv, SemTypeOK, SawOne, SawZero
<1>13. ASSUME NEW t \in Threads, SpuriousFailure(t) PROVE SemInv'
  BY <1>1, <1>13 DEF SpuriousFailure
<1> QED
  BY <1>1, <1>2, <1>3, <1>4, <1>5, <1>6, <1>7, <1>8, <1>9, <1>10, <1>11, <1>12,
     <1>13 DEF SemNext, SemStep

LEMMA SemInvariant == SemSpec => []SemInv
BY SemInvInit, SemInvStep, PTL DEF SemSpec

\* The count never falls below zero and every thread is at a known place.
THEOREM SemTypeInvariant == SemSpec => []SemTypeOK
<1>1. SemInv => SemTypeOK
  BY DEF SemInv
<1> QED
  BY <1>1, SemInvariant, PTL

\* While a thread sleeps on the semaphore, the flag is set or a thread that
\* will wake it or set the flag is under way; if posts are left, such a thread
\* is under way in any case (sem.h, "the awoken thread will wake other threads").
THEOREM SemForgetsNoSleeper == SemSpec => []SleepersRemembered
<1>1. SemInit => SleepersRemembered
  BY DEF SemInit, SleepersRemembered, Asleep
<1>2. SemInv /\ SleepersRemembered /\ [SemNext]_semVars => SleepersRemembered'
  <2> SUFFICES ASSUME SemInv, SleepersRemembered, [SemNext]_semVars
               PROVE  SleepersRemembered'
    OBVIOUS
  <2>0. /\ sem \in SemWords /\ spc \in [Threads -> SemPCs] /\ seen \in [Threads -> SemWords]
        /\ \A t \in Threads : spc[t] \in {"fast", "cas"} => seen[t].count # 0
    BY DEF SemInv, SemTypeOK, SawOne
  <2> USE <2>0 DEF SleepersRemembered, Asleep, SemWords, SGoto
  <2>1. CASE UNCHANGED semVars
    BY <2>1 DEF semVars
  <2>2. ASSUME NEW t \in Threads, NEW l \in STRING, UNCHANGED sem, SGoto(t, l),
               spc[t] \notin {"wake", "load", "loop"} \/ l = "loop",
               l # "asleep" \/ sem = Waited
        PROVE  SleepersRemembered'
    BY <2>2 DEF Waited
  <2>3. ASSUME NEW t \in Threads, Wait(t) \/ SemSpin(t) \/ Reread(t) \/ Post(t)
        PROVE  SleepersRemembered'
    BY <2>2, <2>3 DEF Wait, SemSpin, Reread, Post, Fast, Slow
  <2>4. ASSUME NEW t \in Threads, FastCas(t) \/ SlowCas(t) PROVE SleepersRemembered'
    <3>1. CASE Swap(t, TakeOne(seen[t]), "out")
      BY <2>4, <3>1 DEF FastCas, SlowCas, Swap, TakeOne
    <3>2. CASE Miss(t, Fast(sem)) \/ Miss(t, Slow(sem))
      BY <2>2, <2>4, <3>2 DEF FastCas, SlowCas, Miss, Fast, Slow
    <3> QED
      BY <2>4, <3>1, <3>2 DEF FastCas, SlowCas
  <2>5. ASSUME NEW t \in Threads, SetFlag(t) PROVE SleepersRemembered'
    BY <2>5 DEF SetFlag, Swap, Miss, Waited
  <2>6. ASSUME NEW t \in Threads, SemFutexWait(t) \/ SemLoad(t) PROVE SleepersRemembered'
    BY <2>6 DEF SemFutexWait, SemLoad, Waited
  <2>7. ASSUME NEW t \in Threads, SemInterrupted(t) PROVE SleepersRemembered'
    BY <2>7 DEF SemInterrupted
  <2>8. ASSUME NEW t \in Threads, LoopCas(t) PROVE SleepersRemembered'
    <3>1. CASE Miss(t, "loop")
      BY <2>8, <3>1 DEF Miss
    <3>2. CASE Swap(t, TakeAndFlag(seen[t]),
                    IF seen[t].count = 0 THEN "dowait" ELSE AfterTake(seen[t]))
      BY <2>8, <3>2 DEF Swap, TakeAndFlag, AfterTake
    <3> QED
      BY <2>8, <3>1, <3>2 DEF LoopCas
  <2>9. ASSUME NEW t \in Threads, PostCas(t) PROVE SleepersRemembered'
    <3>1. CASE Miss(t, "post")
      BY <2>9, <3>1 DEF PostCas, Miss
    <3>2. CASE Swap(t, [count |-> seen[t].count + 1, wait |-> FALSE],
                    IF seen[t].wait THEN "wake" ELSE "out")
      BY <2>9, <3>2 DEF PostCas, Swap
    <3> QED
      BY <2>9, <3>1, <3>2 DEF PostCas
  <2>10. ASSUME NEW t \in Threads, SemFutexWake(t) PROVE SleepersRemembered'
    BY <2>10 DEF SemFutexWake
  <2>11. ASSUME NEW t \in Threads, SpuriousFailure(t) PROVE SleepersRemembered'
    BY <2>1, <2>11 DEF SpuriousFailure
  <2> QED
    BY <2>1, <2>3, <2>4, <2>5, <2>6, <2>7, <2>8, <2>9, <2>10, <2>11 DEF SemNext, SemStep
<1> QED
  BY <1>1, <1>2, SemInvariant, PTL DEF SemSpec

-----------------------------------------------------------------------------
(* Refinement.                                                             *)

LEMMA SemStepRefines ==
  ASSUME SemInv, [SemNext]_semVars
  PROVE  [S!Next]_<<sem.count, waiting>>
<1>0. /\ sem \in SemWords /\ spc \in [Threads -> SemPCs] /\ seen \in [Threads -> SemWords]
      /\ \A t \in Threads : spc[t] \in {"fast", "cas"} => seen[t].count # 0
      /\ \A t \in Threads : spc[t] \in {"spin", "setflag"} => seen[t] = Zero
  BY DEF SemInv, SemTypeOK, SawOne, SawZero
<1> USE <1>0 DEF SemWords, waiting, WaitPCs, SGoto
\* A step that moves no thread into or out of gomp_sem_wait and keeps the count.
<1>1. ASSUME NEW t \in Threads, NEW l \in SemPCs, SGoto(t, l), sem'.count = sem.count,
             spc[t] \in WaitPCs <=> l \in WaitPCs
      PROVE  UNCHANGED <<sem.count, waiting>>
  BY <1>1
<1>2. ASSUME NEW t \in Threads, NEW l \in {"out", "wake"}, SGoto(t, l),
             spc[t] \in WaitPCs, sem.count # 0, sem'.count = sem.count - 1
      PROVE  S!Take(t)
  BY <1>2 DEF S!Take
<1>3. CASE UNCHANGED semVars
  BY <1>3 DEF semVars
<1>4. ASSUME NEW t \in Threads, Wait(t) PROVE S!Ask(t)
  BY <1>4 DEF Wait, Fast, Slow, S!Ask
<1>5. ASSUME NEW t \in Threads, FastCas(t) \/ SlowCas(t)
      PROVE  S!Take(t) \/ UNCHANGED <<sem.count, waiting>>
  <2>1. CASE Swap(t, TakeOne(seen[t]), "out")
    BY <1>2, <1>5, <2>1 DEF FastCas, SlowCas, Swap, TakeOne
  <2>2. CASE Miss(t, Fast(sem)) \/ Miss(t, Slow(sem))
    BY <1>1, <1>5, <2>2 DEF FastCas, SlowCas, Miss, Fast, Slow, SemPCs
  <2> QED
    BY <1>5, <2>1, <2>2 DEF FastCas, SlowCas
<1>6. ASSUME NEW t \in Threads,
             SemSpin(t) \/ Reread(t) \/ SemFutexWait(t) \/ SemLoad(t) \/ Post(t)
                                \/ SemInterrupted(t)
      PROVE  UNCHANGED <<sem.count, waiting>>
  BY <1>1, <1>6
     DEF SemSpin, Reread, SemFutexWait, SemLoad, Post, SemInterrupted, Slow, SemPCs
<1>7. ASSUME NEW t \in Threads, SetFlag(t) PROVE UNCHANGED <<sem.count, waiting>>
  BY <1>1, <1>7 DEF SetFlag, Swap, Miss, Waited, Zero, SemPCs
<1>8. ASSUME NEW t \in Threads, LoopCas(t)
      PROVE  S!Take(t) \/ UNCHANGED <<sem.count, waiting>>
  <2>1. CASE Miss(t, "loop")
    BY <1>1, <1>8, <2>1 DEF LoopCas, Miss, SemPCs
  <2>2. CASE Swap(t, TakeAndFlag(seen[t]),
                  IF seen[t].count = 0 THEN "dowait" ELSE AfterTake(seen[t]))
    <3>1. CASE seen[t].count = 0
      BY <1>1, <1>8, <2>2, <3>1 DEF LoopCas, Swap, TakeAndFlag, SemPCs
    <3>2. CASE seen[t].count # 0
      BY <1>2, <1>8, <2>2, <3>2 DEF LoopCas, Swap, TakeAndFlag, AfterTake
    <3> QED
      BY <3>1, <3>2
  <2> QED
    BY <1>8, <2>1, <2>2 DEF LoopCas
<1>9. ASSUME NEW t \in Threads, PostCas(t)
      PROVE  S!Post \/ UNCHANGED <<sem.count, waiting>>
  <2>1. CASE Miss(t, "post")
    BY <1>1, <1>9, <2>1 DEF PostCas, Miss, SemPCs
  <2>2. CASE Swap(t, [count |-> seen[t].count + 1, wait |-> FALSE],
                  IF seen[t].wait THEN "wake" ELSE "out")
    BY <1>9, <2>2 DEF PostCas, Swap, S!Post
  <2> QED
    BY <1>9, <2>1, <2>2 DEF PostCas
<1>10. ASSUME NEW t \in Threads, SemFutexWake(t) PROVE UNCHANGED <<sem.count, waiting>>
  <2>1. UNCHANGED sem
    BY <1>10 DEF SemFutexWake
  <2>2. \A u \in Threads : spc'[u] \in WaitPCs <=> spc[u] \in WaitPCs
    BY <1>10 DEF SemFutexWake
  <2> QED
    BY <2>1, <2>2
<1>11. ASSUME NEW t \in Threads, SpuriousFailure(t) PROVE UNCHANGED <<sem.count, waiting>>
  BY <1>11, <1>3 DEF SpuriousFailure, semVars
<1> QED
  BY <1>3, <1>4, <1>5, <1>6, <1>7, <1>8, <1>9, <1>10, <1>11
     DEF SemNext, SemStep, S!Next

\* Every return from gomp_sem_wait takes exactly one post.
THEOREM SemImplementsSemaphore == SemSpec => ImplementsSemaphore
<1>1. SemInit => S!Init
  BY DEF SemInit, S!Init, Zero, waiting, WaitPCs
<1>2. SemInv /\ [SemNext]_semVars => [S!Next]_<<sem.count, waiting>>
  BY SemStepRefines
<1> QED
  BY <1>1, <1>2, SemInvariant, PTL DEF SemSpec, ImplementsSemaphore, S!Spec
=============================================================================
