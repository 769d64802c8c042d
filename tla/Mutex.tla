------------------------------- MODULE Mutex --------------------------------
(***************************************************************************)
(* gomp_mutex_t of the Linux port (config/linux/mutex.h, mutex.c) on top   *)
(* of the futex system call (config/linux/futex.h, wait.h).  The same code *)
(* is omp_lock_t (config/linux/lock.c), whose omp_test_lock is TestLock.   *)
(*                                                                         *)
(* One step per atomic access to the word or per system call.  The word is *)
(* 0 unlocked, 1 locked, -1 locked with possible sleepers.  The local      *)
(* oldval of gomp_mutex_lock_slow is folded into pc: after a failed        *)
(* compare-and-swap it only decides which of the two loops is entered.     *)
(***************************************************************************)
EXTENDS Integers, ThreadIds

VARIABLES mutex,  \* the futex word
          pc      \* pc[t]: where thread t is in lock or unlock

vars == <<mutex, pc>>

(* "asleep" is the state of a thread queued on the futex by the kernel.    *)
PCs == {"out", "spin", "xchg1", "fwait1", "cas", "xchg2", "dowait",
        "asleep", "cs", "wake"}

Init == mutex = 0 /\ pc = [t \in Threads |-> "out"]

Goto(t, l) == pc' = [pc EXCEPT ![t] = l]

\* A failed compare-and-swap leaves the value it saw in oldval: 1 (re)enters
\* the spinning loop, -1 the sleeping loop.
SlowLoop == IF mutex = 1 THEN "spin" ELSE "xchg2"

\* compare_exchange (0 -> 1): take the free lock or enter lock_slow.
CompareAndSwap(t) ==
    \/ mutex = 0 /\ mutex' = 1 /\ Goto(t, "cs")
    \/ mutex # 0 /\ UNCHANGED mutex /\ Goto(t, SlowLoop)

Lock(t) == pc[t] = "out" /\ CompareAndSwap(t)

\* omp_test_lock: one compare-and-swap, no waiting.
TestLock(t) ==
    /\ pc[t] = "out"
    /\ mutex = 0
    /\ mutex' = 1
    /\ Goto(t, "cs")

\* do_spin (mutex, 1): gives up after its (possibly zero) spin count, or
\* returns early because a read saw another value.
Spin(t) ==
    /\ pc[t] = "spin"
    /\ \/ Goto(t, "xchg1")
       \/ mutex # 1 /\ Goto(t, "cas")
    /\ UNCHANGED mutex

RetryCas(t) == pc[t] = "cas" /\ CompareAndSwap(t)

\* mutants: the old value is tested for its sign; a woken thread stores 1
AnnounceBySign(t) ==
    /\ pc[t] \in {"xchg1", "xchg2"}
    /\ mutex' = -1
    /\ Goto(t, IF mutex >= 0 THEN "cs"
               ELSE IF pc[t] = "xchg1" THEN "fwait1" ELSE "dowait")

AnnounceUncontended(t) ==
    /\ pc[t] \in {"xchg1", "xchg2"}
    /\ mutex' = IF mutex = 0 THEN 1 ELSE -1
    /\ Goto(t, IF mutex = 0 THEN "cs"
               ELSE IF pc[t] = "xchg1" THEN "fwait1" ELSE "dowait")

\* exchange (mutex, -1): announce a waiter, or get the lock if it was free.
Announce(t) ==
    /\ pc[t] \in {"xchg1", "xchg2"}
    /\ mutex' = -1
    /\ Goto(t, IF mutex = 0 THEN "cs"
               ELSE IF pc[t] = "xchg1" THEN "fwait1" ELSE "dowait")

\* futex_wait (mutex, -1): the kernel compares the word and queues the
\* thread in one step, or returns at once.
FutexWait(t) ==
    /\ pc[t] \in {"fwait1", "dowait"}
    /\ Goto(t, IF mutex = -1 THEN "asleep" ELSE "xchg2")
    /\ UNCHANGED mutex

\* mutant: the waiters are never woken
UnlockNoWake(t) == pc[t] = "cs" /\ mutex' = 0 /\ Goto(t, "out")

\* gomp_mutex_unlock: exchange (mutex, 0), then wake only if it was -1.
Unlock(t) ==
    /\ pc[t] = "cs"
    /\ mutex' = 0
    /\ Goto(t, IF mutex < 0 THEN "wake" ELSE "out")

\* futex_wake (mutex, 1): the kernel picks one queued thread, if any.
FutexWake(t) ==
    /\ pc[t] = "wake"
    /\ \/ \E s \in Threads :
             /\ pc[s] = "asleep"
             /\ pc' = [pc EXCEPT ![t] = "out", ![s] = "xchg2"]
       \/ (\A s \in Threads : pc[s] # "asleep") /\ Goto(t, "out")
    /\ UNCHANGED mutex

\* A signal may end the wait (EINTR); the code does not look at the result.
Interrupted(t) == pc[t] = "asleep" /\ Goto(t, "xchg2") /\ UNCHANGED mutex

Step(t) == \/ Spin(t) \/ RetryCas(t) \/ Announce(t) \/ FutexWait(t)
           \/ Unlock(t) \/ FutexWake(t)

Next == \E t \in Threads :
            Step(t) \/ Lock(t) \/ TestLock(t) \/ Interrupted(t)

Spec == Init /\ [][Next]_vars

(* The scheduler runs every runnable thread and critical sections end; no  *)
(* thread is obliged to ask for the lock and no signal has to arrive.      *)
FairSpec == Spec /\ \A t \in Threads : WF_vars(Step(t))
-----------------------------------------------------------------------------
TypeOK == mutex \in {-1, 0, 1} /\ pc \in [Threads -> PCs]

\* Between gomp_mutex_lock and gomp_mutex_unlock a thread is alone, whatever
\* the order in which the word is swapped, slept on and woken.
MutualExclusion ==
    \A s, t \in Threads : pc[s] = "cs" /\ pc[t] = "cs" => s = t

\* The word says whether somebody is inside.
WordTellsHolder == mutex = 0 <=> \A t \in Threads : pc[t] # "cs"

\* "We always exit this loop with wait flag set, so next unlock will awaken a
\* thread" (mutex.c): a queued thread is never forgotten.  Either the word
\* still asks the holder to wake somebody, or a wake call is under way, or a
\* woken thread is about to set the flag again.
NoLostWakeup ==
    (\E s \in Threads : pc[s] = "asleep") =>
        mutex = -1 \/ \E t \in Threads : pc[t] \in {"wake", "xchg2"}

\* The holder as seen by callers, and the lock they are promised.
holder == IF \E t \in Threads : pc[t] = "cs"
          THEN CHOOSE t \in Threads : pc[t] = "cs" ELSE NoThread

L == INSTANCE AbstractLock

\* Every step of the futex protocol is an acquire, a release or invisible:
\* the lock passes from one holder to another only through a release.
ImplementsLock == L!Spec

\* While threads wait, the lock keeps being granted: no sleeping thread is
\* left behind a lock that is free.
KeepsGranting ==
    (\E t \in Threads : pc[t] \notin {"out", "cs", "wake"})
        ~> (\E t \in Threads : pc[t] = "cs")
=============================================================================
