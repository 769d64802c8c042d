------------------------------ MODULE NestLock ------------------------------
(***************************************************************************)
(* omp_nest_lock_t (config/linux/lock.c, the OpenMP 3.0 form): an owner    *)
(* and a count on top of a mutex, here an AbstractLock.  Locks are owned   *)
(* by tasks; Threads stands for the tasks that use one.  The owner field   *)
(* is read without the mutex.                                              *)
(***************************************************************************)
EXTENDS Naturals, ThreadIds

CONSTANT MaxDepth   \* how deep a program nests one lock

ASSUME DepthAssumption == MaxDepth \in Nat

VARIABLES nestHolder,   \* who holds lock->lock
          owner, count,
          npc,      \* where thread t is in the lock's operations
          depth     \* history: calls of set t has returned from, less its unsets

nestVars == <<nestHolder, owner, count, npc, depth>>

NL == INSTANCE AbstractLock WITH holder <- nestHolder

NestPCs == {"out", "lock", "own", "own1", "inc", "dec", "unlock"}

NestInit ==
    /\ NL!Init
    /\ owner = NoThread
    /\ count = 0
    /\ npc = [t \in Threads |-> "out"]
    /\ depth = [t \in Threads |-> 0]

NGoto(t, l) == npc' = [npc EXCEPT ![t] = l]

Entered(t) == NGoto(t, "out") /\ depth' = [depth EXCEPT ![t] = @ + 1]

\* omp_set_nest_lock: the owner counts, others wait for the mutex.
SetNest(t) ==
    /\ npc[t] = "out" /\ depth[t] < MaxDepth
    /\ NGoto(t, IF owner = t THEN "inc" ELSE "lock")
    /\ UNCHANGED <<nestHolder, owner, count, depth>>

LockNest(t) ==
    /\ npc[t] = "lock"
    /\ NL!Acquire(t)
    /\ NGoto(t, "own")
    /\ UNCHANGED <<owner, count, depth>>

Own(t) ==
    /\ npc[t] = "own"
    /\ owner' = t
    /\ NGoto(t, "inc")
    /\ UNCHANGED <<nestHolder, count, depth>>

Increment(t) ==
    /\ npc[t] = "inc"
    /\ count' = count + 1
    /\ Entered(t)
    /\ UNCHANGED <<nestHolder, owner>>

\* omp_test_nest_lock; a failed attempt changes nothing.
TestNest(t) ==
    /\ npc[t] = "out" /\ depth[t] < MaxDepth
    /\ IF owner = t THEN NGoto(t, "inc") /\ UNCHANGED nestHolder
                    ELSE NL!Acquire(t) /\ NGoto(t, "own1")
    /\ UNCHANGED <<owner, count, depth>>

\* The mutex taken by omp_test_nest_lock.
TestOwn(t) ==
    /\ npc[t] = "own1"
    /\ owner' = t
    /\ count' = 1
    /\ Entered(t)
    /\ UNCHANGED nestHolder

\* omp_unset_nest_lock, by a task that has set the lock.
Unset(t) ==
    /\ npc[t] = "out" /\ depth[t] > 0
    /\ depth' = [depth EXCEPT ![t] = @ - 1]
    /\ count' = count - 1
    /\ NGoto(t, IF count' = 0 THEN "dec" ELSE "out")
    /\ UNCHANGED <<nestHolder, owner>>

\* mutant: the owner is left
KeepOwner(t) ==
    /\ npc[t] = "dec" /\ NGoto(t, "unlock")
    /\ UNCHANGED <<nestHolder, owner, count, depth>>

Disown(t) ==
    /\ npc[t] = "dec"
    /\ owner' = NoThread
    /\ NGoto(t, "unlock")
    /\ UNCHANGED <<nestHolder, count, depth>>

UnlockNest(t) ==
    /\ npc[t] = "unlock"
    /\ NL!Release(t)
    /\ NGoto(t, "out")
    /\ UNCHANGED <<owner, count, depth>>

NestNext == \E t \in Threads :
    \/ SetNest(t) \/ LockNest(t) \/ Own(t) \/ Increment(t) \/ TestNest(t)
    \/ TestOwn(t) \/ Unset(t) \/ Disown(t) \/ UnlockNest(t)

NestSpec == NestInit /\ [][NestNext]_nestVars
-----------------------------------------------------------------------------
NestTypeOK ==
    /\ nestHolder \in Threads \cup {NoThread}
    /\ owner \in Threads \cup {NoThread}
    /\ count \in 0..MaxDepth
    /\ npc \in [Threads -> NestPCs]
    /\ depth \in [Threads -> 0..MaxDepth]

\* The unlocked look at owner never lets a second task in: a task that has set
\* the lock, or believes it owns it, holds the mutex, and count is the number
\* of its unset calls to come.
NestExcludes ==
    \A t \in Threads :
        /\ depth[t] > 0 \/ npc[t] = "inc" => nestHolder = t
        /\ depth[t] > 0 => count = depth[t]
=============================================================================
