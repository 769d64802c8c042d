-------------------------------- MODULE Sem ---------------------------------
(***************************************************************************)
(* gomp_sem_t of the Linux port (config/linux/sem.h, sem.c): a count and   *)
(* the flag SEM_WAIT, "some threads may be waiting", in one futex word.    *)
(*                                                                         *)
(* One step per atomic access to the word or per system call.  seen[t] is  *)
(* the local variable count, the word as t last saw it.                    *)
(***************************************************************************)
EXTENDS Integers, ThreadIds

CONSTANT MaxPosts   \* bound on the posts of a behaviour

VARIABLES sem,     \* the word: [count, wait]
          seen,
          spc,     \* where thread t is in gomp_sem_wait or gomp_sem_post
          posts    \* posts so far

semVars == <<sem, seen, spc, posts>>

SemWords == [count : Nat, wait : BOOLEAN]

Zero == [count |-> 0, wait |-> FALSE]
Waited == [count |-> 0, wait |-> TRUE]    \* SEM_WAIT

WaitPCs == {"fast", "spin", "setflag", "reread", "cas", "fwait", "load",
            "loop", "dowait", "asleep"}

SemPCs == WaitPCs \cup {"out", "post", "wake"}

SemInit ==
    /\ sem = Zero
    /\ seen = [t \in Threads |-> Zero]
    /\ spc = [t \in Threads |-> "out"]
    /\ posts = 0

SGoto(t, l) == spc' = [spc EXCEPT ![t] = l]

\* count = *sem
See(t) == seen' = [seen EXCEPT ![t] = sem]

\* mutant: the word is written whatever it is now
SwapBlindly(t, w, l) == sem' = w /\ SGoto(t, l) /\ UNCHANGED seen

\* A successful compare-and-swap of the word t has seen.
Swap(t, w, l) == sem = seen[t] /\ sem' = w /\ SGoto(t, l) /\ UNCHANGED seen

\* A failed one: the word has changed, t sees the new one.
Miss(t, l) == sem # seen[t] /\ See(t) /\ SGoto(t, l) /\ UNCHANGED sem

\* The entry of gomp_sem_wait_slow and the head of its first loop.
Slow(w) == IF w = Zero THEN "spin" ELSE "loop"

\* The head of the loop in gomp_sem_wait.
Fast(w) == IF w.count # 0 THEN "fast" ELSE Slow(w)

Wait(t) ==
    /\ spc[t] = "out"
    /\ See(t)
    /\ SGoto(t, Fast(sem))
    /\ UNCHANGED <<sem, posts>>

TakeOne(w) == [w EXCEPT !.count = @ - 1]

FastCas(t) ==
    /\ spc[t] = "fast"
    /\ \/ Swap(t, TakeOne(seen[t]), "out")
       \/ Miss(t, Fast(sem))
    /\ UNCHANGED posts

\* A weak compare-and-swap may fail although the word is the expected one.
SpuriousFailure(t) == spc[t] \in {"fast", "post"} /\ sem = seen[t] /\ UNCHANGED semVars

\* do_spin (sem, 0): times out, or ends early because the word has changed.
SemSpin(t) ==
    /\ spc[t] = "spin"
    /\ \/ SGoto(t, "setflag")
       \/ sem # Zero /\ SGoto(t, "reread")
    /\ UNCHANGED <<sem, seen, posts>>

\* "SemSpin timeout, nothing changed.  Set waiting flag."
SetFlag(t) ==
    /\ spc[t] = "setflag"
    /\ \/ Swap(t, Waited, "fwait")
       \/ Miss(t, "reread")
    /\ UNCHANGED posts

\* "Something changed.  If it wasn't the wait flag, we're good to go."
Reread(t) ==
    /\ spc[t] = "reread"
    /\ See(t)
    /\ SGoto(t, IF sem.count # 0 /\ ~sem.wait THEN "cas" ELSE Slow(sem))
    /\ UNCHANGED <<sem, posts>>

SlowCas(t) ==
    /\ spc[t] = "cas"
    /\ \/ Swap(t, TakeOne(seen[t]), "out")
       \/ Miss(t, Slow(sem))
    /\ UNCHANGED posts

\* futex_wait (sem, SEM_WAIT), plain or behind do_wait's spinning.
SemFutexWait(t) ==
    /\ spc[t] \in {"fwait", "dowait"}
    /\ SGoto(t, IF sem = Waited THEN "asleep" ELSE "load")
    /\ UNCHANGED <<sem, seen, posts>>

SemLoad(t) ==
    /\ spc[t] = "load"
    /\ See(t)
    /\ SGoto(t, "loop")
    /\ UNCHANGED <<sem, posts>>

\* mutant: the flag is left as it is
KeepFlag(w) == IF w.count = 0 THEN [w EXCEPT !.wait = TRUE] ELSE TakeOne(w)

\* newval: take one if there is one, and set the flag for those still asleep.
TakeAndFlag(w) == [count |-> IF w.count = 0 THEN 0 ELSE w.count - 1, wait |-> TRUE]

\* "If we can wake more threads, do so now."
AfterTake(w) == IF w.count > 1 THEN "wake" ELSE "out"

\* The second loop of gomp_sem_wait_slow.
LoopCas(t) ==
    /\ spc[t] = "loop"
    /\ \/ Swap(t, TakeAndFlag(seen[t]),
               IF seen[t].count = 0 THEN "dowait" ELSE AfterTake(seen[t]))
       \/ Miss(t, "loop")
    /\ UNCHANGED posts

Post(t) ==
    /\ spc[t] = "out" /\ posts < MaxPosts
    /\ posts' = posts + 1
    /\ See(t)
    /\ SGoto(t, "post")
    /\ UNCHANGED sem

\* "Clear SEM_WAIT here": the post's compare-and-swap.
PostCas(t) ==
    /\ spc[t] = "post"
    /\ \/ Swap(t, [count |-> seen[t].count + 1, wait |-> FALSE],
               IF seen[t].wait THEN "wake" ELSE "out")
       \/ Miss(t, "post")
    /\ UNCHANGED posts

\* gomp_sem_post_slow: futex_wake (sem, 1)
SemFutexWake(t) ==
    /\ spc[t] = "wake"
    /\ \/ \E s \in Threads :
             /\ spc[s] = "asleep"
             /\ spc' = [spc EXCEPT ![t] = "out", ![s] = "load"]
       \/ (\A s \in Threads : spc[s] # "asleep") /\ SGoto(t, "out")
    /\ UNCHANGED <<sem, seen, posts>>

\* futex_wait returns on a signal.
SemInterrupted(t) ==
    /\ spc[t] = "asleep"
    /\ SGoto(t, "load")
    /\ UNCHANGED <<sem, seen, posts>>

SemStep(t) ==
    \/ FastCas(t) \/ SemSpin(t) \/ SetFlag(t) \/ Reread(t) \/ SlowCas(t)
    \/ SemFutexWait(t) \/ SemLoad(t) \/ LoopCas(t) \/ PostCas(t) \/ SemFutexWake(t)

SemNext == \E t \in Threads :
            SemStep(t) \/ Wait(t) \/ Post(t) \/ SemInterrupted(t) \/ SpuriousFailure(t)

SemSpec == SemInit /\ [][SemNext]_semVars

(* Threads inside wait or post go on.  A weak compare-and-swap does not    *)
(* fail for ever on a word that does not change.                           *)
SemFairSpec == SemSpec /\ \A t \in Threads : WF_semVars(SemStep(t))
-----------------------------------------------------------------------------
SemTypeOK ==
    /\ sem \in SemWords
    /\ seen \in [Threads -> SemWords]
    /\ spc \in [Threads -> SemPCs]
    /\ posts \in Nat

Asleep == {t \in Threads : spc[t] = "asleep"}

\* A queued thread is never forgotten, even when a post came before a woken
\* thread could set the flag again: the flag is set, or a wake-up is under way
\* or its receiver not yet past the swap that sets the flag; and a count that
\* sleepers could take has such a thread to pass it on.
SleepersRemembered ==
    Asleep # {} =>
        LET active == \E t \in Threads : spc[t] \in {"wake", "load", "loop"}
        IN /\ sem.wait \/ active
           /\ sem.count > 0 => active

\* A wait that is needed for no post, a post that serves two waits: neither
\* happens.
waiting == {t \in Threads : spc[t] \in WaitPCs}

S == INSTANCE AbstractSem WITH value <- sem.count

ImplementsSemaphore == S!Spec

\* Posts do not stay in the semaphore while threads wait for one.
PostsAreTaken ==
    (sem.count > 0 /\ waiting # {}) ~> (sem.count = 0 \/ waiting = {})
=============================================================================
