---------------------------- MODULE AbstractLock ----------------------------
(***************************************************************************)
(* What a lock of the runtime promises its callers: at most one holder,    *)
(* handed over only by a release.  gomp_mutex_t, which also is omp_lock_t, *)
(* is shown to implement it.                                               *)
(***************************************************************************)
CONSTANTS Threads,   \* the threads that use the lock
          NoThread   \* "nobody holds it"

VARIABLE holder

Init == holder = NoThread

Acquire(t) == holder = NoThread /\ holder' = t

Release(t) == holder = t /\ holder' = NoThread

Next == \E t \in Threads : Acquire(t) \/ Release(t)

Spec == Init /\ [][Next]_holder
=============================================================================
