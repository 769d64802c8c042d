---------------------------- MODULE AbstractSem -----------------------------
(***************************************************************************)
(* What a semaphore of the runtime promises: every wait takes one post,    *)
(* and a wait without a post to take does not return.                      *)
(***************************************************************************)
EXTENDS Naturals

CONSTANT Threads

VARIABLES value,   \* posts nobody has taken
          waiting  \* the threads in gomp_sem_wait

Init == value = 0 /\ waiting = {}

Post == value' = value + 1 /\ UNCHANGED waiting

Ask(t) == t \notin waiting /\ waiting' = waiting \cup {t} /\ UNCHANGED value

Take(t) ==
    /\ t \in waiting /\ value > 0
    /\ value' = value - 1
    /\ waiting' = waiting \ {t}

Next == Post \/ \E t \in Threads : Ask(t) \/ Take(t)

Spec == Init /\ [][Next]_<<value, waiting>>
=============================================================================
