------------------------------ MODULE PtrLock -------------------------------
(***************************************************************************)
(* gomp_ptrlock_t of the Linux port (config/linux/ptrlock.h, ptrlock.c): a *)
(* pointer that the first thread to ask for it has to provide, while the   *)
(* others wait.  The word is "null", "owned" (1: the first thread got NULL *)
(* and will set the pointer), "awaited" (2: owned, with sleepers) or "ptr".*)
(***************************************************************************)
EXTENDS ThreadIds

VARIABLES ptrlock,
          lpc       \* where thread t is in gomp_ptrlock_get or gomp_ptrlock_set

ptrVars == <<ptrlock, lpc>>

PtrWords == {"null", "owned", "awaited", "ptr"}

PtrPCs == {"out", "cas", "slow", "dowait", "asleep", "load", "read", "owner",
        "wake", "done"}

PtrInit == ptrlock = "null" /\ lpc = [t \in Threads |-> "out"]

LGoto(t, l) == lpc' = [lpc EXCEPT ![t] = l]

\* The load in gomp_ptrlock_get.
Get(t) ==
    /\ lpc[t] = "out"
    /\ LGoto(t, IF ptrlock = "ptr" THEN "done" ELSE "cas")
    /\ UNCHANGED ptrlock

\* compare_exchange (0 -> 1): NULL for the first, who owns the word now.
Claim(t) ==
    /\ lpc[t] = "cas"
    /\ IF ptrlock = "null" THEN ptrlock' = "owned" /\ LGoto(t, "owner")
                           ELSE UNCHANGED ptrlock /\ LGoto(t, "slow")

\* compare_exchange (1 -> 2), whose result nobody looks at.
GetSlow(t) ==
    /\ lpc[t] = "slow"
    /\ ptrlock' = IF ptrlock = "owned" THEN "awaited" ELSE ptrlock
    /\ LGoto(t, "dowait")

\* do_wait (intptr, 2)
DoWait(t) ==
    /\ lpc[t] = "dowait"
    /\ LGoto(t, IF ptrlock = "awaited" THEN "asleep" ELSE "load")
    /\ UNCHANGED ptrlock

\* mutant: one round of waiting is taken for enough
LoadOnce(t) == LGoto(t, "read")

\* while (load == 2)
PtrLoad(t) == LGoto(t, IF ptrlock = "awaited" THEN "dowait" ELSE "read")

Recheck(t) == lpc[t] = "load" /\ PtrLoad(t) /\ UNCHANGED ptrlock

\* The load whose value gomp_ptrlock_get_slow returns.
Read(t) == lpc[t] = "read" /\ LGoto(t, "done") /\ UNCHANGED ptrlock

\* gomp_ptrlock_set: exchange, then wake everybody if somebody may sleep.
Set(t) ==
    /\ lpc[t] = "owner"
    /\ ptrlock' = "ptr"
    /\ LGoto(t, IF ptrlock # "owned" THEN "wake" ELSE "done")

\* futex_wake (intptr, INT_MAX)
WakeAll(t) ==
    /\ lpc[t] = "wake"
    /\ lpc' = [s \in Threads |-> IF s = t THEN "done"
                                 ELSE IF lpc[s] = "asleep" THEN "load" ELSE lpc[s]]
    /\ UNCHANGED ptrlock

\* futex_wait returns on a signal.
PtrInterrupted(t) == lpc[t] = "asleep" /\ LGoto(t, "load") /\ UNCHANGED ptrlock

PtrStep(t) ==
    \/ Claim(t) \/ GetSlow(t) \/ DoWait(t) \/ Recheck(t) \/ Read(t) \/ Set(t)
    \/ WakeAll(t)

PtrNext == \E t \in Threads : PtrStep(t) \/ Get(t) \/ PtrInterrupted(t)

PtrSpec == PtrInit /\ [][PtrNext]_ptrVars

(* The first thread provides the pointer: the runtime does nothing in      *)
(* between but initialise the work share.                                  *)
PtrFairSpec == PtrSpec /\ \A t \in Threads : WF_ptrVars(PtrStep(t))
-----------------------------------------------------------------------------
PtrTypeOK == ptrlock \in PtrWords /\ lpc \in [Threads -> PtrPCs]

\* NULL, the right to provide the pointer, is given to one thread, and nobody
\* returns with anything but the pointer while that thread prepares it.
OneProvides ==
    /\ \A s, t \in Threads : lpc[s] = "owner" /\ lpc[t] = "owner" => s = t
    /\ \A t \in Threads : lpc[t] \in {"read", "done", "wake"} => ptrlock = "ptr"

\* A thread that sleeps does so on the word that makes the setter wake all,
\* or the setter is about to.
SleepersWoken ==
    (\E t \in Threads : lpc[t] = "asleep") =>
        ptrlock = "awaited" \/ \E t \in Threads : lpc[t] = "wake"

\* Whoever asks for the pointer returns.
EverybodyReturns == \A t \in Threads : (lpc[t] # "out") ~> (lpc[t] = "done")
=============================================================================
