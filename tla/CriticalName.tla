---------------------------- MODULE CriticalName ----------------------------
(***************************************************************************)
(* Named critical sections (critical.c) of ports whose mutexes do not fit  *)
(* into a pointer, as those of the POSIX port: the compiler has a pointer  *)
(* per name, which the first thread that gets there sets to a mutex it     *)
(* allocates, with a compare-and-swap and no lock.                         *)
(*                                                                         *)
(* The mutexes are abstract locks; a thread is in one section at a time.   *)
(***************************************************************************)
EXTENDS ThreadIds

CONSTANTS Names,        \* the sections' names
          Mutexes,      \* addresses malloc may return
          NULL

ASSUME NullAssumption == NULL \notin Mutexes

VARIABLES cpc,          \* cpc[t]: where thread t is
          section,      \* section[t]: the name whose section it enters or is in
          pptr,         \* pptr[n]: the pointer of name n
          plock, nlock, \* plock[t], nlock[t]: local pointers, NULL out of scope
          live,         \* the mutexes that are allocated
          holds         \* holds[m]: the thread that holds m
critVars == <<cpc, section, pptr, plock, nlock, live, holds>>

CritInit ==
    /\ cpc = [t \in Threads |-> "out"]
    /\ section \in [Threads -> Names]
    /\ pptr = [n \in Names |-> NULL]
    /\ plock = [t \in Threads |-> NULL]
    /\ nlock = [t \in Threads |-> NULL]
    /\ live = {}
    /\ holds = [m \in Mutexes |-> NoThread]

\* The first, unlocked look at *pptr.
NameStart(t, n) ==
    /\ cpc[t] = "out"
    /\ section' = [section EXCEPT ![t] = n]
    /\ plock' = [plock EXCEPT ![t] = pptr[n]]
    /\ cpc' = [cpc EXCEPT ![t] = IF pptr[n] = NULL THEN "malloc" ELSE "lock"]
    /\ UNCHANGED <<pptr, nlock, live, holds>>

\* gomp_malloc and gomp_mutex_init.
NewMutex(t, m) ==
    /\ cpc[t] = "malloc" /\ m \notin live
    /\ nlock' = [nlock EXCEPT ![t] = m]
    /\ live' = live \cup {m}
    /\ holds' = [holds EXCEPT ![m] = NoThread]
    /\ cpc' = [cpc EXCEPT ![t] = "cas"]
    /\ UNCHANGED <<section, pptr, plock>>

\* mutant: the pointer is stored whatever it is by now
StoreFirst(t) == TRUE

SwapsFirst(t) == pptr[section[t]] = NULL

\* The thread that comes first publishes its mutex; another one frees its own.
SwapName(t) ==
    /\ cpc[t] = "cas"
    /\ IF SwapsFirst(t)
       THEN /\ pptr' = [pptr EXCEPT ![section[t]] = nlock[t]]
            /\ plock' = [plock EXCEPT ![t] = nlock[t]]
            /\ UNCHANGED live
       ELSE /\ plock' = [plock EXCEPT ![t] = pptr[section[t]]]
            /\ live' = live \ {nlock[t]}
            /\ UNCHANGED pptr
    /\ nlock' = [nlock EXCEPT ![t] = NULL]
    /\ cpc' = [cpc EXCEPT ![t] = "lock"]
    /\ UNCHANGED <<section, holds>>

LockName(t) ==
    /\ cpc[t] = "lock" /\ holds[plock[t]] = NoThread
    /\ holds' = [holds EXCEPT ![plock[t]] = t]
    /\ cpc' = [cpc EXCEPT ![t] = "in"]
    /\ UNCHANGED <<section, pptr, plock, nlock, live>>

\* *pptr is read again; plock is out of scope.
NameEnd(t) ==
    /\ cpc[t] = "in"
    /\ holds' = [holds EXCEPT ![pptr[section[t]]] = NoThread]
    /\ plock' = [plock EXCEPT ![t] = NULL]
    /\ cpc' = [cpc EXCEPT ![t] = "out"]
    /\ UNCHANGED <<section, pptr, nlock, live>>

CritNext ==
    \E t \in Threads :
        \/ \E n \in Names : NameStart(t, n)
        \/ \E m \in Mutexes : NewMutex(t, m)
        \/ SwapName(t)
        \/ LockName(t)
        \/ NameEnd(t)

CritSpec == CritInit /\ [][CritNext]_critVars
-----------------------------------------------------------------------------
\* Threads in sections of one name exclude each other, although they may have
\* allocated mutexes of their own; nobody locks or holds a mutex that was freed;
\* and what a thread unlocks is what it locked.
NamesExclude ==
    /\ \A s, t \in Threads :
          cpc[s] = "in" /\ cpc[t] = "in" /\ section[s] = section[t] => s = t
    /\ \A t \in Threads : cpc[t] \in {"lock", "in"} => plock[t] \in live
    /\ \A t \in Threads : cpc[t] = "in" => holds[pptr[section[t]]] = t
=============================================================================
