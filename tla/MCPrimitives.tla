---------------------------- MODULE MCPrimitives ----------------------------
(***************************************************************************)
(* One building block at a time: the mutex, the semaphore, the pointer     *)
(* lock and the nested lock of the Linux port, the barrier of the POSIX    *)
(* port, the names of critical sections, the hash table of the             *)
(* dependences.                                                            *)
(***************************************************************************)
EXTENDS Mutex, Sem, PtrLock, NestLock, PosixBarrier, HashTab,
        CriticalName

PosixRegion(size, barriers, tasks, cancellable, nested) ==
    [size |-> size, barriers |-> barriers, tasks |-> tasks,
     cancellable |-> cancellable, nested |-> nested]

\* Barriers in a row; tasks in and between barriers, so that posts are left over;
\* cancellation at every point; nested teams without tasks.
SomePosixRegions ==
    {PosixRegion(3, 2, 0, FALSE, FALSE), PosixRegion(2, 1, 2, FALSE, FALSE),
     PosixRegion(3, 1, 1, FALSE, FALSE), PosixRegion(2, 1, 2, TRUE, FALSE),
     PosixRegion(3, 1, 1, TRUE, FALSE), PosixRegion(1, 1, 1, TRUE, TRUE),
     PosixRegion(3, 0, 0, FALSE, TRUE), PosixRegion(2, 1, 0, TRUE, TRUE)}

\* A nested team executes a task in its final barrier.
NestedWithTask == {PosixRegion(2, 0, 1, FALSE, TRUE)}
-----------------------------------------------------------------------------
\* In a table of 7: three that begin at the same entry, with different steps, two
\* that begin on their way.
SomeHashes == [a |-> 0, b |-> 7, c |-> 1, d |-> 14, e |-> 9]
-----------------------------------------------------------------------------
CONSTANT Primitives     \* those that run
VARIABLE primitive

mcVars == <<primitive, vars, semVars, ptrVars, nestVars, posixVars, hashVars, critVars>>

\* The region of the POSIX barrier while another one runs.
AnyRegion == PosixRegion(1, 0, 0, FALSE, FALSE)

MCInit ==
    /\ primitive \in Primitives
    /\ primitive # "posix barrier" => posix = AnyRegion
    /\ primitive = "posix barrier" => posix \in PosixRegions
    /\ Init /\ SemInit /\ PtrInit /\ NestInit /\ PosixBegins /\ HashInit
    /\ section = [t \in Threads |-> "a"]    \* it is set before it is read
    /\ CritInit

\* A step of one of them leaves the others alone.
Only(p, A) ==
    /\ primitive = p
    /\ A
    /\ p # "mutex" => UNCHANGED vars
    /\ p # "semaphore" => UNCHANGED semVars
    /\ p # "pointer lock" => UNCHANGED ptrVars
    /\ p # "nested lock" => UNCHANGED nestVars
    /\ p # "posix barrier" => UNCHANGED posixVars
    /\ p # "hash table" => UNCHANGED hashVars
    /\ p # "critical names" => UNCHANGED critVars
    /\ UNCHANGED primitive

MCNext ==
    \/ Only("mutex", Next)
    \/ Only("semaphore", SemNext)
    \/ Only("pointer lock", PtrNext)
    \/ Only("nested lock", NestNext)
    \/ Only("posix barrier", PosixNext)
    \/ Only("hash table", HashNext)
    \/ Only("critical names", CritNext)

\* The fairness of each module's fair specification.
MCSpec ==
    /\ MCInit /\ [][MCNext]_mcVars
    /\ \A t \in Threads :
          /\ WF_mcVars(Only("mutex", Step(t)))
          /\ WF_mcVars(Only("semaphore", SemStep(t)))
          /\ WF_mcVars(Only("pointer lock", PtrStep(t)))
    /\ WF_mcVars(Only("posix barrier", PosixDestroy))
    /\ \A t \in 0..2 : WF_mcVars(Only("posix barrier", t \in Members /\ PosixStep(t)))

\* Nobody is left behind: the mutex keeps being granted while threads want it,
\* posts are taken while threads wait, gomp_ptrlock_get returns, and everybody
\* leaves the barriers of the POSIX port.
Progress ==
    /\ KeepsGranting /\ PostsAreTaken /\ EverybodyReturns
    /\ primitive = "posix barrier" => PosixEnds
=============================================================================
