------------------------------- MODULE MCTeams ------------------------------
(***************************************************************************)
(* A team and its barrier, the pool that teams are made of, the places     *)
(* where their threads run, or the list the places come from: one of the   *)
(* four at a time.                                                         *)
(***************************************************************************)
EXTENDS TeamBarrier, TeamPool, Places, PlaceList

CONSTANTS t1, t2, t3

ThreeThreads == {t1, t2, t3}
ThreeTasks == {1, 2, 3}

\* Threads late to wake from one barrier overlap with early ones at the next.
Plain == [team |-> ThreeThreads, tasks |-> {}, barriers |-> 2,
          cancellable |-> FALSE]

\* All there is to tasks: created, blocked, released, taken by a taskwait or
\* by the final barrier.
Busy == [team |-> {t1, t2}, tasks |-> ThreeTasks, barriers |-> 0,
         cancellable |-> FALSE]

\* Cancellation at every point of the barrier protocol.
CanBeCancelled == [team |-> {t1, t2}, tasks |-> {1}, barriers |-> 2,
                   cancellable |-> TRUE]

SomeRegions == {Plain, Busy, CanBeCancelled}
-----------------------------------------------------------------------------
NoInner == [k \in 1..3 |-> [i \in 0..2 |-> 0]]

\* Thread 0 exits only where no thread was dropped from the pool.
Grows(requests) ==
    \A k, l \in DOMAIN requests : k < l => requests[l] = 1 \/ requests[k] <= requests[l]

\* Regions that ask for requests[1], requests[2], ... threads; the threads of the
\* first one meet nested regions that ask for inner[1], inner[2], ...
Asks(limit, requests, inner) ==
    [length |-> Len(requests), limit |-> limit, exits |-> Grows(requests),
     request |-> requests,
     inner |-> [NoInner EXCEPT ![1] = [i \in 0..2 |-> inner[i + 1]]]]

\* The pool grows, shrinks, and is left alone by a region of one thread.
Flat == {Asks(Infinity, r, <<0, 0, 0>>) :
            r \in {<<3, 2, 3>>, <<2, 3, 2>>, <<3, 3, 2>>, <<3, 1, 2>>, <<2, 3>>, <<1>>}}

\* Nested regions, and what the thread limit leaves them.
Nested == {Asks(Infinity, <<2>>, <<2, 2, 0>>), Asks(3, <<2, 2>>, <<2, 2, 0>>),
           Asks(3, <<2>>, <<3, 2, 0>>), Asks(2, <<3, 1>>, <<2, 0, 0>>),
           Asks(3, <<1, 2>>, <<3, 0, 0>>), Asks(4, <<3>>, <<1, 2, 0>>)}

SomePrograms == Flat \cup Nested

\* A thread that is no longer needed may still be in the dock at the end.
DropAndExit == {[Asks(Infinity, <<3, 2>>, <<0, 0, 0>>) EXCEPT !.exits = TRUE]}
-----------------------------------------------------------------------------
\* OMP_PROC_BIND=true, or what OMP_PROC_BIND and the proc_bind clauses name.
SomeBindings == {{"true"}, {"close", "spread", "master"}}
-----------------------------------------------------------------------------
\* Four CPUs, two to a core, in one socket.
TwoCores == <<[c \in 0..3 |-> {c}],
              [c \in 0..3 |-> IF c < 2 THEN {0, 1} ELSE {2, 3}],
              [c \in 0..3 |-> 0..3]>>

Cpus(num, length, stride, negate) ==
    [num |-> num, len |-> length, stride |-> stride, negate |-> negate]
Place(cpus, length, stride) ==
    [cpus |-> cpus, len |-> length, stride |-> stride, negate |-> FALSE]
Without(cpu) == [Place(<<Cpus(cpu, 1, 1, FALSE)>>, 1, 1) EXCEPT !.negate = TRUE]

\* {0}:3  {1}  !{0}  !{1}
FewPlaces ==
    {Place(<<Cpus(0, 1, 1, FALSE)>>, 3, 1), Place(<<Cpus(1, 1, 1, FALSE)>>, 1, 1),
     Without(0), Without(1)}

\* {3}:2:-2  {!1,0:2}  {3:2}, which is out of range
SomePlaces ==
    FewPlaces \cup
    {Place(<<Cpus(3, 1, 1, FALSE)>>, 2, -2),
     Place(<<Cpus(1, 1, 1, TRUE), Cpus(0, 2, 1, FALSE)>>, 1, 1),
     Place(<<Cpus(3, 2, 1, FALSE)>>, 1, 1)}

Lists == UNION {[1..n -> SomePlaces] : n \in 1..3} \cup [1..4 -> FewPlaces]
ShortLists == UNION {[1..n -> SomePlaces] : n \in 1..2}

CpuRange(beg, end, stride) == [first |-> beg, last |-> end, stride |-> stride]

\* GOMP_CPU_AFFINITY: unset, overlapping ranges, one CPU, ranges beyond the CPUs.
SomeAffinities ==
    {<<>>, <<CpuRange(0, 5, 2), CpuRange(1, 1, 1)>>, <<CpuRange(2, 2, 1)>>,
     <<CpuRange(4, 5, 1)>>, <<CpuRange(2, 1, 1)>>}

\* "true" stands for every binding but false.
SomeBinds == {"unset", "false", "true"}

Unset == [kind |-> "affinity", level |-> 1, count |-> 1, items |-> <<>>,
          affinity |-> <<>>, bind |-> "unset", usable |-> 0..3]

SomeEnvironments ==
    {[Unset EXCEPT !.kind = "list", !.items = i, !.usable = u] :
        i \in Lists, u \in {0..3, {0, 2}}}
    \cup {[Unset EXCEPT !.kind = "list", !.items = i, !.affinity = a, !.bind = b,
                         !.usable = {0, 2}] :
             i \in ShortLists, a \in SomeAffinities, b \in SomeBinds}
    \cup {[Unset EXCEPT !.kind = "level", !.level = l, !.count = c, !.affinity = a,
                         !.bind = b, !.usable = u] :
             l \in 1..3, c \in 1..5, a \in SomeAffinities, b \in SomeBinds,
             u \in {0..3, {0, 2}, {1, 2, 3}}}
    \cup {[Unset EXCEPT !.affinity = a, !.bind = b, !.usable = u] :
             a \in SomeAffinities, b \in SomeBinds, u \in {0..3, {0, 2}}}
-----------------------------------------------------------------------------
CONSTANT Components     \* the parts that run
VARIABLE component

mcVars == <<component, vars, poolVars, placesVars, listVars>>

Only(c, A) ==
    /\ component = c /\ A
    /\ c # "barrier" => UNCHANGED vars
    /\ c # "pool" => UNCHANGED poolVars
    /\ c # "places" => UNCHANGED placesVars
    /\ c # "place list" => UNCHANGED listVars
    /\ UNCHANGED component

MCInit ==
    /\ component \in Components /\ Init /\ PoolInit /\ PlacesInit
    /\ component # "barrier" => region = Busy
    /\ component # "pool" => prog = CHOOSE p \in PoolPrograms : TRUE
    /\ component # "places" => partition.len = 1 /\ bindings = {"true"}
    /\ IF component = "place list" THEN env \in Environments ELSE env = Unset
    /\ ListBegins

\* A task has no identity before it is created: take the numbers in order.
CreatedInOrder == \A x, y \in region.tasks : x < y /\ status'[y] # "none" => status'[x] # "none"

MCNext ==
    \/ Only("barrier", Next /\ CreatedInOrder)
    \/ Only("pool", PoolNext)
    \/ Only("places", PlacesNext)
    \/ Only("place list", ListNext)

\* The fairness of FairSpec and PoolSpec.
MCSpec ==
    /\ MCInit /\ [][MCNext]_mcVars
    /\ \A t \in Threads : /\ WF_mcVars(Only("barrier", Step(t)))
                         /\ SF_mcVars(Only("barrier", Ending(t)))
                         /\ SF_mcVars(Only("barrier", LockAfterTask(t)))
    /\ WF_mcVars(Only("pool", Master))
    /\ \A t \in AllThreads : WF_mcVars(Only("pool", PoolStep(t)))

\* A team and a program with its pool come to an end.
Ends ==
    /\ component = "barrier" => RegionEnds
    /\ component = "pool" => EverybodyEnds
=============================================================================
