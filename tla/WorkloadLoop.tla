----------------------------- MODULE WorkloadLoop ---------------------------
(***************************************************************************)
(* The life of a loop scheduled with BinLPT or SRR: the table of loops and *)
(* the workload a program declares (omp_loop_register, omp_set_workload,   *)
(* omp_loop_unregister), the computation or reuse of a task map when a     *)
(* team meets the loop (gomp_loop_init, in loop.c), and the threads that   *)
(* fetch their iterations (gomp_iter_binlpt_next, gomp_iter_srr_next, in   *)
(* iter.c).                                                                *)
(*                                                                         *)
(* The program declares a workload of a registered loop before the loop    *)
(* and outside parallel regions, and reuses a map (override FALSE) for as  *)
(* many tasks; whether the team may have become smaller is a parameter.    *)
(***************************************************************************)
EXTENDS Balance

CONSTANTS NR_LOOPS,     \* size of the table
          Arrays,       \* arrays of loads the program owns
          Load,         \* Load[a]: the loads of the iterations, as the program knows them
          Teams,        \* team sizes
          Scheds,       \* schedulers in use
          Modifiers,    \* chunk sizes of the schedule clause
          SmallerTeams  \* maps are reused by smaller teams, too

ASSUME WorkloadAssumption ==
    /\ NR_LOOPS \in Nat \ {0}
    /\ Teams \subseteq Nat \ {0} /\ IsFiniteSet(Teams) /\ Teams # {}
    /\ Scheds \subseteq {"binlpt", "srr"}
    /\ Modifiers \subseteq Nat \ {0}
    /\ SmallerTeams \in BOOLEAN
    /\ \A a \in Arrays : IsFiniteSet(DOMAIN Load[a])

VARIABLES
    array,          \* array[a]: what the memory of a holds
    name,           \* name[i]: entry i of loops is in use
    taskmap,        \* taskmap[i], NoMap if NULL
    override,
    curr_loop,
    tasks,          \* __tasks: an array, or NoArray
    ntasks,         \* __ntasks
    ws,             \* the work share and its team
    done,           \* threads whose last call returned false
    given,          \* given[t]: iterations thread t received, in order
    teamOf          \* teamOf[i]: the team size taskmap[i] was computed for

vars == <<array, name, taskmap, override, curr_loop, tasks, ntasks, ws, done,
          given, teamOf>>
table == <<name, taskmap, override, teamOf>>

Ids == 0..NR_LOOPS - 1
MaxTeam == Max(Teams)
NoMap == <<>>
NoArray == "none"
Size(a) == Cardinality(DOMAIN Load[a])
NoLoop == [active |-> FALSE, loop |-> -1, sched |-> "none", taskmap |-> NoMap,
           nthreads |-> 0, thread_start |-> [t \in 0..MaxTeam - 1 |-> 0]]

Init ==
    /\ array = Load
    /\ name = [i \in Ids |-> FALSE]
    /\ taskmap = [i \in Ids |-> NoMap]
    /\ override = [i \in Ids |-> FALSE]
    /\ curr_loop = -1
    /\ tasks = NoArray /\ ntasks = 0
    /\ ws = NoLoop
    /\ done = {}
    /\ given = [t \in 0..MaxTeam - 1 |-> <<>>]
    /\ teamOf = [i \in Ids |-> 0]
-----------------------------------------------------------------------------
(* The program's calls.                                                    *)

\* omp_loop_register: the first entry without a name.
LoopRegister ==
    /\ ~ws.active
    /\ \E i \in Ids : /\ ~name[i] /\ \A j \in 0..i - 1 : name[j]
                      /\ name' = [name EXCEPT ![i] = TRUE]
    /\ UNCHANGED <<array, taskmap, override, curr_loop, tasks, ntasks, ws, done,
                   given, teamOf>>

\* mutant: the pointer to the freed map stays
KeepMap(i) == taskmap

DropMap(i) == [taskmap EXCEPT ![i] = NoMap]

LoopUnregister(i) ==
    /\ ~ws.active /\ name[i]
    /\ taskmap' = DropMap(i)
    /\ name' = [name EXCEPT ![i] = FALSE]
    /\ UNCHANGED <<array, override, curr_loop, tasks, ntasks, ws, done, given,
                   teamOf>>

\* omp_set_workload.  The assertion on team_id would let thread 0 of a running
\* team pass as well; the comment above it asks for a sequential part.
SetWorkload(i, a, o) ==
    /\ ~ws.active /\ name[i]
    /\ override' = [override EXCEPT ![i] = o]
    /\ curr_loop' = i
    /\ tasks' = a /\ ntasks' = Size(a)
    /\ UNCHANGED <<array, name, taskmap, ws, done, given, teamOf>>
-----------------------------------------------------------------------------
(* The loop.                                                               *)

Refresh(i) == override[i] \/ taskmap[i] = NoMap

\* "if (__nchunks == 1) __nchunks = num_threads;"
NChunks(modifier, nthreads) == IF modifier = 1 THEN nthreads ELSE modifier

\* mutant: the map is balanced for one thread more than the team has
MapsForOneMore(loads, n, sched, nthreads, modifier) ==
    IF sched = "srr" THEN SrrBalance(loads, n, nthreads + 1).maps
    ELSE {BinlptBalance(loads, n, nthreads + 1, NChunks(modifier, nthreads + 1))}

\* The maps balance () may return.
Maps(loads, n, sched, nthreads, modifier) ==
    IF sched = "srr" THEN SrrBalance(loads, n, nthreads).maps
    ELSE {BinlptBalance(loads, n, nthreads, NChunks(modifier, nthreads))}

\* srr_balance sorts the program's array.
AfterBalance(sched, n) ==
    IF sched = "srr" THEN [array EXCEPT ![tasks] = SrrBalance(@, n, 1).tasks] ELSE array

Reusable(i, nthreads) ==
    /\ DOMAIN taskmap[i] = 0..ntasks - 1
    /\ SmallerTeams \/ nthreads >= teamOf[i]

\* gomp_loop_init for BinLPT and SRR, once per loop.
LoopStart(sched, nthreads, modifier) ==
    /\ ~ws.active /\ curr_loop \in Ids /\ name[curr_loop]
    /\ \/ /\ Refresh(curr_loop)
          /\ \E map \in Maps(array[tasks], ntasks, sched, nthreads, modifier) :
                taskmap' = [taskmap EXCEPT ![curr_loop] = map]
          /\ teamOf' = [teamOf EXCEPT ![curr_loop] = nthreads]
          /\ array' = AfterBalance(sched, ntasks)
       \/ /\ ~Refresh(curr_loop) /\ Reusable(curr_loop, nthreads)
          /\ UNCHANGED <<taskmap, teamOf, array>>
    /\ ws' = [active |-> TRUE, loop |-> curr_loop, sched |-> sched,
              taskmap |-> taskmap'[curr_loop], nthreads |-> nthreads,
              thread_start |-> [t \in 0..MaxTeam - 1 |-> 0]]
    /\ done' = {}
    /\ given' = [t \in 0..MaxTeam - 1 |-> <<>>]
    /\ UNCHANGED <<name, override, curr_loop, tasks, ntasks>>

\* The first iteration behind the run of thread t's iterations that i begins.
RunEnd(mine, i) == Min({j \in i + 1..ntasks : j \notin mine})

\* mutant: the next search starts at the iteration that was found
StartAtFound(i, end) == i

StartBehind(i, end) == end

\* gomp_iter_binlpt_next and gomp_iter_srr_next.
IterNext(t) ==
    /\ ws.active /\ t < ws.nthreads /\ t \notin done
    /\ LET mine == {i \in 0..ntasks - 1 : ws.taskmap[i] = t}
           ahead == {i \in mine : ws.thread_start[t] <= i}
       IN IF ahead = {}
          THEN done' = done \cup {t} /\ UNCHANGED <<ws, given>>
          ELSE LET i == Min(ahead)
                   end == IF ws.sched = "srr" THEN i + 1 ELSE RunEnd(mine, i)
               IN /\ ws' = [ws EXCEPT !.thread_start[t] = StartBehind(i, end)]
                  /\ given' = [given EXCEPT ![t] = @ \o Upto(i, end - 1)]
                  /\ UNCHANGED done
    /\ UNCHANGED <<array, table, curr_loop, tasks, ntasks>>

\* The barrier at the end of the loop; thread_start is freed with the work share.
LoopEnd ==
    /\ ws.active /\ done = 0..ws.nthreads - 1
    /\ ws' = NoLoop
    /\ done' = {}
    /\ given' = [t \in 0..MaxTeam - 1 |-> <<>>]
    /\ UNCHANGED <<array, table, curr_loop, tasks, ntasks>>
-----------------------------------------------------------------------------
Next ==
    \/ LoopRegister
    \/ \E i \in Ids : LoopUnregister(i)
    \/ \E i \in Ids, a \in Arrays, o \in BOOLEAN : SetWorkload(i, a, o)
    \/ \E s \in Scheds, n \in Teams, c \in Modifiers : LoopStart(s, n, c)
    \/ \E t \in 0..MaxTeam - 1 : IterNext(t)
    \/ LoopEnd

Spec == Init /\ [][Next]_vars
-----------------------------------------------------------------------------
\* No iteration is handed out twice, neither to one thread nor to two, and
\* none that the loop does not have.
HandedOutOnce ==
    ws.active => \A s, t \in 0..MaxTeam - 1 :
        \A k \in DOMAIN given[s], l \in DOMAIN given[t] :
            /\ given[s][k] = given[t][l] => s = t /\ k = l
            /\ given[s][k] \in 0..ntasks - 1

\* "Returns false if all work has been assigned" (loop.c): when every thread of
\* the team has been told false, every iteration was handed out.
FalseMeansAllAssigned ==
    ws.active /\ done = 0..ws.nthreads - 1 =>
        \A i \in 0..ntasks - 1 : \E t \in 0..ws.nthreads - 1 : Contains(given[t], i)

\* With override the map of a running loop balances the loads the program
\* declared for its iterations, and not those of an earlier loop or call, as
\* long as srr_balance has not sorted the program's arrays; and a loop that gets
\* the id of an earlier one starts with a map of its own.
MapsAreTheirOwn ==
    /\ ws.active /\ override[ws.loop] /\ array = Load =>
          \E s \in Scheds, c \in Modifiers :
              ws.taskmap \in Maps(Load[tasks], ntasks, s, ws.nthreads, c)
    /\ \A i \in Ids : ~name[i] => taskmap[i] = NoMap
=============================================================================
