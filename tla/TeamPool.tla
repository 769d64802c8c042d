------------------------------ MODULE TeamPool ------------------------------
(***************************************************************************)
(* Parallel regions (parallel.c), the teams they run on and the pool that  *)
(* lends its threads (team.c), and the simple barrier at which the threads *)
(* of the pool wait (gomp_barrier_wait and gomp_barrier_wait_last, in      *)
(* config/linux/bar.c).  No places are set: team.c then reuses its threads *)
(* in the order of the pool.                                               *)
(*                                                                         *)
(* Thread 0 executes the regions of a program one after the other and then *)
(* exits.  A thread of a region may execute a nested region first.  The    *)
(* team barrier at the end of a region is taken at its word (TeamBarrier). *)
(* A team is known by its number; its function is the number, too.         *)
(***************************************************************************)
EXTENDS Integers, Sequences, FiniteSets

CONSTANTS MaxThreads,   \* bound: threads a program creates
          Infinity,     \* UINT_MAX as a thread limit: there is none
          PoolPrograms  \* length, limit; request[k], inner[k][i]: the threads that
                        \* region k and the nested region of its thread i ask for;
                        \* exits: thread 0 exits, it does not return from main

ASSUME PoolAssumption ==
    /\ MaxThreads \in Nat
    /\ \A p \in PoolPrograms :
          /\ p.limit \in Nat \ {0}
          /\ \A k \in 1..p.length :
                /\ p.request[k] \in Nat \ {0}
                /\ \A i \in 0..p.request[k] - 1 : p.inner[k][i] \in Nat

VARIABLES prog,
          met,          \* how many regions thread 0 has met
          thr,          \* thr[t], see NewThread
          teams,        \* teams[m]: nthreads, bar, freed
          dock,         \* pool->threads_dock
          pool,         \* threads, used, last_team of the pool, and its state
          threads_busy, gomp_managed_threads,
          ran           \* history: ran[m][i]: how often thread i ran the function
poolVars == <<prog, met, thr, teams, dock, pool, threads_busy, gomp_managed_threads,
              ran>>
counters == <<threads_busy, gomp_managed_threads>>

NULL == 0       \* no team, no function
Helper == -1    \* gomp_free_pool_helper
Dock == 0       \* the dock, where other barriers go by the number of their team
AllThreads == 0..MaxThreads

\* pc: where it is.  In a barrier: bar, which one; then, where it goes on; leaves,
\* gomp_barrier_wait_last; state, the generation it has read.  local_fn, fn, team,
\* team_id: as in gomp_thread_start and thr->ts; prev_team, prev_id:
\* team->prev_ts; nested: of its start data; old, busy: locals of gomp_team_start
\* and gomp_resolve_num_threads; asks: threads of the nested region to come.
NewThread(pc) ==
    [pc |-> pc, bar |-> Dock, then |-> pc, leaves |-> FALSE, state |-> 0,
     local_fn |-> NULL, fn |-> NULL, team |-> NULL, team_id |-> 0, prev_team |-> NULL,
     prev_id |-> 0, nested |-> FALSE, old |-> 0, busy |-> 0, asks |-> 0]

\* gomp_barrier_init
NewBarrier(count) ==
    [total |-> count, awaited |-> count, awaited_final |-> count, generation |-> 0]

PoolInit ==
    /\ prog \in PoolPrograms /\ met = 0
    /\ thr = [t \in AllThreads |-> NewThread(IF t = 0 THEN "out" ELSE "none")]
    /\ teams = <<>> /\ ran = <<>>
    /\ dock = NewBarrier(0)
    /\ pool = [state |-> "none", threads |-> [i \in AllThreads |-> NULL], used |-> 0,
               last_team |-> NULL]
    /\ threads_busy = 0 /\ gomp_managed_threads = 1

At(t, pc) == thr[t].pc = pc
Go(t, pc) == thr' = [thr EXCEPT ![t].pc = pc]
-----------------------------------------------------------------------------
(* The simple barrier.                                                     *)

\* Thread r on its way into barrier b: gomp_barrier_wait, or where it leaves at
\* once, gomp_barrier_wait_last.
WaitAt(r, b, then, leaves) ==
    [r EXCEPT !.pc = "arrive", !.bar = b, !.then = then, !.leaves = leaves]

Bar(t) == IF thr[t].bar = Dock THEN dock ELSE teams[thr[t].bar].bar

SetBar(t, new) ==
    IF thr[t].bar = Dock THEN dock' = new /\ UNCHANGED teams
    ELSE teams' = [teams EXCEPT ![thr[t].bar].bar = new] /\ UNCHANGED dock

\* gomp_barrier_wait_start, and where its answer sends the thread.
WaitStart(t) ==
    /\ At(t, "arrive")
    /\ SetBar(t, [Bar(t) EXCEPT !.awaited = @ - 1])
    /\ thr' = [thr EXCEPT ![t].state = Bar(t).generation,
                          ![t].pc = IF Bar(t).awaited = 1 THEN "reset"
                                    ELSE IF thr[t].leaves THEN thr[t].then ELSE "wait"]
    /\ UNCHANGED <<prog, met, pool, counters, ran>>

\* "Next time we'll be awaiting TOTAL threads again."
ResetAwaited(t) ==
    /\ At(t, "reset") /\ Go(t, "publish")
    /\ SetBar(t, [Bar(t) EXCEPT !.awaited = Bar(t).total])
    /\ UNCHANGED <<prog, met, pool, counters, ran>>

Publish(t) ==
    /\ At(t, "publish") /\ Go(t, thr[t].then)
    /\ SetBar(t, [Bar(t) EXCEPT !.generation = @ + 1])
    /\ UNCHANGED <<prog, met, pool, counters, ran>>

Released(t) ==
    /\ At(t, "wait") /\ Bar(t).generation # thr[t].state
    /\ Go(t, thr[t].then)
    /\ UNCHANGED <<prog, met, teams, dock, pool, counters, ran>>

\* mutant: threads that have arrived are forgotten
ReinitAll(b, count) == [b EXCEPT !.awaited = count, !.total = count]

\* gomp_barrier_reinit: others may have arrived.
Reinit(b, count) == [b EXCEPT !.awaited = @ + count - b.total, !.total = count]
-----------------------------------------------------------------------------
(* How many threads.                                                       *)

Limited == prog.limit # Infinity

\* gomp_resolve_num_threads of thread 0: it is alone.
Alone(asked) == IF asked > prog.limit THEN prog.limit ELSE asked

\* mutant: one thread too many
SpareTwo(busy) == prog.limit - busy + 2

\* "thread_limit - busy + 1": with the thread that asks.
Spare(busy) == prog.limit - busy + 1

\* The others read threads_busy, ...
LoadBusy(t) ==
    /\ At(t, "user") /\ thr[t].asks > 1 /\ Limited
    /\ thr' = [thr EXCEPT ![t].busy = threads_busy, ![t].pc = "resolve"]
    /\ UNCHANGED <<prog, met, teams, dock, pool, counters, ran>>
-----------------------------------------------------------------------------
(* A region begins.                                                        *)

\* gomp_new_team
NewTeam(n) ==
    /\ teams' = Append(teams, [nthreads |-> n, bar |-> NewBarrier(n), freed |-> FALSE])
    /\ ran' = Append(ran, [i \in 0..n - 1 |-> 0])

\* gomp_team_start up to "if (nthreads == 1) return;": the master r enters team m.
EnterTeam(r, m, old, pc) ==
    [r EXCEPT !.prev_team = r.team, !.prev_id = r.team_id, !.team = m, !.team_id = 0,
              !.local_fn = m, !.old = old, !.pc = pc, !.asks = 0]

\* Thread 0, up to the assignment of threads_used.
RegionStart ==
    /\ At(0, "out") /\ met < prog.length
    /\ met' = met + 1
    /\ LET asked == prog.request[met']
           n == IF Limited THEN Alone(asked) ELSE asked
           old == pool.used
       IN /\ NewTeam(n)
          /\ threads_busy' = IF pool.state = "none" \/ (Limited /\ asked > 1) THEN n
                             ELSE threads_busy
          /\ thr' = [thr EXCEPT ![0] = EnterTeam(@, Len(teams'), old,
                                                 IF n = 1 THEN "fn" ELSE "rouse")]
          /\ IF n = 1 THEN pool' = [pool EXCEPT !.state = "ready"] /\ UNCHANGED dock
             ELSE /\ pool' = [pool EXCEPT !.state = "ready", !.used = n]
                  /\ dock' = IF old = 0 THEN NewBarrier(n)
                             ELSE IF n > old THEN Reinit(dock, n) ELSE dock
    /\ UNCHANGED <<prog, gomp_managed_threads>>

\* "Release existing idle threads": those beyond the team find fn NULL.
Roused(n, old) == 1..(IF n < old THEN n ELSE old) - 1

Rouse ==
    /\ At(0, "rouse")
    /\ LET m == thr[0].team
           n == teams[m].nthreads
           old == thr[0].old
           Slots(t) == {i \in Roused(n, old) : pool.threads[i] = t}
           Called(t) == [thr[t] EXCEPT !.team = m, !.fn = m,
                                       !.team_id = CHOOSE i \in Slots(t) : TRUE]
           Docking == WaitAt(thr[0], Dock, IF n < old THEN "shrink" ELSE "fn", FALSE)
           Launching == [thr[0] EXCEPT !.pc = "launch"]
       IN thr' = [t \in AllThreads |->
                    IF t = 0 THEN IF n > old THEN Launching ELSE Docking
                    ELSE IF Slots(t) = {} THEN thr[t] ELSE Called(t)]
    /\ UNCHANGED <<prog, met, teams, dock, pool, counters, ran>>

\* The nested region of a thread: gomp_resolve_num_threads, where it has a limit
\* to keep the compare-and-swap of threads_busy.
NestedStart(t, n) ==
    /\ NewTeam(n)
    /\ thr' = [thr EXCEPT ![t] = EnterTeam(@, Len(teams'), 0,
                                           IF n = 1 THEN "fn" ELSE "launch")]
    /\ UNCHANGED <<prog, met, dock, pool, gomp_managed_threads>>

NestedUnlimited(t) ==
    /\ At(t, "user") /\ thr[t].asks > 0 /\ (thr[t].asks = 1 \/ ~Limited)
    /\ NestedStart(t, thr[t].asks)
    /\ UNCHANGED threads_busy

SwapBusy(t) ==
    /\ At(t, "resolve")
    /\ IF threads_busy = thr[t].busy
       THEN LET n == IF Spare(thr[t].busy) < thr[t].asks THEN Spare(thr[t].busy)
                     ELSE thr[t].asks
            IN NestedStart(t, n) /\ threads_busy' = threads_busy + n - 1
       ELSE /\ Go(t, "user")
            /\ UNCHANGED <<prog, met, teams, dock, pool, counters, ran>>

\* "Launch new threads": thread t creates those its team still lacks.
Launch(t) ==
    /\ At(t, "launch")
    /\ LET m == thr[t].team
           n == teams[m].nthreads
           old == IF thr[t].old = 0 THEN 1 ELSE thr[t].old
           nested == thr[t].prev_team # NULL
           Idle == {u \in AllThreads : At(u, "none")}
           first == CHOOSE u \in Idle : \A v \in Idle : u <= v
           New(i) == [NewThread("start") EXCEPT !.team = m, !.team_id = i,
                                                !.local_fn = m, !.nested = nested]
           Waiting == WaitAt(thr[t], IF nested THEN m ELSE Dock, "fn", FALSE)
       IN /\ first + n - old - 1 <= MaxThreads
          /\ gomp_managed_threads' = gomp_managed_threads + n - old
          /\ thr' = [u \in AllThreads |->
                       IF u = t THEN Waiting
                       ELSE IF u \in first..first + n - old - 1 THEN New(old + u - first)
                       ELSE thr[u]]
    /\ UNCHANGED <<prog, met, teams, dock, pool, threads_busy, ran>>

\* The dock awaits the smaller team; the others exit.
Shrink ==
    /\ At(0, "shrink") /\ Go(0, "fn")
    /\ LET n == pool.used
       IN /\ dock' = Reinit(dock, n)
          /\ gomp_managed_threads' = gomp_managed_threads + n - thr[0].old
    /\ UNCHANGED <<prog, met, teams, pool, threads_busy, ran>>
-----------------------------------------------------------------------------
(* The threads of a team.                                                  *)

\* gomp_thread_start
ThreadStart(t) ==
    /\ At(t, "start")
    /\ LET r == thr[t]
       IN IF r.nested THEN /\ thr' = [thr EXCEPT ![t] = WaitAt(r, r.team, "fn", FALSE)]
                           /\ UNCHANGED pool
          ELSE /\ thr' = [thr EXCEPT ![t] = WaitAt(r, Dock, "fn", FALSE)]
               /\ pool' = [pool EXCEPT !.threads[r.team_id] = t]
    /\ UNCHANGED <<prog, met, teams, dock, counters, ran>>

\* The function is called.
Run(t) ==
    /\ At(t, "fn")
    /\ ran' = [ran EXCEPT ![thr[t].local_fn][thr[t].team_id] = @ + 1]
    /\ LET outermost == thr[t].prev_team = NULL /\ ~thr[t].nested
           inner == IF outermost THEN prog.inner[met][thr[t].team_id] ELSE 0
       IN thr' = [thr EXCEPT ![t].pc = "user", ![t].asks = inner]
    /\ UNCHANGED <<prog, met, teams, dock, pool, counters>>

\* gomp_team_barrier_wait_final; the last one resets awaited, too.  From here on
\* a worker knows the team by its local variable: thr->ts may already change.
FinalArrive(t) ==
    /\ At(t, "user") /\ thr[t].asks = 0
    /\ LET m == thr[t].team
           b == teams[m].bar
           then == IF thr[t].team_id = 0 THEN "end" ELSE "finish"
       IN IF b.awaited_final = 1
          THEN /\ teams' = [teams EXCEPT ![m].bar.awaited_final = b.total,
                                         ![m].bar.awaited = b.total,
                                         ![m].bar.generation = @ + 1]
               /\ thr' = [thr EXCEPT ![t].bar = m, ![t].pc = then]
          ELSE /\ teams' = [teams EXCEPT ![m].bar.awaited_final = @ - 1]
               /\ thr' = [thr EXCEPT ![t].bar = m, ![t].pc = "final", ![t].then = then,
                                     ![t].state = b.generation]
    /\ UNCHANGED <<prog, met, dock, pool, counters, ran>>

FinalLeave(t) ==
    /\ At(t, "final") /\ Bar(t).generation # thr[t].state
    /\ Go(t, thr[t].then)
    /\ UNCHANGED <<prog, met, teams, dock, pool, counters, ran>>

\* gomp_finish_task looks at the task, which is part of the team; then the
\* thread docks, or leaves for good.
Finish(t) ==
    /\ At(t, "finish")
    /\ thr' = [thr EXCEPT ![t] = IF @.nested THEN WaitAt(@, @.bar, "exit", TRUE)
                                 ELSE WaitAt(@, Dock, "wake", FALSE)]
    /\ UNCHANGED <<prog, met, teams, dock, pool, counters, ran>>

\* mutant: the function stays
KeepFn(r) == [r EXCEPT !.local_fn = r.fn]

\* "local_fn = thr->fn; ... thr->fn = NULL;"
TakeFn(r) == [r EXCEPT !.local_fn = r.fn, !.fn = NULL]

\* On to the next function, to gomp_free_pool_helper, or out of the pool.
WakeInDock(t) ==
    /\ At(t, "wake")
    /\ LET r == TakeFn(thr[t])
       IN thr' = [thr EXCEPT ![t] =
                    IF r.local_fn = Helper THEN WaitAt(r, Dock, "exit", TRUE)
                    ELSE [r EXCEPT !.pc = IF r.local_fn = NULL THEN "exit" ELSE "fn"]]
    /\ UNCHANGED <<prog, met, teams, dock, pool, counters, ran>>
-----------------------------------------------------------------------------
(* gomp_team_end and GOMP_parallel_end.                                    *)

\* mutant: the team of a region is freed when the region ends
FreeAtOnce(m, last_team) == {m}

\* The team stays until the next region has ended: its threads are still on
\* their way from its barrier to the dock.
FreedWith(m, last_team) == IF teams[m].nthreads = 1 THEN {m} ELSE {last_team}

Free(ms) == [m \in DOMAIN teams |-> IF m \in ms THEN [teams[m] EXCEPT !.freed = TRUE]
                                    ELSE teams[m]]

TeamEnd ==
    /\ At(0, "end") /\ thr[0].prev_team = NULL
    /\ LET m == thr[0].team
       IN /\ teams' = Free(FreedWith(m, pool.last_team))
          /\ IF teams[m].nthreads = 1 THEN UNCHANGED <<pool, threads_busy>>
             ELSE /\ pool' = [pool EXCEPT !.last_team = m]
                  /\ threads_busy' = IF Limited THEN 1 ELSE threads_busy
    /\ thr' = [thr EXCEPT ![0].team = NULL, ![0].pc = "out"]
    /\ UNCHANGED <<prog, met, dock, gomp_managed_threads, ran>>

WaitForThreads(r) == WaitAt(r, r.team, "free", FALSE)

NestedEnd(t) ==
    /\ At(t, "end") /\ thr[t].prev_team # NULL
    /\ gomp_managed_threads' = gomp_managed_threads + 1 - teams[thr[t].team].nthreads
    /\ thr' = [thr EXCEPT ![t] = [WaitForThreads(@) EXCEPT !.team = thr[t].prev_team,
                                    !.team_id = thr[t].prev_id, !.prev_team = NULL]]
    /\ UNCHANGED <<prog, met, teams, dock, pool, threads_busy, ran>>

NestedFree(t) ==
    /\ At(t, "free") /\ Go(t, "user")
    /\ teams' = Free({thr[t].bar})
    /\ threads_busy' = IF Limited THEN threads_busy + 1 - teams[thr[t].bar].nthreads
                       ELSE threads_busy
    /\ UNCHANGED <<prog, met, dock, pool, gomp_managed_threads, ran>>
-----------------------------------------------------------------------------
(* gomp_free_thread, when thread 0 exits.                                  *)

FreeThread ==
    /\ At(0, "out") /\ met = prog.length /\ prog.exits
    /\ IF pool.used = 0 THEN Go(0, IF pool.state = "none" THEN "exit" ELSE "freepool")
       ELSE LET idle == {pool.threads[i] : i \in 1..pool.used - 1}
            IN thr' = [t \in AllThreads |->
                         IF t = 0 THEN WaitAt(thr[0], Dock, "undocked", FALSE)
                         ELSE IF t \in idle THEN [thr[t] EXCEPT !.fn = Helper]
                         ELSE thr[t]]
    /\ UNCHANGED <<prog, met, teams, dock, pool, counters, ran>>

WaitForHelpers(r) == WaitAt(r, Dock, "freepool", FALSE)

Undocked ==
    /\ At(0, "undocked")
    /\ thr' = [thr EXCEPT ![0] = WaitForHelpers(@)]
    /\ UNCHANGED <<prog, met, teams, dock, pool, counters, ran>>

FreePool ==
    /\ At(0, "freepool") /\ Go(0, "exit")
    /\ gomp_managed_threads' = IF pool.used = 0 THEN gomp_managed_threads
                               ELSE gomp_managed_threads + 1 - pool.used
    /\ teams' = Free({pool.last_team})
    /\ pool' = [pool EXCEPT !.state = "freed"]
    /\ UNCHANGED <<prog, met, dock, threads_busy, ran>>
-----------------------------------------------------------------------------
PoolStep(t) ==
    \/ WaitStart(t) \/ ResetAwaited(t) \/ Publish(t) \/ Released(t)
    \/ LoadBusy(t) \/ SwapBusy(t) \/ NestedUnlimited(t) \/ Launch(t)
    \/ ThreadStart(t) \/ Run(t) \/ FinalArrive(t) \/ FinalLeave(t) \/ Finish(t)
    \/ WakeInDock(t) \/ NestedEnd(t) \/ NestedFree(t)

Master ==
    \/ RegionStart \/ Rouse \/ Shrink \/ TeamEnd \/ FreeThread \/ Undocked \/ FreePool

PoolNext == Master \/ \E t \in AllThreads : PoolStep(t)

\* Every thread that can take a step takes one some time.
PoolSpec ==
    /\ PoolInit /\ [][PoolNext]_poolVars
    /\ WF_poolVars(Master) /\ \A t \in AllThreads : WF_poolVars(PoolStep(t))
-----------------------------------------------------------------------------
\* Every thread of a team runs the function of its region, with the team it
\* belongs to, exactly once before the region ends, whether it was docked, is
\* new or was part of a larger or smaller team before.
RegionRunsOnce ==
    \A t \in AllThreads :
        /\ At(t, "fn") => /\ thr[t].local_fn = thr[t].team
                          /\ ran[thr[t].team][thr[t].team_id] = 0
        /\ At(t, "end") => \A i \in DOMAIN ran[thr[t].team] : ran[thr[t].team][i] = 1

InSimpleBarrier(t) == thr[t].pc \in {"arrive", "reset", "publish", "wait"}

\* Nobody uses a team or the dock after it was freed: neither a thread that is
\* still leaving a barrier when the master goes on, nor one that the pool lets go.
FreedIsUnused ==
    \A t \in AllThreads :
        /\ thr[t].pc \in {"fn", "user", "resolve", "end"} => ~teams[thr[t].team].freed
        /\ thr[t].pc \in {"final", "finish"} => ~teams[thr[t].bar].freed
        /\ InSimpleBarrier(t) => IF thr[t].bar = Dock THEN pool.state = "ready"
                           ELSE ~teams[thr[t].bar].freed

\* The threads that execute regions never exceed the thread limit, however
\* nested regions race for the last of them, and between regions the counters
\* are back: one busy thread, and as many managed ones as the pool holds.
CountersKept ==
    /\ Limited => Cardinality({t \in AllThreads :
            thr[t].pc \in {"fn", "user", "resolve", "launch", "final"}}) <= prog.limit
    /\ At(0, "out") =>
          /\ Limited /\ pool.state = "ready" => threads_busy = 1
          /\ gomp_managed_threads = (IF pool.used = 0 THEN 1 ELSE pool.used)
    /\ At(0, "exit") => gomp_managed_threads = 1

\* Every region ends; then every thread that the pool does not keep exits, and
\* all of them when thread 0 does: nobody waits at the dock or at the barrier of a
\* team for a thread that does not come.
EverybodyEnds ==
    <>[](/\ met = prog.length /\ thr[0].pc = (IF prog.exits THEN "exit" ELSE "out")
         /\ {t \in AllThreads \ {0} : thr[t].pc \notin {"none", "exit"}} =
               (IF prog.exits THEN {} ELSE {pool.threads[i] : i \in 1..pool.used - 1}))
=============================================================================
