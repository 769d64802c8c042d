# A TLA+ model of libgomp with the BinLPT and SRR loop schedulers

libgomp is the OpenMP runtime of GCC (here: the version of GCC 4.9), extended
by two workload-aware loop schedulers, Smart Round-Robin (SRR) and BinLPT. The
library lives in `src/src/libgomp`; file names below are relative to it. The
Linux port (`config/linux`) is the one modelled, and of the POSIX port
(`config/posix`) the barriers, which are a design of their own.

1. [The system](#1-the-system): components, state, operations, interactions
2. [The modules](#2-the-modules) and how they correspond to the code
3. [The runs](#3-the-runs), their bounds, what they show
4. [Fairness](#4-fairness)
5. [The proofs](#5-the-proofs)
6. [Disagreements between code and comments](#6-disagreements-between-code-and-comments)
7. [Limits](#7-limits): what is not modelled, and what the models assume
8. [Plan](#8-plan)

## 1. The system

| component | code | state | operations | interacts with |
|---|---|---|---|---|
| Futex mutex, `omp_lock_t` | `config/linux/mutex.[ch]`, `futex.h`, `wait.h`, `lock.c` | one word: 0, 1, -1 | lock, unlock, test | every other component |
| Nested locks | `config/linux/lock.c` | owner, count, mutex | set, unset, test | mutex |
| Semaphore | `config/linux/sem.[ch]` | one word: count and the bit SEM_WAIT | wait, post | taskwait, taskgroups, ordered, thread release |
| Pointer lock | `config/linux/ptrlock.[ch]` | one word: 0, 1, 2 or the pointer | get, set | work shares |
| Team barrier | `config/linux/bar.[ch]`, `barrier.c` | `generation` (counter and the bits TASK_PENDING, WAITING_FOR_TASK, CANCELLED), `awaited`, `awaited_final` | wait, wait_cancel, wait_final, done, cancel, wake | tasks, cancellation, work shares |
| Simple barrier | `config/linux/bar.[ch]` | `generation`, `total`, `awaited` | wait, wait_last, reinit | the thread pool's dock |
| Cancellation | `parallel.c` | `team_cancelled`, the work share's and the group's flag, BAR_CANCELLED | GOMP_cancel, GOMP_cancellation_point | barrier, tasks |
| Explicit tasks | `task.c` | per team the queue and three counters; per task parent, children, group, kind, dependers, num_dependees; per group children, num_children | GOMP_task, GOMP_taskwait, GOMP_taskgroup_start/_end, gomp_barrier_handle_tasks | barrier, mutex, semaphores, cancellation |
| Dependence hash table | `hashtab.h`, `task.c` | open-addressing table per parent | find, insert, remove, expand | tasks |
| Work shares | `work.c` | chain of work shares, free list, cache, completion counters | start, end, end_nowait, end_cancel | pointer lock, barrier, loops |
| Loop iterators | `iter.c`, `iter_ull.c`, `loop.c`, `loop_ull.c` | `next`, `end`, `incr`, `chunk_size`, `mode` | init, static/dynamic/guided next | work shares, ordered |
| BinLPT and SRR | `loop.c` | the arrays handed in | insertion, sort, srr_balance, binlpt_balance | workload table |
| Workload table, BinLPT/SRR loops | `loop.c`, `iter.c` | `loops[]`, `curr_loop`, `__tasks`, `__ntasks`, the map in the work share | omp_loop_register, omp_set_workload, omp_loop_unregister, gomp_loop_init, gomp_iter_*_next | schedulers, work shares |
| Ordered sections | `ordered.c` | ring of team ids, owner, semaphores | first, last, next, static_init, sync | iterators, semaphores |
| Sections, single, copyprivate | `sections.c`, `single.c` | as work shares | start, next, end | work shares, barrier |
| Critical, atomic | `critical.c` | mutexes, one pointer per name | start, end | mutex |
| Parallel regions, thread limit | `parallel.c` | `threads_busy` | gomp_resolve_num_threads, GOMP_parallel, GOMP_parallel_end | teams |
| Teams, thread pool | `team.c` | pool, dock, team, thread-local state | gomp_new_team, gomp_team_start, gomp_team_end | simple and team barrier |
| Places | `team.c`, `env.c`, `config/linux/affinity.c` | list of places, per thread place and partition | the environment variables, the place part of gomp_team_start | thread pool |
| POSIX barriers | `config/posix/bar.[ch]` | a mutex, two semaphores, `arrived`, `generation` | as the team barrier and the simple barrier | tasks, cancellation |
| other ICVs, other ports, Fortran, target | `env.c`, `config/*`, `fortran.c`, `target.c` | sequential | parsing, wrappers | - |

### What is hard here, and what makes each component correct

* **Mutex.** The lock, its waiters and the kernel share one word. A thread that
  may have to wait must leave the word so that the next unlock wakes somebody,
  even when the thread gets the lock itself. Correct: at most one holder; no
  sleeper forgotten; the lock keeps being granted.
* **Team barrier.** Arrivals, task execution, cancellation and the next barrier
  overlap on one futex word that is read, compared and overwritten as a whole.
  Correct: a barrier completes only when all threads are in it and all tasks are
  done; no thread sleeps through a completed or cancelled barrier; the region
  ends.
* **Tasks.** Lists are changed under `task_lock`, but the waiters' fast paths
  read two words without it, and a finishing task makes its stores to them in
  the middle of its critical section. Tasks with dependences are in no list until
  they are released. Correct: the waiting constructs return only when what they
  wait for is done; dependences are obeyed; the lists and the counters agree; a
  sleeping waiter is needed by nobody; freed tasks and groups are out of reach.
* **Cancellation.** It may come at every point of the barrier protocol and of a
  task's life. Correct: the region still ends, and nothing leaks into the next
  construct.
* **BinLPT, SRR.** Sorting, cutting and packing with indices and integer
  averages, maps that outlive the loop they were computed for. Correct: every
  iteration goes to one thread of the team and is executed once; the map is as
  good as its name promises; it is computed from the loads declared for this loop.
* **Semaphores, pointer locks, nested locks.** A count and a flag, or a state and a
  pointer, share one word; the owner of a nested lock is read outside its mutex.
  Correct: nobody sleeps who could go on; one thread provides the pointer; a nested
  lock excludes.
* **Work shares.** Threads may be many constructs apart. Shares are recycled through
  a list on which one thread pushes with compare-and-swap while another takes most
  of it without any atomic operation, and the link of that list lies in the same
  memory as the pointer through which late threads find their share. Correct:
  threads agree on the share of a construct, no share is lost, listed twice or
  finished twice, also after a cancellation; a single construct is executed once.
* **Loop iterators.** Blocks are taken with a fetch-and-add that runs past the end of
  the loop, once for every thread, or with compare-and-swap, in integers that run
  over. Correct: every iteration of the user's loop is executed exactly once.
* **Ordered loops.** The threads that hold blocks form a ring; who is next is told by
  a semaphore of the team, and the owner is read without the lock. Correct: sections
  in the order of the iterations, one at a time, and nobody waits for ever.
* **Pool, dock, simple barrier.** Threads of one team are still leaving a barrier while
  the master makes the next, smaller or larger team with some of them. Correct: a
  function is run once by each thread of its team, nobody touches a freed team or
  pool, the counters of threads come back, every region ends.
* **Places.** One cursor is advanced by two loops, and the pool's threads are permuted
  to be reused where they are bound. Correct: threads run as their region's binding
  says, and the dock awaits those who come. The list itself is read twice, to count
  and to fill it, with removals in between. Correct: the places the user wrote.
* **POSIX barriers.** The last thread keeps a mutex while the others leave, runs tasks
  meanwhile, and posts of one barrier may be left over for the next. Correct: as the
  team barrier; and a nested team's barrier is destroyed when nobody uses it.
* **Dependence hash table.** Deleted entries are marks that searches pass over and
  entries reuse. Correct: it is a map, and every search ends.
* **Critical sections.** Threads that come first together each allocate the mutex of a
  name. Correct: sections of a name exclude each other, and no freed mutex is used.

`PROJECT.json` lists the hazards line by line, with the properties that cover
them or the reason why none does.

## 2. The modules

| module | models | checked by |
|---|---|---|
| `ThreadIds` | the constants and the assumption the locks share | run `primitives` |
| `AbstractLock` | what a lock promises: one holder, handed over by a release | target of `Mutex` |
| `AbstractSem` | what a semaphore promises: every wait takes one post | target of `Sem` |
| `Mutex` | `gomp_mutex_t`, `omp_lock_t`, futex calls | `primitives` |
| `Sem` | `gomp_sem_t` | `primitives` |
| `PtrLock` | `gomp_ptrlock_t` | `primitives` |
| `NestLock` | `omp_nest_lock_t` on an `AbstractLock` | `primitives` |
| `CriticalName` | named critical sections of ports with large mutexes | `primitives` |
| `HashTab` | the hash table of `depend` clauses | `primitives` |
| `PosixBarrier` | simple and team barrier of the POSIX port, with tasks and cancellation | `primitives`, `posix_nested_task` |
| `TeamBarrier` | team barrier, scheduling loop, cancellation of a region; tasks seen from the barrier | `teams` |
| `TeamPool` | parallel regions, thread limit, teams, the pool and its dock, the simple barrier | `teams`, `dropped_thread` |
| `Places` | the place part of gomp_team_start | `teams`, `regrown_team` |
| `PlaceList` | OMP_PLACES, GOMP_CPU_AFFINITY, OMP_PROC_BIND and the place lists of affinity.c | `teams` |
| `TeamTasks` | explicit tasks, composed with `TeamBarrier` | `tasks_*`, `orphan_task`, `group_depend` |
| `WorkShare` | the chain of work shares of a team; loops, single, copyprivate, cancelled regions as far as they use it | `work_sharing` |
| `Balance`, `BalanceBounds` | srr_balance and binlpt_balance as operators; all their inputs up to a bound | `work_sharing` |
| `WorkloadLoop` | workload table, map reuse, iteration; uses `Balance` | `work_sharing`, `workload_smaller_team` |
| `Iterators`, `LoopIter` | loop bounds and blocks with machine integers as operators; threads that fetch blocks | `work_sharing` |
| `Ordered` | ordered loops: ring, turns, semaphores; uses `Iterators` | `work_sharing`, `ordered_stray_post` |
| `LockProofs` | theorems about `Mutex`, `Sem`, `PtrLock`, `NestLock`, `CriticalName` | `tlapm` |
| `HashProofs`, `TeamBarrierProofs`, `WorkShareProofs` | theorems about `HashTab`, `TeamBarrier`, `WorkShare` | `tlapm` |
| `TaskListProofs`, `TeamTasksProofs` | lemmas on the lists of `TeamTasks`, and its theorems | `tlapm` |
| `LoopProofs` | theorems about `Iterators`, `LoopIter`, `WorkloadLoop` and `Ordered` | `tlapm` |
| `PosixBarrierProofs` | theorems about `PosixBarrier` | `tlapm` |
| `MCPrimitives`, `MCTeams`, `MCLoops`, `MCTeamTasks` | scenarios and inputs for TLC | |

The first three `MC` modules check several components in one run: a variable says
which of them runs, and the others rest in an initial state (`Only`).

### Mutex

One step is one atomic access to the word or one system call. `mutex` is the
word, `pc[t]` the place of a thread: `spin` is `do_spin`, `xchg1`/`xchg2` the
exchanges of the first (spinning) and the second (sleeping) loop of
`gomp_mutex_lock_slow`, `fwait1`/`dowait` their futex_wait, `asleep` a thread the
kernel has queued, `wake` the futex_wake of an unlock. futex_wait compares and
queues in one step, futex_wake picks any sleeper, and a wait may end without a
wake-up (`Interrupted`), which the code does not notice. `ImplementsLock` is the
refinement: the holder of the abstract lock is the thread at `cs`.

### Sem, PtrLock, NestLock, CriticalName

`Sem` has one step per access to the word, a record of the count and the flag
SEM_WAIT; `seen[t]` is the local copy a compare-and-swap works with. `spin`,
`setflag`, `reread`, `cas` are the first loop of `gomp_sem_wait_slow`, `loop` and
`dowait` the second; a thread that took one of several posts goes on to `wake`, as
one that posted over the flag does. `ImplementsSemaphore` maps the count to the
abstract value and the threads in `WaitPCs` to the waiting ones.

`PtrLock`'s word is `null`, `owned` (1), `awaited` (2) or `ptr`. `Get`, `Claim` are
`gomp_ptrlock_get`, `GetSlow` to `Read` its slow path, `Set` and `WakeAll` the two
halves of `gomp_ptrlock_set`. The thread at `owner` was given NULL.

`CriticalName` takes the mutexes themselves as abstract locks and follows the pointer
of each name: the unlocked look (`NameStart`), the allocation (`NewMutex`, any free
address), the compare-and-swap with what the loser frees (`SwapName`), the lock
(`LockName`), and the unlock, which reads the pointer again (`NameEnd`).

`NestLock` reads `owner` outside the mutex, as the code does, and takes the mutex
as an abstract lock (`Mutex` implements it). `depth` is a history variable: how often
a task has set the lock by its own account.

### TeamBarrier

A step is a critical section under `team->task_lock`, an unlocked access to one of
the barrier's words, or a futex call. `generation` is a record: the counter (the
word divided by BAR_INCR) and the three flag bits. `state[t]` is the
`gomp_barrier_state_t` a thread carries, `wbit[t]` the WAITING_FOR_TASK bit it
accumulates in its local copy.

| action | code |
|---|---|
| `LoadState`, `Arrive` | gomp_barrier_wait_start, gomp_barrier_wait_final_start |
| `LastThread`, `Complete`, `WakeAndLeave` | the WAS_LAST branch of gomp_team_barrier_wait_end and _wait_cancel_end |
| `DoWait`, `Load`, `Reload` | their waiting loop |
| `HandleTasks`, `LoopTop`, `TaskEnd`, `BarrierFinish`, `DoneWake`, `PostWake`, `Relock` | gomp_barrier_handle_tasks |
| `CreateTask`; `WaitLock`, `WaitTake`, `WaitFinish`, `WaitUnlock`, `UserWake` | what GOMP_task; GOMP_taskwait and GOMP_taskgroup_end do to the barrier |
| `CancelLoop`, `CancelTeam`, `BarrierCancel`, `CancelWake`, `CancellationPoint` | GOMP_cancel, GOMP_cancellation_point, gomp_team_barrier_cancel |

Tasks are seen as the barrier sees them: absent, blocked, queued, running, done.
Which one is taken or released is open. The region to execute (team, tasks,
number of explicit barriers, cancellable or not) is chosen in `Init`. A thread
that learns of a cancellation jumps to the end of the region, as compiled code
does. The three barrier flavours are told apart by the position in the region: the
last barrier is the final one; the others are cancellable if the region is.

### TeamTasks

Every action that touches the barrier or the counters is a conjunction of an
action of `TeamBarrier` (`TB!...`) and the change to the lists of `task.c`, so each
behaviour of `TeamTasks` is one of `TeamBarrier`'s `Spec` by construction. (That the code
makes these steps and no others is a matter of the correspondence in the table above, not of a
proof.) A list
is a sequence whose head is the pointer the code keeps: moving the pointer to the
next element of the ring is a rotation. The hash table is a map from an address to
the tasks in its chain. Implicit tasks go by their thread's name.

Finishing a task is one critical section, in three steps (`Finish1`, `Finish2`,
`Finish3`), because the stores of NULL to `parent->children` and to
`group->num_children` can be seen by GOMP_taskwait and GOMP_taskgroup_end, which
read them without the lock. `GompTask` is the unlocked entry of GOMP_task and the
decision to defer, `Defer` its critical section, `InlineEnd` the end of an
undeferred task. Two history variables, `home` and `after`, record what the
*program* asked for (the group that waits for a task, the siblings it must
follow), independently of the lists and the hash table.

### WorkShare

`shares[w]` is a `struct gomp_work_share`, and its field `next` the union of
`next_ws`, the pointer lock that leads to the share of the next construct, and
`next_free`, the link of the lists. `None` is NULL, `Owned` the claimed pointer
lock. The states 1 and 2 of that word and its sleepers are `PtrLock`'s matter; the
team barrier is a count of arrivals, as `TeamBarrier` shows it can be used.

| action | code |
|---|---|
| `Start`, `GetSlow` | gomp_work_share_start up to the answer of gomp_ptrlock_get |
| `Alloc`, `Take`, `Malloc` | alloc_work_share: own list, all but the head of the shared list, a new block |
| `InitWorkShare`, `InitDone` | gomp_init_work_share, gomp_work_share_init_done |
| `EndNowait`, `Arrive`, `Retire`, `Link`, `Push` | gomp_work_share_end_nowait, _end, _end_cancel, and free_work_share |
| `Open`, `Leave` | the barrier opens; a thread behind it |
| `Single`; `CopyEnd`, `Leave` | GOMP_single_start; GOMP_single_copy_end and _start |
| `Cancel`, `CancellationPoint`, `WakeCancelled` | GOMP_cancel (parallel) and its effect in cancellable barriers |
| `RegionEnd`, `TeamEnd`, `FiniChain` | gomp_team_end |

The program of a region, a sequence of constructs, is chosen in `Init`. Loops do not
hand out iterations. Two history variables serve the properties: the field `use`,
the construct a share was initialised for (-1 after gomp_fini_work_share), and
`ran`, the threads that executed a single construct.

### TeamPool

`thr[t]` holds what `struct gomp_thread` and the locals of the functions a thread is
in say. A step is an access to the words of a simple barrier, an access to
`threads_busy`, or what a thread does between two of them.

| action | code |
|---|---|
| `WaitStart`; `ResetAwaited`, `Publish`; `Released` | gomp_barrier_wait, _wait_last: arrival; the last thread; the others |
| `RegionStart`, `Rouse`, `Launch`, `Shrink` | gomp_team_start: the dock's total, the pool's threads, new threads, what is left of the dock |
| `ThreadStart`, `WakeInDock`, `Finish` | gomp_thread_start: the first function, the docked loop |
| `LoadBusy`, `SwapBusy`, `NestedUnlimited` | gomp_resolve_num_threads |
| `NestedStart`, `NestedEnd`, `NestedFree`, `TeamEnd` | GOMP_parallel, gomp_team_end of nested and outermost regions |
| `FinalArrive`, `FinalLeave` | the team barrier at a region's end, taken at its word |
| `FreeThread`, `WaitForHelpers`, `Undocked`, `FreePool` | gomp_free_thread and its helpers |

`teams[m].freed` and `pool.state` remember what was freed. Teams are kept one region
longer as `last_team`, as the code does (`FreedWith`).

### Places, PlaceList

In `Places` a region is one step, since only the thread that starts it runs:
`OuterRegion` reuses and permutes the pool (`ReusePass`, `Sorted`, `Settled`) and
places new threads, `NestedRegion` has new threads only. `Cursor` is the tuple
p, s, k, rest of "place computation", with the partition of the thread it is at;
`Begin` its start for a binding, `Advance` its step. `cpu` is where a thread is bound,
`place` what `thr->place` records.

`PlaceList` reads the environment as initialize_env does. `CountPlace` is one round of
the first loop of parse_places_var, `FillPlace` of the second; `slots` is
`gomp_places_list`, an array of addresses, and `memory` the sets at these addresses, so
that the rotation of a removed place's slot (`RemovePlace`) is visible. A write behind
the list has no outcome (`Overrun`). `ReadLevel` is threads(n), cores(n), sockets(n);
`ReadRanges`, `FillRange` parse_affinity; `InitAffinity` gomp_init_affinity. What the
result must be is stated without slots: as the sequence of sets the items name.

### PosixBarrier

`barrier` is `gomp_barrier_t` with its mutex and its two semaphores, `member[t]` a
thread. What is done under `mutex1` or `task_lock` is one step where nobody else can
look at it.

| action | code |
|---|---|
| `PosixArrive`, `PosixLast` | gomp_barrier_wait_start, _wait_cancel_start; the last thread with or without tasks |
| `PosixComplete`, `PostOthers`, `AwaitOthers` | the last thread: next generation, posts of sem1, the wait for sem2 |
| `SemWait`, `Look`, `CountOut`, `TellLast` | the others: sem1, the generation, out, the last one posts sem2 |
| `PosixHandle`, `TakeTask`, `EndTask`, `LoopAgain`, `PosixWake` | gomp_barrier_handle_tasks |
| `PosixTask`, `WaitedTask`, `EndWaitedTask` | GOMP_task, GOMP_taskwait as far as the barrier is concerned |
| `PosixCancel`, `CancelBarrier`, `CancelEnd` | GOMP_cancel and gomp_team_barrier_cancel |
| `PosixDestroy` | gomp_barrier_destroy, when thread 0 of a nested team is through |

### HashTab

`htab` is the table with its two counters. `Slot` is the j-th probe of a search,
`HashEnter` htab_find_slot with insertion and the expansion before it, `HashClear`
htab_find_slot and htab_clear_slot, `entered` what should be in it. `Expand` moves the
entries one after the other into `NewTable`, each with a `Move`.

### Iterators, LoopIter, Ordered

`Iterators` has the initialisation of a work share's loop (`LoopInit`, `LoopUllInit`,
`SectionsInit`) and the next block of each schedule, with integers of `WordBits` bits:
`Signed` and `Unsigned` wrap, `Quotient` divides as C does. In `LoopIter` the threads
fetch blocks: `StaticNext` without shared state, `DynamicAdd` by fetch-and-add, the
`Load` and `Swap` actions of dynamic and guided loops by compare-and-swap, with the
twins of `iter_ull.c`; sections are a dynamic loop over their numbers.

`Ordered` has `ring[k]`, the ordered part of a work share, and one semaphore per thread of
the team, which outlives the loop. `StaticStart`, `QueueStart` come to a loop,
`StaticNextBlock`, `QueueNextBlock` ask for the next block and hand the turn over
(`Enqueue`, `PassOn`, `DropHead`), `SyncCheck`, `SyncWait`, `SyncOwn` are
gomp_ordered_sync: the unlocked look at the owner, the semaphore, the store.

### Balance, BalanceBounds, WorkloadLoop

`Balance` follows the C arrays as functions on `0..n-1` and the C loops as folds,
among them the exchange sort, the pairs of `srr_balance` that are dealt twice, its
reading of the sorted array with unsorted indices, and the search for the least
loaded thread that runs past `load[ntasks]` if there are more threads than tasks
(any of those threads may win). Loads are kept below the width of `unsigned`.

`WorkloadLoop` has the table (`name`, `taskmap`, `override`), `curr_loop`, the
global workload (`tasks`, `ntasks`) and the work share of the running loop.
`LoopStart` is the BinLPT/SRR part of `gomp_loop_init` with the test for reuse,
`IterNext` one call of `gomp_iter_binlpt_next` or `gomp_iter_srr_next`. `srr_balance`
sorts the program's own array (`AfterBalance`), so `array` may differ from `Load`,
what the program knows.

## 3. The runs

| run | distinct states | what is in it | what it shows |
|---|---|---|---|
| `primitives` | 159,850 | 3 threads; mutex and pointer lock unbounded, 3 posts, nesting to 3; 2 critical names; 8 regions of the POSIX barrier; 5 addresses in the hash table | the mutex is a lock and forgets no sleeper; the semaphore serves each post once and strands none; one provider of a pointer; the nested lock and the critical sections of a name exclude; the POSIX barrier completes when it should and lets everybody go; the hash table is a map |
| `teams` | 82,378 | three regions of a team barrier; 12 programs of the pool; up to 3 places and 5 threads; 2,799 environments | the barrier completes exactly when it should, no lost wake-up; a region's function is run once per thread, nothing freed is used, the thread limit holds, everything ends; threads run where they are bound; the list of places is the one written |
| `work_sharing` | 454,932 | 73 programs of up to 5 constructs; every array of up to 4 loads; 2 table entries; loops in six-bit integers; one or two ordered loops | one share per construct for all threads, none lost, singles executed once; Graham's bound, the pairing of SRR; every iteration once, under every schedule; sections in order where the posts of static loops arrive; every thread gets to the end |
| `tasks_safety` | 714,429 | seven regions, see below | waits, dependences, lifetimes |
| `tasks_end` | 182,711 | four regions | the region ends; undeferred tasks overtake nobody |
| `orphan_task`, `group_depend`, `workload_smaller_team`, `ordered_stray_post`, `posix_nested_task`, `dropped_thread`, `regrown_team` | | one scenario each (`ordered_stray_post`: three) | section 6 |

**Mutex.** Three threads: one holds, one sleeps, one arrives or is woken, which
are the roles the protocol tells apart; the proofs cover any number.
`NoLostWakeup` says that while somebody sleeps the word is -1, a wake call is under
way, or a woken thread is about to store -1. **Semaphore.** With three posts and three
threads a post can come over two sleepers, a second one before the woken thread
has set the flag again, and a third before it has passed the wake-up on.
**Pointer lock.** One thread provides, one arrives late, one sleeps. **Nested lock.**
Three tasks and a depth of three; the property compares the owner's count with the
number of `omp_set_nest_lock` calls that returned.

**Critical names.** Two names and three mutexes: all three threads can be about to
publish for one name, or two while the other name has its mutex; `malloc` may return
an address that was just freed. **POSIX barrier.** Teams of up to three threads; two
barriers in a row without tasks; two tasks in teams of two, one in teams of three,
so that posts of one barrier are left over for the next; cancellation; nested teams,
which end with the simple barrier. **Hash table.** Five addresses whose probes collide
in tables of 7, 13 and 31 entries; the code asks for a table of at least 12 first, here
`FirstSize` is 5, so that few addresses fill it. `TableIsAMap` also says that an empty
entry ends every search.

**Team barrier.** `Plain`: three threads and two explicit barriers before the final
one, so that a thread late to wake from one barrier meets early threads of the next
and the wrong sleepers are woken. `Busy`: three tasks are created by
implicit or explicit tasks, blocked, released (two at once, so that wake-ups are
owed), taken by taskwaits and by the barrier, found cancelled. A task has no identity before it is created, so `MCTeams` takes
their numbers in order (`CreatedInOrder`). `CanBeCancelled`:
GOMP_cancel of the region or of a loop at every point. `BarrierCompletes` is the
central safety property, an action property: the counter advances by one, all
threads are in this very barrier, and no task is left, blocked ones included.
`LastThreadKnows` joins two facts the last thread relies on: the counters it reads
without the lock (`CountersAgree`), and the comment of `bar.c` on BAR_CANCELLED
(`LastSeesNoCancel`). `RegionEnds` is the liveness property: neither the flags nor the order of arrival, completion and
cancellation can leave a thread behind. The counter is bounded by the number of
barriers of the region, nothing else is bounded.

**Pool.** At most four threads besides the first, in twelve programs: regions that ask
for 3, 2, 3 or 2, 3, 2 threads and the like, so that the pool grows, is shrunk and is
used again with threads that are still leaving the dock; nested regions of two
threads at once, without a limit and with limits of 2, 3 and 4, which race for the
last threads; the exit of the first thread where no thread was dropped.
**Places.** Up to three places and regions of up to five threads (fewer threads than
places, as many, more, and no multiple), starting at every place, with
OMP_PROC_BIND=true or any sequence of close, spread and master. Regions follow one
another without bound: the state is the pool. `Regrow` is FALSE: a region that needs
the whole pool in another order and new threads is `regrown_team`.
**Place lists.** Four CPUs in two cores, all or some of them usable. Lists of up to three of seven
items (single places, lengths, negative strides, exclusions inside a place, a place
out of range, removals) and of four of the four items that add and remove the same
places; threads, cores and sockets with counts of one to five; ranges of
GOMP_CPU_AFFINITY that overlap, lie beyond the CPUs or are wrong, each with every
OMP_PROC_BIND. A place list may have 8 places (65536 in the code).

**Tasks.** The regions of `tasks_safety`: three tasks that create tasks and wait
for them; siblings with every combination of depend clauses: two with or without a clause,
three with one each (so that a finished task releases two and its thread, which
takes one at once, leaves the other to a taskwait), and three with clauses on two
addresses (one thread); two taskgroups, nested or in different tasks; a group or the region cancelled;
undeferred tasks with deferred children. Of `tasks_end`: undeferred tasks (if
clause, or throttled: the limit, 64 tasks per thread in the code, is 1 there) with dependences or inside other tasks,
a group, a cancelled region with one task. Two or three tasks are enough for
what the lists tell apart: a head and a tail that is waiting, running or finished,
a member released into a list, a parent gone before or after its child. TLC does
not reach both three tasks with groups and liveness. `tasks_safety` takes threads
to be symmetric: swapping them maps the regions with both threads to themselves and
identifies no two states of the one with a single thread. No liveness property is
checked in it.

**Work shares.** The team structure holds 3 shares (8 in the code): with loops that
end with a barrier two are in use and the third is the head of the free list, which
is never taken, so that from the fourth construct on shares are recycled and none
is allocated; with nowait loops a thread that runs ahead
also exhausts both lists and a block of 6 is allocated. Programs: five loops in
a row; every mix of four loops with and without barrier; every pair of constructs
behind a combined loop; three threads in nowait loops and copyprivate singles;
loops cancelled at every point. A pair of threads can be as many constructs
apart as the program has; the third thread is one that has not left the
construct behind which the other two already recycle.

**Balance.** All inputs up to the bounds, which contain no load, equal loads, one
load above the average, more chunks or threads than tasks, odd and even numbers of
tasks. `LptBound` compares with the best of all assignments of whole chunks.

**Workload.** Two loops share the global workload, are registered, run with either
scheduler by teams of one and three, reused and unregistered in any order, so that a
map can outlive its loop, its loads and its team (`SmallerTeams` is FALSE: a map is
not reused by a smaller team, which is `workload_smaller_team`).

**Iterators.** Loops of both types at both ends of a six-bit integer and around 0, with
and without iterations, steps of one to three in both directions, chunks of zero to
three, one to three threads, all schedules; ends so close to the largest number that a
fetch-and-add has no room. Excluded are loops whose own numbers do not fit
(`LoopAssumption`, see section 7). Six bits keep the proportions the
code depends on: a square root, twice the team, a sign.

**Ordered loops.** One loop with up to four iterations and up to three threads, each
schedule, sections executed or left out; two loops in a row by two or three threads, with
and without a barrier, which share the semaphores of the team. `SectionsInOrder` and
`OrderedEnds` have a hypothesis, `PostsArrive`. The first thread that comes to a static loop
posts to thread 0, and the programs are those in which thread 0 takes the post in that loop:
a static loop without iterations is the last one, and in a team of three threads or more the
loop before a static one ends with a barrier. (In a team of two a static loop may follow a
nowait loop: the thread that comes early is then out of the earlier ring, and thread 0 alone
in it.) The other programs are excluded, and not for convenience: with them sections run
out of order (`ordered_stray_post`, section 6) and a thread may wait for ever. For
two threads the run has all three schedules, with and without iterations in the first loop
and a barrier behind it (a guided first loop is left out: of two iterations it makes the
blocks of a dynamic one); for three threads dynamic and static loops, and a barrier only
before a static one (the executions with a barrier before a dynamic loop are among those
without).

Every property has a mutant: a plausible bug in one definition with which TLC finds
the property violated. Mutants are the definitions commented `mutant` that no action
uses. Deadlock checking is off where the modelled region or loop simply ends.

## 4. Fairness

The runtime spins or sleeps and relies on the operating system to run its threads.
Each thread's own steps (`Step`, `RuntimeStep`) are weakly fair: a thread that can
go on is eventually scheduled. `task_lock` is a futex mutex; `Mutex` shows that it
keeps being granted, not that it is granted to everybody (it is not a fair lock).
Liveness of `TeamBarrier` and `TeamTasks` needs no more than weak fairness for a
thread that waits for it, because finitely many tasks bound the number of sections.

The end of user code (`Ending`: a task returns, a thread arrives at the next barrier)
is strongly fair: user code may take the lock repeatedly in between, but it
terminates. No thread has to create a task, wait for one, cancel, or be
interrupted by a signal. `Mutex` assumes in the same way that critical sections
end (`Unlock` is weakly fair) and that nobody has to ask for the lock. `Sem` assumes
that a weak compare-and-swap does not fail for ever on a word that does not change
(`SpuriousFailure` is a step, the swap stays weakly fair) and that nobody has to post;
`PtrLock` that the provider of a pointer sets it, which the runtime does without
waiting for anything. `WorkShare` assumes that loop bodies end and the calls return;
the compare-and-swap of `Push` then needs no further assumption, because one thread
at a time frees. Nobody has to cancel.

`PosixSpec`, `PoolSpec` and `OrderedSpec` ask for weak fairness of each thread's steps
alone: whatever a thread waits for in them, a post, a generation of a barrier, a
mutex whose holder does not ask for it again meanwhile, stays there until it is taken.
That user code ends is part of it; creating tasks and cancelling are not. No
liveness is claimed for `CriticalName`, `NestLock`, `HashTab`, `Places`, `PlaceList`,
`LoopIter` and `WorkloadLoop`: the first two wait as `Mutex` does, the others are
sequential or end when the caller stops asking.

## 5. The proofs

`LockProofs` proves, for every set `Threads` and any `NoThread` outside it (the
only assumption), that `Mutex` has

* `MutexTypeOK`: `Spec => []TypeOK`;
* `MutexExcludes`: `Spec => []MutualExclusion`, and `MutexWord`:
  `Spec => []WordTellsHolder`. Mutual exclusion is not inductive: a thread enters
  when an atomic access finds 0, so one needs that 0 means that nobody is inside. The
  invariant is `LockInv`, the conjunction of the two and the type invariant;
* `MutexForgetsNoSleeper`: `Spec => []NoLostWakeup`, inductive over `TypeOK`: a
  thread falls asleep only on -1; the word leaves -1 only by an unlock, which goes
  on to wake; the wake-up moves a sleeper to the exchange with -1, if there is one;
* `MutexImplementsLock`: `Spec => L!Spec`. Each step is an `Acquire`, a `Release` or
  leaves the holder alone; the lemmas `HolderInside` and `HolderOutside` make the
  `CHOOSE` in the refinement mapping well defined under `LockInv`.

For pointer locks and every set `Threads`: `PtrLockOneProvides` and
`PtrLockWakesSleepers`. The invariant adds to the two properties that the word is
"owned" or "awaited" exactly while a thread owns it, and that a thread in the slow
path has seen it past "null", later past "owned" (`Claimed`).

For nested locks and every set of tasks and every depth (`NoThreadAssumption`,
`DepthAssumption`): `NestLockExcludes`. The unlocked comparison is safe because `owner` names the holder of
the mutex or nobody: it is set after the mutex is taken and cleared before it is
released (`OwnerHolds`), so a task never reads its own name without holding it.

For critical sections and every set of threads, names and addresses: `CriticalExcludes`.
That the threads of a section hold one mutex follows from `Found` and `Held`: what a
thread locked is what the name points to, now and later, since a pointer is never
changed once it is set. The interesting part is that nobody frees it: an address
that a thread is about to publish is allocated, known to this thread alone and
pointed to by no name (`Private`), and the mutexes of names are allocated and
different (`Published`).

For semaphores, every set `Threads` and every `MaxPosts`, the same module proves

* `SemTypeInvariant`, which says that the count never falls below zero. A swap subtracts one
  from the word it expects, so one needs that a thread at such a swap expects a
  positive count (`SawOne`), and that one about to set the flag expects 0 (`SawZero`).
  `SemInv` is the conjunction; steps are swaps, looks at the word or moves, and one
  lemma for each says under which conditions it keeps `SemInv`;
* `SemForgetsNoSleeper`: `Spec => []SleepersRemembered`, inductive over `SemInv`. A post
  clears the flag but goes on to wake; the woken thread sets it again; a thread that
  takes one of several wakes the next. The second conjunct is what makes the first
  useful: a thread that could take a post and sleeps has a thread on its way to it;
* `SemImplementsSemaphore`: `Spec => S!Spec`.

`HashProofs`, for every hash function, every finite set of addresses and every set of primes
above 3 that is not exhausted (`HashAssumption`; htab_create aborts when it is):
`FindsWhatWasEntered`, `HashSpec => []TableIsAMap`, the property of the run `primitives`. Three
things carry it:

* `Places`: the probes of a search visit every slot of the table. The least multiple of
  the step that the size divides would divide the size (`NoMultiple`), so different
  probes are different slots, and they are as many as the slots. A step is below the
  size because the second hash is taken modulo size - 2.
* `HashInv`: each address has one entry, no probe before it is empty (`Holds`), and
  `n_elements` counts the entries that are not empty and `n_deleted` the marks
  (`Counted`). The marks are why entries are never emptied: a search passes them
  (`Mark`), and an address may be put in one, since a search has been beyond it
  (`Put`). Since an insertion expands the table when it is three quarters full, an
  empty entry is left, at which a search for something else ends (`Search`).
* `Expands`: the new table has room for what is in the old one and one entry more
  (`NewTables`), whichever of the sizes htab_expand asks for, and no marks, as
  find_empty_slot_for_expand demands. `Expand` is a recursive function over the slots;
  that it exists and keeps `Moving` is shown with a least counterexample, as the
  induction theorems of the library cannot be instantiated here.

`TeamBarrierProofs`, for every finite set of threads and of tasks and every set of regions
(`ConstantsAssumption`): whatever the teams, the number of barriers, the tasks and
whether a region can be cancelled,

* `LastThreadIsRight`: `Spec => []LastThreadKnows`, `WakeupsArrive`:
  `Spec => []NoLostWakeup` and `TypeCorrect`: `Spec => []TypeOK`;
* `CompletesWhenAllArrived`: `Spec => BarrierCompletes`, the action property of the run
  `teams`: the counter of the word moves on by one, when every thread of the team is in
  the barrier and no task is left, blocked ones included, and the cancellation of the
  loop before is forgotten.

None of them is inductive. `BarrierInvariant` proves `BarrierInv`, a conjunction of four:

* `TaskInv`: the counters count the tasks (`CountersAgree`); a thread's `btask` is a task
  it runs; tasks are blocked only while others are counted, which is why a count of 0
  means that nothing is left.
* `PlaceInv`: each thread of the team is in the barrier the word's counter stands for or
  in the one before, and the number of barriers behind it follows. A thread that skips
  to the end of a cancelled region finds the word cancelled, or has passed the last
  barrier.
* `DecideInv`: the thread that found itself the last (`Decider`) is alone, and as long as
  it decides, or the word says WAITING_FOR_TASK, all threads are in this barrier and no
  cancellation of it is on its way (`Closed`).
* `AwaitInv`: what the two counters of the barrier mean. `awaited_final` is the team
  without those that are in the final barrier, until the last thread resets it; so is
  `awaited`, as long as the region is not cancelled. When it is, threads leave without
  having been counted; what holds is that `awaited` stays above the number of those
  that may still arrive (`Coming`), so that no thread takes itself for the last in a
  barrier that others have skipped. This is the reason why the code may leave `awaited` in
  an inconsistent state until the final barrier repairs it.

`NoLostWakeup` is inductive over `BarrierInv` (`KeepsSleepers`): a thread falls asleep only
on the word it expects, and whoever changes the word in a way a sleeper waits for goes
on to wake all.

`TeamTasksProofs`, for every finite set of threads, tasks and programs (`TasksAssumption`):
`LastThreadIsRight`, `CompletesWhenTasksDone` and `WakeupsArrive` are what is proved about the
barrier, for the model with lists, groups, dependences and unlocked reads. The three are
instances of the theorems of `TeamBarrierProofs`, whose `ConstantsAssumption` follows from
`TasksAssumption`, carried over by a lemma (`TasksImplementBarrier`) that is no result in
itself: the steps of `TeamTasks` are made of steps of `TeamBarrier`.

What the lists, hash tables, dependences, groups and stacks have to do with each other is
`TasksInv`, which `TasksInvariant` shows of every reachable state, with the invariant of
the barrier as a premise (`BarrierFacts`). From it follow five properties of the run
`tasks_safety`:

* `NoTaskIsForgotten`: `Spec => []NoTaskForgotten`;
* `DependencesAreKept`: `Spec => []DependencesHold`;
* `NullIsDone`: `Spec => []NullMeansDone`, why GOMP_taskwait may return on one unlocked read;
* `ZeroIsDone`: `Spec => []ZeroMeansDone`, why GOMP_taskgroup_end may;
* `SleepsWhenBusy`: `Spec => []SleepsOnlyWhenBusy`, with the invariant `SleepInv` in addition.

They hold for every team, number of tasks, groups, addresses and clauses, and with
orphans. `TasksInv` has these parts:

* `StackInv`, `KindInv`, `PosInv`: a task is on one stack at most, and where a thread is in
  `task.c` fits where it is in the barrier and who has `task_lock`.
* `QueueInv`: the queue holds once what nothing keeps from being started: the queued
  tasks, and between two steps of a task's end those it has just released (`Ready`).
* `DepInv`: x is among the dependers of y only while x is blocked and y a sibling that
  goes on (`Going`), and `num_dependees` counts such y. `Acyclic` says that siblings do
  not wait for each other in a circle: in every set of tasks there is one that waits for
  none of them. It is what makes `NullMeansDone` true: blocked children are in no
  list, but one of those that are left would wait for nobody.
* `HashInv` and `AfterInv`: the hash table keeps the latest depend(out) of an address, and
  a task it has forgotten is one that a task in the table must wait for (`after`). So
  who waits for the table's tasks waits for all.
* `ChildInv`: the list of a parent that still exists (`Alive`) has its children that are
  queued, released or running, and nobody else's.
* `GroupInv`: `num_children` of a group is the number of the tasks created in it that are
  unfinished and not counted out (`Counted`), and the groups a task has opened lead, over
  `prev`, to the one it was created in. `FramesInv` says the same of the loops on the stacks.

The proof that a step keeps `TasksInv` has two layers. `TaskListProofs` says for each action
which task moves where, as a predicate (`Starts`, `Releases`, `Orphans`, `Ends`, `Begins`,
`Drops`, `Defers`), and proves of the predicate that it keeps the lists and dependences
(`CoreInv`). Six of these steps are enough for the three loops, which all end a task the
same way. `TeamTasksProofs` adds the groups and puts the steps together (`TasksStep`).

`SleepInv` is about regions without taskgroups. GOMP_taskwait goes to sleep when the head of
the list is not waiting to be run. That this is enough rests on the order of the lists
(`OrderInv`): queued children stand at the front, the youngest first, while the queue has
the oldest first; a barrier takes the head of the queue, which is the last of the queued
children in its list, a taskwait takes the first, and released tasks are put in front of the
list in reverse. The end of a taskgroup takes tasks in another order, so with taskgroups a
queued child may stand behind a running one. The waiter then sleeps while it could run
this child; another thread runs it, and the end of it wakes the waiter. The property
therefore speaks of regions without taskgroups.

`WorkShareProofs`, for every region (any team, any sequence of loops, sections and singles,
with or without a barrier or copyprivate, cancellable or not) and any number of shares
inside the team (`RegionsAssumption`, `InlineAssumption`, `NamesAssumption`):

* `SharesFound`: `ShareSpec => []SharesAgree`, the property of the run `work_sharing`;
* `OneOnEachSide`: one thread allocates at a time and one frees, what the comments of
  alloc_work_share and free_work_share ask for;
* `FreedWhenLeft`: a share that is about to be freed is in use, and no other thread has
  it or goes on from it;
* `SinglesOnce`: `ShareSpec => []SinglesAgree`, also a property of `work_sharing`: the first
  thread that gets to a single executes it and nobody else, and with copyprivate the
  others read the data of this very construct.

They follow from `SharesInvariant`. `ShareInv` has five parts besides the types, none of
which is inductive alone:

* `ChainInv`: a share in use leads to the share of the next construct, or nobody has made
  that yet; whoever claimed the pointer is its only owner (`OwnersOf`), and no thread is
  beyond a construct whose share is still being prepared. This makes the share of each
  construct the only one, and keeps a second thread from allocating for another construct.
* `FreeInv`: `threads_completed` counts at least the threads that are surely through
  (`Sure`) and at most those that may be (`Maybe`, which has the cancelled ones, too), so
  the last thread through finds everybody behind the construct. A share stays in use as
  long as a thread has to pass the construct after it (`Needed`), which is why no
  pointer leads to a share that was freed.
* `BarrierInv`: the threads at work are behind the same barriers; before a cancellation
  `awaited` counts those that wait, afterwards it can never reach the size of the
  team, so a thread that opens the barrier is alone.
* `ListInv`: the two lists and the shares in the hands of the one who allocates and the one
  who frees are disjoint from those in use; each idle share has one predecessor at most.
  The thread that takes all but the head of the free list finds this head still there,
  first or behind newer ones.
* When the team has ended only the uniqueness of the shares in use is left.

`SinglesOnce` needs two more invariants. `SingleInv`, inductive without the others, says that
a thread's `single_count` is the number of single constructs behind it and that the team's
is that of the thread which is ahead: whoever finds the two equal is the first to
arrive. `CopyInv`, inductive together with `ShareInv`, says that the share of a copyprivate
single has its data or a thread executes it; a thread that leaves the barrier knows by
`BarrierInv` that nobody does any more, and by `ChainInv` that its share is the
construct's own and was not freed and taken for a later one.

The invariant was checked by TLC over 278 regions before it was proved. That no share is
lost (`SharesAccounted`) speaks of everything that can be reached from the lists, and stays
with TLC.

`LoopProofs`, for every set of loop ids, arrays, teams and schedules
(`WorkloadAssumption`): `WorkloadHandedOutOnce`, the property `HandedOutOnce` of the run
`work_sharing`, and `WorkloadToldFalse`, that a thread which was told there is no
work left has had every iteration its map has for it. Together they leave one way for a
loop to end with iterations that nobody executed: a map that names threads the team
does not have, which is the disagreement `workload_smaller_team`. The invariant
`LoopInv` says that `thread_start[t]` separates what was given to thread t from what was
not: what it was given is its own by the map, lies below (`GivenBelowStart`),
ascending (`Ascends`), and is all that lies below; a thread that is done has nothing
ahead (`DoneMeansBehind`). The map may be any function: what `Balance` computes with its
folds is not needed, and would be out of reach.

Also in `LoopProofs`: `StaticSharesTile`, that a static schedule without a chunk size gives
each iteration to exactly one thread, for every number of iterations and threads. A
thread's block ends where the next thread's begins (`ShareEnds`), so blocks do not
overlap, and the thread of an iteration is found by a division, by q + 1 among the
threads that get one iteration more and by q behind them (`ShareOf`).

On it rests `IterationsOnce`: `LoopSpec => []EveryIterationOnce`, a property of
`work_sharing`, for every word size, every team and every loop that `LoopAssumption` allows, of
both types and directions, static, dynamic and guided with any chunk, and sections. Its one
hypothesis, `InSight`, is about fetch-and-add alone: the team that the initialisation of the
work share saw is the team that executes the loop, or larger. A combined parallel loop is the
case without it (`loop.c:488`, section 6). The invariant is `OnceInv`:

* Dynamic and guided loops (`QueueInv`): what was handed out is all that lies before `next`
  (`Sofar`). Before the end of the loop `next` lies a whole number of strides from the start, and
  nobody has been told that all is assigned. Without fetch-and-add `next` never passes the
  end; with it each thread that was told so has passed it by one chunk, which bounds `next`
  by the number of these threads, and there the "cheap overflow protection" leaves room
  for one addition more (`CheapProducts`, `RoomForAll`): the product it computes is
  below the largest number because both factors are below its square root.
* The blocks themselves are `DynamicBlock`, `GuidedBlock` and `AddedBlocks`: in wrapping
  integers of either type, a block begins at `next`, is not empty, and ends at the end of the
  loop or a whole number of strides further (`Advances`). The compare-and-swap that
  succeeds has computed its block from the value it replaces, so that a value that
  came back (ABA) would do no harm.
* Static loops (`StaticInv`): the share does not change, the number of iterations is computed
  right (`TripCounts`), and an iteration was handed out just when the trip counter of
  some thread is behind the block that has it (`Taken`). The blocks tile the loop whatever
  the chunk (`BlocksTile`), a thread that is told there is no more has none left, and
  the number of a chunk does not wrap (`ChunkServed`), one call after the last included.

And `QueuedInOrder`: `OrderedSpec => []InOrder`, for every team, every number of loops one after the other, with or without a barrier between them, every
word size, and all their bounds and chunks, if no loop has a static schedule. With static
loops `InOrder` does not hold of every program: the post for thread 0 may reach it in the
loop before, or in the next one (`ordered_stray_post`, section 6). That sections stay in
order in programs with static loops whose posts arrive (`PostsArrive`, section 3) is the
property `SectionsInOrder`, which is model-checked in `work_sharing` and not proved. The
invariant is `OrderedInv`:

* `BlocksInv`: the share's `next` and all blocks lie behind the latest section, and a
  thread in its section executes the latest. Blocks are taken from `next` on, are not empty and
  end within the loop, in integers of any width (`BlockEnds`), although chunk and remainder
  are computed in wrapping arithmetic.
* `RingInv`: the places from `cur` on name each thread that holds a block, once, in the order
  of the blocks. `Enqueues`, `Drops` and `Rotates` are what the three operations do to the
  ring, a full one included, where the head is overwritten by nobody; that a thread
  finds room is a matter of counting (`RoomInRing`).
* `TurnInv`: who owns the ring is its head, and only the owner is in a section or asks for the
  next block; the head has one post if it does not own the ring and has not taken
  the post, and nobody else has any. So a post is never left for the next loop.

`WalksKeep` is common to all steps between two blocks: the ring stays, and only its
head may move the latest section on. TLC checked the invariant over two million states
before it was proved.

`PosixBarrierProofs`, for every set of regions (any team, number of barriers and of tasks,
with or without cancellation, nested or not: `PosixAssumption`):

* `BarrierCompletes`: `PosixSpec => PosixBarrierCompletes`, a property of the run
  `primitives`: the generation changes by one, when every thread is in the barrier and
  began it with the old generation, and no task is left;
* `DestroyedInTime`: `PosixSpec => []DestroyedWhenLeft`, also of `primitives`, if nested regions
  of more than one thread create no tasks. The hypothesis is the boundary of a
  disagreement: with one task in such a region `posix_nested_task` shows the barrier
  destroyed too early (section 6);
* `PosixBarrierSafe`: the invariant `PosixSafe` they follow from.

`PosixSafe` has four parts:

* `PosixInv` says who is in which barrier. `HoldInv`: `mutex1` is locked exactly while one
  thread is the last to arrive or cancels. `CountInv`: `arrived` counts those that have to
  get out yet, and sem2 has at most one post, which is for the one with the mutex.
  `TaskInv`: a counted task is queued or executed. `StageInv`: all threads are outside the
  barrier of the present generation or in it, or still on their way out of the one
  before; then its last thread holds the mutex until they are gone, so nobody arrives in the
  next barrier among them. `OverInv`: the final barrier is complete for all threads
  or for none.
* Posts of sem1 that tasks have left over let threads through the simple barrier early.
  From there on (`~Clean`) the counts are wrong, and `CountInv` says nothing;
  everything `BarrierCompletes` needs is true all the same, as the team's own barriers
  are over.
* `PostInv`: without tasks sem1 holds exactly one post for each thread that was let go
  and has not taken its own. A thread that was let go is therefore not mistaken for one
  that waits in the next barrier.
* `LeaveInv` and `FreedInv`: without tasks, who has completed the simple barrier unlocks
  `mutex1` when nobody is in it any more, and the destruction waits for the mutex.

TLC checked the invariant over regions of up to three threads before it was proved.

Model-checked only: the liveness properties (`Progress`, `Ends`, `RegionEnds`,
`ConstructsEnd`, `PosixEnds`), which are beyond the prover; `FreedIsOutOfReach` of `TeamTasks`, which
does not hold of programs with orphans (section 6); `SharesAccounted` of `WorkShare`; the static loops
of `Ordered`; what the loops of `LoopIter` do that are not `InSight`; and everything about
`TeamPool`, `Places`, `PlaceList` and `Balance`.
What folds compute for every array is induction over data and stays with TLC. No run
checks the type invariants of `TeamBarrier` and `TeamTasks`: the properties of the runs
fail where they would.

## 6. Disagreements between code and comments

* `orphan_task`: a task that still waits for a sibling is in no list when its parent
  ends, so `gomp_clear_parent` misses it. It keeps a pointer to the freed parent,
  which is followed when the task is released and ends, although the comment at
  `task.c:561` takes a non-NULL pointer for a parent that is still there. The other
  runs use programs that wait for their depending children before a task ends
  (`orphans` is FALSE).
* `group_depend`: GOMP_taskgroup_end goes to sleep when the group's list is empty,
  since "All tasks we are waiting for are already running in other threads"
  (`task.c:929`). A member may instead be blocked by a sibling outside the group
  that is queued. In a team of one nobody is left to run it.
* `workload_smaller_team`: with `override` FALSE a map is reused whatever the size of
  the team. A smaller team ends the loop with iterations nobody executed, against
  the comment on the `GOMP_loop_*_next` functions (`loop.c:798`).
* `ordered_stray_post`: gomp_ordered_static_init posts to thread 0 when the first thread
  comes to a static ordered loop (`ordered.c:157`), wherever thread 0 is, and the semaphores
  belong to the team. With three threads and a nowait loop before, thread 0 may still
  wait for its turn in that loop. It takes the post there and executes its section before
  that of an earlier iteration: of a dynamic loop of two iterations thread 1 has the
  first, thread 0 the second, and thread 2, which got none, goes on and posts; or, of a static
  loop of four iterations with chunks of one, thread 1 is done, goes on and posts, and thread 0
  executes the last section before thread 2 has executed its own. And when a static
  loop has no iterations nobody takes the post, and thread 0 finds it in the next ordered
  loop. The comment in gomp_ordered_sync (`ordered.c:202` to 210) considers a post that
  comes before or after the look at the owner, and says "Either way we get correct
  results". The run has these three programs; each of them violates `InOrder` by itself,
  and TLC shows the first, whose trace is the shortest.
* `posix_nested_task`: posts of sem1 that are left over from tasks of the final
  barrier let a thread of a nested team through the simple barrier behind it at once,
  which the comment at `team.c:880` has there so that "the team can be safely destroyed".
* `dropped_thread`: gomp_free_thread waits for the threads the pool still has
  ("Now it is safe to destroy the barrier and free the pool", `team.c:243`). One that
  a smaller region has dropped may still be leaving the dock.
* `regrown_team`: when the pool's threads are permuted and are too few, the cursor of
  the places is advanced twice for the first new thread; the comment at `team.c:353`
  says how many threads each place gets.

Four more were met that no run is kept for. GOMP_taskgroup_end frees its group when it reads 0
without the lock (`task.c:890`), while the task that stored the 0 (`task.c:617`), still holding
the lock, goes on to take itself off the group's list and to read its in_taskgroup_wait
(`task.c:619` to 630): a use of freed memory for a few instructions. In the same way a child
of an undeferred task reads in_taskwait of its parent (`task.c:592`) when the parent's frame may
be left (`task.c:202`). Both happen in `tasks_safety`; section 7 says what is made of them. The work share of a combined parallel loop is
initialised before the team exists, so that the protection against overflow
(`loop.c:488`) leaves room for two additions, whatever the team: `LoopIter` has the team
that initialisation sees as a parameter (`seen`), `work_sharing` takes it to be the
team, and `IterationsOnce` says what is needed of it. And with OMP_PROC_BIND=true a thread of the pool that is bound elsewhere is
recorded at the place computed for it (`team.c:584`); for this binding the standard
leaves the place open, and `PlacedAsBound` does not compare them.

## 7. Limits

* Memory accesses are sequentially consistent; the acquire/release orders of the
  atomic built-ins are taken to be enough.
* After a free, the models give an access the value the memory last had.
  `FreedIsOutOfReach` says that there are no more than two such accesses, each by a task at
  its end and a few instructions long: the last child of an undeferred task reads
  `parent->in_taskwait` behind the store that lets the parent's frame go, and the last task
  of a group takes itself off the list of the group behind the store of 0 that lets
  GOMP_taskgroup_end free it. What a program would see of memory that was given to
  something else by then is not modelled. Programs with orphans have another such access
  (`orphan_task`).
* `TeamTasks` knows `task_lock` as an atomic lock and semaphores as counters.
* Regions with cancel constructs use the cancellable barrier everywhere but at
  their end. A taskgroup does not span a barrier. `TeamBarrier` and `TeamTasks` know one
  team; nested teams are in `TeamPool`.
* `TeamPool` leaves out the ICVs that make nested regions serial (nest_var,
  max_active_levels) and dyn_var, which asks for the system's load, and the places.
  `Places` leaves out everything of gomp_team_start but the places.
* `PlaceList` takes numbers to parse and the topology to be readable, and counts in
  parentheses to be positive: threads(0), which the manual does not allow, yields an
  empty list.
* `LoopIter` leaves out loops whose own numbers do not fit (`LoopAssumption`): its bounds,
  step and chunk times step are of its type, each iteration has a successor in it, and the
  number of iterations of a loop of type long is a long. A static loop of
  unsigned long long needs more than the standard asks of it: end - start + step - 1, from which
  `gomp_iter_ull_static_next` computes the number of iterations, must not exceed the type
  either, or the number wraps and iterations are left out; and so must not the
  number of the chunk that a thread looks for in vain. `Ordered` has loops over
  0..n - 1 of the type long; the ull twins in `loop_ull.c` differ in the type of the
  bounds alone.
* `WorkloadLoop` ends each loop with a barrier and calls `omp_set_workload` between
  regions, as its comment asks. With a nowait loop and override, the first thread of
  the next loop frees a map that others still read; that needs the maps in the
  shares of `WorkShare`. Programs that fill `__tasks` themselves
  (`examples/pedro-test.c`) are outside the model: there `curr_loop` is -1 and
  `gomp_loop_init` uses `loops[-1]`.
* `WorkShare` leaves out constructs outside a parallel region (one thread allocates
  and frees its share), the fields of ordered loops, and explicit tasks run in its
  barriers. Programs with copyprivate singles are not cancelled: the
  barrier of such a single is not a cancellable one.
* Loads do not overflow `unsigned`, memory does not run out.
* `quicksort` in `loop.c` is never called and not modelled.

### Not modelled

* The rest of `env.c`: each variable is a number or a word that is read once and
  independent of the others, and the `omp_get_`/`omp_set_` functions read or assign one
  variable of the calling thread. There is no state that several steps could disturb.
* Semaphores, locks and pointer locks of the POSIX port: made of pthread objects that
  promise what the abstract ones do. Processor counts, clocks, the other ports: system
  calls.
* `fortran.c`, `target.c`, `alloc.c`, `error.c`: wrappers and host fallbacks without
  state.
* The C library's and the kernel's part: futexes as the code uses them are actions of
  `Mutex`, `Sem`, `PtrLock` and `TeamBarrier`.
* Everything beside `src/src/libgomp`: build files, GCC's manuals and the sources of its
  Java front end, which the repository carries along and libgomp does not use; and tests,
  benchmarks and examples, read for how the library is used.

## 8. Plan

Done, by the weight of what can go wrong: mutex and locks, team barrier with tasks and
cancellation, explicit tasks, the two schedulers and their loops; semaphore, pointer lock,
nested lock; work shares; iterators and ordered loops; thread pool, thread limit and
simple barrier; places and place lists; the barriers of the POSIX port; the hash table;
critical sections; theorems about the locks, the critical sections, the hash table, the
team barrier, the explicit tasks, the work shares, the loops of BinLPT and SRR, the
iterations of all other loops and of sections, ordered loops and the barriers of the
POSIX port.

To come, models: the maps of BinLPT and SRR loops in the shares of `WorkShare`, where
threads of a nowait loop read a map that another one frees; the dock and the places of
gomp_team_start in one model, so that threads that are still on their way to the dock
are the ones to be permuted; nested regions with max_active_levels.

To come, theorems: `RegionRunsOnce` of `TeamPool`; `SectionsInOrder` of static loops,
for which `BlocksTile` and `Served` say in which order the blocks come; lemmas on
`Exchange` and `Cuts` of `Balance`.
