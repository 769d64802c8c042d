----------------------------- MODULE PosixBarrier ---------------------------
(***************************************************************************)
(* The barriers of systems without futexes (config/posix/bar.h, bar.c),    *)
(* made of a mutex, which the last thread to arrive keeps until everybody  *)
(* has left, and two semaphores: sem1 lets the others go on, sem2 tells    *)
(* the last thread, or the one that cancels, that they are gone.  Queued   *)
(* tasks are executed in the barrier (gomp_barrier_handle_tasks).          *)
(*                                                                         *)
(* A region is a record: size of the team, number of its barriers before   *)
(* the final one, tasks the program may create at most, whether it has     *)
(* cancel constructs, and whether it is nested: its threads then meet at   *)
(* the simple barrier once more and thread 0 destroys it.  Tasks have no   *)
(* depend clauses and are alike.  What is done with mutex1 or with         *)
(* task_lock held is one step where nobody else can look at it; posts of   *)
(* one loop are one step, too.                                             *)
(***************************************************************************)
EXTENDS Integers

CONSTANT PosixRegions

ASSUME PosixAssumption ==
    \A r \in PosixRegions : /\ r.size \in Nat \ {0} /\ r.barriers \in Nat
                            /\ r.tasks \in Nat

VARIABLES posix,        \* the region
          barrier,      \* gomp_barrier_t; mutex1: it is locked
          counts,       \* of struct gomp_team; created: tasks so far
          member        \* member[t]: where thread t is, see NewMember
posixVars == <<posix, barrier, counts, member>>

Members == 0..posix.size - 1

Generation(n) == [n |-> n, pending |-> FALSE, waiting |-> FALSE, cancelled |-> FALSE]

\* phase: barriers it has passed, posix.barriers before the final one; n: that of
\* the state it arrived with; last: BAR_WAS_LAST; told: gomp_team_barrier_wait_
\* cancel will return true; then: where it goes on behind a post.
NewMember == [pc |-> "user", phase |-> 0, n |-> 0, last |-> FALSE, told |-> FALSE,
              then |-> "user"]

\* gomp_barrier_init and the counters of gomp_new_team
PosixBegins ==
    /\ barrier = [mutex1 |-> FALSE, sem1 |-> 0, sem2 |-> 0, arrived |-> 0,
                  generation |-> Generation(0), cancellable |-> FALSE, freed |-> FALSE]
    /\ counts = [task |-> 0, queued |-> 0, running |-> 0, created |-> 0]
    /\ member = [t \in Members |-> NewMember]

PosixInit == posix \in PosixRegions /\ PosixBegins

Is(t, pc) == member[t].pc = pc
Proceed(t, pc) == member' = [member EXCEPT ![t].pc = pc]

\* Behind the final barrier, of a nested region: gomp_barrier_wait.
Skipping(t) == member[t].phase = posix.barriers + 1
AtSimple(t) == member[t].phase = posix.barriers + 2
AtFinal(t) == member[t].phase >= posix.barriers /\ ~AtSimple(t)
AtCancellable(t) == posix.cancellable /\ member[t].phase < posix.barriers

ToEnd(r) == [r EXCEPT !.pc = "user", !.phase = posix.barriers + 1, !.told = FALSE]
JumpToFinal(t) == member' = [member EXCEPT ![t] = ToEnd(@)]

\* The thread returns from the barrier.
Out(r) ==
    IF r.told THEN ToEnd(r)
    ELSE CASE r.phase < posix.barriers -> [r EXCEPT !.phase = @ + 1, !.pc = "user"]
           [] r.phase \in posix.barriers..posix.barriers + 1 /\ posix.nested ->
                 [r EXCEPT !.phase = posix.barriers + 2, !.pc = "user"]
           [] OTHER -> [r EXCEPT !.pc = "left"]

GoOut(t) == member' = [member EXCEPT ![t] = Out(@)]
-----------------------------------------------------------------------------
(* Arrival.                                                                *)

\* gomp_barrier_wait_start or gomp_barrier_wait_cancel_start and, but for the
\* last thread, what the functions that end the wait do before they unlock.
PosixArrive(t) ==
    /\ Is(t, "user") /\ ~barrier.mutex1
    /\ IF AtCancellable(t) /\ barrier.generation.cancelled
       THEN JumpToFinal(t) /\ UNCHANGED barrier
       ELSE LET last == barrier.arrived + 1 = posix.size
            IN /\ barrier' = [barrier EXCEPT !.arrived = @ + 1, !.mutex1 = last,
                    !.cancellable = @ \/ (AtCancellable(t) /\ ~last)]
               /\ member' = [member EXCEPT ![t].n = barrier.generation.n,
                    ![t].last = last, ![t].pc = IF last THEN "last" ELSE "wait"]
    /\ UNCHANGED <<posix, counts>>

\* The last thread: tasks first, if there are any.
PosixLast(t) ==
    /\ Is(t, "last")
    /\ barrier' = [barrier EXCEPT !.arrived = @ - 1,
                                  !.cancellable = @ /\ ~AtCancellable(t)]
    /\ Proceed(t, IF AtSimple(t) THEN "post"
                  ELSE IF counts.task > 0 THEN "handle" ELSE "complete")
    /\ UNCHANGED <<posix, counts>>

PosixComplete(t) ==
    /\ Is(t, "complete") /\ Proceed(t, "post")
    /\ barrier' = [barrier EXCEPT !.generation = Generation(member[t].n + 1)]
    /\ UNCHANGED <<posix, counts>>

PostOthers(t) ==
    /\ Is(t, "post") /\ Proceed(t, "others")
    /\ barrier' = [barrier EXCEPT !.sem1 = @ + posix.size - 1]
    /\ UNCHANGED <<posix, counts>>

\* "if (n > 0) gomp_sem_wait (&bar->sem2);" and the mutex is unlocked.
AwaitOthers(t) ==
    /\ Is(t, "others") /\ GoOut(t)
    /\ IF posix.size = 1 THEN barrier' = [barrier EXCEPT !.mutex1 = FALSE]
       ELSE /\ barrier.sem2 > 0
            /\ barrier' = [barrier EXCEPT !.sem2 = @ - 1, !.mutex1 = FALSE]
    /\ UNCHANGED <<posix, counts>>
-----------------------------------------------------------------------------
(* The other threads.                                                      *)

SemWait(t) ==
    /\ Is(t, "wait") /\ barrier.sem1 > 0 /\ Proceed(t, "look")
    /\ barrier' = [barrier EXCEPT !.sem1 = @ - 1]
    /\ UNCHANGED <<posix, counts>>

\* "gen == state + BAR_INCR"; the simple barrier does not look.
Passed(t) == AtSimple(t) \/ barrier.generation = Generation(member[t].n + 1)

\* The loads of the generation behind gomp_sem_wait and behind the tasks.
Look(t) ==
    /\ member[t].pc \in {"look", "lookagain"}
    /\ LET told == AtCancellable(t) /\ barrier.generation.cancelled
           tasks == Is(t, "look") /\ ~AtSimple(t) /\ barrier.generation.pending
       IN member' = [member EXCEPT ![t].told = told,
                        ![t].pc = IF told THEN "leave" ELSE IF tasks THEN "handle"
                                  ELSE IF Passed(t) THEN "leave" ELSE "wait"]
    /\ UNCHANGED <<posix, barrier, counts>>

\* __sync_add_and_fetch (&bar->arrived, -1)
CountOut(t) ==
    /\ Is(t, "leave")
    /\ barrier' = [barrier EXCEPT !.arrived = @ - 1]
    /\ IF barrier.arrived = 1 THEN Proceed(t, "tell") ELSE GoOut(t)
    /\ UNCHANGED <<posix, counts>>

TellLast(t) ==
    /\ Is(t, "tell") /\ GoOut(t)
    /\ barrier' = [barrier EXCEPT !.sem2 = @ + 1]
    /\ UNCHANGED <<posix, counts>>
-----------------------------------------------------------------------------
(* gomp_barrier_handle_tasks.  It returns to where the thread awaits the   *)
(* others or looks at the generation again.                                *)

Handled(t) == IF member[t].last THEN "others" ELSE "lookagain"

\* gomp_team_barrier_done, then gomp_team_barrier_wake (bar, 0) without the lock.
PosixDone(t, then) ==
    /\ barrier' = [barrier EXCEPT !.generation = Generation(member[t].n + 1)]
    /\ member' = [member EXCEPT ![t].pc = "wakeall", ![t].then = then]

\* mutant: the last task completes the barrier whoever is missing
NoTasksLeft(c, g) == c.task = 0

LastTask(c, g) == c.task = 0 /\ g.waiting

\* The top of the loop, with the counts c and the generation g so far: a task is
\* taken, or all are found cancelled, or there is none.
TakeTask(t, c, g) ==
    LET none == [c EXCEPT !.task = @ - c.queued, !.queued = 0]
        idle == [g EXCEPT !.pending = FALSE]
    IN \/ /\ c.queued = 0 /\ Proceed(t, Handled(t))
          /\ counts' = c /\ barrier' = [barrier EXCEPT !.generation = g]
       \/ /\ c.queued > 0 /\ ~g.cancelled /\ Proceed(t, "task")
          /\ counts' = [c EXCEPT !.queued = @ - 1, !.running = @ + 1]
          /\ barrier' = [barrier EXCEPT !.generation =
                            [g EXCEPT !.pending = @ /\ c.queued > 1]]
       \/ /\ c.queued > 0 /\ g.cancelled /\ counts' = none
          /\ IF LastTask(none, g) THEN PosixDone(t, "top")
             ELSE /\ barrier' = [barrier EXCEPT !.generation = idle]
                  /\ Proceed(t, Handled(t))

PosixHandle(t) ==
    /\ Is(t, "handle")
    /\ LET g == [barrier.generation EXCEPT !.waiting = @ \/ member[t].last]
       IN IF member[t].last /\ counts.task = 0
          THEN PosixDone(t, "others") /\ UNCHANGED counts
          ELSE TakeTask(t, counts, g)
    /\ UNCHANGED posix

LoopAgain(t) ==
    /\ Is(t, "top") /\ TakeTask(t, counts, barrier.generation)
    /\ UNCHANGED posix

\* The function of the task has returned.
EndTask(t) ==
    /\ Is(t, "task")
    /\ LET c == [counts EXCEPT !.running = @ - 1, !.task = @ - 1]
       IN IF LastTask(c, barrier.generation)
          THEN PosixDone(t, "top") /\ counts' = c
          ELSE TakeTask(t, c, barrier.generation)
    /\ UNCHANGED posix

\* gomp_team_barrier_wake: everybody, or one for GOMP_task.
PosixWake(t) ==
    /\ member[t].pc \in {"wakeall", "wakeone"} /\ Proceed(t, member[t].then)
    /\ barrier' = [barrier EXCEPT !.sem1 =
                      @ + IF Is(t, "wakeone") THEN 1 ELSE posix.size - 1]
    /\ UNCHANGED <<posix, counts>>
-----------------------------------------------------------------------------
(* User code.                                                              *)

\* GOMP_task, by a task that the barrier executes, by another one, or by none.
PosixTask(t) ==
    /\ \/ Is(t, "user") /\ ~Skipping(t) /\ ~AtSimple(t)
       \/ member[t].pc \in {"task", "waitedtask"}
    /\ counts.created < posix.tasks /\ ~barrier.generation.cancelled
    /\ counts' = [counts EXCEPT !.task = @ + 1, !.queued = @ + 1, !.created = @ + 1]
    /\ barrier' = [barrier EXCEPT !.generation.pending = TRUE]
    /\ LET tied == IF Is(t, "task") THEN 0 ELSE 1
       IN member' = [member EXCEPT ![t].then = member[t].pc,
                        ![t].pc = IF counts.running + tied < posix.size THEN "wakeone"
                                  ELSE @]
    /\ UNCHANGED posix

\* A taskwait takes a task from the queue, ...
WaitedTask(t) ==
    /\ Is(t, "user") /\ ~Skipping(t) /\ ~AtSimple(t) /\ counts.queued > 0
    /\ ~barrier.generation.cancelled /\ Proceed(t, "waitedtask")
    /\ counts' = [counts EXCEPT !.queued = @ - 1]
    /\ barrier' = [barrier EXCEPT !.generation.pending = @ /\ counts.queued > 1]
    /\ UNCHANGED posix

\* ... which is not counted as running, and not asked for when it ends.
EndWaitedTask(t) ==
    /\ Is(t, "waitedtask") /\ Proceed(t, "user")
    /\ counts' = [counts EXCEPT !.task = @ - 1]
    /\ UNCHANGED <<posix, barrier>>

\* gomp_team_barrier_cancel: the first look, without a lock, ...
PosixCancel(t) ==
    /\ AtCancellable(t) /\ Is(t, "user")
    /\ IF barrier.generation.cancelled THEN JumpToFinal(t) ELSE Proceed(t, "cancel")
    /\ UNCHANGED <<posix, barrier, counts>>

\* ... the second, and all who wait are let go, ...
CancelBarrier(t) ==
    /\ Is(t, "cancel") /\ ~barrier.mutex1
    /\ IF barrier.generation.cancelled THEN JumpToFinal(t) /\ UNCHANGED barrier
       ELSE LET wait == barrier.cancellable /\ barrier.arrived > 0
            IN /\ barrier' = [barrier EXCEPT !.generation.cancelled = TRUE,
                    !.mutex1 = wait, !.cancellable = FALSE,
                    !.sem1 = IF wait THEN @ + barrier.arrived ELSE @]
               /\ IF wait THEN Proceed(t, "cancelled") ELSE JumpToFinal(t)
    /\ UNCHANGED <<posix, counts>>

\* ... and waited for.
CancelEnd(t) ==
    /\ Is(t, "cancelled") /\ barrier.sem2 > 0 /\ JumpToFinal(t)
    /\ barrier' = [barrier EXCEPT !.sem2 = @ - 1, !.mutex1 = FALSE]
    /\ UNCHANGED <<posix, counts>>

\* mutant: the barrier is destroyed when thread 0 has left it
DestroyAtOnce == TRUE

\* "Before destroying, make sure all threads have left the barrier."
MayDestroy == ~barrier.mutex1

\* gomp_barrier_destroy, by thread 0.
PosixDestroy ==
    /\ Is(0, "left") /\ posix.nested /\ ~barrier.freed /\ MayDestroy
    /\ barrier' = [barrier EXCEPT !.freed = TRUE]
    /\ UNCHANGED <<posix, counts, member>>
-----------------------------------------------------------------------------
PosixStep(t) ==
    \/ PosixArrive(t) \/ PosixLast(t) \/ PosixComplete(t) \/ PostOthers(t)
    \/ AwaitOthers(t) \/ SemWait(t) \/ Look(t) \/ CountOut(t) \/ TellLast(t)
    \/ PosixHandle(t) \/ LoopAgain(t) \/ EndTask(t) \/ PosixWake(t)
    \/ EndWaitedTask(t) \/ CancelBarrier(t) \/ CancelEnd(t)

PosixNext ==
    \/ \E t \in Members : PosixStep(t) \/ PosixTask(t) \/ WaitedTask(t) \/ PosixCancel(t)
    \/ PosixDestroy

(* Threads that can run do, and user code ends.  Nobody must create a task,*)
(* wait for one or cancel.                                                 *)
PosixSpec ==
    /\ PosixInit /\ [][PosixNext]_posixVars
    /\ WF_posixVars(PosixDestroy)
    /\ \A t \in 0..2 : WF_posixVars(t \in Members /\ PosixStep(t))
-----------------------------------------------------------------------------
InPosixBarrier(t) ==
    member[t].pc \notin {"user", "wakeone", "waitedtask", "cancel", "cancelled", "left"}

\* A barrier completes once, when all threads of the team are in it, in the
\* same one, and every task created before is finished.  No thread leaves a
\* barrier while another may still execute code before it.
PosixBarrierCompletes ==
    [][barrier'.generation.n # barrier.generation.n =>
          /\ barrier'.generation.n = barrier.generation.n + 1
          /\ \A t \in Members : /\ InPosixBarrier(t) /\ InPosixBarrier(t)'
                                /\ member[t].n = barrier.generation.n
          /\ \A s, t \in Members : AtFinal(s) => AtFinal(t)
          /\ counts'.task = 0]_posixVars

\* The barrier of a nested team is destroyed when nobody will touch it any more.
DestroyedWhenLeft == barrier.freed => \A t \in Members : Is(t, "left")

\* Every thread leaves the region: neither mutex1 nor the semaphores are waited
\* for by everybody, whoever executes the last task and however many posts of
\* sem1 are left over from barriers before.
PosixEnds == <>(\A t \in Members : Is(t, "left"))
=============================================================================
