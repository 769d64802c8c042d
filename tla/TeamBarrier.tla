----------------------------- MODULE TeamBarrier ----------------------------
(***************************************************************************)
(* The team barrier of the Linux port (config/linux/bar.c, bar.h) with its *)
(* three flavours (GOMP_barrier, GOMP_barrier_cancel and the final barrier *)
(* of a region), the scheduling loop gomp_barrier_handle_tasks of task.c   *)
(* and the cancellation of a parallel region (parallel.c).                 *)
(*                                                                         *)
(* Explicit tasks are seen here only as the barrier sees them: a task is   *)
(* absent, blocked (unsatisfied depend clauses), queued, running on a      *)
(* thread, or done.  Which task a thread may take or release is left open; *)
(* module TeamTasks adds the lists, groups and dependences of task.c and   *)
(* implements this specification.                                          *)
(*                                                                         *)
(* One step is one critical section under team->task_lock, one unlocked    *)
(* access to the barrier's words or one futex call.                        *)
(***************************************************************************)
EXTENDS Integers, FiniteSets

CONSTANTS Threads,      \* the threads of the team
          Tasks,        \* the explicit tasks a region can create
          None,         \* no thread, no task
          Regions       \* the parallel regions the program may enter: records
                        \*  team         its threads
                        \*  tasks        the explicit tasks it can create
                        \*  barriers     number of explicit barriers
                        \*  cancellable  it has cancel constructs and
                        \*               OMP_CANCELLATION is set

ASSUME ConstantsAssumption ==
    /\ IsFiniteSet(Threads) /\ None \notin Threads
    /\ IsFiniteSet(Tasks) /\ None \notin Tasks
    /\ \A r \in Regions : /\ r.team \subseteq Threads /\ r.team # {}
                          /\ r.tasks \subseteq Tasks
                          /\ r.barriers \in Nat
                          /\ r.cancellable \in BOOLEAN

VARIABLES
    region,         \* the region this team executes
    \* gomp_barrier_t
    generation,     \* [n: counter, pending, waiting, cancelled: flag bits]
    awaited, awaited_final,
    \* gomp_team
    task_lock,      \* holder between two steps of one critical section
    task_count, task_queued_count, task_running_count,
    work_share_cancelled, team_cancelled,
    \* explicit tasks
    status,         \* status[x] \in Statuses
    by,             \* by[x]: the thread that runs x
    \* threads
    pc,
    phase,          \* phase[t]: explicit barriers t has behind it
    state,          \* state[t]: gomp_barrier_state_t, [n, cancelled, last]
    wbit,           \* WAITING_FOR_TASK as accumulated in local generation
    btask,          \* child_task of gomp_barrier_handle_tasks
    do_wake         \* do_wake[t]: sleepers t still has to wake

barVars  == <<generation, awaited, awaited_final>>
teamVars == <<task_count, task_queued_count, task_running_count>>
regionVars == <<region, work_share_cancelled, team_cancelled>>
taskVars == <<status, by>>
threadVars == <<phase, state, wbit>>
vars == <<barVars, task_lock, teamVars, regionVars, taskVars, pc, threadVars,
          btask, do_wake>>

Statuses == {"none", "blocked", "queued", "running", "done"}

PCs == {"user", "cancel", "cancelwake", "arrive", "last", "complete",
        "wakeall", "dowait", "asleep", "load", "handle", "top", "finish",
        "cancelled", "donereturn", "donewake", "relock", "post", "reload", "gone"}

nthreads == Cardinality(region.team)
-----------------------------------------------------------------------------
(* Operators on the barrier word and on the program position.              *)

Goto(t, l) == pc' = [pc EXCEPT ![t] = l]

Word(n) == [n |-> n, pending |-> FALSE, waiting |-> FALSE, cancelled |-> FALSE]

\* Behind the explicit barriers the final one follows.  A thread that was told
\* of the cancellation skips all code up to the end of the region.
Final(t) == phase[t] >= region.barriers

Skips(t) == phase[t] > region.barriers

\* In a region with cancel constructs the compiler calls GOMP_barrier_cancel.
CancelKind(t) == region.cancellable /\ ~Final(t)

\* The value the local variable "generation" of wait_end expects in the word.
Expected(t) == [Word(state[t].n) EXCEPT !.waiting = wbit[t],
                                        !.cancelled = state[t].cancelled]

\* Return from the barrier into the next part of the region, or out of it.
Leave(t) ==
    /\ phase' = [phase EXCEPT ![t] = @ + 1]
    /\ Goto(t, IF Final(t) THEN "gone" ELSE "user")

\* A cancel construct or a barrier returned true: the thread goes to the region's end.
JumpToEnd(t) == phase' = [phase EXCEPT ![t] = region.barriers + 1] /\ Goto(t, "user")

\* futex_wake (&bar->generation, k): any k of the sleepers run again.
Sleepers == {s \in Threads : pc[s] = "asleep"}

WakeUp(W, t, l) == pc' = [s \in Threads |-> IF s = t THEN l
                                            ELSE IF s \in W THEN "load" ELSE pc[s]]

WakeSome(k, t, l) ==
    \E W \in SUBSET Sleepers :
        /\ Cardinality(W) = IF k < Cardinality(Sleepers) THEN k
                            ELSE Cardinality(Sleepers)
        /\ WakeUp(W, t, l)

\* mutant: the count 0 of gomp_team_barrier_wake taken for "one"
WakeAllWakesOne(t, l) == WakeSome(1, t, l)

WakeAll(t, l) == WakeUp(Sleepers, t, l)
-----------------------------------------------------------------------------
Init ==
    /\ region \in Regions
    /\ generation = Word(0)
    /\ awaited = nthreads
    /\ awaited_final = nthreads
    /\ task_lock = None
    /\ task_count = 0 /\ task_queued_count = 0 /\ task_running_count = 0
    /\ work_share_cancelled = FALSE /\ team_cancelled = FALSE
    /\ status = [x \in Tasks |-> "none"]
    /\ by = [x \in Tasks |-> None]
    /\ pc = [t \in Threads |-> IF t \in region.team THEN "user" ELSE "gone"]
    /\ phase = [t \in Threads |-> 0]
    /\ state = [t \in Threads |-> [n |-> 0, cancelled |-> FALSE, last |-> FALSE]]
    /\ wbit = [t \in Threads |-> FALSE]
    /\ btask = [t \in Threads |-> None]
    /\ do_wake = [t \in Threads |-> 0]

-----------------------------------------------------------------------------
(* Arriving at a barrier.                                                  *)

Executing(t) == {x \in Tasks : status[x] = "running" /\ by[x] = t}

InUserCode(t) == pc[t] = "user" /\ do_wake[t] = 0 /\ task_lock # t

InImplicitTask(t) == InUserCode(t) /\ Executing(t) = {}

\* gomp_barrier_wait_start, gomp_barrier_wait_final_start: load the word and
\* keep its counter and its cancelled flag.
LoadState(t) ==
    /\ InImplicitTask(t)
    /\ state' = [state EXCEPT ![t] = [n |-> generation.n,
                                      cancelled |-> generation.cancelled,
                                      last |-> FALSE]]
    /\ wbit' = [wbit EXCEPT ![t] = FALSE]
    /\ Goto(t, "arrive")
    /\ UNCHANGED <<barVars, task_lock, teamVars, regionVars, taskVars, phase,
                   btask, do_wake>>

\* The decrement of awaited or awaited_final; the thread that brings it to 0
\* is the last one.  A cancellable barrier entered cancelled returns true.
Arrive(t) ==
    /\ pc[t] = "arrive"
    /\ LET left == IF Final(t) THEN awaited_final - 1 ELSE awaited - 1
       IN /\ IF Final(t) THEN awaited_final' = left /\ UNCHANGED awaited
                         ELSE awaited' = left /\ UNCHANGED awaited_final
          /\ state' = [state EXCEPT ![t].last = (left = 0)]
          /\ IF left = 0
             THEN Goto(t, "last") /\ UNCHANGED phase
             ELSE IF CancelKind(t) /\ state[t].cancelled
             THEN JumpToEnd(t)
             ELSE Goto(t, "dowait") /\ UNCHANGED phase
    /\ UNCHANGED <<generation, task_lock, teamVars, regionVars, taskVars, wbit,
                   btask, do_wake>>

\* "Next time we'll be awaiting TOTAL threads again."
AwaitAgain(t) ==
    /\ awaited' = nthreads
    /\ awaited_final' = IF Final(t) THEN nthreads ELSE awaited_final

ForgetCancelledLoop == work_share_cancelled' = FALSE

TasksLeft == task_count # 0

\* wait_end of the last thread; it looks for tasks without the lock.
LastThread(t) ==
    /\ pc[t] = "last"
    /\ AwaitAgain(t)
    /\ ForgetCancelledLoop
    /\ Goto(t, IF TasksLeft THEN "handle" ELSE "complete")
    /\ UNCHANGED <<region, generation, task_lock, teamVars, team_cancelled,
                   taskVars, threadVars, btask, do_wake>>

\* No tasks: publish the next generation.
Complete(t) ==
    /\ pc[t] = "complete"
    /\ generation' = [Word(state[t].n + 1) EXCEPT
                        !.cancelled = CancelKind(t) /\ state[t].cancelled]
    /\ Goto(t, "wakeall")
    /\ UNCHANGED <<awaited, awaited_final, task_lock, teamVars, regionVars,
                   taskVars, threadVars, btask, do_wake>>

WakeAndLeave(t) ==
    /\ pc[t] = "wakeall"
    /\ phase' = [phase EXCEPT ![t] = @ + 1]
    /\ WakeAll(t, IF Final(t) THEN "gone" ELSE "user")
    /\ UNCHANGED <<barVars, task_lock, teamVars, regionVars, taskVars, state,
                   wbit, btask, do_wake>>
-----------------------------------------------------------------------------
(* Waiting in a barrier.                                                   *)

\* do_wait: sleep only if the word still has the expected value; spinning
\* ends with the same test.
DoWait(t) ==
    /\ pc[t] = "dowait"
    /\ Goto(t, IF generation = Expected(t) THEN "asleep" ELSE "load")
    /\ UNCHANGED <<barVars, task_lock, teamVars, regionVars, taskVars,
                   threadVars, btask, do_wake>>

\* futex_wait may return early (EINTR); nobody looks at its result.
Interrupted(t) ==
    /\ pc[t] = "asleep"
    /\ Goto(t, "load")
    /\ UNCHANGED <<barVars, task_lock, teamVars, regionVars, taskVars,
                   threadVars, btask, do_wake>>

\* The end of the loop body: remember WAITING_FOR_TASK, leave if the barrier
\* has completed.  The test compares the whole word, flags included.
LoopTest(t) ==
    IF generation = Word(state[t].n + 1)
    THEN Leave(t) /\ UNCHANGED wbit
    ELSE /\ wbit' = [wbit EXCEPT ![t] = @ \/ generation.waiting]
         /\ Goto(t, "dowait")
         /\ UNCHANGED phase

\* The load of the word after do_wait.
Load(t) ==
    /\ pc[t] = "load"
    /\ IF CancelKind(t) /\ generation.cancelled
       THEN JumpToEnd(t) /\ UNCHANGED wbit
       ELSE IF generation.pending
       THEN Goto(t, "handle") /\ UNCHANGED <<phase, wbit>>
       ELSE LoopTest(t)
    /\ UNCHANGED <<barVars, task_lock, teamVars, regionVars, taskVars, state,
                   btask, do_wake>>

\* The second load, after gomp_barrier_handle_tasks.
Reload(t) ==
    /\ pc[t] = "reload"
    /\ LoopTest(t)
    /\ UNCHANGED <<barVars, task_lock, teamVars, regionVars, taskVars, state,
                   btask, do_wake>>
-----------------------------------------------------------------------------
(* gomp_barrier_handle_tasks.                                              *)

\* gomp_team_barrier_done
BarrierDone(t) == generation' = Word(state[t].n + 1)

\* gomp_team_barrier_set_waiting_for_tasks, by the last thread
SetWaitingForTasks(t) ==
    generation' = [generation EXCEPT !.waiting = @ \/ state[t].last]

HandleTasks(t) ==
    /\ pc[t] = "handle"
    /\ task_lock = None
    /\ IF state[t].last /\ task_count = 0
       THEN BarrierDone(t) /\ Goto(t, "donereturn") /\ UNCHANGED task_lock
       ELSE /\ SetWaitingForTasks(t)
            /\ task_lock' = t
            /\ Goto(t, "top")
    /\ UNCHANGED <<awaited, awaited_final, teamVars, regionVars, taskVars,
                   threadVars, btask, do_wake>>

\* gomp_task_run_pre takes x off the queue for t.
TakeOffUncounted(t, x) ==   \* mutant: task_queued_count is not decremented
    /\ status' = [status EXCEPT ![x] = "running"]
    /\ by' = [by EXCEPT ![x] = t]
    /\ UNCHANGED <<task_queued_count, generation>>

TakeOff(t, x) ==
    /\ status' = [status EXCEPT ![x] = "running"]
    /\ by' = [by EXCEPT ![x] = t]
    /\ task_queued_count' = task_queued_count - 1
    /\ generation' = [generation EXCEPT
                        !.pending = @ /\ task_queued_count' # 0]

\* Where the code goes once it has unlocked: first the wake-ups it owes.
AfterUnlock(t, l) == IF do_wake[t] > 0 THEN "post" ELSE l

\* The return of gomp_barrier_handle_tasks to wait_end, which clears WAS_LAST.
HandleReturn(t) == IF state[t].last THEN "dowait" ELSE "reload"

\* Top of the loop, lock held: run a queued task, finish a cancelled one at
\* once, or return.
LoopTop(t) ==
    /\ pc[t] = "top"
    /\ \/ \E x \in Tasks :
            /\ status[x] = "queued"
            /\ TakeOff(t, x)
            /\ btask' = [btask EXCEPT ![t] = x]
            /\ \/ /\ task_running_count' = task_running_count + 1
                  /\ task_lock' = None
                  /\ Goto(t, AfterUnlock(t, "user"))
               \/ /\ Goto(t, "cancelled")
                  /\ UNCHANGED <<task_running_count, task_lock>>
            /\ UNCHANGED state
       \/ /\ \A x \in Tasks : status[x] # "queued"
          /\ task_lock' = None
          /\ Goto(t, AfterUnlock(t, HandleReturn(t)))
          /\ state' = [state EXCEPT ![t].last = @ /\ do_wake[t] > 0]
          /\ UNCHANGED <<generation, task_queued_count, task_running_count,
                         taskVars, btask>>
    /\ UNCHANGED <<awaited, awaited_final, task_count, regionVars, phase, wbit,
                   do_wake>>

\* gomp_team_barrier_wake (&team->barrier, do_wake), outside the lock.
PostWake(t) ==
    /\ pc[t] = "post"
    /\ WakeSome(do_wake[t], t, IF btask[t] # None THEN "user" ELSE HandleReturn(t))
    /\ do_wake' = [do_wake EXCEPT ![t] = 0]
    /\ state' = [state EXCEPT ![t].last = @ /\ btask[t] # None]
    /\ UNCHANGED <<barVars, task_lock, teamVars, regionVars, taskVars, phase,
                   wbit, btask>>

\* The bookkeeping every scheduling loop does for a finished task x whose end
\* releases the blocked tasks R.  Dependences are acyclic: as long as tasks
\* are blocked, one that is not is still counted.
FinishTask(x, R) ==
    /\ R \subseteq {y \in Tasks : status[y] = "blocked"}
    /\ status' = [y \in Tasks |-> IF y = x THEN "done"
                                  ELSE IF y \in R THEN "queued" ELSE status[y]]
    /\ by' = [by EXCEPT ![x] = None]
    /\ task_count' = task_count + Cardinality(R) - 1
    /\ task_queued_count' = task_queued_count + Cardinality(R)
    /\ task_count' = 0 => \A y \in Tasks : status'[y] # "blocked"

PendingAfter(R) == generation.pending \/ Cardinality(R) > 1

\* How many sleepers to wake for n released tasks.  The comparison with a
\* size_t is unsigned: a negative number of idle threads counts as large.
ToWake(idle, n) == IF 0 <= idle /\ idle < n THEN idle ELSE n

\* child_task->fn has returned: lock again.
TaskEnd(t) ==
    /\ InUserCode(t) /\ btask[t] # None /\ Executing(t) = {btask[t]}
    /\ task_lock = None
    /\ task_lock' = t
    /\ Goto(t, "finish")
    /\ UNCHANGED <<barVars, teamVars, regionVars, taskVars, threadVars, btask,
                   do_wake>>

\* A cancelled task was not counted as running.
RunningAfter(t) == IF pc[t] = "cancelled" THEN task_running_count
                                          ELSE task_running_count - 1

\* mutant: the last task completes the barrier whoever is missing
LastTaskDoneAnyhow == task_count' = 0

LastTaskDone == task_count' = 0 /\ generation.waiting

\* The end of the loop body for child_task, which has run ("finish") or was
\* found cancelled by gomp_task_run_pre.
BarrierFinish(t) ==
    /\ pc[t] \in {"finish", "cancelled"}
    /\ task_running_count' = RunningAfter(t)
    /\ \E R \in SUBSET Tasks :
          /\ FinishTask(btask[t], R)
          /\ do_wake' = [do_wake EXCEPT ![t] =
                IF Cardinality(R) > 1
                THEN ToWake(nthreads - task_running_count', Cardinality(R))
                ELSE @]
          /\ IF LastTaskDone
             THEN BarrierDone(t) /\ task_lock' = None /\ Goto(t, "donewake")
             ELSE /\ generation' = [generation EXCEPT !.pending = PendingAfter(R)]
                  /\ UNCHANGED task_lock
                  /\ Goto(t, "top")
    /\ btask' = [btask EXCEPT ![t] = None]
    /\ UNCHANGED <<awaited, awaited_final, regionVars, threadVars>>

\* gomp_team_barrier_wake (&team->barrier, 0) after gomp_team_barrier_done:
\* the last thread returns, a thread that finished the last task relocks.
DoneWake(t) ==
    /\ \/ pc[t] = "donereturn" /\ WakeAll(t, "dowait")
             /\ state' = [state EXCEPT ![t].last = FALSE]
       \/ pc[t] = "donewake" /\ WakeAll(t, "relock") /\ UNCHANGED state
    /\ UNCHANGED <<barVars, task_lock, teamVars, regionVars, taskVars, phase,
                   wbit, btask, do_wake>>

Relock(t) ==
    /\ pc[t] = "relock" /\ task_lock = None
    /\ task_lock' = t
    /\ Goto(t, "top")
    /\ UNCHANGED <<barVars, teamVars, regionVars, taskVars, threadVars, btask,
                   do_wake>>
-----------------------------------------------------------------------------
(* What user code does between barriers and inside tasks.                  *)

\* GOMP_task, deferred: the new task is queued and, unless enough threads run
\* tasks already, one sleeper is owed a wake-up; or it has to wait for
\* earlier siblings and is neither counted nor queued yet.
CreateTask(t, x) ==
    /\ InUserCode(t) /\ task_lock = None
    /\ Executing(t) # {} \/ ~Skips(t)
    /\ x \in region.tasks /\ status[x] = "none"
    /\ \/ /\ status' = [status EXCEPT ![x] = "queued"]
          /\ task_count' = task_count + 1
          /\ task_queued_count' = task_queued_count + 1
          /\ generation' = [generation EXCEPT !.pending = TRUE]
          /\ \E k \in {0, 1} : do_wake' = [do_wake EXCEPT ![t] = k]
       \/ /\ task_count > 0
          /\ status' = [status EXCEPT ![x] = "blocked"]
          /\ UNCHANGED <<task_count, task_queued_count, generation, do_wake>>
    /\ UNCHANGED <<awaited, awaited_final, task_lock, task_running_count,
                   regionVars, by, pc, threadVars, btask>>

\* GOMP_taskwait and GOMP_taskgroup_end work under the lock.  They start a
\* queued task and unlock, or find it cancelled and keep the lock, ...
WaitLock(t) ==
    /\ InUserCode(t) /\ task_lock = None
    /\ task_lock' = t
    /\ UNCHANGED <<barVars, teamVars, regionVars, taskVars, pc, threadVars,
                   btask, do_wake>>

WaitTake(t) ==
    /\ pc[t] = "user" /\ task_lock = t
    /\ \E x \in Tasks : status[x] = "queued" /\ TakeOff(t, x)
    /\ task_lock' \in {None, t}
    /\ UNCHANGED <<awaited, awaited_final, task_count, task_running_count,
                   regionVars, pc, threadVars, btask, do_wake>>

\* ... finish it, without a look at WAITING_FOR_TASK: the task that waits is
\* itself unfinished, ...
WaitFinish(t) ==
    /\ pc[t] = "user" /\ task_lock = t
    /\ \E x \in Executing(t) \ {btask[t]}, R \in SUBSET Tasks :
          /\ FinishTask(x, R)
          /\ generation' = [generation EXCEPT !.pending = PendingAfter(R)]
          /\ \E tied \in {0, 1} :
                LET idle == nthreads - task_running_count - tied
                IN do_wake' = [do_wake EXCEPT ![t] =
                       IF Cardinality(R) > 1
                       THEN ToWake(idle, Cardinality(R)) ELSE @]
    /\ UNCHANGED <<awaited, awaited_final, task_lock, task_running_count,
                   regionVars, pc, threadVars, btask>>

\* ... and unlock: to sleep until other threads are done, or to return, and
\* then without the wake-ups still owed.
WaitUnlock(t) ==
    /\ pc[t] = "user" /\ task_lock = t
    /\ task_lock' = None
    /\ \E k \in {0, do_wake[t]} : do_wake' = [do_wake EXCEPT ![t] = k]
    /\ UNCHANGED <<barVars, teamVars, regionVars, taskVars, pc, threadVars, btask>>

\* The wake-ups owed by GOMP_task, GOMP_taskwait and GOMP_taskgroup_end.
UserWake(t) ==
    /\ pc[t] = "user" /\ do_wake[t] > 0 /\ task_lock # t
    /\ WakeSome(do_wake[t], t, "user")
    /\ do_wake' = [do_wake EXCEPT ![t] = 0]
    /\ UNCHANGED <<barVars, task_lock, teamVars, regionVars, taskVars,
                   threadVars, btask>>

\* GOMP_cancel (GOMP_CANCEL_LOOP): the loop's barrier comes next.
CancelLoop(t) ==
    /\ region.cancellable /\ InImplicitTask(t) /\ ~Final(t)
    /\ work_share_cancelled' = TRUE
    /\ UNCHANGED <<region, barVars, task_lock, teamVars, team_cancelled,
                   taskVars, pc, threadVars, btask, do_wake>>

\* GOMP_cancel (GOMP_CANCEL_PARALLEL) ...
CancelTeam(t) ==
    /\ region.cancellable /\ InImplicitTask(t) /\ ~Skips(t)
    /\ team_cancelled' = TRUE
    /\ Goto(t, "cancel")
    /\ UNCHANGED <<region, barVars, task_lock, teamVars, work_share_cancelled,
                   taskVars, threadVars, btask, do_wake>>

FirstCancel == ~generation.cancelled

\* ... and gomp_team_barrier_cancel, under the lock ...
BarrierCancel(t) ==
    /\ pc[t] = "cancel" /\ task_lock = None
    /\ generation' = [generation EXCEPT !.cancelled = TRUE]
    /\ IF FirstCancel
       THEN Goto(t, "cancelwake") /\ UNCHANGED phase
       ELSE JumpToEnd(t)
    /\ UNCHANGED <<awaited, awaited_final, task_lock, teamVars, regionVars,
                   taskVars, state, wbit, btask, do_wake>>

\* ... with its futex_wake after the unlock.
CancelWake(t) ==
    /\ pc[t] = "cancelwake"
    /\ WakeAll(t, "user")
    /\ phase' = [phase EXCEPT ![t] = region.barriers + 1]
    /\ UNCHANGED <<barVars, task_lock, teamVars, regionVars, taskVars, state,
                   wbit, btask, do_wake>>

\* GOMP_cancellation_point returned true.
CancellationPoint(t) ==
    /\ InImplicitTask(t) /\ ~Skips(t) /\ generation.cancelled
    /\ JumpToEnd(t)
    /\ UNCHANGED <<barVars, task_lock, teamVars, regionVars, taskVars, state,
                   wbit, btask, do_wake>>
-----------------------------------------------------------------------------
\* Steps the runtime takes by itself.
Step(t) ==
    \/ Arrive(t) \/ LastThread(t) \/ Complete(t) \/ WakeAndLeave(t)
    \/ DoWait(t) \/ Load(t) \/ Reload(t) \/ HandleTasks(t) \/ LoopTop(t)
    \/ PostWake(t) \/ BarrierFinish(t) \/ DoneWake(t) \/ Relock(t)
    \/ UserWake(t) \/ WaitUnlock(t) \/ BarrierCancel(t) \/ CancelWake(t)

\* Steps that end a stretch of user code.
Ending(t) == LoadState(t) \/ TaskEnd(t) \/ WaitFinish(t)

\* The lock a thread takes when a task it started in a taskwait returns.
LockAfterTask(t) == Executing(t) \ {btask[t]} # {} /\ WaitLock(t)

\* Steps nobody has to take.
Choice(t) ==
    \/ Interrupted(t) \/ WaitLock(t) \/ WaitTake(t) \/ CancelLoop(t)
    \/ CancelTeam(t) \/ CancellationPoint(t)
    \/ \E x \in Tasks : CreateTask(t, x)

Next == \E t \in Threads : Step(t) \/ Ending(t) \/ Choice(t)

Spec == Init /\ [][Next]_vars

(* A thread that can run is eventually run.  User code, which may pass any *)
(* number of taskwaits and contend for the lock, comes to an end: strong   *)
(* fairness.  Nobody must create, cancel or take a task in a taskwait, and *)
(* no signal has to arrive.                                                *)
FairSpec ==
    /\ Spec
    /\ \A t \in Threads : /\ WF_vars(Step(t)) /\ SF_vars(Ending(t))
                         /\ SF_vars(LockAfterTask(t))
-----------------------------------------------------------------------------
TypeOK ==
    /\ region \in Regions
    /\ generation \in [n : Nat, pending : BOOLEAN, waiting : BOOLEAN,
                       cancelled : BOOLEAN]
    /\ awaited \in 0..nthreads /\ awaited_final \in 0..nthreads
    /\ task_lock \in Threads \cup {None}
    /\ task_count \in Nat /\ task_queued_count \in Nat
    /\ task_running_count \in Nat
    /\ work_share_cancelled \in BOOLEAN /\ team_cancelled \in BOOLEAN
    /\ status \in [Tasks -> Statuses]
    /\ by \in [Tasks -> Threads \cup {None}]
    /\ pc \in [Threads -> PCs]
    /\ phase \in [Threads -> Nat]
    /\ state \in [Threads -> [n : Nat, cancelled : BOOLEAN, last : BOOLEAN]]
    /\ wbit \in [Threads -> BOOLEAN]
    /\ btask \in [Threads -> Tasks \cup {None}]
    /\ do_wake \in [Threads -> Nat]

\* The threads between gomp_barrier_wait_start's decrement and the return.
InBarrier(t) == btask[t] # None \/ pc[t] \notin {"user", "cancel", "cancelwake",
                                                "arrive", "gone"}

\* A barrier completes once: all threads of the team are in it, in the same
\* one, and every task created before is finished, blocked ones included.
\* No thread leaves a barrier while another may still run code before it, and
\* none enters the next loop before the cancellation of the last is forgotten.
BarrierCompletes ==
    [][generation'.n # generation.n =>
          /\ generation'.n = generation.n + 1
          /\ \A t \in region.team : /\ InBarrier(t) /\ InBarrier(t)'
                                     /\ state[t].n = generation.n
          /\ \A s, t \in region.team : Final(s) => Final(t)
          /\ \A x \in Tasks : status'[x] \in {"none", "done"}
          /\ ~work_share_cancelled']_vars

\* The counters of struct gomp_team follow the tasks through every loop,
\* cancelled tasks and released ones included.
CountersAgree ==
    /\ task_count = Cardinality({x \in Tasks : status[x] \in {"queued", "running"}})
    /\ task_queued_count = Cardinality({x \in Tasks : status[x] = "queued"})
    /\ task_running_count =
           Cardinality({t \in Threads : btask[t] # None /\ pc[t] # "cancelled"})

\* A thread sleeping on the word of a completed barrier, or in a cancellable
\* barrier of a cancelled team, has a wake-up of all sleepers coming.
NoLostWakeup ==
    \A t \in Threads : pc[t] = "asleep" =>
        /\ generation.n # state[t].n =>
               \E s \in Threads : pc[s] \in {"wakeall", "donereturn", "donewake"}
        /\ CancelKind(t) /\ generation.cancelled =>
               \E s \in Threads : pc[s] = "cancelwake"

\* "BAR_CANCELLED should never be set in state here, because cancellation
\* means that at least one of the threads has been cancelled, thus on a
\* cancellable barrier we should never see all threads to arrive" (bar.c).
LastSeesNoCancel ==
    \A t \in Threads : pc[t] \in {"last", "complete"} /\ CancelKind(t) =>
        ~state[t].cancelled /\ ~generation.cancelled

\* What the last thread decides by is true: counters that it reads without the
\* lock agree with the tasks whoever finishes or cancels them, and no cancellation
\* of this barrier is on its way.
LastThreadKnows == CountersAgree /\ LastSeesNoCancel

\* The region ends for every thread, with all its tasks.
RegionEnds == \A t \in Threads : <>(pc[t] = "gone")
=============================================================================
