--------------------------- MODULE TeamTasksProofs --------------------------
(***************************************************************************)
(* Explicit tasks with their lists, groups and dependences implement the   *)
(* team barrier's view of them, so that what is proved of the barrier      *)
(* holds in task.c.  With the barrier's invariant the lists, the hash      *)
(* tables, the counters of the groups and the stacks of the threads have   *)
(* one of their own, TasksInv, from which it follows that no task is       *)
(* forgotten, none overtakes one it depends on, and none is missed by a    *)
(* taskwait or a taskgroup.  The order of the lists, SleepInv, says who    *)
(* may sleep in a taskwait.                                                *)
(***************************************************************************)
EXTENDS TaskListProofs

TBP == INSTANCE TeamBarrierProofs

LEMMA StartIsBarriers == Init => TB!Init
BY DEF Init

(* The task that GOMP_task defers is one of the region's.                  *)
LEMMA DeferIsBarriers ==
  ASSUME region \in Regions, NEW t \in Threads, Defer(t)
  PROVE  \/ \E x \in Tasks : TB!CreateTask(t, x)
         \/ UNCHANGED tbVars
<1>1. CASE UNCHANGED tbVars
  BY <1>1
<1>2. CASE TB!CreateTask(t, new[t])
  <2>1. new[t] \in region.tasks
    BY <1>2 DEF TB!CreateTask
  <2>2. new[t] \in Tasks
    BY <2>1, TasksAssumption
  <2> QED BY <1>2, <2>2
<1> QED BY <1>1, <1>2, Zenon DEF Defer

(* The three loops that run tasks: taskwait, taskgroup and barrier.        *)
LEMMA WaitsAreBarriers ==
  ASSUME NEW t \in Threads,
         \/ Taskwait(t) \/ TaskwaitLoop(t) \/ TaskwaitWake(t)
         \/ TaskgroupEnd(t) \/ TaskgroupLoop(t) \/ TaskgroupWake(t)
  PROVE  \/ TB!WaitLock(t) \/ TB!WaitTake(t) \/ TB!WaitUnlock(t)
         \/ UNCHANGED tbVars
BY Zenon DEF Taskwait, TaskwaitLoop, TaskwaitWake, TaskgroupEnd, TaskgroupLoop,
             TaskgroupWake, StartTask

LEMMA EndsAreBarriers ==
  ASSUME NEW t \in Threads,
         TaskReturn(t) \/ Finish1(t) \/ Finish2(t) \/ Finish3(t) \/ InlineEnd(t)
  PROVE  \/ TB!TaskEnd(t) \/ TB!WaitLock(t)
         \/ TB!BarrierFinish(t) \/ TB!WaitFinish(t)
         \/ UNCHANGED tbVars
BY Zenon DEF TaskReturn, Finish1, Finish2, Finish3, InlineEnd

LEMMA BarriersAreBarriers ==
  ASSUME NEW t \in Threads,
         \/ BarrierStep(t) \/ BarrierLoop(t) \/ EnterBarrier(t)
         \/ Cancellation(t) \/ Interrupted(t)
  PROVE  TB!Step(t) \/ TB!Ending(t) \/ TB!Choice(t)
BY Zenon DEF BarrierStep, BarrierLoop, EnterBarrier, Cancellation, Interrupted,
             TB!Step, TB!Ending, TB!Choice

LEMMA StepIsBarriers ==
  ASSUME region \in Regions, NEW t \in Threads,
         RuntimeStep(t) \/ Ending(t) \/ Choice(t)
  PROVE  (TB!Step(t) \/ TB!Ending(t) \/ TB!Choice(t)) \/ UNCHANGED tbVars
<1>1. CASE Defer(t)
  BY <1>1, DeferIsBarriers, Zenon DEF TB!Choice
<1>2. CASE \/ Taskwait(t) \/ TaskwaitLoop(t) \/ TaskwaitWake(t)
           \/ TaskgroupEnd(t) \/ TaskgroupLoop(t) \/ TaskgroupWake(t)
  BY <1>2, WaitsAreBarriers, Zenon DEF TB!Step, TB!Choice
<1>3. CASE TaskReturn(t) \/ Finish1(t) \/ Finish2(t) \/ Finish3(t) \/ InlineEnd(t)
  BY <1>3, EndsAreBarriers, Zenon DEF TB!Step, TB!Ending, TB!Choice
<1>4. CASE \/ BarrierStep(t) \/ BarrierLoop(t) \/ EnterBarrier(t)
           \/ Cancellation(t) \/ Interrupted(t)
  BY <1>4, BarriersAreBarriers, Zenon
<1>5. CASE GompTask(t) \/ TaskgroupStart(t) \/ CancelTaskgroup(t)
  BY <1>5, Zenon DEF GompTask, TaskgroupStart, CancelTaskgroup
<1> QED BY <1>1, <1>2, <1>3, <1>4, <1>5, Zenon DEF RuntimeStep, Ending, Choice

LEMMA NextIsBarriers == region \in Regions /\ [Next]_vars => [TB!Next]_(TB!vars)
<1> SUFFICES ASSUME region \in Regions, [Next]_vars PROVE [TB!Next]_(TB!vars)
  OBVIOUS
<1>1. CASE UNCHANGED tbVars
  BY <1>1 DEF tbVars, TB!vars, TB!barVars, TB!teamVars, TB!regionVars,
              TB!taskVars, TB!threadVars
<1>2. CASE \E t \in Threads : TB!Step(t) \/ TB!Ending(t) \/ TB!Choice(t)
  BY <1>2 DEF TB!Next
<1> QED BY <1>1, <1>2, StepIsBarriers, Zenon DEF Next, vars

LEMMA RegionStays == region \in Regions /\ [TB!Next]_(TB!vars) => region' = region
<1> USE DEF TB!regionVars
<1> SUFFICES ASSUME region \in Regions, [TB!Next]_(TB!vars) PROVE region' = region
  OBVIOUS
<1>1. CASE UNCHANGED TB!vars
  BY <1>1 DEF TB!vars
<1>2. ASSUME NEW t \in Threads, TB!Step(t) PROVE region' = region
  BY <1>2, Zenon DEF TB!Step, TB!Arrive, TB!LastThread, TB!Complete, TB!WakeAndLeave,
     TB!DoWait, TB!Load, TB!Reload, TB!HandleTasks, TB!LoopTop, TB!PostWake,
     TB!BarrierFinish, TB!DoneWake, TB!Relock, TB!UserWake, TB!WaitUnlock,
     TB!BarrierCancel, TB!CancelWake
<1>3. ASSUME NEW t \in Threads, TB!Ending(t) \/ TB!Choice(t) PROVE region' = region
  BY <1>3, Zenon DEF TB!Ending, TB!Choice, TB!LoadState, TB!TaskEnd, TB!WaitFinish,
     TB!Interrupted, TB!WaitLock, TB!WaitTake, TB!CancelLoop, TB!CancelTeam,
     TB!CancellationPoint, TB!CreateTask
<1> QED BY <1>1, <1>2, <1>3 DEF TB!Next

(* TeamTasks is put together from steps of TeamBarrier: every step of it   *)
(* is one of TeamBarrier or leaves the words, counters and threads of the  *)
(* barrier as they are, and so keeps the barrier's invariant.              *)
LEMMA TasksImplementBarrier == Spec => TB!Spec
<1>1. Init => region \in Regions
  BY DEF Init, TB!Init
<1>2. region \in Regions /\ [Next]_vars => (region \in Regions)'
  BY NextIsBarriers, RegionStays
<1>3. Spec => [](region \in Regions)
  BY <1>1, <1>2, PTL DEF Spec
<1> QED BY <1>3, StartIsBarriers, NextIsBarriers, PTL DEF Spec, TB!Spec
-----------------------------------------------------------------------------
(* TeamBarrier as TeamTasks and as its proofs instantiate it is the same   *)
(* specification: all definitions expanded, there is no difference left.   *)

LEMMA SameSpec == TB!Spec <=> TBP!Spec
BY PTL DEF TB!Spec, TBP!Spec, TB!Init, TBP!Init, TB!Next, TBP!Next, TB!vars,
           TBP!vars, TB!barVars, TBP!barVars, TB!teamVars, TBP!teamVars,
           TB!regionVars, TBP!regionVars, TB!taskVars, TBP!taskVars, TB!threadVars,
           TBP!threadVars, TB!Step, TBP!Step, TB!Ending, TBP!Ending, TB!Choice,
           TBP!Choice, TB!Interrupted, TBP!Interrupted, TB!WaitLock, TBP!WaitLock,
           TB!WaitTake, TBP!WaitTake, TB!CancelLoop, TBP!CancelLoop, TB!CancelTeam,
           TBP!CancelTeam, TB!CancellationPoint, TBP!CancellationPoint,
           TB!CreateTask, TBP!CreateTask, TB!InUserCode, TBP!InUserCode,
           TB!Executing, TBP!Executing, TB!Skips, TBP!Skips, TB!InImplicitTask,
           TBP!InImplicitTask, TB!JumpToEnd, TBP!JumpToEnd, TB!Goto, TBP!Goto,
           TB!Final, TBP!Final, TB!TakeOff, TBP!TakeOff, TB!LoadState,
           TBP!LoadState, TB!TaskEnd, TBP!TaskEnd, TB!WaitFinish, TBP!WaitFinish,
           TB!FinishTask, TBP!FinishTask, TB!PendingAfter, TBP!PendingAfter,
           TB!nthreads, TBP!nthreads, TB!Cardinality, TBP!Cardinality, TB!ToWake,
           TBP!ToWake, TB!Arrive, TBP!Arrive, TB!LastThread, TBP!LastThread,
           TB!Complete, TBP!Complete, TB!WakeAndLeave, TBP!WakeAndLeave, TB!DoWait,
           TBP!DoWait, TB!Load, TBP!Load, TB!Reload, TBP!Reload, TB!HandleTasks,
           TBP!HandleTasks, TB!LoopTop, TBP!LoopTop, TB!PostWake, TBP!PostWake,
           TB!BarrierFinish, TBP!BarrierFinish, TB!DoneWake, TBP!DoneWake,
           TB!Relock, TBP!Relock, TB!UserWake, TBP!UserWake, TB!WaitUnlock,
           TBP!WaitUnlock, TB!BarrierCancel, TBP!BarrierCancel, TB!CancelWake,
           TBP!CancelWake, TB!WakeAll, TBP!WakeAll, TB!WakeUp, TBP!WakeUp,
           TB!Sleepers, TBP!Sleepers, TB!FirstCancel, TBP!FirstCancel, TB!WakeSome,
           TBP!WakeSome, TB!RunningAfter, TBP!RunningAfter, TB!LastTaskDone,
           TBP!LastTaskDone, TB!BarrierDone, TBP!BarrierDone, TB!Word, TBP!Word,
           TB!HandleReturn, TBP!HandleReturn, TB!AfterUnlock, TBP!AfterUnlock,
           TB!SetWaitingForTasks, TBP!SetWaitingForTasks, TB!LoopTest,
           TBP!LoopTest, TB!Leave, TBP!Leave, TB!CancelKind, TBP!CancelKind,
           TB!Expected, TBP!Expected, TB!AwaitAgain, TBP!AwaitAgain,
           TB!ForgetCancelledLoop, TBP!ForgetCancelledLoop, TB!TasksLeft,
           TBP!TasksLeft

LEMMA SameCompletion == TB!BarrierCompletes <=> TBP!BarrierCompletes
BY PTL DEF TB!BarrierCompletes, TBP!BarrierCompletes, TB!InBarrier, TBP!InBarrier,
           TB!Final, TBP!Final, TB!vars, TBP!vars, TB!barVars, TBP!barVars,
           TB!teamVars, TBP!teamVars, TB!regionVars, TBP!regionVars, TB!taskVars,
           TBP!taskVars, TB!threadVars, TBP!threadVars

LEMMA SameKnowledge == TB!LastThreadKnows <=> TBP!LastThreadKnows
BY DEF TB!LastThreadKnows, TBP!LastThreadKnows, TB!CountersAgree,
       TBP!CountersAgree, TB!LastSeesNoCancel, TBP!LastSeesNoCancel,
       TB!CancelKind, TBP!CancelKind, TB!Final, TBP!Final, TB!Cardinality,
       TBP!Cardinality

LEMMA SameSleepers == TB!NoLostWakeup <=> TBP!NoLostWakeup
BY DEF TB!NoLostWakeup, TBP!NoLostWakeup, TB!CancelKind, TBP!CancelKind,
       TB!Final, TBP!Final

\* The assumption of the proofs about TeamBarrier holds of this instance.
LEMMA BarriersAssumption == TBP!ConstantsAssumption
BY TasksAssumption DEF TBP!ConstantsAssumption, TBP!IsFiniteSet, IsFiniteSet
-----------------------------------------------------------------------------
(* With the queue, the lists and the dependences of task.c, too, the last  *)
(* thread of a barrier decides by counters that agree with the tasks.      *)
THEOREM LastThreadIsRight == Spec => []TB!LastThreadKnows
BY TasksImplementBarrier, SameSpec, SameKnowledge, TBP!LastThreadIsRight, BarriersAssumption,
   PTL

(* A barrier completes only when every task that GOMP_task deferred has    *)
(* finished: blocked, queued, taken by a taskwait or found cancelled.      *)
THEOREM CompletesWhenTasksDone == Spec => TB!BarrierCompletes
BY TasksImplementBarrier, SameSpec, SameCompletion, TBP!CompletesWhenAllArrived, BarriersAssumption,
   PTL

(* gomp_team_barrier_wake is called for whoever sleeps in a barrier that   *)
(* the last task completes.                                                *)
THEOREM WakeupsArrive == Spec => []TB!NoLostWakeup
BY TasksImplementBarrier, SameSpec, SameSleepers, TBP!WakeupsArrive, BarriersAssumption,
   PTL
-----------------------------------------------------------------------------
(* What a step keeps.                                                      *)

(* What the barrier's invariant says of the variables used here.           *)
BarrierFacts ==
    /\ status \in [Tasks -> TB!Statuses]
    /\ btask \in [Threads -> Tasks \cup {None}]
    /\ pc \in [Threads -> TB!PCs]
    /\ do_wake \in [Threads -> Nat]
    /\ \A t \in Threads : pc[t] = "top" => btask[t] = None

LEMMA BarrierKnows == TBP!BarrierInv => BarrierFacts
BY DEF TBP!BarrierInv, TBP!TaskInv, TBP!Typed, TBP!RunInv, BarrierFacts, TB!Statuses,
       TBP!Statuses, TB!PCs, TBP!PCs

\* A struct gomp_taskgroup.
GroupRecords ==
    [prev : Groups \cup {None}, children : Seq(Tasks), num_children : Int,
     in_taskgroup_wait : BOOLEAN, sem : Int, cancelled : BOOLEAN,
     life : {"unused", "open", "freed"}]

(* The types of the taskgroups and of what leads to them.                  *)
GroupsTyped ==
    /\ taskgroup \in [Owners -> Groups \cup {None}]
    /\ home \in [Owners -> Groups \cup {None}]
    /\ group \in [Groups -> GroupRecords]

\* No group, or one that has been opened.
Known(g) == g = None \/ group[g].life # "unused"

\* The groups y has opened lead, over prev, to the one it was created in.
ChainOf(y) ==
    \E S \in SUBSET Groups :
        /\ taskgroup[y] \in S \cup {home[y]}
        /\ \A g \in S : Known(g) /\ group[g].prev \in S \cup {home[y]}

(* A task that starts or ends is in the group it was created in; a thread  *)
(* that waits at the end of a group is in one of its own.                  *)
AtHome(t) ==
    /\ new[t] # None => taskgroup[new[t]] = home[new[t]]
    /\ tpc[t] \in Finishing => taskgroup[Cur(t)] = home[Cur(t)]
    /\ tpc[t] \in {"taskgroup", "taskgroupsleep"} => InOwnGroup(t)

(* The count of a group leaves a task out from the store on in which it    *)
(* is counted out, which is before the task is done.                       *)
Uncounted(x) ==
    \E s \in Threads : /\ Cur(s) = x
                       /\ \/ tpc[s] = "finish3"
                          \/ tpc[s] \in Late /\ Context(s) = "group"

Counted(x) == Unfinished(x) /\ ~Uncounted(x)

Members(g) == {x \in Tasks : home[x] = g /\ Counted(x)}

(* num_children of a group counts the unfinished tasks created in it.      *)
GroupInv ==
    /\ GroupsTyped
    /\ \A y \in Owners : Known(home[y]) /\ ChainOf(y)
    /\ \A x \in Tasks : status[x] \in {"blocked", "queued"} => taskgroup[x] = home[x]
    /\ \A t \in Threads : AtHome(t)
    /\ \A g \in Groups : group[g].num_children = Cardinality(Members(g))

\* The group at whose end a thread waits.
LEMMA WaitedGroup ==
  ASSUME Typed, GroupInv, NEW t \in Threads, InOwnGroup(t)
  PROVE  /\ taskgroup[Cur(t)] \in Groups /\ group[taskgroup[Cur(t)]] \in GroupRecords
         /\ group[taskgroup[Cur(t)]].children \in Seq(Tasks)
<1>1. Cur(t) \in Owners
  BY CurTyped
<1>2. taskgroup[Cur(t)] \in Groups
  BY <1>1 DEF GroupInv, ChainOf, InOwnGroup
<1>3. group[taskgroup[Cur(t)]] \in GroupRecords
  BY <1>2 DEF GroupInv, GroupsTyped
<1> QED BY <1>2, <1>3 DEF GroupRecords

\* A thread goes from one position in task.c to another.
LEMMA PositionsTyped ==
  ASSUME Typed, NEW t \in Threads, RuntimeStep(t) \/ Ending(t) \/ Choice(t)
  PROVE  tpc' \in [Threads -> Positions]
<1> DEFINE Goes == UNCHANGED tpc \/ \E l \in Positions : TGoto(t, l)
<1>1. Goes => tpc' \in [Threads -> Positions]
  BY DEF Typed, TGoto
<1>2. CASE \/ BarrierStep(t) \/ EnterBarrier(t) \/ Cancellation(t) \/ Interrupted(t)
           \/ TaskgroupStart(t) \/ CancelTaskgroup(t) \/ InlineEnd(t)
  <2>1. UNCHANGED tpc
    BY <1>2 DEF BarrierStep, EnterBarrier, Cancellation, Interrupted, ownVars,
                TaskgroupStart, CancelTaskgroup, InlineEnd
  <2> QED BY <1>1, <2>1
<1>3. CASE BarrierLoop(t)
  <2>1. Goes
    BY <1>3 DEF BarrierLoop, ownVars, Positions
  <2> QED BY <1>1, <2>1
<1>4. CASE Defer(t) \/ TaskwaitWake(t) \/ TaskgroupWake(t) \/ Finish1(t) \/ Finish2(t)
           \/ Finish3(t) \/ Taskwait(t) \/ TaskReturn(t)
  <2>1. Goes
    BY <1>4 DEF Defer, TaskwaitWake, TaskgroupWake, Finish1, Finish2, Finish3, Taskwait,
                TaskReturn, Positions
  <2> QED BY <1>1, <2>1
<1>5. CASE TaskwaitLoop(t) \/ TaskgroupLoop(t) \/ TaskgroupEnd(t) \/ GompTask(t)
  <2>1. Goes
    BY <1>5 DEF TaskwaitLoop, TaskgroupLoop, TaskgroupEnd, GompTask, StartTask, Positions
  <2> QED BY <1>1, <2>1
<1> QED BY <1>2, <1>3, <1>4, <1>5, Zenon DEF RuntimeStep, Ending, Choice

\* The types of what a step of task.c changes itself.
ListsTyped ==
    /\ task_queue \in Seq(Tasks)
    /\ kind \in [Tasks -> Kinds]
    /\ parent \in [Tasks -> Owners \cup {None}]
    /\ children \in [Owners -> Seq(Tasks)]
    /\ depend \in [Tasks -> [Addrs -> {"no", "in", "out"}]]
    /\ depend_hash \in [Owners -> [Addrs -> SUBSET Tasks]]
    /\ dependers \in [Tasks -> Seq(Tasks)]
    /\ num_dependees \in [Tasks -> Int]
    /\ stack \in [Threads -> Seq(Frames)]
    /\ new \in [Threads -> Tasks \cup {None}]
    /\ after \in [Tasks -> SUBSET Tasks]

LEMMA SameTyped ==
  ASSUME ListsTyped, SameTasks PROVE ListsTyped'
BY DEF ListsTyped, SameTasks

\* A quiet step.
LEMMA QuietKeeps ==
  ASSUME ListsTyped, CoreInv, SameTasks /\ SameEnds /\ PosInv'
  PROVE  ListsTyped' /\ CoreInv' /\ PosInv'
BY SameTyped, SameKeeps

LEMMA StartedKeeps ==
  ASSUME Typed, ListsTyped, CoreInv, PosInv, NEW t \in Threads, NEW x \in Tasks,
         NEW c \in Contexts, Starts(t, x, c), RunPre(x),
         OthersKeep(t), PosOf(t)', LockOf(t)'
  PROVE  ListsTyped' /\ CoreInv' /\ PosInv'
<1>1. /\ UNCHANGED <<parent, depend, depend_hash, dependers, num_dependees, new, after>>
      /\ kind' = [kind EXCEPT ![x] = "tied"] /\ Push(t, x, c)
  BY DEF Starts
<1>2. children' \in [Owners -> Seq(Tasks)] /\ task_queue' \in Seq(Tasks)
  BY RunPreLists
<1>3. stack' \in [Threads -> Seq(Frames)]
  BY <1>1, Pushed
<1>4. kind' \in [Tasks -> Kinds]
  BY <1>1 DEF ListsTyped, Kinds
<1>5. ListsTyped'
  BY <1>1, <1>2, <1>3, <1>4 DEF ListsTyped
<1> QED BY <1>5, StartKeeps, OthersPlaced

\* Every step keeps the lists, the dependences and the positions.
LEMMA StepKeeps ==
  ASSUME BarrierFacts, Typed, ListsTyped, CoreInv, PosInv, GroupInv, region \in Regions,
         NEW t \in Threads, RuntimeStep(t) \/ Ending(t) \/ Choice(t)
  PROVE  ListsTyped' /\ CoreInv' /\ PosInv'
<1>1. CASE BarrierStep(t) \/ Interrupted(t)
  BY <1>1, BarrierStepQuiet, QuietKeeps DEF BarrierFacts
<1>2. CASE EnterBarrier(t) \/ Cancellation(t)
  BY <1>2, ImplicitQuiet, QuietKeeps
<1>3. CASE BarrierLoop(t)
  <2>1. CASE task_queue = <<>>
    BY <1>3, <2>1, LoopReturns, QuietKeeps
  <2>2. CASE task_queue # <<>>
    <3>1. pc[t] = "top"
      BY <1>3 DEF BarrierLoop, TB!LoopTop
    <3>2. btask[t] = None
      BY <3>1 DEF BarrierFacts
    <3>3. PICK x \in Tasks :
            /\ Starts(t, x, "barrier") /\ RunPre(x)
            /\ OthersKeep(t) /\ PosOf(t)' /\ LockOf(t)'
      BY <1>3, <2>2, <3>2, LoopStarts
    <3>4. "barrier" \in Contexts
      BY DEF Contexts
    <3> QED BY <3>3, <3>4, StartedKeeps
  <2> QED BY <2>1, <2>2
<1>4. CASE Defer(t)
  <2>1. /\ new[t] \in Tasks /\ (Drops(t, new[t]) \/ Defers(t, new[t]))
        /\ kind' \in [Tasks -> Kinds] /\ new' \in [Threads -> Tasks \cup {None}]
        /\ children' \in [Owners -> Seq(Tasks)] /\ task_queue' \in Seq(Tasks)
        /\ depend_hash' \in [Owners -> [Addrs -> SUBSET Tasks]]
        /\ dependers' \in [Tasks -> Seq(Tasks)]
        /\ num_dependees' \in [Tasks -> Int]
        /\ OthersKeep(t) /\ PosOf(t)' /\ LockOf(t)'
    BY <1>4, TaskDeferred
  <2>2. UNCHANGED <<parent, depend, after, stack>>
    BY <1>4 DEF Defer
  <2>3. ListsTyped'
    BY <2>1, <2>2 DEF ListsTyped
  <2> QED BY <2>1, <2>3, DropsKeep, DeferKeeps, OthersPlaced
<1>5. CASE TaskwaitLoop(t) \/ TaskgroupLoop(t)
  <2>1. CASE \E x \in Tasks, c \in {"taskwait", "group"} :
               kind[x] = "waiting" /\ StartTask(t, x, c)
    <3>1. PICK x \in Tasks, c \in {"taskwait", "group"} :
             kind[x] = "waiting" /\ StartTask(t, x, c)
      BY <2>1
    <3>2. tpc[t] \in {"taskwait", "taskgroup"} /\ RunPre(x) /\ c \in Contexts
      BY <1>5, <3>1 DEF TaskwaitLoop, TaskgroupLoop, StartTask, Contexts
    <3>3. Starts(t, x, c) /\ OthersKeep(t) /\ PosOf(t)' /\ LockOf(t)'
      BY <3>1, <3>2, TaskStarts
    <3> QED BY <3>2, <3>3, StartedKeeps
  <2>2. CASE TB!WaitUnlock(t)
    BY <1>5, <2>2, TaskwaitQuiet, TaskgroupQuiet, QuietKeeps
  <2>3. CASE TaskwaitLoop(t) /\ ~TB!WaitUnlock(t)
    <3>1. /\ children[Cur(t)] # <<>> /\ kind[Head(children[Cur(t)])] = "waiting"
          /\ StartTask(t, Head(children[Cur(t)]), "taskwait")
      BY <2>3 DEF TaskwaitLoop
    <3>2. children[Cur(t)] \in Seq(Tasks)
      BY CurTyped DEF Typed
    <3>3. Head(children[Cur(t)]) \in Tasks
      BY <3>1, <3>2
    <3> QED BY <2>1, <3>1, <3>3
  <2>4. CASE TaskgroupLoop(t) /\ ~TB!WaitUnlock(t)
    <3> DEFINE cs == group[taskgroup[Cur(t)]].children
    <3>1. cs # <<>> /\ kind[Head(cs)] = "waiting" /\ StartTask(t, Head(cs), "group")
      BY <2>4 DEF TaskgroupLoop
    <3>2. InOwnGroup(t)
      BY <2>4 DEF TaskgroupLoop, GroupInv, AtHome
    <3>3. cs \in Seq(Tasks)
      BY <3>2, WaitedGroup
    <3>4. Head(cs) \in Tasks
      BY <3>1, <3>3
    <3> QED BY <2>1, <3>1, <3>4
  <2> QED BY <1>5, <2>2, <2>3, <2>4
<1>6. CASE \/ Taskwait(t) \/ TaskwaitWake(t)
  BY <1>6, TaskwaitQuiet, QuietKeeps
<1>7. CASE TaskgroupStart(t) \/ TaskgroupEnd(t) \/ TaskgroupWake(t) \/ CancelTaskgroup(t)
  BY <1>7, TaskgroupQuiet, QuietKeeps
<1>8. CASE TaskReturn(t)
  BY <1>8, ReturnQuiet, QuietKeeps
<1>9. CASE Finish1(t)
  <2>1. /\ Cur(t) \in Tasks /\ Releases(t, Cur(t))
        /\ children' \in [Owners -> Seq(Tasks)] /\ task_queue' \in Seq(Tasks)
        /\ dependers' \in [Tasks -> Seq(Tasks)]
        /\ depend_hash' \in [Owners -> [Addrs -> SUBSET Tasks]]
        /\ num_dependees' \in [Tasks -> Int]
        /\ OthersKeep(t) /\ PosOf(t)' /\ LockOf(t)'
    BY <1>9, TaskReleases
  <2>2. UNCHANGED <<kind, parent, depend, stack, new, after>>
    BY <2>1 DEF Releases
  <2>3. ListsTyped'
    BY <2>1, <2>2 DEF ListsTyped
  <2> QED BY <2>1, <2>3, ReleaseKeeps, OthersPlaced
<1>10. CASE Finish2(t)
  <2>1. /\ Cur(t) \in Tasks /\ Orphans(t, Cur(t))
        /\ parent' \in [Tasks -> Owners \cup {None}]
        /\ OthersKeep(t) /\ PosOf(t)' /\ LockOf(t)'
    BY <1>10, FinishOrphans
  <2>2. /\ UNCHANGED <<task_queue, kind, children, depend_hash, dependers, num_dependees>>
        /\ UNCHANGED <<stack, new, depend, after>>
    BY <1>10, BodyVarsKept DEF Finish2
  <2>3. ListsTyped'
    BY <2>1, <2>2 DEF ListsTyped
  <2> QED BY <2>1, <2>3, OrphansKeep, OthersPlaced
<1>11. CASE Finish3(t)
  <2>1. /\ Cur(t) \in Tasks /\ Ends(t, Cur(t))
        /\ kind' \in [Tasks -> Kinds]
        /\ stack' \in [Threads -> Seq(Frames)]
        /\ OthersKeep(t) /\ PosOf(t)' /\ LockOf(t)'
    BY <1>11, TaskEnds
  <2>2. /\ UNCHANGED <<task_queue, parent, children, depend_hash, dependers, num_dependees>>
        /\ UNCHANGED <<new, depend, after>>
    BY <1>11, BodyVarsKept DEF Finish3
  <2>3. ListsTyped'
    BY <2>1, <2>2 DEF ListsTyped
  <2> QED BY <2>1, <2>3, EndKeeps, OthersPlaced
<1>12. CASE InlineEnd(t)
  <2>1. /\ Cur(t) \in Tasks /\ Orphans(t, Cur(t))
        /\ parent' \in [Tasks -> Owners \cup {None}]
        /\ kind' \in [Tasks -> Kinds]
        /\ stack' \in [Threads -> Seq(Frames)]
        /\ OthersKeep(t) /\ PosOf(t)' /\ LockOf(t)'
    BY <1>12, InlineOrphans
  <2>2. /\ UNCHANGED <<task_queue, children, depend_hash, dependers, num_dependees>>
        /\ UNCHANGED <<new, depend, after>>
    BY <1>12, BodyVarsKept DEF InlineEnd
  <2>3. ListsTyped'
    BY <2>1, <2>2 DEF ListsTyped
  <2> QED BY <2>1, <2>3, OrphansKeep, OthersPlaced
<1>13. CASE GompTask(t)
  <2>1. /\ \E x \in Tasks, d \in [Addrs -> {"no", "in", "out"}] : Begins(t, x, d)
        /\ parent' \in [Tasks -> Owners \cup {None}]
        /\ kind' \in [Tasks -> Kinds]
        /\ depend' \in [Tasks -> [Addrs -> {"no", "in", "out"}]]
        /\ after' \in [Tasks -> SUBSET Tasks]
        /\ stack' \in [Threads -> Seq(Frames)]
        /\ new' \in [Threads -> Tasks \cup {None}]
        /\ OthersKeep(t) /\ PosOf(t)' /\ LockOf(t)'
    BY <1>13, TaskBegins
  <2>2. UNCHANGED <<task_queue, children, depend_hash, dependers, num_dependees>>
    BY <1>13 DEF GompTask
  <2>3. ListsTyped'
    BY <2>1, <2>2 DEF ListsTyped
  <2> QED BY <2>1, <2>3, BeginKeeps, OthersPlaced
<1> QED BY <1>1, <1>2, <1>3, <1>4, <1>5, <1>6, <1>7, <1>8, <1>9, <1>10, <1>11, <1>12, <1>13,
        Zenon DEF RuntimeStep, Ending, Choice

(* A step that leaves alone which group a group was opened in.             *)
ChainsKept ==
    /\ group' \in [Groups -> GroupRecords]
    /\ \A g \in Groups : /\ group'[g].prev = group[g].prev
                         /\ group[g].life # "unused" => group'[g].life # "unused"

\* The other threads stay where they are in task.c.
OthersHere(t) ==
    \A s \in Threads : s # t =>
        tpc'[s] = tpc[s] /\ stack'[s] = stack[s] /\ new'[s] = new[s]

\* Groups stay known, and lead where they led.
LEMMA ChainsStay ==
  ASSUME GroupInv, ChainsKept, UNCHANGED <<taskgroup, home>>
  PROVE  /\ GroupsTyped'
         /\ \A y \in Owners : Known(home[y])' /\ ChainOf(y)'
<1>1. GroupsTyped'
  BY DEF GroupInv, GroupsTyped, ChainsKept
<1>2. ASSUME NEW g \in Groups \cup {None}, Known(g) PROVE Known(g)'
  BY <1>2 DEF ChainsKept, Known
<1>3. ASSUME NEW y \in Owners PROVE Known(home[y])' /\ ChainOf(y)'
  <2>1. home[y] \in Groups \cup {None} /\ Known(home[y]) /\ ChainOf(y)
    BY DEF GroupInv, GroupsTyped
  <2>2. PICK S \in SUBSET Groups :
          /\ taskgroup[y] \in S \cup {home[y]}
          /\ \A g \in S : Known(g) /\ group[g].prev \in S \cup {home[y]}
    BY <2>1 DEF ChainOf
  <2>3. \A g \in S : Known(g)' /\ group'[g].prev \in S \cup {home[y]}
    BY <2>2, <1>2 DEF ChainsKept
  <2>4. ChainOf(y)'
    BY <2>2, <2>3 DEF ChainOf
  <2> QED BY <2>1, <1>2, <2>4
<1> QED BY <1>1, <1>3

LEMMA OneGroupChanged ==
  ASSUME GroupsTyped, NEW g \in Groups, NEW r \in GroupRecords,
         r.prev = group[g].prev, group[g].life # "unused" => r.life # "unused",
         group' = [group EXCEPT ![g] = r]
  PROVE  /\ ChainsKept /\ group'[g] = r
         /\ \A h \in Groups : h # g => group'[h] = group[h]
         /\ \A h \in Groups : group'[h].num_children =
                IF h = g THEN r.num_children ELSE group[h].num_children
BY DEF GroupsTyped, ChainsKept

LEMMA GroupsSame ==
  ASSUME GroupsTyped, group' = group PROVE ChainsKept
BY DEF GroupsTyped, ChainsKept

LEMMA HomeStays ==
  ASSUME GroupInv, UNCHANGED <<taskgroup, home>>, NEW t \in Threads, OthersHere(t), AtHome(t)'
  PROVE  \A s \in Threads : AtHome(s)'
<1> SUFFICES ASSUME NEW s \in Threads, s # t PROVE AtHome(s)'
  OBVIOUS
<1>1. AtHome(s) /\ tpc'[s] = tpc[s] /\ stack'[s] = stack[s] /\ new'[s] = new[s]
  BY DEF GroupInv, OthersHere
<1>2. Cur(s)' = Cur(s)
  BY <1>1 DEF Cur
<1> QED BY <1>1, <1>2 DEF AtHome, InOwnGroup

LEMMA MembersFinite == \A g : IsFiniteSet(Members(g)) /\ Cardinality(Members(g)) \in Nat
<1>1. \A g : Members(g) \subseteq Tasks
  BY DEF Members
<1> QED BY <1>1, Names, FS_Subset, FS_CardinalityType

LEMMA CountsStay ==
  ASSUME GroupInv, UNCHANGED home,
         \A g \in Groups : group'[g].num_children = group[g].num_children,
         \A x \in Tasks : Counted(x)' <=> Counted(x)
  PROVE  \A g \in Groups : group'[g].num_children = Cardinality(Members(g)')
<1>1. \A g : Members(g)' = Members(g)
  BY DEF Members
<1> QED BY <1>1 DEF GroupInv

\* A task is counted in, or out.
LEMMA CountsOneMore ==
  ASSUME GroupInv, UNCHANGED home, NEW x \in Tasks, ~Counted(x), Counted(x)',
         \A y \in Tasks : y # x => (Counted(y)' <=> Counted(y)),
         \A g \in Groups : group'[g].num_children =
             IF g = home[x] THEN group[g].num_children + 1 ELSE group[g].num_children
  PROVE  \A g \in Groups : group'[g].num_children = Cardinality(Members(g)')
<1> SUFFICES ASSUME NEW g \in Groups
             PROVE  group'[g].num_children = Cardinality(Members(g)')
  OBVIOUS
<1>1. CASE g = home[x]
  <2>1. Members(g)' = Members(g) \cup {x} /\ x \notin Members(g)
    BY <1>1 DEF Members
  <2>2. Cardinality(Members(g) \cup {x}) = Cardinality(Members(g)) + 1
    BY <2>1, MembersFinite, FS_AddElement
  <2> QED BY <1>1, <2>1, <2>2 DEF GroupInv
<1>2. CASE g # home[x]
  <2>1. Members(g)' = Members(g)
    BY <1>2 DEF Members
  <2> QED BY <1>2, <2>1 DEF GroupInv
<1> QED BY <1>1, <1>2

LEMMA CountsOneLess ==
  ASSUME GroupInv, UNCHANGED home, NEW x \in Tasks, Counted(x), ~Counted(x)',
         \A y \in Tasks : y # x => (Counted(y)' <=> Counted(y)),
         \A g \in Groups : group'[g].num_children =
             IF g = home[x] THEN group[g].num_children - 1 ELSE group[g].num_children
  PROVE  \A g \in Groups : group'[g].num_children = Cardinality(Members(g)')
<1> SUFFICES ASSUME NEW g \in Groups
             PROVE  group'[g].num_children = Cardinality(Members(g)')
  OBVIOUS
<1>1. CASE g = home[x]
  <2>1. Members(g)' = Members(g) \ {x} /\ x \in Members(g)
    BY <1>1 DEF Members
  <2>2. Cardinality(Members(g) \ {x}) = Cardinality(Members(g)) - 1
    BY <2>1, MembersFinite, FS_RemoveElement
  <2> QED BY <1>1, <2>1, <2>2 DEF GroupInv
<1>2. CASE g # home[x]
  <2>1. Members(g)' = Members(g)
    BY <1>2 DEF Members
  <2> QED BY <1>2, <2>1 DEF GroupInv
<1> QED BY <1>1, <1>2

\* A step in which nobody enters or leaves the end of a task.
LEMMA CountedSame ==
  ASSUME NEW t \in Threads, OthersHere(t), tpc[t] \notin Late, tpc'[t] \notin Late
  PROVE  \A x : Uncounted(x)' <=> Uncounted(x)
<1>1. \A s \in Threads : s # t => /\ Cur(s)' = Cur(s) /\ Context(s)' = Context(s)
                                  /\ tpc'[s] = tpc[s]
  BY DEF OthersHere, Cur, Context
<1>2. tpc[t] # "finish3" /\ tpc'[t] # "finish3"
  BY DEF Late
<1> QED BY <1>1, <1>2 DEF Uncounted

LEMMA EndsSame ==
  ASSUME SameTasks, SameEnds
  PROVE  \A x : Counted(x)' <=> Counted(x)
<1>1. \A s \in Threads : /\ Cur(s)' = Cur(s) /\ Context(s)' = Context(s)
                         /\ tpc'[s] = "finish3" <=> tpc[s] = "finish3"
                         /\ tpc'[s] \in Late <=> tpc[s] \in Late
  BY DEF SameTasks, SameEnds, Cur, Context
<1>2. \A x : Uncounted(x)' <=> Uncounted(x)
  BY <1>1 DEF Uncounted
<1>3. \A x : Unfinished(x)' <=> Unfinished(x)
  BY DEF SameTasks, Unfinished
<1> QED BY <1>2, <1>3 DEF Counted

(* The invariant, step by step: the groups, where the threads are, and who *)
(* is counted.                                                             *)
LEMMA GroupParts ==
  ASSUME GroupInv, ChainsKept, UNCHANGED <<taskgroup, home>>,
         \A x \in Tasks : status'[x] \in {"blocked", "queued"} => taskgroup[x] = home[x],
         \A s \in Threads : AtHome(s)',
         \A g \in Groups : group'[g].num_children = Cardinality(Members(g)')
  PROVE  GroupInv'
BY ChainsStay DEF GroupInv

LEMMA QuietGroups ==
  ASSUME GroupInv, SameTasks, SameEnds, ChainsKept, UNCHANGED <<taskgroup, home>>,
         \A g \in Groups : group'[g].num_children = group[g].num_children,
         NEW t \in Threads, OthersHere(t), AtHome(t)'
  PROVE  GroupInv'
<1>1. \A x \in Tasks : status'[x] \in {"blocked", "queued"} => taskgroup[x] = home[x]
  BY DEF SameTasks, GroupInv
<1> QED BY <1>1, HomeStays, EndsSame, CountsStay, GroupParts

\* A step that leaves the groups alone and moves one thread at most.
LEMMA MovedGroups ==
  ASSUME GroupInv, SameTasks, SameEnds, UNCHANGED <<group, taskgroup, home>>,
         NEW t \in Threads,
         \A s \in Threads : s # t => tpc'[s] = tpc[s],
         tpc'[t] \in Finishing => tpc[t] \in Finishing \/ ~InOwnGroup(t),
         tpc'[t] \in {"taskgroup", "taskgroupsleep"} => InOwnGroup(t)
  PROVE  GroupInv'
<1>1. stack' = stack /\ new' = new
  BY DEF SameTasks
<1>2. OthersHere(t)
  BY <1>1 DEF OthersHere
<1>3. ChainsKept
  BY GroupsSame DEF GroupInv
<1>4. AtHome(t)
  BY DEF GroupInv
<1>5. Cur(t)' = Cur(t)
  BY <1>1 DEF Cur
<1>6. AtHome(t)'
  BY <1>1, <1>4, <1>5 DEF AtHome, InOwnGroup
<1> QED BY <1>2, <1>3, <1>6, QuietGroups

LEMMA OwnGroups ==
  ASSUME GroupInv, SameTasks, SameEnds, UNCHANGED ownVars, NEW t \in Threads
  PROVE  GroupInv'
<1>1. UNCHANGED <<group, taskgroup, home, tpc>>
  BY DEF ownVars, listVars, bodyVars
<1>2. tpc'[t] \in {"taskgroup", "taskgroupsleep"} => InOwnGroup(t)
  BY <1>1 DEF GroupInv, AtHome
<1> QED BY <1>1, <1>2, MovedGroups

\* gomp_task_run_pre moves the pointer of the group, and a task that was
\* queued is in the group it was created in.
LEMMA StartGroups ==
  ASSUME Typed, GroupInv, NEW t \in Threads, NEW x \in Tasks, NEW c \in Contexts,
         Starts(t, x, c), RunPre(x), UNCHANGED <<taskgroup, home>>,
         tpc'[t] \in {"code", "finish1"}, OthersKeep(t)
  PROVE  GroupInv'
<1>1. OthersHere(t)
  BY DEF OthersKeep, OthersHere
<1>2. /\ status[x] = "queued" /\ new' = new /\ new[t] = None
      /\ status' = [status EXCEPT ![x] = "running"]
      /\ \A s \in Threads : tpc[s] \notin Late /\ tpc'[s] \notin Late
  BY DEF Starts
<1>3. Cur(t)' = x /\ \A y \in Tasks : Unfinished(y)' <=> Unfinished(y)
  BY StartFacts
<1>4. taskgroup[x] = home[x]
  BY <1>2 DEF GroupInv
<1>5. AtHome(t)'
  BY <1>2, <1>3, <1>4 DEF AtHome
<1>6. \A y \in Tasks : Counted(y)' <=> Counted(y)
  <2>1. \A y : Uncounted(y)' <=> Uncounted(y)
    BY <1>1, <1>2, CountedSame
  <2> QED BY <1>3, <2>1 DEF Counted
<1>7. \A y \in Tasks : status'[y] \in {"blocked", "queued"} => taskgroup[y] = home[y]
  BY <1>2 DEF Typed, GroupInv
<1>8. ChainsKept /\ \A g \in Groups : group'[g].num_children = group[g].num_children
  <2>1. CASE taskgroup[x] = None
    <3>1. group' = group
      BY <2>1 DEF RunPre
    <3> QED BY <3>1, GroupsSame DEF GroupInv
  <2>2. CASE taskgroup[x] # None
    <3>1. PICK g \in Groups : g = taskgroup[x] /\ group[g] \in GroupRecords
      BY <2>2 DEF GroupInv, GroupsTyped, Owners
    <3>2. Rotate(group[g].children, x) \in Seq(Tasks)
      BY <3>1, RotateTyped DEF GroupRecords
    <3>3. PICK cs \in Seq(Tasks) : cs = Rotate(group[g].children, x)
      BY <3>2
    <3>4. group' = [group EXCEPT ![g].children = cs]
      BY <2>2, <3>1, <3>3 DEF RunPre
    <3>5. [group[g] EXCEPT !.children = cs] \in GroupRecords
      BY <3>1 DEF GroupRecords
    <3>6. PICK r \in GroupRecords : r = [group[g] EXCEPT !.children = cs]
      BY <3>5
    <3>7. r.prev = group[g].prev /\ r.life = group[g].life /\ r.num_children = group[g].num_children
      BY <3>1, <3>6 DEF GroupRecords
    <3>8. group' = [group EXCEPT ![g] = r]
      BY <3>4, <3>6
    <3>9. GroupsTyped
      BY DEF GroupInv
    <3>10. group[g].life # "unused" => r.life # "unused"
      BY <3>7
    <3>11. /\ ChainsKept
           /\ \A h \in Groups : group'[h].num_children =
                IF h = g THEN r.num_children ELSE group[h].num_children
      BY <3>1, <3>7, <3>8, <3>9, <3>10, OneGroupChanged
    <3> QED BY <3>7, <3>11
  <2> QED BY <2>1, <2>2
<1> QED BY <1>1, <1>5, <1>6, <1>7, <1>8, HomeStays, CountsStay, GroupParts

LEMMA TaskwaitGroups ==
  ASSUME Typed, GroupInv, PosInv, NEW t \in Threads,
         \/ Taskwait(t) \/ TaskwaitWake(t)
         \/ TaskwaitLoop(t) /\ TB!WaitUnlock(t)
  PROVE  GroupInv'
<1>1. SameTasks /\ SameEnds
  BY TaskwaitQuiet
<1>2. /\ UNCHANGED <<group, taskgroup, home>>
      /\ \E l \in {"code", "taskwait", "taskwaitsleep"} : TGoto(t, l)
  BY NotTaken DEF Taskwait, TaskwaitWake, TaskwaitLoop, StartTask, listVars, bodyVars
<1>3. PICK l \in {"code", "taskwait", "taskwaitsleep"} : TMoved(t, l)
  BY <1>2, TGotoMoves
<1> QED BY <1>1, <1>2, <1>3, MovedGroups DEF TMoved, Finishing, Late

LEMMA ReturnGroups ==
  ASSUME Typed, GroupInv, PosInv, NEW t \in Threads, TaskReturn(t)
  PROVE  GroupInv'
<1>1. SameTasks /\ SameEnds
  BY ReturnQuiet
<1>2. UNCHANGED <<group, taskgroup, home>> /\ TGoto(t, "finish1") /\ ~InOwnGroup(t)
  BY DEF TaskReturn, listVars, bodyVars
<1>3. TMoved(t, "finish1")
  BY <1>2, TGotoMoves
<1> QED BY <1>1, <1>2, <1>3, MovedGroups DEF TMoved

\* What a thread is in is none of the tasks that wait to be started.
LEMMA CurStarted ==
  ASSUME Typed, CoreInv, NEW t \in Threads
  PROVE  /\ \A x \in Tasks : status[x] \in {"blocked", "queued"} => x # Cur(t)
         /\ \A s \in Threads : new[s] # None => new[s] # Cur(t)
<1>1. Cur(t) \in Tasks => kind[Cur(t)] # "waiting"
  BY CurTyped, KindOnStack DEF CoreInv
<1> QED BY <1>1 DEF CoreInv, KindInv, Typed

\* The task t is in enters a group or leaves one.
LEMMA HomesStay ==
  ASSUME Typed, CoreInv, PosInv, GroupInv, SameTasks, home' = home, NEW t \in Threads,
         \A y \in Owners : y # Cur(t) => taskgroup'[y] = taskgroup[y],
         \A s \in Threads : s # t => tpc'[s] = tpc[s], tpc'[t] = "code",
         tpc[t] # "defer"
  PROVE  /\ \A s \in Threads : AtHome(s)'
         /\ \A x \in Tasks : status'[x] \in {"blocked", "queued"} => taskgroup'[x] = home[x]
<1>1. \A x \in Tasks : status'[x] \in {"blocked", "queued"} => taskgroup'[x] = home[x]
  BY CurStarted DEF SameTasks, GroupInv, Owners
<1>2. \A s \in Threads : Cur(s)' = Cur(s) /\ new'[s] = new[s] /\ Cur(s) \in Owners
  BY CurTyped DEF SameTasks, Cur
<1>3. ASSUME NEW s \in Threads, s # t PROVE AtHome(s)'
  <2>1. Cur(s) # Cur(t)
    BY <1>3, CurInjective DEF CoreInv
  <2>2. new[s] # None => new[s] # Cur(t) /\ new[s] \in Owners
    BY CurStarted DEF Typed, Owners
  <2>3. AtHome(s)
    BY DEF GroupInv
  <2> QED BY <1>2, <1>3, <2>1, <2>2, <2>3 DEF AtHome, InOwnGroup
<1>4. AtHome(t)'
  <2>1. new[t] = None
    BY DEF PosInv, PosOf
  <2> QED BY <1>2, <2>1 DEF AtHome, Finishing, Late
<1> QED BY <1>1, <1>3, <1>4

LEMMA GroupOpens ==
  ASSUME Typed, CoreInv, PosInv, GroupInv, region \in Regions, NEW t \in Threads,
         TaskgroupStart(t)
  PROVE  GroupInv'
<1>1. SameTasks /\ SameEnds
  BY TaskgroupQuiet
<1>2. /\ tpc[t] = "code" /\ home' = home /\ tpc' = tpc
      /\ \E g \in region.groups : group[g].life = "unused"
  BY DEF TaskgroupStart, InCode
<1>3. PICK g \in Groups :
        /\ group[g].life = "unused"
        /\ group' = [group EXCEPT ![g] = [prev |-> taskgroup[Cur(t)],
               children |-> <<>>, num_children |-> 0,
               in_taskgroup_wait |-> FALSE, sem |-> 0, cancelled |-> FALSE,
               life |-> "open"]]
        /\ taskgroup' = [taskgroup EXCEPT ![Cur(t)] = g]
  <2>1. PICK g : /\ g \in region.groups /\ group[g].life = "unused"
                 /\ g = CHOOSE h \in region.groups : group[h].life = "unused"
    BY <1>2
  <2>2. g \in Groups
    BY <2>1, TasksAssumption
  <2> QED BY <2>1, <2>2 DEF TaskgroupStart
<1>4. Cur(t) \in Owners
  BY CurTyped
<1>5. GroupsTyped
  BY DEF GroupInv
<1>6. taskgroup[Cur(t)] \in Groups \cup {None} /\ g # None
  BY <1>4, <1>5, TasksAssumption DEF GroupsTyped
<1>7. <<>> \in Seq(Tasks)
  OBVIOUS
<1>8. PICK r \in GroupRecords :
        r = [prev |-> taskgroup[Cur(t)], children |-> <<>>, num_children |-> 0,
             in_taskgroup_wait |-> FALSE, sem |-> 0, cancelled |-> FALSE, life |-> "open"]
  <2>1. PICK cs \in Seq(Tasks) : cs = <<>>
    BY <1>7
  <2>2. PICK p \in Groups \cup {None} : p = taskgroup[Cur(t)]
    BY <1>6
  <2>3. [prev |-> p, children |-> cs, num_children |-> 0, in_taskgroup_wait |-> FALSE,
         sem |-> 0, cancelled |-> FALSE, life |-> "open"] \in GroupRecords
    BY DEF GroupRecords
  <2> QED BY <2>1, <2>2, <2>3
<1>9. /\ r.prev = taskgroup[Cur(t)] /\ r.num_children = 0 /\ r.life # "unused"
      /\ group' = [group EXCEPT ![g] = r]
  BY <1>3, <1>8
<1>10. /\ group'[g] = r /\ \A h \in Groups : h # g => group'[h] = group[h]
       /\ taskgroup'[Cur(t)] = g
       /\ \A y \in Owners : y # Cur(t) => taskgroup'[y] = taskgroup[y]
  BY <1>3, <1>4, <1>5, <1>9 DEF GroupsTyped
<1>11. GroupsTyped'
  BY <1>2, <1>3, <1>4, <1>5, <1>9 DEF GroupsTyped
<1>12. /\ \A h \in Groups : Known(h) => Known(h)' /\ h # g
       /\ Known(g)'
  BY <1>3, <1>6, <1>9, <1>10 DEF Known
<1>13. ASSUME NEW y \in Owners PROVE Known(home[y])' /\ ChainOf(y)'
  <2>1. Known(home[y]) /\ ChainOf(y) /\ home[y] \in Groups \cup {None}
    BY <1>5 DEF GroupInv, GroupsTyped
  <2>2. PICK S \in SUBSET Groups :
          /\ taskgroup[y] \in S \cup {home[y]}
          /\ \A h \in S : Known(h) /\ group[h].prev \in S \cup {home[y]}
    BY <2>1 DEF ChainOf
  <2>3. \A h \in S : h # g /\ Known(h)' /\ group'[h].prev \in S \cup {home[y]}
    BY <1>10, <1>12, <2>2
  <2>4. CASE y = Cur(t)
    <3>1. PICK T \in SUBSET Groups : T = S \cup {g}
      OBVIOUS
    <3>2. taskgroup'[y] \in T \cup {home[y]}
      BY <1>10, <2>4, <3>1
    <3>3. \A h \in T : Known(h)' /\ group'[h].prev \in T \cup {home[y]}
      BY <1>9, <1>10, <1>12, <2>2, <2>3, <2>4, <3>1
    <3> QED BY <1>2, <1>12, <2>1, <3>2, <3>3 DEF ChainOf, Known
  <2>5. CASE y # Cur(t)
    BY <1>2, <1>10, <1>12, <2>1, <2>2, <2>3, <2>5 DEF ChainOf, Known
  <2> QED BY <2>4, <2>5
<1>14. /\ \A s \in Threads : AtHome(s)'
       /\ \A x \in Tasks : status'[x] \in {"blocked", "queued"} => taskgroup'[x] = home[x]
  BY <1>1, <1>2, <1>10, HomesStay
<1>15. \A h \in Groups : group'[h].num_children = Cardinality(Members(h)')
  <2>1. \A h : Members(h)' = Members(h)
    BY <1>1, <1>2, EndsSame DEF Members
  <2>2. \A x \in Tasks : home[x] # g
    BY <1>12 DEF GroupInv, Owners
  <2>3. Members(g) = {}
    BY <2>2 DEF Members
  <2> QED BY <1>9, <1>10, <2>1, <2>3, FS_EmptySet DEF GroupInv
<1> QED BY <1>2, <1>11, <1>13, <1>14, <1>15 DEF GroupInv

LEMMA GroupCloses ==
  ASSUME Typed, CoreInv, PosInv, GroupInv, SameTasks, SameEnds, NEW t \in Threads,
         InOwnGroup(t), FreeGroup(t, taskgroup[Cur(t)]),
         \A s \in Threads : s # t => tpc'[s] = tpc[s], tpc'[t] = "code",
         tpc[t] # "defer"
  PROVE  GroupInv'
<1>1. Cur(t) \in Owners /\ GroupsTyped
  BY CurTyped DEF GroupInv
<1>2. PICK g \in Groups : g = taskgroup[Cur(t)] /\ group[g] \in GroupRecords
  BY WaitedGroup
<1>3. /\ taskgroup' = [taskgroup EXCEPT ![Cur(t)] = group[g].prev]
      /\ group' = [group EXCEPT ![g].life = "freed"]
      /\ home' = home
  BY <1>2 DEF FreeGroup
<1>4. [group[g] EXCEPT !.life = "freed"] \in GroupRecords
  BY <1>2 DEF GroupRecords
<1>5. PICK r \in GroupRecords : r = [group[g] EXCEPT !.life = "freed"]
  BY <1>4
<1>6. /\ r.prev = group[g].prev /\ r.life # "unused" /\ r.num_children = group[g].num_children
      /\ group' = [group EXCEPT ![g] = r]
      /\ group[g].prev \in Groups \cup {None}
  BY <1>2, <1>3, <1>5 DEF GroupRecords
<1>7. /\ ChainsKept
      /\ \A h \in Groups : group'[h].num_children =
                IF h = g THEN r.num_children ELSE group[h].num_children
  BY <1>1, <1>6, OneGroupChanged
<1>8. /\ taskgroup'[Cur(t)] = group[g].prev
      /\ \A y \in Owners : y # Cur(t) => taskgroup'[y] = taskgroup[y]
      /\ taskgroup' \in [Owners -> Groups \cup {None}]
  BY <1>1, <1>3, <1>6 DEF GroupsTyped
<1>9. GroupsTyped'
  BY <1>1, <1>3, <1>7, <1>8 DEF GroupsTyped, ChainsKept
<1>10. \A h \in Groups \cup {None} : Known(h) => Known(h)'
  BY <1>7 DEF Known, ChainsKept
<1>11. ASSUME NEW y \in Owners PROVE Known(home[y])' /\ ChainOf(y)'
  <2>1. Known(home[y]) /\ ChainOf(y) /\ home[y] \in Groups \cup {None}
    BY <1>1 DEF GroupInv, GroupsTyped
  <2>2. PICK S \in SUBSET Groups :
          /\ taskgroup[y] \in S \cup {home[y]}
          /\ \A h \in S : Known(h) /\ group[h].prev \in S \cup {home[y]}
    BY <2>1 DEF ChainOf
  <2>3. \A h \in S : Known(h)' /\ group'[h].prev \in S \cup {home[y]}
    BY <1>7, <1>10, <2>2 DEF ChainsKept
  <2>4. taskgroup'[y] \in S \cup {home[y]}
    <3>1. CASE y = Cur(t)
      <4>1. g \in S
        BY <1>2, <2>2, <3>1 DEF InOwnGroup
      <4> QED BY <1>8, <2>2, <3>1, <4>1
    <3> QED BY <1>8, <2>2, <3>1
  <2>5. ChainOf(y)'
    BY <1>3, <2>3, <2>4 DEF ChainOf
  <2>6. Known(home[y])'
    BY <1>3, <1>10, <2>1 DEF Known
  <2> QED BY <2>5, <2>6
<1>12. /\ \A s \in Threads : AtHome(s)'
       /\ \A x \in Tasks : status'[x] \in {"blocked", "queued"} => taskgroup'[x] = home[x]
  BY <1>3, <1>8, HomesStay
<1>13. \A h \in Groups : group'[h].num_children = Cardinality(Members(h)')
  <2>1. \A h \in Groups : group'[h].num_children = group[h].num_children
    BY <1>6, <1>7
  <2> QED BY <1>3, <2>1, EndsSame, CountsStay
<1> QED BY <1>3, <1>9, <1>11, <1>12, <1>13 DEF GroupInv

\* The flag, the semaphore or the cancellation of a group.
LEMMA GroupTouched ==
  ASSUME GroupInv, NEW g \in Groups,
         \/ group' = [group EXCEPT ![g].in_taskgroup_wait = TRUE]
         \/ group' = [group EXCEPT ![g].sem = @ - 1]
         \/ group' = [group EXCEPT ![g].cancelled = TRUE]
  PROVE  ChainsKept /\ \A h \in Groups : group'[h].num_children = group[h].num_children
<1>1. GroupsTyped /\ group[g] \in GroupRecords
  BY DEF GroupInv, GroupsTyped
<1>2. /\ [group[g] EXCEPT !.in_taskgroup_wait = TRUE] \in GroupRecords
      /\ [group[g] EXCEPT !.sem = @ - 1] \in GroupRecords
      /\ [group[g] EXCEPT !.cancelled = TRUE] \in GroupRecords
  <2>1. [group[g] EXCEPT !.in_taskgroup_wait = TRUE] \in GroupRecords
    BY <1>1 DEF GroupRecords
  <2>2. group[g].sem - 1 \in Int
    BY <1>1 DEF GroupRecords
  <2>3. PICK n \in Int : n = group[g].sem - 1
    BY <2>2
  <2>4. [group[g] EXCEPT !.sem = n] \in GroupRecords
    BY <1>1 DEF GroupRecords
  <2>5. [group[g] EXCEPT !.cancelled = TRUE] \in GroupRecords
    BY <1>1 DEF GroupRecords
  <2> QED BY <2>1, <2>3, <2>4, <2>5
<1>3. \E r \in GroupRecords :
        /\ r.prev = group[g].prev /\ r.life = group[g].life
        /\ r.num_children = group[g].num_children
        /\ group' = [group EXCEPT ![g] = r]
  <2>1. CASE group' = [group EXCEPT ![g].in_taskgroup_wait = TRUE]
    <3>1. PICK r \in GroupRecords : r = [group[g] EXCEPT !.in_taskgroup_wait = TRUE]
      BY <1>2
    <3> QED BY <1>1, <2>1, <3>1 DEF GroupRecords
  <2>2. CASE group' = [group EXCEPT ![g].sem = @ - 1]
    <3>1. PICK r \in GroupRecords : r = [group[g] EXCEPT !.sem = @ - 1]
      BY <1>2
    <3> QED BY <1>1, <2>2, <3>1 DEF GroupRecords
  <2>3. CASE group' = [group EXCEPT ![g].cancelled = TRUE]
    <3>1. PICK r \in GroupRecords : r = [group[g] EXCEPT !.cancelled = TRUE]
      BY <1>2
    <3> QED BY <1>1, <2>3, <3>1 DEF GroupRecords
  <2> QED BY <2>1, <2>2, <2>3
<1>4. PICK r \in GroupRecords :
        /\ r.prev = group[g].prev /\ r.life = group[g].life
        /\ r.num_children = group[g].num_children
        /\ group' = [group EXCEPT ![g] = r]
  BY <1>3
<1>5. /\ ChainsKept
      /\ \A h \in Groups : group'[h].num_children =
             IF h = g THEN r.num_children ELSE group[h].num_children
  <2>1. group[g].life # "unused" => r.life # "unused"
    BY <1>4
  <2> QED BY <1>1, <1>4, <2>1, OneGroupChanged
<1> QED BY <1>4, <1>5

\* A step of a thread that waits for its group.
LEMMA WaitGroups ==
  ASSUME Typed, PosInv, GroupInv, SameTasks, SameEnds, UNCHANGED <<taskgroup, home>>,
         NEW t \in Threads, NEW l \in Waits, TMoved(t, l),
         tpc'[t] \in {"taskgroup", "taskgroupsleep"} => InOwnGroup(t),
         ChainsKept, \A h \in Groups : group'[h].num_children = group[h].num_children
  PROVE  GroupInv'
<1>1. stack' = stack /\ new' = new
  BY DEF SameTasks
<1>2. OthersHere(t) /\ tpc'[t] = l
  BY <1>1 DEF OthersHere, TMoved
<1>3. AtHome(t) /\ Cur(t)' = Cur(t)
  BY <1>1 DEF GroupInv, Cur
<1>4. AtHome(t)'
  BY <1>1, <1>2, <1>3 DEF AtHome, InOwnGroup, Waits, Finishing, Late
<1> QED BY <1>2, <1>4, QuietGroups

LEMMA TaskgroupGroups ==
  ASSUME Typed, CoreInv, PosInv, GroupInv, region \in Regions, NEW t \in Threads,
         \/ TaskgroupStart(t) \/ TaskgroupEnd(t) \/ TaskgroupWake(t)
         \/ CancelTaskgroup(t)
         \/ TaskgroupLoop(t) /\ TB!WaitUnlock(t)
  PROVE  GroupInv'
<1>1. SameTasks /\ SameEnds
  BY TaskgroupQuiet
<1>2. CASE TaskgroupStart(t)
  BY <1>2, GroupOpens
<1>3. CASE TaskgroupEnd(t)
  <2>1. tpc[t] = "code" /\ InOwnGroup(t)
    BY <1>3 DEF TaskgroupEnd, InCode
  <2>2. CASE FreeGroup(t, taskgroup[Cur(t)]) /\ UNCHANGED tpc
    BY <1>1, <2>1, <2>2, GroupCloses
  <2>3. CASE TGoto(t, "taskgroup") /\ UNCHANGED <<listVars, bodyVars, stack, new>>
    <3>1. UNCHANGED <<group, taskgroup, home>>
      BY <2>3 DEF listVars, bodyVars
    <3>2. TMoved(t, "taskgroup")
      BY <2>3, TGotoMoves
    <3> QED BY <1>1, <2>1, <3>1, <3>2, MovedGroups DEF TMoved, Finishing, Late
  <2> QED BY <1>3, <2>2, <2>3 DEF TaskgroupEnd
<1>4. CASE TaskgroupWake(t)
  <2>1. InOwnGroup(t)
    BY <1>4 DEF TaskgroupWake, GroupInv, AtHome
  <2>2. PICK g \in Groups : g = taskgroup[Cur(t)]
    BY <2>1, WaitedGroup
  <2>3. /\ group' = [group EXCEPT ![g].sem = @ - 1] /\ TGoto(t, "taskgroup")
        /\ UNCHANGED <<taskgroup, home>>
    BY <1>4, <2>2 DEF TaskgroupWake, bodyVars
  <2>4. ChainsKept /\ \A h \in Groups : group'[h].num_children = group[h].num_children
    BY <2>3, GroupTouched
  <2>5. TMoved(t, "taskgroup")
    BY <2>3, TGotoMoves
  <2> QED BY <1>1, <2>1, <2>3, <2>4, <2>5, WaitGroups DEF Waits
<1>5. CASE CancelTaskgroup(t)
  <2>1. tpc[t] = "code" /\ taskgroup[Cur(t)] # None
    BY <1>5 DEF CancelTaskgroup, InCode
  <2>2. PICK g \in Groups : g = taskgroup[Cur(t)]
    BY <2>1, CurTyped DEF GroupInv, GroupsTyped
  <2>3. /\ group' = [group EXCEPT ![g].cancelled = TRUE] /\ tpc' = tpc
        /\ UNCHANGED <<taskgroup, home>>
    BY <1>5, <2>2 DEF CancelTaskgroup, bodyVars
  <2>4. ChainsKept /\ \A h \in Groups : group'[h].num_children = group[h].num_children
    BY <2>3, GroupTouched
  <2>5. TMoved(t, "code") /\ tpc'[t] = "code"
    BY <2>1, <2>3, TSame
  <2> QED BY <1>1, <2>3, <2>4, <2>5, WaitGroups DEF Waits
<1>6. CASE TaskgroupLoop(t) /\ TB!WaitUnlock(t)
  <2>1. InOwnGroup(t) /\ tpc[t] = "taskgroup"
    BY <1>6 DEF TaskgroupLoop, GroupInv, AtHome
  <2>2. PICK g \in Groups : g = taskgroup[Cur(t)]
    BY <2>1, WaitedGroup
  <2>3. ~TB!WaitTake(t)
    BY <1>6, NotTaken
  <2>4. CASE /\ group' = [group EXCEPT ![g].in_taskgroup_wait = TRUE]
             /\ TGoto(t, "taskgroupsleep") /\ UNCHANGED bodyVars
    <3>1. UNCHANGED <<taskgroup, home>>
      BY <2>4 DEF bodyVars
    <3>2. ChainsKept /\ \A h \in Groups : group'[h].num_children = group[h].num_children
      BY <2>4, GroupTouched
    <3>3. TMoved(t, "taskgroupsleep")
      BY <2>4, TGotoMoves
    <3> QED BY <1>1, <2>1, <3>1, <3>2, <3>3, WaitGroups DEF Waits
  <2>5. CASE TGoto(t, "code") /\ FreeGroup(t, g)
    <3>1. TMoved(t, "code")
      BY <2>5, TGotoMoves
    <3> QED BY <1>1, <2>1, <2>2, <2>5, <3>1, GroupCloses DEF TMoved
  <2> QED BY <1>6, <2>2, <2>3, <2>4, <2>5 DEF TaskgroupLoop, StartTask
<1> QED BY <1>2, <1>3, <1>4, <1>5, <1>6
-----------------------------------------------------------------------------
\* A task that is deferred counts in its group at once, dependent or not.
LEMMA DeferGroups ==
  ASSUME Typed, CoreInv, PosInv, GroupInv, NEW t \in Threads, Defer(t)
  PROVE  GroupInv'
<1>1. /\ new[t] \in Tasks /\ (Drops(t, new[t]) \/ Defers(t, new[t])) /\ OthersKeep(t)
  BY TaskDeferred
<1>2. PICK x \in Tasks : x = new[t]
  BY <1>1
<1>3. /\ UNCHANGED <<taskgroup, home, stack>> /\ new' = [new EXCEPT ![t] = None]
      /\ TGoto(t, "code") /\ tpc[t] = "defer" /\ task_lock = None
  BY DEF Defer
<1>4. OthersHere(t) /\ tpc'[t] = "code"
  BY <1>1, <1>3, TGotoMoves DEF OthersKeep, OthersHere, TMoved
<1>5. AtHome(t)'
  BY <1>3, <1>4 DEF AtHome, Finishing, Late, Typed
<1>6. \A y : Uncounted(y)' <=> Uncounted(y)
  BY <1>3, <1>4, CountedSame DEF Late
<1>7. taskgroup[x] = home[x]
  BY <1>2, Names DEF GroupInv, AtHome, Owners
<1>8. status[x] = "none"
  BY <1>2, <1>3, NewTask
<1>9. CASE Drops(t, x)
  <2>1. UNCHANGED status
    BY <1>9 DEF Drops
  <2>2. group' = group
    <3>1. status'[x] # "blocked" /\ status'[x] # "queued"
      BY <1>8, <2>1
    <3> QED BY <1>2, <3>1 DEF Defer
  <2>3. \A y \in Tasks : Counted(y)' <=> Counted(y)
    BY <1>6, <2>1 DEF Counted, Unfinished
  <2>4. \A y \in Tasks : status'[y] \in {"blocked", "queued"} => taskgroup[y] = home[y]
    BY <2>1 DEF GroupInv
  <2> QED BY <1>3, <1>4, <1>5, <2>2, <2>3, <2>4, GroupsSame, HomeStays, CountsStay, GroupParts
          DEF GroupInv
<1>10. CASE Defers(t, x)
  <2>1. /\ \A y \in Tasks : y # x => status'[y] = status[y]
        /\ \A y \in Tasks : Unfinished(y)' <=> Unfinished(y) \/ y = x
        /\ status'[x] \in {"blocked", "queued"}
    BY <1>10, DeferFacts
  <2>2. \A y \in Tasks : status'[y] \in {"blocked", "queued"} => taskgroup[y] = home[y]
    BY <1>7, <2>1 DEF GroupInv
  <2>3. ~Uncounted(x)
    <3>1. \A s \in Threads : tpc[s] \notin Late
      BY <1>2, <1>3, NewTask
    <3> QED BY <3>1 DEF Uncounted, Late
  <2>4. /\ ~Counted(x) /\ Counted(x)'
        /\ \A y \in Tasks : y # x => (Counted(y)' <=> Counted(y))
    BY <1>6, <1>8, <2>1, <2>3 DEF Counted, Unfinished
  <2>5. /\ ChainsKept
        /\ \A h \in Groups : group'[h].num_children =
              IF h = home[x] THEN group[h].num_children + 1 ELSE group[h].num_children
    <3>1. CASE taskgroup[x] = None
      <4>1. group' = group
        BY <1>2, <1>10, <2>1, <3>1 DEF Defer, CountIn, LinkIn, Drops
      <4>2. None \notin Groups
        BY Names
      <4> QED BY <1>7, <3>1, <4>1, <4>2, GroupsSame DEF GroupInv
    <3>2. CASE taskgroup[x] # None
      <4>1. PICK g \in Groups : g = taskgroup[x] /\ group[g] \in GroupRecords
        BY <3>2 DEF GroupInv, GroupsTyped, Owners
      <4>2. PICK cs \in Seq(Tasks) : cs = group[g].children
        BY <4>1 DEF GroupRecords
      <4>3. PICK ds \in Seq(Tasks) : ds = <<x>> \o cs
        <5>1. <<x>> \o cs \in Seq(Tasks)
          OBVIOUS
        <5> QED BY <5>1
      <4>4. \E es \in Seq(Tasks) :
              group' = [group EXCEPT ![g] = [group[g] EXCEPT !.children = es, !.num_children = @ + 1]]
        <5>1. [group[g] EXCEPT !.children = cs] = group[g]
          BY <4>1, <4>2 DEF GroupRecords
        <5>2. CASE CountIn(taskgroup[x])
          <6>1. group' = [group EXCEPT ![g] = [group[g] EXCEPT !.num_children = @ + 1]]
            BY <3>2, <4>1, <5>2 DEF CountIn
          <6>2. [group[g] EXCEPT !.num_children = @ + 1]
                  = [group[g] EXCEPT !.children = cs, !.num_children = @ + 1]
            BY <4>1, <4>2 DEF GroupRecords
          <6> QED BY <6>1, <6>2
        <5>3. CASE LinkIn(x, Cur(t), taskgroup[x])
          <6>1. group' = [group EXCEPT ![g].children = ds, ![g].num_children = @ + 1]
            BY <3>2, <4>1, <4>2, <4>3, <5>3 DEF LinkIn
          <6>2. group' = [group EXCEPT ![g] = [group[g] EXCEPT !.children = ds, !.num_children = @ + 1]]
            BY <4>1, <6>1 DEF GroupInv, GroupsTyped
          <6> QED BY <6>2
        <5>4. CountIn(taskgroup[x]) \/ LinkIn(x, Cur(t), taskgroup[x])
          <6>1. kind' = kind
            BY <1>10 DEF Defers
          <6>2. ~(kind' = [kind EXCEPT ![x] = "gone"])
            BY <1>2, <1>3, <6>1, NewTask DEF Typed
          <6> QED BY <1>2, <6>2 DEF Defer
        <5> QED BY <5>2, <5>3, <5>4
      <4>5. PICK es \in Seq(Tasks) :
              group' = [group EXCEPT ![g] = [group[g] EXCEPT !.children = es, !.num_children = @ + 1]]
        BY <4>4
      <4>6. [group[g] EXCEPT !.children = es, !.num_children = @ + 1] \in GroupRecords
        <5>1. group[g].num_children + 1 \in Int
          BY <4>1 DEF GroupRecords
        <5>2. PICK n \in Int : n = group[g].num_children + 1
          BY <5>1
        <5>3. [group[g] EXCEPT !.children = es, !.num_children = n] \in GroupRecords
          BY <4>1 DEF GroupRecords
        <5> QED BY <5>2, <5>3
      <4>7. PICK r \in GroupRecords : r = [group[g] EXCEPT !.children = es, !.num_children = @ + 1]
        BY <4>6
      <4>8. r.prev = group[g].prev /\ r.life = group[g].life /\ r.num_children = group[g].num_children + 1
        BY <4>1, <4>7 DEF GroupRecords
      <4>9. /\ ChainsKept
            /\ \A h \in Groups : group'[h].num_children =
                   IF h = g THEN r.num_children ELSE group[h].num_children
        <5>1. GroupsTyped /\ group' = [group EXCEPT ![g] = r]
          BY <4>5, <4>7 DEF GroupInv
        <5>2. group[g].life # "unused" => r.life # "unused"
          BY <4>8
        <5> QED BY <4>1, <4>8, <5>1, <5>2, OneGroupChanged
      <4> QED BY <1>7, <4>1, <4>8, <4>9
    <3> QED BY <3>1, <3>2
  <2> QED BY <1>3, <1>4, <1>5, <2>2, <2>4, <2>5, HomeStays, CountsOneMore, GroupParts
<1> QED BY <1>1, <1>2, <1>9, <1>10
-----------------------------------------------------------------------------
(* What a loop was entered from.                                           *)

(* What a frame of a stack was entered from: a thread that starts a task   *)
(* in GOMP_taskgroup_end is in a group of its own.                         *)
Below(t, i) == IF i = 1 THEN t ELSE stack[t][i - 1].task

FramesInv ==
    \A t \in Threads : \A i \in DOMAIN stack[t] :
        stack[t][i].ctx = "group" => taskgroup[Below(t, i)] # home[Below(t, i)]

LEMMA BelowIs ==
  ASSUME Typed, StackInv, NEW t \in Threads, NEW i \in DOMAIN stack[t]
  PROVE  /\ Below(t, i) \in Owners
         /\ \A s \in Threads : Below(t, i) # Cur(s)
         /\ Below(t, i) \in Tasks => kind[Below(t, i)] # "unused"
<1>1. /\ stack[t] \in Seq(Frames) /\ DOMAIN stack[t] = 1..Len(stack[t])
      /\ Len(stack[t]) \in Nat
  BY DEF Typed
<1>2. PICK n \in Nat : n = Len(stack[t])
  BY <1>1
<1>3. i \in 1..n /\ DOMAIN stack[t] = 1..n
  BY <1>1, <1>2
<1>4. stack[t] # <<>>
  BY <1>2, <1>3
<1>5. CASE i = 1
  <2>1. Below(t, i) = t /\ t \in Owners /\ t \notin Tasks
    BY <1>5, Names DEF Below
  <2>2. ASSUME NEW s \in Threads, t = Cur(s) PROVE FALSE
    <3>1. stack[s] = <<>>
      BY <2>1, <2>2, CurTyped
    <3>2. s = t
      BY <2>2, <3>1 DEF Cur
    <3> QED BY <1>4, <3>1, <3>2
  <2> QED BY <2>1, <2>2
<1>6. CASE i # 1
  <2>1. i - 1 \in 1..n /\ i - 1 # i /\ i - 1 # n
    BY <1>3, <1>6
  <2>2. PICK j \in DOMAIN stack[t] : j = i - 1 /\ j # n
    BY <1>3, <2>1
  <2>3. Below(t, i) = stack[t][j].task
    BY <1>6, <2>2 DEF Below
  <2>4. stack[t][j] \in Frames
    BY <1>1, <2>2, ElementOfSeq
  <2>5. stack[t][j].task \in Tasks /\ kind[stack[t][j].task] \in {"iffalse", "tied"}
    BY <2>4 DEF StackInv, Frames
  <2>6. ASSUME NEW s \in Threads, stack[t][j].task = Cur(s) PROVE FALSE
    <3>1. stack[s] # <<>>
      BY <2>5, <2>6, CurTyped
    <3>2. Len(stack[s]) \in DOMAIN stack[s] /\ Cur(s) = stack[s][Len(stack[s])].task
      BY <3>1, LastOfStack
    <3>3. s = t /\ j = Len(stack[s])
      BY <2>6, <3>2 DEF StackInv
    <3> QED BY <1>2, <2>2, <3>3
  <2> QED BY <2>3, <2>5, <2>6, Names
<1> QED BY <1>5, <1>6

\* No stack changes, and no task's group but that of the task t is in.
LEMMA FramesStay ==
  ASSUME Typed, StackInv, FramesInv, UNCHANGED <<stack, home>>, NEW t \in Threads,
         \A y \in Owners : y # Cur(t) => taskgroup'[y] = taskgroup[y]
  PROVE  FramesInv'
<1> SUFFICES ASSUME NEW s \in Threads, NEW i \in DOMAIN stack[s], stack[s][i].ctx = "group"
             PROVE  taskgroup'[Below(s, i)] # home[Below(s, i)]
  BY DEF FramesInv, Below
<1>1. Below(s, i) \in Owners /\ Below(s, i) # Cur(t)
  BY BelowIs
<1>2. taskgroup[Below(s, i)] # home[Below(s, i)]
  BY DEF FramesInv
<1> QED BY <1>1, <1>2

\* A task x is entered, by t: a new one, or one from a list.
LEMMA FramesPushed ==
  ASSUME Typed, StackInv, FramesInv, NEW t \in Threads, NEW x \in Tasks, NEW c \in Contexts,
         Push(t, x, c), c = "group" => InOwnGroup(t) /\ UNCHANGED <<taskgroup, home>>,
         \/ UNCHANGED <<taskgroup, home>>
         \/ /\ kind[x] = "unused"
            /\ \A y \in Owners : y # x => taskgroup'[y] = taskgroup[y] /\ home'[y] = home[y]
  PROVE  FramesInv'
<1>1. /\ Len(stack[t]) \in Nat /\ DOMAIN stack[t] = 1..Len(stack[t])
      /\ DOMAIN stack'[t] = 1..Len(stack[t]) + 1
      /\ \A i \in 1..Len(stack[t]) : stack'[t][i] = stack[t][i]
      /\ stack'[t][Len(stack[t]) + 1] = [task |-> x, ctx |-> c]
      /\ \A s \in Threads : s # t => stack'[s] = stack[s]
  BY Pushed
<1>2. PICK n \in Nat : n = Len(stack[t])
  BY <1>1
<1>3. /\ DOMAIN stack[t] = 1..n /\ DOMAIN stack'[t] = 1..n + 1
      /\ \A i \in 1..n : stack'[t][i] = stack[t][i]
      /\ stack'[t][n + 1].ctx = c
  BY <1>1, <1>2
<1>4. ASSUME NEW s \in Threads, NEW i \in DOMAIN stack[s], stack[s][i].ctx = "group"
      PROVE  taskgroup'[Below(s, i)] # home'[Below(s, i)]
  <2>1. taskgroup[Below(s, i)] # home[Below(s, i)]
    BY <1>4 DEF FramesInv
  <2>2. Below(s, i) \in Owners /\ (Below(s, i) \in Tasks => kind[Below(s, i)] # "unused")
    BY BelowIs
  <2> QED BY <2>1, <2>2
<1> SUFFICES ASSUME NEW s \in Threads, NEW i \in DOMAIN stack'[s], stack'[s][i].ctx = "group"
             PROVE  taskgroup'[Below(s, i)'] # home'[Below(s, i)']
  BY DEF FramesInv
<1>5. CASE s # t
  BY <1>1, <1>4, <1>5 DEF Below
<1>6. CASE s = t /\ i # n + 1
  <2>1. i \in 1..n /\ (i # 1 => i - 1 \in 1..n)
    BY <1>3, <1>6
  <2>2. i \in DOMAIN stack[t] /\ stack[t][i].ctx = "group" /\ Below(t, i)' = Below(t, i)
    BY <1>3, <1>6, <2>1 DEF Below
  <2> QED BY <1>4, <1>6, <2>2
<1>7. CASE s = t /\ i = n + 1
  <2>1. c = "group"
    BY <1>3, <1>7
  <2>2. taskgroup[Cur(t)] # home[Cur(t)]
    BY <2>1 DEF InOwnGroup
  <2>3. Below(t, i)' = Cur(t)
    <3>1. CASE n = 0
      <4>1. stack[t] = <<>>
        <5>1. stack[t] \in Seq(Frames)
          BY DEF Typed
        <5>2. PICK q \in Seq(Frames) : q = stack[t]
          BY <5>1
        <5>3. Len(q) = 0 => q = <<>>
          OBVIOUS
        <5> QED BY <1>2, <3>1, <5>2, <5>3
      <4> QED BY <1>7, <3>1, <4>1 DEF Below, Cur
    <3>2. CASE n # 0
      <4>1. stack[t] # <<>>
        BY <1>2, <3>2
      <4>2. Cur(t) = stack[t][n].task
        BY <1>2, <4>1, LastOfStack
      <4>3. n \in 1..n /\ n + 1 # 1 /\ (n + 1) - 1 = n
        BY <3>2
      <4>4. stack'[t][n] = stack[t][n]
        BY <1>3, <4>3
      <4> QED BY <1>7, <4>2, <4>3, <4>4 DEF Below
    <3> QED BY <3>1, <3>2
  <2> QED BY <1>7, <2>1, <2>2, <2>3
<1> QED BY <1>5, <1>6, <1>7

LEMMA FramesPopped ==
  ASSUME Typed, StackInv, FramesInv, NEW t \in Threads, stack[t] # <<>>, Pop(t),
         UNCHANGED <<taskgroup, home>>
  PROVE  /\ FramesInv'
         /\ Context(t) = "group" => InOwnGroup(t)'
<1>1. /\ stack' \in [Threads -> Seq(Frames)]
      /\ Len(stack[t]) \in Nat \ {0} /\ DOMAIN stack[t] = 1..Len(stack[t])
      /\ DOMAIN stack'[t] = 1..Len(stack[t]) - 1
      /\ \A i \in 1..Len(stack[t]) - 1 : stack'[t][i] = stack[t][i]
      /\ \A s \in Threads : s # t => stack'[s] = stack[s]
  BY Popped
<1>2. PICK n \in Nat : n = Len(stack[t]) /\ n # 0
  BY <1>1
<1>3. /\ DOMAIN stack[t] = 1..n /\ DOMAIN stack'[t] = 1..n - 1
      /\ \A i \in 1..n - 1 : stack'[t][i] = stack[t][i]
  BY <1>1, <1>2
<1>4. FramesInv'
  <2> SUFFICES ASSUME NEW s \in Threads, NEW i \in DOMAIN stack'[s], stack'[s][i].ctx = "group"
               PROVE  taskgroup'[Below(s, i)'] # home'[Below(s, i)']
    BY DEF FramesInv
  <2>1. i \in DOMAIN stack[s] /\ stack'[s][i] = stack[s][i] /\ Below(s, i)' = Below(s, i)
    <3>1. CASE s # t
      BY <1>1, <3>1 DEF Below
    <3>2. CASE s = t
      <4>1. i \in 1..n - 1 /\ i \in 1..n /\ (i # 1 => i - 1 \in 1..n - 1)
        BY <1>3, <3>2
      <4> QED BY <1>3, <3>2, <4>1 DEF Below
    <3> QED BY <3>1, <3>2
  <2> QED BY <2>1 DEF FramesInv
<1>5. ASSUME Context(t) = "group" PROVE InOwnGroup(t)'
  <2>1. n \in DOMAIN stack[t] /\ stack[t][n].ctx = "group"
    BY <1>2, <1>5, LastOfStack
  <2>2. taskgroup[Below(t, n)] # home[Below(t, n)]
    BY <2>1 DEF FramesInv
  <2>3. Cur(t)' = Below(t, n)
    <3>1. PICK s \in Seq(Frames) : s = stack'[t]
      BY <1>1
    <3>2. Len(s) \in Nat /\ DOMAIN s = 1..Len(s) /\ DOMAIN s = 1..n - 1 /\ (s = <<>> <=> Len(s) = 0)
      BY <1>3, <3>1
    <3>3. Len(s) = n - 1
      BY <1>2, <3>2
    <3>4. CASE n = 1
      <4>1. s = <<>>
        BY <3>2, <3>3, <3>4
      <4> QED BY <3>1, <3>4, <4>1 DEF Cur, Below
    <3>5. CASE n # 1
      <4>1. s # <<>>
        BY <1>2, <3>2, <3>3, <3>5
      <4>2. Cur(t)' = s[n - 1].task
        BY <3>1, <3>3, <4>1 DEF Cur, Last
      <4>3. n - 1 \in 1..n - 1
        <5>1. \A k \in Nat : k # 0 /\ k # 1 => k - 1 \in 1..k - 1
          OBVIOUS
        <5> QED BY <1>2, <3>5, <5>1
      <4>4. s[n - 1] = stack[t][n - 1]
        BY <1>3, <3>1, <4>3
      <4> QED BY <3>5, <4>2, <4>4 DEF Below
    <3> QED BY <3>4, <3>5
  <2> QED BY <2>2, <2>3 DEF InOwnGroup
<1> QED BY <1>4, <1>5
-----------------------------------------------------------------------------
(* Ends of tasks in their groups.                                          *)

\* The members released by a task's end enter their group's list.
LEMMA ReceivesTyped ==
  ASSUME NEW r \in GroupRecords, NEW cs \in Seq(Tasks)
  PROVE  /\ GroupReceives(r, cs) \in GroupRecords
         /\ GroupReceives(r, cs).prev = r.prev /\ GroupReceives(r, cs).life = r.life
         /\ GroupReceives(r, cs).num_children = r.num_children
<1>1. CASE cs = <<>>
  BY <1>1 DEF GroupReceives
<1>2. CASE cs # <<>>
  <2>1. r.children \in Seq(Tasks) /\ r.sem \in Int
    BY DEF GroupRecords
  <2>2. Reverse(cs) \o r.children \in Seq(Tasks)
    BY <2>1, ReverseTyped, ConcatTyped
  <2>3. PICK ds \in Seq(Tasks) : ds = Reverse(cs) \o r.children
    BY <2>2
  <2>4. PICK n \in Int : n = IF r.in_taskgroup_wait THEN r.sem + 1 ELSE r.sem
    BY <2>1
  <2>5. GroupReceives(r, cs) = [r EXCEPT !.children = ds, !.in_taskgroup_wait = FALSE, !.sem = n]
    BY <1>2, <2>3, <2>4 DEF GroupReceives, GroupRecords
  <2>6. [r EXCEPT !.children = ds, !.in_taskgroup_wait = FALSE, !.sem = n] \in GroupRecords
    BY DEF GroupRecords
  <2> QED BY <2>5, <2>6 DEF GroupRecords
<1> QED BY <1>1, <1>2

\* The task x that t finishes is counted out of its group.
LEMMA CountedOut ==
  ASSUME Typed, CoreInv, PosInv, NEW t \in Threads, NEW x \in Tasks, x = Cur(t),
         tpc[t] \in Finishing, UNCHANGED <<status, stack>>,
         \A s \in Threads : s # t => tpc'[s] = tpc[s]
  PROVE  /\ \A y : y # x => (Counted(y)' <=> Counted(y))
         /\ Counted(x) <=> tpc[t] # "finish3" /\ (tpc[t] \in Late => Context(t) # "group")
         /\ Counted(x)' <=> tpc'[t] # "finish3" /\ (tpc'[t] \in Late => Context(t) # "group")
<1>1. \A s \in Threads : Cur(s)' = Cur(s) /\ Context(s)' = Context(s)
  BY DEF Cur, Context
<1>2. /\ status[x] = "running"
      /\ \A s \in Threads : s # t => Cur(s) # x
  BY FinishedTask DEF CoreInv
<1>3. \A y : y # x => (Uncounted(y)' <=> Uncounted(y))
  BY <1>1 DEF Uncounted
<1>4. /\ Uncounted(x) <=> tpc[t] = "finish3" \/ (tpc[t] \in Late /\ Context(t) = "group")
      /\ Uncounted(x)' <=> tpc'[t] = "finish3" \/ (tpc'[t] \in Late /\ Context(t) = "group")
  BY <1>1, <1>2 DEF Uncounted
<1>5. \A y : Unfinished(y)' <=> Unfinished(y)
  BY DEF Unfinished
<1>6. Unfinished(x)
  BY <1>2 DEF Unfinished
<1> QED BY <1>3, <1>4, <1>5, <1>6 DEF Counted

\* A task is counted out of its group in the first part, by the loop of
\* GOMP_taskgroup_end, or else in the second.
LEMMA Finish1Groups ==
  ASSUME Typed, CoreInv, PosInv, GroupInv, NEW t \in Threads, Finish1(t)
  PROVE  GroupInv'
<1>1. PICK x \in Tasks : x = Cur(t)
  BY TaskReleases
<1>2. /\ tpc[t] = "finish1" /\ UNCHANGED <<tbVars, taskgroup, home, stack, new>>
      /\ group' = [h \in Groups |->
                LET r == GroupReceives(group[h], InGroup(Released(x), h))
                IN IF Context(t) = "group" /\ h = taskgroup[x]
                   THEN [r EXCEPT !.children = RemoveFirst(@, x),
                                  !.num_children = @ - 1]
                   ELSE r]
  BY <1>1 DEF Finish1, bodyVars
<1>3. UNCHANGED status
  BY <1>2 DEF tbVars
<1>4. tpc'[t] \in {"finish2", "finish2null"} /\ OthersHere(t)
  BY TaskReleases DEF Releases, OthersKeep, OthersHere
<1>5. ASSUME NEW h \in Groups
      PROVE  /\ group'[h] \in GroupRecords /\ group'[h].prev = group[h].prev
             /\ group'[h].life = group[h].life
             /\ group'[h].num_children =
                  IF Context(t) = "group" /\ h = taskgroup[x]
                  THEN group[h].num_children - 1 ELSE group[h].num_children
  <2>1. PICK cs \in Seq(Tasks) : cs = InGroup(Released(x), h)
    <3>1. InGroup(Released(x), h) \in Seq(Tasks)
      BY ReleasedAre, AmongTyped DEF InGroup
    <3> QED BY <3>1
  <2>2. PICK r \in GroupRecords :
          /\ r = GroupReceives(group[h], cs)
          /\ r.prev = group[h].prev /\ r.life = group[h].life
          /\ r.num_children = group[h].num_children
    BY ReceivesTyped DEF GroupInv, GroupsTyped
  <2>3. CASE ~(Context(t) = "group" /\ h = taskgroup[x])
    BY <1>2, <2>1, <2>2, <2>3
  <2>4. CASE Context(t) = "group" /\ h = taskgroup[x]
    <3>1. PICK ds \in Seq(Tasks) : ds = RemoveFirst(r.children, x)
      BY RemoveTyped DEF GroupRecords
    <3>2. PICK n \in Int : n = r.num_children - 1
      BY DEF GroupRecords
    <3>3. group'[h] = [r EXCEPT !.children = ds, !.num_children = n]
      BY <1>2, <2>1, <2>2, <2>4, <3>1, <3>2 DEF GroupRecords
    <3>4. [r EXCEPT !.children = ds, !.num_children = n] \in GroupRecords
      BY DEF GroupRecords
    <3>5. PICK q \in GroupRecords : q = [r EXCEPT !.children = ds, !.num_children = n]
      BY <3>4
    <3>6. q.prev = r.prev /\ q.life = r.life /\ q.num_children = n
      BY <3>5 DEF GroupRecords
    <3> QED BY <2>2, <2>4, <3>2, <3>3, <3>5, <3>6
  <2> QED BY <2>3, <2>4
<1>6. ChainsKept
  BY <1>2, <1>5 DEF ChainsKept
<1>7. AtHome(t)'
  <2>1. AtHome(t) /\ Cur(t)' = Cur(t)
    BY <1>2 DEF GroupInv, Cur
  <2> QED BY <1>2, <1>4, <2>1 DEF AtHome, Finishing, Late
<1>8. taskgroup[x] = home[x]
  BY <1>1, <1>2 DEF GroupInv, AtHome, Finishing
<1>9. \A g \in Groups : group'[g].num_children = Cardinality(Members(g)')
  <2>1. /\ \A y : y # x => (Counted(y)' <=> Counted(y))
        /\ Counted(x) /\ (Counted(x)' <=> Context(t) # "group")
    <3>1. tpc[t] \in Finishing /\ UNCHANGED <<status, stack>>
      BY <1>2, <1>3 DEF Finishing
    <3>2. \A s \in Threads : s # t => tpc'[s] = tpc[s]
      BY <1>4 DEF OthersHere
    <3> QED BY <1>1, <1>2, <1>4, <3>1, <3>2, CountedOut DEF Late
  <2>2. CASE Context(t) = "group"
    <3>1. \A g \in Groups : group'[g].num_children =
             IF g = home[x] THEN group[g].num_children - 1 ELSE group[g].num_children
      BY <1>5, <1>8, <2>2
    <3> QED BY <1>2, <2>1, <2>2, <3>1, CountsOneLess
  <2>3. CASE Context(t) # "group"
    BY <1>2, <1>5, <2>1, <2>3, CountsStay
  <2> QED BY <2>2, <2>3
<1>10. \A y \in Tasks : status'[y] \in {"blocked", "queued"} => taskgroup[y] = home[y]
  BY <1>3 DEF GroupInv
<1> QED BY <1>2, <1>4, <1>6, <1>7, <1>9, <1>10, HomeStays, GroupParts

LEMMA Finish2Groups ==
  ASSUME Typed, CoreInv, PosInv, GroupInv, NEW t \in Threads, Finish2(t)
  PROVE  GroupInv'
<1>1. PICK x \in Tasks : x = Cur(t)
  BY FinishOrphans
<1>2. /\ tpc[t] \in {"finish2", "finish2null"}
      /\ UNCHANGED <<tbVars, taskgroup, home, stack, new>> /\ TGoto(t, "finish3")
      /\ group' = IF taskgroup[x] = None \/ Context(t) = "group" THEN group
                  ELSE [group EXCEPT ![taskgroup[x]].num_children = Decrement(@)]
  BY <1>1 DEF Finish2, bodyVars
<1>3. UNCHANGED status
  BY <1>2 DEF tbVars
<1>4. tpc'[t] = "finish3" /\ OthersHere(t)
  BY <1>2, TGotoMoves DEF TMoved, OthersHere
<1>5. AtHome(t)'
  <2>1. AtHome(t) /\ Cur(t)' = Cur(t)
    BY <1>2 DEF GroupInv, Cur
  <2> QED BY <1>2, <1>4, <2>1 DEF AtHome, Finishing, Late
<1>6. taskgroup[x] = home[x]
  BY <1>1, <1>2 DEF GroupInv, AtHome, Finishing, Late
<1>7. /\ \A y : y # x => (Counted(y)' <=> Counted(y))
      /\ ~Counted(x)' /\ (Counted(x) <=> Context(t) # "group")
  <2>1. tpc[t] \in Finishing /\ UNCHANGED <<status, stack>>
    BY <1>2, <1>3 DEF Finishing, Late
  <2>2. \A s \in Threads : s # t => tpc'[s] = tpc[s]
    BY <1>4 DEF OthersHere
  <2> QED BY <1>1, <1>2, <1>4, <2>1, <2>2, CountedOut DEF Late
<1>8. \A y \in Tasks : status'[y] \in {"blocked", "queued"} => taskgroup[y] = home[y]
  BY <1>3 DEF GroupInv
<1>9. /\ ChainsKept
      /\ \A g \in Groups : group'[g].num_children = Cardinality(Members(g)')
  <2>1. CASE Context(t) = "group"
    <3>1. group' = group
      BY <1>2, <2>1
    <3> QED BY <1>2, <1>7, <2>1, <3>1, GroupsSame, CountsStay DEF GroupInv
  <2>2. CASE Context(t) # "group" /\ taskgroup[x] = None
    <3>1. group' = group /\ None \notin Groups
      BY <1>2, <2>2, Names
    <3> QED BY <1>2, <1>6, <1>7, <2>2, <3>1, GroupsSame, CountsOneLess DEF GroupInv
  <2>3. CASE Context(t) # "group" /\ taskgroup[x] # None
    <3>1. PICK g \in Groups : g = taskgroup[x] /\ group[g] \in GroupRecords
      BY <2>3 DEF GroupInv, GroupsTyped, Owners
    <3>2. group[g].num_children = Cardinality(Members(g)) /\ x \in Members(g)
      BY <1>6, <1>7, <2>3, <3>1 DEF GroupInv, Members
    <3>3. Cardinality(Members(g)) \in Nat \ {0}
      BY <3>2, MembersFinite, FS_EmptySet
    <3>4. PICK n \in Int : n = group[g].num_children - 1 /\ n = Decrement(group[g].num_children)
      BY <3>2, <3>3 DEF Decrement
    <3>5. group' = [group EXCEPT ![g].num_children = n]
      BY <1>2, <2>3, <3>1, <3>4
    <3>6. [group[g] EXCEPT !.num_children = n] \in GroupRecords
      BY <3>1 DEF GroupRecords
    <3>7. PICK r \in GroupRecords : r = [group[g] EXCEPT !.num_children = n]
      BY <3>6
    <3>8. r.prev = group[g].prev /\ r.life = group[g].life /\ r.num_children = n
      BY <3>1, <3>7 DEF GroupRecords
    <3>9. /\ ChainsKept
          /\ \A h \in Groups : group'[h].num_children =
                 IF h = g THEN r.num_children ELSE group[h].num_children
      <4>1. GroupsTyped /\ group' = [group EXCEPT ![g] = r]
        BY <3>5, <3>7 DEF GroupInv
      <4>2. group[g].life # "unused" => r.life # "unused"
        BY <3>8
      <4> QED BY <3>1, <3>8, <4>1, <4>2, OneGroupChanged
    <3> QED BY <1>2, <1>6, <1>7, <2>3, <3>1, <3>4, <3>8, <3>9, CountsOneLess
  <2> QED BY <2>1, <2>2, <2>3
<1> QED BY <1>2, <1>4, <1>5, <1>8, <1>9, HomeStays, GroupParts

LEMMA Finish3Groups ==
  ASSUME Typed, CoreInv, PosInv, GroupInv, FramesInv, NEW t \in Threads, Finish3(t)
  PROVE  GroupInv'
<1>1. PICK x \in Tasks : x = Cur(t) /\ Ends(t, x) /\ OthersKeep(t)
  BY TaskEnds
<1>2. /\ tpc[t] = "finish3" /\ UNCHANGED <<taskgroup, home>> /\ Pop(t)
      /\ group' = IF Context(t) = "group" THEN group ELSE LeaveGroup(x)
      /\ new' = new /\ new[t] = None /\ stack[t] # <<>> /\ PosOf(t)
  BY <1>1 DEF Finish3, bodyVars, PosInv, Ends
<1>3. OthersHere(t)
  BY <1>1 DEF OthersKeep, OthersHere
<1>4. AtHome(t)'
  <2>1. tpc'[t] \in {"code", "taskwait", "taskgroup"}
    BY <1>1 DEF Ends
  <2>2. tpc'[t] = "taskgroup" => Context(t) = "group"
    <3>1. Context(t) \in Contexts /\ Context(t) # "inline"
      BY <1>2, LastOfStack DEF PosOf, Finishing, Late
    <3>2. TGoto(t, IF Context(t) = "barrier" THEN "code"
                   ELSE IF Context(t) = "taskwait" THEN "taskwait" ELSE "taskgroup")
      BY DEF Finish3
    <3>3. tpc'[t] = IF Context(t) = "barrier" THEN "code"
                   ELSE IF Context(t) = "taskwait" THEN "taskwait" ELSE "taskgroup"
      BY <3>2 DEF TGoto, Typed
    <3> QED BY <3>1, <3>3 DEF Contexts
  <2>3. Context(t) = "group" => InOwnGroup(t)'
    BY <1>2, FramesPopped DEF CoreInv
  <2> QED BY <1>2, <2>1, <2>2, <2>3 DEF AtHome, Finishing, Late
<1>5. /\ \A s \in Threads : s # t => Cur(s)' = Cur(s) /\ Cur(s) # x
      /\ \A y \in Tasks : Unfinished(y)' <=> Unfinished(y) /\ y # x
  BY <1>1, EndFacts
<1>6. \A y \in Tasks : Counted(y)' <=> Counted(y)
  <2>1. \A s \in Threads : s # t => tpc[s] \notin Late /\ tpc'[s] = tpc[s]
    BY <1>2, <1>3, FinishedTask DEF CoreInv, Finishing, Late, OthersHere
  <2>2. tpc'[t] \notin Late
    BY <1>1 DEF Ends, Late
  <2>3. \A s \in Threads : tpc'[s] \notin Late /\ tpc'[s] # "finish3"
    BY <2>1, <2>2 DEF Late
  <2>4. \A y : ~Uncounted(y)'
    BY <2>3 DEF Uncounted
  <2>5. Uncounted(x)
    BY <1>1, <1>2 DEF Uncounted
  <2>6. \A y : y # x => ~Uncounted(y)
    BY <1>1, <2>1 DEF Uncounted, Late
  <2> QED BY <1>5, <2>4, <2>5, <2>6 DEF Counted
<1>7. \A y \in Tasks : status'[y] \in {"blocked", "queued"} => taskgroup[y] = home[y]
  <2>1. /\ status'[x] = "done"
        /\ \A y \in Tasks : y # x => status'[y] = IF Ready(y) THEN "queued" ELSE status[y]
    BY <1>1 DEF Ends
  <2>2. \A y \in Tasks : status'[y] \in {"blocked", "queued"} => status[y] \in {"blocked", "queued"}
    BY <2>1 DEF Ready
  <2> QED BY <2>2 DEF GroupInv
<1>8. ChainsKept /\ \A h \in Groups : group'[h].num_children = group[h].num_children
  <2>1. CASE Context(t) = "group" \/ taskgroup[x] = None
    <3>1. group' = group
      BY <1>2, <2>1 DEF LeaveGroup
    <3> QED BY <3>1, GroupsSame DEF GroupInv
  <2>2. CASE Context(t) # "group" /\ taskgroup[x] # None
    <3>1. PICK g \in Groups : g = taskgroup[x] /\ group[g] \in GroupRecords
      BY <2>2 DEF GroupInv, GroupsTyped, Owners
    <3>2. PICK cs \in Seq(Tasks) : cs = RemoveFirst(group[g].children, x)
      BY <3>1, RemoveTyped DEF GroupRecords
    <3>3. \E b \in BOOLEAN, n \in Int :
            group' = [group EXCEPT ![g].children = cs, ![g].in_taskgroup_wait = b, ![g].sem = n]
      <4>1. group[g].sem \in Int /\ group[g].sem + 1 \in Int /\ group[g].in_taskgroup_wait \in BOOLEAN
        BY <3>1 DEF GroupRecords
      <4> DEFINE wakes == cs = <<>> /\ group[g].children # <<>> /\ group[g].in_taskgroup_wait
      <4>2. group' = [group EXCEPT ![g].children = cs,
                          ![g].in_taskgroup_wait = @ /\ ~wakes,
                          ![g].sem = IF wakes THEN @ + 1 ELSE @]
        BY <1>2, <2>2, <3>1, <3>2 DEF LeaveGroup
      <4>3. CASE wakes
        <5>1. group' = [group EXCEPT ![g].children = cs, ![g].in_taskgroup_wait = FALSE,
                                     ![g].sem = group[g].sem + 1]
          BY <3>1, <4>2, <4>3 DEF GroupInv, GroupsTyped
        <5> QED BY <4>1, <5>1
      <4>4. CASE ~wakes
        <5>1. group' = [group EXCEPT ![g].children = cs,
                           ![g].in_taskgroup_wait = group[g].in_taskgroup_wait,
                           ![g].sem = group[g].sem]
          BY <3>1, <4>1, <4>2, <4>4 DEF GroupInv, GroupsTyped
        <5> QED BY <4>1, <5>1
      <4> QED BY <4>3, <4>4
    <3>4. PICK b \in BOOLEAN, n \in Int :
            group' = [group EXCEPT ![g].children = cs, ![g].in_taskgroup_wait = b, ![g].sem = n]
      BY <3>3
    <3>5. [group[g] EXCEPT !.children = cs, !.in_taskgroup_wait = b, !.sem = n] \in GroupRecords
      BY <3>1 DEF GroupRecords
    <3>6. PICK r \in GroupRecords :
            r = [group[g] EXCEPT !.children = cs, !.in_taskgroup_wait = b, !.sem = n]
      BY <3>5
    <3>7. r.prev = group[g].prev /\ r.life = group[g].life /\ r.num_children = group[g].num_children
      BY <3>1, <3>6 DEF GroupRecords
    <3>8. /\ ChainsKept
          /\ \A h \in Groups : group'[h].num_children =
                 IF h = g THEN r.num_children ELSE group[h].num_children
      <4>1. GroupsTyped
        BY DEF GroupInv
      <4>2. group[g].life # "unused" => r.life # "unused"
        BY <3>7
      <4>3. group' = [group EXCEPT ![g] = r]
        BY <3>4, <3>6, <4>1 DEF GroupsTyped
      <4> QED BY <3>1, <3>7, <4>1, <4>2, <4>3, OneGroupChanged
    <3> QED BY <3>7, <3>8
  <2> QED BY <2>1, <2>2
<1> QED BY <1>2, <1>3, <1>4, <1>6, <1>7, <1>8, HomeStays, CountsStay, GroupParts

\* An undeferred task is counted in no group.
LEMMA InlineGroups ==
  ASSUME Typed, CoreInv, PosInv, GroupInv, NEW t \in Threads, InlineEnd(t)
  PROVE  GroupInv'
<1>1. /\ tpc[t] = "code" /\ UNCHANGED <<tbVars, group, taskgroup, home, tpc, new>> /\ Pop(t)
  BY DEF InlineEnd, InCode, bodyVars
<1>2. OthersHere(t)
  BY InlineOrphans DEF OthersKeep, OthersHere
<1>3. UNCHANGED status /\ new[t] = None
  BY <1>1 DEF tbVars, PosInv, PosOf
<1>4. AtHome(t)'
  BY <1>1, <1>3 DEF AtHome, Finishing, Late
<1>5. \A y \in Tasks : Counted(y)' <=> Counted(y)
  <2>1. \A y : Uncounted(y)' <=> Uncounted(y)
    BY <1>1, <1>2, CountedSame DEF Late
  <2> QED BY <1>3, <2>1 DEF Counted, Unfinished
<1>6. ChainsKept
  BY <1>1, GroupsSame DEF GroupInv
<1>7. \A y \in Tasks : status'[y] \in {"blocked", "queued"} => taskgroup[y] = home[y]
  BY <1>3 DEF GroupInv
<1> QED BY <1>1, <1>2, <1>4, <1>5, <1>6, <1>7, HomeStays, CountsStay, GroupParts

\* A task is created in the group of the task that creates it.
LEMMA NewGroups ==
  ASSUME Typed, CoreInv, PosInv, GroupInv, region \in Regions, NEW t \in Threads, GompTask(t),
         NEW x \in Tasks, NEW d, Begins(t, x, d), OthersKeep(t)
  PROVE  /\ GroupInv'
         /\ \A y \in Owners : y # x => taskgroup'[y] = taskgroup[y] /\ home'[y] = home[y]
<1>1. /\ tpc[t] = "code" /\ kind[x] = "unused" /\ new[t] = None
      /\ UNCHANGED status /\ \A s \in Threads : tpc'[s] \in Late <=> tpc[s] \in Late
      /\ \A y : Unfinished(y)' <=> Unfinished(y)
      /\ \A y \in Tasks : Unfinished(y) => y # x
      /\ \A s \in Threads : s # t => Cur(s)' = Cur(s)
      /\ \A s \in Threads : new[s] # x
  BY BeginFacts DEF Begins
<1>2. Cur(t) \in Owners /\ GroupsTyped /\ x \in Owners
  BY CurTyped DEF GroupInv, Owners
<1>3. UNCHANGED group
  BY DEF GompTask
<1>4. \E y \in Tasks : /\ taskgroup' = [taskgroup EXCEPT ![y] = taskgroup[Cur(t)]]
                       /\ home' = [home EXCEPT ![y] = taskgroup[Cur(t)]]
                       /\ parent' = [parent EXCEPT ![y] = Cur(t)] /\ kind[y] = "unused"
  <2>1. \E y \in region.tasks : kind[y] = "unused"
    BY DEF GompTask
  <2>2. FreshTask \in region.tasks /\ kind[FreshTask] = "unused"
    BY <2>1 DEF FreshTask
  <2>3. FreshTask \in Tasks
    BY <2>2, Names
  <2>4. \E e : InitTask(t, FreshTask, e)
    BY DEF GompTask
  <2>5. PICK z \in Tasks : z = FreshTask
    BY <2>3
  <2>6. PICK e : InitTask(t, z, e)
    BY <2>4, <2>5
  <2> QED BY <2>2, <2>5, <2>6 DEF InitTask, GroupOfNew
<1>5. PICK y \in Tasks : /\ taskgroup' = [taskgroup EXCEPT ![y] = taskgroup[Cur(t)]]
                         /\ home' = [home EXCEPT ![y] = taskgroup[Cur(t)]]
                         /\ parent' = [parent EXCEPT ![y] = Cur(t)] /\ kind[y] = "unused"
  BY <1>4
<1>6. y = x
  <2>1. parent'[x] = Cur(t) /\ parent[x] = None
    BY BeginFacts DEF Begins, Typed
  <2> QED BY <1>2, <1>5, <2>1, Names DEF Typed
<1>7. /\ taskgroup'[x] = taskgroup[Cur(t)] /\ home'[x] = taskgroup[Cur(t)]
      /\ \A z \in Owners : z # x => taskgroup'[z] = taskgroup[z] /\ home'[z] = home[z]
      /\ GroupsTyped'
  BY <1>2, <1>3, <1>5, <1>6 DEF GroupsTyped
<1>8. ASSUME NEW s \in Threads PROVE Cur(s) # x
  BY <1>1, CurTyped, KindOnStack DEF CoreInv
<1>9. \A s \in Threads : AtHome(s)'
  <2>1. ASSUME NEW s \in Threads, s # t PROVE AtHome(s)'
    <3>1. AtHome(s) /\ tpc'[s] = tpc[s] /\ new'[s] = new[s] /\ Cur(s)' = Cur(s)
      BY <1>1, <2>1 DEF GroupInv, OthersKeep
    <3>2. Cur(s) \in Owners /\ Cur(s) # x
      BY <1>8, CurTyped
    <3>3. new[s] # None => new[s] \in Owners /\ new[s] # x
      BY <1>1 DEF Typed, Owners
    <3> QED BY <1>7, <3>1, <3>2, <3>3 DEF AtHome, InOwnGroup
  <2>2. AtHome(t)'
    <3>1. tpc'[t] \in {"code", "defer"}
      BY DEF Begins, TMoved
    <3>2. new'[t] = None \/ new'[t] = x
      BY <1>1 DEF Begins, Typed
    <3> QED BY <1>7, <3>1, <3>2 DEF AtHome, Finishing, Late
  <2> QED BY <2>1, <2>2
<1>10. ASSUME NEW z \in Owners PROVE Known(home[z])' /\ ChainOf(z)'
  <2>1. Known(home[z]) /\ ChainOf(z) /\ Known(home[Cur(t)]) /\ ChainOf(Cur(t))
    BY <1>2 DEF GroupInv
  <2>2. CASE z # x
    BY <1>3, <1>7, <2>1, <2>2 DEF ChainOf, Known
  <2>3. CASE z = x
    <3>1. Known(taskgroup[Cur(t)])
      BY <2>1 DEF ChainOf
    <3>2. Known(home[z])'
      BY <1>3, <1>7, <2>3, <3>1 DEF Known
    <3>3. ChainOf(z)'
      <4>1. {} \in SUBSET Groups /\ taskgroup'[z] \in {} \cup {home'[z]}
        BY <1>7, <2>3
      <4> QED BY <4>1 DEF ChainOf
    <3> QED BY <3>2, <3>3
  <2> QED BY <2>2, <2>3
<1>11. \A z \in Tasks : status'[z] \in {"blocked", "queued"} => taskgroup'[z] = home'[z]
  BY <1>1, <1>7 DEF GroupInv, Unfinished, Owners
<1>12. \A g \in Groups : group'[g].num_children = Cardinality(Members(g)')
  <2>1. \A z : Uncounted(z)' <=> Uncounted(z)
    <3>1. OthersHere(t) /\ tpc[t] \notin Late /\ tpc'[t] \notin Late
      BY <1>1 DEF OthersKeep, OthersHere, Late
    <3> QED BY <3>1, CountedSame
  <2>2. \A z \in Tasks : (Counted(z)' <=> Counted(z)) /\ (Counted(z) => z # x)
    BY <1>1, <2>1 DEF Counted
  <2>3. \A g : Members(g)' = Members(g)
    BY <1>7, <2>2 DEF Members, Owners
  <2> QED BY <1>3, <2>3 DEF GroupInv
<1> QED BY <1>7, <1>9, <1>10, <1>11, <1>12 DEF GroupInv
-----------------------------------------------------------------------------
\* Every step keeps the groups' counts and the frames.
LEMMA StepGroups ==
  ASSUME BarrierFacts, Typed, CoreInv, PosInv, GroupInv, FramesInv, region \in Regions,
         NEW t \in Threads, RuntimeStep(t) \/ Ending(t) \/ Choice(t)
  PROVE  GroupInv' /\ FramesInv'
<1>0. StackInv
  BY DEF CoreInv
<1>1. ASSUME SameTasks, UNCHANGED <<taskgroup, home>> PROVE FramesInv'
  <2>1. UNCHANGED <<stack, home>> /\ \A y \in Owners : y # Cur(t) => taskgroup'[y] = taskgroup[y]
    BY <1>1 DEF SameTasks
  <2> QED BY <1>0, <2>1, FramesStay
<1>2. ASSUME SameTasks, SameEnds, UNCHANGED ownVars PROVE GroupInv' /\ FramesInv'
  <2>1. UNCHANGED <<taskgroup, home>>
    BY <1>2 DEF ownVars, bodyVars
  <2> QED BY <1>1, <1>2, <2>1, OwnGroups
<1>3. ASSUME NEW x \in Tasks, NEW c \in Contexts, Starts(t, x, c), RunPre(x), OthersKeep(t),
             UNCHANGED <<taskgroup, home>>, tpc'[t] \in {"code", "finish1"},
             c = "group" => InOwnGroup(t)
      PROVE  GroupInv' /\ FramesInv'
  <2>1. Push(t, x, c)
    BY <1>3 DEF Starts
  <2>2. FramesInv'
    BY <1>0, <1>3, <2>1, FramesPushed
  <2> QED BY <1>3, <2>2, StartGroups
<1>4. CASE BarrierStep(t) \/ Interrupted(t)
  <2>1. SameTasks /\ SameEnds
    BY <1>4, BarrierStepQuiet DEF BarrierFacts
  <2>2. UNCHANGED ownVars
    BY <1>4 DEF BarrierStep, Interrupted
  <2> QED BY <1>2, <2>1, <2>2
<1>5. CASE EnterBarrier(t) \/ Cancellation(t)
  <2>1. SameTasks /\ SameEnds
    BY <1>5, ImplicitQuiet
  <2>2. UNCHANGED ownVars
    BY <1>5 DEF EnterBarrier, Cancellation
  <2> QED BY <1>2, <2>1, <2>2
<1>6. CASE BarrierLoop(t)
  <2>1. CASE task_queue = <<>>
    <3>1. SameTasks /\ SameEnds
      BY <1>6, <2>1, LoopReturns
    <3>2. UNCHANGED ownVars
      BY <1>6, <2>1 DEF BarrierLoop
    <3> QED BY <1>2, <3>1, <3>2
  <2>2. CASE task_queue # <<>>
    <3>1. btask[t] = None
      BY <1>6 DEF BarrierFacts, BarrierLoop, TB!LoopTop
    <3>2. PICK x \in Tasks : Starts(t, x, "barrier") /\ RunPre(x) /\ OthersKeep(t)
      BY <1>6, <2>2, <3>1, LoopStarts
    <3>3. \E l \in {"code", "finish1"} : TGoto(t, l)
      BY <1>6, <2>2 DEF BarrierLoop
    <3>4. tpc'[t] \in {"code", "finish1"}
      BY <3>3, TGotoMoves DEF TMoved
    <3>5. UNCHANGED <<taskgroup, home>>
      BY <1>6, <2>2 DEF BarrierLoop
    <3>6. "barrier" \in Contexts
      BY DEF Contexts
    <3> QED BY <1>3, <3>2, <3>4, <3>5, <3>6
  <2> QED BY <2>1, <2>2
<1>7. CASE Defer(t)
  <2>1. UNCHANGED <<stack, home, taskgroup>>
    BY <1>7 DEF Defer
  <2>2. \A y \in Owners : y # Cur(t) => taskgroup'[y] = taskgroup[y]
    BY <2>1
  <2>3. FramesInv'
    BY <1>0, <2>1, <2>2, FramesStay
  <2> QED BY <1>7, <2>3, DeferGroups
<1>8. CASE TaskwaitLoop(t) \/ TaskgroupLoop(t)
  <2>1. ASSUME NEW x \in Tasks, NEW c \in {"taskwait", "group"}, kind[x] = "waiting",
               StartTask(t, x, c), c = "group" => tpc[t] = "taskgroup"
        PROVE  GroupInv' /\ FramesInv'
    <3>1. tpc[t] \in {"taskwait", "taskgroup"} /\ RunPre(x) /\ c \in Contexts
      BY <1>8, <2>1 DEF TaskwaitLoop, TaskgroupLoop, StartTask, Contexts
    <3>2. Starts(t, x, c) /\ OthersKeep(t)
      BY <2>1, <3>1, TaskStarts
    <3>3. UNCHANGED <<taskgroup, home>> /\ \E l \in {"code", "finish1"} : TGoto(t, l)
      BY <2>1 DEF StartTask, bodyVars
    <3>4. tpc'[t] \in {"code", "finish1"}
      BY <3>3, TGotoMoves DEF TMoved
    <3>5. c = "group" => InOwnGroup(t)
      BY <2>1 DEF GroupInv, AtHome
    <3> QED BY <1>3, <3>1, <3>2, <3>3, <3>4, <3>5
  <2>2. CASE TaskwaitLoop(t) /\ TB!WaitUnlock(t)
    <3>1. SameTasks
      BY <2>2, TaskwaitQuiet
    <3>2. UNCHANGED <<taskgroup, home>>
      BY <2>2, NotTaken DEF TaskwaitLoop, StartTask, bodyVars
    <3> QED BY <1>1, <2>2, <3>1, <3>2, TaskwaitGroups
  <2>3. CASE TaskgroupLoop(t) /\ TB!WaitUnlock(t)
    <3>1. SameTasks
      BY <2>3, TaskgroupQuiet
    <3>2. UNCHANGED home /\ \A y \in Owners : y # Cur(t) => taskgroup'[y] = taskgroup[y]
      BY <2>3, NotTaken DEF TaskgroupLoop, StartTask, bodyVars, FreeGroup, GroupInv, GroupsTyped
    <3>3. UNCHANGED <<stack, home>>
      BY <3>1, <3>2 DEF SameTasks
    <3>4. FramesInv'
      BY <1>0, <3>2, <3>3, FramesStay
    <3> QED BY <2>3, <3>4, TaskgroupGroups
  <2>4. CASE TaskwaitLoop(t) /\ ~TB!WaitUnlock(t)
    <3>1. /\ children[Cur(t)] # <<>> /\ kind[Head(children[Cur(t)])] = "waiting"
          /\ StartTask(t, Head(children[Cur(t)]), "taskwait")
      BY <2>4 DEF TaskwaitLoop
    <3>2. children[Cur(t)] \in Seq(Tasks)
      BY CurTyped DEF Typed
    <3>3. Head(children[Cur(t)]) \in Tasks
      BY <3>1, <3>2
    <3> QED BY <2>1, <3>1, <3>3
  <2>5. CASE TaskgroupLoop(t) /\ ~TB!WaitUnlock(t)
    <3> DEFINE cs == group[taskgroup[Cur(t)]].children
    <3>1. cs # <<>> /\ kind[Head(cs)] = "waiting" /\ StartTask(t, Head(cs), "group")
          /\ tpc[t] = "taskgroup"
      BY <2>5 DEF TaskgroupLoop
    <3>2. InOwnGroup(t)
      BY <3>1 DEF GroupInv, AtHome
    <3>3. cs \in Seq(Tasks)
      BY <3>2, WaitedGroup
    <3>4. Head(cs) \in Tasks
      BY <3>1, <3>3
    <3> QED BY <2>1, <3>1, <3>4
  <2> QED BY <1>8, <2>2, <2>3, <2>4, <2>5
<1>9. CASE Taskwait(t) \/ TaskwaitWake(t)
  <2>1. SameTasks
    BY <1>9, TaskwaitQuiet
  <2>2. UNCHANGED <<taskgroup, home>>
    BY <1>9 DEF Taskwait, TaskwaitWake, bodyVars
  <2> QED BY <1>1, <1>9, <2>1, <2>2, TaskwaitGroups
<1>10. CASE TaskgroupStart(t) \/ TaskgroupEnd(t) \/ TaskgroupWake(t) \/ CancelTaskgroup(t)
  <2>1. SameTasks
    BY <1>10, TaskgroupQuiet
  <2>2. UNCHANGED home /\ \A y \in Owners : y # Cur(t) => taskgroup'[y] = taskgroup[y]
    <3>1. CASE TaskgroupStart(t)
      BY <3>1 DEF TaskgroupStart, GroupInv, GroupsTyped
    <3>2. CASE TaskgroupEnd(t)
      BY <3>2 DEF TaskgroupEnd, FreeGroup, bodyVars, GroupInv, GroupsTyped
    <3>3. CASE TaskgroupWake(t) \/ CancelTaskgroup(t)
      BY <3>3 DEF TaskgroupWake, CancelTaskgroup, bodyVars
    <3> QED BY <1>10, <3>1, <3>2, <3>3
  <2>3. UNCHANGED <<stack, home>>
    BY <2>1, <2>2 DEF SameTasks
  <2>4. FramesInv'
    BY <1>0, <2>2, <2>3, FramesStay
  <2> QED BY <1>10, <2>4, TaskgroupGroups
<1>11. CASE TaskReturn(t)
  <2>1. SameTasks
    BY <1>11, ReturnQuiet
  <2>2. UNCHANGED <<taskgroup, home>>
    BY <1>11 DEF TaskReturn, bodyVars
  <2> QED BY <1>1, <1>11, <2>1, <2>2, ReturnGroups
<1>12. CASE Finish1(t) \/ Finish2(t)
  <2>1. UNCHANGED <<stack, home, taskgroup>>
    BY <1>12 DEF Finish1, Finish2, bodyVars
  <2>2. \A y \in Owners : y # Cur(t) => taskgroup'[y] = taskgroup[y]
    BY <2>1
  <2>3. FramesInv'
    BY <1>0, <2>1, <2>2, FramesStay
  <2> QED BY <1>12, <2>3, Finish1Groups, Finish2Groups
<1>13. CASE Finish3(t) \/ InlineEnd(t)
  <2>1. UNCHANGED <<home, taskgroup>> /\ Pop(t) /\ stack[t] # <<>>
    <3>1. CASE Finish3(t)
      BY <3>1, TaskEnds DEF Finish3, Ends, bodyVars
    <3>2. CASE InlineEnd(t)
      BY <3>2 DEF InlineEnd, bodyVars
    <3> QED BY <1>13, <3>1, <3>2
  <2>2. FramesInv'
    BY <1>0, <2>1, FramesPopped
  <2> QED BY <1>13, <2>2, Finish3Groups, InlineGroups
<1>14. CASE GompTask(t)
  <2>1. PICK x \in Tasks, d \in [Addrs -> {"no", "in", "out"}] : Begins(t, x, d) /\ OthersKeep(t)
    BY <1>14, TaskBegins
  <2>2. /\ GroupInv'
        /\ \A y \in Owners : y # x => taskgroup'[y] = taskgroup[y] /\ home'[y] = home[y]
    BY <1>14, <2>1, NewGroups
  <2>3. kind[x] = "unused"
    BY <2>1 DEF Begins
  <2>4. CASE Push(t, x, "inline")
    <3>1. "inline" \in Contexts
      BY DEF Contexts
    <3> QED BY <1>0, <2>2, <2>3, <2>4, <3>1, FramesPushed
  <2>5. CASE UNCHANGED stack
    <3> SUFFICES ASSUME NEW s \in Threads, NEW i \in DOMAIN stack[s], stack[s][i].ctx = "group"
                 PROVE  taskgroup'[Below(s, i)] # home'[Below(s, i)]
      BY <2>2, <2>5 DEF FramesInv, Below
    <3>1. Below(s, i) \in Owners /\ Below(s, i) # x
      BY <1>0, <2>3, BelowIs
    <3> QED BY <2>2, <3>1 DEF FramesInv
  <2> QED BY <2>1, <2>2, <2>4, <2>5 DEF Begins
<1> QED BY <1>4, <1>5, <1>6, <1>7, <1>8, <1>9, <1>10, <1>11, <1>12, <1>13, <1>14,
        Zenon DEF RuntimeStep, Ending, Choice
-----------------------------------------------------------------------------
(* The invariant.                                                          *)

LEMMA TypedParts == Typed <=> /\ ListsTyped /\ tpc \in [Threads -> Positions]
                             /\ status \in [Tasks -> TB!Statuses]
                             /\ btask \in [Threads -> Tasks \cup {None}]
                             /\ pc \in [Threads -> TB!PCs]
BY DEF Typed, ListsTyped

(* The inductive invariant of task.c; that of the barrier is assumed where *)
(* a step needs it (BarrierFacts).                                         *)
TasksInv == Typed /\ CoreInv /\ PosInv /\ GroupInv /\ FramesInv

LEMMA TasksStart == Init => TasksInv
<1> SUFFICES ASSUME Init PROVE TasksInv
  OBVIOUS
<1> USE DEF Init, TB!Init
<1>0. \A s \in Threads : Cur(s) = s
  BY DEF Cur
<1>1. Typed
  BY Names, SMTT(30) DEF Typed, TB!Statuses, TB!PCs, Kinds, Positions, NoDepend, Frames
<1>2. StackInv
  BY DEF StackInv
<1>3. KindInv
  BY DEF KindInv
<1>4. PosInv
  BY DEF PosInv, PosOf, LockOf, Finishing, Late
<1>5. QueueInv
  BY InNothing DEF QueueInv, Ready, Injective
<1>6. \A y \in Tasks : \A z : ~Edge(y, z)
  BY InNothing DEF Edge
<1>7. DepInv
  BY <1>6 DEF DepInv, Injective
<1>8. Acyclic
  BY <1>6 DEF Acyclic
<1>9. \A y \in Tasks : ~Unfinished(y) /\ ~Going(y)
  BY DEF Unfinished, Going
<1>10. HashInv
  BY <1>9 DEF HashInv
<1>11. ChildInv
  BY <1>9, InNothing DEF ChildInv
<1>12. AfterInv
  BY DEF AfterInv
<1>13. FramesInv
  BY DEF FramesInv
<1>14. GroupsTyped
  BY Names, SMTT(30) DEF GroupsTyped, GroupRecords
<1>15. \A y \in Owners : Known(home[y]) /\ ChainOf(y)
  <2>1. \A y \in Owners : taskgroup[y] = None /\ home[y] = None
    OBVIOUS
  <2>2. {} \in SUBSET Groups
    OBVIOUS
  <2> QED BY <2>1, <2>2 DEF Known, ChainOf
<1>16. \A t \in Threads : AtHome(t)
  BY DEF AtHome, Finishing, Late
<1>17. \A g \in Groups : group[g].num_children = Cardinality(Members(g))
  <2>1. \A g \in Groups : Members(g) = {}
    BY <1>9 DEF Members, Counted
  <2> QED BY <2>1, FS_EmptySet
<1>18. \A x \in Tasks : status[x] \in {"blocked", "queued"} => taskgroup[x] = home[x]
  OBVIOUS
<1>19. GroupInv
  BY <1>14, <1>15, <1>16, <1>17, <1>18 DEF GroupInv
<1> QED BY <1>1, <1>2, <1>3, <1>4, <1>5, <1>7, <1>8, <1>10, <1>11, <1>12, <1>13, <1>19
        DEF TasksInv, CoreInv

LEMMA TasksStep ==
  BarrierFacts /\ BarrierFacts' /\ region \in Regions /\ TasksInv /\ [Next]_vars => TasksInv'
<1> SUFFICES ASSUME BarrierFacts, BarrierFacts', region \in Regions, TasksInv, [Next]_vars
             PROVE  TasksInv'
  OBVIOUS
<1>1. Typed /\ ListsTyped /\ CoreInv /\ PosInv /\ GroupInv /\ FramesInv
  BY TypedParts DEF TasksInv
<1>2. ASSUME NEW t \in Threads, RuntimeStep(t) \/ Ending(t) \/ Choice(t)
      PROVE  TasksInv'
  <2>1. ListsTyped' /\ CoreInv' /\ PosInv'
    BY <1>1, <1>2, StepKeeps
  <2>2. tpc' \in [Threads -> Positions]
    BY <1>1, <1>2, PositionsTyped
  <2>3. Typed'
    BY <2>1, <2>2 DEF BarrierFacts, Typed, ListsTyped
  <2>4. GroupInv' /\ FramesInv'
    BY <1>1, <1>2, StepGroups
  <2> QED BY <2>1, <2>3, <2>4 DEF TasksInv
<1>3. CASE UNCHANGED vars
  <2>1. UNCHANGED <<listVars, bodyVars, tpc, stack, new, status, btask, pc, task_lock>>
    BY <1>3 DEF vars, tbVars
  <2>2. SameTasks /\ SameEnds
    BY <2>1, ListVarsKept DEF SameTasks, SameEnds
  <2>3. CoreInv'
    BY <1>1, <2>2, SameKeeps
  <2>4. PosInv'
    BY <1>1, <2>1 DEF PosInv, PosOf, LockOf, Context
  <2>5. Typed'
    BY <1>1, <2>1, <2>2 DEF Typed, SameTasks
  <2>6. GroupInv'
    <3>1. UNCHANGED <<group, taskgroup, home, tpc, stack, new, status>>
      BY <2>1, <1>3 DEF vars, listVars, bodyVars
    <3> QED BY <1>1, <3>1 DEF GroupInv, GroupsTyped, Known, ChainOf, AtHome, Members, Counted,
                Uncounted, Unfinished, Cur, Context, InOwnGroup
  <2>7. FramesInv'
    <3>1. UNCHANGED <<taskgroup, home, stack>>
      BY <2>1, <1>3 DEF vars, bodyVars
    <3> QED BY <1>1, <3>1 DEF FramesInv, Below
  <2> QED BY <2>3, <2>4, <2>5, <2>6, <2>7 DEF TasksInv
<1> QED BY <1>2, <1>3 DEF Next

(* In every state of task.c the lists, the dependences, the stacks and the *)
(* groups agree.                                                           *)
THEOREM TasksInvariant == Spec => []TasksInv
<1>1. Init => region \in Regions
  BY DEF Init, TB!Init
<1>2. region \in Regions /\ [Next]_vars => (region \in Regions)'
  BY NextIsBarriers, RegionStays
<1>3. Spec => []TBP!BarrierInv
  BY TasksImplementBarrier, SameSpec, TBP!BarrierInvariant, BarriersAssumption, PTL
<1>4. Spec => []BarrierFacts
  BY <1>3, BarrierKnows, PTL
<1> QED BY <1>1, <1>2, <1>4, TasksStart, TasksStep, PTL DEF Spec
-----------------------------------------------------------------------------
(* What follows from it.                                                   *)

LEMMA QueueAgrees ==
  ASSUME TasksInv, TBP!CountersAgree PROVE NoTaskForgotten
<1> SUFFICES ASSUME task_lock = None PROVE NoTaskForgotten
  BY DEF NoTaskForgotten
<1>0. Typed /\ CoreInv /\ QueueInv /\ DepInv /\ PosInv
  BY DEF TasksInv, CoreInv
<1>1. \A x \in Tasks : status[x] = "blocked" => num_dependees[x] # 0
  <2>1. \A s \in Threads : ~(tpc[s] \in Late)
    BY <1>0, NobodyFinishes DEF Finishing
  <2> QED BY <1>0, <2>1 DEF DepInv
<1>2. task_queue \in Seq(Tasks) /\ Injective(task_queue)
  BY <1>0 DEF Typed, QueueInv
<1>3. ToSet(task_queue) = {x \in Tasks : status[x] = "queued"}
  <2>1. \A x : x \in ToSet(task_queue) <=> In(x, task_queue)
    BY <1>2 DEF ToSet, In
  <2>2. \A x : In(x, task_queue) => x \in Tasks
    BY <1>2, InTyped
  <2>3. \A x \in Tasks : In(x, task_queue) <=> status[x] = "queued"
    BY <1>0, <1>1 DEF QueueInv, Ready
  <2> QED BY <2>1, <2>2, <2>3
<1>4. Len(task_queue) = task_queued_count
  <2>1. Len(task_queue) = Cardinality(ToSet(task_queue))
    BY <1>2, LengthIsCardinality
  <2>2. task_queued_count = Cardinality({x \in Tasks : status[x] = "queued"})
    BY DEF TBP!CountersAgree, TBP!Cardinality, Cardinality
  <2> QED BY <1>3, <2>1, <2>2
<1>5. ASSUME NEW x \in Tasks, status[x] = "blocked", NEW ys,
             ys = {y \in Tasks : Contains(dependers[y], x)}
      PROVE  /\ num_dependees[x] = Cardinality(ys) /\ ys # {}
             /\ \A y \in ys : Unfinished(y)
  <2>1. ys = Before(x)
    BY <1>0, <1>5, InContains DEF Typed, Before, Edge
  <2>2. num_dependees[x] = Cardinality(ys) /\ num_dependees[x] # 0
    BY <1>0, <1>1, <1>5, <2>1 DEF DepInv
  <2>3. \A y \in ys : Unfinished(y)
    BY <1>0, <2>1 DEF DepInv, Before, Going
  <2>4. ys # {}
    BY <2>2, FS_EmptySet
  <2> QED BY <2>2, <2>3, <2>4
<1> QED BY <1>3, <1>4, <1>5 DEF NoTaskForgotten

(* While the lock is free the queue holds the queued tasks, once each, as  *)
(* many as task_queued_count says, and each blocked task has an unfinished *)
(* sibling whose end releases it: nothing GOMP_task deferred gets lost.    *)
THEOREM NoTaskIsForgotten == Spec => []NoTaskForgotten
<1>1. TBP!BarrierInv => TBP!CountersAgree
  BY DEF TBP!BarrierInv, TBP!TaskInv
<1>2. Spec => []TBP!BarrierInv
  BY TasksImplementBarrier, SameSpec, TBP!BarrierInvariant, BarriersAssumption, PTL
<1>3. TasksInv /\ TBP!CountersAgree => NoTaskForgotten
  BY QueueAgrees
<1> QED BY <1>1, <1>2, <1>3, TasksInvariant, PTL

(* A task that GOMP_task runs at once or a loop starts has seen all of its *)
(* conflicting elder siblings end, although the hash table only keeps the  *)
(* last depend(out) of an address.                                         *)
THEOREM DependencesAreKept == Spec => []DependencesHold
<1>1. TasksInv => DependencesHold
  BY DEF TasksInv, CoreInv, AfterInv, DependencesHold, Unfinished
<1> QED BY <1>1, TasksInvariant, PTL

\* An empty list means that all children are on their way out: one that waits
\* for nobody would be in the list, and not all of them can wait.
LEMMA NoChildLeft ==
  ASSUME TasksInv, NEW t \in Threads, tpc[t] # "finish3", children[Cur(t)] = <<>>,
         NEW x \in Tasks, parent[x] = Cur(t), Unfinished(x)
  PROVE  Past(x)
<1> SUFFICES ASSUME Going(x) PROVE FALSE
  BY DEF Going
<1>0. Typed /\ CoreInv /\ StackInv
  BY DEF TasksInv, CoreInv
<1>1. PICK p \in Owners : p = Cur(t) /\ Alive(p)
  BY <1>0, CurTyped, CurAlive
<1>2. \A y \in Tasks : Going(y) /\ parent[y] = p => status[y] = "blocked" /\ num_dependees[y] # 0
  BY <1>0, <1>1, InNothing DEF CoreInv, ChildInv, Ready
<1> DEFINE S == {y \in Tasks : Going(y) /\ parent[y] = p}
<1>3. PICK y \in S : \A z \in S : ~Edge(z, y)
  BY <1>0, <1>1 DEF CoreInv, Acyclic
<1>4. num_dependees[y] = Cardinality(Before(y)) /\ num_dependees[y] # 0
  BY <1>0, <1>2 DEF CoreInv, DepInv
<1>5. PICK z \in Tasks : Edge(z, y)
  BY <1>4, FS_EmptySet DEF Before
<1>6. Going(z) /\ parent[z] = p
  BY <1>0, <1>1, <1>5 DEF CoreInv, DepInv
<1> QED BY <1>3, <1>5, <1>6

(* GOMP_taskwait may return on the one unlocked read of NULL it starts     *)
(* with: no child is left but one whose code has ended.                    *)
THEOREM NullIsDone == Spec => []NullMeansDone
<1>1. TasksInv => NullMeansDone
  BY NoChildLeft DEF NullMeansDone, Past, Late
<1> QED BY <1>1, TasksInvariant, PTL

\* A count of 0 means that all members are on their way out.
LEMMA NoMemberLeft ==
  ASSUME TasksInv, NEW t \in Threads, InOwnGroup(t), group[taskgroup[Cur(t)]].num_children = 0,
         NEW x \in Tasks, home[x] = taskgroup[Cur(t)], Unfinished(x)
  PROVE  Past(x)
<1>0. Typed /\ CoreInv /\ GroupInv
  BY DEF TasksInv
<1>1. PICK g \in Groups : g = taskgroup[Cur(t)] /\ group[g].num_children = 0
  BY <1>0, WaitedGroup
<1>2. Cardinality(Members(g)) = 0
  BY <1>0, <1>1 DEF GroupInv
<1>3. IsFiniteSet(Members(g))
  BY Names, FS_Subset DEF Members
<1>4. Members(g) = {}
  BY <1>2, <1>3, FS_EmptySet
<1>5. Uncounted(x)
  BY <1>1, <1>4 DEF Members, Counted
<1> QED BY <1>5 DEF Uncounted, Past, Late

(* GOMP_taskgroup_end may return when it reads num_children as 0: all      *)
(* tasks of the group have run, the descendants of its tasks included.     *)
THEOREM ZeroIsDone == Spec => []ZeroMeansDone
<1>1. TasksInv => ZeroMeansDone
  BY NoMemberLeft DEF ZeroMeansDone, Past, Late
<1> QED BY <1>1, TasksInvariant, PTL
-----------------------------------------------------------------------------
(* The order of the lists, and who sleeps in GOMP_taskwait.                *)

(* Without taskgroups nothing but the queue and the lists of children      *)
(* offers tasks.                                                           *)
NoGroups == \A y \in Owners : taskgroup[y] = None /\ home[y] = None

Shown(x) == status[x] \in {"queued", "running", "done"} \/ Ready(x)

(* The queued tasks in the list of children of a parent are at its front,  *)
(* the youngest first: the opposite order of the queue.                    *)
OrderInv ==
    \A p \in Owners : Alive(p) =>
        /\ Injective(children[p])
        /\ \A y \in Tasks : In(y, children[p]) => Shown(y)
        /\ \A x, y : Ahead(x, y, children[p]) /\ In(y, task_queue) => Ahead(y, x, task_queue)

\* A step that leaves the lists alone.
LEMMA OrderStays ==
  ASSUME OrderInv, UNCHANGED <<children, task_queue>>,
         \A p \in Owners : Alive(p)' => Alive(p),
         \A y \in Tasks : Shown(y) => Shown(y)'
  PROVE  OrderInv'
BY DEF OrderInv

\* Starting the head of the queue, or of the list of its parent.
LEMMA StartOrder ==
  ASSUME Typed, CoreInv, OrderInv, NEW t \in Threads, NEW x \in Tasks, NEW c \in Contexts,
         Starts(t, x, c), RunPre(x),
         \/ task_queue # <<>> /\ x = Head(task_queue)
         \/ \A p \in Owners : Alive(p) /\ parent[x] = p =>
               children[p] # <<>> /\ Head(children[p]) = x
  PROVE  OrderInv'
<1>1. \A p \in Owners : children'[p] = IF p = parent[x] THEN Rotate(children[p], x)
                                                       ELSE children[p]
  BY Names DEF RunPre, Typed
<1>2. task_queue' = RemoveFirst(task_queue, x) /\ task_queue \in Seq(Tasks) /\ Injective(task_queue)
  BY DEF RunPre, Dequeue, Typed, CoreInv, QueueInv
<1>3. /\ \A y \in Tasks : Ready(y)' <=> Ready(y)
      /\ \A y : Alive(y)' <=> Alive(y)
  BY StartFacts
<1>4. /\ \A p \in Owners : \A y : In(y, children'[p]) <=> In(y, children[p])
      /\ \A y \in Tasks : status'[y] = IF y = x THEN "running" ELSE status[y]
  BY DEF Starts, Typed
<1> SUFFICES ASSUME NEW p \in Owners, Alive(p)
             PROVE  /\ Injective(children'[p])
                    /\ \A y \in Tasks : In(y, children'[p]) => Shown(y)'
                    /\ \A a, b : Ahead(a, b, children'[p]) /\ In(b, task_queue') =>
                          Ahead(b, a, task_queue')
  BY <1>3 DEF OrderInv
<1>5. PICK l \in Seq(Tasks) : l = children[p]
  BY DEF Typed
<1>6. /\ Injective(l) /\ \A y \in Tasks : In(y, l) => Shown(y)
      /\ \A a, b : Ahead(a, b, l) /\ In(b, task_queue) => Ahead(b, a, task_queue)
  BY <1>5 DEF OrderInv
<1>7. Injective(children'[p])
  BY <1>1, <1>5, <1>6, RotateOnce
<1>8. ASSUME NEW y \in Tasks, In(y, children'[p]) PROVE Shown(y)'
  <2>1. Shown(y)
    BY <1>4, <1>5, <1>6, <1>8
  <2> QED BY <1>3, <1>4, <2>1 DEF Shown
<1>9. ASSUME NEW a, NEW b, Ahead(a, b, children'[p]), In(b, task_queue')
      PROVE  Ahead(b, a, task_queue')
  <2>1. b # x /\ In(b, task_queue)
    BY <1>2, <1>9, RemoveOnce, InRemove
  <2>2. Ahead(a, b, l)
    BY <1>1, <1>5, <1>9, <2>1, RotateAhead
  <2>3. Ahead(b, a, task_queue)
    BY <1>6, <2>1, <2>2
  <2>4. a # x
    <3>1. CASE task_queue # <<>> /\ x = Head(task_queue)
      BY <1>2, <2>3, <3>1, AheadHead
    <3>2. CASE \A q \in Owners : Alive(q) /\ parent[x] = q =>
                  children[q] # <<>> /\ Head(children[q]) = x
      <4>1. a = x => In(x, l)
        BY <2>2, AheadIn
      <4>2. a = x => parent[x] = p
        BY <1>5, <4>1 DEF CoreInv, ChildInv
      <4>3. a = x => l # <<>> /\ Head(l) = x /\ children'[p] = Rotate(l, x)
        BY <1>1, <1>5, <3>2, <4>2
      <4> QED BY <1>6, <1>9, <2>1, <4>3, RotateAhead
    <3> QED BY <3>1, <3>2
  <2> QED BY <1>2, <2>1, <2>3, <2>4, AheadRemove
<1> QED BY <1>7, <1>8, <1>9

\* What a new task without dependences does to the lists.
Linked(t, x) ==
    \/ UNCHANGED <<children, task_queue>>
    \/ /\ children' = [children EXCEPT ![Cur(t)] = <<x>> \o @]
       /\ task_queue' = Append(task_queue, x)

LEMMA DeferLinks ==
  ASSUME NEW t \in Threads, Defer(t) PROVE Linked(t, new[t])
BY DEF Defer, LinkIn, Linked

\* A new task comes first in the list, and last in the queue.
LEMMA DeferOrder ==
  ASSUME Typed, CoreInv, PosInv, OrderInv, NEW t \in Threads, NEW x \in Tasks,
         Defers(t, x), Linked(t, x)
  PROVE  OrderInv'
<1>1. /\ \A y \in Tasks : y # x => status'[y] = status[y]
      /\ \A y \in Tasks : ~Ready(y)
      /\ \A y : Alive(y)' <=> Alive(y)
      /\ status'[x] = IF Preds(t, x) # {} THEN "blocked" ELSE "queued"
  BY DeferFacts
<1>2. new[t] = x /\ task_lock = None
      /\ \A q \in Owners : \A y : In(y, children'[q]) <=>
            In(y, children[q]) \/ (q = Cur(t) /\ y = x /\ Preds(t, x) = {})
  BY DEF Defers
<1>3. status[x] = "none" /\ ~In(x, task_queue) /\ Cur(t) \in Owners
  BY <1>2, NewTask
<1>4. task_queue \in Seq(Tasks) /\ \A q \in Owners : children[q] \in Seq(Tasks)
  BY DEF Typed
<1> SUFFICES ASSUME NEW p \in Owners, Alive(p)
             PROVE  /\ Injective(children'[p])
                    /\ \A y \in Tasks : In(y, children'[p]) => Shown(y)'
                    /\ \A a, b : Ahead(a, b, children'[p]) /\ In(b, task_queue') =>
                          Ahead(b, a, task_queue')
  BY <1>1 DEF OrderInv
<1>5. PICK l \in Seq(Tasks) : l = children[p]
  BY <1>4
<1>6. /\ Injective(l) /\ \A y \in Tasks : In(y, l) => Shown(y)
      /\ \A a, b : Ahead(a, b, l) /\ In(b, task_queue) => Ahead(b, a, task_queue)
  BY <1>5 DEF OrderInv
<1>7. ~In(x, l)
  BY <1>1, <1>3, <1>6 DEF Shown
<1>8. ASSUME NEW y \in Tasks, In(y, children'[p]) PROVE Shown(y)'
  <2>1. CASE In(y, l)
    BY <1>1, <1>6, <1>7, <2>1 DEF Shown
  <2>2. CASE ~In(y, l)
    <3>1. y = x /\ Preds(t, x) = {}
      BY <1>2, <1>5, <1>8, <2>2
    <3> QED BY <1>1, <3>1 DEF Shown
  <2> QED BY <2>1, <2>2
<1>9. CASE UNCHANGED <<children, task_queue>>
  BY <1>5, <1>6, <1>8, <1>9
<1>10. CASE /\ children' = [children EXCEPT ![Cur(t)] = <<x>> \o @]
            /\ task_queue' = Append(task_queue, x)
  <2>1. PICK e \in Seq(Tasks) : e = <<x>>
    <3>1. <<x>> \in Seq(Tasks)
      OBVIOUS
    <3> QED BY <3>1
  <2>2. /\ \A y : In(y, e) <=> y = x
        /\ \A y, z : ~Ahead(y, z, e)
        /\ Injective(e)
    BY <2>1, InSingle, NoneAheadInSingle, SingleOnce
  <2>3. task_queue' = task_queue \o e
    BY <1>4, <1>10, <2>1
  <2>4. children'[p] = IF p = Cur(t) THEN e \o l ELSE l
    BY <1>3, <1>5, <1>10, <2>1 DEF Typed
  <2>5. Injective(e \o l)
    BY <1>6, <1>7, <2>2, ConcatOnce
  <2>6. \A a, b : Ahead(a, b, e \o l) <=> Ahead(a, b, l) \/ (a = x /\ In(b, l))
    <3>1. \A a, b : Ahead(a, b, e \o l) <=> Ahead(a, b, e) \/ Ahead(a, b, l) \/ (In(a, e) /\ In(b, l))
      BY AheadConcat
    <3> QED BY <2>2, <3>1
  <2>7. \A a, b : Ahead(a, b, task_queue') <=> Ahead(a, b, task_queue) \/ (In(a, task_queue) /\ b = x)
    <3>1. \A a, b : Ahead(a, b, task_queue \o e) <=>
             Ahead(a, b, task_queue) \/ Ahead(a, b, e) \/ (In(a, task_queue) /\ In(b, e))
      BY <1>4, AheadConcat
    <3> QED BY <2>2, <2>3, <3>1
  <2>8. \A b : In(b, task_queue') => In(b, task_queue) \/ b = x
    BY <1>4, <2>2, <2>3, InConcat
  <2>9. ASSUME NEW a, NEW b, Ahead(a, b, children'[p]), In(b, task_queue')
        PROVE  Ahead(b, a, task_queue')
    <3>1. Ahead(a, b, l) \/ (a = x /\ In(b, l))
      BY <2>4, <2>6, <2>9
    <3>2. In(b, l)
      BY <3>1, AheadIn
    <3>3. In(b, task_queue)
      BY <1>7, <2>8, <2>9, <3>2
    <3> QED BY <1>6, <2>7, <3>1, <3>3
  <2> QED BY <1>6, <1>8, <2>4, <2>5, <2>9
<1> QED BY <1>9, <1>10 DEF Linked

\* The released tasks come first in the list, and last in the queue.
LEMMA ReleaseOrder ==
  ASSUME Typed, CoreInv, PosInv, OrderInv, NEW t \in Threads, NEW x \in Tasks, Releases(t, x),
         task_queue' = task_queue \o Released(x),
         IF parent[x] = None THEN children' = children
         ELSE children' = [children EXCEPT
                  ![parent[x]] = RemoveFirst(Reverse(Released(x)) \o @, x)]
  PROVE  OrderInv'
<1>1. /\ \A y : Alive(y)' <=> Alive(y)
      /\ \A z \in Tasks : Ready(z)' <=> Ready(z) \/ (Edge(x, z) /\ num_dependees[z] = 1)
      /\ UNCHANGED status
  <2>1. UNCHANGED status
    BY DEF Releases
  <2> QED BY <2>1, ReleaseFacts, ReleaseQueues
<1>2. PICK r \in Seq(Tasks) : r = Released(x) /\ Injective(r)
                              /\ \A z : In(z, r) <=> Edge(x, z) /\ num_dependees[z] = 1
  BY ReleasedAre
<1>3. task_queue \in Seq(Tasks) /\ \A q \in Owners : children[q] \in Seq(Tasks)
  BY DEF Typed
<1>4. /\ \A b : In(b, task_queue') <=> In(b, task_queue) \/ In(b, r)
      /\ \A a, b : Ahead(a, b, task_queue') <=>
            Ahead(a, b, task_queue) \/ Ahead(a, b, r) \/ (In(a, task_queue) /\ In(b, r))
  BY <1>2, <1>3, InConcat, AheadConcat
<1>5. \A q \in Owners : children'[q] = IF q = parent[x] THEN RemoveFirst(Reverse(r) \o children[q], x)
                                                       ELSE children[q]
  BY <1>2, Names DEF Typed
<1> SUFFICES ASSUME NEW p \in Owners, Alive(p)
             PROVE  /\ Injective(children'[p])
                    /\ \A y \in Tasks : In(y, children'[p]) => Shown(y)'
                    /\ \A a, b : Ahead(a, b, children'[p]) /\ In(b, task_queue') =>
                          Ahead(b, a, task_queue')
  BY <1>1 DEF OrderInv
<1>6. PICK l \in Seq(Tasks) : l = children[p]
  BY <1>3
<1>7. /\ Injective(l) /\ \A y \in Tasks : In(y, l) => Shown(y)
      /\ \A a, b : Ahead(a, b, l) /\ In(b, task_queue) => Ahead(b, a, task_queue)
  BY <1>6 DEF OrderInv
<1>8. \A z : In(z, r) => z \in Tasks /\ status[z] = "blocked" /\ ~Ready(z) /\ ~In(z, l)
  <2>1. ASSUME NEW z, In(z, r) PROVE z \in Tasks /\ status[z] = "blocked" /\ ~Ready(z)
    <3>1. z \in Tasks /\ Edge(x, z) /\ num_dependees[z] = 1
      BY <1>2, <2>1, InTyped
    <3> QED BY <3>1 DEF CoreInv, DepInv, Ready
  <2> QED BY <1>7, <2>1 DEF Shown
<1>9. CASE p # parent[x]
  <2>1. children'[p] = l
    BY <1>5, <1>6, <1>9
  <2>2. \A b : In(b, l) => ~In(b, r)
    BY <1>8
  <2>3. \A a, b : Ahead(a, b, l) => In(b, l)
    BY AheadIn
  <2>4. \A y \in Tasks : Shown(y) => Shown(y)'
    BY <1>1 DEF Shown
  <2> QED BY <1>4, <1>7, <2>1, <2>2, <2>3, <2>4
<1>10. CASE p = parent[x]
  <2>1. PICK v \in Seq(Tasks) : v = Reverse(r) /\ Injective(v) /\ \A z : In(z, v) <=> In(z, r)
    BY <1>2, ReverseTyped, ReverseOnce, InReverse
  <2>2. PICK w \in Seq(Tasks) : w = v \o l /\ children'[p] = RemoveFirst(w, x)
    <3>1. v \o l \in Seq(Tasks)
      BY ConcatTyped
    <3> QED BY <1>5, <1>6, <1>10, <2>1, <3>1
  <2>3. Injective(w)
    BY <1>7, <1>8, <2>1, <2>2, ConcatOnce
  <2>4. /\ Injective(children'[p])
        /\ \A y : In(y, children'[p]) => In(y, w)
        /\ \A a, b : Ahead(a, b, children'[p]) => Ahead(a, b, w)
    BY <2>2, <2>3, RemoveOnce, InRemove, AheadRemove
  <2>5. /\ \A y : In(y, w) <=> In(y, v) \/ In(y, l)
        /\ \A a, b : Ahead(a, b, w) <=> Ahead(a, b, v) \/ Ahead(a, b, l) \/ (In(a, v) /\ In(b, l))
    BY <2>2, InConcat, AheadConcat
  <2>6. ASSUME NEW y \in Tasks, In(y, children'[p]) PROVE Shown(y)'
    <3>1. Shown(y) \/ In(y, r)
      BY <1>7, <2>1, <2>4, <2>5, <2>6
    <3>2. In(y, r) => status[y] = "blocked" /\ Ready(y)'
      BY <1>1, <1>2, <1>8
    <3> QED BY <1>1, <3>1, <3>2 DEF Shown
  <2>7. ASSUME NEW a, NEW b, Ahead(a, b, children'[p]), In(b, task_queue')
        PROVE  Ahead(b, a, task_queue')
    <3>1. CASE Ahead(a, b, v)
      BY <1>2, <1>4, <2>1, <3>1, AheadReverse
    <3>2. CASE Ahead(a, b, l)
      <4>1. In(b, task_queue)
        BY <1>4, <1>8, <2>7, <3>2, AheadIn
      <4> QED BY <1>4, <1>7, <3>2, <4>1
    <3>3. CASE In(a, v) /\ In(b, l)
      <4>1. In(b, task_queue)
        BY <1>4, <1>8, <2>7, <3>3
      <4> QED BY <1>4, <2>1, <3>3, <4>1
    <3> QED BY <2>4, <2>5, <2>7, <3>1, <3>2, <3>3
  <2> QED BY <2>4, <2>6, <2>7
<1> QED BY <1>9, <1>10

(* Sleeping in GOMP_taskwait: without a post that is on its way the flag   *)
(* is set, and no child is queued.                                         *)
NoneQueued(p) == \A y \in Tasks : ~(In(y, children[p]) /\ In(y, task_queue))

Waiting(p) == taskwait_sem[p] > 0 \/ (in_taskwait[p] /\ NoneQueued(p))

SemsTyped == /\ in_taskwait \in [Owners -> BOOLEAN]
             /\ taskwait_sem \in [Owners -> Nat]

WaitInv ==
    /\ SemsTyped
    /\ \A t \in Threads : tpc[t] = "taskwaitsleep" => Waiting(Cur(t))

\* A step after which every sleeper has slept before, and waits as before.
LEMMA WaitsStay ==
  ASSUME WaitInv, SemsTyped',
         \A s \in Threads : tpc'[s] = "taskwaitsleep" =>
            /\ tpc[s] = "taskwaitsleep" /\ Cur(s)' = Cur(s)
            /\ Waiting(Cur(s)) => Waiting(Cur(s))'
  PROVE  WaitInv'
BY DEF WaitInv

LEMMA WaitsSame ==
  ASSUME WaitInv, Typed, SameTasks, UNCHANGED <<in_taskwait, taskwait_sem>>,
         \A s \in Threads : tpc'[s] = "taskwaitsleep" => tpc[s] = "taskwaitsleep"
  PROVE  WaitInv'
BY SameFacts DEF WaitInv, SemsTyped, Waiting, NoneQueued, SameTasks, Cur

\* The others sleep on, t does not sleep.
LEMMA OthersWait ==
  ASSUME WaitInv, SemsTyped', NEW t \in Threads, tpc'[t] # "taskwaitsleep",
         \A s \in Threads : s # t => tpc'[s] = tpc[s] /\ Cur(s)' = Cur(s),
         \A s \in Threads : s # t /\ tpc[s] = "taskwaitsleep" =>
            (Waiting(Cur(s)) => Waiting(Cur(s))')
  PROVE  WaitInv'
BY WaitsStay

\* A post wakes who sleeps.
LEMMA Posted ==
  ASSUME SemsTyped, NEW p, NEW b \in BOOLEAN, PostTaskwait(p, b)
  PROVE  /\ SemsTyped'
         /\ \A q \in Owners :
              /\ taskwait_sem[q] > 0 => taskwait_sem'[q] > 0
              /\ in_taskwait[q] => \/ taskwait_sem'[q] > 0
                                   \/ in_taskwait'[q] /\ ~(b /\ q = p)
<1>1. CASE b /\ in_taskwait[p]
  <2>1. /\ in_taskwait' = [in_taskwait EXCEPT ![p] = FALSE]
        /\ taskwait_sem' = [taskwait_sem EXCEPT ![p] = @ + 1]
    BY <1>1 DEF PostTaskwait
  <2>2. in_taskwait \in [Owners -> BOOLEAN] /\ taskwait_sem \in [Owners -> Nat]
    BY DEF SemsTyped
  <2>3. SemsTyped'
    <3>1. in_taskwait' \in [Owners -> BOOLEAN]
      BY <2>1, <2>2
    <3>2. taskwait_sem' \in [Owners -> Nat]
      <4>1. taskwait_sem' = [q \in Owners |-> IF q = p THEN taskwait_sem[q] + 1 ELSE taskwait_sem[q]]
        BY <2>1, <2>2
      <4>2. \A q \in Owners : taskwait_sem[q] \in Nat
        BY <2>2
      <4> QED BY <4>1, <4>2
    <3> QED BY <3>1, <3>2 DEF SemsTyped
  <2>4. ASSUME NEW q \in Owners, q # p
        PROVE  in_taskwait'[q] = in_taskwait[q] /\ taskwait_sem'[q] = taskwait_sem[q]
    BY <2>1, <2>2, <2>4
  <2>5. ASSUME NEW q \in Owners, q = p PROVE taskwait_sem'[q] > 0
    <3>1. taskwait_sem'[q] = taskwait_sem[q] + 1 /\ taskwait_sem[q] \in Nat
      BY <2>1, <2>2, <2>5
    <3> QED BY <3>1
  <2> QED BY <2>3, <2>4, <2>5
<1>2. CASE ~(b /\ in_taskwait[p])
  BY <1>2 DEF PostTaskwait, SemsTyped
<1> QED BY <1>1, <1>2

\* Starting a task queues none.
LEMMA StartWaits ==
  ASSUME Typed, CoreInv, WaitInv, NEW t \in Threads, NEW x \in Tasks, NEW c \in Contexts,
         Starts(t, x, c), OthersKeep(t), tpc'[t] # "taskwaitsleep",
         UNCHANGED <<in_taskwait, taskwait_sem>>
  PROVE  WaitInv'
<1>1. /\ task_queue' = RemoveFirst(task_queue, x) /\ task_queue \in Seq(Tasks)
      /\ \A p \in Owners : \A y : In(y, children'[p]) <=> In(y, children[p])
  BY DEF Starts, Dequeue, Typed
<1>2. \A p \in Owners : NoneQueued(p) => NoneQueued(p)'
  BY <1>1, InRemove DEF NoneQueued
<1>3. \A p \in Owners : Waiting(p) => Waiting(p)'
  BY <1>2 DEF Waiting
<1>4. \A s \in Threads : Cur(s) \in Owners
  BY CurTyped
<1>5. \A s \in Threads : s # t => tpc'[s] = tpc[s] /\ Cur(s)' = Cur(s)
  BY StartFacts DEF OthersKeep
<1>6. SemsTyped'
  BY DEF WaitInv, SemsTyped
<1> QED BY <1>3, <1>4, <1>5, <1>6, OthersWait

\* A new task is a child of the one that creates it, which does not sleep.
LEMMA DeferWaits ==
  ASSUME Typed, CoreInv, PosInv, OrderInv, WaitInv, NEW t \in Threads, NEW x \in Tasks,
         Defers(t, x), UNCHANGED <<in_taskwait, taskwait_sem>>
  PROVE  WaitInv'
<1>1. /\ \A z : In(z, task_queue') <=> In(z, task_queue) \/ (z = x /\ Preds(t, x) = {})
      /\ \A q \in Owners : \A y : In(y, children'[q]) <=>
            In(y, children[q]) \/ (q = Cur(t) /\ y = x /\ Preds(t, x) = {})
      /\ new[t] = x /\ task_lock = None /\ TMoved(t, "code")
  BY DEF Defers
<1>2. parent[x] = Cur(t)
  BY <1>1, NewTask
<1>3. \A s \in Threads : Cur(s)' = Cur(s)
  BY DeferFacts
<1>4. ASSUME NEW s \in Threads, s # t, tpc[s] = "taskwaitsleep"
      PROVE  Waiting(Cur(s)) => Waiting(Cur(s))'
  <2>1. PICK p \in Owners : p = Cur(s) /\ p # Cur(t) /\ Alive(p)
    BY <1>4, CurTyped, CurInjective, CurAlive DEF CoreInv
  <2>2. ~In(x, children[p])
    BY <1>2, <2>1 DEF CoreInv, ChildInv
  <2>3. NoneQueued(p) => NoneQueued(p)'
    BY <1>1, <2>1, <2>2 DEF NoneQueued
  <2>4. Waiting(p) => Waiting(p)'
    BY <2>3 DEF Waiting
  <2> QED BY <1>3, <2>1, <2>4
<1>5. SemsTyped'
  BY DEF WaitInv, SemsTyped
<1> QED BY <1>1, <1>3, <1>4, <1>5, OthersWait DEF TMoved

\* The parent of released tasks is woken.
LEMMA ReleaseWaits ==
  ASSUME Typed, CoreInv, PosInv, WaitInv, NEW t \in Threads, NEW x \in Tasks, Releases(t, x),
         IF parent[x] = None THEN UNCHANGED <<in_taskwait, taskwait_sem>>
         ELSE PostTaskwait(parent[x], Released(x) # <<>>)
  PROVE  WaitInv'
<1>0. SemsTyped
  BY DEF WaitInv
<1>1. /\ SemsTyped'
      /\ \A q \in Owners :
           /\ taskwait_sem[q] > 0 => taskwait_sem'[q] > 0
           /\ in_taskwait[q] => \/ taskwait_sem'[q] > 0
                                \/ in_taskwait'[q] /\ ~(Released(x) # <<>> /\ q = parent[x])
  <2>1. CASE parent[x] = None
    BY <1>0, <2>1, Names DEF SemsTyped
  <2>2. CASE parent[x] # None
    <3>1. (Released(x) # <<>>) \in BOOLEAN
      OBVIOUS
    <3>2. PostTaskwait(parent[x], Released(x) # <<>>)
      BY <2>2
    <3> QED BY <1>0, <3>1, <3>2, Posted
  <2> QED BY <2>1, <2>2
<1>2. /\ \A z : In(z, task_queue') <=> In(z, task_queue) \/ (Edge(x, z) /\ num_dependees[z] = 1)
      /\ \A p \in Owners : \A y : In(y, children'[p]) =>
            In(y, children[p]) \/ (p = parent[x] /\ Edge(x, y))
      /\ tpc'[t] \in {"finish2", "finish2null"}
      /\ \A s \in Threads : s # t => tpc'[s] = tpc[s]
  BY DEF Releases
<1>3. \A s \in Threads : Cur(s)' = Cur(s)
  BY ReleaseFacts
<1>4. ASSUME NEW s \in Threads, tpc[s] = "taskwaitsleep", Waiting(Cur(s))
      PROVE  Waiting(Cur(s))'
  <2>1. PICK p \in Owners : p = Cur(s) /\ Alive(p)
    BY <1>4, CurTyped, CurAlive DEF CoreInv
  <2>2. CASE taskwait_sem[p] > 0
    BY <1>1, <1>3, <2>1, <2>2 DEF Waiting
  <2>3. CASE in_taskwait[p] /\ NoneQueued(p) /\ ~(taskwait_sem'[p] > 0)
    <3>1. in_taskwait'[p] /\ (p = parent[x] => Released(x) = <<>>)
      BY <1>1, <2>3
    <3>2. ASSUME NEW y \in Tasks, In(y, children'[p]), In(y, task_queue') PROVE FALSE
      <4>1. CASE p = parent[x]
        <5>1. \A z : ~(Edge(x, z) /\ num_dependees[z] = 1)
          BY <3>1, <4>1, ReleasedAre, InNothing
        <5>2. In(y, task_queue) /\ ~In(y, children[p])
          BY <1>2, <2>3, <3>2, <5>1 DEF NoneQueued
        <5>3. Edge(x, y)
          BY <1>2, <3>2, <5>2
        <5>4. status[y] = "blocked" /\ num_dependees[y] # 1
          BY <5>1, <5>3 DEF CoreInv, DepInv
        <5>5. num_dependees[y] = 0
          BY <5>2, <5>4 DEF CoreInv, QueueInv, Ready
        <5>6. Before(y) = {}
          BY <5>4, <5>5, BeforeFinite DEF CoreInv, DepInv
        <5> QED BY <5>3, <5>6 DEF Before
      <4>2. CASE p # parent[x]
        <5>1. In(y, children[p]) /\ parent[y] = p
          BY <1>2, <2>1, <3>2, <4>2 DEF CoreInv, ChildInv
        <5>2. Edge(x, y)
          BY <1>2, <2>3, <3>2, <5>1 DEF NoneQueued
        <5>3. parent[x] = p
          BY <2>1, <5>1, <5>2 DEF CoreInv, DepInv
        <5> QED BY <4>2, <5>3
      <4> QED BY <4>1, <4>2
    <3>3. NoneQueued(p)'
      BY <3>2 DEF NoneQueued
    <3> QED BY <1>3, <2>1, <3>1, <3>3 DEF Waiting
  <2>4. CASE taskwait_sem'[p] > 0
    BY <1>3, <2>1, <2>4 DEF Waiting
  <2> QED BY <1>4, <2>1, <2>2, <2>3, <2>4 DEF Waiting
<1> QED BY <1>1, <1>2, <1>3, <1>4, OthersWait

\* The steps that leave the lists alone and may post.
LEMMA PostWaits ==
  ASSUME Typed, WaitInv, NEW t \in Threads, UNCHANGED <<task_queue, children>>,
         \/ UNCHANGED <<in_taskwait, taskwait_sem>>
         \/ \E p, b : b \in BOOLEAN /\ PostTaskwait(p, b),
         tpc'[t] # "taskwaitsleep",
         \A s \in Threads : s # t => tpc'[s] = tpc[s] /\ Cur(s)' = Cur(s)
  PROVE  WaitInv'
<1>0. SemsTyped
  BY DEF WaitInv
<1>1. /\ SemsTyped'
      /\ \A q \in Owners :
           /\ taskwait_sem[q] > 0 => taskwait_sem'[q] > 0
           /\ in_taskwait[q] => taskwait_sem'[q] > 0 \/ in_taskwait'[q]
  <2>1. CASE UNCHANGED <<in_taskwait, taskwait_sem>>
    BY <1>0, <2>1 DEF SemsTyped
  <2>2. CASE \E p, b : b \in BOOLEAN /\ PostTaskwait(p, b)
    BY <1>0, <2>2, Posted
  <2> QED BY <2>1, <2>2
<1>2. \A q \in Owners : NoneQueued(q) => NoneQueued(q)'
  BY DEF NoneQueued
<1>3. \A q \in Owners : Waiting(q) => Waiting(q)'
  BY <1>1, <1>2 DEF Waiting
<1>4. \A s \in Threads : Cur(s) \in Owners
  BY CurTyped
<1> QED BY <1>1, <1>3, <1>4, OthersWait

SleepInv == NoGroups /\ OrderInv /\ WaitInv

\* A region that declares no taskgroup opens none.
LEMMA NoGroupOpened ==
  ASSUME Typed, GroupInv, NoGroups, region.groups = {}, NEW t \in Threads
  PROVE  /\ ~TaskgroupStart(t) /\ ~TaskgroupEnd(t) /\ ~TaskgroupLoop(t) /\ ~TaskgroupWake(t)
         /\ ~CancelTaskgroup(t)
         /\ tpc[t] \notin {"taskgroup", "taskgroupsleep"}
<1>1. Cur(t) \in Owners /\ ~InOwnGroup(t) /\ taskgroup[Cur(t)] = None
  BY CurTyped DEF NoGroups, InOwnGroup
<1>2. tpc[t] \notin {"taskgroup", "taskgroupsleep"}
  BY <1>1 DEF GroupInv, AtHome
<1> QED BY <1>1, <1>2 DEF TaskgroupStart, TaskgroupEnd, TaskgroupLoop, TaskgroupWake,
                         CancelTaskgroup

LEMMA StillNoGroups ==
  ASSUME Typed, GroupInv, NoGroups, region.groups = {}, region \in Regions, NEW t \in Threads,
         RuntimeStep(t) \/ Ending(t) \/ Choice(t)
  PROVE  NoGroups'
<1>1. ASSUME UNCHANGED <<taskgroup, home>> PROVE NoGroups'
  BY <1>1 DEF NoGroups
<1>2. CASE BarrierStep(t) \/ BarrierLoop(t) \/ EnterBarrier(t) \/ Cancellation(t) \/ Interrupted(t)
  <2>1. UNCHANGED <<taskgroup, home>>
    BY <1>2 DEF BarrierStep, BarrierLoop, EnterBarrier, Cancellation, Interrupted, ownVars, bodyVars
  <2> QED BY <1>1, <2>1
<1>3. CASE Defer(t) \/ TaskwaitLoop(t) \/ TaskwaitWake(t) \/ Taskwait(t) \/ TaskReturn(t)
  <2>1. UNCHANGED <<taskgroup, home>>
    BY <1>3 DEF Defer, TaskwaitLoop, StartTask, TaskwaitWake, Taskwait, TaskReturn, bodyVars
  <2> QED BY <1>1, <2>1
<1>4. CASE Finish1(t) \/ Finish2(t) \/ Finish3(t) \/ InlineEnd(t)
  <2>1. UNCHANGED <<taskgroup, home>>
    BY <1>4 DEF Finish1, Finish2, Finish3, InlineEnd, bodyVars
  <2> QED BY <1>1, <2>1
<1>5. CASE GompTask(t)
  <2>1. \E x, d : InitTask(t, x, d)
    BY <1>5 DEF GompTask
  <2>2. PICK x : /\ taskgroup' = [taskgroup EXCEPT ![x] = taskgroup[Cur(t)]]
                 /\ home' = [home EXCEPT ![x] = taskgroup[Cur(t)]]
    BY <2>1 DEF InitTask, GroupOfNew
  <2>3. taskgroup[Cur(t)] = None
    BY CurTyped DEF NoGroups
  <2>4. /\ taskgroup \in [Owners -> Groups \cup {None}]
        /\ home \in [Owners -> Groups \cup {None}]
    BY DEF GroupInv, GroupsTyped
  <2> QED BY <2>2, <2>3, <2>4 DEF NoGroups
<1> QED BY <1>2, <1>3, <1>4, <1>5, NoGroupOpened, Zenon DEF RuntimeStep, Ending, Choice

\* A quiet step after which nobody sleeps who did not sleep before.
LEMMA QuietSleeps ==
  ASSUME Typed, OrderInv, WaitInv, SameTasks, SameEnds, UNCHANGED <<in_taskwait, taskwait_sem>>,
         \A s \in Threads : tpc'[s] = "taskwaitsleep" => tpc[s] = "taskwaitsleep"
  PROVE  OrderInv' /\ WaitInv'
<1>1. OrderInv'
  BY SameFacts, OrderStays DEF SameTasks, Shown
<1> QED BY <1>1, WaitsSame

\* GOMP_taskwait: the head of the list decides.
LEMMA TaskwaitSleeps ==
  ASSUME Typed, CoreInv, PosInv, OrderInv, WaitInv, NEW t \in Threads,
         TaskwaitLoop(t) \/ Taskwait(t) \/ TaskwaitWake(t)
  PROVE  OrderInv' /\ WaitInv'
<1>0. PICK p \in Owners : p = Cur(t)
  BY CurTyped
<1>1. PICK l \in Seq(Tasks) : l = children[p]
  BY DEF Typed
<1>2. tpc[t] # "finish3"
  BY DEF TaskwaitLoop, Taskwait, TaskwaitWake, InCode
<1>3. Alive(p) /\ \A q \in Owners : Alive(q) => \A y \in Tasks : In(y, children[q]) => parent[y] = q
  BY <1>0, <1>2, CurAlive DEF CoreInv, ChildInv
<1>4. CASE TaskwaitLoop(t) /\ ~TB!WaitUnlock(t)
  <2>1. PICK x : l # <<>> /\ x = Head(l) /\ kind[x] = "waiting" /\ StartTask(t, x, "taskwait")
                 /\ tpc[t] = "taskwait"
    BY <1>0, <1>1, <1>4 DEF TaskwaitLoop
  <2>2. x \in Tasks /\ In(x, l)
    BY <2>1, InSomething
  <2>3. RunPre(x) /\ UNCHANGED <<in_taskwait, taskwait_sem>>
        /\ \E m \in {"code", "finish1"} : TGoto(t, m)
    BY <2>1 DEF StartTask
  <2>4. "taskwait" \in Contexts
    BY DEF Contexts
  <2>5. Starts(t, x, "taskwait") /\ OthersKeep(t)
    BY <2>1, <2>2, TaskStarts
  <2>6. parent[x] = p
    BY <1>1, <1>3, <2>2
  <2>7. \A q \in Owners : Alive(q) /\ parent[x] = q => children[q] # <<>> /\ Head(children[q]) = x
    BY <1>1, <2>1, <2>6
  <2>8. OrderInv'
    BY <2>2, <2>3, <2>4, <2>5, <2>7, StartOrder
  <2>9. tpc'[t] # "taskwaitsleep"
    BY <2>3, TGotoMoves DEF TMoved
  <2> QED BY <2>2, <2>3, <2>4, <2>5, <2>8, <2>9, StartWaits
<1>5. CASE TaskwaitLoop(t) /\ TB!WaitUnlock(t)
  <2>1. SameTasks /\ SameEnds
    BY <1>5, TaskwaitQuiet
  <2>2. CASE UNCHANGED <<in_taskwait, taskwait_sem>> /\ TGoto(t, "code")
    <3>1. \A s \in Threads : tpc'[s] = "taskwaitsleep" => tpc[s] = "taskwaitsleep"
      BY <2>2, TGotoMoves DEF TMoved
    <3> QED BY <2>1, <2>2, <3>1, QuietSleeps
  <2>3. CASE /\ l # <<>> /\ kind[Head(l)] # "waiting"
             /\ in_taskwait' = [in_taskwait EXCEPT ![p] = TRUE]
             /\ UNCHANGED taskwait_sem /\ TGoto(t, "taskwaitsleep")
    <3>1. OrderInv'
      BY <2>1, SameFacts, OrderStays DEF SameTasks, Shown
    <3>2. SemsTyped' /\ in_taskwait'[p] /\ \A q \in Owners : in_taskwait[q] => in_taskwait'[q]
      BY <2>3 DEF WaitInv, SemsTyped
    <3>3. \A q \in Owners : NoneQueued(q) => NoneQueued(q)'
      BY <2>1 DEF NoneQueued, SameTasks
    <3>4. ASSUME NEW y \in Tasks, In(y, l), In(y, task_queue) PROVE FALSE
      <4>1. In(Head(l), task_queue)
        <5>1. CASE y = Head(l)
          BY <3>4, <5>1
        <5>2. CASE y # Head(l)
          <6>1. Ahead(Head(l), y, l)
            BY <2>3, <3>4, <5>2, AheadHead
          <6>2. Ahead(y, Head(l), task_queue)
            BY <1>1, <1>3, <3>4, <6>1 DEF OrderInv
          <6> QED BY <6>2, AheadIn
        <5> QED BY <5>1, <5>2
      <4>2. Head(l) \in Tasks
        BY <2>3
      <4>3. status[Head(l)] \in {"blocked", "queued"}
        BY <4>1, <4>2 DEF CoreInv, QueueInv, Ready
      <4> QED BY <2>3, <4>2, <4>3 DEF CoreInv, KindInv
    <3>5. NoneQueued(p)'
      BY <1>1, <3>3, <3>4 DEF NoneQueued
    <3>6. Cur(t)' = p /\ \A s \in Threads : Cur(s)' = Cur(s) /\ Cur(s) \in Owners
      BY <1>0, <2>1, SameFacts, CurTyped
    <3>7. \A s \in Threads : s # t => tpc'[s] = tpc[s]
      BY <2>3, TGotoMoves DEF TMoved
    <3>8. ASSUME NEW s \in Threads, tpc'[s] = "taskwaitsleep" PROVE Waiting(Cur(s))'
      <4>1. CASE s = t
        BY <3>2, <3>5, <3>6, <4>1 DEF Waiting
      <4>2. CASE s # t
        <5>1. PICK q \in Owners : q = Cur(s) /\ q = Cur(s)'
          BY <3>6
        <5>2. Waiting(q)
          BY <3>7, <3>8, <4>2, <5>1 DEF WaitInv
        <5> QED BY <2>3, <3>2, <3>3, <5>1, <5>2 DEF Waiting
      <4> QED BY <4>1, <4>2
    <3> QED BY <3>1, <3>2, <3>8 DEF WaitInv
  <2> QED BY <1>0, <1>1, <1>5, <2>2, <2>3, NotTaken DEF TaskwaitLoop, StartTask, listVars
<1>6. CASE Taskwait(t)
  <2>1. SameTasks /\ SameEnds
    BY <1>6, TaskwaitQuiet
  <2>2. UNCHANGED <<in_taskwait, taskwait_sem>> /\ TGoto(t, "taskwait")
    BY <1>6 DEF Taskwait, listVars
  <2>3. \A s \in Threads : tpc'[s] = "taskwaitsleep" => tpc[s] = "taskwaitsleep"
    BY <2>2, TGotoMoves DEF TMoved
  <2> QED BY <2>1, <2>2, <2>3, QuietSleeps
<1>7. CASE TaskwaitWake(t)
  <2>1. SameTasks /\ SameEnds
    BY <1>7, TaskwaitQuiet
  <2>2. /\ UNCHANGED in_taskwait /\ TGoto(t, "taskwait")
        /\ taskwait_sem[p] > 0 /\ taskwait_sem' = [taskwait_sem EXCEPT ![p] = @ - 1]
    BY <1>0, <1>7 DEF TaskwaitWake
  <2>3. OrderInv'
    BY <2>1, SameFacts, OrderStays DEF SameTasks, Shown
  <2>4. SemsTyped' /\ \A q \in Owners : q # p => taskwait_sem'[q] = taskwait_sem[q]
    <3>1. taskwait_sem \in [Owners -> Nat]
      BY DEF WaitInv, SemsTyped
    <3>2. taskwait_sem[p] - 1 \in Nat
      BY <2>2, <3>1
    <3> QED BY <2>2, <3>1, <3>2 DEF WaitInv, SemsTyped
  <2>5. tpc'[t] # "taskwaitsleep" /\ \A s \in Threads : s # t => tpc'[s] = tpc[s]
    BY <2>2, TGotoMoves DEF TMoved
  <2>6. \A s \in Threads : Cur(s)' = Cur(s)
    BY <2>1, SameFacts
  <2>7. ASSUME NEW s \in Threads, s # t, Waiting(Cur(s)) PROVE Waiting(Cur(s))'
    <3>1. PICK q \in Owners : q = Cur(s) /\ q # p
      BY <1>0, <2>7, CurTyped, CurInjective DEF CoreInv
    <3>2. NoneQueued(q) => NoneQueued(q)'
      BY <2>1 DEF NoneQueued, SameTasks
    <3> QED BY <2>2, <2>4, <2>6, <2>7, <3>1, <3>2 DEF Waiting
  <2> QED BY <2>3, <2>4, <2>5, <2>6, <2>7, OthersWait
<1> QED BY <1>4, <1>5, <1>6, <1>7

LEMMA SleepStart == Init => SleepInv
<1> SUFFICES ASSUME Init PROVE SleepInv
  OBVIOUS
<1>1. NoGroups
  BY DEF Init, NoGroups
<1>2. OrderInv
  <2>1. \A p \in Owners : children[p] = <<>>
    BY DEF Init
  <2>2. Injective(<<>>)
    BY DEF Injective
  <2> QED BY <2>1, <2>2, InNothing, AheadNothing DEF OrderInv
<1>3. WaitInv
  BY DEF Init, WaitInv, SemsTyped
<1> QED BY <1>1, <1>2, <1>3 DEF SleepInv

LEMMA SleepStep ==
  ASSUME BarrierFacts, Typed, CoreInv, PosInv, GroupInv, SleepInv, region \in Regions,
         region.groups = {}, NEW t \in Threads, RuntimeStep(t) \/ Ending(t) \/ Choice(t)
  PROVE  SleepInv'
<1>0. NoGroups /\ OrderInv /\ WaitInv /\ StackInv
  BY DEF SleepInv, CoreInv
<1>1. NoGroups'
  BY <1>0, StillNoGroups
<1> SUFFICES OrderInv' /\ WaitInv'
  BY <1>1 DEF SleepInv
<1>2. ASSUME SameTasks, SameEnds, UNCHANGED ownVars PROVE OrderInv' /\ WaitInv'
  <2>1. UNCHANGED <<in_taskwait, taskwait_sem, tpc>>
    BY <1>2 DEF ownVars, listVars
  <2> QED BY <1>0, <1>2, <2>1, QuietSleeps
<1>3. CASE BarrierStep(t) \/ Interrupted(t)
  BY <1>2, <1>3, BarrierStepQuiet DEF BarrierFacts, BarrierStep, Interrupted
<1>4. CASE EnterBarrier(t) \/ Cancellation(t)
  BY <1>2, <1>4, ImplicitQuiet DEF EnterBarrier, Cancellation
<1>5. CASE BarrierLoop(t)
  <2>1. CASE task_queue = <<>>
    BY <1>2, <1>5, <2>1, LoopReturns DEF BarrierLoop
  <2>2. CASE task_queue # <<>>
    <3>1. btask[t] = None
      BY <1>5 DEF BarrierFacts, BarrierLoop, TB!LoopTop
    <3>2. PICK x \in Tasks : Starts(t, x, "barrier") /\ RunPre(x) /\ OthersKeep(t)
      BY <1>5, <2>2, <3>1, LoopStarts
    <3>3. /\ Push(t, Head(task_queue), "barrier") /\ UNCHANGED <<in_taskwait, taskwait_sem>>
          /\ \E l \in {"code", "finish1"} : TGoto(t, l)
      BY <1>5, <2>2 DEF BarrierLoop
    <3>4. "barrier" \in Contexts
      BY DEF Contexts
    <3>5. Head(task_queue) \in Tasks
      BY <2>2 DEF Typed
    <3>6. Cur(t)' = Head(task_queue)
      BY <3>3, <3>4, <3>5, Pushed
    <3>7. x = Head(task_queue)
      BY <3>2, <3>4, <3>6, StartFacts
    <3>8. tpc'[t] # "taskwaitsleep"
      BY <3>3, TGotoMoves DEF TMoved
    <3>9. OrderInv'
      BY <1>0, <2>2, <3>2, <3>4, <3>7, StartOrder
    <3>10. WaitInv'
      BY <1>0, <3>2, <3>3, <3>4, <3>8, StartWaits
    <3> QED BY <3>9, <3>10
  <2> QED BY <2>1, <2>2
<1>6. CASE Defer(t)
  <2>1. PICK x \in Tasks : x = new[t] /\ (Drops(t, x) \/ Defers(t, x))
    BY <1>6, TaskDeferred
  <2>2. UNCHANGED <<in_taskwait, taskwait_sem>>
    BY <1>6 DEF Defer
  <2>3. CASE Defers(t, x)
    <3>1. Linked(t, x)
      BY <1>6, <2>1, DeferLinks
    <3> QED BY <1>0, <2>2, <2>3, <3>1, DeferOrder, DeferWaits
  <2>4. CASE Drops(t, x)
    <3>1. /\ kind' = [kind EXCEPT ![x] = "gone"] /\ TMoved(t, "code")
          /\ UNCHANGED <<status, task_queue, children, num_dependees, stack>>
      BY <2>4 DEF Drops
    <3>2. \A s : Cur(s)' = Cur(s)
      BY <3>1 DEF Cur
    <3>3. tpc[t] = "defer"
      BY <1>6 DEF Defer
    <3>4. \A p \in Owners : Alive(p)' => Alive(p)
      BY <3>1, <3>2, <3>3 DEF Alive, TMoved, Typed
    <3>5. OrderInv'
      BY <1>0, <3>1, <3>4, OrderStays DEF Shown, Ready
    <3>6. tpc'[t] # "taskwaitsleep" /\ \A s \in Threads : s # t => tpc'[s] = tpc[s]
      BY <3>1 DEF TMoved
    <3>7. WaitInv'
      BY <1>0, <2>2, <3>1, <3>2, <3>6, PostWaits
    <3> QED BY <3>5, <3>7
  <2> QED BY <2>1, <2>3, <2>4
<1>7. CASE TaskwaitLoop(t) \/ Taskwait(t) \/ TaskwaitWake(t)
  BY <1>0, <1>7, TaskwaitSleeps
<1>8. CASE \/ TaskgroupStart(t) \/ TaskgroupEnd(t) \/ TaskgroupLoop(t) \/ TaskgroupWake(t)
           \/ CancelTaskgroup(t)
  BY <1>0, <1>8, NoGroupOpened
<1>9. CASE TaskReturn(t)
  <2>1. SameTasks /\ SameEnds
    BY <1>9, ReturnQuiet
  <2>2. UNCHANGED <<in_taskwait, taskwait_sem>> /\ TGoto(t, "finish1")
    BY <1>9 DEF TaskReturn, listVars
  <2>3. \A s \in Threads : tpc'[s] = "taskwaitsleep" => tpc[s] = "taskwaitsleep"
    BY <2>2, TGotoMoves DEF TMoved
  <2> QED BY <1>0, <2>1, <2>2, <2>3, QuietSleeps
<1>10. CASE Finish1(t)
  <2>1. PICK x \in Tasks : x = Cur(t) /\ Releases(t, x)
    BY <1>10, TaskReleases
  <2>2. /\ task_queue' = task_queue \o Released(x)
        /\ IF parent[x] = None THEN children' = children
           ELSE children' = [children EXCEPT
                    ![parent[x]] = RemoveFirst(Reverse(Released(x)) \o @, x)]
        /\ IF parent[x] = None THEN UNCHANGED <<in_taskwait, taskwait_sem>>
           ELSE PostTaskwait(parent[x], Released(x) # <<>>)
    BY <1>10, <2>1 DEF Finish1
  <2>3. OrderInv'
    BY <1>0, <2>1, <2>2, ReleaseOrder
  <2>4. WaitInv'
    BY <1>0, <2>1, <2>2, ReleaseWaits
  <2> QED BY <2>3, <2>4
<1>11. ASSUME NEW x \in Tasks, Orphans(t, x),
              \/ UNCHANGED <<in_taskwait, taskwait_sem>>
              \/ \E p, b : b \in BOOLEAN /\ PostTaskwait(p, b)
       PROVE  OrderInv' /\ WaitInv'
  <2>1. /\ \A s \in Threads : s # t => Cur(s)' = Cur(s)
        /\ \A y : Alive(y)' => Alive(y)
        /\ \A y : Ready(y)' <=> Ready(y)
    BY <1>11, OrphanFacts
  <2>2. /\ UNCHANGED <<status, task_queue, children>>
        /\ tpc'[t] # "taskwaitsleep" /\ \A s \in Threads : s # t => tpc'[s] = tpc[s]
    BY <1>11 DEF Orphans
  <2>3. OrderInv'
    BY <1>0, <2>1, <2>2, OrderStays DEF Shown
  <2>4. WaitInv'
    BY <1>0, <1>11, <2>1, <2>2, PostWaits
  <2> QED BY <2>3, <2>4
<1>12. CASE Finish2(t)
  <2>1. PICK x \in Tasks : Orphans(t, x)
    BY <1>12, FinishOrphans
  <2>2. PostTaskwait(parent[Cur(t)], tpc[t] = "finish2null") /\ (tpc[t] = "finish2null") \in BOOLEAN
    BY <1>12 DEF Finish2
  <2> QED BY <1>11, <2>1, <2>2
<1>13. CASE InlineEnd(t)
  <2>1. PICK x \in Tasks : Orphans(t, x)
    BY <1>13, InlineOrphans
  <2>2. UNCHANGED <<in_taskwait, taskwait_sem>>
    BY <1>13 DEF InlineEnd
  <2> QED BY <1>11, <2>1, <2>2
<1>14. CASE Finish3(t)
  <2>1. PICK x \in Tasks : Ends(t, x)
    BY <1>14, TaskEnds
  <2>2. /\ UNCHANGED <<task_queue, children>>
        /\ tpc'[t] # "taskwaitsleep" /\ \A s \in Threads : s # t => tpc'[s] = tpc[s]
        /\ status'[x] = "done"
        /\ \A y \in Tasks : y # x => status'[y] = IF Ready(y) THEN "queued" ELSE status[y]
    BY <2>1 DEF Ends
  <2>3. /\ \A s \in Threads : s # t => Cur(s)' = Cur(s)
        /\ \A y : Alive(y)' <=> Alive(y)
    BY <2>1, EndFacts
  <2>4. OrderInv'
    BY <1>0, <2>2, <2>3, OrderStays DEF Shown
  <2>5. UNCHANGED <<in_taskwait, taskwait_sem>>
    BY <1>14 DEF Finish3
  <2>6. WaitInv'
    BY <1>0, <2>2, <2>3, <2>5, PostWaits
  <2> QED BY <2>4, <2>6
<1>15. CASE GompTask(t)
  <2>1. PICK x \in Tasks, d \in [Addrs -> {"no", "in", "out"}] : Begins(t, x, d)
    BY <1>15, TaskBegins
  <2>2. /\ \A s \in Threads : s # t => Cur(s)' = Cur(s)
        /\ \A y : Alive(y)' <=> Alive(y)
        /\ \A y : Ready(y)' <=> Ready(y)
    BY <2>1, BeginFacts
  <2>3. /\ UNCHANGED <<status, task_queue, children>>
        /\ tpc'[t] # "taskwaitsleep" /\ \A s \in Threads : s # t => tpc'[s] = tpc[s]
    BY <2>1 DEF Begins, TMoved
  <2>4. OrderInv'
    BY <1>0, <2>2, <2>3, OrderStays DEF Shown
  <2>5. UNCHANGED <<in_taskwait, taskwait_sem>>
    BY <1>15 DEF GompTask
  <2>6. WaitInv'
    BY <1>0, <2>2, <2>3, <2>5, PostWaits
  <2> QED BY <2>4, <2>6
<1> QED BY <1>3, <1>4, <1>5, <1>6, <1>7, <1>8, <1>9, <1>10, <1>12, <1>13, <1>14, <1>15,
        Zenon DEF RuntimeStep, Ending, Choice

LEMMA SleepStutter ==
  ASSUME Typed, SleepInv, UNCHANGED vars PROVE SleepInv'
<1>1. UNCHANGED <<listVars, bodyVars, tpc, stack, new, status, btask>>
  BY DEF vars, tbVars
<1>2. SameTasks /\ SameEnds
  BY <1>1, ListVarsKept DEF SameTasks, SameEnds
<1>3. UNCHANGED <<in_taskwait, taskwait_sem, taskgroup, home>>
  BY <1>1 DEF listVars, bodyVars
<1>4. NoGroups'
  BY <1>3 DEF SleepInv, NoGroups
<1>5. OrderInv' /\ WaitInv'
  BY <1>1, <1>2, <1>3, QuietSleeps DEF SleepInv
<1> QED BY <1>4, <1>5 DEF SleepInv

(* In a region without taskgroups a task sleeps in GOMP_taskwait only      *)
(* while all of its children run or wait for those that do, although the   *)
(* loop looks at the head of the list only.                                *)
THEOREM SleepsWhenBusy == Spec => []SleepsOnlyWhenBusy
<1> DEFINE Quiet == region.groups = {} => SleepInv
<1>1. Init => Quiet /\ region \in Regions
  BY SleepStart DEF Init, TB!Init
<1>2. region \in Regions /\ [Next]_vars => region' = region
  BY NextIsBarriers, RegionStays
<1>3. BarrierFacts /\ TasksInv /\ region \in Regions /\ Quiet /\ [Next]_vars => Quiet'
  <2> SUFFICES ASSUME BarrierFacts, TasksInv, region \in Regions, Quiet, [Next]_vars,
                      region'.groups = {}
               PROVE  SleepInv'
    OBVIOUS
  <2>1. region.groups = {} /\ SleepInv
    BY <1>2
  <2>2. Typed /\ CoreInv /\ PosInv /\ GroupInv
    BY DEF TasksInv
  <2>3. CASE UNCHANGED vars
    BY <2>1, <2>2, <2>3, SleepStutter
  <2>4. ASSUME NEW t \in Threads, RuntimeStep(t) \/ Ending(t) \/ Choice(t) PROVE SleepInv'
    BY <2>1, <2>2, <2>4, SleepStep
  <2> QED BY <2>3, <2>4 DEF Next
<1>4. TasksInv /\ Quiet => SleepsOnlyWhenBusy
  <2> SUFFICES ASSUME TasksInv, SleepInv, region.groups = {}, NEW t \in Threads,
                      tpc[t] = "taskwaitsleep", taskwait_sem[Cur(t)] = 0,
                      NEW x \in ToSet(children[Cur(t)]), status[x] = "queued"
               PROVE  FALSE
    BY DEF SleepsOnlyWhenBusy
  <2>1. Typed /\ QueueInv /\ WaitInv
    BY DEF TasksInv, CoreInv, SleepInv
  <2>2. children[Cur(t)] \in Seq(Tasks)
    BY <2>1, CurTyped DEF Typed
  <2>3. x \in Tasks /\ In(x, children[Cur(t)])
    BY <2>2, InTyped DEF ToSet, In
  <2>4. In(x, task_queue)
    BY <2>1, <2>3 DEF QueueInv
  <2>5. NoneQueued(Cur(t))
    BY <2>1 DEF WaitInv, Waiting
  <2> QED BY <2>3, <2>4, <2>5 DEF NoneQueued
<1>5. Spec => []TBP!BarrierInv
  BY TasksImplementBarrier, SameSpec, TBP!BarrierInvariant, BarriersAssumption, PTL
<1>6. Spec => []BarrierFacts
  BY <1>5, BarrierKnows, PTL
<1> HIDE DEF Quiet
<1>7. region \in Regions /\ [Next]_vars => (region \in Regions)'
  BY <1>2
<1>8. Spec => [](region \in Regions /\ Quiet)
  BY <1>1, <1>3, <1>6, <1>7, TasksInvariant, PTL DEF Spec
<1> QED BY <1>4, <1>8, TasksInvariant, PTL
=============================================================================
