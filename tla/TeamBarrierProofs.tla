-------------------------- MODULE TeamBarrierProofs -------------------------
(***************************************************************************)
(* The team barrier completes exactly when all threads of the team are in  *)
(* it and no task is left, its counters agree with the tasks, and no       *)
(* sleeper is forgotten, whatever the team, its tasks and its regions.     *)
(***************************************************************************)
EXTENDS TeamBarrier, FiniteSetTheorems, TLAPS

Words == [n : Nat, pending : BOOLEAN, waiting : BOOLEAN, cancelled : BOOLEAN]
States == [n : Nat, cancelled : BOOLEAN, last : BOOLEAN]

(* The types of the variables; that the counters are no less than zero and *)
(* no more than the team follows from what they count.                     *)
Typed ==
    /\ region \in Regions
    /\ generation \in Words
    /\ awaited \in Int /\ awaited_final \in Int
    /\ task_lock \in Threads \cup {None}
    /\ task_count \in Int /\ task_queued_count \in Int
    /\ task_running_count \in Int
    /\ work_share_cancelled \in BOOLEAN /\ team_cancelled \in BOOLEAN
    /\ status \in [Tasks -> Statuses]
    /\ by \in [Tasks -> Threads \cup {None}]
    /\ pc \in [Threads -> PCs]
    /\ phase \in [Threads -> Nat]
    /\ state \in [Threads -> States]
    /\ wbit \in [Threads -> BOOLEAN]
    /\ btask \in [Threads -> Tasks \cup {None}]
    /\ do_wake \in [Threads -> Nat]

(* The task a thread runs in the barrier's loop is its own; only there, or *)
(* in the task, has it one.                                                *)
RunInv ==
    \A t \in Threads :
        /\ btask[t] # None => /\ btask[t] \in Executing(t)
                              /\ pc[t] \in {"user", "post", "finish", "cancelled"}
        /\ pc[t] \in {"finish", "cancelled"} => btask[t] # None

(* A task is blocked only while one that is counted can release it.        *)
BlockedInv == task_count = 0 => \A x \in Tasks : status[x] # "blocked"

TaskInv == Typed /\ RunInv /\ CountersAgree /\ BlockedInv
-----------------------------------------------------------------------------
(* Where the threads are: in the barrier that is not complete yet, or      *)
(* still in the one before; all ("true") or none of them at the last one.  *)
Here(t) == InBarrier(t) /\ state[t].n = generation.n
Passed(t) == InBarrier(t) /\ state[t].n + 1 = generation.n
HereAt(f) == {t \in region.team : Here(t) /\ (Final(t) <=> f)}
AllHere(f) == \A t \in region.team : Here(t) /\ (Final(t) <=> f)

(* The thread that was the last to arrive, until it has decided whether the *)
(* barrier is complete.                                                    *)
Decider(t) == \/ pc[t] \in {"last", "complete"}
              \/ pc[t] = "handle" /\ state[t].last

PlaceOf(t) ==
    /\ InBarrier(t) => Here(t) \/ Passed(t)
    /\ pc[t] = "arrive" => state[t].n = generation.n
    /\ pc[t] = "wakeall" => Passed(t)
    /\ ~Skips(t) => phase[t] = IF Passed(t) THEN generation.n - 1 ELSE generation.n
    /\ Skips(t) => generation.cancelled \/ Passed(t) \/ pc[t] = "gone"
    /\ pc[t] = "gone" => Skips(t)
    /\ pc[t] \in {"cancel", "cancelwake"} => ~Skips(t)
    /\ pc[t] = "cancelwake" => generation.cancelled
    /\ pc[t] = "arrive" \/ Here(t) => (state[t].cancelled => generation.cancelled)
    /\ Here(t) /\ CancelKind(t) => ~state[t].cancelled
    /\ pc[t] \in {"dowait", "asleep", "load", "reload"} => ~state[t].last

PlaceInv ==
    /\ \A t \in region.team : PlaceOf(t)
    /\ \A t \in Threads \ region.team : pc[t] = "gone"

(* Once somebody decides, or WAITING_FOR_TASK is set, everybody is in this *)
(* barrier, and it is not one that was cancelled.                          *)
Closed(f) ==
    /\ AllHere(f)
    /\ ~f => ~generation.cancelled

DecideInv ==
    /\ \A t \in Threads : Decider(t) =>
          /\ Closed(Final(t))
          /\ ~generation.waiting
          /\ \A s \in Threads : Decider(s) => s = t
          /\ pc[t] # "last" => ~work_share_cancelled
          /\ pc[t] = "complete" => task_count = 0
    /\ generation.waiting =>
          /\ \E f \in BOOLEAN : Closed(f)
          /\ ~work_share_cancelled

(* What the counters of the barrier count.  They are reset by the last     *)
(* thread.  awaited loses its meaning when the region is cancelled: threads *)
(* leave without having been counted; it stays above the number of those   *)
(* that may still arrive.                                                  *)
NobodyLast == \A t \in Threads : pc[t] # "last"
Reset(f) == AllHere(f) /\ NobodyLast
Missing(f) == IF Reset(f) THEN nthreads ELSE nthreads - Cardinality(HereAt(f))
Coming == {t \in region.team : /\ ~Here(t) /\ ~Skips(t) /\ pc[t] # "cancelwake"
                               /\ generation.n < region.barriers}

AwaitInv ==
    /\ awaited_final = Missing(TRUE)
    /\ ~generation.cancelled => awaited = Missing(FALSE)
    /\ generation.cancelled => Cardinality(Coming) < awaited /\ awaited <= nthreads
    /\ Reset(TRUE) => awaited = nthreads

BarrierInv == TaskInv /\ PlaceInv /\ DecideInv /\ AwaitInv
-----------------------------------------------------------------------------
(* Types.                                                                  *)

LEMMA TeamSize == ASSUME region \in Regions PROVE nthreads \in Nat \ {0}
  <1>1. region.team \subseteq Threads /\ region.team # {} /\ IsFiniteSet(Threads)
    BY ConstantsAssumption
  <1> QED BY <1>1, FS_Subset, FS_CardinalityType, FS_EmptySet DEF nthreads

LEMMA ToWakeNat ==
  ASSUME NEW i \in Int, NEW n \in Nat PROVE ToWake(i, n) \in Nat
BY DEF ToWake

LEMMA WakeUpTyped ==
  ASSUME pc \in [Threads -> PCs], NEW t, NEW W, NEW l \in PCs, WakeUp(W, t, l)
  PROVE  pc' \in [Threads -> PCs]
BY DEF WakeUp, PCs

\* The words and the local copies that the code makes.
LEMMA WordsMade ==
  ASSUME NEW g \in Words, NEW n \in Nat, NEW b \in BOOLEAN
  PROVE  /\ Word(n) \in Words
         /\ [Word(n) EXCEPT !.cancelled = b] \in Words
         /\ [g EXCEPT !.pending = b] \in Words
         /\ [g EXCEPT !.waiting = b] \in Words
         /\ [g EXCEPT !.cancelled = b] \in Words
BY DEF Word, Words

LEMMA StatesMade ==
  ASSUME state \in [Threads -> States], NEW t \in Threads
  PROVE  /\ \A b \in BOOLEAN : [state EXCEPT ![t].last = b] \in [Threads -> States]
         /\ \A n \in Nat, b \in BOOLEAN :
                [state EXCEPT ![t] = [n |-> n, cancelled |-> b, last |-> FALSE]]
                    \in [Threads -> States]
BY DEF States

LEMMA StateFields ==
  ASSUME state \in [Threads -> States], NEW t \in Threads
  PROVE  /\ state[t].n \in Nat /\ state[t].n + 1 \in Nat
         /\ state[t].cancelled \in BOOLEAN /\ state[t].last \in BOOLEAN
BY DEF States

LEMMA Fields ==
  ASSUME NEW g \in Words
  PROVE  /\ g.n \in Nat /\ g.pending \in BOOLEAN
         /\ g.waiting \in BOOLEAN /\ g.cancelled \in BOOLEAN
BY DEF Words

\* What a step that finishes task x does; R are the tasks it releases.
Finishes(t, x, R) ==
    /\ FinishTask(x, R)
    /\ do_wake'[t] \in Nat
    /\ do_wake' = [do_wake EXCEPT ![t] = do_wake'[t]]

LEMMA FinishTyped ==
  ASSUME Typed, NEW t \in Threads, NEW x \in Tasks, NEW R \in SUBSET Tasks,
         Finishes(t, x, R)
  PROVE  /\ Cardinality(R) \in Nat /\ IsFiniteSet(R)
         /\ task_count' \in Int /\ task_queued_count' \in Int
         /\ status' \in [Tasks -> Statuses]
         /\ by' \in [Tasks -> Threads \cup {None}]
         /\ do_wake' \in [Threads -> Nat]
<1>1. Cardinality(R) \in Nat /\ IsFiniteSet(R)
  BY FS_Subset, FS_CardinalityType, ConstantsAssumption
<1> QED BY <1>1 DEF Typed, Finishes, FinishTask, Statuses

LEMMA BarrierFinishes ==
  ASSUME Typed, RunInv, NEW t \in Threads, BarrierFinish(t)
  PROVE  /\ btask[t] \in Tasks
         /\ \E R \in SUBSET Tasks :
               /\ Finishes(t, btask[t], R)
               /\ IF LastTaskDone
                  THEN BarrierDone(t) /\ task_lock' = None /\ Goto(t, "donewake")
                  ELSE /\ generation' = [generation EXCEPT !.pending = PendingAfter(R)]
                       /\ UNCHANGED task_lock
                       /\ Goto(t, "top")
<1>1. btask[t] \in Tasks
  BY DEF BarrierFinish, RunInv, Typed
<1>2. PICK R \in SUBSET Tasks :
         /\ FinishTask(btask[t], R)
         /\ do_wake' = [do_wake EXCEPT ![t] =
                IF Cardinality(R) > 1
                THEN ToWake(nthreads - task_running_count', Cardinality(R))
                ELSE @]
         /\ IF LastTaskDone
            THEN BarrierDone(t) /\ task_lock' = None /\ Goto(t, "donewake")
            ELSE /\ generation' = [generation EXCEPT !.pending = PendingAfter(R)]
                 /\ UNCHANGED task_lock
                 /\ Goto(t, "top")
  BY DEF BarrierFinish
<1>3. Cardinality(R) \in Nat
  BY FS_Subset, FS_CardinalityType, ConstantsAssumption
<1>4. nthreads - task_running_count' \in Int
  BY TeamSize DEF BarrierFinish, RunningAfter, Typed
<1>5. do_wake'[t] \in Nat
  BY <1>2, <1>3, <1>4, ToWakeNat DEF Typed
<1>6. do_wake' = [do_wake EXCEPT ![t] = do_wake'[t]]
  BY <1>2 DEF Typed
<1> QED BY <1>1, <1>2, <1>5, <1>6 DEF Finishes

LEMMA WaitFinishes ==
  ASSUME Typed, NEW t \in Threads, WaitFinish(t)
  PROVE  \E x \in Executing(t) \ {btask[t]}, R \in SUBSET Tasks :
            /\ x \in Tasks
            /\ Finishes(t, x, R)
            /\ generation' = [generation EXCEPT !.pending = PendingAfter(R)]
<1>1. PICK x \in Executing(t) \ {btask[t]}, R \in SUBSET Tasks :
         /\ FinishTask(x, R)
         /\ generation' = [generation EXCEPT !.pending = PendingAfter(R)]
         /\ \E tied \in {0, 1} :
                do_wake' = [do_wake EXCEPT ![t] =
                   IF Cardinality(R) > 1
                   THEN ToWake(nthreads - task_running_count - tied, Cardinality(R))
                   ELSE @]
  BY DEF WaitFinish
<1>2. x \in Tasks
  BY DEF Executing
<1>3. Cardinality(R) \in Nat
  BY FS_Subset, FS_CardinalityType, ConstantsAssumption
<1>4. \A tied \in {0, 1} : nthreads - task_running_count - tied \in Int
  BY TeamSize DEF Typed
<1>5. do_wake'[t] \in Nat
  BY <1>1, <1>3, <1>4, ToWakeNat DEF Typed
<1>6. do_wake' = [do_wake EXCEPT ![t] = do_wake'[t]]
  BY <1>1 DEF Typed
<1> QED BY <1>1, <1>2, <1>5, <1>6 DEF Finishes

LEMMA TypedStep == Typed /\ RunInv /\ [Next]_vars => Typed'
<1> SUFFICES ASSUME Typed, RunInv, [Next]_vars PROVE Typed'
  OBVIOUS
<1>0. CASE UNCHANGED vars
  BY <1>0 DEF Typed, vars, barVars, teamVars, regionVars, taskVars, threadVars
<1> SUFFICES ASSUME NEW t \in Threads, Step(t) \/ Ending(t) \/ Choice(t) PROVE Typed'
  BY <1>0 DEF Next
<1> USE DEF Typed, Goto, barVars, teamVars, regionVars, taskVars, threadVars
<1>1. CASE LoadState(t)
  BY <1>1, StatesMade, Fields DEF LoadState, PCs
<1>2. CASE Arrive(t)
  <2>1. \A b \in BOOLEAN : [state EXCEPT ![t].last = b] \in [Threads -> States]
    BY StatesMade
  <2>2. region.barriers + 1 \in Nat
    BY ConstantsAssumption
  <2>3. awaited' \in Int /\ awaited_final' \in Int
    BY <1>2 DEF Arrive
  <2>4. state' \in [Threads -> States]
    BY <1>2, <2>1 DEF Arrive
  <2>5. pc' \in [Threads -> PCs] /\ phase' \in [Threads -> Nat]
    BY <1>2, <2>2 DEF Arrive, JumpToEnd, PCs
  <2> QED BY <1>2, <2>3, <2>4, <2>5 DEF Arrive
<1>3. CASE LastThread(t)
  <2>1. nthreads \in Int
    BY TeamSize
  <2>2. pc' \in [Threads -> PCs]
    BY <1>3 DEF LastThread, PCs
  <2> QED BY <1>3, <2>1, <2>2 DEF LastThread, AwaitAgain, ForgetCancelledLoop
<1>4. CASE Complete(t)
  <2>1. state[t].n + 1 \in Nat
    BY StateFields
  <2>2. (CancelKind(t) /\ state[t].cancelled) \in BOOLEAN
    OBVIOUS
  <2> QED BY <1>4, <2>1, <2>2, WordsMade DEF Complete, PCs
<1>5. CASE WakeAndLeave(t)
  BY <1>5, WakeUpTyped DEF WakeAndLeave, WakeAll, PCs
<1>6. CASE DoWait(t)
  BY <1>6 DEF DoWait, PCs
<1>7. CASE Interrupted(t)
  BY <1>7 DEF Interrupted, PCs
<1>8. CASE Load(t)
  <2>2. region.barriers + 1 \in Nat
    BY ConstantsAssumption
  <2>3. (wbit[t] \/ generation.waiting) \in BOOLEAN
    OBVIOUS
  <2>4. pc' \in [Threads -> PCs] /\ phase' \in [Threads -> Nat]
    BY <1>8, <2>2 DEF Load, JumpToEnd, LoopTest, Leave, PCs
  <2>5. wbit' \in [Threads -> BOOLEAN]
    BY <1>8, <2>3 DEF Load, LoopTest
  <2> QED BY <1>8, <2>4, <2>5 DEF Load
<1>9. CASE Reload(t)
  <2>3. (wbit[t] \/ generation.waiting) \in BOOLEAN
    OBVIOUS
  <2>4. pc' \in [Threads -> PCs] /\ phase' \in [Threads -> Nat]
    BY <1>9 DEF Reload, LoopTest, Leave, PCs
  <2>5. wbit' \in [Threads -> BOOLEAN]
    BY <1>9, <2>3 DEF Reload, LoopTest
  <2> QED BY <1>9, <2>4, <2>5 DEF Reload
<1>10. CASE HandleTasks(t)
  <2>1. state[t].n + 1 \in Nat
    BY StateFields
  <2>2. (generation.waiting \/ state[t].last) \in BOOLEAN
    OBVIOUS
  <2> QED BY <1>10, <2>1, <2>2, WordsMade DEF HandleTasks, BarrierDone, SetWaitingForTasks, PCs
<1>11. CASE LoopTop(t)
  <2>1. CASE \A x \in Tasks : status[x] # "queued"
    <3>1. (state[t].last /\ do_wake[t] > 0) \in BOOLEAN
      OBVIOUS
    <3>2. state' \in [Threads -> States]
      <4>1. state' = [state EXCEPT ![t].last = (state[t].last /\ do_wake[t] > 0)]
        BY <1>11, <2>1 DEF LoopTop
      <4> QED BY <4>1, <3>1, StatesMade
    <3>3. pc' \in [Threads -> PCs]
      BY <1>11, <2>1 DEF LoopTop, AfterUnlock, HandleReturn, PCs
    <3> QED BY <1>11, <2>1, <3>2, <3>3 DEF LoopTop
  <2>2. CASE \E x \in Tasks : status[x] = "queued"
    <3>1. (generation.pending /\ task_queued_count' # 0) \in BOOLEAN
      OBVIOUS
    <3>2. pc' \in [Threads -> PCs]
      BY <1>11, <2>2 DEF LoopTop, AfterUnlock, PCs
    <3>3. generation' \in Words
      <4>1. PICK x \in Tasks : TakeOff(t, x)
        BY <1>11, <2>2 DEF LoopTop
      <4> QED BY <4>1, <3>1, WordsMade DEF TakeOff
    <3>4. status' \in [Tasks -> Statuses] /\ by' \in [Tasks -> Threads \cup {None}]
      BY <1>11, <2>2 DEF LoopTop, TakeOff, Statuses
    <3> QED BY <1>11, <2>2, <3>2, <3>3, <3>4 DEF LoopTop, TakeOff
  <2> QED BY <2>1, <2>2
<1>12. CASE PostWake(t)
  <2>1. (state[t].last /\ btask[t] # None) \in BOOLEAN
    OBVIOUS
  <2> QED BY <1>12, <2>1, StatesMade, WakeUpTyped DEF PostWake, WakeSome, HandleReturn, PCs
<1>13. CASE TaskEnd(t)
  BY <1>13 DEF TaskEnd, PCs
<1>14. CASE BarrierFinish(t)
  <2>1. state[t].n + 1 \in Nat
    BY StateFields
  <2>2. \A R : PendingAfter(R) \in BOOLEAN
    BY DEF PendingAfter
  <2>3. RunningAfter(t) \in Int
    BY DEF RunningAfter
  <2>4. pc' \in [Threads -> PCs] /\ task_lock' \in Threads \cup {None}
    BY <1>14, BarrierFinishes DEF PCs
  <2>5. generation' \in Words
    <3>1. \/ generation' = Word(state[t].n + 1)
          \/ \E R : generation' = [generation EXCEPT !.pending = PendingAfter(R)]
      BY <1>14, BarrierFinishes DEF BarrierDone
    <3>2. generation \in Words
      OBVIOUS
    <3> QED BY <3>1, <3>2, <2>1, <2>2, WordsMade
  <2>6. btask' \in [Threads -> Tasks \cup {None}]
    BY <1>14 DEF BarrierFinish
  <2>7. /\ task_count' \in Int /\ task_queued_count' \in Int
        /\ status' \in [Tasks -> Statuses]
        /\ by' \in [Tasks -> Threads \cup {None}]
        /\ do_wake' \in [Threads -> Nat]
    <3>1. PICK R \in SUBSET Tasks : Finishes(t, btask[t], R)
      BY <1>14, BarrierFinishes
    <3>2. btask[t] \in Tasks
      BY <1>14, BarrierFinishes
    <3> QED BY <3>1, <3>2, FinishTyped
  <2>8. UNCHANGED <<awaited, awaited_final, regionVars, threadVars>>
    BY <1>14 DEF BarrierFinish
  <2>9. task_running_count' \in Int
    BY <1>14, <2>3 DEF BarrierFinish
  <2> QED BY <2>4, <2>5, <2>6, <2>7, <2>8, <2>9
<1>15. CASE DoneWake(t)
  <2>1. state' \in [Threads -> States]
    BY <1>15, StatesMade DEF DoneWake
  <2>2. pc' \in [Threads -> PCs]
    BY <1>15, WakeUpTyped DEF DoneWake, WakeAll, PCs
  <2> QED BY <1>15, <2>1, <2>2 DEF DoneWake
<1>16. CASE Relock(t)
  BY <1>16 DEF Relock, PCs
<1>17. CASE \E x \in Tasks : CreateTask(t, x)
  <2>1. status' \in [Tasks -> Statuses]
    BY <1>17 DEF CreateTask, Statuses
  <2>2. generation' \in Words
    BY <1>17, WordsMade DEF CreateTask
  <2>3. do_wake' \in [Threads -> Nat]
    BY <1>17 DEF CreateTask
  <2> QED BY <1>17, <2>1, <2>2, <2>3 DEF CreateTask
<1>18. CASE WaitLock(t)
  BY <1>18 DEF WaitLock, PCs
<1>19. CASE WaitTake(t)
  <2>1. (generation.pending /\ task_queued_count' # 0) \in BOOLEAN
    OBVIOUS
  <2>2. status' \in [Tasks -> Statuses] /\ by' \in [Tasks -> Threads \cup {None}]
    BY <1>19 DEF WaitTake, TakeOff, Statuses
  <2>3. generation' \in Words
    BY <1>19, <2>1, WordsMade DEF WaitTake, TakeOff
  <2> QED BY <1>19, <2>2, <2>3 DEF WaitTake, TakeOff
<1>20. CASE WaitFinish(t)
  <2>2. \A R : PendingAfter(R) \in BOOLEAN
    BY DEF PendingAfter
  <2>3. PICK x \in Executing(t) \ {btask[t]}, R \in SUBSET Tasks :
           /\ x \in Tasks
           /\ Finishes(t, x, R)
           /\ generation' = [generation EXCEPT !.pending = PendingAfter(R)]
    BY <1>20, WaitFinishes
  <2>4. generation' \in Words
    BY <2>2, <2>3, WordsMade
  <2>5. /\ task_count' \in Int /\ task_queued_count' \in Int
        /\ status' \in [Tasks -> Statuses]
        /\ by' \in [Tasks -> Threads \cup {None}]
        /\ do_wake' \in [Threads -> Nat]
    BY <2>3, FinishTyped
  <2> QED BY <1>20, <2>4, <2>5 DEF WaitFinish
<1>21. CASE WaitUnlock(t)
  BY <1>21 DEF WaitUnlock, PCs
<1>22. CASE UserWake(t)
  BY <1>22, WakeUpTyped DEF UserWake, WakeSome, PCs
<1>23. CASE CancelLoop(t)
  BY <1>23 DEF CancelLoop, PCs
<1>24. CASE CancelTeam(t)
  BY <1>24 DEF CancelTeam, PCs
<1>25. CASE BarrierCancel(t)
  <2>2. region.barriers + 1 \in Nat
    BY ConstantsAssumption
  <2> QED BY <1>25, <2>2, WordsMade DEF BarrierCancel, JumpToEnd, PCs
<1>26. CASE CancelWake(t)
  <2>2. region.barriers + 1 \in Nat
    BY ConstantsAssumption
  <2> QED BY <1>26, <2>2, WakeUpTyped DEF CancelWake, WakeAll, PCs
<1>27. CASE CancellationPoint(t)
  <2>2. region.barriers + 1 \in Nat
    BY ConstantsAssumption
  <2> QED BY <1>27, <2>2 DEF CancellationPoint, JumpToEnd, PCs
<1> QED
  BY <1>1, <1>2, <1>3, <1>4, <1>5, <1>6, <1>7, <1>8, <1>9, <1>10, <1>11, <1>12, <1>13, <1>14, <1>15, <1>16, <1>17, <1>18, <1>19, <1>20, <1>21, <1>22, <1>23, <1>24, <1>25, <1>26, <1>27 DEF Step, Ending, Choice
-----------------------------------------------------------------------------
(* Tasks and their counters.                                               *)

Live == {x \in Tasks : status[x] \in {"queued", "running"}}
Queued == {x \in Tasks : status[x] = "queued"}
Runners == {t \in Threads : btask[t] # None /\ pc[t] # "cancelled"}

\* What a step may do to a thread without touching a task.
KeepsTasks(s) ==
    \/ pc'[s] = pc[s]
    \/ btask[s] = None /\ pc'[s] \notin {"finish", "cancelled"}
    \/ /\ btask[s] # None /\ pc[s] # "cancelled"
       /\ pc'[s] \in {"user", "post", "finish"}

KeepsAllTasks ==
    /\ UNCHANGED <<status, by, btask, teamVars>>
    /\ \A s \in Threads : KeepsTasks(s)

LEMMA TasksKept ==
  ASSUME TaskInv, Typed', KeepsAllTasks
  PROVE  TaskInv'
<1>1. RunInv'
  BY DEF TaskInv, RunInv, KeepsAllTasks, KeepsTasks, Executing
<1>2. Runners' = Runners
  BY DEF TaskInv, RunInv, KeepsAllTasks, KeepsTasks, Runners
<1>3. CountersAgree' /\ BlockedInv'
  BY <1>2 DEF TaskInv, CountersAgree, BlockedInv, Runners, KeepsAllTasks, teamVars
<1> QED BY <1>1, <1>3 DEF TaskInv

LEMMA WakeUpOthers ==
  ASSUME pc \in [Threads -> PCs], NEW t \in Threads, NEW W \in SUBSET Sleepers, NEW l,
         WakeUp(W, t, l)
  PROVE  /\ pc'[t] = l
         /\ \A s \in Threads \ {t} :
               pc'[s] = IF s \in W THEN "load" ELSE pc[s]
         /\ \A s \in W : pc[s] = "asleep"
BY DEF WakeUp, Sleepers

LEMMA GotoOthers ==
  ASSUME pc \in [Threads -> PCs], NEW t \in Threads, NEW l, Goto(t, l)
  PROVE  pc'[t] = l /\ \A s \in Threads \ {t} : pc'[s] = pc[s]
BY DEF Goto

LEMMA CountersFinite == 
  /\ IsFiniteSet(Live) /\ IsFiniteSet(Queued) /\ IsFiniteSet(Runners)
  /\ Cardinality(Live) \in Nat /\ Cardinality(Queued) \in Nat
  /\ Cardinality(Runners) \in Nat
<1>1. Live \subseteq Tasks /\ Queued \subseteq Tasks /\ Runners \subseteq Threads
  BY DEF Live, Queued, Runners
<1> QED BY <1>1, FS_Subset, FS_CardinalityType, ConstantsAssumption

LEMMA DisjointUnion ==
  ASSUME NEW S, NEW T, IsFiniteSet(S), IsFiniteSet(T), S \cap T = {}
  PROVE  Cardinality(S \cup T) = Cardinality(S) + Cardinality(T)
<1>1. Cardinality(S \cup T) = Cardinality(S) + Cardinality(T) - Cardinality({})
  BY FS_Union
<1>2. Cardinality({}) = 0 /\ Cardinality(S) \in Nat /\ Cardinality(T) \in Nat
  BY FS_EmptySet, FS_CardinalityType
<1> QED BY <1>1, <1>2

LEMMA TakenCounted ==
  ASSUME Typed, CountersAgree, NEW t \in Threads, NEW x \in Tasks,
         status[x] = "queued", TakeOff(t, x), task_count' = task_count
  PROVE  /\ task_count' = Cardinality(Live') 
         /\ task_queued_count' = Cardinality(Queued')
         /\ BlockedInv => BlockedInv'
<1>1. Live' = Live /\ Queued' = Queued \ {x} /\ x \in Queued
  BY DEF Typed, TakeOff, Live, Queued
<1>2. Cardinality(Queued') = Cardinality(Queued) - 1
  BY <1>1, CountersFinite, FS_RemoveElement
<1>3. task_count = Cardinality(Live) /\ task_queued_count = Cardinality(Queued)
  BY DEF CountersAgree, Live, Queued
<1>4. BlockedInv => BlockedInv'
  BY DEF BlockedInv, Typed, TakeOff
<1> QED BY <1>1, <1>2, <1>3, <1>4 DEF TakeOff

LEMMA FinishCounted ==
  ASSUME Typed, CountersAgree, NEW x \in Tasks, NEW R \in SUBSET Tasks,
         status[x] = "running", FinishTask(x, R)
  PROVE  /\ task_count' = Cardinality(Live')
         /\ task_queued_count' = Cardinality(Queued')
         /\ BlockedInv'
<1>1. /\ Live' = (Live \ {x}) \cup R
      /\ (Live \ {x}) \cap R = {}
      /\ x \in Live
  BY DEF Typed, FinishTask, Live
<1>2. Queued' = Queued \cup R /\ Queued \cap R = {}
  BY DEF Typed, FinishTask, Queued
<1>3. IsFiniteSet(R) /\ Cardinality(R) \in Nat
  BY FS_Subset, FS_CardinalityType, ConstantsAssumption
<1>4. /\ IsFiniteSet(Live \ {x})
      /\ Cardinality(Live \ {x}) = Cardinality(Live) - 1
  BY <1>1, CountersFinite, FS_RemoveElement
<1>5. Cardinality(Live') = Cardinality(Live) - 1 + Cardinality(R)
  BY <1>1, <1>3, <1>4, DisjointUnion
<1>6. Cardinality(Queued') = Cardinality(Queued) + Cardinality(R)
  BY <1>2, <1>3, CountersFinite, DisjointUnion
<1>7. task_count = Cardinality(Live) /\ task_queued_count = Cardinality(Queued)
  BY DEF CountersAgree, Live, Queued
<1>8. BlockedInv'
  BY DEF BlockedInv, FinishTask
<1> QED BY <1>3, <1>5, <1>6, <1>7, <1>8, CountersFinite DEF FinishTask

LEMMA CreateCounted ==
  ASSUME Typed, CountersAgree, NEW t \in Threads, NEW x \in Tasks, CreateTask(t, x)
  PROVE  /\ task_count' = Cardinality(Live')
         /\ task_queued_count' = Cardinality(Queued')
         /\ BlockedInv => BlockedInv'
<1>1. task_count = Cardinality(Live) /\ task_queued_count = Cardinality(Queued)
  BY DEF CountersAgree, Live, Queued
<1>2. CASE status' = [status EXCEPT ![x] = "queued"]
  <2>1. /\ Live' = Live \cup {x} /\ x \notin Live
        /\ Queued' = Queued \cup {x} /\ x \notin Queued
    BY <1>2 DEF Typed, CreateTask, Live, Queued
  <2>2. /\ Cardinality(Live') = Cardinality(Live) + 1
        /\ Cardinality(Queued') = Cardinality(Queued) + 1
    BY <2>1, CountersFinite, FS_AddElement
  <2>3. status' # [status EXCEPT ![x] = "blocked"]
    BY <1>2 DEF Typed
  <2>4. task_count' = task_count + 1 /\ task_queued_count' = task_queued_count + 1
    BY <2>3 DEF CreateTask
  <2> QED BY <1>1, <2>2, <2>4, CountersFinite DEF BlockedInv
<1>3. CASE status' = [status EXCEPT ![x] = "blocked"]
  <2>1. Live' = Live /\ Queued' = Queued
    BY <1>3 DEF Typed, CreateTask, Live, Queued
  <2>2. status' # [status EXCEPT ![x] = "queued"]
    BY <1>3 DEF Typed
  <2>3. UNCHANGED <<task_count, task_queued_count>> /\ task_count > 0
    BY <2>2 DEF CreateTask
  <2> QED BY <1>1, <2>1, <2>3 DEF BlockedInv
<1> QED BY <1>2, <1>3 DEF CreateTask

\* A thread without a task that wakes others or goes on with its own code.
LEMMA WakeKeeps ==
  ASSUME TaskInv, NEW t \in Threads, NEW W \in SUBSET Sleepers, NEW l,
         WakeUp(W, t, l), l \notin {"finish", "cancelled"},
         btask[t] = None \/ (l = "user" /\ pc[t] # "cancelled")
  PROVE  \A s \in Threads : KeepsTasks(s)
<1>1. \A s \in W : btask[s] = None
  BY DEF Sleepers, TaskInv, RunInv
<1>2. pc \in [Threads -> PCs]
  BY DEF TaskInv, Typed
<1>3. pc'[t] = l /\ \A s \in Threads \ {t} : pc'[s] = IF s \in W THEN "load" ELSE pc[s]
  BY <1>2, WakeUpOthers
<1>4. KeepsTasks(t)
  BY <1>3 DEF KeepsTasks
<1>5. ASSUME NEW s \in Threads \ {t} PROVE KeepsTasks(s)
  BY <1>1, <1>3 DEF KeepsTasks
<1> QED BY <1>4, <1>5

LEMMA GotoKeeps ==
  ASSUME TaskInv, NEW t \in Threads, NEW l, Goto(t, l),
         l \notin {"finish", "cancelled"}, btask[t] = None
  PROVE  \A s \in Threads : KeepsTasks(s)
BY GotoOthers DEF TaskInv, Typed, KeepsTasks

\* In the code of the barrier a thread has a task only around its execution.
LEMMA NoTaskOutside ==
  ASSUME TaskInv, NEW t \in Threads,
         pc[t] \notin {"user", "post", "finish", "cancelled"} \/ InImplicitTask(t)
  PROVE  btask[t] = None
BY DEF TaskInv, RunInv, InImplicitTask, InUserCode

LEMMA LoopTopTasks ==
  ASSUME TaskInv, Typed', NEW t \in Threads, LoopTop(t)
  PROVE  TaskInv'
<1>1. btask[t] = None
  BY NoTaskOutside DEF LoopTop
<1>2. CASE \A x \in Tasks : status[x] # "queued"
  <2>1. \E l \in PCs \ {"finish", "cancelled"} : Goto(t, l)
    BY <1>2 DEF LoopTop, AfterUnlock, HandleReturn, PCs
  <2>2. KeepsAllTasks
    BY <1>1, <1>2, <2>1, GotoKeeps DEF LoopTop, KeepsAllTasks, teamVars, taskVars
  <2> QED BY <2>2, TasksKept
<1>3. CASE \E x \in Tasks : status[x] = "queued"
  <2>1. PICK x \in Tasks :
          /\ status[x] = "queued"
          /\ TakeOff(t, x)
          /\ btask' = [btask EXCEPT ![t] = x]
          /\ \/ /\ task_running_count' = task_running_count + 1
                /\ Goto(t, AfterUnlock(t, "user"))
             \/ /\ Goto(t, "cancelled")
                /\ UNCHANGED task_running_count
    BY <1>3 DEF LoopTop
  <2>2. task_count' = task_count
    BY DEF LoopTop
  <2>3. /\ pc'[t] \in {"user", "post", "cancelled"}
        /\ \A s \in Threads \ {t} : pc'[s] = pc[s]
        /\ btask'[t] = x /\ x # None
        /\ \A s \in Threads \ {t} : btask'[s] = btask[s]
    BY <2>1, GotoOthers, ConstantsAssumption DEF TaskInv, Typed, AfterUnlock
  <2>4. /\ status'[x] = "running" /\ by'[x] = t
        /\ \A y \in Tasks \ {x} : status'[y] = status[y] /\ by'[y] = by[y]
    BY <2>1 DEF TakeOff, TaskInv, Typed
  <2>5. RunInv'
    BY <2>1, <2>3, <2>4 DEF RunInv, TaskInv, Executing
  <2>6. task_running_count' = Cardinality(Runners')
    <3>1. task_running_count = Cardinality(Runners) /\ t \notin Runners
      BY <1>1 DEF TaskInv, CountersAgree, Runners
    <3>2. CASE pc'[t] = "cancelled"
      <4>1. Runners' = Runners
        BY <1>1, <2>3, <3>2 DEF Runners
      <4>2. task_running_count' = task_running_count
        BY <2>1, <3>2, GotoOthers DEF TaskInv, Typed, AfterUnlock
      <4> QED BY <3>1, <4>1, <4>2
    <3>3. CASE pc'[t] # "cancelled"
      <4>1. Runners' = Runners \cup {t}
        BY <1>1, <2>3, <3>3 DEF Runners
      <4>2. task_running_count' = task_running_count + 1
        BY <2>1, <3>3, GotoOthers DEF TaskInv, Typed
      <4> QED BY <3>1, <4>1, <4>2, CountersFinite, FS_AddElement
    <3> QED BY <3>2, <3>3
  <2> QED BY <2>1, <2>2, <2>5, <2>6, TakenCounted
          DEF TaskInv, CountersAgree, Live, Queued, Runners
<1> QED BY <1>2, <1>3

LEMMA BarrierFinishTasks ==
  ASSUME TaskInv, Typed', NEW t \in Threads, BarrierFinish(t)
  PROVE  TaskInv'
<1> DEFINE x == btask[t]
<1>1. /\ x \in Tasks /\ x # None /\ status[x] = "running" /\ by[x] = t
      /\ pc[t] \in {"finish", "cancelled"}
  BY BarrierFinishes DEF BarrierFinish, TaskInv, RunInv, Executing
<1>2. PICK R \in SUBSET Tasks : FinishTask(x, R) /\ Finishes(t, x, R)
  BY BarrierFinishes DEF TaskInv, Finishes
<1>3. /\ \E l \in {"top", "donewake"} : Goto(t, l)
      /\ btask' = [btask EXCEPT ![t] = None]
      /\ task_running_count' = RunningAfter(t)
  BY DEF BarrierFinish
<1>4. /\ pc'[t] \in {"top", "donewake"} /\ btask'[t] = None
      /\ \A s \in Threads \ {t} : pc'[s] = pc[s] /\ btask'[s] = btask[s]
  BY <1>3, GotoOthers DEF TaskInv, Typed
<1>5. \A y \in Tasks \ {x} : status[y] = "running" =>
           status'[y] = "running" /\ by'[y] = by[y]
  BY <1>1, <1>2 DEF FinishTask, TaskInv, Typed
<1>6. RunInv'
  BY <1>1, <1>4, <1>5 DEF RunInv, TaskInv, Executing
<1>7. task_running_count' = Cardinality(Runners')
  <2>1. task_running_count = Cardinality(Runners)
    BY DEF TaskInv, CountersAgree, Runners
  <2>2. CASE pc[t] = "cancelled"
    <3>1. Runners' = Runners
      BY <1>1, <1>4, <2>2 DEF Runners
    <3> QED BY <1>3, <2>1, <2>2, <3>1 DEF RunningAfter
  <2>3. CASE pc[t] = "finish"
    <3>1. Runners' = Runners \ {t} /\ t \in Runners
      BY <1>1, <1>4, <2>3 DEF Runners
    <3> QED BY <1>3, <2>1, <2>3, <3>1, CountersFinite, FS_RemoveElement
            DEF RunningAfter
  <2> QED BY <1>1, <2>2, <2>3
<1> QED BY <1>1, <1>2, <1>6, <1>7, FinishCounted
        DEF TaskInv, CountersAgree, Live, Queued, Runners

LEMMA WaitTasks ==
  ASSUME TaskInv, Typed', NEW t \in Threads,
         \/ WaitTake(t) \/ WaitFinish(t) \/ \E x \in Tasks : CreateTask(t, x)
  PROVE  TaskInv'
<1>1. UNCHANGED <<pc, btask, task_running_count>>
  BY DEF WaitTake, WaitFinish, CreateTask
<1>2. task_running_count' = Cardinality(Runners')
  BY <1>1 DEF TaskInv, CountersAgree, Runners
<1>3. CASE WaitTake(t)
  <2>1. PICK x \in Tasks : status[x] = "queued" /\ TakeOff(t, x)
    BY <1>3 DEF WaitTake
  <2>2. \A y \in Tasks \ {x} : status'[y] = status[y] /\ by'[y] = by[y]
    BY <2>1 DEF TakeOff, TaskInv, Typed
  <2>3. RunInv'
    BY <1>1, <2>1, <2>2 DEF RunInv, TaskInv, Executing
  <2>4. task_count' = task_count
    BY <1>3 DEF WaitTake
  <2> QED BY <1>2, <2>1, <2>3, <2>4, TakenCounted
          DEF TaskInv, CountersAgree, Live, Queued, Runners
<1>4. CASE WaitFinish(t)
  <2>1. PICK x \in Executing(t) \ {btask[t]}, R \in SUBSET Tasks : FinishTask(x, R)
    BY <1>4 DEF WaitFinish
  <2>2. x \in Tasks /\ status[x] = "running" /\ by[x] = t /\ x # btask[t]
    BY <2>1 DEF Executing
  <2>3. \A y \in Tasks \ {x} : status[y] = "running" =>
             status'[y] = "running" /\ by'[y] = by[y]
    BY <2>1, <2>2 DEF FinishTask, TaskInv, Typed
  <2>4. RunInv'
    BY <1>1, <2>2, <2>3 DEF RunInv, TaskInv, Executing
  <2> QED BY <1>2, <2>1, <2>2, <2>4, FinishCounted
          DEF TaskInv, CountersAgree, Live, Queued, Runners
<1>5. CASE \E x \in Tasks : CreateTask(t, x)
  <2>1. PICK x \in Tasks : CreateTask(t, x)
    BY <1>5
  <2>2. \A y \in Tasks : status[y] = "running" =>
             status'[y] = "running" /\ by'[y] = by[y]
    BY <2>1 DEF CreateTask, TaskInv, Typed
  <2>3. RunInv'
    BY <1>1, <2>2 DEF RunInv, TaskInv, Executing
  <2> QED BY <1>2, <2>1, <2>3, CreateCounted
          DEF TaskInv, CountersAgree, Live, Queued, Runners
<1> QED BY <1>3, <1>4, <1>5

LEMMA TaskStep == TaskInv /\ [Next]_vars => TaskInv'
<1> SUFFICES ASSUME TaskInv, [Next]_vars PROVE TaskInv'
  OBVIOUS
<1>0. Typed'
  BY TypedStep DEF TaskInv
<1> SUFFICES KeepsAllTasks \/ TaskInv'
  BY <1>0, TasksKept
<1>u. CASE UNCHANGED vars
  BY <1>u DEF vars, taskVars, KeepsAllTasks, KeepsTasks
<1> SUFFICES ASSUME NEW t \in Threads, Step(t) \/ Ending(t) \/ Choice(t)
             PROVE  KeepsAllTasks \/ TaskInv'
  BY <1>u DEF Next
<1> USE DEF KeepsAllTasks, taskVars, teamVars
\* Steps that move t only, while it has no task of the barrier.
<1>1. CASE \/ LoadState(t) \/ Arrive(t) \/ LastThread(t) \/ Complete(t)
           \/ DoWait(t) \/ Interrupted(t) \/ Load(t) \/ Reload(t)
           \/ HandleTasks(t) \/ Relock(t) \/ CancelTeam(t)
           \/ BarrierCancel(t) \/ CancellationPoint(t)
  <2>1. btask[t] = None
    BY <1>1, NoTaskOutside
       DEF LoadState, Arrive, LastThread, Complete, DoWait, Interrupted, Load,
           Reload, HandleTasks, Relock, CancelTeam, BarrierCancel,
           CancellationPoint
  <2>2. /\ \E l \in PCs \ {"finish", "cancelled"} : Goto(t, l)
        /\ UNCHANGED <<status, by, btask, teamVars>>
    BY <1>1
       DEF LoadState, Arrive, LastThread, Complete, DoWait, Interrupted, Load,
           Reload, HandleTasks, Relock, CancelTeam, BarrierCancel,
           CancellationPoint, JumpToEnd, LoopTest, Leave, PCs
  <2> QED BY <2>1, <2>2, GotoKeeps
<1>2. CASE TaskEnd(t)
  <2>1. Goto(t, "finish") /\ btask[t] # None /\ pc[t] = "user"
    BY <1>2 DEF TaskEnd, InUserCode
  <2>2. \A s \in Threads : KeepsTasks(s)
    BY <2>1, GotoOthers DEF KeepsTasks, TaskInv, Typed
  <2> QED BY <1>2, <2>2 DEF TaskEnd
\* Steps that wake sleepers.
<1>3. CASE \/ WakeAndLeave(t) \/ PostWake(t) \/ DoneWake(t) \/ UserWake(t)
           \/ CancelWake(t)
  <2>1. btask[t] = None \/ pc[t] \in {"user", "post"}
    BY <1>3, NoTaskOutside
       DEF WakeAndLeave, PostWake, DoneWake, UserWake, CancelWake
  <2>2. /\ \E W \in SUBSET Sleepers, l \in PCs \ {"finish", "cancelled"} :
              /\ WakeUp(W, t, l)
              /\ btask[t] # None => l = "user"
        /\ UNCHANGED <<status, by, btask, teamVars>>
    BY <1>3, <2>1 DEF WakeAndLeave, PostWake, DoneWake, UserWake, CancelWake,
       WakeSome, WakeAll, HandleReturn, PCs
  <2> QED BY <2>1, <2>2, WakeKeeps
<1>4. CASE WaitLock(t) \/ WaitUnlock(t) \/ CancelLoop(t)
  BY <1>4 DEF WaitLock, WaitUnlock, CancelLoop, KeepsTasks
<1>5. CASE LoopTop(t)
  BY <1>0, <1>5, LoopTopTasks
<1>6. CASE BarrierFinish(t)
  BY <1>0, <1>6, BarrierFinishTasks
<1>7. CASE WaitTake(t) \/ WaitFinish(t) \/ \E x \in Tasks : CreateTask(t, x)
  BY <1>0, <1>7, WaitTasks
<1> QED BY <1>1, <1>2, <1>3, <1>4, <1>5, <1>6, <1>7 DEF Step, Ending, Choice
-----------------------------------------------------------------------------
(* Places, decisions and counters of the barrier: what keeps them.         *)

Numbers(t) ==
    /\ phase[t] \in Nat /\ state[t].n \in Nat /\ generation.n \in Nat
    /\ region.barriers \in Nat

LEMMA NumbersTyped ==
  ASSUME Typed, NEW t \in Threads
  PROVE  Numbers(t)
BY ConstantsAssumption DEF Typed, Words, States, Numbers

LEMMA TeamIsThreads ==
  ASSUME Typed
  PROVE  /\ region.team \subseteq Threads /\ IsFiniteSet(region.team)
         /\ \E t \in Threads : t \in region.team
         /\ nthreads \in Nat \ {0}
<1>1. region.team \subseteq Threads /\ region.team # {}
  BY ConstantsAssumption DEF Typed
<1>2. IsFiniteSet(region.team)
  BY <1>1, FS_Subset, ConstantsAssumption
<1> QED BY <1>1, <1>2, TeamSize DEF Typed

\* A thread that is where it was.
Marks == {"arrive", "last", "complete", "wakeall", "cancel", "cancelwake", "gone"}

Stays(s) ==
    /\ InBarrier(s)' <=> InBarrier(s)
    /\ state'[s].n = state[s].n /\ state'[s].cancelled = state[s].cancelled
    /\ phase'[s] = phase[s]
    /\ \A l \in Marks : pc'[s] = l <=> pc[s] = l
    /\ pc'[s] \in {"dowait", "asleep", "load", "reload"} => ~state'[s].last
    /\ Decider(s)' => Decider(s) /\ pc'[s] = pc[s]

SameBarrier ==
    /\ region' = region
    /\ generation'.n = generation.n
    /\ generation.cancelled => generation'.cancelled

LEMMA PlaceKept ==
  ASSUME PlaceInv, SameBarrier, NEW s \in region.team, Stays(s)
  PROVE  PlaceOf(s)'
<1>1. /\ Here(s)' <=> Here(s)
      /\ Passed(s)' <=> Passed(s)
      /\ Skips(s)' <=> Skips(s)
      /\ CancelKind(s)' <=> CancelKind(s)
  BY DEF SameBarrier, Stays, Here, Passed, Skips, CancelKind, Final
<1>2. PlaceOf(s)
  BY DEF PlaceInv
<1> QED BY <1>1, <1>2 DEF PlaceOf, SameBarrier, Stays, Marks

\* A thread that is in the barrier now and then, or neither.
SamePlace(s) ==
    /\ Here(s)' <=> Here(s)
    /\ Here(s) => (Final(s)' <=> Final(s))

LEMMA PlacesKept ==
  ASSUME region' = region, \A s \in region.team : SamePlace(s)
  PROVE  \A f \in BOOLEAN : HereAt(f)' = HereAt(f) /\ (AllHere(f)' <=> AllHere(f))
BY DEF SamePlace, HereAt, AllHere

SomeAllHere == AllHere(TRUE) \/ AllHere(FALSE)

LEMMA DecideKept ==
  ASSUME DecideInv, region' = region, \A s \in region.team : SamePlace(s),
         generation'.cancelled <=> generation.cancelled,
         generation'.waiting => generation.waiting,
         \A s \in Threads : Decider(s)' => /\ Decider(s) /\ pc'[s] = pc[s]
                                           /\ Final(s)' <=> Final(s),
         SomeAllHere => /\ work_share_cancelled' => work_share_cancelled
                        /\ task_count = 0 => task_count' = 0
  PROVE  DecideInv'
<1>1. \A f \in BOOLEAN : Closed(f)' <=> Closed(f)
  BY PlacesKept DEF Closed
<1>2. \A f \in BOOLEAN : Closed(f) => SomeAllHere
  BY DEF Closed, SomeAllHere
<1>3. ASSUME NEW t \in Threads, Decider(t)'
      PROVE  /\ Closed(Final(t))'
             /\ ~generation'.waiting
             /\ \A s \in Threads : Decider(s)' => s = t
             /\ pc'[t] # "last" => ~work_share_cancelled'
             /\ pc'[t] = "complete" => task_count' = 0
  <2>1. Decider(t) /\ pc'[t] = pc[t] /\ (Final(t)' <=> Final(t)) /\ Final(t) \in BOOLEAN
    BY <1>3 DEF Final
  <2>2. /\ Closed(Final(t))
        /\ ~generation.waiting
        /\ \A s \in Threads : Decider(s) => s = t
        /\ pc[t] # "last" => ~work_share_cancelled
        /\ pc[t] = "complete" => task_count = 0
    BY <2>1 DEF DecideInv
  <2>3. Closed(Final(t))'
    <3>1. PICK f \in BOOLEAN : Final(t) = f
      BY <2>1
    <3>2. Final(t)' = f
      BY <2>1, <3>1 DEF Final
    <3>3. Closed(f)'
      BY <1>1, <2>2, <3>1
    <3> QED BY <3>2, <3>3
  <2>4. SomeAllHere
    BY <1>2, <2>1, <2>2
  <2> QED BY <2>1, <2>2, <2>3, <2>4
<1>4. generation'.waiting =>
          (\E f \in BOOLEAN : Closed(f)') /\ ~work_share_cancelled'
  BY <1>1, <1>2 DEF DecideInv
<1> QED BY <1>3, <1>4 DEF DecideInv

LEMMA AwaitKept ==
  ASSUME Typed, AwaitInv, region' = region, \A s \in region.team : SamePlace(s),
         generation'.cancelled <=> generation.cancelled,
         UNCHANGED <<awaited, awaited_final>>,
         \A s \in Threads : pc'[s] = "last" <=> pc[s] = "last",
         generation.cancelled => \A s \in Coming' : s \in Coming
  PROVE  AwaitInv'
<1>1. \A f \in BOOLEAN : HereAt(f)' = HereAt(f) /\ (AllHere(f)' <=> AllHere(f))
  BY PlacesKept
<1>2. \A f \in BOOLEAN : Reset(f)' <=> Reset(f)
  BY <1>1 DEF Reset, NobodyLast
<1>3. nthreads' = nthreads
  BY DEF nthreads
<1>4. \A f \in BOOLEAN : Missing(f)' = Missing(f)
  BY <1>1, <1>2, <1>3 DEF Missing
<1>5. ASSUME generation.cancelled PROVE Cardinality(Coming') <= Cardinality(Coming)
  <2>1. Coming' \subseteq Coming /\ Coming \subseteq region.team
    BY <1>5 DEF Coming
  <2> QED BY <2>1, TeamIsThreads, FS_Subset
<1>6. ASSUME generation.cancelled
      PROVE  Cardinality(Coming') \in Nat /\ Cardinality(Coming) \in Nat
  <2>1. Coming' \subseteq region.team /\ Coming \subseteq region.team
    BY DEF Coming
  <2> QED BY <2>1, TeamIsThreads, FS_Subset, FS_CardinalityType
<1>7. awaited \in Int /\ nthreads \in Int
  BY TeamIsThreads DEF Typed
<1>8. awaited_final' = Missing(TRUE)'
  BY <1>4 DEF AwaitInv
<1>9. ~generation'.cancelled => awaited' = Missing(FALSE)'
  BY <1>4 DEF AwaitInv
<1>10. generation'.cancelled => Cardinality(Coming)' < awaited' /\ awaited' <= nthreads'
  <2> SUFFICES ASSUME generation.cancelled
               PROVE  Cardinality(Coming') < awaited /\ awaited <= nthreads
    BY <1>3
  <2>1. Cardinality(Coming) < awaited /\ awaited <= nthreads
    BY DEF AwaitInv
  <2> QED BY <2>1, <1>5, <1>6, <1>7
<1>11. Reset(TRUE)' => awaited' = nthreads'
  BY <1>2, <1>3 DEF AwaitInv
<1> QED BY <1>8, <1>9, <1>10, <1>11 DEF AwaitInv

\* A step in which nobody comes, goes, decides or counts.
SameWord ==
    /\ region' = region
    /\ generation'.n = generation.n
    /\ generation'.waiting <=> generation.waiting
    /\ generation'.cancelled <=> generation.cancelled

Quiet ==
    /\ SameWord
    /\ UNCHANGED <<awaited, awaited_final>>
    /\ \A s \in Threads : Stays(s)
    /\ SomeAllHere => /\ work_share_cancelled' => work_share_cancelled
                      /\ task_count = 0 => task_count' = 0

LEMMA QuietKeeps ==
  ASSUME BarrierInv, Quiet
  PROVE  PlaceInv' /\ DecideInv' /\ AwaitInv'
<1>0. region.team \subseteq Threads
  BY TeamIsThreads DEF BarrierInv, TaskInv
<1>1. \A s \in Threads : SamePlace(s) /\ (Final(s)' <=> Final(s))
  BY DEF Quiet, SameWord, Stays, SamePlace, Here, Final
<1>2. PlaceInv'
  <2>1. \A s \in region.team : PlaceOf(s)'
    BY <1>0, PlaceKept DEF BarrierInv, Quiet, SameWord, SameBarrier
  <2>2. \A s \in Threads \ region.team : pc'[s] = "gone"
    BY DEF BarrierInv, PlaceInv, Quiet, Stays, Marks
  <2> QED BY <2>1, <2>2 DEF PlaceInv, Quiet, SameWord
<1>3. DecideInv'
  BY <1>0, <1>1, DecideKept DEF BarrierInv, Quiet, SameWord, Stays
<1>4. AwaitInv'
  <2>1. \A s \in Threads : pc'[s] = "last" <=> pc[s] = "last"
    BY DEF Quiet, Stays, Marks
  <2>2. \A s \in Coming' : s \in Coming
    BY <1>0, <1>1 DEF Coming, Quiet, SameWord, Stays, Marks, SamePlace, Skips
  <2> QED BY <1>0, <1>1, <2>1, <2>2, AwaitKept
          DEF BarrierInv, TaskInv, Quiet, SameWord
<1> QED BY <1>2, <1>3, <1>4

\* Threads that are not the step's own.
LEMMA OthersStay ==
  ASSUME PlaceInv, NEW s \in Threads,
         pc'[s] = pc[s] \/ (pc[s] = "asleep" /\ pc'[s] = "load"),
         state'[s] = state[s], btask'[s] = btask[s], phase'[s] = phase[s]
  PROVE  Stays(s)
<1>1. pc[s] \in {"dowait", "asleep", "load", "reload"} => ~state[s].last
  BY DEF PlaceInv, PlaceOf
<1> QED BY <1>1 DEF Stays, InBarrier, Marks, Decider

LEMMA OthersWoken ==
  ASSUME TaskInv, PlaceInv, NEW t \in Threads,
         \/ \E l : Goto(t, l)
         \/ \E W \in SUBSET Sleepers : \E l : WakeUp(W, t, l),
         \A s \in Threads \ {t} : /\ state'[s] = state[s] /\ btask'[s] = btask[s]
                                  /\ phase'[s] = phase[s]
  PROVE  \A s \in Threads \ {t} : Stays(s)
<1>1. pc \in [Threads -> PCs]
  BY DEF TaskInv, Typed
<1>2. \A s \in Threads \ {t} :
         pc'[s] = pc[s] \/ (pc[s] = "asleep" /\ pc'[s] = "load")
  BY <1>1, GotoOthers, WakeUpOthers
<1> QED BY <1>2, OthersStay

\* The unlocked positions of wait_end and of the scheduling loop.
Inside == {"dowait", "asleep", "load", "handle", "top", "donereturn", "donewake",
           "relock", "reload", "post", "finish", "cancelled"}

LEMMA StaysInside ==
  ASSUME NEW t \in Threads, InBarrier(t), pc[t] \in Inside \cup {"user"},
         \/ pc'[t] \in Inside
         \/ pc'[t] = "user" /\ btask'[t] # None,
         state'[t].n = state[t].n, state'[t].cancelled = state[t].cancelled,
         phase'[t] = phase[t],
         pc'[t] \in {"dowait", "asleep", "load", "reload", "handle"} => ~state'[t].last
  PROVE  Stays(t)
BY DEF Stays, Inside, InBarrier, Marks, Decider

LEMMA OutsideGone ==
  ASSUME PlaceInv, NEW t \in Threads, pc[t] # "gone"
  PROVE  t \in region.team /\ PlaceOf(t)
BY DEF PlaceInv

\* A task that runs is counted.
LEMMA ExecutingCounted ==
  ASSUME TaskInv, NEW t \in Threads, Executing(t) # {}
  PROVE  task_count > 0
<1>1. PICK x \in Tasks : status[x] = "running"
  BY DEF Executing
<1>2. x \in Live
  BY <1>1 DEF Live
<1>3. Cardinality(Live) # 0
  BY <1>2, CountersFinite, FS_EmptySet
<1> QED BY <1>3, CountersFinite DEF TaskInv, CountersAgree, Live

LEMMA QuietMove ==
  ASSUME BarrierInv, NEW t \in Threads, SameWord,
         UNCHANGED <<awaited, awaited_final, work_share_cancelled, phase>>,
         task_count = 0 => task_count' = 0,
         Stays(t),
         \/ \E l : Goto(t, l)
         \/ \E W \in SUBSET Sleepers : \E l : WakeUp(W, t, l),
         \A s \in Threads \ {t} : state'[s] = state[s] /\ btask'[s] = btask[s]
  PROVE  Quiet
<1>1. \A s \in Threads \ {t} : Stays(s)
  BY OthersWoken DEF BarrierInv
<1> QED BY <1>1 DEF Quiet

\* The steps inside the barrier and around the tasks it runs.
LEMMA InsideQuiet ==
  ASSUME BarrierInv, NEW t \in Threads,
         \/ DoWait(t) \/ Interrupted(t) \/ Relock(t) \/ TaskEnd(t)
         \/ HandleTasks(t) /\ ~state[t].last
         \/ DoneWake(t) \/ PostWake(t) \/ UserWake(t)
  PROVE  Quiet
<1>0. Typed /\ PlaceInv /\ RunInv
  BY DEF BarrierInv, TaskInv
<1>1. UNCHANGED <<awaited, awaited_final, work_share_cancelled, phase, region,
                  task_count, btask>>
  BY DEF DoWait, Interrupted, Relock, TaskEnd, HandleTasks, DoneWake, PostWake, UserWake,
         barVars, teamVars, regionVars, threadVars
<1>2. SameWord
  <2>1. CASE HandleTasks(t) /\ ~state[t].last
    BY <1>0, <1>1, <2>1 DEF HandleTasks, SetWaitingForTasks, SameWord, Typed, Words
  <2>2. CASE \/ DoWait(t) \/ Interrupted(t) \/ Relock(t) \/ TaskEnd(t)
             \/ DoneWake(t) \/ PostWake(t) \/ UserWake(t)
    BY <1>1, <2>2 DEF DoWait, Interrupted, Relock, TaskEnd, DoneWake, PostWake, UserWake,
       barVars, SameWord
  <2> QED BY <2>1, <2>2
<1>3. \A s \in Threads \ {t} : state'[s] = state[s] /\ btask'[s] = btask[s]
  <2>1. \/ state' = state
        \/ \E b : state' = [state EXCEPT ![t].last = b]
    BY DEF DoWait, Interrupted, Relock, TaskEnd, HandleTasks, DoneWake, PostWake, UserWake,
       threadVars
  <2> QED BY <1>0, <1>1, <2>1 DEF Typed
<1>4. /\ state'[t].n = state[t].n /\ state'[t].cancelled = state[t].cancelled
  <2>1. \/ state' = state
        \/ \E b : state' = [state EXCEPT ![t].last = b]
    BY DEF DoWait, Interrupted, Relock, TaskEnd, HandleTasks, DoneWake, PostWake, UserWake,
       threadVars
  <2> QED BY <1>0, <2>1 DEF Typed, States
<1>5. \/ \E l : Goto(t, l)
      \/ \E W \in SUBSET Sleepers : \E l : WakeUp(W, t, l)
  BY DEF DoWait, Interrupted, Relock, TaskEnd, HandleTasks, DoneWake, PostWake, UserWake,
     WakeSome, WakeAll
<1>6. Stays(t)
  <2>p. pc \in [Threads -> PCs] /\ state \in [Threads -> States]
    BY <1>0 DEF Typed
  <2>1. CASE DoWait(t) \/ Interrupted(t)
    <3>1. pc'[t] \in {"asleep", "load"} /\ state' = state /\ pc[t] \in {"dowait", "asleep"}
      BY <2>1, <2>p, GotoOthers DEF DoWait, Interrupted, threadVars
    <3>2. ~state[t].last
      BY <1>0, <3>1, OutsideGone DEF PlaceOf
    <3> QED BY <1>1, <3>1, <3>2, StaysInside DEF Inside, InBarrier
  <2>2. CASE Relock(t) \/ TaskEnd(t) \/ (HandleTasks(t) /\ ~state[t].last)
    <3>1. /\ pc'[t] \in {"top", "finish"} /\ state' = state
          /\ pc[t] \in {"relock", "user", "handle"}
          /\ pc[t] = "user" => btask[t] # None
      BY <2>2, <2>p, GotoOthers DEF Relock, TaskEnd, HandleTasks, InUserCode, threadVars
    <3> QED BY <1>1, <3>1, StaysInside DEF Inside, InBarrier
  <2>3. CASE DoneWake(t)
    <3>1. /\ pc[t] = "donereturn" => pc'[t] = "dowait" /\ ~state'[t].last
          /\ pc[t] = "donewake" => pc'[t] = "relock"
          /\ pc[t] \in {"donereturn", "donewake"}
      <4>1. CASE pc[t] = "donereturn"
        <5>1. WakeUp(Sleepers, t, "dowait") /\ state' = [state EXCEPT ![t].last = FALSE]
          BY <2>3, <4>1 DEF DoneWake, WakeAll
        <5>2. pc'[t] = "dowait"
          BY <2>p, <5>1, WakeUpOthers
        <5>3. ~state'[t].last
          BY <2>p, <5>1 DEF States
        <5> QED BY <4>1, <5>2, <5>3
      <4>2. CASE pc[t] = "donewake"
        <5>1. WakeUp(Sleepers, t, "relock")
          BY <2>3, <4>2 DEF DoneWake, WakeAll
        <5> QED BY <2>p, <4>2, <5>1, WakeUpOthers
      <4> QED BY <2>3, <4>1, <4>2 DEF DoneWake
    <3> QED BY <1>1, <1>4, <3>1, StaysInside DEF Inside, InBarrier
  <2>4. CASE PostWake(t)
    <3>1. /\ pc'[t] = IF btask[t] # None THEN "user" ELSE HandleReturn(t)
          /\ pc[t] = "post"
      BY <2>4, <2>p, WakeUpOthers DEF PostWake, WakeSome
    <3>2. btask[t] = None => ~state'[t].last
      BY <2>4, <2>p DEF PostWake, States
    <3> QED BY <1>1, <1>4, <3>1, <3>2, StaysInside DEF Inside, InBarrier, HandleReturn
  <2>5. CASE UserWake(t)
    <3>1. pc'[t] = "user" /\ pc[t] = "user" /\ state' = state
      BY <2>5, <2>p, WakeUpOthers DEF UserWake, WakeSome, threadVars
    <3> QED BY <1>1, <3>1 DEF Stays, InBarrier, Marks, Decider
  <2> QED BY <2>1, <2>2, <2>3, <2>4, <2>5
<1> QED BY <1>1, <1>2, <1>3, <1>5, <1>6, QuietMove

LEMMA PendingOnly ==
  ASSUME Typed, NEW b, generation' = [generation EXCEPT !.pending = b], region' = region
  PROVE  SameWord
BY DEF Typed, Words, SameWord

LEMMA LoopTopQuiet ==
  ASSUME BarrierInv, NEW t \in Threads, LoopTop(t)
  PROVE  Quiet
<1>0. /\ Typed /\ pc \in [Threads -> PCs] /\ state \in [Threads -> States]
      /\ btask \in [Threads -> Tasks \cup {None}]
  BY DEF BarrierInv, TaskInv, Typed
<1>1. UNCHANGED <<awaited, awaited_final, work_share_cancelled, phase, region, task_count>>
  BY DEF LoopTop, regionVars
<1>2. pc[t] = "top"
  BY DEF LoopTop
<1>3. CASE \A x \in Tasks : status[x] # "queued"
  <2>1. /\ Goto(t, AfterUnlock(t, HandleReturn(t)))
        /\ state' = [state EXCEPT ![t].last = (state[t].last /\ do_wake[t] > 0)]
        /\ UNCHANGED <<generation, btask>>
    BY <1>3 DEF LoopTop
  <2>2. pc'[t] = AfterUnlock(t, HandleReturn(t))
    BY <1>0, <2>1, GotoOthers
  <2>3. /\ state'[t].n = state[t].n /\ state'[t].cancelled = state[t].cancelled
        /\ ~(do_wake[t] > 0) => ~state'[t].last
    BY <1>0, <2>1 DEF States
  <2>4. \A s \in Threads \ {t} : state'[s] = state[s] /\ btask'[s] = btask[s]
    BY <1>0, <2>1
  <2>5. Stays(t)
    BY <1>1, <1>2, <2>2, <2>3, StaysInside DEF Inside, InBarrier, AfterUnlock, HandleReturn
  <2>6. SameWord
    BY <1>1, <2>1 DEF SameWord
  <2> QED BY <1>1, <2>1, <2>4, <2>5, <2>6, QuietMove
<1>4. CASE \E x \in Tasks : status[x] = "queued"
  <2>1. PICK x \in Tasks :
          /\ TakeOff(t, x)
          /\ btask' = [btask EXCEPT ![t] = x]
          /\ Goto(t, AfterUnlock(t, "user")) \/ Goto(t, "cancelled")
          /\ state' = state
    BY <1>4 DEF LoopTop
  <2>2. pc'[t] \in {"user", "post", "cancelled"} /\ btask'[t] # None
    BY <1>0, <2>1, GotoOthers, ConstantsAssumption DEF AfterUnlock
  <2>3. \A s \in Threads \ {t} : state'[s] = state[s] /\ btask'[s] = btask[s]
    BY <1>0, <2>1
  <2>4. Stays(t)
    BY <1>1, <1>2, <2>1, <2>2, StaysInside DEF Inside, InBarrier
  <2>5. SameWord
    BY <1>0, <1>1, <2>1, PendingOnly DEF TakeOff
  <2> QED BY <1>1, <2>1, <2>3, <2>4, <2>5, QuietMove
<1> QED BY <1>3, <1>4

LEMMA BarrierFinishQuiet ==
  ASSUME BarrierInv, NEW t \in Threads, BarrierFinish(t), ~LastTaskDone
  PROVE  Quiet
<1>0. /\ Typed /\ RunInv /\ pc \in [Threads -> PCs]
      /\ btask \in [Threads -> Tasks \cup {None}]
  BY DEF BarrierInv, TaskInv, Typed
<1>1. /\ UNCHANGED <<awaited, awaited_final, work_share_cancelled, phase, region, state>>
      /\ btask' = [btask EXCEPT ![t] = None]
      /\ pc[t] \in {"finish", "cancelled"}
  BY DEF BarrierFinish, regionVars, threadVars
<1>2. \E R : generation' = [generation EXCEPT !.pending = PendingAfter(R)]
  BY <1>0, BarrierFinishes
<1>3. Goto(t, "top") /\ pc'[t] = "top"
  BY <1>0, BarrierFinishes, GotoOthers
<1>4. Stays(t)
  BY <1>1, <1>3, StaysInside DEF Inside, InBarrier
<1>5. SameWord
  BY <1>0, <1>1, <1>2, PendingOnly
<1>6. task_count > 0
  BY <1>0, <1>1, ExecutingCounted DEF RunInv, BarrierInv
<1>7. \A s \in Threads \ {t} : state'[s] = state[s] /\ btask'[s] = btask[s]
  BY <1>0, <1>1
<1> QED BY <1>1, <1>3, <1>4, <1>5, <1>6, <1>7, QuietMove

\* If everybody is in this barrier, who is in user code runs a task.
LEMMA UserRuns ==
  ASSUME BarrierInv, NEW t \in Threads, pc[t] = "user", SomeAllHere
  PROVE  Executing(t) # {} /\ task_count > 0
<1>1. t \in region.team
  BY OutsideGone DEF BarrierInv
<1>2. InBarrier(t)
  BY <1>1 DEF SomeAllHere, AllHere, Here
<1>3. btask[t] \in Executing(t)
  BY <1>2 DEF InBarrier, BarrierInv, TaskInv, RunInv
<1> QED BY <1>3, ExecutingCounted DEF BarrierInv

LEMMA UserQuiet ==
  ASSUME BarrierInv, NEW t \in Threads,
         \/ WaitLock(t) \/ WaitTake(t) \/ WaitFinish(t) \/ WaitUnlock(t)
         \/ CancelLoop(t) \/ \E x \in Tasks : CreateTask(t, x)
  PROVE  Quiet
<1>0. Typed /\ PlaceInv
  BY DEF BarrierInv, TaskInv
<1>1. UNCHANGED <<awaited, awaited_final, phase, region, state, pc, btask>>
  BY DEF WaitLock, WaitTake, WaitFinish, WaitUnlock, CancelLoop, CreateTask, barVars,
         regionVars, threadVars
<1>2. \A s \in Threads : Stays(s)
  BY <1>0, <1>1, OthersStay
<1>3. SameWord
  <2>1. \/ generation' = generation
        \/ \E b : generation' = [generation EXCEPT !.pending = b]
    BY DEF WaitLock, WaitTake, WaitFinish, WaitUnlock, CancelLoop, CreateTask, barVars,
           TakeOff
  <2> QED BY <1>0, <1>1, <2>1, PendingOnly DEF SameWord
<1>4. pc[t] = "user"
  BY DEF WaitLock, WaitTake, WaitFinish, WaitUnlock, CancelLoop, CreateTask, InUserCode,
         InImplicitTask
<1>5. SomeAllHere => Executing(t) # {} /\ task_count > 0
  BY <1>4, UserRuns
<1>6. SomeAllHere => work_share_cancelled' = work_share_cancelled
  BY <1>5 DEF WaitLock, WaitTake, WaitFinish, WaitUnlock, CancelLoop, CreateTask,
              InImplicitTask, regionVars
<1> QED BY <1>1, <1>2, <1>3, <1>5, <1>6 DEF Quiet

LEMMA LoadQuiet ==
  ASSUME BarrierInv, NEW t \in Threads,
         \/ Load(t) /\ pc'[t] \in {"handle", "dowait"}
         \/ Reload(t) /\ pc'[t] = "dowait"
  PROVE  Quiet
<1>0. Typed /\ PlaceInv /\ pc \in [Threads -> PCs]
  BY DEF BarrierInv, TaskInv, Typed
<1>1. /\ UNCHANGED <<barVars, task_count, regionVars, state, btask>>
      /\ pc[t] \in {"load", "reload"}
  BY DEF Load, Reload, teamVars
<1>2. phase' = phase /\ \E l : Goto(t, l)
  BY <1>0, GotoOthers DEF Load, Reload, LoopTest, Leave, JumpToEnd
<1>3. ~state[t].last
  BY <1>0, <1>1, OutsideGone DEF PlaceOf
<1>4. Stays(t)
  BY <1>1, <1>2, <1>3, StaysInside DEF Inside, InBarrier
<1>5. SameWord
  BY <1>1 DEF SameWord, barVars, regionVars
<1> QED BY <1>1, <1>2, <1>4, <1>5, QuietMove DEF barVars, regionVars

\* A step of a thread that is not in the open barrier, before or after it.
Outside(t) ==
    /\ SameWord
    /\ UNCHANGED <<awaited, awaited_final>>
    /\ \A s \in Threads \ {t} : Stays(s)
    /\ t \in region.team
    /\ ~Here(t) /\ ~Here(t)'
    /\ pc[t] # "last" /\ pc'[t] # "last" /\ ~Decider(t)'
    /\ PlaceOf(t)'
    /\ t \in Coming' => t \in Coming

LEMMA OutsideKeeps ==
  ASSUME BarrierInv, NEW t \in Threads, Outside(t)
  PROVE  PlaceInv' /\ DecideInv' /\ AwaitInv'
<1>0. region.team \subseteq Threads
  BY TeamIsThreads DEF BarrierInv, TaskInv
<1>1. \A s \in Threads \ {t} : SamePlace(s) /\ (Final(s)' <=> Final(s))
  BY DEF Outside, SameWord, Stays, SamePlace, Here, Final
<1>2. SamePlace(t)
  BY DEF Outside, SamePlace
<1>3. PlaceInv'
  <2>1. \A s \in region.team : PlaceOf(s)'
    BY <1>0, PlaceKept DEF BarrierInv, Outside, SameWord, SameBarrier
  <2>2. \A s \in Threads \ region.team : pc'[s] = "gone"
    BY DEF BarrierInv, PlaceInv, Outside, Stays, Marks
  <2> QED BY <2>1, <2>2 DEF PlaceInv, Outside, SameWord
<1>4. DecideInv'
  <2>1. ~SomeAllHere
    BY DEF Outside, SomeAllHere, AllHere
  <2>2. \A s \in Threads : Decider(s)' => /\ Decider(s) /\ pc'[s] = pc[s]
                                          /\ Final(s)' <=> Final(s)
    BY <1>1 DEF Outside, Stays
  <2> QED BY <1>0, <1>1, <1>2, <2>1, <2>2, DecideKept DEF BarrierInv, Outside, SameWord
<1>5. AwaitInv'
  <2>1. \A s \in Threads : pc'[s] = "last" <=> pc[s] = "last"
    BY DEF Outside, Stays, Marks
  <2>2. \A s \in Coming' : s \in Coming
    <3>1. ASSUME NEW s \in Coming', s # t PROVE s \in Coming
      <4>1. s \in region.team /\ s \in Threads \ {t}
        BY <1>0, <3>1 DEF Coming, Outside, SameWord
      <4> QED BY <1>1, <3>1, <4>1 DEF Coming, Outside, SameWord, Stays, Marks, SamePlace, Skips
    <3> QED BY <3>1 DEF Outside
  <2> QED BY <1>0, <1>1, <1>2, <2>1, <2>2, AwaitKept
          DEF BarrierInv, TaskInv, Outside, SameWord
<1> QED BY <1>3, <1>4, <1>5

LEMMA OutKeeps ==
  ASSUME BarrierInv, NEW t \in Threads, LoadState(t) \/ CancelTeam(t)
  PROVE  PlaceInv' /\ DecideInv' /\ AwaitInv'
<1>0. /\ Typed /\ PlaceInv /\ TaskInv /\ pc \in [Threads -> PCs]
      /\ state \in [Threads -> States]
  BY DEF BarrierInv, TaskInv, Typed
<1>1. /\ UNCHANGED <<region, generation, awaited, awaited_final, phase, btask>>
      /\ pc[t] = "user" /\ btask[t] = None
      /\ Goto(t, "arrive") \/ (Goto(t, "cancel") /\ ~Skips(t) /\ state' = state)
  BY <1>0, NoTaskOutside DEF LoadState, CancelTeam, barVars, threadVars, regionVars,
     InImplicitTask, InUserCode
<1>2. pc'[t] = "arrive" \/ (pc'[t] = "cancel" /\ ~Skips(t) /\ state' = state)
  BY <1>0, <1>1, GotoOthers
<1>3. /\ \A s \in Threads \ {t} : state'[s] = state[s]
      /\ pc'[t] = "arrive" => /\ state'[t].n = generation.n
                              /\ state'[t].cancelled = generation.cancelled
  <2>1. CASE LoadState(t)
    BY <1>0, <2>1 DEF LoadState
  <2>2. CASE CancelTeam(t)
    BY <1>0, <2>2, GotoOthers DEF CancelTeam, threadVars
  <2> QED BY <2>1, <2>2
<1>4. \A s \in Threads \ {t} : Stays(s)
  BY <1>0, <1>1, <1>3, OthersWoken
<1>5. t \in region.team /\ PlaceOf(t)
  BY <1>0, <1>1, OutsideGone
<1>6. ~InBarrier(t) /\ ~InBarrier(t)'
  BY <1>1, <1>2 DEF InBarrier
<1>7. (Skips(t)' <=> Skips(t)) /\ ~Passed(t) /\ ~Passed(t)' /\ ~Here(t) /\ ~Here(t)'
  BY <1>1, <1>6 DEF Skips, Passed, Here
<1>8. PlaceOf(t)'
  BY <1>1, <1>2, <1>3, <1>5, <1>6, <1>7 DEF PlaceOf
<1>9. t \in Coming' => t \in Coming
  BY <1>1, <1>7 DEF Coming
<1>10. SameWord
  BY <1>1 DEF SameWord
<1>11. Outside(t)
  BY <1>1, <1>2, <1>4, <1>5, <1>7, <1>8, <1>9, <1>10 DEF Outside, Decider
<1> QED BY <1>11, OutsideKeeps

\* A thread returns from a barrier that is complete.
LEMMA LeaveKeeps ==
  ASSUME BarrierInv, NEW t \in Threads,
         UNCHANGED <<region, generation, awaited, awaited_final, btask, state>>,
         Passed(t), pc[t] \in Inside \cup {"wakeall"}, btask[t] = None,
         phase' = [phase EXCEPT ![t] = @ + 1],
         pc'[t] = (IF Final(t) THEN "gone" ELSE "user"),
         \/ \E l : Goto(t, l)
         \/ \E W \in SUBSET Sleepers : \E l : WakeUp(W, t, l)
  PROVE  PlaceInv' /\ DecideInv' /\ AwaitInv'
<1>0. Typed /\ PlaceInv /\ TaskInv /\ phase \in [Threads -> Nat]
  BY DEF BarrierInv, TaskInv, Typed
<1>n. Numbers(t)
  BY <1>0, NumbersTyped
<1>1. phase'[t] = phase[t] + 1 /\ \A s \in Threads \ {t} : phase'[s] = phase[s]
  BY <1>0
<1>2. \A s \in Threads \ {t} : Stays(s)
  BY <1>0, <1>1, OthersWoken
<1>3. t \in region.team /\ PlaceOf(t)
  BY <1>0, OutsideGone DEF Inside
<1>4. ~InBarrier(t)'
  BY DEF InBarrier
<1>5. ~Here(t) /\ ~Here(t)' /\ ~Passed(t)'
  BY <1>4, <1>n DEF Here, Passed, Numbers
<1>6. /\ Skips(t)' <=> Final(t)
      /\ Skips(t) => Final(t)
  BY <1>1, <1>n DEF Skips, Final, Numbers
<1>7. PlaceOf(t)'
  BY <1>1, <1>3, <1>4, <1>5, <1>6, <1>n DEF PlaceOf, Numbers
<1>8. t \in Coming' => t \in Coming
  BY <1>3, <1>5, <1>6 DEF Coming, Inside
<1>9. SameWord
  BY DEF SameWord
<1>10. Outside(t)
  BY <1>2, <1>3, <1>5, <1>7, <1>8, <1>9 DEF Outside, Decider, Inside
<1> QED BY <1>10, OutsideKeeps

\* A thread outside the open barrier goes to the end of the cancelled region.
LEMMA JumpKeeps ==
  ASSUME BarrierInv, NEW t \in Threads, SameWord, generation.cancelled,
         UNCHANGED <<awaited, awaited_final, btask, state>>,
         pc[t] \notin {"last", "gone"}, ~Here(t), btask[t] = None,
         phase' = [phase EXCEPT ![t] = region.barriers + 1],
         pc'[t] = "user",
         \/ \E l : Goto(t, l)
         \/ \E W \in SUBSET Sleepers : \E l : WakeUp(W, t, l)
  PROVE  PlaceInv' /\ DecideInv' /\ AwaitInv'
<1>0. Typed /\ PlaceInv /\ TaskInv /\ phase \in [Threads -> Nat]
  BY DEF BarrierInv, TaskInv, Typed
<1>n. Numbers(t)
  BY <1>0, NumbersTyped
<1>1. phase'[t] = region.barriers + 1 /\ \A s \in Threads \ {t} : phase'[s] = phase[s]
  BY <1>0
<1>2. \A s \in Threads \ {t} : Stays(s)
  BY <1>0, <1>1, OthersWoken
<1>3. t \in region.team /\ PlaceOf(t)
  BY <1>0, OutsideGone
<1>4. ~InBarrier(t)' /\ ~Here(t)' /\ ~Passed(t)'
  BY DEF InBarrier, Here, Passed
<1>5. Skips(t)'
  BY <1>1, <1>n DEF Skips, Numbers, SameWord
<1>6. PlaceOf(t)'
  BY <1>4, <1>5 DEF PlaceOf, SameWord
<1>7. t \notin Coming'
  BY <1>5 DEF Coming
<1>8. Outside(t)
  BY <1>2, <1>3, <1>4, <1>6, <1>7 DEF Outside, Decider
<1> QED BY <1>8, OutsideKeeps

\* When not all threads are in one barrier nothing is decided.
LEMMA Undecided ==
  ASSUME DecideInv, ~Closed(TRUE), ~Closed(FALSE)
  PROVE  ~generation.waiting /\ \A s \in Threads : ~Decider(s)
<1>1. \A f \in BOOLEAN : ~Closed(f)
  OBVIOUS
<1>2. ~generation.waiting
  BY <1>1 DEF DecideInv
<1>3. ASSUME NEW s \in Threads, Decider(s) PROVE FALSE
  <2>1. Final(s) \in BOOLEAN
    BY DEF Final
  <2>2. Closed(Final(s))
    BY <1>3 DEF DecideInv
  <2> QED BY <1>1, <2>1, <2>2
<1> QED BY <1>2, <1>3

\* A thread in the open barrier learns that the region is cancelled.
LEMMA LoadJumps ==
  ASSUME BarrierInv, NEW t \in Threads, Load(t), CancelKind(t), generation.cancelled
  PROVE  PlaceInv' /\ DecideInv' /\ AwaitInv'
<1>0. /\ Typed /\ PlaceInv /\ TaskInv /\ phase \in [Threads -> Nat]
      /\ pc \in [Threads -> PCs] /\ region.team \subseteq Threads
  BY TeamIsThreads DEF BarrierInv, TaskInv, Typed
<1>1. /\ UNCHANGED <<region, generation, awaited, awaited_final, btask, state>>
      /\ phase' = [phase EXCEPT ![t] = region.barriers + 1]
      /\ Goto(t, "user") /\ pc[t] = "load" /\ btask[t] = None
  BY NoTaskOutside, <1>0 DEF Load, JumpToEnd, barVars, regionVars
<1>2. pc'[t] = "user"
  BY <1>0, <1>1, GotoOthers
<1>3. SameWord
  BY <1>1 DEF SameWord
<1>4. CASE ~Here(t)
  BY <1>1, <1>2, <1>3, <1>4, JumpKeeps
<1>5. CASE Here(t)
  <2>n. Numbers(t)
    BY <1>0, NumbersTyped
  <2>1. phase'[t] = region.barriers + 1 /\ \A s \in Threads \ {t} : phase'[s] = phase[s]
    BY <1>0, <1>1
  <2>2. \A s \in Threads \ {t} : Stays(s)
    BY <1>0, <1>1, <2>1, OthersWoken
  <2>3. t \in region.team /\ ~Final(t)
    BY <1>0, <1>1, OutsideGone DEF CancelKind
  <2>4. ~InBarrier(t)' /\ ~Here(t)' /\ ~Passed(t)' /\ Skips(t)'
    BY <1>1, <1>2, <2>1, <2>n DEF InBarrier, Here, Passed, Skips, Numbers
  <2>5. PlaceInv'
    <3>1. PlaceOf(t)'
      BY <1>1, <1>2, <2>4 DEF PlaceOf
    <3>2. \A s \in region.team : PlaceOf(s)'
      BY <1>0, <1>1, <2>2, <3>1, PlaceKept DEF SameBarrier
    <3>3. \A s \in Threads \ region.team : pc'[s] = "gone"
      BY <1>0, <2>2, <2>3 DEF PlaceInv, Stays, Marks
    <3> QED BY <1>1, <3>2, <3>3 DEF PlaceInv
  <2>6. ~AllHere(TRUE) /\ ~AllHere(TRUE)' /\ ~AllHere(FALSE)'
    BY <1>1, <2>3, <2>4 DEF AllHere
  <2>7. ~generation.waiting /\ \A s \in Threads : ~Decider(s)
    BY <2>6, Undecided DEF Closed, BarrierInv
  <2>9. \A s \in Threads : ~Decider(s)'
    BY <1>2, <2>2, <2>7 DEF Stays, Decider
  <2>10. DecideInv'
    BY <1>1, <2>7, <2>9 DEF DecideInv
  <2>11. AwaitInv'
    <3>1. \A s \in region.team \ {t} : (Here(s)' <=> Here(s)) /\ (Final(s)' <=> Final(s))
      BY <1>0, <1>1, <2>2 DEF Stays, Here, Final
    <3>2. HereAt(TRUE)' = HereAt(TRUE)
      BY <1>1, <2>3, <2>4, <3>1 DEF HereAt
    <3>3. ~Reset(TRUE) /\ ~Reset(TRUE)'
      BY <2>6 DEF Reset
    <3>4. awaited_final' = Missing(TRUE)'
      BY <1>1, <3>2, <3>3 DEF Missing, BarrierInv, AwaitInv, nthreads
    <3>5. Coming' \subseteq Coming
      BY <1>0, <1>1, <2>2, <2>4, <3>1 DEF Coming, Skips, Stays, Marks
    <3>6. Cardinality(Coming)' <= Cardinality(Coming) /\ Cardinality(Coming)' \in Nat
          /\ Cardinality(Coming) \in Nat
      <4>1. Coming \subseteq region.team
        BY DEF Coming
      <4> QED BY <1>0, <3>5, <4>1, TeamIsThreads, FS_Subset, FS_CardinalityType
    <3>7. Cardinality(Coming) < awaited /\ awaited <= nthreads /\ awaited \in Int
      BY <1>0 DEF BarrierInv, AwaitInv, Typed
    <3>8. Cardinality(Coming)' < awaited' /\ awaited' <= nthreads'
      BY <1>1, <3>6, <3>7 DEF nthreads
    <3> QED BY <1>1, <3>3, <3>4, <3>8 DEF AwaitInv
  <2> QED BY <2>5, <2>10, <2>11
<1> QED BY <1>4, <1>5

LEMMA MissingAll ==
  ASSUME Typed, NEW f \in BOOLEAN, HereAt(f) = {}, ~Reset(f)
  PROVE  Missing(f) = nthreads
<1>1. nthreads \in Nat /\ Cardinality(HereAt(f)) = 0
  BY FS_EmptySet, TeamIsThreads
<1>2. Missing(f) = nthreads - Cardinality(HereAt(f))
  BY DEF Missing
<1> QED BY <1>1, <1>2

LEMMA MissingAllNext ==
  ASSUME nthreads' = nthreads, nthreads \in Nat, NEW f \in BOOLEAN,
         HereAt(f)' = {}, ~Reset(f)'
  PROVE  Missing(f)' = nthreads
<1>1. Cardinality(HereAt(f)') = 0
  BY FS_EmptySet
<1>2. Missing(f)' = nthreads' - Cardinality(HereAt(f)')
  BY DEF Missing
<1> QED BY <1>1, <1>2

\* The barrier completes: who was in it has passed it, nobody is in the next.
Completes ==
    /\ \E f \in BOOLEAN : Closed(f)
    /\ NobodyLast
    /\ region' = region
    /\ generation'.n = generation.n + 1
    /\ ~generation'.waiting /\ ~generation'.cancelled
    /\ UNCHANGED <<awaited, awaited_final, phase>>
    /\ \A s \in Threads :
          /\ state'[s].n = state[s].n
          /\ InBarrier(s)' <=> InBarrier(s)
          /\ pc[s] = "gone" => pc'[s] = "gone"
          /\ ~Decider(s)'
          /\ pc'[s] \in {"dowait", "asleep", "load", "reload"} => ~state'[s].last

LEMMA CompletionKeeps ==
  ASSUME BarrierInv, TaskInv', Completes
  PROVE  PlaceInv' /\ DecideInv' /\ AwaitInv'
<1>0. Typed /\ region.team \subseteq Threads /\ region' = region
  BY TeamIsThreads DEF BarrierInv, TaskInv, Completes
<1>1. PICK f \in BOOLEAN : Closed(f)
  BY DEF Completes
<1>2. ASSUME NEW s \in region.team
      PROVE  /\ Here(s) /\ (Final(s) <=> f) /\ Passed(s)' /\ ~Here(s)' /\ ~Passed(s)
             /\ PlaceOf(s) /\ Numbers(s)
  <2>1. s \in Threads /\ Here(s) /\ (Final(s) <=> f) /\ Numbers(s) /\ PlaceOf(s)
    BY <1>0, <1>1, NumbersTyped DEF Closed, AllHere, BarrierInv, PlaceInv
  <2>2. ~Passed(s)
    BY <2>1 DEF Here, Passed, Numbers
  <2>3. Passed(s)' /\ ~Here(s)'
    BY <2>1 DEF Completes, Here, Passed, Numbers
  <2> QED BY <2>1, <2>2, <2>3
<1>3. PlaceInv'
  <2>1. ASSUME NEW s \in region.team PROVE PlaceOf(s)'
    <3>0. s \in Threads
      BY <1>0
    <3>1. pc'[s] \notin {"arrive", "gone", "cancel", "cancelwake"}
      BY <1>2, <3>0 DEF Passed, InBarrier, TaskInv, RunInv
    <3>2. Skips(s)' <=> Skips(s)
      BY <1>0 DEF Skips, Completes
    <3>3. ~Skips(s) => phase'[s] = generation'.n - 1
      BY <1>2 DEF PlaceOf, Completes, Numbers
    <3> QED BY <1>2, <3>0, <3>1, <3>2, <3>3 DEF PlaceOf, Completes
  <2>2. \A s \in Threads \ region.team : pc'[s] = "gone"
    BY DEF BarrierInv, PlaceInv, Completes
  <2> QED BY <1>0, <2>1, <2>2 DEF PlaceInv
<1>4. DecideInv'
  BY DEF DecideInv, Completes
<1>5. AwaitInv'
  <2>1. PICK u \in region.team : Here(u) /\ (Final(u) <=> f) /\ ~Here(u)'
    BY <1>0, <1>2, TeamIsThreads
  <2>2. \A g \in BOOLEAN : ~AllHere(g)' /\ HereAt(g)' = {}
    BY <1>0, <1>2, <2>1 DEF AllHere, HereAt
  <2>3. \A g \in BOOLEAN : Missing(g)' = nthreads
    <3>1. nthreads' = nthreads /\ nthreads \in Nat
      BY <1>0, TeamIsThreads DEF nthreads
    <3>2. ASSUME NEW g \in BOOLEAN PROVE Cardinality(HereAt(g)') = 0
      BY <2>2, FS_EmptySet
    <3>3. ASSUME NEW g \in BOOLEAN PROVE ~Reset(g)'
      BY <2>2 DEF Reset
    <3> QED BY <3>1, <3>2, <3>3 DEF Missing
  <2>4. awaited = nthreads /\ awaited_final = nthreads
    <3>1. CASE f
      <4>1. Reset(TRUE)
        BY <1>1, <3>1 DEF Completes, Closed, AllHere, Reset
      <4> QED BY <4>1 DEF BarrierInv, AwaitInv, Missing
    <3>2. CASE ~f
      <4>1. Reset(FALSE) /\ ~generation.cancelled
        BY <1>1, <3>2 DEF Completes, Closed, AllHere, Reset
      <4>2. HereAt(TRUE) = {} /\ ~AllHere(TRUE)
        BY <1>2, <2>1, <3>2 DEF HereAt, AllHere
      <4>3. Missing(TRUE) = nthreads
        BY <1>0, <4>2, MissingAll DEF Reset
      <4> QED BY <4>1, <4>3 DEF BarrierInv, AwaitInv, Missing
    <3> QED BY <3>1, <3>2
  <2> QED BY <1>0, <2>2, <2>3, <2>4 DEF AwaitInv, Reset, Completes, nthreads
<1> QED BY <1>3, <1>4, <1>5

LEMMA DeciderKnows ==
  ASSUME BarrierInv, NEW t \in Threads, Decider(t)
  PROVE  /\ t \in region.team
         /\ \E f \in BOOLEAN : Closed(f) /\ (Final(t) <=> f)
         /\ Here(t)
         /\ ~generation.waiting
         /\ \A s \in Threads : Decider(s) => s = t
         /\ pc[t] # "last" => ~work_share_cancelled
<1>1. t \in region.team
  BY OutsideGone DEF BarrierInv, Decider
<1>2. /\ Closed(Final(t)) /\ ~generation.waiting
      /\ \A s \in Threads : Decider(s) => s = t
      /\ pc[t] # "last" => ~work_share_cancelled
  BY DEF BarrierInv, DecideInv
<1>3. \E f \in BOOLEAN : Closed(f) /\ (Final(t) <=> f)
  <2>1. Final(t) \in BOOLEAN
    BY DEF Final
  <2>2. PICK f \in BOOLEAN : Final(t) = f
    BY <2>1
  <2> QED BY <1>2, <2>2
<1>4. Here(t)
  BY <1>1, <1>3 DEF Closed, AllHere
<1> QED BY <1>1, <1>2, <1>3, <1>4

\* gomp_team_barrier_done is called in three places.
LEMMA CompleteCompletes ==
  ASSUME BarrierInv, NEW t \in Threads, Complete(t)
  PROVE  Completes
<1>0. /\ Typed /\ PlaceInv /\ pc \in [Threads -> PCs] /\ state[t].n = generation.n
      /\ state[t].n \in Nat
  BY NumbersTyped, DeciderKnows DEF BarrierInv, TaskInv, Typed, Complete, Decider, Here, Numbers
<1>1. Decider(t) /\ pc[t] = "complete"
  BY DEF Decider, Complete
<1>2. /\ UNCHANGED <<region, awaited, awaited_final, phase, state, btask>>
      /\ Goto(t, "wakeall")
  BY DEF Complete, regionVars, threadVars
<1>3. pc'[t] = "wakeall" /\ \A s \in Threads \ {t} : pc'[s] = pc[s]
  BY <1>0, <1>2, GotoOthers
<1>4. ~(CancelKind(t) /\ state[t].cancelled)
  BY <1>0, <1>1, DeciderKnows DEF PlaceInv, PlaceOf
<1>5. generation'.n = generation.n + 1 /\ ~generation'.waiting /\ ~generation'.cancelled
  BY <1>0, <1>4 DEF Complete, Word
<1>6. NobodyLast
  BY <1>1, DeciderKnows DEF NobodyLast, Decider
<1>7. \A s \in Threads : ~Decider(s)'
  BY <1>1, <1>2, <1>3, DeciderKnows DEF Decider
<1>8. \A s \in Threads : InBarrier(s)' <=> InBarrier(s)
  BY <1>1, <1>2, <1>3 DEF InBarrier
<1>9. \A s \in Threads : pc'[s] \in {"dowait", "asleep", "load", "reload"} => ~state'[s].last
  BY <1>0, <1>2, <1>3 DEF PlaceInv, PlaceOf
<1>10. \A s \in Threads : pc[s] = "gone" => pc'[s] = "gone"
  BY <1>1, <1>3
<1> QED BY <1>1, <1>2, <1>5, <1>6, <1>7, <1>8, <1>9, <1>10, DeciderKnows DEF Completes

LEMMA HandleCompletes ==
  ASSUME BarrierInv, NEW t \in Threads, HandleTasks(t), state[t].last, task_count = 0
  PROVE  Completes
<1>0. /\ Typed /\ PlaceInv /\ pc \in [Threads -> PCs] /\ state[t].n = generation.n
      /\ state[t].n \in Nat
  BY NumbersTyped, DeciderKnows
     DEF BarrierInv, TaskInv, Typed, HandleTasks, Decider, Here, Numbers
<1>1. Decider(t) /\ pc[t] = "handle"
  BY DEF Decider, HandleTasks
<1>2. /\ UNCHANGED <<region, awaited, awaited_final, phase, state, btask>>
      /\ Goto(t, "donereturn")
  BY DEF HandleTasks, regionVars, threadVars
<1>3. pc'[t] = "donereturn" /\ \A s \in Threads \ {t} : pc'[s] = pc[s]
  BY <1>0, <1>2, GotoOthers
<1>5. generation'.n = generation.n + 1 /\ ~generation'.waiting /\ ~generation'.cancelled
  BY <1>0 DEF HandleTasks, BarrierDone, Word
<1>6. NobodyLast
  BY <1>1, DeciderKnows DEF NobodyLast, Decider
<1>7. \A s \in Threads : ~Decider(s)'
  BY <1>1, <1>2, <1>3, DeciderKnows DEF Decider
<1>8. \A s \in Threads : InBarrier(s)' <=> InBarrier(s)
  BY <1>1, <1>2, <1>3 DEF InBarrier
<1>9. \A s \in Threads : pc'[s] \in {"dowait", "asleep", "load", "reload"} => ~state'[s].last
  BY <1>0, <1>2, <1>3 DEF PlaceInv, PlaceOf
<1>10. \A s \in Threads : pc[s] = "gone" => pc'[s] = "gone"
  BY <1>1, <1>3
<1> QED BY <1>1, <1>2, <1>5, <1>6, <1>7, <1>8, <1>9, <1>10, DeciderKnows DEF Completes

LEMMA FinishCompletes ==
  ASSUME BarrierInv, NEW t \in Threads, BarrierFinish(t), LastTaskDone
  PROVE  Completes
<1>0. /\ Typed /\ PlaceInv /\ RunInv /\ pc \in [Threads -> PCs]
      /\ btask \in [Threads -> Tasks \cup {None}]
  BY DEF BarrierInv, TaskInv, Typed
<1>1. PICK f \in BOOLEAN : Closed(f)
  BY DEF LastTaskDone, BarrierInv, DecideInv
<1>2. /\ UNCHANGED <<region, awaited, awaited_final, phase, state>>
      /\ btask' = [btask EXCEPT ![t] = None]
      /\ pc[t] \in {"finish", "cancelled"}
  BY DEF BarrierFinish, regionVars, threadVars
<1>3. BarrierDone(t) /\ Goto(t, "donewake")
  BY <1>0, BarrierFinishes
<1>4. t \in region.team /\ Here(t) /\ Numbers(t)
  BY <1>0, <1>1, <1>2, OutsideGone, NumbersTyped DEF Closed, AllHere
<1>5. generation'.n = generation.n + 1 /\ ~generation'.waiting /\ ~generation'.cancelled
  BY <1>3, <1>4 DEF BarrierDone, Word, Here
<1>6. \A s \in Threads : ~Decider(s)
  BY DEF LastTaskDone, BarrierInv, DecideInv
<1>7. /\ pc'[t] = "donewake" /\ btask'[t] = None
      /\ \A s \in Threads \ {t} : pc'[s] = pc[s] /\ btask'[s] = btask[s]
  BY <1>0, <1>2, <1>3, GotoOthers
<1>8. NobodyLast
  BY <1>6 DEF NobodyLast, Decider
<1>9. \A s \in Threads : ~Decider(s)'
  BY <1>2, <1>6, <1>7 DEF Decider
<1>10. \A s \in Threads : InBarrier(s)' <=> InBarrier(s)
  BY <1>2, <1>7 DEF InBarrier
<1>11. \A s \in Threads : pc'[s] \in {"dowait", "asleep", "load", "reload"} => ~state'[s].last
  BY <1>0, <1>2, <1>7 DEF PlaceInv, PlaceOf
<1>12. \A s \in Threads : pc[s] = "gone" => pc'[s] = "gone"
  BY <1>2, <1>7
<1> QED BY <1>1, <1>2, <1>5, <1>8, <1>9, <1>10, <1>11, <1>12 DEF Completes

\* The last thread finds tasks and sets WAITING_FOR_TASK.
LEMMA SetWaitingKeeps ==
  ASSUME BarrierInv, NEW t \in Threads, HandleTasks(t), state[t].last, task_count # 0
  PROVE  PlaceInv' /\ DecideInv' /\ AwaitInv'
<1>0. /\ Typed /\ PlaceInv /\ TaskInv /\ pc \in [Threads -> PCs]
      /\ region.team \subseteq Threads
  BY TeamIsThreads DEF BarrierInv, TaskInv, Typed
<1>1. Decider(t) /\ pc[t] = "handle"
  BY DEF Decider, HandleTasks
<1>2. /\ UNCHANGED <<region, awaited, awaited_final, phase, state, btask,
                     work_share_cancelled>>
      /\ Goto(t, "top")
  BY DEF HandleTasks, regionVars, threadVars
<1>3. pc'[t] = "top" /\ \A s \in Threads \ {t} : pc'[s] = pc[s]
  BY <1>0, <1>2, GotoOthers
<1>4. generation'.n = generation.n /\ generation'.cancelled = generation.cancelled
  BY <1>0 DEF HandleTasks, SetWaitingForTasks, Typed, Words
<1>5. Stays(t)
  BY <1>1, <1>2, <1>3, StaysInside DEF Inside, InBarrier
<1>6. \A s \in Threads : Stays(s)
  BY <1>0, <1>2, <1>5, OthersWoken
<1>7. \A s \in Threads : SamePlace(s) /\ (Final(s)' <=> Final(s))
  BY <1>2, <1>4, <1>6 DEF Stays, SamePlace, Here, Final
<1>8. PlaceInv'
  <2>1. \A s \in region.team : PlaceOf(s)'
    BY <1>0, <1>2, <1>4, <1>6, PlaceKept DEF SameBarrier
  <2> QED BY <1>0, <1>2, <1>6, <2>1 DEF PlaceInv, Stays, Marks
<1>9. DecideInv'
  <2>1. \A s \in Threads : ~Decider(s)'
    BY <1>1, <1>2, <1>3, DeciderKnows DEF Decider
  <2>2. PICK f \in BOOLEAN : Closed(f)
    BY <1>1, DeciderKnows
  <2>3. Closed(f)'
    BY <1>0, <1>2, <1>4, <1>7, <2>2, PlacesKept DEF Closed
  <2>4. ~work_share_cancelled'
    BY <1>1, <1>2, DeciderKnows
  <2> QED BY <2>1, <2>3, <2>4 DEF DecideInv
<1>10. AwaitInv'
  <2>1. \A s \in Threads : pc'[s] = "last" <=> pc[s] = "last"
    BY <1>6 DEF Stays, Marks
  <2>2. \A s \in Coming' : s \in Coming
    BY <1>0, <1>2, <1>4, <1>6, <1>7 DEF Coming, Stays, Marks, SamePlace, Skips
  <2> QED BY <1>0, <1>2, <1>4, <1>7, <2>1, <2>2, AwaitKept DEF BarrierInv
<1> QED BY <1>8, <1>9, <1>10

\* The last thread resets the counters for the next barrier.
LEMMA LastThreadKeeps ==
  ASSUME BarrierInv, NEW t \in Threads, LastThread(t)
  PROVE  PlaceInv' /\ DecideInv' /\ AwaitInv'
<1>0. /\ Typed /\ PlaceInv /\ TaskInv /\ pc \in [Threads -> PCs]
      /\ region.team \subseteq Threads
  BY TeamIsThreads DEF BarrierInv, TaskInv, Typed
<1>1. Decider(t) /\ pc[t] = "last"
  BY DEF Decider, LastThread
<1>2. /\ UNCHANGED <<region, generation, phase, state, btask, task_count>>
      /\ ~work_share_cancelled'
      /\ \E l \in {"handle", "complete"} : Goto(t, l) /\ (l = "complete" => task_count = 0)
  BY DEF LastThread, ForgetCancelledLoop, TasksLeft, teamVars, threadVars
<1>3. /\ pc'[t] \in {"handle", "complete"} /\ \A s \in Threads \ {t} : pc'[s] = pc[s]
      /\ pc'[t] = "complete" => task_count = 0
  BY <1>0, <1>2, GotoOthers
<1>4. PICK f \in BOOLEAN : Closed(f) /\ (Final(t) <=> f)
  BY <1>1, DeciderKnows
<1>5. /\ t \in region.team /\ Here(t) /\ ~generation.waiting
      /\ \A s \in Threads : Decider(s) => s = t
  BY <1>1, DeciderKnows
<1>6. \A s \in Threads \ {t} : Stays(s)
  BY <1>0, <1>2, OthersWoken
<1>7. InBarrier(t) /\ InBarrier(t)'
  BY <1>1, <1>3 DEF InBarrier
<1>8. \A s \in Threads : SamePlace(s) /\ (Final(s)' <=> Final(s))
  BY <1>2, <1>6, <1>7 DEF Stays, SamePlace, Here, Final
<1>9. PlaceInv'
  <2>1. PlaceOf(t)'
    <3>1. /\ Here(t)' /\ ~Passed(t)' /\ ~Passed(t)
          /\ Skips(t)' <=> Skips(t)
          /\ CancelKind(t)' <=> CancelKind(t)
      BY <1>0, <1>2, <1>5, <1>7, NumbersTyped
         DEF Here, Passed, Skips, CancelKind, Final, Numbers
    <3>2. PlaceOf(t)
      BY <1>0, <1>5 DEF PlaceInv
    <3> QED BY <1>1, <1>2, <1>3, <1>5, <3>1, <3>2 DEF PlaceOf
  <2>2. \A s \in region.team : PlaceOf(s)'
    BY <1>0, <1>2, <1>6, <2>1, PlaceKept DEF SameBarrier
  <2> QED BY <1>0, <1>2, <1>5, <1>6, <2>2 DEF PlaceInv, Stays, Marks
<1>10. \A g \in BOOLEAN : /\ HereAt(g)' = HereAt(g)
                          /\ AllHere(g)' <=> AllHere(g)
                          /\ Closed(g)' <=> Closed(g)
  BY <1>0, <1>2, <1>8, PlacesKept DEF Closed
<1>11. DecideInv'
  <2>1. ASSUME NEW s \in Threads, Decider(s)' PROVE s = t
    BY <1>2, <1>3, <1>5, <2>1 DEF Decider
  <2>2. (Closed(Final(t)))'
    <3>1. Closed(f)'
      BY <1>4, <1>10
    <3>2. Final(t)' = f
      BY <1>0, <1>4, <1>8 DEF Final
    <3> QED BY <3>1, <3>2
  <2>3. ~generation'.waiting
    BY <1>2, <1>5
  <2> QED BY <1>2, <1>3, <2>1, <2>2, <2>3 DEF DecideInv
<1>12. AwaitInv'
  <2>1. NobodyLast'
    BY <1>3, <1>5 DEF NobodyLast, Decider
  <2>2. nthreads' = nthreads /\ nthreads \in Nat \ {0} /\ 0 < nthreads
    BY <1>0, <1>2, TeamIsThreads DEF nthreads
  <2>3. Coming' = {}
    <3>1. \A s \in region.team : Here(s)'
      BY <1>0, <1>4, <1>8 DEF Closed, AllHere, SamePlace
    <3> QED BY <1>2, <3>1 DEF Coming
  <2>4. awaited' = nthreads
    BY DEF LastThread, AwaitAgain
  <2>5. Cardinality(Coming') = 0
    BY <2>3, FS_EmptySet
  <2>6. CASE f
    <3>1. awaited_final' = nthreads
      BY <1>4, <2>6 DEF LastThread, AwaitAgain
    <3>2. Reset(TRUE)'
      BY <1>4, <1>10, <2>1, <2>6 DEF Reset, Closed
    <3>3. ~AllHere(FALSE)' /\ HereAt(FALSE)' = {}
      BY <1>0, <1>4, <1>5, <1>10, <2>6 DEF AllHere, HereAt, Closed
    <3>4. Missing(TRUE)' = nthreads
      BY <2>2, <3>2 DEF Missing
    <3>5. Missing(FALSE)' = nthreads
      BY <2>2, <3>3, MissingAllNext DEF Reset
    <3>6. Cardinality(Coming)' < awaited' /\ awaited' <= nthreads'
      BY <2>2, <2>4, <2>5
    <3>7. /\ awaited_final' = Missing(TRUE)' /\ awaited' = Missing(FALSE)'
          /\ awaited' = nthreads'
      BY <2>2, <2>4, <3>1, <3>4, <3>5
    <3> QED BY <3>6, <3>7 DEF AwaitInv
  <2>7. CASE ~f
    <3>1. awaited_final' = awaited_final
      BY <1>4, <2>7 DEF LastThread, AwaitAgain
    <3>2. Reset(FALSE)' /\ ~generation'.cancelled
      BY <1>2, <1>4, <1>10, <2>1, <2>7 DEF Reset, Closed
    <3>3. ~AllHere(TRUE)' /\ ~AllHere(TRUE) /\ HereAt(TRUE)' = {} /\ HereAt(TRUE) = {}
      BY <1>0, <1>4, <1>5, <1>10, <2>7 DEF AllHere, HereAt, Closed
    <3>4. Missing(FALSE)' = nthreads
      BY <2>2, <3>2 DEF Missing
    <3>5. Missing(TRUE)' = Missing(TRUE)
      BY <2>2, <3>3 DEF Missing, Reset
    <3> QED BY <1>5, <2>2, <2>4, <3>1, <3>2, <3>3, <3>4, <3>5
            DEF AwaitInv, BarrierInv, Reset
  <2> QED BY <2>6, <2>7
<1> QED BY <1>9, <1>11, <1>12

LEMMA HereFinite ==
  ASSUME Typed, NEW f \in BOOLEAN
  PROVE  /\ HereAt(f) \subseteq region.team /\ IsFiniteSet(HereAt(f))
         /\ Cardinality(HereAt(f)) \in Nat /\ Cardinality(HereAt(f)) <= nthreads
<1>1. HereAt(f) \subseteq region.team
  BY DEF HereAt
<1> QED BY <1>1, TeamIsThreads, FS_Subset, FS_CardinalityType DEF nthreads

\* The first cancellation comes from a thread that is not in the barrier.
LEMMA CancelKeeps ==
  ASSUME BarrierInv, NEW t \in Threads, BarrierCancel(t), FirstCancel
  PROVE  PlaceInv' /\ DecideInv' /\ AwaitInv'
<1>0. /\ Typed /\ PlaceInv /\ TaskInv /\ pc \in [Threads -> PCs]
      /\ region.team \subseteq Threads /\ IsFiniteSet(region.team)
  BY TeamIsThreads DEF BarrierInv, TaskInv, Typed
<1>1. /\ UNCHANGED <<region, awaited, awaited_final, phase, state, btask>>
      /\ Goto(t, "cancelwake") /\ pc[t] = "cancel" /\ btask[t] = None
      /\ generation' = [generation EXCEPT !.cancelled = TRUE]
      /\ ~generation.cancelled
  BY <1>0, NoTaskOutside DEF BarrierCancel, FirstCancel, regionVars
<1>2. pc'[t] = "cancelwake" /\ \A s \in Threads \ {t} : pc'[s] = pc[s]
  BY <1>0, <1>1, GotoOthers
<1>3. /\ generation'.n = generation.n /\ generation'.cancelled
      /\ generation'.waiting = generation.waiting
  BY <1>0, <1>1 DEF Typed, Words
<1>4. t \in region.team /\ PlaceOf(t)
  BY <1>0, <1>1, OutsideGone
<1>5. ~InBarrier(t) /\ ~InBarrier(t)'
  BY <1>1, <1>2 DEF InBarrier
<1>6. \A s \in Threads \ {t} : Stays(s)
  BY <1>0, <1>1, OthersWoken
<1>7. \A s \in Threads : (Here(s)' <=> Here(s)) /\ (Final(s)' <=> Final(s))
  BY <1>1, <1>3, <1>5, <1>6 DEF Stays, Here, Final
<1>8. ~generation.waiting /\ \A s \in Threads : ~Decider(s)
  BY <1>4, <1>5, Undecided DEF Closed, AllHere, Here, BarrierInv
<1>9. PlaceInv'
  <2>1. PlaceOf(t)'
    BY <1>1, <1>2, <1>3, <1>4, <1>5 DEF PlaceOf, Here, Passed, Skips
  <2>2. \A s \in region.team : PlaceOf(s)'
    BY <1>0, <1>1, <1>3, <1>6, <2>1, PlaceKept DEF SameBarrier
  <2> QED BY <1>0, <1>1, <1>4, <1>6, <2>2 DEF PlaceInv, Stays, Marks
<1>10. DecideInv'
  <2>1. \A s \in Threads : ~Decider(s)'
    BY <1>2, <1>6, <1>8 DEF Stays, Decider
  <2> QED BY <1>3, <1>8, <2>1 DEF DecideInv
<1>11. AwaitInv'
  <2>1. \A g \in BOOLEAN : HereAt(g)' = HereAt(g) /\ ~Reset(g) /\ ~Reset(g)'
    BY <1>0, <1>1, <1>4, <1>5, <1>7 DEF HereAt, Reset, AllHere, Here
  <2>2. nthreads' = nthreads /\ nthreads = Cardinality(region.team) /\ nthreads \in Nat
    BY <1>0, <1>1, TeamIsThreads DEF nthreads
  <2>3. \A g \in BOOLEAN : Missing(g)' = Missing(g)
    BY <2>1, <2>2 DEF Missing
  <2>4. awaited_final' = Missing(TRUE)'
    BY <1>1, <2>3 DEF BarrierInv, AwaitInv
  <2>5. awaited = nthreads - Cardinality(HereAt(FALSE))
    BY <1>1, <2>1 DEF BarrierInv, AwaitInv, Missing
  <2>6. Cardinality(Coming') < awaited
    <3>1. /\ HereAt(FALSE) \cap Coming' = {}
          /\ HereAt(FALSE) \cup Coming' \subseteq region.team \ {t}
      BY <1>0, <1>1, <1>2, <1>5, <1>7 DEF HereAt, Coming, Here
    <3>2. /\ IsFiniteSet(region.team \ {t})
          /\ Cardinality(region.team \ {t}) = nthreads - 1
      BY <1>0, <1>4, <2>2, FS_RemoveElement
    <3>3. /\ Cardinality(HereAt(FALSE) \cup Coming') <= nthreads - 1
          /\ IsFiniteSet(HereAt(FALSE)) /\ IsFiniteSet(Coming')
      <4>1. Cardinality(HereAt(FALSE) \cup Coming') <= Cardinality(region.team \ {t})
        BY <3>1, <3>2, FS_Subset
      <4>2. HereAt(FALSE) \in SUBSET (region.team \ {t}) /\ Coming' \in SUBSET (region.team \ {t})
        BY <3>1
      <4> QED BY <3>2, <4>1, <4>2, FS_Subset
    <3>4. /\ Cardinality(HereAt(FALSE) \cup Coming')
                = Cardinality(HereAt(FALSE)) + Cardinality(Coming')
          /\ Cardinality(HereAt(FALSE)) \in Nat /\ Cardinality(Coming') \in Nat
      BY <3>1, <3>3, DisjointUnion, FS_CardinalityType
    <3>5. \A c, h, n \in Nat : h + c <= n - 1 => c < n - h
      OBVIOUS
    <3> QED BY <2>2, <2>5, <3>3, <3>4, <3>5
  <2>7. awaited <= nthreads
    <3>1. Cardinality(HereAt(FALSE)) \in Nat
      BY <1>0, HereFinite
    <3>2. \A h, n \in Nat : n - h <= n
      OBVIOUS
    <3> QED BY <2>2, <2>5, <3>1, <3>2
  <2> QED BY <1>1, <1>3, <2>1, <2>2, <2>4, <2>6, <2>7 DEF AwaitInv
<1> QED BY <1>9, <1>10, <1>11

\* A thread arrives.
ArriveFacts(t) ==
    /\ Typed /\ PlaceInv /\ TaskInv /\ Numbers(t)
    /\ pc \in [Threads -> PCs] /\ state \in [Threads -> States]
    /\ phase \in [Threads -> Nat]
    /\ region.team \subseteq Threads /\ IsFiniteSet(region.team)
    /\ UNCHANGED <<region, generation, btask, work_share_cancelled>>
    /\ t \in region.team /\ pc[t] = "arrive" /\ btask[t] = None
    /\ state[t].n = generation.n
    /\ state'[t].n = state[t].n /\ state'[t].cancelled = state[t].cancelled
    /\ ~InBarrier(t) /\ ~Here(t) /\ ~Passed(t) /\ PlaceOf(t)
    /\ \A s \in Threads \ {t} : /\ Stays(s) /\ SamePlace(s)
                                /\ Final(s)' <=> Final(s)
                                /\ pc'[s] = pc[s]
    /\ ~generation.waiting /\ \A s \in Threads : ~Decider(s)
    /\ \A g \in BOOLEAN : ~AllHere(g)

LEMMA ArriveKnows ==
  ASSUME BarrierInv, NEW t \in Threads, Arrive(t)
  PROVE  ArriveFacts(t)
<1>1. /\ Typed /\ PlaceInv /\ TaskInv /\ Numbers(t)
      /\ pc \in [Threads -> PCs] /\ state \in [Threads -> States]
      /\ phase \in [Threads -> Nat]
      /\ region.team \subseteq Threads /\ IsFiniteSet(region.team)
  BY TeamIsThreads, NumbersTyped DEF BarrierInv, TaskInv, Typed
<1>2. /\ UNCHANGED <<region, generation, btask, work_share_cancelled>>
      /\ pc[t] = "arrive" /\ btask[t] = None
      /\ \E b : state' = [state EXCEPT ![t].last = b]
      /\ \E l : Goto(t, l)
      /\ phase' = phase \/ phase' = [phase EXCEPT ![t] = region.barriers + 1]
  BY <1>1, NoTaskOutside DEF Arrive, regionVars, JumpToEnd
<1>3. /\ state'[t].n = state[t].n /\ state'[t].cancelled = state[t].cancelled
      /\ \A s \in Threads \ {t} : state'[s] = state[s] /\ phase'[s] = phase[s]
  BY <1>1, <1>2 DEF States
<1>4. t \in region.team /\ PlaceOf(t)
  BY <1>1, <1>2, OutsideGone
<1>5. ~InBarrier(t) /\ ~Here(t) /\ ~Passed(t) /\ state[t].n = generation.n
  BY <1>2, <1>4 DEF InBarrier, Here, Passed, PlaceOf
<1>6. \A s \in Threads \ {t} : Stays(s)
  BY <1>1, <1>2, <1>3, OthersWoken
<1>7. \A s \in Threads \ {t} : SamePlace(s) /\ (Final(s)' <=> Final(s)) /\ pc'[s] = pc[s]
  BY <1>1, <1>2, <1>3, <1>6, GotoOthers DEF Stays, SamePlace, Here, Final
<1>8. \A g \in BOOLEAN : ~AllHere(g)
  BY <1>4, <1>5 DEF AllHere
<1>9. ~generation.waiting /\ \A s \in Threads : ~Decider(s)
  BY <1>8, Undecided DEF Closed, BarrierInv
<1> QED BY <1>1, <1>2, <1>3, <1>4, <1>5, <1>6, <1>7, <1>8, <1>9 DEF ArriveFacts

\* While the region is cancelled, a thread that arrives was still expected, and
\* another one that will not arrive is missing.
LEMMA ArriveCancelled ==
  ASSUME BarrierInv, NEW t \in Threads, ArriveFacts(t), ~Final(t), generation.cancelled,
         t \notin Coming', awaited' = awaited - 1
  PROVE  /\ awaited - 1 # 0
         /\ Cardinality(Coming') < awaited' /\ awaited' <= nthreads
<1>1. generation.n < region.barriers /\ ~Skips(t)
  BY DEF ArriveFacts, PlaceOf, Final, Skips, Numbers
<1>2. t \in Coming
  BY <1>1 DEF Coming, ArriveFacts
<1>3. Coming' \subseteq Coming \ {t}
  BY DEF Coming, ArriveFacts, Stays, SamePlace, Skips, Marks
<1>4. Coming \subseteq region.team /\ IsFiniteSet(Coming)
  <2>1. Coming \subseteq region.team
    BY DEF Coming
  <2> QED BY <2>1, FS_Subset DEF ArriveFacts
<1>5. IsFiniteSet(Coming \ {t}) /\ Cardinality(Coming \ {t}) = Cardinality(Coming) - 1
  BY <1>2, <1>4, FS_RemoveElement
<1>6. IsFiniteSet(Coming') /\ Cardinality(Coming') <= Cardinality(Coming) - 1
  BY <1>3, <1>5, FS_Subset
<1>7. Cardinality(Coming) \in Nat /\ Cardinality(Coming') \in Nat
  BY <1>4, <1>6, FS_CardinalityType
<1>8. Cardinality(Coming) < awaited /\ awaited <= nthreads /\ awaited \in Int
      /\ nthreads \in Int
  <2>1. Typed
    BY DEF ArriveFacts
  <2>2. nthreads \in Int /\ awaited \in Int
    BY <2>1, TeamIsThreads DEF Typed
  <2> QED BY <2>2 DEF BarrierInv, AwaitInv
<1> QED BY <1>6, <1>7, <1>8

LEMMA ArriveJumps ==
  ASSUME BarrierInv, NEW t \in Threads, Arrive(t), pc'[t] = "user"
  PROVE  PlaceInv' /\ DecideInv' /\ AwaitInv'
<1>0. ArriveFacts(t) /\ region' = region
  BY ArriveKnows DEF ArriveFacts
<1>1. /\ ~Final(t) /\ state[t].cancelled
      /\ phase' = [phase EXCEPT ![t] = region.barriers + 1]
      /\ awaited' = awaited - 1 /\ awaited_final' = awaited_final
  BY <1>0, GotoOthers DEF Arrive, JumpToEnd, CancelKind, ArriveFacts
<1>2. generation.cancelled /\ generation' = generation
  BY <1>0, <1>1 DEF ArriveFacts, PlaceOf
<1>3. Skips(t)' /\ ~InBarrier(t)' /\ ~Here(t)' /\ ~Passed(t)'
  BY <1>0, <1>1 DEF ArriveFacts, Skips, Numbers, InBarrier, Here, Passed
<1>4. PlaceInv'
  <2>1. PlaceOf(t)'
    BY <1>2, <1>3 DEF PlaceOf
  <2>2. \A s \in region.team : PlaceOf(s)'
    BY <1>0, <1>2, <2>1, PlaceKept DEF SameBarrier, ArriveFacts
  <2> QED BY <1>0, <2>2 DEF PlaceInv, Stays, Marks, ArriveFacts
<1>5. DecideInv'
  <2>1. \A s \in Threads : ~Decider(s)'
    BY <1>0 DEF ArriveFacts, Stays, Decider
  <2> QED BY <1>0, <2>1 DEF DecideInv, ArriveFacts
<1>6. AwaitInv'
  <2>1. \A g \in BOOLEAN : HereAt(g)' = HereAt(g) /\ ~Reset(g) /\ ~Reset(g)'
    BY <1>0, <1>3 DEF ArriveFacts, HereAt, Reset, AllHere, SamePlace
  <2>2. nthreads' = nthreads
    BY <1>0 DEF nthreads
  <2>3. \A g \in BOOLEAN : Missing(g)' = Missing(g)
    BY <2>1, <2>2 DEF Missing
  <2>4. Cardinality(Coming') < awaited' /\ awaited' <= nthreads
    <3>1. t \notin Coming'
      BY <1>3 DEF Coming
    <3> QED BY <1>0, <1>1, <1>2, <3>1, ArriveCancelled
  <2> QED BY <1>1, <1>2, <2>1, <2>2, <2>3, <2>4 DEF AwaitInv, BarrierInv
<1> QED BY <1>4, <1>5, <1>6

LEMMA AllHereCounted ==
  ASSUME Typed, NEW f \in BOOLEAN
  PROVE  AllHere(f) <=> Cardinality(HereAt(f)) = nthreads
<1>1. HereAt(f) \subseteq region.team /\ IsFiniteSet(region.team)
  BY TeamIsThreads DEF HereAt
<1>2. AllHere(f) <=> HereAt(f) = region.team
  BY DEF AllHere, HereAt
<1> QED BY <1>1, <1>2, FS_Subset DEF nthreads

LEMMA ArriveEnters ==
  ASSUME BarrierInv, NEW t \in Threads, Arrive(t), pc'[t] # "user"
  PROVE  PlaceInv' /\ DecideInv' /\ AwaitInv'
<1> DEFINE counter == IF Final(t) THEN awaited_final ELSE awaited
           counter1 == IF Final(t) THEN awaited_final' ELSE awaited'
<1>0. ArriveFacts(t) /\ region' = region /\ generation' = generation /\ Typed
  BY ArriveKnows DEF ArriveFacts
<1>t. Typed' /\ region.team \subseteq Threads
  BY <1>0, TypedStep, TeamIsThreads DEF Next, Step, BarrierInv, TaskInv
<1>1. /\ pc'[t] = IF counter1 = 0 THEN "last" ELSE "dowait"
      /\ state'[t].last = (counter1 = 0)
      /\ counter1 # 0 => ~(CancelKind(t) /\ state[t].cancelled)
      /\ phase' = phase
      /\ counter1 = counter - 1
      /\ Final(t) => awaited' = awaited
      /\ ~Final(t) => awaited_final' = awaited_final
  <2>1. state' = [state EXCEPT ![t].last = (counter1 = 0)]
    BY DEF Arrive
  <2>2. state'[t].last = (counter1 = 0)
    BY <1>0, <2>1 DEF ArriveFacts, States
  <2>3. IF counter1 = 0
        THEN Goto(t, "last") /\ UNCHANGED phase
        ELSE IF CancelKind(t) /\ state[t].cancelled
        THEN JumpToEnd(t)
        ELSE Goto(t, "dowait") /\ UNCHANGED phase
    BY DEF Arrive
  <2>4. ~JumpToEnd(t)
    BY <1>0, GotoOthers DEF JumpToEnd, ArriveFacts
  <2>5. pc \in [Threads -> PCs]
    BY <1>0 DEF ArriveFacts
  <2>6. /\ pc'[t] = IF counter1 = 0 THEN "last" ELSE "dowait"
        /\ counter1 # 0 => ~(CancelKind(t) /\ state[t].cancelled)
        /\ phase' = phase
    BY <2>3, <2>4, <2>5, GotoOthers
  <2> QED BY <2>2, <2>6 DEF Arrive
<1>2. InBarrier(t)' /\ Here(t)' /\ ~Passed(t)' /\ (Final(t)' <=> Final(t))
      /\ (Skips(t)' <=> Skips(t)) /\ (CancelKind(t)' <=> CancelKind(t))
  BY <1>0, <1>1 DEF ArriveFacts, InBarrier, Here, Passed, Final, Skips, CancelKind, Numbers
<1>3. t \notin Coming'
  BY <1>2 DEF Coming
<1>4. ~Final(t) /\ generation.cancelled => counter1 # 0
  <2> SUFFICES ASSUME ~Final(t), generation.cancelled PROVE counter1 # 0
    OBVIOUS
  <2>1. awaited' = awaited - 1
    BY <1>1
  <2> QED BY <1>0, <1>1, <1>3, <2>1, ArriveCancelled
<1>5. PICK f \in BOOLEAN : Final(t) = f
  <2>1. Final(t) \in BOOLEAN
    BY DEF Final
  <2> QED BY <2>1
<1>6. /\ HereAt(f)' = HereAt(f) \cup {t} /\ t \notin HereAt(f)
      /\ \A g \in BOOLEAN : g # f => HereAt(g)' = HereAt(g) /\ ~AllHere(g)'
      /\ \A g \in BOOLEAN : ~Reset(g)
  BY <1>0, <1>2, <1>5 DEF ArriveFacts, HereAt, AllHere, Reset, SamePlace
<1>7. nthreads' = nthreads /\ nthreads \in Nat
  BY <1>0, TeamIsThreads DEF nthreads
<1>8. /\ Cardinality(HereAt(f)') = Cardinality(HereAt(f)) + 1
      /\ Cardinality(HereAt(f)) \in Nat
      /\ AllHere(f)' <=> Cardinality(HereAt(f)') = nthreads
  <2>1. Cardinality(HereAt(f)') = Cardinality(HereAt(f)) + 1 /\ Cardinality(HereAt(f)) \in Nat
    BY <1>0, <1>6, HereFinite, FS_AddElement
  <2>2. AllHere(f)' <=> HereAt(f)' = region.team
    BY <1>0 DEF AllHere, HereAt
  <2>3. HereAt(f)' \subseteq region.team /\ IsFiniteSet(region.team)
    BY <1>0, TeamIsThreads DEF HereAt
  <2> QED BY <2>1, <2>2, <2>3, FS_Subset DEF nthreads
<1>9. f \/ ~generation.cancelled => counter = nthreads - Cardinality(HereAt(f))
  <2>1. \A g \in BOOLEAN : Missing(g) = nthreads - Cardinality(HereAt(g))
    BY <1>6 DEF Missing
  <2>2. CASE f
    BY <1>5, <2>1, <2>2 DEF BarrierInv, AwaitInv
  <2>3. CASE ~f
    BY <1>5, <2>1, <2>3 DEF BarrierInv, AwaitInv
  <2> QED BY <2>2, <2>3
<1>10. f \/ ~generation.cancelled =>
          /\ counter1 = nthreads - Cardinality(HereAt(f)')
          /\ counter1 = 0 <=> AllHere(f)'
  <2> HIDE DEF counter, counter1
  <2> SUFFICES ASSUME f \/ ~generation.cancelled
               PROVE  /\ counter1 = nthreads - Cardinality(HereAt(f)')
                      /\ counter1 = 0 <=> Cardinality(HereAt(f)') = nthreads
    BY <1>8
  <2>1. counter = nthreads - Cardinality(HereAt(f)) /\ counter1 = counter - 1
    BY <1>1, <1>9
  <2>2. \A n, h \in Nat : /\ (n - h) - 1 = n - (h + 1)
                          /\ n - (h + 1) = 0 <=> h + 1 = n
    OBVIOUS
  <2> QED BY <1>7, <1>8, <2>1, <2>2
<1>11. \A g \in BOOLEAN : ~Reset(g)' \/ (~f /\ generation.cancelled)
  <2>1. AllHere(f)' /\ (f \/ ~generation.cancelled) => pc'[t] = "last"
    BY <1>1, <1>10
  <2>2. ~(AllHere(f)' /\ NobodyLast') \/ (~f /\ generation.cancelled)
    BY <2>1 DEF NobodyLast
  <2> QED BY <1>6, <2>2 DEF Reset
<1>12. PlaceInv'
  <2>1. PlaceOf(t)'
    <3>1. CancelKind(t) => ~state[t].cancelled
      BY <1>0, <1>1, <1>4 DEF ArriveFacts, PlaceOf, CancelKind
    <3>2. pc'[t] \in {"dowait", "asleep", "load", "reload"} => ~state'[t].last
      BY <1>1
    <3> QED BY <1>0, <1>1, <1>2, <3>1, <3>2 DEF PlaceOf, ArriveFacts
  <2>2. \A s \in region.team : PlaceOf(s)'
    BY <1>0, <1>t, <2>1, PlaceKept DEF SameBarrier, ArriveFacts
  <2> QED BY <1>0, <2>2 DEF PlaceInv, Stays, Marks, ArriveFacts
<1>13. DecideInv'
  <2>1. \A s \in Threads : Decider(s)' => s = t /\ pc'[t] = "last"
    BY <1>0, <1>1 DEF ArriveFacts, Stays, Decider
  <2>2. ~generation'.waiting
    BY <1>0 DEF ArriveFacts
  <2>3. ASSUME pc'[t] = "last" PROVE (Closed(Final(t)))'
    <3>1. counter1 = 0
      BY <1>1, <2>3
    <3>2. f \/ ~generation.cancelled
      BY <1>4, <1>5, <3>1
    <3>3. Closed(f)'
      BY <1>0, <1>10, <3>1, <3>2 DEF Closed
    <3>4. Final(t)' = f
      BY <1>2, <1>5 DEF Final
    <3> QED BY <3>3, <3>4
  <2> QED BY <2>1, <2>2, <2>3 DEF DecideInv
<1>14. AwaitInv'
  <2>1. \A g \in BOOLEAN : g # f => Missing(g)' = Missing(g)
    <3>1. \A g \in BOOLEAN : g # f => ~Reset(g)' /\ HereAt(g)' = HereAt(g)
      BY <1>6 DEF Reset
    <3> QED BY <1>6, <1>7, <3>1 DEF Missing
  <2>2. f \/ ~generation.cancelled => counter1 = Missing(f)'
    <3> SUFFICES ASSUME f \/ ~generation.cancelled PROVE counter1 = Missing(f)'
      OBVIOUS
    <3>1. ~Reset(f)'
      BY <1>11
    <3>2. Missing(f)' = nthreads' - Cardinality(HereAt(f)')
      BY <3>1 DEF Missing
    <3> QED BY <1>7, <1>10, <3>2
  <2>3. ~Reset(TRUE)'
    <3>1. CASE f
      BY <1>11, <3>1
    <3>2. CASE ~f
      BY <1>6, <3>2 DEF Reset
    <3> QED BY <3>1, <3>2
  <2>4. CASE f
    <3>1. counter1 = awaited_final' /\ awaited' = awaited
      BY <1>1, <1>5, <2>4
    <3>2. awaited_final' = Missing(TRUE)'
      BY <2>2, <2>4, <3>1
    <3>3. Missing(FALSE)' = Missing(FALSE)
      BY <2>1, <2>4
    <3>4. generation.cancelled => Cardinality(Coming') < awaited' /\ awaited' <= nthreads
      <4> SUFFICES ASSUME generation.cancelled
                   PROVE  Cardinality(Coming') < awaited' /\ awaited' <= nthreads
        OBVIOUS
      <4>1. Coming' \subseteq Coming
        BY <1>0, <1>3 DEF Coming, ArriveFacts, Stays, SamePlace, Skips, Marks
      <4>2. Coming \subseteq region.team /\ IsFiniteSet(region.team)
        BY <1>0, TeamIsThreads DEF Coming
      <4>3. /\ Cardinality(Coming') <= Cardinality(Coming)
            /\ Cardinality(Coming') \in Nat /\ Cardinality(Coming) \in Nat
        BY <4>1, <4>2, FS_Subset, FS_CardinalityType
      <4>4. Cardinality(Coming) < awaited /\ awaited <= nthreads /\ awaited \in Int
        BY <1>0 DEF BarrierInv, AwaitInv, Typed
      <4> QED BY <3>1, <4>3, <4>4
    <3> QED BY <1>0, <1>7, <2>3, <3>1, <3>2, <3>3, <3>4 DEF AwaitInv, BarrierInv
  <2>5. CASE ~f
    <3>1. counter1 = awaited' /\ awaited_final' = awaited_final /\ awaited' = awaited - 1
      BY <1>1, <1>5, <2>5
    <3>2. ~generation'.cancelled => awaited' = Missing(FALSE)'
      BY <1>0, <2>2, <2>5, <3>1
    <3>3. Missing(TRUE)' = Missing(TRUE)
      BY <2>1, <2>5
    <3>4. generation.cancelled => Cardinality(Coming') < awaited' /\ awaited' <= nthreads
      BY <1>0, <1>3, <1>5, <2>5, <3>1, ArriveCancelled
    <3> QED BY <1>0, <1>7, <2>3, <3>1, <3>2, <3>3, <3>4 DEF AwaitInv, BarrierInv
  <2> QED BY <2>4, <2>5
<1> QED BY <1>12, <1>13, <1>14
-----------------------------------------------------------------------------
(* The invariant holds.                                                    *)

LEMMA LoadKeeps ==
  ASSUME BarrierInv, NEW t \in Threads, Load(t) \/ Reload(t)
  PROVE  Quiet \/ (PlaceInv' /\ DecideInv' /\ AwaitInv')
<1>0. Typed /\ TaskInv /\ PlaceInv /\ pc \in [Threads -> PCs]
  BY DEF BarrierInv, TaskInv, Typed
<1>1. /\ UNCHANGED <<region, generation, awaited, awaited_final, btask, state>>
      /\ pc[t] \in {"load", "reload"} /\ btask[t] = None
  BY <1>0, NoTaskOutside DEF Load, Reload, barVars, regionVars
<1>2. CASE Load(t) /\ CancelKind(t) /\ generation.cancelled
  BY <1>2, LoadJumps
<1>3. CASE ~(Load(t) /\ CancelKind(t) /\ generation.cancelled)
  <2>1. LoopTest(t) \/ (Load(t) /\ Goto(t, "handle"))
    BY <1>3 DEF Load, Reload
  <2>2. CASE Load(t) /\ Goto(t, "handle")
    <3>1. pc'[t] = "handle"
      BY <1>0, <2>2, GotoOthers
    <3> QED BY <2>2, <3>1, LoadQuiet
  <2>3. CASE LoopTest(t) /\ generation # Word(state[t].n + 1)
    <3>1. pc'[t] = "dowait"
      BY <1>0, <2>3, GotoOthers DEF LoopTest
    <3> QED BY <3>1, LoadQuiet
  <2>4. CASE LoopTest(t) /\ generation = Word(state[t].n + 1)
    <3>1. Passed(t)
      BY <1>1, <2>4 DEF Passed, InBarrier, Word
    <3>2. /\ phase' = [phase EXCEPT ![t] = @ + 1]
          /\ Goto(t, IF Final(t) THEN "gone" ELSE "user")
      BY <2>4 DEF LoopTest, Leave
    <3>3. pc'[t] = IF Final(t) THEN "gone" ELSE "user"
      BY <1>0, <3>2, GotoOthers
    <3> QED BY <1>1, <3>1, <3>2, <3>3, LeaveKeeps DEF Inside
  <2> QED BY <2>1, <2>2, <2>3, <2>4
<1> QED BY <1>2, <1>3

LEMMA CancelsKeep ==
  ASSUME BarrierInv, NEW t \in Threads,
         \/ BarrierCancel(t) /\ ~FirstCancel
         \/ CancelWake(t) \/ CancellationPoint(t)
  PROVE  PlaceInv' /\ DecideInv' /\ AwaitInv'
<1>0. Typed /\ TaskInv /\ PlaceInv /\ pc \in [Threads -> PCs]
  BY DEF BarrierInv, TaskInv, Typed
<1>1. /\ UNCHANGED <<region, awaited, awaited_final, btask, state>>
      /\ pc[t] \in {"user", "cancel", "cancelwake"}
      /\ phase' = [phase EXCEPT ![t] = region.barriers + 1]
      /\ \/ Goto(t, "user")
         \/ WakeUp(Sleepers, t, "user")
  BY DEF BarrierCancel, CancelWake, CancellationPoint, JumpToEnd, InImplicitTask,
         InUserCode, barVars, regionVars, WakeAll
<1>2. pc'[t] = "user"
  <2>1. CASE Goto(t, "user")
    BY <1>0, <2>1, GotoOthers
  <2>2. CASE WakeUp(Sleepers, t, "user")
    BY <1>0, <2>2, WakeUpOthers
  <2> QED BY <1>1, <2>1, <2>2
<1>3. btask[t] = None
  BY <1>0, NoTaskOutside DEF BarrierCancel, CancelWake, CancellationPoint
<1>4. generation.cancelled /\ generation' = generation
  <2>1. CASE BarrierCancel(t) /\ ~FirstCancel
    BY <1>0, <2>1 DEF BarrierCancel, FirstCancel, Typed, Words
  <2>2. CASE CancelWake(t)
    BY <1>0, <2>2, OutsideGone DEF CancelWake, PlaceOf, barVars
  <2>3. CASE CancellationPoint(t)
    BY <2>3 DEF CancellationPoint, barVars
  <2> QED BY <2>1, <2>2, <2>3
<1>5. SameWord /\ ~Here(t)
  BY <1>1, <1>3, <1>4 DEF SameWord, Here, InBarrier
<1>6. \/ \E l : Goto(t, l)
      \/ \E W \in SUBSET Sleepers : \E l : WakeUp(W, t, l)
  BY <1>1
<1> QED BY <1>1, <1>2, <1>3, <1>4, <1>5, <1>6, JumpKeeps

LEMMA WakeLeaves ==
  ASSUME BarrierInv, NEW t \in Threads, WakeAndLeave(t)
  PROVE  PlaceInv' /\ DecideInv' /\ AwaitInv'
<1>0. Typed /\ TaskInv /\ PlaceInv /\ pc \in [Threads -> PCs]
  BY DEF BarrierInv, TaskInv, Typed
<1>1. /\ UNCHANGED <<region, generation, awaited, awaited_final, btask, state>>
      /\ pc[t] = "wakeall" /\ btask[t] = None
      /\ phase' = [phase EXCEPT ![t] = @ + 1]
      /\ WakeUp(Sleepers, t, IF Final(t) THEN "gone" ELSE "user")
  BY <1>0, NoTaskOutside DEF WakeAndLeave, barVars, regionVars, WakeAll
<1>2. Passed(t)
  BY <1>0, <1>1, OutsideGone DEF PlaceOf
<1>3. pc'[t] = IF Final(t) THEN "gone" ELSE "user"
  BY <1>0, <1>1, WakeUpOthers
<1>4. \E W \in SUBSET Sleepers : \E l : WakeUp(W, t, l)
  BY <1>1
<1> QED BY <1>1, <1>2, <1>3, <1>4, LeaveKeeps

LEMMA BarrierStep == BarrierInv /\ [Next]_vars => BarrierInv'
<1> SUFFICES ASSUME BarrierInv, [Next]_vars PROVE BarrierInv'
  OBVIOUS
<1>0. TaskInv'
  BY TaskStep DEF BarrierInv
<1> SUFFICES Quiet \/ Completes \/ (PlaceInv' /\ DecideInv' /\ AwaitInv')
  BY <1>0, QuietKeeps, CompletionKeeps DEF BarrierInv
<1>u. CASE UNCHANGED vars
  <2>1. \A s \in Threads : Stays(s)
    BY <1>u, OthersStay DEF vars, threadVars, BarrierInv
  <2> QED BY <1>u, <2>1 DEF Quiet, SameWord, vars, barVars, teamVars, regionVars
<1> SUFFICES ASSUME NEW t \in Threads, Step(t) \/ Ending(t) \/ Choice(t)
             PROVE  Quiet \/ Completes \/ (PlaceInv' /\ DecideInv' /\ AwaitInv')
  BY <1>u DEF Next
<1>1. CASE LoadState(t) \/ CancelTeam(t)
  BY <1>1, OutKeeps
<1>2. CASE Arrive(t)
  BY <1>2, ArriveJumps, ArriveEnters
<1>3. CASE LastThread(t)
  BY <1>3, LastThreadKeeps
<1>4. CASE Complete(t)
  BY <1>4, CompleteCompletes
<1>5. CASE WakeAndLeave(t)
  BY <1>5, WakeLeaves
<1>6. CASE Load(t) \/ Reload(t)
  BY <1>6, LoadKeeps
<1>7. CASE HandleTasks(t)
  BY <1>7, InsideQuiet, HandleCompletes, SetWaitingKeeps
<1>8. CASE LoopTop(t)
  BY <1>8, LoopTopQuiet
<1>9. CASE BarrierFinish(t)
  BY <1>9, BarrierFinishQuiet, FinishCompletes
<1>10. CASE \/ DoWait(t) \/ Interrupted(t) \/ Relock(t) \/ TaskEnd(t)
            \/ DoneWake(t) \/ PostWake(t) \/ UserWake(t)
  BY <1>10, InsideQuiet
<1>11. CASE \/ WaitLock(t) \/ WaitTake(t) \/ WaitFinish(t) \/ WaitUnlock(t)
            \/ CancelLoop(t) \/ \E x \in Tasks : CreateTask(t, x)
  BY <1>11, UserQuiet
<1>12. CASE BarrierCancel(t) \/ CancelWake(t) \/ CancellationPoint(t)
  BY <1>12, CancelKeeps, CancelsKeep
<1> QED BY <1>1, <1>2, <1>3, <1>4, <1>5, <1>6, <1>7, <1>8, <1>9, <1>10, <1>11, <1>12
        DEF Step, Ending, Choice

LEMMA BarrierStart == Init => BarrierInv
<1> SUFFICES ASSUME Init PROVE BarrierInv
  OBVIOUS
<1>0. /\ Typed /\ nthreads \in Nat /\ 0 < nthreads
      /\ region.team \subseteq Threads /\ \E t \in Threads : t \in region.team
  <2>1. nthreads \in Nat \ {0}
    BY TeamSize DEF Init
  <2>2. Typed
    <3>1. generation \in Words
      BY DEF Init, Word, Words
    <3>2. state \in [Threads -> States]
      BY DEF Init, States
    <3>3. pc \in [Threads -> PCs] /\ status \in [Tasks -> Statuses]
      BY DEF Init, PCs, Statuses
    <3>4. awaited \in Int /\ awaited_final \in Int
      BY <2>1 DEF Init
    <3>5. /\ by \in [Tasks -> Threads \cup {None}]
          /\ btask \in [Threads -> Tasks \cup {None}]
      BY DEF Init
    <3>6. /\ phase \in [Threads -> Nat] /\ do_wake \in [Threads -> Nat]
          /\ wbit \in [Threads -> BOOLEAN]
      BY DEF Init
    <3>7. /\ region \in Regions /\ task_lock \in Threads \cup {None}
          /\ work_share_cancelled \in BOOLEAN /\ team_cancelled \in BOOLEAN
      BY DEF Init
    <3>8. task_count \in Int /\ task_queued_count \in Int /\ task_running_count \in Int
      BY DEF Init
    <3> QED BY <3>1, <3>2, <3>3, <3>4, <3>5, <3>6, <3>7, <3>8 DEF Typed
  <2> QED BY <2>1, <2>2, TeamIsThreads
<1>1. RunInv /\ BlockedInv
  BY DEF Init, RunInv, BlockedInv
<1>2. CountersAgree
  <2>1. Live = {} /\ Queued = {} /\ Runners = {}
    BY DEF Init, Live, Queued, Runners
  <2> QED BY <2>1, FS_EmptySet DEF Init, CountersAgree, Live, Queued, Runners
<1>3. \A t \in Threads : ~InBarrier(t) /\ ~Here(t) /\ ~Passed(t) /\ ~Decider(t)
  BY DEF Init, InBarrier, Here, Passed, Decider
<1>4. PlaceInv
  <2>1. ASSUME NEW t \in region.team PROVE PlaceOf(t)
    BY <1>0, <1>3, NumbersTyped DEF Init, PlaceOf, Word, Skips, Numbers
  <2> QED BY <2>1 DEF PlaceInv, Init
<1>5. DecideInv
  BY <1>3 DEF DecideInv, Init, Word
<1>6. AwaitInv
  <2>1. \A f \in BOOLEAN : HereAt(f) = {} /\ ~Reset(f)
    BY <1>0, <1>3 DEF HereAt, Reset, AllHere
  <2>2. \A f \in BOOLEAN : Missing(f) = nthreads
    BY <1>0, <2>1, MissingAll
  <2> QED BY <2>1, <2>2 DEF AwaitInv, Init, Word
<1> QED BY <1>0, <1>1, <1>2, <1>4, <1>5, <1>6 DEF BarrierInv, TaskInv

(* gomp_team_barrier_wait_end, gomp_barrier_handle_tasks and the code that   *)
(* cancels a region keep the agreement of words, counters, threads and     *)
(* tasks that BarrierInv states.                                           *)
THEOREM BarrierInvariant == Spec => []BarrierInv
<1> QED BY BarrierStart, BarrierStep, PTL DEF Spec
-----------------------------------------------------------------------------
(* What follows from it.                                                   *)

LEMMA MissingBounded ==
  ASSUME Typed, NEW f \in BOOLEAN
  PROVE  Missing(f) \in 0..nthreads
<1>1. nthreads \in Nat
  BY TeamIsThreads
<1>2. CASE Reset(f)
  BY <1>1, <1>2 DEF Missing
<1>3. CASE ~Reset(f)
  <2>1. Missing(f) = nthreads - Cardinality(HereAt(f))
    BY <1>3 DEF Missing
  <2> QED BY <1>1, <2>1, HereFinite
<1> QED BY <1>2, <1>3

LEMMA BarrierTyped == BarrierInv => TypeOK
<1> SUFFICES ASSUME BarrierInv PROVE TypeOK
  OBVIOUS
<1>1. Typed
  BY DEF BarrierInv, TaskInv
<1>2. awaited_final \in 0..nthreads
  BY <1>1, MissingBounded DEF BarrierInv, AwaitInv
<1>3. awaited \in 0..nthreads
  <2>1. CASE ~generation.cancelled
    BY <1>1, <2>1, MissingBounded DEF BarrierInv, AwaitInv
  <2>2. CASE generation.cancelled
    <3>1. Cardinality(Coming) < awaited /\ awaited <= nthreads
      BY <2>2 DEF BarrierInv, AwaitInv
    <3>2. awaited \in Int /\ nthreads \in Nat
      BY <1>1, TeamIsThreads DEF Typed
    <3>3. Cardinality(Coming) \in Nat
      <4>1. Coming \subseteq region.team
        BY DEF Coming
      <4> QED BY <1>1, <4>1, TeamIsThreads, FS_Subset, FS_CardinalityType
    <3> QED BY <3>1, <3>2, <3>3
  <2> QED BY <2>1, <2>2
<1>4. task_count \in Nat /\ task_queued_count \in Nat /\ task_running_count \in Nat
  BY CountersFinite DEF BarrierInv, TaskInv, CountersAgree, Live, Queued, Runners
<1> QED BY <1>1, <1>2, <1>3, <1>4 DEF TypeOK, Typed, Words, States

(* The words, counters and positions keep their types; the number of       *)
(* threads a barrier still waits for stays between 0 and the team's size.  *)
THEOREM TypeCorrect == Spec => []TypeOK
BY BarrierInvariant, BarrierTyped, PTL

(* The last thread of a barrier decides by counters that agree with the    *)
(* tasks, and no cancellation of its barrier is on its way.                *)
THEOREM LastThreadIsRight == Spec => []LastThreadKnows
<1>1. BarrierInv => LastThreadKnows
  <2> SUFFICES ASSUME BarrierInv PROVE LastThreadKnows
    OBVIOUS
  <2>1. ASSUME NEW t \in Threads, pc[t] \in {"last", "complete"}, CancelKind(t)
        PROVE  ~state[t].cancelled /\ ~generation.cancelled
    <3>1. Decider(t)
      BY <2>1 DEF Decider
    <3>2. PICK f \in BOOLEAN : Closed(f) /\ (Final(t) <=> f)
      BY <3>1, DeciderKnows
    <3>3. ~generation.cancelled
      BY <2>1, <3>2 DEF Closed, CancelKind
    <3>4. Here(t) /\ PlaceOf(t)
      BY <3>1, DeciderKnows DEF BarrierInv, PlaceInv
    <3> QED BY <2>1, <3>3, <3>4 DEF PlaceOf
  <2> QED BY <2>1 DEF LastThreadKnows, LastSeesNoCancel, BarrierInv, TaskInv
<1> QED BY <1>1, BarrierInvariant, PTL

LEMMA OnlyCompletionCounts ==
  ASSUME BarrierInv, [Next]_vars, generation'.n # generation.n
  PROVE  /\ Completes /\ task_count' = 0 /\ ~work_share_cancelled'
         /\ \E t \in Threads : pc'[t] \in {"wakeall", "donereturn", "donewake"}
<1>0. Typed /\ pc \in [Threads -> PCs]
  BY DEF BarrierInv, TaskInv, Typed
<1>1. PICK t \in Threads : Step(t) \/ Ending(t) \/ Choice(t)
  BY DEF Next, vars, barVars
<1>2. CASE Complete(t)
  <2>1. Decider(t) /\ pc[t] = "complete"
    BY <1>2 DEF Complete, Decider
  <2>2. pc'[t] = "wakeall"
    BY <1>0, <1>2, GotoOthers DEF Complete
  <2>3. task_count = 0 /\ ~work_share_cancelled
    BY <2>1, DeciderKnows DEF BarrierInv, DecideInv
  <2> QED BY <1>2, <2>2, <2>3, CompleteCompletes DEF Complete, teamVars, regionVars
<1>3. CASE HandleTasks(t)
  <2>1. state[t].last /\ task_count = 0
    BY <1>0, <1>3 DEF HandleTasks, SetWaitingForTasks, Typed, Words
  <2>2. Decider(t) /\ pc[t] # "last"
    BY <1>3, <2>1 DEF HandleTasks, Decider
  <2>3. pc'[t] = "donereturn"
    BY <1>0, <1>3, <2>1, GotoOthers DEF HandleTasks
  <2>4. ~work_share_cancelled
    BY <2>2, DeciderKnows
  <2> QED BY <1>3, <2>1, <2>3, <2>4, HandleCompletes
          DEF HandleTasks, teamVars, regionVars
<1>4. CASE BarrierFinish(t)
  <2>1. LastTaskDone
    <3> SUFFICES ASSUME ~LastTaskDone PROVE FALSE
      OBVIOUS
    <3> QED BY <1>4, BarrierFinishQuiet DEF Quiet, SameWord
  <2>2. Goto(t, "donewake")
    BY <1>0, <1>4, <2>1, BarrierFinishes DEF BarrierInv, TaskInv
  <2>3. pc'[t] = "donewake"
    BY <1>0, <2>2, GotoOthers
  <2>4. ~work_share_cancelled /\ task_count' = 0
    BY <2>1 DEF LastTaskDone, BarrierInv, DecideInv
  <2> QED BY <1>4, <2>1, <2>3, <2>4, FinishCompletes DEF BarrierFinish, regionVars
<1>5. CASE ~Complete(t) /\ ~HandleTasks(t) /\ ~BarrierFinish(t)
  <2>1. \/ generation' = generation
        \/ \E b : generation' = [generation EXCEPT !.pending = b]
        \/ \E b : generation' = [generation EXCEPT !.cancelled = b]
    BY <1>1, <1>5
       DEF Step, Ending, Choice, LoadState, Arrive, LastThread, WakeAndLeave, DoWait,
           Interrupted, Load, Reload, LoopTop, TakeOff, PostWake, TaskEnd, DoneWake,
           Relock, CreateTask, WaitLock, WaitTake, WaitFinish, WaitUnlock, UserWake,
           CancelLoop, CancelTeam, BarrierCancel, CancelWake, CancellationPoint,
           barVars
  <2> QED BY <1>0, <2>1 DEF Typed, Words
<1> QED BY <1>2, <1>3, <1>4, <1>5

LEMMA NoTaskLeft ==
  TaskInv /\ task_count = 0 => \A x \in Tasks : status[x] \in {"none", "done"}
<1> SUFFICES ASSUME TaskInv, task_count = 0
             PROVE  \A x \in Tasks : status[x] \in {"none", "done"}
  OBVIOUS
<1>1. Live = {}
  BY CountersFinite, FS_EmptySet DEF TaskInv, CountersAgree, Live
<1> QED BY <1>1 DEF TaskInv, BlockedInv, Live, Typed, Statuses

(* The barrier completes only when every thread of the team is in it and   *)
(* every task created before it has finished.                              *)
THEOREM CompletesWhenAllArrived == Spec => BarrierCompletes
<1>1. BarrierInv /\ [Next]_vars =>
         [generation'.n # generation.n =>
            /\ generation'.n = generation.n + 1
            /\ \A t \in region.team : /\ InBarrier(t) /\ InBarrier(t)'
                                       /\ state[t].n = generation.n
            /\ \A s, t \in region.team : Final(s) => Final(t)
            /\ \A x \in Tasks : status'[x] \in {"none", "done"}
            /\ ~work_share_cancelled']_vars
  <2> SUFFICES ASSUME BarrierInv, [Next]_vars, generation'.n # generation.n
               PROVE  /\ generation'.n = generation.n + 1
                      /\ \A t \in region.team : /\ InBarrier(t) /\ InBarrier(t)'
                                                 /\ state[t].n = generation.n
                      /\ \A s, t \in region.team : Final(s) => Final(t)
                      /\ \A x \in Tasks : status'[x] \in {"none", "done"}
                      /\ ~work_share_cancelled'
    OBVIOUS
  <2>1. Completes /\ task_count' = 0 /\ ~work_share_cancelled'
    BY OnlyCompletionCounts
  <2>2. PICK f \in BOOLEAN : AllHere(f)
    BY <2>1 DEF Completes, Closed
  <2>3. region.team \subseteq Threads
    BY TeamIsThreads DEF BarrierInv, TaskInv
  <2>4. \A t \in region.team : /\ InBarrier(t) /\ InBarrier(t)'
                                /\ state[t].n = generation.n
    BY <2>1, <2>2, <2>3 DEF Completes, AllHere, Here
  <2>5. \A s, t \in region.team : Final(s) => Final(t)
    BY <2>2 DEF AllHere
  <2>6. \A x \in Tasks : status'[x] \in {"none", "done"}
    <3>1. TaskInv'
      BY TaskStep DEF BarrierInv
    <3>2. (\A x \in Tasks : status[x] \in {"none", "done"})'
      <4>1. (task_count = 0)'
        BY <2>1
      <4> QED BY <3>1, <4>1, NoTaskLeft, PTL
    <3> QED BY <3>2
  <2> QED BY <2>1, <2>4, <2>5, <2>6 DEF Completes
<1> QED BY <1>1, BarrierInvariant, PTL DEF Spec, BarrierCompletes

(* Sleepers.  A wake-up of all of them is promised by a position of the    *)
(* thread that owes it, and these positions are left by that wake-up only. *)
Wakers == {"wakeall", "donereturn", "donewake"}

KeepsSleepers ==
    /\ region' = region
    /\ generation'.n = generation.n
    /\ generation'.cancelled => generation.cancelled
    /\ \A s \in Threads :
          /\ pc'[s] = "asleep" => pc[s] = "asleep" /\ state'[s] = state[s]
                                  /\ phase'[s] = phase[s]
          /\ pc[s] \in Wakers \cup {"cancelwake"} => pc'[s] = pc[s]

LEMMA SleepersKept ==
  ASSUME NoLostWakeup, KeepsSleepers
  PROVE  NoLostWakeup'
<1> SUFFICES ASSUME NEW t \in Threads, pc'[t] = "asleep"
             PROVE  /\ generation'.n # state'[t].n =>
                          \E s \in Threads : pc'[s] \in Wakers
                    /\ CancelKind(t)' /\ generation'.cancelled =>
                          \E s \in Threads : pc'[s] = "cancelwake"
  BY DEF NoLostWakeup, Wakers
<1>1. pc[t] = "asleep" /\ state'[t] = state[t] /\ phase'[t] = phase[t]
  BY DEF KeepsSleepers
<1>2. CancelKind(t)' <=> CancelKind(t)
  BY <1>1 DEF KeepsSleepers, CancelKind, Final
<1>3. /\ generation.n # state[t].n => \E s \in Threads : pc[s] \in Wakers
      /\ CancelKind(t) /\ generation.cancelled => \E s \in Threads : pc[s] = "cancelwake"
  BY <1>1 DEF NoLostWakeup, Wakers
<1> QED BY <1>1, <1>2, <1>3 DEF KeepsSleepers

LEMMA NobodySleeps ==
  ASSUME pc \in [Threads -> PCs], NEW t \in Threads, NEW l, l # "asleep",
         WakeUp(Sleepers, t, l)
  PROVE  NoLostWakeup'
<1>1. \A s \in Threads : pc'[s] # "asleep"
  BY DEF WakeUp, Sleepers
<1> QED BY <1>1 DEF NoLostWakeup

\* A step of t that wakes nobody, or some, and neither promises nor fulfils.
LEMMA OthersSleepOn ==
  ASSUME TaskInv, NEW t \in Threads,
         \/ \E l : Goto(t, l) /\ l # "asleep"
         \/ \E W \in SUBSET Sleepers : \E l : WakeUp(W, t, l) /\ l # "asleep"
         \/ pc' = pc /\ pc[t] # "asleep",
         pc[t] \notin Wakers \cup {"cancelwake"} \/ pc' = pc,
         \A s \in Threads \ {t} : state'[s] = state[s] /\ phase'[s] = phase[s],
         region' = region, generation'.n = generation.n,
         generation'.cancelled => generation.cancelled
  PROVE  KeepsSleepers
<1>0. pc \in [Threads -> PCs]
  BY DEF TaskInv, Typed
<1>1. /\ pc'[t] # "asleep"
      /\ \A s \in Threads \ {t} :
            pc'[s] = pc[s] \/ (pc[s] = "asleep" /\ pc'[s] = "load")
  <2>1. CASE \E l : Goto(t, l) /\ l # "asleep"
    BY <1>0, <2>1, GotoOthers
  <2>2. CASE \E W \in SUBSET Sleepers : \E l : WakeUp(W, t, l) /\ l # "asleep"
    BY <1>0, <2>2, WakeUpOthers
  <2>3. CASE pc' = pc /\ pc[t] # "asleep"
    BY <2>3
  <2> QED BY <2>1, <2>2, <2>3
<1>2. ASSUME NEW s \in Threads
      PROVE  /\ pc'[s] = "asleep" => pc[s] = "asleep" /\ state'[s] = state[s]
                                     /\ phase'[s] = phase[s]
             /\ pc[s] \in Wakers \cup {"cancelwake"} => pc'[s] = pc[s]
  BY <1>1 DEF Wakers
<1> QED BY <1>2 DEF KeepsSleepers

\* Steps that change the word's cancelled flag or counter, sleep, or wake all.
LEMMA SleepStep == BarrierInv /\ NoLostWakeup /\ [Next]_vars => NoLostWakeup'
<1> SUFFICES ASSUME BarrierInv, NoLostWakeup, [Next]_vars PROVE NoLostWakeup'
  OBVIOUS
<1>0. /\ Typed /\ TaskInv /\ PlaceInv /\ pc \in [Threads -> PCs]
      /\ state \in [Threads -> States] /\ phase \in [Threads -> Nat]
  BY DEF BarrierInv, TaskInv, Typed
<1>u. CASE UNCHANGED vars
  BY <1>u DEF vars, barVars, regionVars, threadVars, NoLostWakeup, CancelKind, Final
<1>c. CASE generation'.n # generation.n
  <2>1. Completes /\ \E t \in Threads : pc'[t] \in Wakers
    BY <1>c, OnlyCompletionCounts DEF Wakers
  <2>2. ~generation'.cancelled
    BY <2>1 DEF Completes
  <2> QED BY <2>1, <2>2 DEF NoLostWakeup, Wakers
<1> SUFFICES ASSUME NEW t \in Threads, Step(t) \/ Ending(t) \/ Choice(t),
                    generation'.n = generation.n
             PROVE  NoLostWakeup'
  BY <1>u, <1>c DEF Next
<1>1. CASE WakeAndLeave(t) \/ DoneWake(t) \/ CancelWake(t)
  <2>1. \E l \in PCs \ {"asleep"} : WakeUp(Sleepers, t, l)
    BY <1>1 DEF WakeAndLeave, DoneWake, CancelWake, WakeAll, PCs
  <2> QED BY <1>0, <2>1, NobodySleeps
<1>2. CASE BarrierCancel(t) /\ FirstCancel
  <2>1. /\ pc'[t] = "cancelwake" /\ \A s \in Threads \ {t} : pc'[s] = pc[s]
        /\ state' = state /\ generation.n = generation'.n
    BY <1>0, <1>2, GotoOthers DEF BarrierCancel
  <2>2. pc[t] = "cancel"
    BY <1>2 DEF BarrierCancel
  <2> QED BY <2>1, <2>2 DEF NoLostWakeup
<1>3. CASE DoWait(t)
  <2>1. /\ pc[t] = "dowait"
        /\ UNCHANGED <<region, generation, state, phase>>
        /\ Goto(t, IF generation = Expected(t) THEN "asleep" ELSE "load")
    BY <1>3 DEF DoWait, barVars, regionVars, threadVars
  <2>2. CASE generation # Expected(t)
    <3>1. KeepsSleepers
      BY <1>0, <2>1, <2>2, OthersSleepOn DEF Wakers
    <3> QED BY <3>1, SleepersKept
  <2>3. CASE generation = Expected(t)
    <3>1. pc'[t] = "asleep" /\ \A s \in Threads \ {t} : pc'[s] = pc[s]
      BY <1>0, <2>1, <2>3, GotoOthers
    <3>2. generation.n = state[t].n /\ generation.cancelled = state[t].cancelled
      BY <2>3 DEF Expected, Word
    <3>3. Here(t) /\ PlaceOf(t)
      BY <1>0, <2>1, <3>2, OutsideGone DEF Here, InBarrier
    <3>4. ~(CancelKind(t) /\ generation.cancelled)
      BY <3>2, <3>3 DEF PlaceOf
    <3>5. \A s \in Threads : CancelKind(s)' <=> CancelKind(s)
      BY <2>1 DEF CancelKind, Final
    <3> QED BY <2>1, <3>1, <3>2, <3>4, <3>5 DEF NoLostWakeup
  <2> QED BY <2>2, <2>3
<1>4. CASE \/ PostWake(t) \/ UserWake(t)
  <2>1. /\ UNCHANGED <<region, generation, phase>>
        /\ pc[t] \in {"user", "post"}
        /\ \E W \in SUBSET Sleepers, l \in PCs : WakeUp(W, t, l) /\ l # "asleep"
        /\ state' = state \/ \E b : state' = [state EXCEPT ![t].last = b]
    BY <1>4 DEF PostWake, UserWake, WakeSome, HandleReturn, PCs, barVars, regionVars,
                threadVars
  <2>2. \A s \in Threads \ {t} : state'[s] = state[s] /\ phase'[s] = phase[s]
    BY <1>0, <2>1
  <2>3. KeepsSleepers
    BY <1>0, <2>1, <2>2, OthersSleepOn DEF Wakers
  <2> QED BY <2>3, SleepersKept
<1>5. CASE \/ WaitLock(t) \/ WaitTake(t) \/ WaitFinish(t) \/ WaitUnlock(t)
           \/ CancelLoop(t) \/ \E x \in Tasks : CreateTask(t, x)
  <2>1. /\ UNCHANGED <<region, pc, state, phase>> /\ pc[t] = "user"
        /\ \/ generation' = generation
           \/ \E b : generation' = [generation EXCEPT !.pending = b]
    BY <1>5 DEF WaitLock, WaitTake, WaitFinish, WaitUnlock, CancelLoop, CreateTask, barVars,
                regionVars, threadVars, TakeOff, InUserCode, InImplicitTask
  <2>2. generation'.cancelled = generation.cancelled
    BY <1>0, <2>1 DEF Typed, Words
  <2>3. KeepsSleepers
    BY <1>0, <2>1, <2>2, OthersSleepOn
  <2> QED BY <2>3, SleepersKept
<1>6. CASE \/ LoadState(t) \/ Arrive(t) \/ LastThread(t) \/ Complete(t)
           \/ Interrupted(t) \/ Load(t) \/ Reload(t) \/ HandleTasks(t)
           \/ LoopTop(t) \/ TaskEnd(t) \/ BarrierFinish(t) \/ Relock(t)
           \/ CancelTeam(t) \/ (BarrierCancel(t) /\ ~FirstCancel)
           \/ CancellationPoint(t)
  <2>1. region' = region
    BY <1>6 DEF LoadState, Arrive, LastThread, Complete, Interrupted, Load, Reload,
                HandleTasks, LoopTop, TaskEnd, BarrierFinish, Relock, CancelTeam,
                BarrierCancel, CancellationPoint, regionVars
  <2>2. pc[t] \notin Wakers \cup {"cancelwake"}
    BY <1>6 DEF LoadState, Arrive, LastThread, Complete, Interrupted, Load, Reload,
                HandleTasks, LoopTop, TaskEnd, BarrierFinish, Relock, CancelTeam,
                BarrierCancel, CancellationPoint, InImplicitTask, InUserCode, Wakers
  <2>3. \E l : Goto(t, l) /\ l # "asleep"
    <3>1. CASE BarrierFinish(t)
      BY <1>0, <3>1, BarrierFinishes DEF TaskInv
    <3>2. CASE LoopTop(t)
      BY <3>2 DEF LoopTop, AfterUnlock, HandleReturn
    <3>3. CASE Load(t) \/ Reload(t) \/ Arrive(t)
      BY <3>3 DEF Load, Reload, Arrive, JumpToEnd, LoopTest, Leave
    <3> QED BY <1>6, <3>1, <3>2, <3>3
        DEF LoadState, LastThread, Complete, Interrupted, HandleTasks,
            TaskEnd, Relock, CancelTeam, BarrierCancel, CancellationPoint, JumpToEnd
  <2>4. \A s \in Threads \ {t} : state'[s] = state[s] /\ phase'[s] = phase[s]
    <3>1. \/ state' = state
          \/ \E b : state' = [state EXCEPT ![t].last = b]
          \/ \E b : state' = [state EXCEPT ![t] = b]
      BY <1>6 DEF LoadState, Arrive, LastThread, Complete, Interrupted, Load, Reload,
                HandleTasks, LoopTop, TaskEnd, BarrierFinish, Relock, CancelTeam,
                BarrierCancel, CancellationPoint, threadVars
    <3>2. phase' = phase \/ \E b : phase' = [phase EXCEPT ![t] = b]
      BY <1>6 DEF LoadState, Arrive, LastThread, Complete, Interrupted, Load, Reload,
                HandleTasks, LoopTop, TaskEnd, BarrierFinish, Relock, CancelTeam,
                BarrierCancel, CancellationPoint, JumpToEnd, LoopTest, Leave, threadVars
    <3> QED BY <1>0, <3>1, <3>2
  <2>5. generation'.cancelled => generation.cancelled
    <3>1. CASE Complete(t)
      BY <1>0, <3>1, CompleteCompletes DEF Completes
    <3>2. CASE HandleTasks(t)
      BY <1>0, <3>2 DEF HandleTasks, BarrierDone, SetWaitingForTasks, Word, Typed, Words
    <3>3. CASE BarrierFinish(t)
      <4>1. \/ generation' = Word(state[t].n + 1)
            \/ \E R : generation' = [generation EXCEPT !.pending = PendingAfter(R)]
        BY <1>0, <3>3, BarrierFinishes DEF TaskInv, BarrierDone
      <4> QED BY <1>0, <4>1 DEF Word, Typed, Words
    <3>4. CASE LoopTop(t)
      <4>1. generation' = generation
            \/ \E b : generation' = [generation EXCEPT !.pending = b]
        BY <3>4 DEF LoopTop, TakeOff
      <4> QED BY <1>0, <4>1 DEF Typed, Words
    <3> QED BY <1>6, <3>1, <3>2, <3>3, <3>4
        DEF LoadState, Arrive, LastThread, Interrupted, Load, Reload,
            TaskEnd, Relock, CancelTeam, BarrierCancel, FirstCancel, CancellationPoint,
            barVars
  <2>6. KeepsSleepers
    BY <1>0, <2>1, <2>2, <2>3, <2>4, <2>5, OthersSleepOn
  <2> QED BY <2>6, SleepersKept
<1> QED BY <1>1, <1>2, <1>3, <1>4, <1>5, <1>6 DEF Step, Ending, Choice

(* No thread sleeps on in a barrier that is complete, or in a cancellable  *)
(* barrier of a cancelled region, without a wake-up of all coming.         *)
THEOREM WakeupsArrive == Spec => []NoLostWakeup
<1>1. Init => NoLostWakeup
  BY DEF Init, NoLostWakeup
<1> QED BY <1>1, BarrierInvariant, SleepStep, PTL DEF Spec
=============================================================================
