----------------------------- MODULE TeamTasks ------------------------------
(***************************************************************************)
(* Explicit tasks (task.c) in one team: deferred and undeferred tasks,     *)
(* depend clauses, taskwait, taskgroups, their cancellation, and the three *)
(* loops that run tasks.  The barrier side of every step is the action of  *)
(* TeamBarrier (TB) it is conjoined with; this module adds the lists.      *)
(*                                                                         *)
(* A list is a sequence whose head is the pointer the code keeps, so that  *)
(* moving the pointer to the next element of the ring rotates it.          *)
(*                                                                         *)
(* A section under team->task_lock is one step, except that finishing a    *)
(* task takes three: its stores to parent->children and to num_children    *)
(* are read without the lock.                                              *)
(***************************************************************************)
EXTENDS Integers, FiniteSets, SequencesExt

CONSTANTS Threads, Tasks, None,   \* as in TeamBarrier
          Groups,       \* taskgroups
          Addrs,        \* addresses named in depend clauses
          Regions       \* as in TeamBarrier, with the further fields
                        \*  groups      the taskgroups it can open
                        \*  addrs       the addresses its depend clauses name
                        \*  clauses     what they say of an address
                        \*  throttle    64 * nthreads: with more unfinished
                        \*              tasks new ones are not deferred
                        \*  constructs  the other task constructs it uses
                        \*  orphans     its tasks may end before their
                        \*              depending children have started

ASSUME TasksAssumption ==
    /\ IsFiniteSet(Threads) /\ IsFiniteSet(Tasks) /\ Threads \cap Tasks = {}
    /\ None \notin Threads \cup Tasks \cup Groups
    /\ \A r \in Regions : /\ r.team \subseteq Threads /\ r.team # {}
                          /\ r.tasks \subseteq Tasks /\ r.groups \subseteq Groups
                          /\ r.barriers \in Nat
                          /\ r.cancellable \in BOOLEAN

VARIABLES
    \* TeamBarrier
    region, generation, awaited, awaited_final, task_lock, task_count,
    task_queued_count, task_running_count, work_share_cancelled,
    team_cancelled, status, by, pc, phase, state, wbit, btask, do_wake,
    \* gomp_team
    task_queue,
    \* gomp_task; the implicit task of a thread goes by the thread's name
    kind, parent, children, taskgroup, in_taskwait, taskwait_sem,
    in_tied_task, copy_ctors_done, depend, depend_hash, dependers,
    num_dependees,
    \* gomp_taskgroup
    group,
    \* threads
    tpc,            \* where a thread is in task.c
    stack,          \* the explicit tasks it is in, innermost last
    new,            \* the task under construction in GOMP_task
    \* history
    home,           \* home[x]: the innermost taskgroup that waits for x
    after           \* after[x]: unfinished siblings x must run after

TB == INSTANCE TeamBarrier

tbVars == <<region, generation, awaited, awaited_final, task_lock, task_count,
            task_queued_count, task_running_count, work_share_cancelled,
            team_cancelled, status, by, pc, phase, state, wbit, btask, do_wake>>
listVars == <<task_queue, kind, parent, children, in_taskwait, taskwait_sem,
              depend_hash, dependers, num_dependees, group>>
bodyVars == <<taskgroup, in_tied_task, copy_ctors_done, depend, home, after>>
vars == <<tbVars, listVars, bodyVars, tpc, stack, new>>

Owners == Threads \cup Tasks    \* everything that can be a parent

Contexts == {"barrier", "taskwait", "group", "inline"}

Kinds == {"unused", "iffalse", "waiting", "tied", "gone"}

NoDepend == [a \in Addrs |-> "no"]
-----------------------------------------------------------------------------
Init ==
    /\ TB!Init
    /\ task_queue = <<>>
    /\ kind = [x \in Tasks |-> "unused"]
    /\ parent = [x \in Tasks |-> None]
    /\ children = [y \in Owners |-> <<>>]
    /\ taskgroup = [y \in Owners |-> None]
    /\ in_taskwait = [y \in Owners |-> FALSE]
    /\ taskwait_sem = [y \in Owners |-> 0]
    /\ in_tied_task = [y \in Owners |-> FALSE]
    /\ copy_ctors_done = [x \in Tasks |-> FALSE]
    /\ depend = [x \in Tasks |-> NoDepend]
    /\ depend_hash = [y \in Owners |-> [a \in Addrs |-> {}]]
    /\ dependers = [x \in Tasks |-> <<>>]
    /\ num_dependees = [x \in Tasks |-> 0]
    /\ group = [g \in Groups |-> [prev |-> None, children |-> <<>>,
                   num_children |-> 0, in_taskgroup_wait |-> FALSE, sem |-> 0,
                   cancelled |-> FALSE, life |-> "unused"]]
    /\ tpc = [t \in Threads |-> "code"]
    /\ stack = [t \in Threads |-> <<>>]
    /\ new = [t \in Threads |-> None]
    /\ home = [y \in Owners |-> None]
    /\ after = [x \in Tasks |-> {}]

TGoto(t, l) == tpc' = [tpc EXCEPT ![t] = l]

\* thr->task
Cur(t) == IF stack[t] = <<>> THEN t ELSE Last(stack[t]).task

Context(t) == Last(stack[t]).ctx

InCode(t) == tpc[t] = "code" /\ TB!InUserCode(t)

Uses(c) == c \in region.constructs

\* "If parallel or taskgroup has been cancelled": g is the task's group.
Cancelled(g) == generation.cancelled \/ (g # None /\ group[g].cancelled)

Push(t, x, c) == stack' = [stack EXCEPT ![t] = Append(@, [task |-> x, ctx |-> c])]

Pop(t) == stack' = [stack EXCEPT ![t] = Front(@)]
-----------------------------------------------------------------------------
(* GOMP_task.                                                              *)

\* depend(out) conflicts with every earlier clause on the address, depend(in)
\* with earlier depend(out) ones: the siblings a task with clauses d must wait
\* for, found in the hash table of its parent p.
\* mutant: a clause is compared with those of its own kind
ConflictingSameKind(p, d) ==
    {y \in Tasks : \E a \in Addrs : y \in depend_hash[p][a] /\ d[a] = depend[y][a]}

Conflicting(p, d) ==
    {y \in Tasks : \E a \in Addrs :
        /\ y \in depend_hash[p][a]
        /\ \/ d[a] = "out"
           \/ d[a] = "in" /\ depend[y][a] = "out"}

\* The siblings with a conflicting clause that are not finished, whatever the
\* hash table says: what depend clauses promise the program.
MustFollow(p, d) ==
    {y \in Tasks :
        /\ parent[y] = p /\ status[y] \in {"blocked", "queued", "running"}
        /\ \E a \in Addrs : /\ "no" \notin {d[a], depend[y][a]}
                            /\ "out" \in {d[a], depend[y][a]}}

\* mutant: an undeferred task does not look for conflicts
OvertakesNever(p, d) == FALSE

Overtakes(p, d) == Conflicting(p, d) # {}

\* The entry of GOMP_task, without the lock: nothing in a cancelled region;
\* run at once ("inline") if the if clause says so, the task is final or the
\* team has too many tasks, but not if it would overtake a sibling; else
\* allocate and initialise a task to defer.  FreshTask is what malloc returns.
FreshTask == CHOOSE x \in region.tasks : kind[x] = "unused"

GroupOfNobody(t) == None   \* mutant: taskgroup is left as gomp_init_task sets it

GroupOfNew(t) == taskgroup[Cur(t)]

InitTask(t, x, d) ==
    /\ parent' = [parent EXCEPT ![x] = Cur(t)]
    /\ taskgroup' = [taskgroup EXCEPT ![x] = GroupOfNew(t)]
    /\ home' = [home EXCEPT ![x] = taskgroup[Cur(t)]]
    /\ in_tied_task' = [in_tied_task EXCEPT ![x] = in_tied_task[Cur(t)]]
    /\ depend' = [depend EXCEPT ![x] = d]

GompTask(t) ==
    /\ InCode(t) /\ Uses(IF stack[t] = <<>> THEN "task" ELSE "nested")
    /\ TB!Skips(t) => stack[t] # <<>>
    /\ ~Cancelled(taskgroup[Cur(t)])
    /\ \E x \in region.tasks : kind[x] = "unused"
    /\ \E undeferred \in {FALSE} \cup {b \in {TRUE} : Uses("inline")},
          copyfn \in {FALSE} \cup {b \in {TRUE} : Uses("copyfn")},
          d \in {e \in [Addrs -> {"no", "in", "out"}] :
                    \A a \in Addrs : e[a] \in IF a \in region.addrs
                                               THEN region.clauses ELSE {"no"}} :
          LET x == FreshTask
              atOnce == undeferred \/ task_count > region.throttle
          IN /\ InitTask(t, x, d)
             /\ atOnce /\ d # NoDepend => task_lock = None
             /\ after' = [after EXCEPT ![x] = MustFollow(Cur(t), d)]
             /\ IF atOnce /\ ~Overtakes(Cur(t), d)
                THEN /\ Push(t, x, "inline")
                     /\ kind' = [kind EXCEPT ![x] = "iffalse"]
                     /\ UNCHANGED <<copy_ctors_done, new, tpc>>
                ELSE /\ kind' = [kind EXCEPT ![x] = "waiting"]
                     /\ copy_ctors_done' = [copy_ctors_done EXCEPT ![x] = copyfn]
                     /\ new' = [new EXCEPT ![t] = x]
                     /\ TGoto(t, "defer")
                     /\ UNCHANGED stack
    /\ UNCHANGED <<tbVars, task_queue, children, in_taskwait, taskwait_sem,
                   depend_hash, dependers, num_dependees, group>>

\* x enters the parent's, the group's and the team's list.
LinkIn(x, p, g) ==
    /\ children' = [children EXCEPT ![p] = <<x>> \o @]
    /\ task_queue' = Append(task_queue, x)
    /\ group' = IF g = None THEN group
                ELSE [group EXCEPT ![g].children = <<x>> \o @,
                                   ![g].num_children = @ + 1]

\* The hash chain of an address: a new depend(out) replaces the older one.
EnterHash(h, x) ==
    [a \in Addrs |->
        CASE depend[x][a] = "no"  -> h[a]
          [] depend[x][a] = "in"  -> h[a] \cup {x}
          [] depend[x][a] = "out" -> {y \in h[a] : depend[y][a] = "in"} \cup {x}]

\* mutant: a sibling named in two clauses counts twice
DependeesPerClause(p, d) ==
    Cardinality({ya \in Tasks \X Addrs :
        ya[1] \in depend_hash[p][ya[2]] /\ ya[1] \in Conflicting(p, d)})

Dependees(p, d) == Cardinality(Conflicting(p, d))

\* x waits for siblings: it is in no list yet.
CountIn(g) == group' = IF g = None THEN group
                       ELSE [group EXCEPT ![g].num_children = @ + 1]

\* The section of GOMP_task that defers a task.
Defer(t) ==
    /\ tpc[t] = "defer" /\ task_lock = None
    /\ LET x == new[t]
           p == Cur(t)
           g == taskgroup[x]
           preds == Conflicting(p, depend[x])
       IN IF Cancelled(g) /\ ~copy_ctors_done[x]
          THEN /\ kind' = [kind EXCEPT ![x] = "gone"]
               /\ UNCHANGED <<tbVars, task_queue, children, group, depend_hash,
                              dependers, num_dependees>>
          ELSE /\ depend_hash' = [depend_hash EXCEPT ![p] = EnterHash(@, x)]
               /\ dependers' = [y \in Tasks |-> IF y \in preds
                                  THEN Append(dependers[y], x) ELSE dependers[y]]
               /\ num_dependees' = [num_dependees EXCEPT ![x] = Dependees(p, depend[x])]
               /\ TB!CreateTask(t, x)
               /\ IF preds # {}
                  THEN /\ status'[x] = "blocked"
                       /\ CountIn(g)
                       /\ UNCHANGED <<children, task_queue>>
                  ELSE /\ status'[x] = "queued"
                       /\ do_wake'[t] =
                             IF task_running_count
                                + (IF in_tied_task[p] THEN 0 ELSE 1) < TB!nthreads
                             THEN 1 ELSE 0
                       /\ LinkIn(x, p, g)
               /\ UNCHANGED kind
    /\ new' = [new EXCEPT ![t] = None]
    /\ TGoto(t, "code")
    /\ UNCHANGED <<parent, in_taskwait, taskwait_sem, taskgroup, in_tied_task,
                   copy_ctors_done, depend, home, after, stack>>
-----------------------------------------------------------------------------
(* Starting a task from a list.                                            *)

\* mutant: the started task leaves the list
RotateOff(s, x) == IF s # <<>> /\ Head(s) = x THEN Tail(s) ELSE s

Rotate(s, x) == IF s # <<>> /\ Head(s) = x THEN Append(Tail(s), x) ELSE s

Dequeue(x) == RemoveFirst(task_queue, x)

\* gomp_task_run_pre: the pointers move past x, which leaves the queue.
RunPre(x) ==
    /\ children' = IF parent[x] = None THEN children
                   ELSE [children EXCEPT ![parent[x]] = Rotate(@, x)]
    /\ group' = IF taskgroup[x] = None THEN group
                ELSE [group EXCEPT ![taskgroup[x]].children = Rotate(@, x)]
    /\ task_queue' = Dequeue(x)
    /\ kind' = [kind EXCEPT ![x] = "tied"]

\* gomp_task_run_pre returns true: the task is finished without being run.
Skipped(x) == Cancelled(taskgroup[x]) /\ ~copy_ctors_done[x]

\* The step of a waiting loop that starts x: run it unlocked, or finish it.
StartTask(t, x, c) ==
    /\ RunPre(x)
    /\ TB!WaitTake(t) /\ status'[x] = "running"
    /\ task_lock' = IF Skipped(x) THEN t ELSE None
    /\ Push(t, x, c)
    /\ TGoto(t, IF Skipped(x) THEN "finish1" ELSE "code")
    /\ UNCHANGED <<parent, in_taskwait, taskwait_sem, depend_hash, dependers,
                   num_dependees, bodyVars, new>>
-----------------------------------------------------------------------------
(* GOMP_taskwait.                                                          *)

\* The first read of children is unlocked; NULL returns at once, no step.
Taskwait(t) ==
    /\ InCode(t) /\ Uses("taskwait")
    /\ children[Cur(t)] # <<>>
    /\ TB!WaitLock(t)
    /\ TGoto(t, "taskwait")
    /\ UNCHANGED <<listVars, bodyVars, stack, new>>

TaskwaitLoop(t) ==
    /\ tpc[t] = "taskwait"
    /\ LET y == Cur(t)
       IN \/ /\ children[y] # <<>> /\ kind[Head(children[y])] = "waiting"
             /\ StartTask(t, Head(children[y]), "taskwait")
          \/ /\ children[y] # <<>> /\ kind[Head(children[y])] # "waiting"
             /\ in_taskwait' = [in_taskwait EXCEPT ![y] = TRUE]
             /\ TB!WaitUnlock(t) /\ UNCHANGED do_wake
             /\ TGoto(t, "taskwaitsleep")
             /\ UNCHANGED <<task_queue, kind, parent, children, taskwait_sem,
                            depend_hash, dependers, num_dependees, group,
                            bodyVars, stack, new>>
          \/ /\ children[y] = <<>>
             /\ TB!WaitUnlock(t) /\ do_wake'[t] = 0
             /\ TGoto(t, "code")
             /\ UNCHANGED <<listVars, bodyVars, stack, new>>

\* gomp_sem_wait, then the lock again.
TaskwaitWake(t) ==
    /\ tpc[t] = "taskwaitsleep" /\ taskwait_sem[Cur(t)] > 0
    /\ TB!WaitLock(t)
    /\ taskwait_sem' = [taskwait_sem EXCEPT ![Cur(t)] = @ - 1]
    /\ TGoto(t, "taskwait")
    /\ UNCHANGED <<task_queue, kind, parent, children, in_taskwait, depend_hash,
                   dependers, num_dependees, group, bodyVars, stack, new>>
-----------------------------------------------------------------------------
(* Taskgroups.                                                             *)

TaskgroupStart(t) ==
    /\ InCode(t)
    /\ TB!Skips(t) => stack[t] # <<>>
    /\ \E g \in region.groups : group[g].life = "unused"
    /\ LET g == CHOOSE g \in region.groups : group[g].life = "unused"
       IN /\ group' = [group EXCEPT ![g] = [prev |-> taskgroup[Cur(t)],
               children |-> <<>>, num_children |-> 0,
               in_taskgroup_wait |-> FALSE, sem |-> 0, cancelled |-> FALSE,
               life |-> "open"]]
          /\ taskgroup' = [taskgroup EXCEPT ![Cur(t)] = g]
    /\ UNCHANGED <<tbVars, task_queue, kind, parent, children, in_taskwait,
                   taskwait_sem, depend_hash, dependers, num_dependees,
                   in_tied_task, copy_ctors_done, depend, home, after, tpc,
                   stack, new>>

InOwnGroup(t) == taskgroup[Cur(t)] # home[Cur(t)]

\* The label "finish": back to the enclosing group, free this one.
FreeGroup(t, g) ==
    /\ taskgroup' = [taskgroup EXCEPT ![Cur(t)] = group[g].prev]
    /\ group' = [group EXCEPT ![g].life = "freed"]
    /\ UNCHANGED <<task_queue, kind, parent, children, in_taskwait,
                   taskwait_sem, depend_hash, dependers, num_dependees,
                   in_tied_task, copy_ctors_done, depend, home, after, stack, new>>

\* The first read of num_children is unlocked.
TaskgroupEnd(t) ==
    /\ InCode(t) /\ InOwnGroup(t)
    /\ LET g == taskgroup[Cur(t)]
       IN IF group[g].num_children = 0
          THEN FreeGroup(t, g) /\ UNCHANGED <<tbVars, tpc>>
          ELSE /\ TB!WaitLock(t)
               /\ TGoto(t, "taskgroup")
               /\ UNCHANGED <<listVars, bodyVars, stack, new>>

TaskgroupLoop(t) ==
    /\ tpc[t] = "taskgroup"
    /\ LET g == taskgroup[Cur(t)]
           waiting == group[g].children # <<>>
                      /\ kind[Head(group[g].children)] = "waiting"
       IN \/ /\ waiting
             /\ StartTask(t, Head(group[g].children), "group")
          \/ /\ ~waiting /\ (group[g].children # <<>> \/ group[g].num_children # 0)
             /\ group' = [group EXCEPT ![g].in_taskgroup_wait = TRUE]
             /\ TB!WaitUnlock(t) /\ UNCHANGED do_wake
             /\ TGoto(t, "taskgroupsleep")
             /\ UNCHANGED <<task_queue, kind, parent, children, in_taskwait,
                            taskwait_sem, depend_hash, dependers,
                            num_dependees, bodyVars, stack, new>>
          \/ /\ group[g].children = <<>> /\ group[g].num_children = 0
             /\ TB!WaitUnlock(t) /\ do_wake'[t] = 0
             /\ TGoto(t, "code")
             /\ FreeGroup(t, g)

TaskgroupWake(t) ==
    /\ tpc[t] = "taskgroupsleep"
    /\ LET g == taskgroup[Cur(t)]
       IN /\ group[g].sem > 0
          /\ group' = [group EXCEPT ![g].sem = @ - 1]
    /\ TB!WaitLock(t)
    /\ TGoto(t, "taskgroup")
    /\ UNCHANGED <<task_queue, kind, parent, children, in_taskwait,
                   taskwait_sem, depend_hash, dependers, num_dependees,
                   bodyVars, stack, new>>

\* GOMP_cancel (GOMP_CANCEL_TASKGROUP)
CancelTaskgroup(t) ==
    /\ region.cancellable /\ Uses("canceltaskgroup") /\ InCode(t)
    /\ taskgroup[Cur(t)] # None /\ ~group[taskgroup[Cur(t)]].cancelled
    /\ task_lock = None
    /\ group' = [group EXCEPT ![taskgroup[Cur(t)]].cancelled = TRUE]
    /\ UNCHANGED <<tbVars, task_queue, kind, parent, children, in_taskwait,
                   taskwait_sem, depend_hash, dependers, num_dependees,
                   bodyVars, tpc, stack, new>>
-----------------------------------------------------------------------------
(* Finishing a task: the loop body behind the label finish_cancelled.      *)

\* A program without orphans waits for its depending children.
Awaited(x) == ~region.orphans /\ \E y \in Tasks : parent[y] = x /\ status[y] = "blocked"

\* The task's code has returned to the loop that ran it, which locks again.
TaskReturn(t) ==
    /\ InCode(t) /\ stack[t] # <<>> /\ Context(t) # "inline"
    /\ ~InOwnGroup(t) /\ ~Awaited(Cur(t))
    /\ IF Context(t) = "barrier" THEN TB!TaskEnd(t) ELSE TB!WaitLock(t)
    /\ TGoto(t, "finish1")
    /\ UNCHANGED <<listVars, bodyVars, stack, new>>

\* gomp_clear_parent: the children of x that still are in its list lose it.
ClearParent(x) == [y \in Tasks |-> IF Contains(children[x], y) THEN None
                                                              ELSE parent[y]]

\* The elements of a list that are in S, in the list's order.
Among(s, S) ==
    LET upTo[n \in 0..Len(s)] ==
            IF n = 0 THEN <<>>
            ELSE IF s[n] \in S THEN Append(upTo[n - 1], s[n]) ELSE upTo[n - 1]
    IN upTo[Len(s)]

\* gomp_task_run_post_handle_depend: the siblings that waited for x only.
Released(x) == Among(dependers[x], {y \in Tasks : num_dependees[y] = 1})

InGroup(s, g) == Among(s, {y \in Tasks : taskgroup[y] = g})

\* r: a group with members released by a task's end, its waiter woken.
GroupReceives(r, new_children) ==
    IF new_children = <<>> THEN r
    ELSE [r EXCEPT !.children = Reverse(new_children) \o @,
                   !.in_taskgroup_wait = FALSE,
                   !.sem = IF r.in_taskgroup_wait THEN @ + 1 ELSE @]

\* Wake p if it sleeps in GOMP_taskwait and something happened to its list.
PostTaskwaitNot(p, changed) ==     \* mutant: only the flag is reset
    /\ in_taskwait' = IF changed THEN [in_taskwait EXCEPT ![p] = FALSE] ELSE in_taskwait
    /\ UNCHANGED taskwait_sem

PostTaskwait(p, changed) ==
    IF changed /\ in_taskwait[p]
    THEN /\ in_taskwait' = [in_taskwait EXCEPT ![p] = FALSE]
         /\ taskwait_sem' = [taskwait_sem EXCEPT ![p] = @ + 1]
    ELSE UNCHANGED <<in_taskwait, taskwait_sem>>

\* gomp_task_run_post_handle_depend_hash; mutant: x stays
KeepHash(p, x) == depend_hash

LeaveHash(p, x) ==
    IF p = None THEN depend_hash
    ELSE [depend_hash EXCEPT ![p] = [a \in Addrs |-> @[a] \ {x}]]

\* The guarded decrement of num_children.
Decrement(n) == IF n > 1 THEN n - 1 ELSE 0

\* First part: release the depending tasks, then take x off its parent's list,
\* up to and including the store of NULL for the last child.  The loop of
\* GOMP_taskgroup_end takes x off its group's list before that.
Finish1(t) ==
    /\ tpc[t] = "finish1"
    /\ LET x == Cur(t)
           c == Context(t)
           p == parent[x]
           g == taskgroup[x]
           rel == Released(x)
       IN /\ depend_hash' = LeaveHash(p, x)
          /\ num_dependees' = [y \in Tasks |->
                IF Contains(dependers[x], y) THEN num_dependees[y] - 1
                                             ELSE num_dependees[y]]
          /\ dependers' = [dependers EXCEPT ![x] = <<>>]
          /\ task_queue' = task_queue \o rel
          /\ group' = [h \in Groups |->
                LET r == GroupReceives(group[h], InGroup(rel, h))
                IN IF c = "group" /\ h = g
                   THEN [r EXCEPT !.children = RemoveFirst(@, x),
                                  !.num_children = @ - 1]
                   ELSE r]
          /\ IF p = None
             THEN /\ UNCHANGED <<children, in_taskwait, taskwait_sem>>
                  /\ TGoto(t, "finish2")
             ELSE /\ children' = [children EXCEPT
                        ![p] = RemoveFirst(Reverse(rel) \o @, x)]
                  /\ PostTaskwait(p, rel # <<>>)
                  /\ TGoto(t, IF children'[p] = <<>> /\ c # "taskwait"
                              THEN "finish2null" ELSE "finish2")
    /\ UNCHANGED <<tbVars, kind, parent, bodyVars, stack, new>>

\* Second part: after a NULL store wake the parent's taskwait; the children of
\* x lose their parent; count x out of its group.
Finish2(t) ==
    /\ tpc[t] \in {"finish2", "finish2null"}
    /\ LET x == Cur(t)
           p == parent[x]
           g == taskgroup[x]
       IN /\ PostTaskwait(p, tpc[t] = "finish2null")
          /\ parent' = ClearParent(x)
          /\ group' = IF g = None \/ Context(t) = "group" THEN group
                      ELSE [group EXCEPT ![g].num_children = Decrement(@)]
    /\ TGoto(t, "finish3")
    /\ UNCHANGED <<tbVars, task_queue, kind, children, depend_hash, dependers,
                   num_dependees, bodyVars, stack, new>>

\* mutant: the waiter is woken by the count only
LeaveGroupSilently(x) ==
    LET g == taskgroup[x]
    IN IF g = None THEN group
       ELSE [group EXCEPT ![g].children = RemoveFirst(@, x)]

\* x leaves its group's list, the last one wakes the group's waiter.
LeaveGroup(x) ==
    LET g == taskgroup[x]
        rest == RemoveFirst(group[g].children, x)
        wakes == rest = <<>> /\ group[g].children # <<>>
                 /\ group[g].in_taskgroup_wait
    IN IF g = None THEN group
       ELSE [group EXCEPT ![g].children = rest,
                          ![g].in_taskgroup_wait = @ /\ ~wakes,
                          ![g].sem = IF wakes THEN @ + 1 ELSE @]

\* The tasks TeamBarrier sees released by the task being finished.
JustReleased == {y \in Tasks : status[y] = "blocked" /\ num_dependees[y] = 0}

\* do_wake of GOMP_taskwait and GOMP_taskgroup_end, run by task y.
DoWake(t, y) ==
    LET n == Cardinality(JustReleased)
        idle == TB!nthreads - task_running_count
                - (IF in_tied_task[y] THEN 0 ELSE 1)
    IN IF n > 1 THEN TB!ToWake(idle, n) ELSE do_wake[t]

\* Third part: the group's list, the counters, and x is freed.
Finish3(t) ==
    /\ tpc[t] = "finish3"
    /\ LET x == Cur(t)
           c == Context(t)
       IN /\ group' = IF c = "group" THEN group ELSE LeaveGroup(x)
          /\ kind' = [kind EXCEPT ![x] = "gone"]
          /\ Pop(t)
          /\ IF c = "barrier"
             THEN TB!BarrierFinish(t) /\ TGoto(t, "code")
             ELSE /\ TB!WaitFinish(t)
                  /\ do_wake'[t] = DoWake(t, Cur(t)')
                  /\ TGoto(t, IF c = "taskwait" THEN "taskwait" ELSE "taskgroup")
          /\ status'[x] = "done"
          /\ {y \in Tasks : status[y] = "blocked" /\ status'[y] = "queued"}
                = JustReleased
    /\ UNCHANGED <<task_queue, parent, children, in_taskwait, taskwait_sem,
                   depend_hash, dependers, num_dependees, bodyVars, new>>

\* The end of an undeferred task in GOMP_task: children that are still there
\* lose their parent; whether there are any is read without the lock.
InlineEnd(t) ==
    /\ InCode(t) /\ stack[t] # <<>> /\ Context(t) = "inline"
    /\ ~InOwnGroup(t) /\ ~Awaited(Cur(t))
    /\ LET x == Cur(t)
       IN /\ children[x] # <<>> => task_lock = None
          /\ parent' = ClearParent(x)
          /\ kind' = [kind EXCEPT ![x] = "gone"]
    /\ Pop(t)
    /\ UNCHANGED <<tbVars, task_queue, children, in_taskwait, taskwait_sem,
                   depend_hash, dependers, num_dependees, group, bodyVars, tpc,
                   new>>
-----------------------------------------------------------------------------
(* Barriers.                                                               *)

ownVars == <<listVars, bodyVars, tpc, stack, new>>

\* The top of the loop of gomp_barrier_handle_tasks takes the queue's head.
BarrierLoop(t) ==
    /\ TB!LoopTop(t)
    /\ IF task_queue = <<>> THEN UNCHANGED ownVars
       ELSE LET x == Head(task_queue)
            IN /\ btask'[t] = x
               /\ RunPre(x)
               /\ pc'[t] = "cancelled" <=> Skipped(x)
               /\ in_tied_task' = [in_tied_task EXCEPT ![x] = @ \/ ~Skipped(x)]
               /\ Push(t, x, "barrier")
               /\ TGoto(t, IF Skipped(x) THEN "finish1" ELSE "code")
               /\ UNCHANGED <<parent, in_taskwait, taskwait_sem, taskgroup,
                              copy_ctors_done, depend, depend_hash, dependers,
                              num_dependees, home, after, new>>

\* Steps that do not touch a task's fields.
BarrierStep(t) ==
    /\ \/ TB!Arrive(t) \/ TB!LastThread(t) \/ TB!Complete(t)
       \/ TB!WakeAndLeave(t) \/ TB!DoWait(t) \/ TB!Load(t) \/ TB!Reload(t)
       \/ TB!HandleTasks(t) \/ TB!PostWake(t) \/ TB!DoneWake(t) \/ TB!Relock(t)
       \/ TB!UserWake(t) \/ TB!BarrierCancel(t) \/ TB!CancelWake(t)
    /\ UNCHANGED ownVars

Implicit(t) == InCode(t) /\ stack[t] = <<>> /\ taskgroup[t] = None

EnterBarrier(t) == Implicit(t) /\ TB!LoadState(t) /\ UNCHANGED ownVars

Cancellation(t) ==
    /\ Implicit(t)
    /\ TB!CancelTeam(t) \/ TB!CancellationPoint(t)
    /\ UNCHANGED ownVars

Interrupted(t) == TB!Interrupted(t) /\ UNCHANGED ownVars
-----------------------------------------------------------------------------
RuntimeStep(t) ==
    \/ BarrierStep(t) \/ BarrierLoop(t) \/ Defer(t) \/ TaskwaitLoop(t)
    \/ TaskwaitWake(t) \/ TaskgroupLoop(t) \/ TaskgroupWake(t)
    \/ Finish1(t) \/ Finish2(t) \/ Finish3(t)

\* Steps that end a stretch of user code.
Ending(t) ==
    \/ EnterBarrier(t) \/ TaskReturn(t) \/ InlineEnd(t) \/ TaskgroupEnd(t)
    \/ Awaited(Cur(t)) /\ Taskwait(t)

Choice(t) ==
    \/ GompTask(t) \/ Taskwait(t) \/ TaskgroupStart(t) \/ CancelTaskgroup(t)
    \/ Cancellation(t) \/ Interrupted(t)

Next == \E t \in Threads : RuntimeStep(t) \/ Ending(t) \/ Choice(t)

Spec == Init /\ [][Next]_vars

(* As in TeamBarrier: threads that can run do, user code ends.  Nobody     *)
(* must create a task, wait for one or cancel.                             *)
FairSpec ==
    Spec /\ \A t \in Threads : WF_vars(RuntimeStep(t)) /\ SF_vars(Ending(t))
-----------------------------------------------------------------------------
Positions == {"code", "defer", "taskwait", "taskwaitsleep", "taskgroup",
              "taskgroupsleep", "finish1", "finish2", "finish2null", "finish3"}

TypeOK ==
    /\ task_queue \in Seq(Tasks)
    /\ kind \in [Tasks -> Kinds]
    /\ parent \in [Tasks -> Owners \cup {None}]
    /\ children \in [Owners -> Seq(Tasks)]
    /\ taskgroup \in [Owners -> Groups \cup {None}]
    /\ in_taskwait \in [Owners -> BOOLEAN]
    /\ taskwait_sem \in [Owners -> {0, 1}]
    /\ in_tied_task \in [Owners -> BOOLEAN]
    /\ copy_ctors_done \in [Tasks -> BOOLEAN]
    /\ depend \in [Tasks -> [Addrs -> {"no", "in", "out"}]]
    /\ depend_hash \in [Owners -> [Addrs -> SUBSET Tasks]]
    /\ dependers \in [Tasks -> Seq(Tasks)]
    /\ num_dependees \in [Tasks -> Nat]
    /\ group \in [Groups -> [prev : Groups \cup {None}, children : Seq(Tasks),
          num_children : Nat, in_taskgroup_wait : BOOLEAN, sem : {0, 1},
          cancelled : BOOLEAN, life : {"unused", "open", "freed"}]]
    /\ tpc \in [Threads -> Positions]
    /\ stack \in [Threads -> Seq([task : Tasks, ctx : Contexts])]
    /\ new \in [Threads -> Tasks \cup {None}]

Unfinished(x) == status[x] \in {"blocked", "queued", "running"}

\* What GOMP_taskwait relies on when it returns after one unlocked read: a
\* task whose children pointer is NULL has no unfinished child, not even one
\* that still waits for a sibling.
NullMeansDone ==
    \A t \in Threads : tpc[t] = "code" /\ children[Cur(t)] = <<>> =>
        \A x \in Tasks : parent[x] = Cur(t) /\ Unfinished(x) =>
            \E s \in Threads :
                Cur(s) = x /\ tpc[s] \in {"finish2", "finish2null", "finish3"}

\* What GOMP_taskgroup_end relies on: when num_children reads 0, all tasks of
\* the group have run, descendants included.
ZeroMeansDone ==
    \A t \in Threads : InOwnGroup(t) /\ group[taskgroup[Cur(t)]].num_children = 0 =>
        \A x \in Tasks : home[x] = taskgroup[Cur(t)] /\ Unfinished(x) =>
            \E s \in Threads :
                Cur(s) = x /\ tpc[s] \in {"finish2", "finish2null", "finish3"}

\* No task starts before the earlier siblings its depend clauses name are
\* finished, although the hash table keeps only the latest depend(out) of an
\* address and forgets finished tasks.
DependencesHold ==
    \A x \in Tasks : status[x] = "running" \/ kind[x] = "iffalse" =>
        \A y \in after[x] : ~Unfinished(y)

\* No task is forgotten: the queue holds the queued tasks once, as many as
\* task_queued_count says, and num_dependees of a blocked task counts the
\* unfinished siblings whose end will release it, of which there is one at least.
NoTaskForgotten ==
    task_lock = None =>
        /\ ToSet(task_queue) = {x \in Tasks : status[x] = "queued"}
        /\ Len(task_queue) = task_queued_count
        /\ \A x \in Tasks : status[x] = "blocked" =>
              LET ys == {y \in Tasks : Contains(dependers[y], x)}
              IN /\ num_dependees[x] = Cardinality(ys) /\ ys # {}
                 /\ \A y \in ys : Unfinished(y)

\* A task that sleeps in GOMP_taskwait without a post on its way has no queued
\* child it could run instead: "All tasks we are waiting for are already
\* running in other threads", though only the head of the list was looked at.
\* Not so in a region with taskgroups, whose ends start tasks out of the order
\* of the list: a queued child may then stand behind one that runs.
SleepsOnlyWhenBusy ==
    region.groups = {} =>
        \A t \in Threads : tpc[t] = "taskwaitsleep" /\ task_lock = None
                            /\ taskwait_sem[Cur(t)] = 0 =>
            \A x \in ToSet(children[Cur(t)]) : status[x] # "queued"

Freed(y) == y \in Tasks /\ kind[y] = "gone"

\* x is at its end, at one of the places ps.
EndsAt(x, ps) == \E s \in Threads : Cur(s) = x /\ tpc[s] \in ps

\* In programs whose tasks wait for their blocked children (no orphans), what is
\* freed, and the frame of an undeferred task that has returned, is in no list, hash
\* chain or pointer that the runtime still follows, but for two uses after the free,
\* each by one finishing task.  Behind the store of NULL the last child of an
\* undeferred task reads parent->in_taskwait, when the store may have let the parent
\* return (task.c:592, task.c:202); from "finish3" on it does not follow the pointer.
\* And behind the store of 0 to num_children the last task of a group takes itself off
\* the group's list, when GOMP_taskgroup_end may have read the 0 and freed the group
\* (task.c:617 to 630, task.c:890).
FreedIsOutOfReach ==
    /\ \A x \in Tasks : Unfinished(x) /\ Freed(parent[x]) =>
          EndsAt(x, {"finish2null", "finish3"})
    /\ \A y \in Owners : ~Freed(y) =>
          /\ \A x \in ToSet(children[y]) : ~Freed(x)
          /\ \A a \in Addrs : \A x \in depend_hash[y][a] : ~Freed(x)
    /\ \A x \in ToSet(task_queue) : ~Freed(x)
    /\ \A g \in Groups : group[g].life = "open" =>
          /\ \A x \in ToSet(group[g].children) : ~Freed(x)
          /\ group[g].prev # None => group[group[g].prev].life = "open"
    /\ \A g \in Groups : group[g].life = "freed" =>
          \A x \in Tasks :
             x \in ToSet(group[g].children) \/ (Unfinished(x) /\ taskgroup[x] = g) =>
                EndsAt(x, {"finish3"})

\* "If parent is gone already, the hash table is freed and nothing will use
\* the hash table anymore" (task.c:561): at the end of a task with depend
\* clauses a parent pointer that is not NULL leads to a task that still exists.
GoneParentIsNull ==
    \A t \in Threads : tpc[t] = "finish1" => ~Freed(parent[Cur(t)])

\* "All tasks we are waiting for are already running in other threads. Wait
\* for them." (task.c, GOMP_taskgroup_end)
GroupWaitsForRunning ==
    \A t \in Threads : tpc[t] = "taskgroupsleep" /\ task_lock = None
                        /\ group[taskgroup[Cur(t)]].sem = 0 =>
        \A x \in Tasks : home[x] = taskgroup[Cur(t)] /\ Unfinished(x) =>
            status[x] = "running"

\* The region ends for every thread: no taskwait, taskgroup or depend clause
\* waits for ever.
RegionEnds == \A t \in Threads : <>(pc[t] = "gone")
=============================================================================
