----------------------------- MODULE MCTeamTasks ----------------------------
EXTENDS TeamTasks

CONSTANTS t1, t2, x1, x2, x3, g1, g2, a, b

TwoThreads == {t1, t2}
ThreeTasks == {x1, x2, x3}
TwoGroups == {g1, g2}
TwoAddrs == {a, b}

\* Two threads that create plain tasks; every region is a variation of it.
Plain == [team |-> TwoThreads, tasks |-> {x1, x2}, barriers |-> 0,
          cancellable |-> FALSE, groups |-> {}, addrs |-> {},
          clauses |-> {"no", "in", "out"}, throttle |-> 128,
          constructs |-> {"task"}, orphans |-> FALSE]

\* Three tasks that create tasks and wait for them.
Waits == [Plain EXCEPT !.tasks = ThreeTasks,
                       !.constructs = {"task", "nested", "taskwait"}]

\* Siblings with every combination of depend clauses: two with or without a
\* clause, three with one each; three on two addresses and one thread.
SomeDepend == [Plain EXCEPT !.addrs = {a}, !.constructs = {"task", "taskwait"}]
Depends == [SomeDepend EXCEPT !.tasks = ThreeTasks, !.clauses = {"in", "out"}]
Addresses == [SomeDepend EXCEPT !.tasks = ThreeTasks, !.team = {t1},
                                !.addrs = TwoAddrs]

\* Undeferred tasks: by an if clause, or because there are too many; with
\* dependences, or inside other tasks.
Undeferred == [Plain EXCEPT !.addrs = {a}, !.throttle = 1,
                            !.constructs = {"task", "inline", "taskwait"}]
UndeferredNested == [Undeferred EXCEPT !.addrs = {}, !.constructs = @ \cup {"nested"}]

\* Two taskgroups, nested or of different tasks.
Grouped == [Plain EXCEPT !.groups = TwoGroups, !.constructs = {"task", "nested"}]

OneGroup == [Plain EXCEPT !.groups = {g1}]

\* A taskgroup or the whole team is cancelled.
CanBeCancelled == [Plain EXCEPT !.cancellable = TRUE, !.groups = {g1},
                      !.constructs = {"task", "copyfn", "canceltaskgroup"}]
Small == [CanBeCancelled EXCEPT !.tasks = {x1}]

\* A task ends while a child of it still waits for a sibling.
Orphaned == [Plain EXCEPT !.tasks = ThreeTasks, !.addrs = {a},
                          !.constructs = {"task", "nested"}, !.orphans = TRUE]

\* One thread; a taskgroup's task depends on one outside.
OutsideGroup == [Plain EXCEPT !.team = {t1}, !.groups = {g1}, !.addrs = {a}]

SafetyRegions == {Waits, SomeDepend, Depends, Addresses, Grouped, CanBeCancelled,
                  UndeferredNested}
LiveRegions == {Undeferred, UndeferredNested, OneGroup, Small}
OrphanRegions == {Orphaned}
GroupRegions == {OutsideGroup}

\* The threads of a team are alike.
ThreadSymmetry == Permutations(TwoThreads)
=============================================================================
