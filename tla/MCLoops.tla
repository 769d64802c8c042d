------------------------------- MODULE MCLoops ------------------------------
(***************************************************************************)
(* Work sharing, one part at a time: the chain of work shares; the         *)
(* balancing of BinLPT and Smart Round-Robin, the life of a loop that uses *)
(* them; the blocks of the other schedules; and ordered loops.             *)
(***************************************************************************)
EXTENDS WorkShare, BalanceBounds, WorkloadLoop, LoopIter, Ordered

CONSTANTS t1, t2, t3

TwoThreads == {t1, t2}
ThreeThreads == {t1, t2, t3}

\* Every sequence of n constructs of the given kinds, after the first one.
Constructs(team, firsts, n, kinds, cancellable) ==
    {[team |-> team, length |-> n, cancellable |-> cancellable,
      constructs |-> [k \in 0..n |-> IF k = 0 THEN f ELSE ks[k]]] :
        f \in firsts, ks \in [1..n -> kinds]}

\* Five loops with a barrier each; every mix of four loops, with or without
\* barriers; every pair of constructs behind a combined loop; three threads in
\* constructs without a barrier at their end; loops that may be cancelled.
SomeRegions ==
    Constructs(TwoThreads, {"none"}, 5, {"loop"}, FALSE)
    \cup Constructs(TwoThreads, {"none"}, 4, {"loop", "nowait"}, FALSE)
    \cup Constructs(TwoThreads, {"loop", "nowait"}, 2, Kinds, FALSE)
    \cup Constructs(ThreeThreads, {"none"}, 2, {"nowait", "copy"}, FALSE)
    \cup Constructs(ThreeThreads, {"none"}, 3, {"nowait"}, FALSE)
    \cup Constructs(TwoThreads, {"nowait", "none"}, 3, {"loop", "nowait"}, TRUE)
-----------------------------------------------------------------------------
\* Two arrays of loads of different shape.
TwoLoads == [a |-> [i \in 0..3 |-> <<3, 1, 1, 2>>[i + 1]],
             b |-> [i \in 0..2 |-> <<1, 0, 2>>[i + 1]]]

OneLoad == [a |-> [i \in 0..3 |-> <<3, 1, 1, 2>>[i + 1]]]
-----------------------------------------------------------------------------
\* With six bits: bounds at both ends of the type and around 0, among them loops
\* without iterations and loops whose end leaves no room for a fetch-and-add.
Longs == {<<-32, -28>>, <<-31, -31>>, <<-2, 4>>, <<4, -2>>, <<3, 3>>, <<20, 25>>,
          <<27, 31>>, <<31, 27>>, <<-27, -32>>}
Ulls == {<<0, 5>>, <<3, 3>>, <<5, 0>>, <<57, 63>>, <<63, 58>>, <<47, 52>>}

LoopsOver(type, bounds) ==
    {[type |-> type, sched |-> s, start |-> b[1], end |-> b[2], incr |-> i,
      chunk |-> c, nthreads |-> n, seen |-> n] :
        s \in {"static", "dynamic", "guided"}, b \in bounds,
        i \in {-3, -2, -1, 1, 2, 3}, c \in 0..3, n \in 1..3}

\* LoopAssumption, and no loop that runs round the type in the wrong direction.
Sensible(l) ==
    LET length == IF l.incr > 0 THEN l.end - l.start ELSE l.start - l.end
        step == IF l.incr > 0 THEN l.incr ELSE -l.incr
    IN /\ l.sched # "static" => l.chunk > 0
       /\ length <= 8 /\ length + step - 1 <= LONG_MAX
       /\ \A x \in Iterations(l) : x + l.incr \in Values(l.type)

SomeSections ==
    {[type |-> "sections", sched |-> "dynamic", start |-> 1, end |-> e, incr |-> 1,
      chunk |-> 1, nthreads |-> n, seen |-> n] : e \in 2..5, n \in 1..3}

SomeLoops ==
    {l \in LoopsOver("long", Longs) \cup LoopsOver("ull", Ulls) : Sensible(l)}
        \cup SomeSections
-----------------------------------------------------------------------------
OrderedLoop(s, c, n, nowait) == [sched |-> s, chunk |-> c, n |-> n, nowait |-> nowait]

Executes(n, loops) == [nthreads |-> n, length |-> Len(loops), loops |-> loops]

Queued == {"dynamic", "guided"}

Pairs(n, firsts, seconds) == {Executes(n, <<a, b>>) : a \in firsts, b \in seconds}

\* One loop, also without iterations, by one to three threads.
OneOrdered ==
    {Executes(n, <<OrderedLoop(s, c, i, FALSE)>>) :
        n \in 1..2, s \in Queued \cup {"static"}, c \in 1..2, i \in {0, 4}}
    \cup {Executes(n, <<OrderedLoop("static", 0, i, FALSE)>>) :
             n \in 1..3, i \in {0, 2, 4}}
    \cup {Executes(3, <<OrderedLoop("dynamic", 1, 4, FALSE)>>)}

\* Two loops: what the first leaves behind in the semaphores meets the second.  (Of
\* two iterations a guided loop gives each thread one, as a dynamic one does.)  With
\* three threads there is a barrier between them only if the posts need it.
FirstLoops(ns) ==
    {OrderedLoop(s, 1, i, w) : s \in {"dynamic", "static"}, i \in ns, w \in BOOLEAN}

TwoOrdered ==
    {p \in Pairs(2, FirstLoops({0, 2}),
                    {OrderedLoop(s, 1, 3, FALSE) : s \in Queued \cup {"static"}})
           \cup Pairs(3, {l \in FirstLoops({2}) : l.nowait},
                         {OrderedLoop("dynamic", 1, 1, FALSE)})
           \cup Pairs(3, {l \in FirstLoops({2}) : ~l.nowait},
                         {OrderedLoop("static", 1, 2, FALSE)}) :
        PostsArrive(p)}

SomeOrdered == OneOrdered \cup TwoOrdered

\* A static loop that three threads reach without a barrier: from a dynamic loop of
\* which one thread gets nothing, from a static one in which thread 0 is the last.
StaticBehindNowait ==
    {Executes(3, <<OrderedLoop("dynamic", 1, 2, TRUE), OrderedLoop("static", 1, 2, FALSE)>>),
     Executes(3, <<OrderedLoop("static", 1, 4, TRUE), OrderedLoop("static", 1, 2, FALSE)>>)}

\* A static loop without iterations, then a dynamic one.
EmptyThenDynamic ==
    {Executes(2, <<OrderedLoop("static", 0, 0, FALSE),
                   OrderedLoop("dynamic", 1, 3, FALSE)>>)}

StrayPosts == StaticBehindNowait \cup EmptyThenDynamic
-----------------------------------------------------------------------------
CONSTANT Components     \* the parts that run
VARIABLE component

mcVars == <<component, workVars, balanceVars, vars, loopVars, orderedVars>>

\* A step of one of them leaves the others alone.
Only(c, A) ==
    /\ component = c /\ A
    /\ c # "work shares" => UNCHANGED workVars
    /\ c # "balance" => UNCHANGED balanceVars
    /\ c # "workload" => UNCHANGED vars
    /\ c # "iterators" => UNCHANGED loopVars
    /\ c # "ordered" => UNCHANGED orderedVars
    /\ UNCHANGED component

\* The programs of the parts that rest are any.
AnyInput == [n |-> 1, loads |-> [i \in {0} |-> 0], nthreads |-> 1, nchunks |-> 1]
AnyRegion == CHOOSE r \in Regions : TRUE
AnyLoop == CHOOSE l \in SomeSections : TRUE
AnyOrdered == CHOOSE p \in OneOrdered : TRUE

Resting ==
    /\ component # "work shares" => region = AnyRegion
    /\ component # "balance" => input = AnyInput
    /\ component # "ordered" => program = AnyOrdered

MCInit ==
    /\ component \in Components /\ Resting
    /\ ShareInit /\ BalanceInit /\ Init /\ OrderedInit
    /\ IF component = "iterators" THEN LoopInitial ELSE loop = AnyLoop /\ LoopBegins

MCNext ==
    \/ Only("work shares", ShareNext)
    \/ Only("balance", BalanceBoth)
    \/ Only("workload", Next)
    \/ Only("iterators", LoopNext)
    \/ Only("ordered", OrderedNext)

\* The fairness of ShareFairSpec and OrderedSpec.
MCSpec ==
    /\ MCInit /\ [][MCNext]_mcVars
    /\ WF_mcVars(Only("work shares", TeamEnd \/ FiniChain))
    /\ \A t \in Threads : WF_mcVars(Only("work shares", t \in Team /\ ShareStep(t)))
    /\ \A t \in 0..3 : WF_mcVars(Only("ordered", t \in Ring /\ OrderedStep(t)))

\* A region with its constructs and an ordered loop come to their ends.
ConstructsEnd ==
    /\ component = "work shares" => EverybodyEnds
    /\ component = "ordered" => OrderedEnds
=============================================================================
