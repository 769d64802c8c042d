------------------------------- MODULE Ordered ------------------------------
(***************************************************************************)
(* Loops with ordered sections (ordered.c, the ordered part of loop.c).    *)
(* The threads that hold a block of a dynamic or guided loop form a ring   *)
(* in the work share; static loops go round by thread number.  Who may     *)
(* enter its section next is told through one semaphore per thread, which  *)
(* belongs to the team and not to the loop.                                *)
(*                                                                         *)
(* A program is a team and the ordered loops that it executes one after    *)
(* the other, over 0..n - 1, with or without a barrier at the end.  In     *)
(* every iteration a thread may execute the section or leave it out.       *)
(* What the code does under ws->lock is one step, and so is the creation   *)
(* of a work share; gomp_ordered_sync, which takes no lock, is three.      *)
(***************************************************************************)
EXTENDS Iterators

CONSTANT OrderedPrograms

ASSUME OrderedAssumption ==
    \A p \in OrderedPrograms :
        /\ p.nthreads \in Nat \ {0} /\ p.length \in Nat
        /\ \A k \in 1..p.length :
              /\ {p.loops[k].n, p.loops[k].chunk} \subseteq -LONG_MAX - 1..LONG_MAX
              /\ p.loops[k].sched \in {"static", "dynamic", "guided"}
              /\ p.loops[k].sched # "static" => p.loops[k].chunk > 0

VARIABLES program,
          pos,              \* pos[t]: where thread t is
          inLoop,           \* inLoop[t]: its loop; behind the last one, length + 1
          iteration, behind,    \* iteration[t]..behind[t] - 1: the rest of its block
          then,             \* then[t]: what it does when gomp_ordered_sync returns
          trip,             \* thr->ts.static_trip
          wshare,           \* the work share of each loop
          ring,             \* owner, cur, num_used and team_ids of each loop
          ordered_release,
          latest            \* history: the latest iteration of a loop in its section
orderedVars == <<program, pos, inLoop, iteration, behind, then, trip, wshare, ring,
                 ordered_release, latest>>

Ring == 0..program.nthreads - 1
LoopOf(t) == program.loops[inLoop[t]]
OpenShare == [next |-> -1]      \* nobody has come to the loop yet

\* gomp_init_work_share (ws, true, nthreads)
NewRing(n) ==
    [owner |-> -1, cur |-> 0, num_used |-> 0, team_ids |-> [i \in 0..n - 1 |-> 0]]

OrderedInit ==
    /\ program \in OrderedPrograms
    /\ pos = [t \in Ring |-> "loop"]
    /\ inLoop = [t \in Ring |-> 1]
    /\ iteration = [t \in Ring |-> 0] /\ behind = [t \in Ring |-> 0]
    /\ then = [t \in Ring |-> "none"]
    /\ trip = [t \in Ring |-> 0]
    /\ wshare = [k \in 1..program.length |-> OpenShare]
    /\ ring = [k \in 1..program.length |-> NewRing(program.nthreads)]
    /\ ordered_release = [t \in Ring |-> 0]
    /\ latest = [k \in 1..program.length |-> -1]

\* gomp_sem_post
Post(t) == ordered_release' = [ordered_release EXCEPT ![t] = @ + 1]
-----------------------------------------------------------------------------
(* The ring: r is a ring, n the size of the team, t the thread.            *)

Behind(r, i, n) == (r.cur + i) % n

\* gomp_ordered_first
Enqueue(r, t, n) ==
    [r EXCEPT !.team_ids[Behind(r, r.num_used, n)] = t, !.num_used = @ + 1]

\* mutant: the head of the ring stays where it is
DropHeadInPlace(r, n) == [r EXCEPT !.owner = -1, !.num_used = @ - 1]

\* gomp_ordered_last
DropHead(r, n) ==
    [r EXCEPT !.owner = -1, !.num_used = @ - 1,
              !.cur = IF r.num_used > 1 THEN Behind(r, 1, n) ELSE @]

\* gomp_ordered_next: to the end of the ring; in a full one that is where t is.
Rotate(r, t, n) ==
    IF r.num_used = 1 THEN [r EXCEPT !.owner = -1]
    ELSE [r EXCEPT !.owner = -1, !.cur = Behind(r, 1, n),
                   !.team_ids = IF r.num_used < n
                                THEN [@ EXCEPT ![Behind(r, r.num_used, n)] = t] ELSE @]
-----------------------------------------------------------------------------
(* Blocks.                                                                 *)

Share(t) ==
    IF wshare[inLoop[t]] # OpenShare THEN wshare[inLoop[t]]
    ELSE LoopInit(0, LoopOf(t).n, 1, LoopOf(t).sched, LoopOf(t).chunk, program.nthreads)

StaticAnswer(t, ws, before) ==
    StaticBlock(ws, TripCount(ws), program.nthreads, t, before)

\* gomp_iter_dynamic_next_locked, gomp_iter_guided_next_locked
NextBlock(ws) ==
    IF ws.sched = "dynamic" THEN DynamicEnd(ws, ws.next)
    ELSE GuidedEnd(ws, ws.next, program.nthreads)

Hold(t, first, last) ==
    /\ iteration' = [iteration EXCEPT ![t] = first]
    /\ behind' = [behind EXCEPT ![t] = last]
    /\ pos' = [pos EXCEPT ![t] = "body"]

NoMore(t) == pos' = [pos EXCEPT ![t] = "end"] /\ UNCHANGED <<iteration, behind>>

HoldStatic(t, ws, answer) ==
    /\ wshare' = [wshare EXCEPT ![inLoop[t]] = ws]
    /\ trip' = [trip EXCEPT ![t] = answer.trip]
    /\ IF answer.ret = 0 THEN Hold(t, answer.first, answer.behind) ELSE NoMore(t)

HoldNext(t, ws) ==
    /\ wshare' = [wshare EXCEPT ![inLoop[t]] = [ws EXCEPT !.next = NextBlock(ws)]]
    /\ Hold(t, ws.next, NextBlock(ws))

\* gomp_loop_ordered_static_start; gomp_ordered_static_init by the first thread.
StaticStart(t) ==
    /\ pos[t] = "loop" /\ inLoop[t] <= program.length /\ LoopOf(t).sched = "static"
    /\ HoldStatic(t, Share(t), StaticAnswer(t, Share(t), 0))
    /\ IF wshare[inLoop[t]] = OpenShare /\ program.nthreads > 1 THEN Post(0)
       ELSE UNCHANGED ordered_release
    /\ UNCHANGED <<program, inLoop, then, ring, latest>>

\* gomp_loop_ordered_dynamic_start, gomp_loop_ordered_guided_start
QueueStart(t) ==
    /\ pos[t] = "loop" /\ inLoop[t] <= program.length /\ LoopOf(t).sched # "static"
    /\ LET ws == Share(t)
           k == inLoop[t]
       IN \/ /\ ws.next = ws.end /\ NoMore(t)
             /\ wshare' = [wshare EXCEPT ![k] = ws]
             /\ UNCHANGED <<ring, ordered_release>>
          \/ /\ ws.next # ws.end /\ HoldNext(t, ws)
             /\ IF program.nthreads = 1 THEN UNCHANGED <<ring, ordered_release>>
                ELSE /\ ring' = [ring EXCEPT ![k] = Enqueue(@, t, program.nthreads)]
                     /\ IF ring[k].num_used = 0 THEN Post(t)
                        ELSE UNCHANGED ordered_release
    /\ UNCHANGED <<program, inLoop, then, trip, latest>>
-----------------------------------------------------------------------------
(* An iteration, and gomp_ordered_sync, which is GOMP_ordered_start, too.  *)

Call(t, what) ==
    /\ then' = [then EXCEPT ![t] = what]
    /\ pos' = [pos EXCEPT ![t] = "sync"]

\* On to the next iteration, or for another block when this one is done.
Advance(t) ==
    /\ iteration' = [iteration EXCEPT ![t] = @ + 1]
    /\ IF iteration[t] + 1 < behind[t]
       THEN pos' = [pos EXCEPT ![t] = "body"] /\ UNCHANGED then
       ELSE Call(t, "next")
    /\ UNCHANGED <<program, inLoop, behind, trip, wshare, ring, ordered_release, latest>>

LeaveOutSection(t) == pos[t] = "body" /\ Advance(t)

OrderedStart(t) ==
    /\ pos[t] = "body" /\ Call(t, "section")
    /\ UNCHANGED <<program, inLoop, iteration, behind, trip, wshare, ring,
                   ordered_release, latest>>

\* GOMP_ordered_end does nothing.
OrderedEnd(t) == pos[t] = "section" /\ Advance(t)

Return(t) ==
    /\ pos' = [pos EXCEPT ![t] = then[t]]
    /\ latest' = IF then[t] = "section" /\ latest[inLoop[t]] < iteration[t]
                 THEN [latest EXCEPT ![inLoop[t]] = iteration[t]] ELSE latest

SyncCheck(t) ==
    /\ pos[t] = "sync"
    /\ IF program.nthreads = 1 \/ ring[inLoop[t]].owner = t THEN Return(t)
       ELSE pos' = [pos EXCEPT ![t] = "wait"] /\ UNCHANGED latest
    /\ UNCHANGED <<program, inLoop, iteration, behind, then, trip, wshare, ring,
                   ordered_release>>

\* gomp_sem_wait
SyncWait(t) ==
    /\ pos[t] = "wait" /\ ordered_release[t] > 0
    /\ ordered_release' = [ordered_release EXCEPT ![t] = @ - 1]
    /\ pos' = [pos EXCEPT ![t] = "own"]
    /\ UNCHANGED <<program, inLoop, iteration, behind, then, trip, wshare, ring, latest>>

SyncOwn(t) ==
    /\ pos[t] = "own"
    /\ ring' = [ring EXCEPT ![inLoop[t]].owner = t]
    /\ Return(t)
    /\ UNCHANGED <<program, inLoop, iteration, behind, then, trip, wshare,
                   ordered_release>>
-----------------------------------------------------------------------------
(* The next block, behind gomp_ordered_sync.                               *)

\* mutant: the last block passes the turn on, too
PassAlways(ret) == TRUE

PassOn(ret) == ret >= 0

\* gomp_loop_ordered_static_next with gomp_ordered_static_next
StaticNextBlock(t) ==
    /\ pos[t] = "next" /\ LoopOf(t).sched = "static"
    /\ LET answer == StaticAnswer(t, Share(t), trip[t])
           id == (t + 1) % program.nthreads
       IN /\ HoldStatic(t, Share(t), answer)
          /\ IF program.nthreads > 1 /\ PassOn(answer.ret)
             THEN /\ ring' = [ring EXCEPT ![inLoop[t]].owner = -1,
                                          ![inLoop[t]].team_ids[0] = id]
                  /\ Post(id)
             ELSE UNCHANGED <<ring, ordered_release>>
    /\ UNCHANGED <<program, inLoop, then, latest>>

\* gomp_ordered_last tells the thread at the head of the ring that r becomes, if
\* there is one.
TellHead(k, r) ==
    /\ ring' = [ring EXCEPT ![k] = r]
    /\ IF r.num_used = 0 THEN UNCHANGED ordered_release
       ELSE Post(r.team_ids[r.cur])

\* gomp_ordered_next posts to its own thread if the ring holds one thread, which
\* "must be us".
PassTurn(t, k, n) ==
    LET r == Rotate(ring[k], t, n)
    IN /\ ring' = [ring EXCEPT ![k] = r]
       /\ Post(IF ring[k].num_used = 1 THEN t ELSE r.team_ids[r.cur])

\* gomp_loop_ordered_dynamic_next, gomp_loop_ordered_guided_next
QueueNextBlock(t) ==
    /\ pos[t] = "next" /\ LoopOf(t).sched # "static"
    /\ LET ws == Share(t)
           k == inLoop[t]
           n == program.nthreads
       IN \/ /\ ws.next # ws.end /\ HoldNext(t, ws)
             /\ IF n = 1 THEN UNCHANGED <<ring, ordered_release>>
                ELSE PassTurn(t, k, n)
          \/ /\ ws.next = ws.end /\ NoMore(t) /\ UNCHANGED wshare
             /\ IF n = 1 THEN UNCHANGED <<ring, ordered_release>>
                ELSE TellHead(k, DropHead(ring[k], n))
    /\ UNCHANGED <<program, inLoop, then, trip, latest>>

\* GOMP_loop_end, GOMP_loop_end_nowait
OrderedLoopEnd(t) ==
    /\ pos[t] = "end"
    /\ LoopOf(t).nowait \/ \A u \in Ring : inLoop[u] > inLoop[t]
                                           \/ (inLoop[u] = inLoop[t] /\ pos[u] = "end")
    /\ inLoop' = [inLoop EXCEPT ![t] = @ + 1]
    /\ pos' = [pos EXCEPT ![t] = "loop"]
    /\ UNCHANGED <<program, iteration, behind, then, trip, wshare, ring,
                   ordered_release, latest>>
-----------------------------------------------------------------------------
OrderedStep(t) ==
    \/ StaticStart(t) \/ QueueStart(t) \/ LeaveOutSection(t) \/ OrderedStart(t)
    \/ SyncCheck(t) \/ SyncWait(t) \/ SyncOwn(t) \/ OrderedEnd(t)
    \/ StaticNextBlock(t) \/ QueueNextBlock(t) \/ OrderedLoopEnd(t)

OrderedNext == \E t \in Ring : OrderedStep(t)

OrderedSpec ==
    /\ OrderedInit /\ [][OrderedNext]_orderedVars
    /\ \A t \in 0..3 : WF_orderedVars(t \in Ring /\ OrderedStep(t))
-----------------------------------------------------------------------------
\* The sections of a loop are executed in the order of its iterations, one at a
\* time, whichever threads hold the iterations and in whatever order they come:
\* the "correct results" that gomp_ordered_sync says it gives either way.
InOrder ==
    \A t \in Ring : pos[t] = "section" =>
        /\ latest[inLoop[t]] = iteration[t]
        /\ \A u \in Ring : pos[u] = "section" /\ inLoop[u] = inLoop[t] => u = t

\* The first thread that comes to a static loop posts to thread 0, wherever that
\* thread is (gomp_ordered_static_init).  Programs in which it takes the post in
\* that loop: either thread 0 has an iteration of the loop or no other loop
\* follows, and three threads or more come to the loop through a barrier.
PostsArrive(p) ==
    \A k \in 1..p.length : p.loops[k].sched = "static" /\ p.nthreads > 1 =>
        /\ p.loops[k].n > 0 \/ k = p.length
        /\ k > 1 /\ p.nthreads > 2 => ~p.loops[k - 1].nowait

\* Where the posts of static loops arrive, sections are in order (gomp_ordered_first,
\* gomp_ordered_last, gomp_ordered_next, gomp_ordered_static_next).
SectionsInOrder == PostsArrive(program) => InOrder

\* There, too, every thread finishes its last loop: nobody waits in
\* gomp_ordered_sync for a post that "the other thread will always" make.
OrderedEnds ==
    PostsArrive(program) => <>(\A t \in Ring : inLoop[t] = program.length + 1)
=============================================================================
