------------------------------ MODULE LoopIter ------------------------------
(***************************************************************************)
(* The threads of a team fetch the blocks of a loop or of a sections       *)
(* construct without a lock: iter.c and iter_ull.c as GOMP_loop_*_start,   *)
(* GOMP_loop_*_next and GOMP_sections_* call them, and the loops that the  *)
(* compiler puts around these calls.                                       *)
(*                                                                         *)
(* LoopPrograms is a set of loops: type ("long", "ull", "sections"), sched,*)
(* start, end, incr (negative: the loop counts down), chunk, nthreads; and *)
(* seen, the team that the thread which initialises the work share belongs *)
(* to: the team itself, but for a combined parallel loop, whose work share *)
(* is initialised before its team exists.                                  *)
(***************************************************************************)
EXTENDS Iterators

CONSTANT LoopPrograms

\* What the user wrote: for (x = start; x < end; x += incr).
Stride(l) == IF l.incr > 0 THEN l.incr ELSE -l.incr
Distance(l, x) == IF l.incr > 0 THEN x - l.start ELSE l.start - x
Iterations(l) ==
    {x \in (IF l.incr > 0 THEN l.start..l.end - 1 ELSE l.end + 1..l.start) :
        Distance(l, x) % Stride(l) = 0}

Values(type) == IF type = "ull" THEN 0..ULLONG_MAX ELSE -LONG_MAX - 1..LONG_MAX

\* The program's own loop stays within its type, and so do the number of its
\* iterations and the chunks that iter.c computes with: chunk * incr, and the
\* place where thread nthreads - 1 looks for a chunk in vain.  The count of a
\* sections construct and the number of threads are unsigned, less than a long.
ASSUME LoopAssumption ==
    \A l \in LoopPrograms :
        LET length == Distance(l, l.end)
            step == Stride(l)
        IN /\ l.type \in {"long", "ull", "sections"}
           /\ l.sched \in {"static", "dynamic", "guided"}
           /\ l.incr \in Int \ {0} /\ l.chunk \in Nat
           /\ l.nthreads \in Nat \ {0} /\ l.seen \in Nat \ {0}
           /\ {l.start, l.end, step, l.chunk * step} \subseteq Values(l.type)
           /\ \A x \in Iterations(l) : x + l.incr \in Values(l.type)
           /\ l.type = "ull" \/ length + step - 1 <= LONG_MAX
           /\ l.sched = "static" => /\ length + step - 1 <= ULLONG_MAX
                                    /\ length + (2 * l.nthreads + 1) * l.chunk <= ULLONG_MAX
           /\ l.sched # "static" => l.chunk > 0
           /\ l.type = "sections" =>
                 /\ l.sched = "dynamic" /\ l.start = 1 /\ l.end > 0
                 /\ l.incr = 1 /\ l.chunk = 1 /\ l.end + l.nthreads < LONG_MAX

VARIABLES loop,         \* the program
          share,        \* the work share
          where,        \* where[t]: "call", "cas" or "told" (that there is no more)
          begin,        \* begin[t]: the local start of the compare-and-swap loops
          static_trip,  \* of thr->ts
          handed,       \* history: iterations in the blocks handed out
          again         \* history: one was handed out twice, or is not of the loop
loopVars == <<loop, share, where, begin, static_trip, handed, again>>

LoopTeam == 0..loop.nthreads - 1

\* The compiled code runs a block's first iteration and then asks for the end.
Executed(l, first, behind) ==
    {first} \cup (IF l.incr > 0 THEN {x \in first..behind - 1 : (x - first) % l.incr = 0}
                  ELSE {x \in behind + 1..first : (first - x) % (-l.incr) = 0})

FirstShare(l) ==
    CASE l.type = "long" -> LoopInit(l.start, l.end, l.incr, l.sched, l.chunk, l.seen)
      [] l.type = "ull" -> LoopUllInit(l.incr > 0, l.start, l.end, l.incr, l.sched,
                                       l.chunk, l.seen)
      [] l.type = "sections" -> SectionsInit(l.end - 1)

LoopBegins ==
    /\ share = FirstShare(loop)
    /\ where = [t \in LoopTeam |-> "call"]
    /\ begin = [t \in LoopTeam |-> 0]
    /\ static_trip = [t \in LoopTeam |-> 0]
    /\ handed = {} /\ again = FALSE

LoopInitial == loop \in LoopPrograms /\ LoopBegins

Asks(t, type, sched) ==
    /\ where[t] = "call" /\ share.type = type /\ share.sched = sched
    /\ UNCHANGED loop

HandOut(first, behind) ==
    LET block == Executed(loop, first, behind)
    IN /\ handed' = handed \cup block
       /\ again' = (again \/ block \cap handed # {} \/ ~block \subseteq Iterations(loop))

Told(t) == where' = [where EXCEPT ![t] = "told"] /\ UNCHANGED <<handed, again>>

TakeStatic(t, block) ==
    /\ static_trip' = [static_trip EXCEPT ![t] = block.trip]
    /\ \/ block.ret = 0 /\ HandOut(block.first, block.behind) /\ UNCHANGED where
       \/ block.ret # 0 /\ Told(t)
    /\ UNCHANGED <<share, begin>>

\* gomp_iter_static_next: ws is only read.
StaticNext(t) ==
    /\ Asks(t, "long", "static")
    /\ TakeStatic(t, StaticBlock(share, TripCount(share), loop.nthreads, t,
                                 static_trip[t]))

UllStaticNext(t) ==
    /\ Asks(t, "ull", "static")
    /\ TakeStatic(t, StaticBlock(share, UllTripCount(share), loop.nthreads, t,
                                 static_trip[t]))

TakeAdded(t, block, sum) ==
    /\ share' = [share EXCEPT !.next = sum]
    /\ \/ block.none /\ Told(t)
       \/ ~block.none /\ HandOut(share.next, block.behind) /\ UNCHANGED where
    /\ UNCHANGED <<begin, static_trip>>

\* gomp_iter_dynamic_next where the addition cannot overflow.
DynamicAdd(t) ==
    /\ Asks(t, "long", "dynamic") /\ share.mode = 1
    /\ TakeAdded(t, AddedBlock(share, share.incr > 0, share.next),
                 Signed(share.next + share.chunk))

UllDynamicAdd(t) ==
    /\ Asks(t, "ull", "dynamic") /\ share.mode \in {1, 3}
    /\ TakeAdded(t, AddedBlock(share, share.mode = 1, share.next),
                 Unsigned(share.next + share.chunk))

\* "start = ws->next;"
LoadNext(t) ==
    /\ \/ \E type \in {"long", "ull"} : Asks(t, type, "guided")
       \/ Asks(t, "long", "dynamic") /\ share.mode = 0
       \/ Asks(t, "ull", "dynamic") /\ share.mode \in {0, 2}
    /\ begin' = [begin EXCEPT ![t] = share.next]
    /\ where' = [where EXCEPT ![t] = "cas"]
    /\ UNCHANGED <<share, static_trip, handed, again>>

Swaps(old, new) == share.next = old

\* One round of the loop around the compare-and-swap.
TrySwap(t, type, sched, nend) ==
    /\ where[t] = "cas" /\ share.type = type /\ share.sched = sched
    /\ \/ begin[t] = share.end /\ Told(t) /\ UNCHANGED <<share, begin>>
       \/ /\ begin[t] # share.end
          /\ IF Swaps(begin[t], nend)
             THEN /\ share' = [share EXCEPT !.next = nend]
                  /\ HandOut(begin[t], nend)
                  /\ where' = [where EXCEPT ![t] = "call"]
                  /\ UNCHANGED begin
             ELSE /\ begin' = [begin EXCEPT ![t] = share.next]
                  /\ UNCHANGED <<share, handed, again, where>>
    /\ UNCHANGED <<loop, static_trip>>

DynamicSwap(t) == TrySwap(t, "long", "dynamic", DynamicEnd(share, begin[t]))
UllDynamicSwap(t) == TrySwap(t, "ull", "dynamic", UllDynamicEnd(share, begin[t]))
GuidedSwap(t) ==
    TrySwap(t, "long", "guided", GuidedEnd(share, begin[t], loop.nthreads))
UllGuidedSwap(t) ==
    TrySwap(t, "ull", "guided", UllGuidedEnd(share, begin[t], loop.nthreads))

LoopStep(t) ==
    \/ StaticNext(t) \/ DynamicAdd(t) \/ DynamicSwap(t) \/ GuidedSwap(t)
    \/ UllStaticNext(t) \/ UllDynamicAdd(t) \/ UllDynamicSwap(t) \/ UllGuidedSwap(t)
    \/ LoadNext(t)

LoopNext == \E t \in LoopTeam : LoopStep(t)

LoopSpec == LoopInitial /\ [][LoopNext]_loopVars
-----------------------------------------------------------------------------
\* Every iteration the user wrote is executed exactly once and no other is:
\* blocks never overlap nor leave the loop, and when all threads have been told
\* that all work is assigned, it is.
EveryIterationOnce ==
    /\ ~again
    /\ (\A t \in LoopTeam : where[t] = "told") => handed = Iterations(loop)
=============================================================================
