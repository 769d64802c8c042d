------------------------------ MODULE Iterators -----------------------------
(***************************************************************************)
(* How the iterations of a loop are cut into blocks: the bounds a work     *)
(* share is initialised with (loop.c, loop_ull.c, sections.c) and the      *)
(* block that each schedule takes next (iter.c, iter_ull.c), with the      *)
(* integers of the code: long and unsigned long long of WordBits bits.     *)
(*                                                                         *)
(* A block is a pair of bounds first <= x < behind, or behind < x <= first *)
(* for a loop that counts down.                                            *)
(***************************************************************************)
EXTENDS Integers

CONSTANT WordBits       \* 64 in the code

ASSUME WordAssumption == WordBits \in Nat /\ WordBits >= 4 /\ WordBits % 2 = 0

LONG_MAX == 2^(WordBits - 1) - 1
ULLONG_MAX == 2^WordBits - 1

Unsigned(x) == x % 2^WordBits
Signed(x) == Unsigned(x + LONG_MAX + 1) - (LONG_MAX + 1)

\* x as a number of the type the work share was initialised with.
Wrapped(ws, x) == IF ws.type = "ull" THEN Unsigned(x) ELSE Signed(x)

\* Division of C: towards zero.
Quotient(a, b) ==
    LET q == (IF a < 0 THEN -a ELSE a) \div (IF b < 0 THEN -b ELSE b)
    IN IF (a < 0) = (b < 0) THEN q ELSE -q
-----------------------------------------------------------------------------
(* Initialisation.                                                         *)

\* Loops that have zero iterations end where they start.
CanonicalEnd(up, start, end) ==
    IF (up /\ start > end) \/ (~up /\ start < end) THEN start ELSE end

\* "Cheap overflow protection": the step and the team are below the square
\* root of the largest number, so that their product is a number.
IsCheap(nthreads, step) ==
    nthreads < 2^(WordBits \div 2 - 1) /\ step < 2^(WordBits \div 2 - 1)

\* mutant: room is left for one fetch-and-add of the team
RoomForOne(incr, end, chunk, nthreads) ==
    IF incr > 0 THEN end < LONG_MAX - chunk ELSE end > -chunk - LONG_MAX

\* Every thread may add a chunk once more when the last block is taken.
RoomToAdd(incr, end, chunk, nthreads) ==
    IF incr > 0 THEN end < LONG_MAX - (nthreads + 1) * chunk
    ELSE end > (nthreads + 1) * (-chunk) - LONG_MAX

\* gomp_loop_init but for the task maps of BinLPT and SRR (see WorkloadLoop).
LoopInit(start, end, incr, sched, chunk_size, nthreads) ==
    LET last == CanonicalEnd(incr > 0, start, end)
        chunk == IF sched = "dynamic" THEN Signed(chunk_size * incr) ELSE chunk_size
        step == Unsigned(IF incr > 0 THEN chunk ELSE -chunk)
    IN [type |-> "long", sched |-> sched, chunk |-> chunk, end |-> last,
        incr |-> incr, next |-> start,
        mode |-> IF /\ sched = "dynamic" /\ IsCheap(nthreads, step)
                    /\ RoomToAdd(incr, last, chunk, nthreads)
                 THEN 1 ELSE 0]

UllRoomToAdd(up, end, chunk, nthreads) ==
    IF up THEN end < Unsigned(ULLONG_MAX - (nthreads + 1) * chunk)
    ELSE end > Unsigned((nthreads + 1) * (-chunk) - ULLONG_MAX)

\* gomp_loop_ull_init.  Bit 0 of mode: fetch-and-add; bit 1: the loop counts down.
LoopUllInit(up, start, end, incr, sched, chunk_size, nthreads) ==
    LET last == CanonicalEnd(up, start, end)
        chunk == IF sched = "dynamic" THEN Unsigned(chunk_size * incr) ELSE chunk_size
        step == IF up THEN chunk ELSE Unsigned(-chunk)
    IN [type |-> "ull", sched |-> sched, chunk |-> chunk, end |-> last,
        incr |-> Unsigned(incr), next |-> start,
        mode |-> (IF /\ sched = "dynamic" /\ IsCheap(nthreads, step)
                     /\ UllRoomToAdd(up, last, chunk, nthreads)
                  THEN 1 ELSE 0) + (IF up THEN 0 ELSE 2)]

\* gomp_sections_init, where long is wider than unsigned.
SectionsInit(count) ==
    [type |-> "long", sched |-> "dynamic", chunk |-> 1, end |-> count + 1, incr |-> 1,
     next |-> 1, mode |-> 1]
-----------------------------------------------------------------------------
(* The static schedule.  An answer is what the function returns: 0 with a  *)
(* block, 1 without, less than 0 after the thread had the last block; and  *)
(* the thread's static_trip afterwards.                                    *)

Answer(ret, first, behind, trip) ==
    [ret |-> ret, first |-> first, behind |-> behind, trip |-> trip]

\* The number of iterations.
TripCount(ws) ==
    LET s == ws.incr + (IF ws.incr > 0 THEN -1 ELSE 1)
    IN Unsigned(Quotient(Signed(ws.end - ws.next + s), ws.incr))

UllTripCount(ws) ==
    IF ws.mode = 0 THEN Unsigned(ws.end - ws.next + ws.incr - 1) \div ws.incr
    ELSE Unsigned(ws.next - ws.end - ws.incr - 1) \div Unsigned(-ws.incr)

\* "zero-based" start of thread i's only block: the first t threads get one more.
ShareStart(q, t, i) == IF i < t THEN (q + 1) * i ELSE q * i + t

\* Thread i's block without a chunk size.
StaticShare(n, nthreads, i, trip) ==
    LET q == n \div nthreads
        t == n % nthreads
        s0 == ShareStart(q, t, i)
        e0 == s0 + (IF i < t THEN q + 1 ELSE q)
    IN IF trip > 0 \/ s0 >= e0 THEN Answer(1, 0, 0, 1)
       ELSE Answer(0, s0, e0, IF e0 = n THEN -1 ELSE 1)

\* Chunks in turn.  (trip * nthreads + i) * c wraps, and so may s0 + c.
StaticChunk(n, nthreads, i, trip, c) ==
    LET s0 == Unsigned((trip * nthreads + i) * c)
        guess == Unsigned(s0 + c)
        e0 == IF guess > n THEN n ELSE guess
    IN IF s0 >= n THEN Answer(1, 0, 0, trip)
       ELSE Answer(0, s0, e0, IF e0 = n THEN -1 ELSE trip + 1)

\* gomp_iter_static_next and its twin.
StaticBlock(ws, n, nthreads, i, trip) ==
    LET zero == IF ws.chunk = 0 THEN StaticShare(n, nthreads, i, trip)
                ELSE StaticChunk(n, nthreads, i, trip, ws.chunk)
    IN IF trip = -1 THEN Answer(-1, 0, 0, -1)
       ELSE IF nthreads = 1
       THEN Answer(IF ws.next = ws.end THEN 1 ELSE 0, ws.next, ws.end, -1)
       ELSE [zero EXCEPT !.first = Wrapped(ws, @ * ws.incr + ws.next),
                         !.behind = Wrapped(ws, @ * ws.incr + ws.next)]
-----------------------------------------------------------------------------
(* Where the block of a dynamic or guided schedule ends that begins at     *)
(* start.                                                                  *)

DynamicEnd(ws, start) ==
    LET left == Signed(ws.end - start)
        chunk == IF \/ ws.incr < 0 /\ ws.chunk < left
                    \/ ws.incr >= 0 /\ ws.chunk > left
                 THEN left ELSE ws.chunk
    IN Signed(start + chunk)

UllDynamicEnd(ws, start) ==
    LET left == Unsigned(ws.end - start)
        chunk == IF \/ ws.mode >= 2 /\ ws.chunk < left
                    \/ ws.mode < 2 /\ ws.chunk > left
                 THEN left ELSE ws.chunk
    IN Unsigned(start + chunk)

AtLeastChunk(q, chunk) == IF q < chunk THEN chunk ELSE q

GuidedEnd(ws, start, nthreads) ==
    LET n == Unsigned(Quotient(Signed(ws.end - start), ws.incr))
        q == AtLeastChunk(Unsigned(n + nthreads - 1) \div nthreads, ws.chunk)
    IN IF q <= n THEN Signed(start + q * ws.incr) ELSE ws.end

UllGuidedEnd(ws, start, nthreads) ==
    LET n == IF ws.mode = 0 THEN Unsigned(ws.end - start) \div ws.incr
             ELSE Unsigned(start - ws.end) \div Unsigned(-ws.incr)
        q == AtLeastChunk(Unsigned(n + nthreads - 1) \div nthreads, ws.chunk)
    IN IF q <= n THEN Unsigned(start + q * ws.incr) ELSE ws.end

\* The block that a fetch-and-add has reserved, cut at the end of the loop.
AddedBlock(ws, up, tmp) ==
    LET nend == Wrapped(ws, tmp + ws.chunk)
    IN [none |-> IF up THEN tmp >= ws.end ELSE tmp <= ws.end,
        behind |-> IF (up /\ nend > ws.end) \/ (~up /\ nend < ws.end)
                   THEN ws.end ELSE nend]
=============================================================================
