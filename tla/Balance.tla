------------------------------- MODULE Balance ------------------------------
(***************************************************************************)
(* The two loop schedulers LaPeSD adds to libgomp, as functions from the   *)
(* loads of the iterations to the thread of every iteration: Smart         *)
(* Round-Robin (srr_balance) and Bin Packing + Longest Processing Time     *)
(* first (binlpt_balance), both in loop.c.                                 *)
(*                                                                         *)
(* Arrays are functions on 0..n-1.  Loads are small enough that no sum     *)
(* wraps around.                                                           *)
(***************************************************************************)
EXTENDS Integers, SequencesExt

\* The counter values of "for (i = a; i <= b; i++)" and of the way back.
Upto(a, b) == [i \in 1..(b - a + 1) |-> a + i - 1]
Downto(b, a) == Reverse(Upto(a, b))

OutOfOrder(x, y) == y < x

\* The loop body of insertion: two elements out of order change places in the
\* array and in the map.
Exchange(s, i, j) ==
    IF ~OutOfOrder(s.a[i], s.a[j]) THEN s
    ELSE [a |-> [s.a EXCEPT ![i] = s.a[j], ![j] = s.a[i]],
          map |-> [s.map EXCEPT ![i] = s.map[j], ![j] = s.map[i]]]

\* sort: the sorted array, and for each place the index the element came from.
Sort(a, n) ==
    FoldLeft(LAMBDA s, i : FoldLeft(LAMBDA r, j : Exchange(r, i, j), s,
                                    Upto(i + 1, n - 1)),
             [a |-> a, map |-> [i \in 0..n - 1 |-> i]], Upto(0, n - 2))

\* The least loaded of the threads 0..m-1, the first of several.
Least(load, m) ==
    CHOOSE t \in 0..m - 1 : \A s \in 0..m - 1 :
        load[t] < load[s] \/ (load[t] = load[s] /\ t <= s)
-----------------------------------------------------------------------------
(* Smart Round-Robin.                                                      *)

\* mutant: the remaining load wraps one thread early
WrapEarly(tid, nthreads) == IF nthreads = 1 THEN 0 ELSE (tid + 1) % (nthreads - 1)

Wrap(tid, nthreads) == (tid + 1) % nthreads

\* "Assign tasks to threads": the pair of the i-th lightest and the i-th
\* heaviest task.  The loop runs over all tasks, so that every pair is dealt
\* twice and the second deal counts.  load is computed from the sorted array
\* with indices of the unsorted one.
Deal(s, i, sorted, n, k, nthreads) ==
    LET l == sorted.map[i]
        r == sorted.map[n - (i - k + 1)]
    IN [map |-> [s.map EXCEPT ![l] = s.tid, ![r] = s.tid],
        load |-> [s.load EXCEPT ![s.tid] = @ + sorted.a[l] + sorted.a[r]],
        tid |-> Wrap(s.tid, nthreads)]

\* load has ntasks elements: with more threads than tasks the search for the
\* least loaded thread reads beyond it, and any of those threads may win.
LeastOverload(load, n, nthreads) ==
    {t \in 0..nthreads - 1 : t >= n \/ t = Least(load, Min({n, nthreads}))}

\* srr_balance: the maps it may return and the tasks array it leaves behind.
SrrBalance(tasks, n, nthreads) ==
    LET sorted == Sort(tasks, n)
        k == n % 2
        dealt == FoldLeft(LAMBDA s, i : Deal(s, i, sorted, n, k, nthreads),
                          [map |-> [i \in 0..n - 1 |-> 0],
                           load |-> [i \in 0..n - 1 |-> 0], tid |-> 0],
                          Upto(k, n - 1))
    IN [tasks |-> sorted.a,
        maps |-> IF k = 0 THEN {dealt.map}
                 ELSE {[i \in 0..n - 1 |-> IF i = sorted.map[0] THEN t
                                            ELSE dealt.map[i]] :
                          t \in LeastOverload(dealt.load, n, nthreads)}]
-----------------------------------------------------------------------------
(* BinLPT.                                                                 *)

\* compute_cummulativesum, with the total as one more element.
CumulativeSum(a, n) ==
    LET sum[i \in 0..n] == IF i = 0 THEN 0 ELSE sum[i - 1] + a[i - 1]
    IN sum

\* Where a chunk that starts at task i may end: as soon as it is heavier than
\* the average.
ChunkEnds(workload, n, i, weight) ==
    {j \in i + 1..n - 1 : workload[j] - workload[i] > weight} \cup {n}

\* compute_chunksizes, as the tasks at which the chunks begin: chunk k is
\* cut[k] .. cut[k + 1] - 1.
Cuts(tasks, n, nchunks) ==
    LET workload == CumulativeSum(tasks, n)
        weight == workload[n] \div nchunks
        cut[k \in 0..nchunks] ==
            IF k = 0 THEN 0
            ELSE LET i == cut[k - 1]
                 IN IF k = nchunks \/ i = n THEN n
                    ELSE Min(ChunkEnds(workload, n, i, weight))
    IN cut

\* compute_chunks: the loads of the chunks.
Chunks(tasks, n, nchunks) ==
    LET workload == CumulativeSum(tasks, n)
        cut == Cuts(tasks, n, nchunks)
    IN [k \in 0..nchunks - 1 |-> workload[cut[k + 1]] - workload[cut[k]]]

\* mutant: shortest processing time first
LightestFirst(nchunks) == Upto(0, nchunks - 1)

HeaviestFirst(nchunks) == Downto(nchunks - 1, 0)

\* The iterations of the chunk in place i of the sorted array.
Members(cut, map, i) == cut[map[i]]..cut[map[i] + 1] - 1

\* binlpt_balance: the i-th heaviest chunk goes to the least loaded thread;
\* chunks without load stay with thread 0.
BinlptBalance(tasks, n, nthreads, nchunks) ==
    LET cut == Cuts(tasks, n, nchunks)
        sorted == Sort(Chunks(tasks, n, nchunks), nchunks)
        Give(s, i) ==
            LET tid == Least(s.load, nthreads)
            IN IF sorted.a[i] = 0 THEN s
               ELSE [map |-> [x \in 0..n - 1 |->
                                IF x \in Members(cut, sorted.map, i) THEN tid
                                                                     ELSE s.map[x]],
                     load |-> [s.load EXCEPT ![tid] = @ + sorted.a[i]]]
    IN FoldLeft(Give, [map |-> [x \in 0..n - 1 |-> 0],
                       load |-> [t \in 0..nthreads - 1 |-> 0]],
                HeaviestFirst(nchunks)).map
=============================================================================
