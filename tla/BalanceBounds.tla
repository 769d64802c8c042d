---------------------------- MODULE BalanceBounds ---------------------------
(***************************************************************************)
(* The schedulers of module Balance on all inputs up to a bound, compared  *)
(* with what their names promise: an input is chosen, then both maps are   *)
(* computed.                                                               *)
(***************************************************************************)
EXTENDS Balance

CONSTANTS MaxTasks, MaxLoad, MaxWorkers, MaxChunks     \* bounds of the inputs

VARIABLES input,    \* n, the loads of 0..n - 1, nthreads, nchunks
          maps      \* what both schedulers make of it: binlpt, srr
balanceVars == <<input, maps>>

NotYet == [binlpt |-> <<>>, srr |-> {}]

BalanceInit ==
    /\ \E n \in 1..MaxTasks :
          input \in [n : {n}, loads : [0..n - 1 -> 0..MaxLoad], nthreads : 1..MaxWorkers,
                    nchunks : 1..MaxChunks]
    /\ maps = NotYet

BalanceBoth ==
    /\ maps = NotYet
    /\ maps' = [binlpt |-> BinlptBalance(input.loads, input.n, input.nthreads,
                                         input.nchunks),
                srr |-> SrrBalance(input.loads, input.n, input.nthreads).maps]
    /\ UNCHANGED input

BalanceSpec == BalanceInit /\ [][BalanceBoth]_balanceVars
-----------------------------------------------------------------------------
Balanced == maps # NotYet

LoadOf(map, t) ==
    FoldLeft(LAMBDA sum, i : IF map[i] = t THEN sum + input.loads[i] ELSE sum, 0,
             Upto(0, input.n - 1))

Heaviest(map) == Max({LoadOf(map, t) : t \in 0..input.nthreads - 1})

Boundaries == Cuts(input.loads, input.n, input.nchunks)

\* The lightest heaviest thread of all ways to give whole chunks to threads.
Optimum ==
    LET ChunkOf(x) == CHOOSE k \in 0..input.nchunks - 1 :
                          Boundaries[k] <= x /\ x < Boundaries[k + 1]
        Spread(f) == [x \in 0..input.n - 1 |-> f[ChunkOf(x)]]
    IN Min({Heaviest(Spread(f)) : f \in [0..input.nchunks - 1 -> 0..input.nthreads - 1]})

\* BinLPT packs whole chunks: longest processing time first is within 4/3 - 1/(3m)
\* of the optimum for its chunks (Graham's bound).
LptBound ==
    Balanced => 3 * input.nthreads * Heaviest(maps.binlpt)
                    <= (4 * input.nthreads - 1) * Optimum

\* SRR deals pairs of a light and a heavy iteration round-robin to the threads of
\* the team, even where srr_balance reads beyond its array of loads: the p-th
\* lightest and the p-th heaviest iteration meet on one thread, and each pair is
\* on the thread behind that of the next heavier pair.
DealsPairs ==
    LET load == input.loads
        n == input.n
        order == Sort(load, n).map
        Light(p) == order[(n % 2) + p]
        Heavy(p) == order[n - 1 - p]
    IN Balanced => \A map \in maps.srr :
          /\ map \in [0..n - 1 -> 0..input.nthreads - 1]
          /\ \A p \in 0..(n \div 2) - 1 :
                /\ load[Light(p)] <= load[Heavy(p)]
                /\ map[Light(p)] = map[Heavy(p)]
                /\ p > 0 => /\ load[Light(p - 1)] <= load[Light(p)]
                            /\ load[Heavy(p)] <= load[Heavy(p - 1)]
                            /\ map[Light(p - 1)] = (map[Light(p)] + 1) % input.nthreads
=============================================================================
