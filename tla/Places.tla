------------------------------- MODULE Places -------------------------------
(***************************************************************************)
(* Where the threads of a region run when OMP_PLACES is set: the part of   *)
(* gomp_team_start (team.c) that gives every thread a place and a          *)
(* partition of places for its own regions, and takes the threads of the   *)
(* pool that are bound to these places already, in whatever order the last *)
(* region left them.                                                       *)
(*                                                                         *)
(* Thread 0 executes regions; each may be followed by nested regions of    *)
(* its threads, which have no pool.  The rest of gomp_team_start is in     *)
(* TeamPool.  Only the thread that starts a region runs here, so that a    *)
(* region is one step.  Places are numbered from 0.                        *)
(***************************************************************************)
EXTENDS Integers, Sequences, FiniteSets, FiniteSetsExt

CONSTANTS MaxPlaces,    \* bound: places
          MaxTeam,      \* bound: threads of a region
          Bindings,     \* sets of the bindings a program uses together
          Regrow        \* whether a region may need all threads of the pool in
                        \* another order, and more

ASSUME PlacesAssumption ==
    /\ MaxPlaces \in Nat \ {0} /\ MaxTeam \in Nat \ {0}
    /\ \A b \in Bindings : b \subseteq {"true", "close", "spread", "master"}

VARIABLES partition,    \* the program's places and thread 0's: len, place
          bindings,     \* the bindings of the program
          idle,         \* pool->threads, from 1: place (thr->place), cpu (bound to)
          managed,      \* gomp_managed_threads
          placed        \* the latest region, see NoRegion
placesVars == <<partition, bindings, idle, managed, placed>>

\* bind, off, len: the region's binding and where its master may run; team: the
\* place, cpu and partition of its threads, the master's first; awaited: the total
\* of the dock; old: the threads of the pool before; kept: which of them it uses.
NoRegion == [bind |-> "none", off |-> 0, len |-> 0, team |-> <<>>, awaited |-> 0,
             old |-> 0, kept |-> {}]

PlacesInit ==
    /\ partition \in {p \in [len : 1..MaxPlaces, place : 0..MaxPlaces - 1] :
                        p.place < p.len}
    /\ bindings \in Bindings
    /\ idle = <<>> /\ managed = 1 /\ placed = NoRegion
-----------------------------------------------------------------------------
(* The cursor of "place computation": p, s, k and rest as in the code, and *)
(* the partition of the thread that the cursor is at.                      *)

Cursor(p, s, k, rest, off, len) ==
    [p |-> p, s |-> s, k |-> k, rest |-> rest, off |-> off, len |-> len]

\* "S threads will be placed in each place, and the final REM threads placed one
\* by one into the already occupied places."
BeginClose(T, off, len, p) ==
    IF T > len THEN Cursor(p, T \div len, 1, T % len, off, len)
    ELSE Cursor(p, 1, 1, 0, off, len)

BeginMaster(T, off, len, p) == Cursor(p, 0, 0, 0, off, len)

BeginSpread(T, off, len, p) ==
    LET s == len \div T
        rest == (s + 1) * (len % T) + off
        low == p - ((p - off) % (s + 1))
        high == p - ((p - rest) % s)
    IN IF T > len THEN Cursor(p, T \div len, 1, T % len, p, 1)
       ELSE IF p < rest THEN Cursor(low, s, 0, rest, low, s + 1)
       ELSE Cursor(high, s, 0, rest, high, s)

Begin(bind, T, off, len, p) ==
    CASE bind \in {"true", "close"} -> BeginClose(T, off, len, p)
      [] bind = "master" -> BeginMaster(T, off, len, p)
      [] bind = "spread" -> BeginSpread(T, off, len, p)

\* ++p or p += s, round the partition of the region.
Wrapped(p, off, len) == IF p = off + len THEN off ELSE p

\* The next thread in the same place, or in the next one.
NextPlace(c, i, T, off, len) ==
    IF c.k # c.s THEN [c EXCEPT !.k = @ + 1]
    ELSE [c EXCEPT !.p = Wrapped(@ + 1, off, len), !.k = 1,
                   !.s = IF i = T - c.rest THEN 1 ELSE @]

NextSubpartition(c, off, len) ==
    LET q == Wrapped(IF c.p < c.rest THEN c.p + c.s + 1 ELSE c.p + c.s, off, len)
    IN [c EXCEPT !.p = q, !.off = q, !.len = IF q < c.rest THEN c.s + 1 ELSE c.s]

\* "switch (bind)" for thread i.
Advance(bind, c, i, T, off, len) ==
    LET d == NextPlace(c, i, T, off, len)
    IN CASE bind \in {"true", "close"} -> d
         [] bind = "master" -> c
         [] bind = "spread" -> IF c.k = 0 THEN NextSubpartition(c, off, len)
                               ELSE [d EXCEPT !.off = d.p, !.len = 1]
-----------------------------------------------------------------------------
(* The threads of the pool.  A pass is the loop "Release existing idle     *)
(* threads": next is i, c the cursor, slots[i] the thread of the pool that *)
(* becomes thread i, or 0; affine: affinity_thr is there, sorted by place; *)
(* count: affinity_count.                                                  *)

\* Thread i of the pool stays thread i.
Fits(bind, c, thread) ==
    /\ bind = "true" \/ thread.place = c.p
    /\ thread.place \in c.off..c.off + c.len - 1

\* The idle threads from i on by their places, the last one first.
Sorted(i, len) ==
    [q \in 0..len - 1 |->
        LET there[j \in 0..Len(idle)] ==
                IF j < i THEN <<>>
                ELSE IF idle[j].place = q THEN <<j>> \o there[j - 1] ELSE there[j - 1]
        IN there[Len(idle)]]

\* Where a thread is taken from for the place of c.
Sources(bind, c, thrs) ==
    IF thrs[c.p] # <<>> THEN {c.p}
    ELSE {q \in c.off..c.off + c.len - 1 : bind = "true" /\ thrs[q] # <<>>}

FirstPass(T, n, c) ==
    [next |-> 1, c |-> c, slots |-> [i \in 1..T - 1 |-> 0], n |-> n, affine |-> FALSE,
     count |-> 0, thrs |-> <<>>, broken |-> FALSE]

Gathered(r, T, old, len) ==
    IF r.affine THEN r
    ELSE [r EXCEPT !.affine = TRUE, !.thrs = Sorted(r.next, len), !.n = T,
                   !.count = old - r.next]

PassStep(r, bind, T, old, len) ==
    LET i == r.next
        c == Advance(bind, r.c, i, T, 0, len)
        g == [Gathered(r, T, old, len) EXCEPT !.c = c]
        from == Sources(bind, c, g.thrs)
        q == Min(from)
    IN IF ~r.affine /\ Fits(bind, c, idle[i])
       THEN [r EXCEPT !.c = c, !.slots[i] = i, !.next = i + 1]
       ELSE IF g.count = 0 THEN [g EXCEPT !.broken = TRUE]
       ELSE IF from = {} THEN [g EXCEPT !.next = i + 1]
       ELSE [g EXCEPT !.next = i + 1, !.slots[i] = Head(g.thrs[q]),
                      !.thrs[q] = Tail(@), !.count = @ - 1]

ReusePass(bind, T, old, len, c) ==
    LET n == IF T <= old THEN T ELSE old
        pass[i \in 0..T] ==
            IF i = 0 THEN FirstPass(T, n, c)
            ELSE LET r == pass[i - 1]
                 IN IF r.broken \/ r.next >= r.n THEN r
                    ELSE PassStep(r, bind, T, old, len)
    IN pass[T]

\* "we've managed to find exactly as many old threads as we'd find without
\* affinity"
Settled(r, T, old) == r.affine /\ IF T <= old THEN r.count = old - T ELSE r.next = old
-----------------------------------------------------------------------------
(* New threads, for the slots from first on that have none.                *)

ThreadAt(c) == [place |-> c.p, cpu |-> c.p, off |-> c.off, len |-> c.len]

\* The cursors of the threads from first on, if cursor c is at thread first - 1.
Cursors(bind, T, off, len, first, c) ==
    LET at[i \in first - 1..T - 1] ==
            IF i = first - 1 THEN c ELSE Advance(bind, at[i - 1], i, T, off, len)
    IN at

\* A nested region has nothing but new threads.
Team(bind, T, off, len, p) ==
    LET c == Begin(bind, T, off, len, p)
        master == [ThreadAt(c) EXCEPT !.place = p, !.cpu = p]
        at == Cursors(bind, T, off, len, 1, c)
    IN <<master>> \o [i \in 1..T - 1 |-> ThreadAt(at[i])]

\* mutant: the second pass goes on where the first one has stopped
BeginAgainHere(bind, T, len, p, r) == r.c

\* "We are going to compute the places/subpartitions again from the beginning."
BeginAgain(bind, T, len, p, r) == Begin(bind, T, 0, len, p)

\* The threads of a region of thread 0 after a pass: those of the first pass
\* where they are, new ones elsewhere.
TeamAfter(r, again, bind, T, len, p) ==
    LET c == Begin(bind, T, 0, len, p)
        passed == Cursors(bind, T, 0, len, 1, c)
        first == IF again THEN 1 ELSE r.next
        at == Cursors(bind, T, 0, len, first, IF again THEN BeginAgain(bind, T, len, p, r)
                                                       ELSE r.c)
        Member(i) == IF r.slots[i] = 0 THEN ThreadAt(at[i])
                     ELSE [ThreadAt(passed[i]) EXCEPT !.cpu = idle[r.slots[i]].cpu]
    IN <<[ThreadAt(c) EXCEPT !.place = p, !.cpu = p]>> \o [i \in 1..T - 1 |-> Member(i)]
-----------------------------------------------------------------------------
\* mutant: threads that are not used again are not awaited
AwaitedTeam(T, old, left) == IF T <= old /\ left = 0 THEN old ELSE T

\* The total of the dock: it was old.
Awaited(T, old, left) ==
    IF left > 0 THEN T + left ELSE IF T <= old THEN old ELSE T

\* gomp_team_start of thread 0, with more than one thread.
OuterRegion(bind, T) ==
    LET len == partition.len
        p == partition.place
        old == IF idle = <<>> THEN 0 ELSE Len(idle) + 1
        r == ReusePass(bind, T, old, len, Begin(bind, T, 0, len, p))
        again == r.affine /\ ~Settled(r, T, old)
        left == IF again THEN r.count ELSE 0
        team == TeamAfter(r, again, bind, T, len, p)
        grown == IF T + left > old THEN managed + T + left - (IF old = 0 THEN 1 ELSE old)
                 ELSE managed
    IN /\ Regrow \/ ~(r.broken /\ ~again)
       /\ placed' = [bind |-> bind, off |-> 0, len |-> len, team |-> team,
                     awaited |-> Awaited(T, old, left), old |-> old,
                     kept |-> {r.slots[i] : i \in 1..T - 1} \ {0}]
       /\ idle' = [i \in 1..T - 1 |-> [place |-> team[i + 1].place,
                                       cpu |-> team[i + 1].cpu]]
       /\ managed' = IF left > 0 THEN grown - left
                     ELSE IF T < old THEN grown + T - old ELSE grown
       /\ UNCHANGED <<partition, bindings>>

\* ... and of a thread of the region that thread 0 is in.
NestedRegion(bind, T, thread) ==
    /\ placed.old >= 0
    /\ placed' = [NoRegion EXCEPT !.bind = bind, !.off = thread.off, !.len = thread.len,
                                  !.team = Team(bind, T, thread.off, thread.len,
                                                thread.place),
                                  !.old = -1]
    /\ UNCHANGED <<partition, bindings, idle, managed>>

PlacesNext ==
    \E bind \in bindings, T \in 2..MaxTeam :
        \/ OuterRegion(bind, T)
        \/ \E i \in 1..Len(placed.team) : NestedRegion(bind, T, placed.team[i])

PlacesSpec == PlacesInit /\ [][PlacesNext]_placesVars
-----------------------------------------------------------------------------
Count(team, q) == Cardinality({i \in 1..Len(team) : team[i].cpu = q})

\* Every thread runs where the binding of its region wants it, however the threads
\* that were there before were bound: all at the master's place; in all places of
\* the partition as evenly as possible; or, where a region has fewer threads than
\* places and spreads, each in a partition of its own, which together are all.
PlacedAsBound ==
    LET team == placed.team
        T == Len(team)
        off == placed.off
        len == placed.len
        Part(i) == team[i].off..team[i].off + team[i].len - 1
    IN /\ \A i \in 1..T : /\ team[i].place \in Part(i) \cap (off..off + len - 1)
                          /\ Part(i) \subseteq off..off + len - 1
       /\ placed.bind # "true" => \A i \in 1..T : team[i].cpu = team[i].place
       /\ placed.bind = "master" => \A i \in 1..T : team[i].cpu = team[1].cpu
       /\ placed.bind = "close" /\ T <= len =>
             \A i \in 1..T : team[i].cpu = off + ((team[1].cpu - off + i - 1) % len)
       /\ placed.bind \in {"close", "spread"} =>
             \A q \in off..off + len - 1 :
                 /\ Count(team, q) >= T \div len
                 /\ Count(team, q) <= (T + len - 1) \div len
       /\ placed.bind = "spread" =>
             /\ UNION {Part(i) : i \in 1..T} = off..off + len - 1
             /\ T <= len => \A i, j \in 1..T : i # j => Part(i) \cap Part(j) = {}

\* The dock waits for exactly those who come: the team, and the threads of the
\* pool that are let go; gomp_managed_threads counts those that stay.
DockAgrees ==
    placed.old >= 0 /\ placed.bind # "none" =>
        LET T == Len(placed.team)
            docked == IF placed.old = 0 THEN 0 ELSE placed.old - 1
            kept == Cardinality(placed.kept)
        IN /\ placed.awaited = T + docked - kept
           /\ managed = T
=============================================================================
