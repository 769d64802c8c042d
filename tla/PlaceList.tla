------------------------------ MODULE PlaceList -----------------------------
(***************************************************************************)
(* The list of places a program starts with: initialize_env reads          *)
(* OMP_PROC_BIND, OMP_PLACES and GOMP_CPU_AFFINITY (env.c), and            *)
(* config/linux/affinity.c keeps a place as a set of logical CPUs.         *)
(*                                                                         *)
(* OMP_PLACES is read twice: to count the places, and, once the list is    *)
(* allocated, to fill it.  Removed places are kept behind the others to be *)
(* filled again.  Left out are numbers that do not parse, failing malloc   *)
(* and a topology that cannot be read.  The count of threads(n), cores(n)  *)
(* and sockets(n) is positive, as the manual asks.                         *)
(***************************************************************************)
EXTENDS Integers, FiniteSets, SequencesExt

CONSTANTS MaxCpu,       \* 8 * gomp_cpuset_size
          CountLimit,   \* 65536 in the code
          Siblings,     \* Siblings[level][cpu]: the topology, levels 1 to 3
          Environments  \* what the variables say; usable: the CPUs of gomp_cpusetp

ASSUME PlaceListAssumption ==
    \A e \in Environments : e.usable # {} /\ e.usable \subseteq 0..MaxCpu - 1

VARIABLES env,          \* kind, level, count, items; affinity; bind; usable
          reading,      \* what is under way
          item,         \* the item that is read next
          count, any_negate,
          slots,        \* gomp_places_list, NoList if NULL: addresses
          memory,       \* memory[p]: the set of CPUs at address p
          len,          \* gomp_places_list_len
          bound         \* bind_var is not omp_proc_bind_false
listVars == <<env, reading, item, count, any_negate, slots, memory, len, bound>>

NoList == <<>>
Size == Cardinality(DOMAIN slots)

ListBegins ==
    /\ reading = IF env.kind = "list" THEN "count" ELSE env.kind
    /\ item = 1 /\ count = 0 /\ any_negate = FALSE
    /\ slots = NoList /\ memory = <<>> /\ len = 0
    /\ bound = (env.bind = "true")

ListInit == env \in Environments /\ ListBegins

Ignore == env.bind = "false"

\* gomp_affinity_alloc: addresses are numbered in the order of the list.
Alloc(n) ==
    /\ slots' = [i \in 0..n - 1 |-> i]
    /\ memory' = [i \in 0..n - 1 |-> {}]
    /\ len' = 0

FreeList == slots' = NoList /\ memory' = <<>> /\ len' = 0
-----------------------------------------------------------------------------
(* One place: {num:len:stride, !num}:len:stride, or !{...}.                *)

OutOfRange == {-1}

AddCpus(p, c) ==
    LET cpus == {c.num + k * c.stride : k \in 0..c.len - 1}
    IN IF p # OutOfRange /\ cpus \subseteq 0..MaxCpu - 1 THEN p \cup cpus ELSE OutOfRange

RemoveCpu(p, c) == IF c.num \in p THEN p \ {c.num} ELSE OutOfRange

\* parse_one_place fills p in two passes, since what it removes may stand before
\* what it adds.
ParsePlace(it) ==
    LET added == FoldLeft(LAMBDA p, c : IF c.negate THEN p ELSE AddCpus(p, c), {}, it.cpus)
    IN FoldLeft(LAMBDA p, c : IF c.negate THEN RemoveCpu(p, c) ELSE p, added, it.cpus)

\* gomp_affinity_copy_place
CopyPlace(p, stride) ==
    LET q == {c + stride : c \in p}
    IN IF p # OutOfRange /\ q \subseteq 0..MaxCpu - 1 THEN q ELSE OutOfRange

\* len copies of p, each a stride from the one before; function on 0..len - 1.
Copies(p, it) ==
    LET f[k \in 0..it.len - 1] == IF k = 0 THEN p ELSE CopyPlace(f[k - 1], it.stride)
    IN f

WellFormed(it) ==
    /\ it.len < CountLimit
    /\ it.negate => it.len = 1
    /\ \A k \in DOMAIN it.cpus : it.cpus[k].negate => it.cpus[k].len = 1
-----------------------------------------------------------------------------
(* parse_places_var.                                                       *)

Invalid ==
    /\ FreeList /\ reading' = "affinity" /\ item' = 1
    /\ UNCHANGED <<env, count, any_negate, bound>>

\* initialize_env once OMP_PLACES was set successfully.
PlacesSet ==
    /\ bound' = TRUE /\ reading' = "init affinity"
    /\ UNCHANGED <<env, item, count, any_negate>>

\* mutant: the place to remove is read into no slot of its own
NoSlotToRemove(it) == IF it.negate THEN 0 ELSE it.len

\* The first place to be removed needs a slot to be read into.
SlotsFor(it) == IF it.negate THEN (IF any_negate THEN 0 ELSE 1) ELSE it.len

CountPlace ==
    /\ reading = "count"
    /\ LET it == env.items[item]
           n == count + SlotsFor(it)
       IN IF ~WellFormed(it) \/ n > CountLimit THEN Invalid
          ELSE /\ count' = n /\ any_negate' = (any_negate \/ it.negate)
               /\ IF item < Len(env.items)
                  THEN item' = item + 1 /\ UNCHANGED <<reading, slots, memory, len>>
                  ELSE /\ item' = 1
                       /\ IF Ignore
                          THEN reading' = "affinity" /\ UNCHANGED <<slots, memory, len>>
                          ELSE reading' = "fill" /\ Alloc(n)
               /\ UNCHANGED <<env, bound>>

\* memmove, and the removed place's slot behind the last place.
RemovePlace(k) ==
    [i \in DOMAIN slots |-> IF i < k \/ i >= len THEN slots[i]
                            ELSE IF i = len - 1 THEN slots[k] ELSE slots[i + 1]]

Same(p) == {i \in 0..len - 1 : memory[slots[i]] = p}
First(S) == CHOOSE i \in S : \A j \in S : i <= j

\* A write behind the list has no outcome here.
Overrun == reading' = "overrun" /\ UNCHANGED <<env, item, count, any_negate, slots,
                                              memory, len, bound>>

\* gomp_affinity_finalize_place_list: places without usable CPUs are dropped.
Finalize(list, mem, n) ==
    LET kept == SelectSeq([i \in 1..n |-> list[i - 1]],
                          LAMBDA p : mem[p] \cap env.usable # {})
    IN IF kept = <<>> THEN Invalid
       ELSE /\ slots' = [i \in DOMAIN list |-> IF i < Len(kept) THEN kept[i + 1] ELSE list[i]]
            /\ memory' = [p \in DOMAIN mem |->
                             IF \E i \in 0..n - 1 : list[i] = p THEN mem[p] \cap env.usable
                             ELSE mem[p]]
            /\ len' = Len(kept)
            /\ PlacesSet

Filled(list, mem, n) ==
    IF item = Len(env.items) THEN Finalize(list, mem, n)
    ELSE /\ slots' = list /\ memory' = mem /\ len' = n /\ item' = item + 1
         /\ UNCHANGED <<env, reading, count, any_negate, bound>>

FillPlace ==
    /\ reading = "fill"
    /\ LET it == env.items[item]
           p == ParsePlace(it)
           copies == Copies(p, it)
           index == [k \in 0..it.len - 1 |-> slots[len + k]]
       IN IF len >= Size THEN Overrun
          ELSE IF it.negate
          THEN LET mem == [memory EXCEPT ![slots[len]] = p]
               IN IF p = OutOfRange \/ Same(p) = {} THEN Invalid
                  ELSE Filled(RemovePlace(First(Same(p))), mem, len - 1)
          ELSE IF len + it.len > Size THEN Overrun
          ELSE IF OutOfRange \in Range(copies) THEN Invalid
          ELSE Filled(slots,
                      [a \in DOMAIN memory |->
                          IF a \in Range(index)
                          THEN copies[CHOOSE k \in DOMAIN index : index[k] = a]
                          ELSE memory[a]],
                      len + it.len)

\* gomp_affinity_init_level: the sets of siblings in the order of their first CPU,
\* taken from the CPUs that are in no place yet.
LevelPlaces(level, n) ==
    FoldLeft(LAMBDA s, i :
                 IF Len(s.places) < n /\ i \in s.copy
                 THEN [places |-> Append(s.places, Siblings[level][i] \cap s.copy),
                       copy |-> s.copy \ Siblings[level][i]]
                 ELSE s,
             [places |-> <<>>, copy |-> env.usable], [i \in 1..MaxCpu |-> i - 1]).places

InitLevel(level, n) ==
    LET places == LevelPlaces(level, n)
        size == IF n > Cardinality(env.usable) THEN Cardinality(env.usable) ELSE n
    IN /\ slots' = [i \in 0..size - 1 |-> i]
       /\ memory' = [i \in 0..size - 1 |->
                        IF i < Len(places) THEN places[i + 1] ELSE {}]
       /\ len' = Len(places)

\* threads(n), cores(n), sockets(n)
ReadLevel ==
    /\ reading = "level"
    /\ IF Ignore
       THEN /\ reading' = "affinity"
            /\ UNCHANGED <<env, item, count, any_negate, slots, memory, len, bound>>
       ELSE InitLevel(env.level, env.count) /\ PlacesSet
-----------------------------------------------------------------------------
(* parse_affinity: ranges first-last:stride of CPUs, a place each.         *)

Ranges == env.affinity
RangeSize(r) == (r.last - r.first) \div r.stride + 1
RangesSize == FoldLeft(LAMBDA n, r : n + RangeSize(r), 0, Ranges)
RangesParse == \A k \in DOMAIN Ranges : Ranges[k].first <= Ranges[k].last /\ Ranges[k].stride > 0

\* The first pass, or the whole of it.
ReadRanges ==
    /\ reading = "affinity"
    /\ IF Ranges = <<>> \/ Ignore \/ ~RangesParse
       THEN reading' = "init affinity" /\ UNCHANGED <<slots, memory, len>>
       ELSE reading' = "ranges" /\ Alloc(RangesSize)
    /\ UNCHANGED <<env, item, count, any_negate, bound>>

\* A CPU that cannot be in a set leaves its slot to the next one.
FillRange ==
    /\ reading = "ranges"
    /\ LET r == Ranges[item]
           cpus == SelectSeq([k \in 1..RangeSize(r) |-> r.first + (k - 1) * r.stride],
                             LAMBDA c : c < MaxCpu)
           n == len + Len(cpus)
       IN /\ memory' = [i \in DOMAIN memory |->
                           IF i \in len..n - 1 THEN {cpus[i - len + 1]} ELSE memory[i]]
          /\ IF item < Len(Ranges)
             THEN item' = item + 1 /\ len' = n /\ UNCHANGED <<reading, slots, bound>>
             ELSE /\ reading' = "init affinity" /\ item' = 1 /\ len' = n
                  /\ slots' = IF n = 0 THEN NoList ELSE slots
                  /\ bound' = (bound \/ n > 0)
    /\ UNCHANGED <<env, count, any_negate>>

\* gomp_init_affinity, if bind_var is not false: a place per CPU by default.
InitAffinity ==
    /\ reading = "init affinity"
    /\ IF bound /\ slots = NoList THEN InitLevel(1, MaxCpu)
       ELSE UNCHANGED <<slots, memory, len>>
    /\ reading' = "done"
    /\ UNCHANGED <<env, item, count, any_negate, bound>>

ListNext ==
    CountPlace \/ FillPlace \/ ReadLevel \/ ReadRanges \/ FillRange \/ InitAffinity

ListSpec == ListInit /\ [][ListNext]_listVars
-----------------------------------------------------------------------------
(* What the variables name, as sequences of sets.                          *)

Nothing == <<>>

Wrong == <<OutOfRange>>

\* The places of a list, in order, and those that are taken away again.
NamedPlaces ==
    FoldLeft(LAMBDA s, it :
                 LET p == ParsePlace(it)
                     q == [k \in 1..it.len |-> {c + (k - 1) * it.stride : c \in p}]
                 IN IF s = Wrong \/ ~WellFormed(it) \/ p = OutOfRange THEN Wrong
                    ELSE IF it.negate
                    THEN IF Contains(s, p) THEN RemoveFirst(s, p) ELSE Wrong
                    ELSE IF \A k \in 1..it.len : q[k] \subseteq 0..MaxCpu - 1
                    THEN s \o q ELSE Wrong,
             <<>>, env.items)

Named == FoldLeft(LAMBDA n, it : n + (IF it.negate THEN 0 ELSE it.len), 0, env.items)
Removes == \E k \in DOMAIN env.items : env.items[k].negate

UsablePlaces ==
    IF NamedPlaces = Wrong \/ Named + (IF Removes THEN 1 ELSE 0) > CountLimit THEN Nothing
    ELSE LET cut == [k \in DOMAIN NamedPlaces |-> NamedPlaces[k] \cap env.usable]
         IN SelectSeq(cut, LAMBDA p : p # {})

\* The sets of siblings among the usable CPUs, by their first CPU.
LevelSets(level) ==
    SetToSortSeq({Siblings[level][c] \cap env.usable : c \in env.usable},
                 LAMBDA p, q : First(p) < First(q))

FromPlaces ==
    IF Ignore \/ env.kind = "affinity" THEN Nothing
    ELSE IF env.kind = "level"
         THEN SubSeq(LevelSets(env.level), 1,
                     IF env.count < Len(LevelSets(env.level)) THEN env.count
                     ELSE Len(LevelSets(env.level)))
         ELSE UsablePlaces

FromAffinity ==
    IF Ignore \/ Ranges = <<>> \/ ~RangesParse THEN Nothing
    ELSE FlattenSeq([k \in DOMAIN Ranges |->
             SelectSeq([j \in 1..RangeSize(Ranges[k]) |->
                           {Ranges[k].first + (j - 1) * Ranges[k].stride}],
                       LAMBDA p : p \subseteq 0..MaxCpu - 1)])

\* The list is never written behind its end, whatever places are added and removed
\* in whatever order; and the places a program starts with are those OMP_PLACES
\* names, else those of GOMP_CPU_AFFINITY, else one per CPU if threads are to be
\* bound, which they are if OMP_PROC_BIND says so or says nothing and there are
\* places (initialize_env, "Make sure OMP_PLACES and GOMP_CPU_AFFINITY env vars are
\* always parsed").
PlacesAsWritten ==
    /\ reading # "overrun"
    /\ reading = "done" =>
          LET named == IF FromPlaces # Nothing THEN FromPlaces ELSE FromAffinity
          IN /\ bound = (env.bind = "true" \/ named # Nothing)
             /\ [k \in 1..len |-> memory[slots[k - 1]]] =
                    IF named # Nothing THEN named ELSE IF bound THEN LevelSets(1) ELSE <<>>
=============================================================================
