------------------------------- MODULE HashTab ------------------------------
(***************************************************************************)
(* The open-addressing hash table in which a task keeps the addresses its  *)
(* children depend on (hashtab.h, as task.c uses it under task_lock):      *)
(* double hashing in tables of prime size, marks where an entry was        *)
(* deleted, and growth.  TeamTasks takes it for a map.                     *)
(***************************************************************************)
EXTENDS Integers, FiniteSets, FiniteSetsExt

CONSTANTS Addresses,    \* what may be entered
          Hash,         \* htab_hash of each of them
          Primes,       \* the primes of prime_tab, by their index
          FirstSize     \* what htab_create is asked for first

ASSUME HashAssumption ==
    /\ IsFiniteSet(Addresses) /\ Addresses \cap {"empty", "deleted"} = {}
    /\ FirstSize \in Nat
    /\ \A a \in Addresses : Hash[a] \in Nat
    /\ \A p \in Primes : p \in Nat /\ p > 3 /\ \A d \in 2..p - 1 : p % d # 0
    \* "If we've run out of primes, abort."
    /\ \E p \in Primes : p >= FirstSize /\ p >= 2 * Cardinality(Addresses)

VARIABLES htab,     \* size, n_elements, n_deleted, entries
          entered   \* history: what was entered and not removed
hashVars == <<htab, entered>>

\* htab_create with higher_prime_index: the smallest prime that is not below n.
Create(n) ==
    LET size == Min({p \in Primes : p >= n})
    IN [size |-> size, n_elements |-> 0, n_deleted |-> 0,
        entries |-> [i \in 0..size - 1 |-> "empty"]]

HashInit == htab = Create(FirstSize) /\ entered = {}

\* The j-th place where a is looked for: htab_mod, and steps of htab_mod_m2.
Slot(h, a, j) == ((Hash[a] % h.size) + j * (1 + (Hash[a] % (h.size - 2)))) % h.size

\* The rounds after which a search for a ends at an entry of the given ones.
Rounds(h, a, ones) == {j \in 0..h.size - 1 : h.entries[Slot(h, a, j)] \in ones}

\* A search ends at a itself or at an empty entry.
Ends(h, a) == Slot(h, a, Min(Rounds(h, a, {"empty", a})))

\* The table that htab_expand moves the entries to.
NewTable(h) ==
    LET elts == h.n_elements - h.n_deleted
    IN [Create(IF elts * 2 > h.size \/ (elts * 8 < h.size /\ h.size > 32)
               THEN elts * 2 ELSE h.size - 1) EXCEPT !.n_elements = elts]

\* find_empty_slot_for_expand, and the store into the slot.
Move(h, x) ==
    IF x \in {"empty", "deleted"} THEN h
    ELSE [h EXCEPT !.entries[Slot(h, x, Min(Rounds(h, x, {"empty"})))] = x]

\* htab_expand: the entries move in the order of their slots.
Expand(h) ==
    LET moved[i \in 0..h.size] ==
            IF i = 0 THEN NewTable(h) ELSE Move(moved[i - 1], h.entries[i - 1])
    IN moved[h.size]

\* mutant: the table is expanded when there is no empty entry left
FullAtLast(h) == h.size <= h.n_elements

Full(h) == h.size * 3 <= h.n_elements * 4

\* htab_find_slot (INSERT), and the store into the slot.
Enter(h, a) ==
    LET last == Min(Rounds(h, a, {"empty", a}))
        marks == {j \in Rounds(h, a, {"deleted"}) : j < last}
    IN IF h.entries[Slot(h, a, last)] = a THEN h
       ELSE IF marks # {}
       THEN [h EXCEPT !.n_deleted = @ - 1, !.entries[Slot(h, a, Min(marks))] = a]
       ELSE [h EXCEPT !.n_elements = @ + 1, !.entries[Slot(h, a, last)] = a]

HashEnter(a) ==
    /\ htab' = Enter(IF Full(htab) THEN Expand(htab) ELSE htab, a)
    /\ entered' = entered \cup {a}

\* htab_find_slot (NO_INSERT) and htab_clear_slot, of a task that has finished.
HashClear(a) ==
    /\ a \in entered
    /\ htab' = [htab EXCEPT !.entries[Ends(htab, a)] = "deleted", !.n_deleted = @ + 1]
    /\ entered' = entered \ {a}

HashNext == \E a \in Addresses : HashEnter(a) \/ HashClear(a)

HashSpec == HashInit /\ [][HashNext]_hashVars
-----------------------------------------------------------------------------
\* Whatever was entered, removed and moved: htab_find ends for every address and
\* finds those that are in the table, each of them once, and the counters by which
\* the table grows are right.
TableIsAMap ==
    /\ \A a \in Addresses :
          /\ Rounds(htab, a, {"empty", a}) # {}
          /\ (htab.entries[Ends(htab, a)] = a) = (a \in entered)
    /\ Cardinality({i \in DOMAIN htab.entries : htab.entries[i] \in entered}) =
          Cardinality(entered)
    /\ Cardinality({i \in DOMAIN htab.entries : htab.entries[i] # "empty"}) =
          htab.n_elements
    /\ htab.n_elements - htab.n_deleted = Cardinality(entered)
=============================================================================
