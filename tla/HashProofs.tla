----------------------------- MODULE HashProofs -----------------------------
(***************************************************************************)
(* The hash table is a map: whatever is entered, removed and moved, every  *)
(* search ends and finds what is in it.  For every hash function, every    *)
(* finite set of addresses and every set of primes that does not run out.  *)
(***************************************************************************)
EXTENDS HashTab, FiniteSetTheorems, WellFoundedInduction, TLAPS

\* The minimum of a set of natural numbers is in the set and below the others.
LEMMA MinOfNats ==
    ASSUME NEW S \in SUBSET Nat, S # {}
    PROVE  Min(S) \in S /\ \A y \in S : Min(S) <= y
<1>1. \E x \in S : \A y \in S : ~(<<y, x>> \in OpToRel(<, Nat))
  BY WFMin, NatLessThanWellFounded, Zenon
<1>2. PICK x \in S : \A y \in S : ~(<<y, x>> \in OpToRel(<, Nat))
  BY <1>1
<1>3. \A y \in S : ~(y < x)
  BY <1>2 DEF OpToRel
<1>4. \E z \in S : \A y \in S : z =< y
  BY <1>3
<1> QED
  BY <1>4 DEF Min
-----------------------------------------------------------------------------
(* Double hashing: in a table of prime size the places where an address is *)
(* looked for are all the places there are.                                *)

\* What / and % are in terms of each other.
LEMMA Division ==
    ASSUME NEW a \in Nat, NEW b \in Nat \ {0}
    PROVE  /\ a \div b \in Nat /\ a % b \in 0..(b - 1)
           /\ a = b * (a \div b) + (a % b)
OBVIOUS

\* A multiple of p leaves no remainder.
LEMMA Multiple ==
    ASSUME NEW p \in Nat \ {0}, NEW k \in Nat
    PROVE  (p * k) % p = 0
<1>1. p * k \in Nat
  OBVIOUS
<1>2. PICK q \in Nat, r \in 0..(p - 1) : p * k = p * q + r /\ r = (p * k) % p
  BY <1>1, Division
<1>3. ASSUME r # 0 PROVE FALSE
  <2>1. p * (k - q) = r
    BY <1>2
  <2>2. k - q >= 1
    <3>1. SUFFICES ASSUME k - q <= 0 PROVE FALSE
      OBVIOUS
    <3>2. PICK d \in Nat : d = q - k
      BY <3>1
    <3>3. p * d \in Nat /\ p * (k - q) = -(p * d)
      BY <3>2
    <3> QED
      BY <1>3, <2>1, <3>3
  <2>3. PICK e \in Nat : k - q = e + 1
    <3>1. k - q - 1 \in Nat /\ k - q = (k - q - 1) + 1
      BY <2>2
    <3> QED
      BY <3>1
  <2>4. p * (k - q) = p * e + p /\ p * e \in Nat
    BY <2>3
  <2> QED
    BY <2>1, <2>4
<1> QED
  BY <1>2, <1>3

\* What HashAssumption says of the entries of prime_tab (hashtab.h).
IsPrime(p) == p \in Nat /\ p > 3 /\ \A d \in 2..p - 1 : p % d # 0

\* Euclid: the least i with p | i * s would divide p.
LEMMA NoMultiple ==
    ASSUME NEW p, IsPrime(p), NEW s \in 1..p - 1, NEW j \in 1..p - 1
    PROVE  (j * s) % p # 0
<1> DEFINE J == {i \in 1..p - 1 : (i * s) % p = 0}
<1>0. p \in Nat \ {0} /\ s \in Nat /\ s < p /\ s % p # 0
  BY DEF IsPrime
<1> SUFFICES ASSUME (j * s) % p = 0 PROVE FALSE
  OBVIOUS
<1>1. /\ J \in SUBSET Nat /\ J # {}
      /\ \A i : i \in J <=> i \in 1..p - 1 /\ (i * s) % p = 0
  <2>1. J \in SUBSET Nat
    BY <1>0
  <2>2. j \in J
    OBVIOUS
  <2> QED
    BY <2>1, <2>2
<1> HIDE DEF J
<1>2. PICK m \in J : \A i \in J : m <= i
  <2>1. Min(J) \in J /\ \A i \in J : Min(J) <= i
    BY <1>1, MinOfNats
  <2> QED
    BY <2>1
<1>3. m \in Nat \ {0} /\ m <= p - 1 /\ (m * s) % p = 0
  <2>1. m \in 1..p - 1 /\ (m * s) % p = 0
    BY <1>1, <1>2
  <2> QED
    BY <1>0, <2>1
<1>4. m # 1
  BY <1>0, <1>3
<1>5. PICK q \in Nat, r \in Nat : p = m * q + r /\ r < m /\ r = p % m
  <2>1. p \div m \in Nat /\ p % m \in 0..(m - 1) /\ p = m * (p \div m) + (p % m)
    BY <1>0, <1>3, Division
  <2>2. PICK q \in Nat, r \in Nat : q = p \div m /\ r = p % m
    BY <1>3, <2>1
  <2>3. p = m * q + r /\ r < m
    BY <1>3, <2>1, <2>2
  <2> QED
    BY <2>2, <2>3
<1>6. r # 0
  BY <1>0, <1>3, <1>4, <1>5 DEF IsPrime
<1>7. PICK c \in Nat : m * s = p * c
  <2>1. m * s \in Nat
    BY <1>0, <1>3
  <2>2. (m * s) \div p \in Nat /\ m * s = p * ((m * s) \div p) + 0
    BY <1>0, <1>3, <2>1, Division
  <2>3. p * ((m * s) \div p) + 0 = p * ((m * s) \div p)
    BY <1>0, <2>2
  <2> QED
    BY <2>2, <2>3
<1>8. r * s = p * (s - q * c)
  <2>1. p * s = m * q * s + r * s
    BY <1>0, <1>3, <1>5
  <2>2. m * q * s = q * (m * s) /\ q * (p * c) = p * (q * c)
    BY <1>0, <1>3, <1>5, <1>7
  <2>3. p * (s - q * c) = p * s - p * (q * c)
    BY <1>0, <1>5, <1>7
  <2>4. q * (m * s) = q * (p * c)
    BY <1>7
  <2> QED
    BY <2>1, <2>2, <2>3, <2>4, <1>0, <1>3, <1>5, <1>7
<1>9. s - q * c \in Nat
  <2>1. PICK d \in Int : d = s - q * c
    BY <1>0, <1>5, <1>7
  <2>2. r * s \in Nat /\ p * d = r * s
    BY <1>0, <1>5, <1>8, <2>1
  <2>3. ASSUME d < 0 PROVE FALSE
    <3>1. PICK e \in Nat : d = -(e + 1)
      <4>1. -d - 1 \in Nat /\ d = -((-d - 1) + 1)
        BY <2>3
      <4> QED
        BY <4>1
    <3>2. p * d = -(p * e + p) /\ p * e \in Nat
      BY <1>0, <3>1
    <3> QED
      BY <1>0, <2>2, <3>2
  <2> QED
    BY <2>1, <2>3
<1>10. (r * s) % p = 0
  BY <1>0, <1>8, <1>9, Multiple
<1>11. r \in J
  <2>1. r \in 1..p - 1
    BY <1>0, <1>3, <1>5, <1>6
  <2> QED
    BY <1>1, <1>10, <2>1
<1>12. m <= r
  BY <1>2, <1>11
<1> QED
  BY <1>3, <1>5, <1>12

\* The places where an address is looked for in a table of size n: its first
\* place and its step.
Place(n, a, j) == ((Hash[a] % n) + j * (1 + (Hash[a] % (n - 2)))) % n

\* They are as many different places as there are, since the size is prime.
LEMMA Places ==
    ASSUME NEW n, IsPrime(n), NEW a \in Addresses
    PROVE  /\ \A j \in 0..n - 1 : Place(n, a, j) \in 0..n - 1
           /\ \A j, k \in 0..n - 1 : Place(n, a, j) = Place(n, a, k) => j = k
           /\ \A i \in 0..n - 1 : \E j \in 0..n - 1 : Place(n, a, j) = i
<1>1. n \in Nat \ {0} /\ n > 3 /\ n - 2 \in Nat \ {0} /\ Hash[a] \in Nat
  BY HashAssumption DEF IsPrime
<1>2. PICK h \in 0..n - 1, s \in 1..n - 1 : h = Hash[a] % n /\ s = 1 + (Hash[a] % (n - 2))
  <2>1. Hash[a] % n \in 0..n - 1 /\ Hash[a] % (n - 2) \in 0..(n - 2) - 1
    BY <1>1, Division
  <2> QED
    BY <1>1, <2>1
<1>3. \A j : Place(n, a, j) = (h + j * s) % n
  BY <1>2 DEF Place
<1>4. ASSUME NEW j \in 0..n - 1
      PROVE  /\ h + j * s \in Nat /\ (h + j * s) \div n \in Nat
             /\ Place(n, a, j) \in 0..n - 1
             /\ h + j * s = n * ((h + j * s) \div n) + Place(n, a, j)
  <2>1. h + j * s \in Nat
    BY <1>1
  <2> QED
    BY <1>1, <1>3, <2>1, Division
<1>5. ASSUME NEW j \in 0..n - 1, NEW k \in 0..n - 1, j < k, Place(n, a, j) = Place(n, a, k)
      PROVE  FALSE
  <2>1. PICK x \in Nat, y \in Nat, r \in Nat : h + j * s = n * x + r /\ h + k * s = n * y + r
    <3>1. h + j * s = n * ((h + j * s) \div n) + Place(n, a, j) /\ (h + j * s) \div n \in Nat
      BY <1>4
    <3>2. h + k * s = n * ((h + k * s) \div n) + Place(n, a, k) /\ (h + k * s) \div n \in Nat
      BY <1>4
    <3>3. Place(n, a, k) = Place(n, a, j) /\ Place(n, a, j) \in Nat
      BY <1>1, <1>4, <1>5
    <3> QED
      BY <3>1, <3>2, <3>3
  <2>2. PICK d \in 1..n - 1 : k = j + d
    <3>1. k - j \in 1..n - 1 /\ k = j + (k - j)
      BY <1>1, <1>5
    <3> QED
      BY <3>1
  <2>3. d * s = n * (y - x)
    <3>1. k * s = j * s + d * s /\ n * (y - x) = n * y - n * x
      BY <1>1, <2>1, <2>2
    <3>2. PICK js \in Nat, ds \in Nat, nx \in Nat, ny \in Nat :
             js = j * s /\ ds = d * s /\ nx = n * x /\ ny = n * y
      BY <1>1, <2>1, <2>2
    <3>3. h + js = nx + r /\ h + (js + ds) = ny + r /\ h \in Nat
      BY <1>1, <2>1, <3>1, <3>2
    <3>4. ds = ny - nx
      BY <3>2, <3>3
    <3> QED
      BY <3>1, <3>2, <3>4
  <2>4. y - x \in Nat
    <3>1. SUFFICES ASSUME y - x < 0 PROVE FALSE
      BY <2>1
    <3>2. PICK e \in Nat : y - x = -(e + 1)
      <4>1. -(y - x) - 1 \in Nat /\ y - x = -((-(y - x) - 1) + 1)
        BY <2>1, <3>1
      <4> QED
        BY <4>1
    <3>3. n * (y - x) = -(n * e + n) /\ n * e \in Nat /\ d * s \in Nat
      BY <1>1, <2>2, <3>2
    <3> QED
      BY <1>1, <2>3, <3>3
  <2>5. (d * s) % n = 0
    BY <1>1, <2>3, <2>4, Multiple
  <2> QED
    BY <2>2, <2>5, NoMultiple
<1>6. \A j, k \in 0..n - 1 : Place(n, a, j) = Place(n, a, k) => j = k
  <2> SUFFICES ASSUME NEW j \in 0..n - 1, NEW k \in 0..n - 1, Place(n, a, j) = Place(n, a, k), j # k
               PROVE  FALSE
    OBVIOUS
  <2>1. j < k \/ k < j
    BY <1>1
  <2> QED
    BY <1>5, <2>1
<1>7. \A i \in 0..n - 1 : \E j \in 0..n - 1 : Place(n, a, j) = i
  <2> DEFINE f == [j \in 0..n - 1 |-> Place(n, a, j)]
  <2>1. f \in Injection(0..n - 1, 0..n - 1)
    <3>1. f \in [0..n - 1 -> 0..n - 1]
      BY <1>4
    <3>2. \A j, k \in 0..n - 1 : f[j] = f[k] => j = k
      BY <1>6
    <3> QED
      BY <3>1, <3>2 DEF Injection, IsInjective
  <2>2. IsFiniteSet(0..n - 1)
    BY <1>1, FS_Interval
  <2>3. f \in Surjection(0..n - 1, 0..n - 1)
    BY <2>1, <2>2, FS_Injection
  <2> QED
    BY <2>3 DEF Surjection
<1> QED
  BY <1>4, <1>6, <1>7
-----------------------------------------------------------------------------
(* What a table holds.                                                     *)

Ring(h) == 0..h.size - 1
Occupied(h) == {i \in Ring(h) : h.entries[i] # "empty"}
Marked(h) == {i \in Ring(h) : h.entries[i] = "deleted"}

IsTable(h) ==
    /\ h = [size |-> h.size, n_elements |-> h.n_elements, n_deleted |-> h.n_deleted,
            entries |-> h.entries]
    /\ h.size \in Primes

\* The addresses of E are in the table, each of them once, and no entry that a
\* search for one of them passes is empty.
Holds(h, E) ==
    /\ IsTable(h)
    /\ E \subseteq Addresses
    /\ h.entries \in [Ring(h) -> E \cup {"empty", "deleted"}]
    /\ \A a \in E : \E j \in Ring(h) :
          /\ h.entries[Slot(h, a, j)] = a
          /\ \A k \in 0..j - 1 : h.entries[Slot(h, a, k)] # "empty"
    /\ \A i, k \in Ring(h) : h.entries[i] = h.entries[k] /\ h.entries[i] \in E => i = k

\* n_elements counts the marks, too, and n_deleted counts them alone.
Counted(h) ==
    h.n_elements = Cardinality(Occupied(h)) /\ h.n_deleted = Cardinality(Marked(h))

\* The table holds what was entered and has an empty entry.
HashInv == Holds(htab, entered) /\ Counted(htab) /\ htab.n_elements < htab.size

\* The same of the probes of a search in a table.
LEMMA Slots ==
    ASSUME NEW h, h.size \in Primes, NEW a \in Addresses
    PROVE  /\ h.size \in Nat /\ h.size > 3
           /\ \A j \in Ring(h) : Slot(h, a, j) \in Ring(h)
           /\ \A j, k \in Ring(h) : Slot(h, a, j) = Slot(h, a, k) => j = k
           /\ \A i \in Ring(h) : \E j \in Ring(h) : Slot(h, a, j) = i
<1>1. IsPrime(h.size)
  BY HashAssumption DEF IsPrime
<1>2. \A j : Slot(h, a, j) = Place(h.size, a, j)
  BY DEF Slot, Place
<1>3. Ring(h) = 0..h.size - 1
  BY DEF Ring
<1> QED
  BY <1>1, <1>2, <1>3, Places DEF IsPrime

\* A table is finite, and so is what it counts.
LEMMA Sizes ==
    ASSUME NEW h, h.size \in Primes
    PROVE  /\ h.size \in Nat /\ h.size > 4 /\ Ring(h) \subseteq Nat
           /\ IsFiniteSet(Ring(h)) /\ Cardinality(Ring(h)) = h.size
           /\ IsFiniteSet(Occupied(h)) /\ Cardinality(Occupied(h)) \in Nat
           /\ IsFiniteSet(Marked(h)) /\ Cardinality(Marked(h)) \in Nat
<1>1. h.size \in Nat /\ h.size > 3 /\ h.size # 4
  BY HashAssumption
<1>2. IsFiniteSet(0..h.size - 1) /\ Cardinality(0..h.size - 1) = h.size
  <2>1. PICK n \in Nat : n = h.size - 1
    BY <1>1
  <2>2. 0 \in Int /\ n \in Int /\ ~(0 > n) /\ n - 0 + 1 = h.size
    BY <1>1, <2>1
  <2>3. IsFiniteSet(0..n) /\ Cardinality(0..n) = n - 0 + 1
    BY <2>2, FS_Interval
  <2> QED
    BY <2>1, <2>2, <2>3
<1>3. Occupied(h) \subseteq 0..h.size - 1 /\ Marked(h) \subseteq 0..h.size - 1
  BY DEF Occupied, Marked, Ring
<1> QED
  BY <1>1, <1>2, <1>3, FS_Subset, FS_CardinalityType DEF Ring

\* A search that looks for one of some entries finds the first on its way.
LEMMA FirstRound ==
    ASSUME NEW h, h.size \in Primes, NEW a \in Addresses, NEW S,
           \E i \in Ring(h) : h.entries[i] \in S
    PROVE  /\ Rounds(h, a, S) # {}
           /\ Min(Rounds(h, a, S)) \in Ring(h)
           /\ h.entries[Slot(h, a, Min(Rounds(h, a, S)))] \in S
           /\ \A k \in 0..Min(Rounds(h, a, S)) - 1 :
                 k \in Ring(h) /\ h.entries[Slot(h, a, k)] \notin S
<1>1. PICK i \in Ring(h) : h.entries[i] \in S
  OBVIOUS
<1>2. PICK j \in Ring(h) : Slot(h, a, j) = i
  BY <1>1, Slots
<1>3. \A x : x \in Rounds(h, a, S) <=> x \in Ring(h) /\ h.entries[Slot(h, a, x)] \in S
  BY DEF Rounds, Ring
<1>4. Ring(h) \subseteq Nat /\ h.size \in Nat
  BY Sizes
<1>5. j \in Rounds(h, a, S) /\ Rounds(h, a, S) \in SUBSET Nat
  BY <1>1, <1>2, <1>3, <1>4
<1>6. PICK m \in Rounds(h, a, S) : /\ m = Min(Rounds(h, a, S))
                                   /\ \A y \in Rounds(h, a, S) : m <= y
  BY <1>5, MinOfNats
<1>7. \A k \in 0..m - 1 : k \in Ring(h) /\ k \notin Rounds(h, a, S)
  <2>1. m \in Nat /\ m < h.size
    BY <1>3, <1>4, <1>6 DEF Ring
  <2>2. \A k \in 0..m - 1 : k \in Ring(h) /\ ~(m <= k)
    BY <1>4, <2>1 DEF Ring
  <2> QED
    BY <1>6, <2>2
<1> QED
  BY <1>3, <1>5, <1>6, <1>7

\* While there is an empty entry every search ends, at the address if it is there.
LEMMA Search ==
    ASSUME NEW h, NEW E, Holds(h, E), NEW a \in Addresses,
           Cardinality(Occupied(h)) < h.size
    PROVE  /\ \E i \in Ring(h) : h.entries[i] = "empty"
           /\ Rounds(h, a, {"empty", a}) # {}
           /\ Min(Rounds(h, a, {"empty", a})) \in Ring(h)
           /\ h.entries[Ends(h, a)] \in {"empty", a}
           /\ (h.entries[Ends(h, a)] = a) <=> (a \in E)
           /\ \A k \in 0..Min(Rounds(h, a, {"empty", a})) - 1 :
                 k \in Ring(h) /\ h.entries[Slot(h, a, k)] \notin {"empty", a}
<1>1. h.size \in Primes
  BY DEF Holds, IsTable
<1>2. \E i \in Ring(h) : h.entries[i] = "empty"
  <2>1. SUFFICES ASSUME \A i \in Ring(h) : h.entries[i] # "empty" PROVE FALSE
    OBVIOUS
  <2>2. Occupied(h) = Ring(h)
    BY <2>1 DEF Occupied
  <2> QED
    BY <1>1, <2>2, Sizes
<1>3. PICK m \in Ring(h) : /\ m = Min(Rounds(h, a, {"empty", a}))
                           /\ h.entries[Slot(h, a, m)] \in {"empty", a}
                           /\ \A k \in 0..m - 1 :
                                 k \in Ring(h) /\ h.entries[Slot(h, a, k)] \notin {"empty", a}
                           /\ Rounds(h, a, {"empty", a}) # {}
  <2>1. \E i \in Ring(h) : h.entries[i] \in {"empty", a}
    BY <1>2
  <2> QED
    BY <1>1, <2>1, FirstRound
<1>4. Ends(h, a) = Slot(h, a, m) /\ Slot(h, a, m) \in Ring(h)
  BY <1>1, <1>3, Slots DEF Ends
<1>5. a \in E => h.entries[Slot(h, a, m)] = a
  <2>1. SUFFICES ASSUME a \in E, h.entries[Slot(h, a, m)] = "empty" PROVE FALSE
    BY <1>3
  <2>2. PICK j \in Ring(h) : /\ h.entries[Slot(h, a, j)] = a
                             /\ \A k \in 0..j - 1 : h.entries[Slot(h, a, k)] # "empty"
    BY <2>1 DEF Holds
  <2>3. j \in Nat /\ m \in Nat
    BY <1>1, <1>3, <2>2, Sizes
  <2>4. ~(m < j)
    BY <2>1, <2>2, <2>3
  <2>5. ASSUME j < m PROVE FALSE
    <3>1. j \in 0..m - 1
      BY <2>3, <2>5
    <3>2. h.entries[Slot(h, a, j)] \notin {"empty", a}
      BY <1>3, <3>1
    <3> QED
      BY <2>2, <3>2
  <2>6. a # "empty"
    BY HashAssumption
  <2>7. j = m
    BY <2>3, <2>4, <2>5
  <2>8. a = "empty"
    BY <2>1, <2>2, <2>7
  <2> QED
    BY <2>6, <2>8
<1>6. h.entries[Slot(h, a, m)] = a => a \in E
  <2>1. a \notin {"empty", "deleted"}
    BY HashAssumption
  <2> QED
    BY <1>4, <2>1 DEF Holds
<1> QED
  BY <1>2, <1>3, <1>4, <1>5, <1>6
-----------------------------------------------------------------------------
(* What the steps of the operations do to a table.                         *)

\* Table g is table h with x in entry i, whatever its counters.
Stored(entries, i, x) == [entries EXCEPT ![i] = x]
Wrote(h, i, x, g) == IsTable(g) /\ g.size = h.size /\ g.entries = Stored(h.entries, i, x)

\* Entry i is the j-th that a search for a looks at, is free, and no entry before
\* it is empty.
Free(h, a, j, i) ==
    /\ j \in Ring(h) /\ i \in Ring(h) /\ i = Slot(h, a, j)
    /\ h.entries[i] \in {"empty", "deleted"}
    /\ \A k \in 0..j - 1 : h.entries[Slot(h, a, k)] # "empty"

\* An address is put where a search for it has met no empty entry before.
LEMMA Put ==
    ASSUME NEW h, NEW E, Holds(h, E), NEW a \in Addresses, a \notin E,
           NEW j, NEW i, Free(h, a, j, i),
           NEW g, Wrote(h, i, a, g)
    PROVE  Holds(g, E \cup {a})
<1>1. h.size \in Primes /\ Ring(g) = Ring(h) /\ IsTable(g)
  BY DEF Holds, IsTable, Ring, Wrote
<1>2. \A b, k : Slot(g, b, k) = Slot(h, b, k)
  BY DEF Slot, Wrote
<1>3. /\ j \in Ring(h) /\ i \in Ring(h) /\ i = Slot(h, a, j)
      /\ h.entries[i] \in {"empty", "deleted"}
      /\ \A k \in 0..j - 1 : h.entries[Slot(h, a, k)] # "empty"
  BY DEF Free
<1>4. a \notin {"empty", "deleted"} /\ E \subseteq Addresses
  BY HashAssumption DEF Holds
<1>5. h.entries \in [Ring(h) -> E \cup {"empty", "deleted"}]
  BY DEF Holds
<1>6. /\ g.entries \in [Ring(h) -> (E \cup {a}) \cup {"empty", "deleted"}]
      /\ g.entries[i] = a
      /\ \A k \in Ring(h) \ {i} : g.entries[k] = h.entries[k] /\ h.entries[k] # a
  BY <1>3, <1>4, <1>5 DEF Stored, Wrote
<1>7. \A b \in Addresses, k \in Ring(h) : Slot(h, b, k) \in Ring(h)
  BY <1>1, Slots
<1>8. \A k \in Ring(h) : /\ Ring(h) \subseteq Nat
                         /\ 0..k - 1 \subseteq Ring(h)
  <2>1. Ring(h) \subseteq Nat /\ h.size \in Nat
    BY <1>1, Sizes
  <2> QED
    BY <2>1 DEF Ring
<1>9. ASSUME NEW b \in E \cup {a}
      PROVE  \E k \in Ring(h) : /\ g.entries[Slot(h, b, k)] = b
                                /\ \A l \in 0..k - 1 : g.entries[Slot(h, b, l)] # "empty"
  <2>1. CASE b = a
    <3>1. \A k \in 0..j - 1 : g.entries[Slot(h, a, k)] # "empty"
      BY <1>3, <1>4, <1>6, <1>7, <1>8
    <3> QED
      BY <1>3, <1>6, <2>1, <3>1
  <2>2. CASE b \in E
    <3>1. PICK k \in Ring(h) : /\ h.entries[Slot(h, b, k)] = b
                               /\ \A l \in 0..k - 1 : h.entries[Slot(h, b, l)] # "empty"
      BY <2>2 DEF Holds
    <3>2. b \notin {"empty", "deleted"} /\ b \in Addresses
      BY <1>4, <2>2, HashAssumption
    <3>3. g.entries[Slot(h, b, k)] = b
      BY <1>3, <1>6, <1>7, <3>1, <3>2
    <3>4. \A l \in 0..k - 1 : g.entries[Slot(h, b, l)] # "empty"
      BY <1>4, <1>6, <1>7, <1>8, <3>1, <3>2
    <3> QED
      BY <3>3, <3>4
  <2> QED
    BY <2>1, <2>2
<1>10. ASSUME NEW l \in Ring(h), NEW k \in Ring(h),
              g.entries[l] = g.entries[k], g.entries[l] \in E \cup {a}
       PROVE  l = k
  BY <1>6, <1>10 DEF Holds
<1> QED
  BY <1>1, <1>2, <1>4, <1>6, <1>9, <1>10 DEF Holds

LEMMA PutCounts ==
    ASSUME NEW h, NEW E, Holds(h, E), NEW i \in Ring(h), NEW a \in Addresses,
           NEW g, Wrote(h, i, a, g)
    PROVE  Occupied(g) = Occupied(h) \cup {i} /\ Marked(g) = Marked(h) \ {i}
<1>1. Ring(g) = Ring(h) /\ a \notin {"empty", "deleted"}
  BY HashAssumption DEF Ring, Wrote
<1>2. g.entries[i] = a /\ \A k \in Ring(h) \ {i} : g.entries[k] = h.entries[k]
  BY DEF Stored, Wrote, Holds
<1> QED
  BY <1>1, <1>2 DEF Occupied, Marked

\* An address is removed: a mark takes its place, which a search passes.
LEMMA Mark ==
    ASSUME NEW h, NEW E, Holds(h, E), NEW a \in E, NEW i \in Ring(h), h.entries[i] = a,
           NEW g, Wrote(h, i, "deleted", g)
    PROVE  Holds(g, E \ {a})
<1>1. h.size \in Primes /\ Ring(g) = Ring(h) /\ IsTable(g)
  BY DEF Holds, IsTable, Ring, Wrote
<1>2. \A b, k : Slot(g, b, k) = Slot(h, b, k)
  BY DEF Slot, Wrote
<1>3. E \subseteq Addresses /\ E \cap {"empty", "deleted"} = {}
  BY HashAssumption DEF Holds
<1>4. /\ h.entries \in [Ring(h) -> E \cup {"empty", "deleted"}]
      /\ \A l, k \in Ring(h) : h.entries[l] = h.entries[k] /\ h.entries[l] \in E => l = k
  BY DEF Holds
<1>5. /\ g.entries \in [Ring(h) -> (E \ {a}) \cup {"empty", "deleted"}]
      /\ g.entries[i] = "deleted"
      /\ \A k \in Ring(h) \ {i} : g.entries[k] = h.entries[k] /\ h.entries[k] # a
  BY <1>4 DEF Stored, Wrote
<1>6. \A b \in Addresses, k \in Ring(h) : Slot(h, b, k) \in Ring(h)
  BY <1>1, Slots
<1>7. \A k \in Ring(h) : 0..k - 1 \subseteq Ring(h)
  <2>1. Ring(h) \subseteq Nat /\ h.size \in Nat
    BY <1>1, Sizes
  <2> QED
    BY <2>1 DEF Ring
<1>8. ASSUME NEW b \in E \ {a}
      PROVE  \E k \in Ring(h) : /\ g.entries[Slot(h, b, k)] = b
                                /\ \A l \in 0..k - 1 : g.entries[Slot(h, b, l)] # "empty"
  <2>1. PICK k \in Ring(h) : /\ h.entries[Slot(h, b, k)] = b
                             /\ \A l \in 0..k - 1 : h.entries[Slot(h, b, l)] # "empty"
    BY <1>8 DEF Holds
  <2>2. g.entries[Slot(h, b, k)] = b
    BY <1>3, <1>5, <1>6, <2>1
  <2>3. \A l \in 0..k - 1 : g.entries[Slot(h, b, l)] # "empty"
    BY <1>3, <1>5, <1>6, <1>7, <2>1
  <2> QED
    BY <2>2, <2>3
<1> QED
  BY <1>1, <1>2, <1>3, <1>4, <1>5, <1>8 DEF Holds

LEMMA MarkCounts ==
    ASSUME NEW h, NEW E, Holds(h, E), NEW i \in Ring(h), h.entries[i] \in E,
           NEW g, Wrote(h, i, "deleted", g)
    PROVE  /\ Occupied(g) = Occupied(h)
           /\ Marked(g) = Marked(h) \cup {i} /\ i \notin Marked(h)
<1>1. Ring(g) = Ring(h) /\ h.entries[i] \notin {"empty", "deleted"}
  BY HashAssumption DEF Ring, Wrote, Holds
<1>2. /\ g.entries[i] = "deleted"
      /\ \A k \in Ring(h) \ {i} : g.entries[k] = h.entries[k]
  BY DEF Stored, Wrote, Holds
<1> QED
  BY <1>1, <1>2 DEF Occupied, Marked

\* The fields of a table when entry i and the counters change.
Changed(h, i, x, u, v) ==
    [h EXCEPT !.n_elements = u, !.n_deleted = v, !.entries[i] = x]

LEMMA Fields ==
    ASSUME NEW h, IsTable(h), NEW i, NEW x, NEW u, NEW v
    PROVE  LET g == Changed(h, i, x, u, v)
           IN  /\ Wrote(h, i, x, g) /\ IsTable(g) /\ g.size = h.size
               /\ g.n_elements = u /\ g.n_deleted = v
<1>1. PICK s, n, d, e : /\ h = [size |-> s, n_elements |-> n, n_deleted |-> d, entries |-> e]
                        /\ s \in Primes
  BY DEF IsTable
<1>2. h.size = s /\ h.entries = e
  BY <1>1
<1>3. PICK g : g = Changed(h, i, x, u, v)
  OBVIOUS
<1>4. g = [size |-> s, n_elements |-> u, n_deleted |-> v, entries |-> Stored(e, i, x)]
  BY <1>1, <1>3 DEF Stored, Changed
<1>5. g.size = s /\ g.entries = Stored(e, i, x) /\ g.n_elements = u /\ g.n_deleted = v
  BY <1>4
<1>6. IsTable(g)
  BY <1>1, <1>4, <1>5 DEF IsTable
<1> QED
  BY <1>2, <1>3, <1>5, <1>6 DEF Wrote

\* What is in a table, by its counters.
LEMMA Counts ==
    ASSUME NEW h, NEW E, Holds(h, E)
    PROVE  /\ IsFiniteSet(E) /\ Cardinality(E) \in Nat
           /\ Cardinality(E) <= Cardinality(Addresses) /\ Cardinality(Addresses) \in Nat
           /\ Cardinality({i \in Ring(h) : h.entries[i] \in E}) = Cardinality(E)
           /\ Cardinality(Occupied(h)) = Cardinality(Marked(h)) + Cardinality(E)
<1> DEFINE L == {i \in Ring(h) : h.entries[i] \in E}
<1>1. h.size \in Primes /\ E \subseteq Addresses /\ E \cap {"empty", "deleted"} = {}
  BY HashAssumption DEF Holds, IsTable
<1>2. IsFiniteSet(Addresses) /\ IsFiniteSet(E) /\ Cardinality(E) <= Cardinality(Addresses)
  BY <1>1, HashAssumption, FS_Subset
<1>3. /\ h.entries \in [Ring(h) -> E \cup {"empty", "deleted"}]
      /\ \A a \in E : \E i \in Ring(h) : h.entries[i] = a
      /\ \A i, k \in Ring(h) : h.entries[i] = h.entries[k] /\ h.entries[i] \in E => i = k
  <2>1. \A a \in E : \E i \in Ring(h) : h.entries[i] = a
    <3> SUFFICES ASSUME NEW a \in E PROVE \E i \in Ring(h) : h.entries[i] = a
      OBVIOUS
    <3>1. PICK j \in Ring(h) : h.entries[Slot(h, a, j)] = a
      BY DEF Holds
    <3>2. Slot(h, a, j) \in Ring(h)
      BY <1>1, Slots
    <3> QED
      BY <3>1, <3>2
  <2> QED
    BY <2>1 DEF Holds
<1>4. IsFiniteSet(L)
  BY <1>1, Sizes, FS_Subset
<1>5. Cardinality(L) = Cardinality(E)
  <2> DEFINE f == [i \in L |-> h.entries[i]]
  <2>1. f \in [L -> E] /\ \A i \in L : f[i] = h.entries[i]
    OBVIOUS
  <2>2. f \in Surjection(L, E)
    <3>1. \A a \in E : \E i \in L : f[i] = a
      BY <1>3
    <3> QED
      BY <2>1, <3>1 DEF Surjection
  <2>3. f \in Injection(L, E)
    <3>1. \A i, k \in L : f[i] = f[k] => i = k
      BY <1>3, <2>1
    <3> QED
      BY <2>1, <3>1 DEF Injection, IsInjective
  <2> QED
    BY <1>4, <2>2, <2>3, FS_Surjection
<1>6. Occupied(h) = L \cup Marked(h) /\ L \cap Marked(h) = {}
  BY <1>1, <1>3 DEF Occupied, Marked
<1>7. IsFiniteSet(Marked(h)) /\ Cardinality(Marked(h)) \in Nat
  BY <1>1, Sizes
<1>8. Cardinality(E) \in Nat /\ Cardinality(Addresses) \in Nat /\ Cardinality({}) = 0
  BY <1>2, FS_CardinalityType, FS_EmptySet
<1> HIDE DEF L
<1>9. Cardinality(L \cup Marked(h)) =
         Cardinality(L) + Cardinality(Marked(h)) - Cardinality(L \cap Marked(h))
  BY <1>4, <1>7, FS_Union
<1>10. Cardinality(Occupied(h)) = Cardinality(Marked(h)) + Cardinality(E)
  <2>1. Cardinality(L \cap Marked(h)) = 0
    BY <1>6, <1>8, Zenon
  <2>2. Cardinality(Occupied(h)) = Cardinality(L \cup Marked(h))
    BY <1>6, Zenon
  <2> QED
    BY <1>5, <1>7, <1>8, <1>9, <2>1, <2>2
<1> QED
  BY <1>2, <1>5, <1>8, <1>10 DEF L

\* htab_create makes an empty table that is large enough.
LEMMA Creates ==
    ASSUME NEW n \in Int, \E p \in Primes : p >= n
    PROVE  /\ Holds(Create(n), {}) /\ Counted(Create(n)) /\ Marked(Create(n)) = {}
           /\ Create(n).n_elements = 0 /\ Create(n).n_deleted = 0
           /\ Create(n).size \in Primes /\ Create(n).size >= n
<1> DEFINE P == {p \in Primes : p >= n}
<1>1. P \in SUBSET Nat /\ P # {}
  BY HashAssumption
<1>2. PICK s \in Primes : s = Min(P) /\ s >= n
  <2>1. Min(P) \in P
    BY <1>1, MinOfNats
  <2> QED
    BY <2>1
<1>3. Create(n) = [size |-> s, n_elements |-> 0, n_deleted |-> 0,
                   entries |-> [i \in 0..s - 1 |-> "empty"]]
  BY <1>2 DEF Create
<1>4. Occupied(Create(n)) = {} /\ Marked(Create(n)) = {}
  BY <1>3 DEF Occupied, Marked, Ring
<1>5. Holds(Create(n), {})
  BY <1>2, <1>3 DEF Holds, IsTable, Ring
<1>6. Counted(Create(n))
  <2>1. Cardinality(Occupied(Create(n))) = 0 /\ Cardinality(Marked(Create(n))) = 0
    BY <1>4, FS_EmptySet, Zenon
  <2> QED
    BY <1>3, <2>1 DEF Counted
<1> QED
  BY <1>2, <1>3, <1>4, <1>5, <1>6

\* htab_find_slot (INSERT): in a mark that was passed, or in the empty entry.
LEMMA Enters ==
    ASSUME NEW h, NEW E, Holds(h, E), Counted(h), h.n_elements + 1 < h.size,
           NEW a \in Addresses
    PROVE  /\ Holds(Enter(h, a), E \cup {a}) /\ Counted(Enter(h, a))
           /\ Enter(h, a).n_elements < Enter(h, a).size
<1> DEFINE ones == {"empty", a}
           marks == {j \in Rounds(h, a, {"deleted"}) : j < Min(Rounds(h, a, ones))}
<1>1. /\ h.size \in Primes /\ IsTable(h)
      /\ IsFiniteSet(Occupied(h)) /\ IsFiniteSet(Marked(h)) /\ h.size \in Nat
      /\ Cardinality(Occupied(h)) \in Nat /\ Cardinality(Marked(h)) \in Nat
      /\ h.n_elements = Cardinality(Occupied(h)) /\ h.n_deleted = Cardinality(Marked(h))
      /\ Ring(h) \subseteq Nat
  BY Sizes DEF Holds, IsTable, Counted
<1>2. PICK m \in Ring(h) : /\ m = Min(Rounds(h, a, ones))
                           /\ h.entries[Slot(h, a, m)] \in {"empty", a}
                           /\ (h.entries[Slot(h, a, m)] = a) <=> (a \in E)
                           /\ \A k \in 0..m - 1 : h.entries[Slot(h, a, k)] \notin {"empty", a}
  <2>1. Cardinality(Occupied(h)) < h.size
    BY <1>1
  <2> QED
    BY <2>1, Search DEF Ends
<1>3. CASE h.entries[Slot(h, a, m)] = a
  <2>1. Enter(h, a) = h
    BY <1>2, <1>3 DEF Enter
  <2>2. E \cup {a} = E
    BY <1>2, <1>3
  <2>3. Holds(Enter(h, a), E \cup {a}) /\ Counted(Enter(h, a))
    BY <2>1, <2>2, Zenon
  <2>4. Enter(h, a).n_elements < Enter(h, a).size
    BY <1>1, <2>1
  <2> QED
    BY <2>3, <2>4
<1>4. CASE a \notin E /\ marks # {}
  <2>1. marks \in SUBSET Nat /\ \A x : x \in marks <=> x \in Ring(h) /\ x < m
                                        /\ h.entries[Slot(h, a, x)] = "deleted"
    BY <1>1, <1>2 DEF Rounds, Ring
  <2>11. Enter(h, a) = [h EXCEPT !.n_deleted = @ - 1, !.entries[Slot(h, a, Min(marks))] = a]
    BY <1>2, <1>4 DEF Enter
  <2> HIDE DEF marks
  <2>2. PICK j \in Ring(h) : j = Min(marks) /\ j < m /\ h.entries[Slot(h, a, j)] = "deleted"
    <3>1. Min(marks) \in marks
      BY <1>4, <2>1, MinOfNats
    <3> QED
      BY <2>1, <3>1
  <2>3. PICK i \in Ring(h) : i = Slot(h, a, j)
    BY <1>1, Slots
  <2>4. PICK g : g = Enter(h, a)
    OBVIOUS
  <2>5. /\ Wrote(h, i, a, g) /\ IsTable(g) /\ g.size = h.size
        /\ g.n_elements = h.n_elements /\ g.n_deleted = h.n_deleted - 1
    <3>1. g = [h EXCEPT !.n_deleted = h.n_deleted - 1, !.entries[i] = a]
      BY <2>2, <2>3, <2>4, <2>11
    <3>2. g = Changed(h, i, a, h.n_elements, h.n_deleted - 1)
      BY <1>1, <3>1 DEF IsTable, Changed
    <3> QED
      BY <1>1, <3>2, Fields
  <2>6. \A k \in 0..j - 1 : h.entries[Slot(h, a, k)] # "empty"
    <3>1. j \in Nat /\ m \in Nat /\ j < m
      BY <1>1, <2>2
    <3>2. 0..j - 1 \subseteq 0..m - 1
      BY <3>1
    <3> QED
      BY <1>2, <3>2
  <2>7. /\ Holds(g, E \cup {a})
        /\ Occupied(g) = Occupied(h) \cup {i} /\ Marked(g) = Marked(h) \ {i}
    <3>1. Free(h, a, j, i) /\ a \notin E
      BY <1>4, <2>2, <2>3, <2>6 DEF Free
    <3>2. Holds(g, E \cup {a})
      BY <2>5, <3>1, Put, Zenon
    <3> QED
      BY <2>5, <3>2, PutCounts
  <2>8. i \in Marked(h) /\ Occupied(g) = Occupied(h)
    BY <2>2, <2>3, <2>7 DEF Marked, Occupied
  <2>9. Cardinality(Marked(g)) = Cardinality(Marked(h)) - 1
    BY <1>1, <2>7, <2>8, FS_RemoveElement
  <2>10. Counted(g)
    BY <1>1, <2>5, <2>8, <2>9 DEF Counted
  <2> QED
    BY <1>1, <2>4, <2>5, <2>7, <2>10
<1>5. CASE a \notin E /\ marks = {}
  <2>1. PICK i \in Ring(h) : i = Slot(h, a, m)
    BY <1>1, Slots
  <2>2. h.entries[i] = "empty"
    BY <1>2, <1>5, <2>1
  <2>3. PICK g : g = Enter(h, a)
    OBVIOUS
  <2>4. /\ Wrote(h, i, a, g) /\ IsTable(g) /\ g.size = h.size
        /\ g.n_elements = h.n_elements + 1 /\ g.n_deleted = h.n_deleted
    <3>1. g = [h EXCEPT !.n_elements = h.n_elements + 1, !.entries[i] = a]
      BY <1>2, <1>5, <2>1, <2>2, <2>3 DEF Enter
    <3>2. g = Changed(h, i, a, h.n_elements + 1, h.n_deleted)
      BY <1>1, <3>1 DEF IsTable, Changed
    <3> QED
      BY <1>1, <3>2, Fields
  <2>5. /\ Holds(g, E \cup {a})
        /\ Occupied(g) = Occupied(h) \cup {i} /\ Marked(g) = Marked(h) \ {i}
    <3>1. Free(h, a, m, i) /\ a \notin E
      BY <1>2, <1>5, <2>1, <2>2 DEF Free
    <3>2. Holds(g, E \cup {a})
      BY <2>4, <3>1, Put, Zenon
    <3> QED
      BY <2>4, <3>2, PutCounts
  <2>6. i \notin Occupied(h) /\ Marked(g) = Marked(h)
    BY <2>2, <2>5 DEF Marked, Occupied
  <2>7. Cardinality(Occupied(g)) = Cardinality(Occupied(h)) + 1
    BY <1>1, <2>5, <2>6, FS_AddElement
  <2>8. Counted(g)
    BY <1>1, <2>4, <2>6, <2>7 DEF Counted
  <2> QED
    BY <1>1, <2>3, <2>4, <2>5, <2>8
<1> QED
  BY <1>2, <1>3, <1>4, <1>5

\* htab_find_slot (NO_INSERT) and htab_clear_slot.
LEMMA Clears ==
    ASSUME NEW h, NEW E, Holds(h, E), Counted(h), h.n_elements < h.size, NEW a \in E,
           NEW g, g = Changed(h, Ends(h, a), "deleted", h.n_elements, h.n_deleted + 1)
    PROVE  Holds(g, E \ {a}) /\ Counted(g) /\ g.n_elements < g.size
<1>1. /\ h.size \in Primes /\ IsTable(h) /\ a \in Addresses
      /\ IsFiniteSet(Marked(h)) /\ Cardinality(Occupied(h)) < h.size
      /\ Cardinality(Marked(h)) \in Nat
      /\ h.n_elements = Cardinality(Occupied(h)) /\ h.n_deleted = Cardinality(Marked(h))
  BY Sizes DEF Holds, IsTable, Counted
<1>2. PICK i \in Ring(h) : i = Ends(h, a) /\ h.entries[i] = a
  <2>1. h.entries[Ends(h, a)] = a /\ Min(Rounds(h, a, {"empty", a})) \in Ring(h)
    BY <1>1, Search
  <2>2. Ends(h, a) \in Ring(h)
    BY <1>1, <2>1, Slots DEF Ends
  <2> QED
    BY <2>1, <2>2
<1>3. /\ Wrote(h, i, "deleted", g) /\ IsTable(g) /\ g.size = h.size
      /\ g.n_elements = h.n_elements /\ g.n_deleted = h.n_deleted + 1
  BY <1>1, <1>2, Fields
<1>4. /\ Holds(g, E \ {a}) /\ Occupied(g) = Occupied(h)
      /\ Marked(g) = Marked(h) \cup {i} /\ i \notin Marked(h)
  <2>1. Holds(g, E \ {a})
    BY <1>2, <1>3, Mark, Zenon
  <2> QED
    BY <1>2, <1>3, <2>1, MarkCounts
<1>5. Cardinality(Marked(g)) = Cardinality(Marked(h)) + 1
  BY <1>1, <1>4, FS_AddElement
<1> QED
  BY <1>1, <1>3, <1>4, <1>5 DEF Counted
-----------------------------------------------------------------------------
(* htab_expand.                                                            *)

\* The entries that have been moved before entry i.
Before(h, E, i) == {a \in E : \E k \in 0..i - 1 : h.entries[k] = a}

\* The new table, before entry i is moved.
Moving(h, E, g, i) ==
    /\ Holds(g, Before(h, E, i)) /\ Marked(g) = {}
    /\ g.size = NewTable(h).size
    /\ g.n_elements = NewTable(h).n_elements /\ g.n_deleted = 0

\* The new table: it has room for what is in the old one, and for one more.
LEMMA NewTables ==
    ASSUME NEW h, NEW E, Holds(h, E), Counted(h)
    PROVE  /\ Moving(h, E, NewTable(h), 0)
           /\ NewTable(h).n_elements = Cardinality(E)
           /\ Cardinality(E) + 1 < NewTable(h).size
<1>1. PICK elts \in Nat : /\ elts = Cardinality(E) /\ elts = h.n_elements - h.n_deleted
                          /\ elts <= Cardinality(Addresses) /\ Cardinality(Addresses) \in Nat
  <2>1. h.size \in Primes
    BY DEF Holds, IsTable
  <2>2. Cardinality(E) = h.n_elements - h.n_deleted
    <3>1. /\ Cardinality(Occupied(h)) = Cardinality(Marked(h)) + Cardinality(E)
          /\ Cardinality(E) \in Nat
      BY Counts
    <3>2. Cardinality(Marked(h)) \in Nat
      BY <2>1, Sizes
    <3>3. h.n_elements = Cardinality(Occupied(h)) /\ h.n_deleted = Cardinality(Marked(h))
      BY DEF Counted
    <3> QED
      BY <3>1, <3>2, <3>3
  <2> QED
    BY <2>2, Counts
<1>2. h.size \in Primes /\ h.size \in Nat /\ h.size > 4
  BY Sizes DEF Holds, IsTable
<1> DEFINE n == IF elts * 2 > h.size \/ (elts * 8 < h.size /\ h.size > 32)
                THEN elts * 2 ELSE h.size - 1
<1>3. n \in Int /\ \E p \in Primes : p >= n
  <2>1. PICK p \in Primes : p >= 2 * Cardinality(Addresses) /\ p \in Nat
    BY HashAssumption
  <2>2. p >= elts * 2 /\ h.size >= h.size - 1
    BY <1>1, <1>2, <2>1
  <2> QED
    BY <1>1, <1>2, <2>1, <2>2
<1>4. /\ Holds(Create(n), {}) /\ Marked(Create(n)) = {}
      /\ Create(n).n_deleted = 0
      /\ Create(n).size \in Primes /\ Create(n).size >= n
  BY <1>3, Creates
<1>5. Create(n).size \in Nat /\ Create(n).size > 4
  BY <1>4, Sizes
<1>6. elts + 1 < Create(n).size
  BY <1>1, <1>2, <1>4, <1>5
<1>7. PICK c, g : /\ c = Create(n) /\ g = NewTable(h)
                  /\ g = [c EXCEPT !.n_elements = elts]
  BY <1>1 DEF NewTable
<1>8. IsTable(c) /\ c.entries \in [Ring(c) -> {"empty", "deleted"}]
  BY <1>4, <1>7 DEF Holds
<1>9. /\ IsTable(g) /\ g.size = c.size /\ g.entries = c.entries
      /\ g.n_elements = elts /\ g.n_deleted = c.n_deleted
  <2>1. PICK s, m, d, e : /\ c = [size |-> s, n_elements |-> m, n_deleted |-> d,
                                  entries |-> e]
                          /\ s \in Primes
    BY <1>8 DEF IsTable
  <2>2. g = [size |-> s, n_elements |-> elts, n_deleted |-> d, entries |-> e]
    BY <1>7, <2>1
  <2>3. /\ g.size = s /\ g.n_elements = elts /\ g.n_deleted = d /\ g.entries = e
        /\ c.size = s /\ c.n_deleted = d /\ c.entries = e
    BY <2>1, <2>2
  <2>4. IsTable(g)
    BY <2>1, <2>2, <2>3 DEF IsTable
  <2> QED
    BY <2>3, <2>4
<1>10. Ring(g) = Ring(c)
  BY <1>9 DEF Ring
<1>11. Holds(g, {})
  BY <1>8, <1>9, <1>10 DEF Holds
<1>12. Marked(g) = {}
  BY <1>4, <1>7, <1>9, <1>10 DEF Marked
<1>13. Before(h, E, 0) = {}
  BY DEF Before
<1> HIDE DEF n
<1>14. Holds(g, Before(h, E, 0))
  BY <1>11, <1>13, Zenon
<1> QED
  BY <1>1, <1>4, <1>6, <1>7, <1>9, <1>12, <1>14 DEF Moving

\* One entry is moved: marks are left behind, an address finds an empty entry.
LEMMA Moves ==
    ASSUME NEW h, NEW E, Holds(h, E), NEW i \in Ring(h),
           NEW g, Moving(h, E, g, i), Cardinality(E) < g.size
    PROVE  Moving(h, E, Move(g, h.entries[i]), i + 1)
<1>1. h.size \in Primes /\ Ring(h) \subseteq Nat /\ h.size \in Nat
  BY Sizes DEF Holds, IsTable
<1>2. PICK x \in E \cup {"empty", "deleted"} : x = h.entries[i]
  BY DEF Holds
<1>3. E \subseteq Addresses /\ E \cap {"empty", "deleted"} = {}
  BY HashAssumption DEF Holds
<1>4. PICK B, C : B = Before(h, E, i) /\ C = Before(h, E, i + 1)
  OBVIOUS
<1>5. C = IF x \in E THEN B \cup {x} ELSE B
  <2>1. 0..(i + 1) - 1 = (0..i - 1) \cup {i}
    BY <1>1
  <2> QED
    BY <1>2, <1>4, <2>1 DEF Before
<1>6. Holds(g, B) /\ Marked(g) = {} /\ g.size \in Primes /\ IsTable(g)
  BY <1>4 DEF Moving, Holds, IsTable
<1>7. CASE x \in {"empty", "deleted"}
  <2>1. Move(g, x) = g /\ C = B
    BY <1>3, <1>5, <1>7 DEF Move
  <2>2. Holds(g, C)
    BY <1>6, <2>1, Zenon
  <2> QED
    BY <1>2, <1>4, <2>1, <2>2 DEF Moving
<1>8. CASE x \in E
  <2>1. x \notin B /\ B \subseteq E /\ x \in Addresses /\ x \notin {"empty", "deleted"}
    <3>1. \A k \in 0..i - 1 : k \in Ring(h) /\ k # i
      BY <1>1 DEF Ring
    <3>2. \A k \in 0..i - 1 : h.entries[k] # x
      BY <1>2, <1>8, <3>1 DEF Holds
    <3> QED
      BY <1>3, <1>4, <1>8, <3>2 DEF Before
  <2>2. Cardinality(Occupied(g)) < g.size
    <3>1. Cardinality(Occupied(g)) = Cardinality(Marked(g)) + Cardinality(B)
      BY <1>6, Counts
    <3>2. Cardinality(Marked(g)) = 0
      BY <1>6, FS_EmptySet, Zenon
    <3>3. IsFiniteSet(E) /\ Cardinality(E) \in Nat
      BY Counts
    <3>4. Cardinality(B) <= Cardinality(E) /\ IsFiniteSet(B)
      BY <2>1, <3>3, FS_Subset
    <3>5. Cardinality(B) \in Nat /\ g.size \in Nat
      BY <1>6, <3>4, FS_CardinalityType, Sizes
    <3> QED
      BY <3>1, <3>2, <3>3, <3>4, <3>5
  <2>3. \E k \in Ring(g) : g.entries[k] \in {"empty"}
    BY <1>6, <2>1, <2>2, Search
  <2>4. PICK j \in Ring(g) : /\ j = Min(Rounds(g, x, {"empty"}))
                             /\ g.entries[Slot(g, x, j)] = "empty"
                             /\ \A k \in 0..j - 1 : g.entries[Slot(g, x, k)] # "empty"
    BY <1>6, <2>1, <2>3, FirstRound
  <2>5. PICK s \in Ring(g) : s = Slot(g, x, j)
    BY <1>6, <2>1, Slots
  <2>6. PICK t : t = Move(g, x)
    OBVIOUS
  <2>7. t = Changed(g, s, x, g.n_elements, g.n_deleted)
    <3>1. t = [g EXCEPT !.entries[s] = x]
      BY <2>1, <2>4, <2>5, <2>6 DEF Move
    <3> QED
      BY <1>6, <3>1 DEF Changed, IsTable
  <2>8. /\ Wrote(g, s, x, t) /\ IsTable(t) /\ t.size = g.size
        /\ t.n_elements = g.n_elements /\ t.n_deleted = g.n_deleted
    BY <1>6, <2>7, Fields
  <2>9. Holds(t, B \cup {x}) /\ Marked(t) = Marked(g) \ {s}
    <3>1. Free(g, x, j, s)
      BY <2>4, <2>5 DEF Free
    <3>2. Holds(t, B \cup {x})
      BY <1>6, <2>1, <2>8, <3>1, Put, Zenon
    <3> QED
      BY <1>6, <2>1, <2>8, <3>2, PutCounts
  <2>10. Holds(t, C) /\ Marked(t) = {}
    <3>1. C = B \cup {x}
      BY <1>5, <1>8
    <3>2. Holds(t, C)
      BY <2>9, <3>1, Zenon
    <3> QED
      BY <1>6, <2>9, <3>2
  <2> QED
    BY <1>2, <1>4, <2>6, <2>8, <2>10 DEF Moving
<1> QED
  BY <1>2, <1>7, <1>8

\* What the recursive function in Expand is: the new table before each entry.
IsMoved(h, f) ==
    f = [i \in 0..h.size |-> IF i = 0 THEN NewTable(h) ELSE Move(f[i - 1], h.entries[i - 1])]

\* The function that moves the first n entries.
IsPart(h, n, f) ==
    f = [i \in 0..n |-> IF i = 0 THEN NewTable(h) ELSE Move(f[i - 1], h.entries[i - 1])]

\* There is such a function: otherwise there would be a least n without one.
LEMMA MovedExists ==
    ASSUME NEW h, h.size \in Nat
    PROVE  \E f : IsMoved(h, f)
<1> DEFINE None == {n \in Nat : ~\E f : IsPart(h, n, f)}
<1>1. None = {}
  <2>1. SUFFICES ASSUME None # {} PROVE FALSE
    OBVIOUS
  <2>2. None \in SUBSET Nat
    OBVIOUS
  <2>3. PICK n \in None : \A k \in None : n <= k
    <3>1. Min(None) \in None /\ \A k \in None : Min(None) <= k
      BY <2>1, <2>2, MinOfNats
    <3> QED
      BY <3>1
  <2>4. n \in Nat /\ ~\E f : IsPart(h, n, f)
    BY <2>3
  <2>5. n # 0
    <3>1. IsPart(h, 0, [i \in 0..0 |-> NewTable(h)])
      BY DEF IsPart
    <3> QED
      BY <2>4, <3>1
  <2>6. PICK f : IsPart(h, n - 1, f)
    <3>1. n - 1 \in Nat /\ ~(n <= n - 1)
      BY <2>4, <2>5
    <3>2. n - 1 \notin None
      BY <2>3, <3>1
    <3> QED
      BY <3>1, <3>2
  <2> DEFINE g == [i \in 0..n |-> IF i = n THEN Move(f[n - 1], h.entries[n - 1]) ELSE f[i]]
  <2>7. \A i \in 0..n : g[i] = IF i = 0 THEN NewTable(h) ELSE Move(g[i - 1], h.entries[i - 1])
    <3> SUFFICES ASSUME NEW i \in 0..n
                 PROVE  g[i] = IF i = 0 THEN NewTable(h) ELSE Move(g[i - 1], h.entries[i - 1])
      OBVIOUS
    <3>1. CASE i = n
      <4>1. n - 1 \in 0..n /\ n - 1 # n
        BY <2>4, <2>5
      <4>2. g[n - 1] = f[n - 1] /\ g[n] = Move(f[n - 1], h.entries[n - 1])
        BY <2>4, <4>1
      <4> QED
        BY <2>5, <3>1, <4>2
    <3>2. CASE i # n
      <4>1. i \in 0..n - 1 /\ g[i] = f[i]
        BY <2>4, <3>2
      <4>2. f[i] = IF i = 0 THEN NewTable(h) ELSE Move(f[i - 1], h.entries[i - 1])
        BY <2>6, <4>1 DEF IsPart
      <4>3. i # 0 => g[i - 1] = f[i - 1]
        BY <2>4, <4>1
      <4> QED
        BY <4>1, <4>2, <4>3
    <3> QED
      BY <3>1, <3>2
  <2>8. g = [i \in 0..n |-> g[i]]
    OBVIOUS
  <2> HIDE DEF g
  <2>9. IsPart(h, n, g)
    BY <2>7, <2>8 DEF IsPart
  <2> QED
    BY <2>4, <2>9
<1>2. \E f : IsPart(h, h.size, f)
  BY <1>1
<1> QED
  BY <1>2 DEF IsMoved, IsPart

\* htab_expand: everything is in the new table, and nothing else.
LEMMA Expands ==
    ASSUME NEW h, NEW E, Holds(h, E), Counted(h)
    PROVE  /\ Holds(Expand(h), E) /\ Counted(Expand(h))
           /\ Expand(h).n_elements + 1 < Expand(h).size
<1>1. h.size \in Primes /\ Ring(h) \subseteq Nat /\ h.size \in Nat
  BY Sizes DEF Holds, IsTable
<1>2. PICK f : IsMoved(h, f) /\ Expand(h) = f[h.size]
  <2>1. \E f : IsMoved(h, f)
    BY <1>1, MovedExists
  <2>2. IsMoved(h, CHOOSE f : IsMoved(h, f))
    BY <2>1, Zenon
  <2>3. Expand(h) = (CHOOSE f : IsMoved(h, f))[h.size]
    BY DEF Expand, IsMoved
  <2> QED
    BY <2>2, <2>3
<1>3. \A i \in 0..h.size :
         f[i] = IF i = 0 THEN NewTable(h) ELSE Move(f[i - 1], h.entries[i - 1])
  BY <1>2 DEF IsMoved
<1>4. /\ Moving(h, E, NewTable(h), 0)
      /\ NewTable(h).n_elements = Cardinality(E)
      /\ Cardinality(E) + 1 < NewTable(h).size
  BY NewTables
<1>5. NewTable(h).size \in Primes /\ NewTable(h).size \in Nat /\ Cardinality(E) \in Nat
  BY <1>4, Counts, Sizes DEF Moving, Holds, IsTable
<1> DEFINE Wrong == {i \in 0..h.size : ~Moving(h, E, f[i], i)}
<1>6. Wrong = {}
  <2>1. SUFFICES ASSUME Wrong # {} PROVE FALSE
    OBVIOUS
  <2>2. Wrong \in SUBSET Nat
    BY <1>1
  <2>3. PICK n \in Wrong : \A k \in Wrong : n <= k
    <3>1. Min(Wrong) \in Wrong /\ \A k \in Wrong : Min(Wrong) <= k
      BY <2>1, <2>2, MinOfNats
    <3> QED
      BY <3>1
  <2>4. n \in 0..h.size /\ ~Moving(h, E, f[n], n)
    BY <2>3
  <2>5. n # 0
    <3>1. f[0] = NewTable(h)
      BY <1>1, <1>3
    <3> QED
      BY <1>4, <2>4, <3>1
  <2>6. PICK i \in Ring(h) : n = i + 1 /\ i \in 0..h.size /\ ~(n <= i)
    <3>1. n - 1 \in Ring(h) /\ n = (n - 1) + 1 /\ n - 1 \in 0..h.size /\ ~(n <= n - 1)
      BY <1>1, <2>4, <2>5 DEF Ring
    <3> QED
      BY <3>1
  <2>7. Moving(h, E, f[i], i)
    BY <2>3, <2>6
  <2>8. Cardinality(E) < f[i].size
    BY <1>4, <1>5, <2>7 DEF Moving
  <2>9. Moving(h, E, Move(f[i], h.entries[i]), i + 1)
    BY <2>7, <2>8, Moves
  <2>10. f[n] = Move(f[i], h.entries[i])
    <3>1. n - 1 = i
      BY <1>1, <2>6
    <3> QED
      BY <1>3, <2>4, <2>5, <3>1
  <2> QED
    BY <2>4, <2>6, <2>9, <2>10
<1>7. PICK g : g = f[h.size] /\ Moving(h, E, g, h.size)
  <2>1. h.size \in 0..h.size
    BY <1>1
  <2> QED
    BY <1>6, <2>1
<1>8. Before(h, E, h.size) = E
  <2>1. Ring(h) = 0..h.size - 1
    BY DEF Ring
  <2>2. ASSUME NEW a \in E PROVE \E k \in Ring(h) : h.entries[k] = a
    <3>1. PICK j \in Ring(h) : h.entries[Slot(h, a, j)] = a
      BY DEF Holds
    <3>2. Slot(h, a, j) \in Ring(h)
      BY <1>1, Slots DEF Holds
    <3> QED
      BY <3>1, <3>2
  <2> QED
    BY <2>1, <2>2 DEF Before
<1>9. Holds(g, E) /\ Marked(g) = {} /\ g.n_elements = Cardinality(E) /\ g.n_deleted = 0
  <2>1. Holds(g, Before(h, E, h.size))
    BY <1>7 DEF Moving
  <2>2. Holds(g, E)
    BY <1>8, <2>1, Zenon
  <2> QED
    BY <1>4, <1>7, <2>2 DEF Moving
<1>10. Counted(g)
  <2>1. Cardinality(Marked(g)) = 0
    BY <1>9, FS_EmptySet, Zenon
  <2>2. Cardinality(Occupied(g)) = Cardinality(Marked(g)) + Cardinality(E)
    BY <1>9, Counts
  <2> QED
    BY <1>5, <1>9, <2>1, <2>2 DEF Counted
<1>11. g.n_elements + 1 < g.size
  BY <1>4, <1>7, <1>9 DEF Moving
<1> QED
  BY <1>2, <1>7, <1>9, <1>10, <1>11
-----------------------------------------------------------------------------
(* The table is a map, whatever was entered and removed.                   *)

\* Every operation of the table keeps that.
LEMMA HashInductive == HashSpec => []HashInv
<1>1. HashInit => HashInv
  <2> SUFFICES ASSUME HashInit PROVE HashInv
    OBVIOUS
  <2>1. FirstSize \in Int /\ \E p \in Primes : p >= FirstSize
    BY HashAssumption
  <2>2. PICK h : h = Create(FirstSize)
    OBVIOUS
  <2>3. Holds(h, {}) /\ Counted(h) /\ h.n_elements = 0 /\ h.size \in Primes
    BY <2>1, <2>2, Creates
  <2>4. htab = h /\ entered = {}
    BY <2>2 DEF HashInit
  <2>5. Holds(htab, entered) /\ Counted(htab)
    BY <2>3, <2>4, Zenon
  <2>6. htab.n_elements < htab.size
    BY <2>3, <2>4, Sizes
  <2> QED
    BY <2>5, <2>6 DEF HashInv
<1>2. HashInv /\ [HashNext]_hashVars => HashInv'
  <2> SUFFICES ASSUME HashInv, [HashNext]_hashVars PROVE HashInv'
    OBVIOUS
  <2>1. PICK h, E : h = htab /\ E = entered
    OBVIOUS
  <2>2. PICK g, F : g = htab' /\ F = entered'
    OBVIOUS
  <2>3. Holds(h, E) /\ Counted(h) /\ h.n_elements < h.size
    BY <2>1 DEF HashInv
  <2>4. SUFFICES Holds(g, F) /\ Counted(g) /\ g.n_elements < g.size
    BY <2>2 DEF HashInv
  <2>5. ASSUME NEW a \in Addresses, HashEnter(a)
        PROVE  Holds(g, F) /\ Counted(g) /\ g.n_elements < g.size
    <3>1. PICK t : t = IF Full(h) THEN Expand(h) ELSE h
      OBVIOUS
    <3>2. g = Enter(t, a) /\ F = E \cup {a}
      BY <2>1, <2>2, <2>5, <3>1 DEF HashEnter
    <3>3. Holds(t, E) /\ Counted(t) /\ t.n_elements + 1 < t.size
      <4>1. CASE Full(h)
        BY <2>3, <3>1, <4>1, Expands
      <4>2. CASE ~Full(h)
        <5>1. h.size \in Primes /\ h.n_elements = Cardinality(Occupied(h))
          BY <2>3 DEF Holds, IsTable, Counted
        <5>2. h.size \in Nat /\ h.size > 4 /\ h.n_elements \in Nat
          BY <5>1, Sizes
        <5>3. h.n_elements + 1 < h.size
          BY <4>2, <5>2 DEF Full
        <5> QED
          BY <2>3, <3>1, <4>2, <5>3
      <4> QED
        BY <4>1, <4>2
    <3>4. /\ Holds(Enter(t, a), E \cup {a}) /\ Counted(Enter(t, a))
          /\ Enter(t, a).n_elements < Enter(t, a).size
      BY <3>3, Enters
    <3> QED
      BY <3>2, <3>4, Zenon
  <2>6. ASSUME NEW a \in Addresses, HashClear(a)
        PROVE  Holds(g, F) /\ Counted(g) /\ g.n_elements < g.size
    <3>1. a \in E /\ F = E \ {a}
      BY <2>1, <2>2, <2>6 DEF HashClear
    <3>2. g = Changed(h, Ends(h, a), "deleted", h.n_elements, h.n_deleted + 1)
      <4>1. g = [h EXCEPT !.entries[Ends(h, a)] = "deleted", !.n_deleted = h.n_deleted + 1]
        BY <2>1, <2>2, <2>6 DEF HashClear
      <4> QED
        BY <2>3, <4>1 DEF Changed, Holds, IsTable
    <3>3. Holds(g, E \ {a}) /\ Counted(g) /\ g.n_elements < g.size
      BY <2>3, <3>1, <3>2, Clears
    <3> QED
      BY <3>1, <3>3, Zenon
  <2>7. CASE UNCHANGED hashVars
    BY <2>1, <2>2, <2>3, <2>7 DEF hashVars
  <2> QED
    BY <2>5, <2>6, <2>7 DEF HashNext
<1> QED
  BY <1>1, <1>2, PTL DEF HashSpec

\* htab_find (hashtab.h) ends for every address and finds those that were entered
\* and not removed, each of them once, and the counters by which htab_find_slot
\* decides to expand the table are right: for every hash function, every set of
\* addresses and every list of primes that does not run out.
THEOREM FindsWhatWasEntered == HashSpec => []TableIsAMap
<1>1. HashInv => TableIsAMap
  <2> SUFFICES ASSUME HashInv PROVE TableIsAMap
    OBVIOUS
  <2>1. PICK h, E : h = htab /\ E = entered
    OBVIOUS
  <2>2. Holds(h, E) /\ Counted(h) /\ h.n_elements < h.size
    BY <2>1 DEF HashInv
  <2>3. /\ h.size \in Primes /\ h.n_elements = Cardinality(Occupied(h))
        /\ h.n_deleted = Cardinality(Marked(h)) /\ DOMAIN h.entries = Ring(h)
    BY <2>2 DEF Holds, IsTable, Counted
  <2>4. ASSUME NEW a \in Addresses
        PROVE  /\ Rounds(h, a, {"empty", a}) # {}
               /\ (h.entries[Ends(h, a)] = a) = (a \in E)
    <3>1. Cardinality(Occupied(h)) < h.size
      BY <2>2, <2>3
    <3>2. Rounds(h, a, {"empty", a}) # {} /\ ((h.entries[Ends(h, a)] = a) <=> (a \in E))
      BY <2>2, <3>1, Search
    <3> QED
      BY <3>2
  <2>5. Cardinality({i \in Ring(h) : h.entries[i] \in E}) = Cardinality(E)
    BY <2>2, Counts
  <2>6. Cardinality({i \in Ring(h) : h.entries[i] # "empty"}) = h.n_elements
    BY <2>3 DEF Occupied
  <2>7. h.n_elements - h.n_deleted = Cardinality(E)
    <3>1. /\ Cardinality(Occupied(h)) = Cardinality(Marked(h)) + Cardinality(E)
          /\ Cardinality(E) \in Nat
      BY <2>2, Counts
    <3>2. Cardinality(Marked(h)) \in Nat
      BY <2>3, Sizes
    <3> QED
      BY <2>3, <3>1, <3>2
  <2> QED
    BY <2>1, <2>3, <2>4, <2>5, <2>6, <2>7 DEF TableIsAMap
<1> QED
  BY <1>1, HashInductive, PTL
=============================================================================
