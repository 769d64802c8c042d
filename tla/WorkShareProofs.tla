--------------------------- MODULE WorkShareProofs --------------------------
(***************************************************************************)
(* The threads of a team find the same work share for the same construct,  *)
(* one thread allocates and one frees at a time, and a single construct is *)
(* executed once: for every team, every sequence of constructs and any     *)
(* number of shares inside the team.                                       *)
(***************************************************************************)
EXTENDS WorkShare, FiniteSetTheorems, WellFoundedInduction, TLAPS

PCs == {"user", "work", "wait", "alloc", "take", "init", "share", "execute",
        "arrive", "asleep", "open", "leave", "nowait", "retire", "link", "cas",
        "end", "fini", "over"}

\* A work share whose pointer leads to one of S.
ShareIn(S) == [next : S \cup {None, Owned}, completed : Nat, copyprivate : Nat \cup {None},
               use : Nat \cup {-1}]

Typed ==
    /\ region \in Regions
    /\ \E n \in Shares : n \in Nat /\ Shares = 0..n
    /\ shares \in [Shares -> ShareIn(Shares)]
    /\ list_alloc \in Shares \cup {None} /\ list_free \in Shares \cup {None}
    /\ to_free \in Shares
    /\ chunk \in Nat \ {0}
    /\ awaited \in Nat /\ cancelled \in BOOLEAN
    /\ pc \in [Threads -> PCs]
    /\ at \in [Threads -> 0..region.length]
    /\ work_share \in [Threads -> Shares]
    /\ last_work_share \in [Threads -> Shares \cup {None}]
    /\ first \in [Threads -> BOOLEAN]
    /\ local \in [Threads -> Shares \cup {None}]
    /\ got \in [Threads -> Nat \cup {None}]

Ended == pc[Master] \in {"fini", "over"}
AllOver == \A t \in Team : pc[t] \in {"fini", "over"} /\ (t # Master => pc[t] = "over")

Unique == \A v, w \in Live : shares[v].use = shares[w].use => v = w
-----------------------------------------------------------------------------
Allocates(t) == pc[t] \in {"alloc", "take", "init"}
Frees(t) == pc[t] \in {"retire", "link", "cas"}

\* What a thread's position says of its construct and of last_work_share.
PlaceOf(t) ==
    /\ pc[t] \notin {"fini", "over"}
    /\ pc[t] = "work" => Construct(t) \in {"loop", "nowait"}
    /\ pc[t] \in Starting \cup {"share"} =>
          at[t] >= 1 /\ Construct(t) \in Kinds \ {"single"} /\ last_work_share[t] # None
    /\ pc[t] \in {"execute", "arrive", "nowait"} => Construct(t) = "copy"
    /\ pc[t] \in {"asleep", "open", "leave"} => Construct(t) \in {"loop", "copy"}
    /\ Frees(t) => at[t] >= 1 /\ Construct(t) \in Kinds \ {"single"}
    /\ at[t] = 0 => last_work_share[t] = None

\* The construct that the share a thread has behind construct k was made for.
shareOf == [k \in 0..region.length |-> ShareOf(k)]

\* Construct k is the next after construct j that has a share.
Follows(k, j) ==
    k \in 1..region.length /\ region.constructs[k] # "single" /\ shareOf[k - 1] = j

Owner(t, w) == (Allocates(t) \/ pc[t] = "share") /\ last_work_share[t] = w

\* Thread t has, or had, the share of construct k.
Beyond(t, k) == at[t] > k \/ (at[t] = k /\ pc[t] \notin Starting)

(* The chain: the share of a construct leads to that of the next one, and  *)
(* whoever claims the pointer makes the only one.                          *)
ChainOf(w) ==
    /\ shares[w].use <= region.length /\ shareOf[shares[w].use] = shares[w].use
    /\ \E t \in Team : at[t] >= shares[w].use
    /\ shares[w].next \in Shares =>
          shares[w].next \in Live /\ Follows(shares[shares[w].next].use, shares[w].use)
    /\ \A v \in Live : Follows(shares[v].use, shares[w].use) =>
          \/ shares[w].next = v
          \/ \E t \in Team : pc[t] = "share" /\ last_work_share[t] = w /\ work_share[t] = v
    /\ \A t \in Team, k \in 1..region.length :
          Follows(k, shares[w].use) /\ Beyond(t, k) =>
              /\ shares[w].next # None
              /\ shares[w].next = Owned =>
                    \E s \in Team : pc[s] = "share" /\ last_work_share[s] = w

OwnersOf(t) ==
    /\ (Allocates(t) \/ pc[t] = "share") =>
          /\ shares[last_work_share[t]].next = Owned
          /\ \A s \in Team : Owner(s, last_work_share[t]) => s = t
    /\ pc[t] = "wait" => shares[last_work_share[t]].next # None

\* The shares a thread uses, now or for its next step.
SharesOf(t) ==
    /\ pc[t] \notin Starting \cup {"end"} => shares[work_share[t]].use = shareOf[at[t]]
    /\ (\/ pc[t] \in Starting \cup {"share"}
        \/ at[t] >= 1 /\ pc[t] \in {"work", "execute", "arrive", "nowait", "retire"}
        \/ pc[t] \in {"asleep", "open", "leave"} /\ Construct(t) = "copy")
       => /\ last_work_share[t] # None
          /\ shares[last_work_share[t]].use = shareOf[at[t] - 1]

ChainInv ==
    /\ Unique
    /\ \A w \in Live : ChainOf(w)
    /\ \A t \in Team : PlaceOf(t) /\ OwnersOf(t) /\ SharesOf(t)
-----------------------------------------------------------------------------
(* When a share is freed: not before every thread is through the next      *)
(* construct.                                                              *)

Counted == {k \in 1..region.length : region.constructs[k] \in {"nowait", "copy"}}

\* A thread that has counted itself out of construct k, and one that may have.
Sure(t, k) ==
    at[t] > k \/ (at[t] = k /\ pc[t] \in {"user", "retire", "link", "cas"})
Maybe(t, k) == Sure(t, k) \/ (at[t] = k /\ pc[t] = "end")

SureSet(k) == {t \in Team : Sure(t, k)}
MaybeSet(k) == {t \in Team : Maybe(t, k)}

Passed(t, k) ==
    \/ at[t] > k
    \/ at[t] = k /\ pc[t] \in {"user", "link", "cas"}
    \/ at[t] = k /\ pc[t] \in {"open", "leave"} /\ Construct(t) = "loop"

CountOf(w) ==
    \A k \in Counted : shares[w].use = k =>
        /\ Cardinality(SureSet(k)) <= shares[w].completed
        /\ shares[w].completed <= Cardinality(MaybeSet(k))

Needed(w) ==
    \A k \in 1..region.length :
        Follows(k, shares[w].use) => \E t \in Team : ~Passed(t, k)

FreeingOf(t) ==
    /\ Frees(t) /\ Construct(t) # "loop" =>
          shares[work_share[t]].completed = Cardinality(Team)
    /\ (\/ pc[t] \in {"link", "cas"}
        \/ pc[t] = "open" /\ Construct(t) = "loop" /\ at[t] >= 1) =>
          \A w \in Live : shares[w].use # shareOf[at[t] - 1]

OneFrees == \A s, t \in Team : Frees(s) /\ Frees(t) => s = t

FreeInv ==
    /\ \A w \in Live : CountOf(w) /\ Needed(w)
    /\ \A t \in Team : FreeingOf(t)
    /\ OneFrees
-----------------------------------------------------------------------------
(* The team barrier: all are behind the same constructs that end with one. *)

Opens(t) == pc[t] = "open" \/ (Frees(t) /\ Construct(t) = "loop")
Arrived(t) == pc[t] = "asleep" \/ Opens(t)

Behind(t, b) ==
    \/ at[t] > b
    \/ at[t] = b /\ pc[t] \in {"leave", "nowait", "user"}
    \/ at[t] = b /\ Frees(t) /\ Construct(t) = "copy"

Barriers == {k \in 0..region.length : region.constructs[k] \in {"loop", "copy"}}

Missing == {t \in Team : ~Arrived(t) /\ pc[t] # "end"}

BarrierInv ==
    /\ \A s, t \in Team, b \in Barriers :
          pc[s] # "end" /\ pc[t] # "end" /\ Behind(s, b) => Behind(t, b)
    /\ ~cancelled => awaited = Cardinality({t \in Team : Arrived(t)})
    /\ cancelled => awaited + Cardinality(Missing) < Cardinality(Team)
    /\ cancelled => region.cancellable
    /\ \A t \in Team : Opens(t) =>
          /\ ~cancelled
          /\ \A s \in Team \ {t} : pc[s] = "asleep" /\ at[s] = at[t]
-----------------------------------------------------------------------------
(* The lists hold shares that nobody uses; a pointer leads to each of them *)
(* from one place at most.                                                 *)

InHand(w) == \E t \in Team : \/ pc[t] = "init" /\ local[t] = w
                             \/ pc[t] \in {"link", "cas"} /\ last_work_share[t] = w

Idle == {w \in Shares : shares[w].use = -1 /\ ~InHand(w)}

Lists ==
    /\ list_alloc \in Idle \cup {None} /\ list_free \in Idle \cup {None}
    /\ list_alloc # None => list_alloc # list_free
    /\ \A w \in Idle : /\ shares[w].next \in Idle \cup {None}
                       /\ shares[w].next # None => shares[w].next \notin {list_alloc, list_free}
    /\ \A v, w \in Idle : shares[v].next = shares[w].next /\ shares[v].next # None => v = w

HandOf(t) ==
    /\ pc[t] = "init" =>
          /\ local[t] \in Shares /\ shares[local[t]].use = -1
          /\ \A s \in Team : pc[s] \in {"link", "cas"} => last_work_share[s] # local[t]
    /\ pc[t] \in {"link", "cas"} => /\ last_work_share[t] # None
                                    /\ shares[last_work_share[t]].use = -1
    /\ pc[t] = "cas" => shares[last_work_share[t]].next = local[t]
    /\ pc[t] = "take" /\ local[t] # None =>
          /\ local[t] \in Idle
          /\ \/ list_free = local[t]
             \/ \E y \in Idle : y # local[t] /\ shares[y].next = local[t]

OneAllocates == \A s, t \in Team : Allocates(s) /\ Allocates(t) => s = t

ListInv == Lists /\ (\A t \in Team : HandOf(t)) /\ OneAllocates

ShareInv ==
    /\ Typed
    /\ Ended => /\ AllOver /\ Unique
                /\ pc[Master] = "fini" => local[Master] \in Shares
    /\ ~Ended => ChainInv /\ FreeInv /\ BarrierInv /\ ListInv
-----------------------------------------------------------------------------
(* What typed states have.                                                 *)

LEMMA MaxOfRange ==
    ASSUME NEW n \in Nat, NEW S \in SUBSET (0..n), S # {}
    PROVE  Max(S) \in S /\ \A y \in S : Max(S) >= y
<1> DEFINE T == {m \in 0..n : n - m \in S}
<1>1. T \subseteq Nat /\ T # {}
  <2>1. PICK x \in S : x \in 0..n
    OBVIOUS
  <2>2. n - x \in 0..n /\ n - (n - x) = x
    BY <2>1
  <2>3. n - x \in T
    BY <2>1, <2>2
  <2>4. T \subseteq Nat
    OBVIOUS
  <2> QED
    BY <2>3, <2>4
<1>2. PICK x \in T : \A y \in T : ~(<<y, x>> \in OpToRel(<, Nat))
  <2>1. \E x \in T : \A y \in T : ~(<<y, x>> \in OpToRel(<, Nat))
    BY <1>1, WFMin, NatLessThanWellFounded, Zenon
  <2> QED
    BY <2>1, Zenon
<1>3. \A y \in T : ~(y < x)
  BY <1>1, <1>2, Zenon DEF OpToRel
<1>4. n - x \in S /\ \A y \in S : n - x >= y
  <2>1. x \in 0..n /\ n - x \in S
    OBVIOUS
  <2> SUFFICES ASSUME NEW y \in S, ~(n - x >= y) PROVE FALSE
    BY <2>1
  <2>2. y \in 0..n /\ n - y \in 0..n /\ n - (n - y) = y /\ n - y < x
    BY <2>1
  <2> QED
    BY <1>3, <2>2
<1> QED
  BY <1>4 DEF Max

LEMMA RegionFacts ==
    ASSUME region \in Regions
    PROVE  /\ region.length \in Nat /\ region.cancellable \in BOOLEAN
           /\ Team \subseteq Threads /\ Master \in Team
           /\ IsFiniteSet(Team) /\ Cardinality(Team) \in Nat
           /\ \A k \in 1..region.length : region.constructs[k] \in Kinds
           /\ region.constructs[0] \in {"loop", "nowait", "none"}
           /\ region.cancellable => \A k \in 1..region.length : region.constructs[k] # "copy"
<1>1. Team \subseteq Threads
  BY RegionsAssumption DEF Team
<1>2. IsFiniteSet(Team) /\ Cardinality(Team) \in Nat
  BY <1>1, NamesAssumption, FS_Subset, FS_CardinalityType
<1> QED
  BY <1>1, <1>2, RegionsAssumption DEF Team

LEMMA ShareFacts ==
    ASSUME Typed
    PROVE  /\ Shares \subseteq Nat /\ None \notin Shares /\ Owned \notin Shares /\ None # Owned
           /\ \A w \in Shares :
                 /\ shares[w].next \in Shares \cup {None, Owned}
                 /\ shares[w].completed \in Nat
                 /\ shares[w].use \in Nat \cup {-1}
                 /\ shares[w] \in ShareIn(Shares)
           /\ to_free \in Shares
           /\ list_alloc \in Shares \cup {None} /\ list_free \in Shares \cup {None}
           /\ \A t \in Threads :
                 /\ work_share[t] \in Shares
                 /\ last_work_share[t] \in Shares \cup {None}
                 /\ local[t] \in Shares \cup {None}
<1>1. Shares \subseteq Nat
  BY DEF Typed
<1>2. \A w \in Shares : /\ shares[w].next \in Shares \cup {None, Owned}
                        /\ shares[w].completed \in Nat
                        /\ shares[w].use \in Nat \cup {-1}
                        /\ shares[w] \in ShareIn(Shares)
  BY DEF Typed, ShareIn
<1> QED
  BY <1>1, <1>2, NamesAssumption DEF Typed

LEMMA ThreadFacts ==
    ASSUME Typed
    PROVE  /\ awaited \in Nat /\ cancelled \in BOOLEAN /\ chunk \in Nat \ {0}
           /\ \A t \in Threads : /\ pc[t] \in PCs
                                /\ at[t] \in Nat /\ at[t] <= region.length
                                /\ first[t] \in BOOLEAN
<1>1. region.length \in Nat
  BY RegionFacts DEF Typed
<1>2. \A t \in Threads : at[t] \in 0..region.length
  BY DEF Typed
<1> QED
  BY <1>1, <1>2 DEF Typed

LEMMA ThreadMaps ==
    ASSUME Typed
    PROVE  /\ Team \subseteq Threads /\ DOMAIN pc = Threads /\ DOMAIN at = Threads
           /\ DOMAIN work_share = Threads /\ DOMAIN last_work_share = Threads
           /\ DOMAIN local = Threads
           /\ pc \in [Threads -> PCs] /\ at \in [Threads -> 0..region.length]
           /\ work_share \in [Threads -> Shares]
           /\ last_work_share \in [Threads -> Shares \cup {None}]
           /\ local \in [Threads -> Shares \cup {None}]
BY RegionFacts DEF Typed

LEMMA ShareOfFacts ==
    ASSUME region \in Regions
    PROVE  /\ \A k \in 0..region.length :
                 /\ shareOf[k] \in 0..k
                 /\ shareOf[k] = 0 \/ region.constructs[shareOf[k]] # "single"
                 /\ \A j \in 1..k : region.constructs[j] # "single" => j <= shareOf[k]
<1> SUFFICES ASSUME NEW k \in 0..region.length
             PROVE  /\ shareOf[k] \in 0..k
                    /\ shareOf[k] = 0 \/ region.constructs[shareOf[k]] # "single"
                    /\ \A j \in 1..k : region.constructs[j] # "single" => j <= shareOf[k]
  OBVIOUS
<1> DEFINE S == {j \in 1..k : region.constructs[j] # "single"} \cup {0}
<1>0. region.length \in Nat
  BY RegionFacts
<1>1. shareOf[k] = Max(S)
  BY DEF shareOf, ShareOf
<1>2. S \in SUBSET (0..k) /\ S # {} /\ k \in Nat
  BY <1>0
<1>3. Max(S) \in S /\ \A y \in S : Max(S) >= y
  BY <1>2, MaxOfRange
<1> HIDE DEF S
<1>4. shareOf[k] \in S /\ \A y \in S : shareOf[k] >= y
  BY <1>1, <1>3
<1> QED
  BY <1>0, <1>4 DEF S

LEMMA OfItsOwn ==
    ASSUME region \in Regions, NEW k \in 1..region.length
    PROVE  /\ region.constructs[k] # "single" => shareOf[k] = k
           /\ region.constructs[k] = "single" => shareOf[k] = shareOf[k - 1]
           /\ shareOf[k - 1] \in 0..k - 1
<1>0. region.length \in Nat /\ k \in Nat /\ k - 1 \in 0..region.length /\ k \in 0..region.length
  BY RegionFacts
<1>1. region.constructs[k] # "single" => shareOf[k] = k
  BY <1>0, ShareOfFacts
<1>2. region.constructs[k] = "single" => shareOf[k] = shareOf[k - 1]
  BY <1>0, ShareOfFacts
<1> QED
  BY <1>0, <1>1, <1>2, ShareOfFacts

LEMMA OfEarlier ==
    ASSUME region \in Regions, NEW j \in 0..region.length, NEW k \in j..region.length
    PROVE  shareOf[j] <= shareOf[k] /\ shareOf[j] \in Nat /\ shareOf[k] \in Nat
<1>0. region.length \in Nat /\ j \in Nat /\ k \in Nat /\ k \in 0..region.length
  BY RegionFacts
<1> QED
  BY <1>0, ShareOfFacts

LEMMA FollowsOnce ==
    ASSUME region \in Regions, NEW j, NEW k, NEW l, Follows(k, j), Follows(l, j)
    PROVE  k = l
<1>0. region.length \in Nat /\ k \in Nat /\ l \in Nat
  BY RegionFacts DEF Follows
<1>1. k - 1 \in 0..region.length /\ l - 1 \in 0..region.length
  BY <1>0 DEF Follows
<1>2. ~(k < l)
  BY <1>0, <1>1, ShareOfFacts DEF Follows
<1>3. ~(l < k)
  BY <1>0, <1>1, ShareOfFacts DEF Follows
<1> QED
  BY <1>0, <1>2, <1>3

LEMMA RegionKept ==
    ASSUME region' = region
    PROVE  /\ Team' = Team /\ shareOf' = shareOf /\ Counted' = Counted /\ Barriers' = Barriers
           /\ \A k, j : Follows(k, j)' <=> Follows(k, j)
<1>1. shareOf' = shareOf
  BY DEF shareOf, ShareOf
<1> QED
  BY <1>1 DEF Team, Counted, Barriers, Follows

LEMMA LiveShares ==
    ASSUME Typed
    PROVE  /\ Live \subseteq Shares
           /\ \A w \in Shares : w \in Live <=> shares[w].use # -1
           /\ \A w \in Live : shares[w].use \in Nat
<1>1. \A w \in Shares : shares[w].use \in Nat \cup {-1}
  BY ShareFacts
<1> QED
  BY <1>1 DEF Live

\* The shares a thread works with are live.
LEMMA UsesLive ==
    ASSUME Typed, ChainInv, NEW t \in Team
    PROVE  /\ t \in Threads
           /\ pc[t] \notin Starting \cup {"end"} => work_share[t] \in Live
           /\ pc[t] \in Starting \cup {"share"} =>
                 /\ last_work_share[t] \in Live
                 /\ Follows(at[t], shares[last_work_share[t]].use)
<1>0. t \in Threads /\ region.length \in Nat
  BY RegionFacts DEF Typed
<1>1. at[t] \in 0..region.length /\ shareOf[at[t]] \in Nat
  BY <1>0, ShareOfFacts, ThreadFacts DEF Typed
<1>2. pc[t] \notin Starting \cup {"end"} => work_share[t] \in Live
  <2>1. work_share[t] \in Shares
    BY <1>0, ShareFacts
  <2> QED
    BY <1>1, <2>1 DEF ChainInv, SharesOf, Live
<1>3. ASSUME pc[t] \in Starting \cup {"share"}
      PROVE  /\ last_work_share[t] \in Live
             /\ Follows(at[t], shares[last_work_share[t]].use)
  <2>1. at[t] \in 1..region.length /\ region.constructs[at[t]] # "single"
    BY <1>0, <1>1, <1>3 DEF ChainInv, PlaceOf, Construct, Kinds
  <2>2. last_work_share[t] \in Shares
    BY <1>0, <1>3, ShareFacts DEF ChainInv, SharesOf
  <2>3. shares[last_work_share[t]].use = shareOf[at[t] - 1] /\ shareOf[at[t] - 1] \in Nat
    BY <1>0, <1>3, <2>1, ShareOfFacts DEF ChainInv, SharesOf, Typed
  <2> QED
    BY <2>1, <2>2, <2>3 DEF Live, Follows
<1> QED
  BY <1>0, <1>2, <1>3
-----------------------------------------------------------------------------
(* What a step keeps that leaves the live shares alone.                    *)

ChainSame ==
    /\ region' = region /\ Live' = Live
    /\ \A w \in Live : shares'[w].use = shares[w].use /\ shares'[w].next = shares[w].next

SharesSame == ChainSame /\ \A w \in Live : shares'[w].completed = shares[w].completed

LEMMA ChainsKept ==
    ASSUME Typed, Typed', ChainSame,
           \A t \in Team :
              /\ at[t] <= at'[t]
              /\ pc'[t] = "share" <=> pc[t] = "share"
              /\ pc[t] = "share" => /\ last_work_share'[t] = last_work_share[t]
                                    /\ work_share'[t] = work_share[t]
              /\ \A k \in 1..region.length :
                    region.constructs[k] # "single" /\ Beyond(t, k)' => Beyond(t, k),
           Unique, \A w \in Live : ChainOf(w)
    PROVE  Unique' /\ \A w \in Live' : ChainOf(w)'
<1>0. /\ Team' = Team /\ shareOf' = shareOf /\ region' = region
      /\ \A k, j : Follows(k, j)' <=> Follows(k, j)
  BY RegionKept DEF ChainSame
<1>1. Unique'
  BY DEF Unique, ChainSame
<1> SUFFICES ASSUME NEW w \in Live' PROVE ChainOf(w)'
  BY <1>1
<1>2. /\ w \in Live /\ Live' = Live /\ Live \subseteq Shares /\ Live \subseteq Shares'
      /\ shares'[w].use = shares[w].use /\ shares'[w].next = shares[w].next
      /\ \A v \in Live : shares'[v].use = shares[v].use
      /\ Team \subseteq Threads
  BY LiveShares, RegionFacts DEF ChainSame, Live, Typed
<1>3. ChainOf(w)
  BY <1>2
<1>4. (/\ shares[w].use <= region.length /\ shareOf[shares[w].use] = shares[w].use
       /\ \E t \in Team : at[t] >= shares[w].use)'
  <2>1. \A t \in Team : at[t] \in Nat /\ at'[t] \in Nat
    BY <1>0, <1>2, ThreadFacts DEF Typed
  <2>2. shares[w].use \in Nat
    BY <1>2, LiveShares
  <2> QED
    BY <1>0, <1>2, <1>3, <2>1, <2>2 DEF ChainOf
<1>5. (shares[w].next \in Shares =>
          shares[w].next \in Live /\ Follows(shares[shares[w].next].use, shares[w].use))'
  <2>1. Shares' \subseteq Nat
    BY DEF Typed
  <2>2. shares[w].next \in Shares' => shares[w].next \in Shares
    BY <1>2, <2>1, ShareFacts, NamesAssumption
  <2>3. shares[w].next \in Shares =>
            shares[w].next \in Live /\ Follows(shares[shares[w].next].use, shares[w].use)
    BY <1>3 DEF ChainOf
  <2> QED
    BY <1>0, <1>2, <2>2, <2>3 DEF Follows
<1>6. (\A v \in Live : Follows(shares[v].use, shares[w].use) =>
          \/ shares[w].next = v
          \/ \E t \in Team : pc[t] = "share" /\ last_work_share[t] = w /\ work_share[t] = v)'
  <2> SUFFICES ASSUME NEW v \in Live, Follows(shares[v].use, shares[w].use), shares[w].next # v
               PROVE  \E t \in Team : pc'[t] = "share" /\ last_work_share'[t] = w /\ work_share'[t] = v
    BY <1>0, <1>2 DEF Follows
  <2>1. PICK t \in Team : pc[t] = "share" /\ last_work_share[t] = w /\ work_share[t] = v
    BY <1>3 DEF ChainOf
  <2> QED
    BY <2>1
<1>7. (\A t \in Team, k \in 1..region.length :
          Follows(k, shares[w].use) /\ Beyond(t, k) =>
              /\ shares[w].next # None
              /\ shares[w].next = Owned =>
                    \E s \in Team : pc[s] = "share" /\ last_work_share[s] = w)'
  <2> SUFFICES ASSUME NEW t \in Team, NEW k \in 1..region.length,
                      Follows(k, shares[w].use), Beyond(t, k)'
               PROVE  /\ shares[w].next # None
                      /\ shares[w].next = Owned =>
                            \E s \in Team : pc'[s] = "share" /\ last_work_share'[s] = w
    BY <1>0, <1>2 DEF Follows
  <2>1. Beyond(t, k)
    BY DEF Follows
  <2>2. /\ shares[w].next # None
        /\ shares[w].next = Owned =>
              \E s \in Team : pc[s] = "share" /\ last_work_share[s] = w
    BY <1>3, <2>1 DEF ChainOf
  <2> QED
    BY <2>2
<1> QED
  BY <1>4, <1>5, <1>6, <1>7 DEF ChainOf

LEMMA OwnersKept ==
    ASSUME Typed, ChainSame, ChainInv,
           \A t \in Team :
              /\ Allocates(t)' \/ pc'[t] = "share" => Allocates(t) \/ pc[t] = "share"
              /\ pc'[t] = "wait" => pc[t] = "wait"
              /\ pc[t] \in Starting \cup {"share"} => last_work_share'[t] = last_work_share[t]
    PROVE  \A t \in Team' : OwnersOf(t)'
<1>0. Team' = Team
  BY RegionKept DEF ChainSame
<1> SUFFICES ASSUME NEW t \in Team PROVE OwnersOf(t)'
  BY <1>0
<1>1. pc[t] \in Starting \cup {"share"} => last_work_share[t] \in Live
  BY UsesLive
<1>2. \A s \in Team : (Allocates(s) \/ pc[s] = "share") => pc[s] \in Starting \cup {"share"}
  BY DEF Allocates, Starting
<1>3. OwnersOf(t)
  BY DEF ChainInv
<1>4. ASSUME Allocates(t)' \/ pc'[t] = "share"
      PROVE  /\ shares'[last_work_share'[t]].next = Owned
             /\ \A s \in Team : (Allocates(s)' \/ pc'[s] = "share")
                                /\ last_work_share'[s] = last_work_share'[t] => s = t
  <2>1. (Allocates(t) \/ pc[t] = "share") /\ last_work_share'[t] = last_work_share[t]
        /\ last_work_share[t] \in Live
    BY <1>1, <1>2, <1>4
  <2>2. \A s \in Team : (Allocates(s)' \/ pc'[s] = "share")
                        /\ last_work_share'[s] = last_work_share'[t] =>
                            Owner(s, last_work_share[t])
    BY <1>2, <2>1 DEF Owner
  <2> QED
    BY <1>3, <2>1, <2>2 DEF OwnersOf, ChainSame
<1>5. ASSUME pc'[t] = "wait" PROVE shares'[last_work_share'[t]].next # None
  <2>1. pc[t] = "wait" /\ last_work_share'[t] = last_work_share[t] /\ last_work_share[t] \in Live
    BY <1>1, <1>5 DEF Starting
  <2> QED
    BY <1>3, <2>1 DEF OwnersOf, ChainSame
<1> QED
  BY <1>0, <1>4, <1>5 DEF OwnersOf, Owner

LEMMA PlaceKept ==
    ASSUME NEW t \in Team, PlaceOf(t), region' = region, pc'[t] = pc[t], at'[t] = at[t],
           last_work_share'[t] = last_work_share[t]
    PROVE  PlaceOf(t)'
BY DEF PlaceOf, Construct, Frees

LEMMA UsesKept ==
    ASSUME Typed, ChainInv, NEW t \in Team, region' = region, pc'[t] = pc[t], at'[t] = at[t],
           work_share'[t] = work_share[t], last_work_share'[t] = last_work_share[t],
           \A w \in Live : shares'[w].use = shares[w].use
    PROVE  SharesOf(t)'
<1>0. shareOf' = shareOf
  BY RegionKept
<1>1. /\ SharesOf(t)
      /\ t \in Threads /\ region.length \in Nat
      /\ pc[t] \notin Starting \cup {"end"} => work_share[t] \in Live
      /\ last_work_share[t] \in Shares \cup {None} /\ at[t] \in 0..region.length
  BY UsesLive, RegionFacts, ShareFacts, ThreadFacts DEF ChainInv, Typed
<1>2. at[t] >= 1 => shareOf[at[t] - 1] \in Nat
  BY <1>1, ShareOfFacts DEF Typed
<1>3. \A w \in Shares : shares[w].use \in Nat => w \in Live
  BY DEF Live
<1>4. pc[t] \in Starting \cup {"share"} => at[t] >= 1
  BY DEF ChainInv, PlaceOf
<1>5. Construct(t)' = Construct(t)
  BY DEF Construct
<1>6. pc[t] \in {"asleep", "open", "leave"} /\ Construct(t) = "copy" => at[t] >= 1
  BY <1>1, RegionFacts DEF Construct, Typed
<1> QED
  BY <1>0, <1>1, <1>2, <1>3, <1>4, <1>5, <1>6 DEF SharesOf, Starting

LEMMA FreeingKept ==
    ASSUME Typed, ChainInv, NEW t \in Team, FreeingOf(t), region' = region, pc'[t] = pc[t],
           at'[t] = at[t], work_share'[t] = work_share[t],
           \A w \in Live : shares'[w].completed = shares[w].completed,
           \A w \in Live' : w \in Live /\ shares'[w].use = shares[w].use
    PROVE  FreeingOf(t)'
<1>0. shareOf' = shareOf /\ Team' = Team /\ Construct(t)' = Construct(t) /\ Frees(t)' = Frees(t)
  BY RegionKept DEF Construct, Frees
<1>1. Frees(t) => work_share[t] \in Live
  BY UsesLive DEF Frees, Starting
<1> QED
  BY <1>0, <1>1 DEF FreeingOf

LEMMA SetsFinite ==
    ASSUME region \in Regions, NEW S \in SUBSET Team
    PROVE  IsFiniteSet(S) /\ Cardinality(S) \in Nat /\ Cardinality(S) <= Cardinality(Team)
BY RegionFacts, FS_Subset, FS_CardinalityType

LEMMA CountsKept ==
    ASSUME Typed, region' = region, \A w \in Live : CountOf(w),
           \A w \in Live' : /\ w \in Live /\ shares'[w].use = shares[w].use
                            /\ shares'[w].completed = shares[w].completed,
           \A t \in Team, k \in Counted : Sure(t, k)' => Sure(t, k),
           \A t \in Team, k \in Counted : Maybe(t, k) => Maybe(t, k)'
    PROVE  \A w \in Live' : CountOf(w)'
<1>0. Team' = Team /\ Counted' = Counted /\ region \in Regions
  BY RegionKept DEF Typed
<1> SUFFICES ASSUME NEW w \in Live', NEW k \in Counted, shares[w].use = k
             PROVE  /\ Cardinality(SureSet(k)') <= shares[w].completed
                    /\ shares[w].completed <= Cardinality(MaybeSet(k)')
  BY <1>0 DEF CountOf
<1>1. /\ SureSet(k)' \subseteq SureSet(k) /\ MaybeSet(k) \subseteq MaybeSet(k)'
      /\ SureSet(k) \subseteq Team /\ MaybeSet(k)' \subseteq Team
  BY <1>0 DEF SureSet, MaybeSet
<1>2. /\ IsFiniteSet(SureSet(k)) /\ IsFiniteSet(MaybeSet(k)')
      /\ Cardinality(SureSet(k)) \in Nat /\ Cardinality(MaybeSet(k)') \in Nat
  BY <1>0, <1>1, SetsFinite
<1>3. /\ Cardinality(SureSet(k)') <= Cardinality(SureSet(k)) /\ Cardinality(SureSet(k)') \in Nat
      /\ Cardinality(MaybeSet(k)) <= Cardinality(MaybeSet(k)') /\ Cardinality(MaybeSet(k)) \in Nat
  BY <1>1, <1>2, FS_Subset, FS_CardinalityType
<1>4. /\ Cardinality(SureSet(k)) <= shares[w].completed
      /\ shares[w].completed <= Cardinality(MaybeSet(k))
      /\ shares[w].completed \in Nat
  BY LiveShares, ShareFacts DEF CountOf
<1> QED
  BY <1>2, <1>3, <1>4

LEMMA NeedsKept ==
    ASSUME region' = region, \A w \in Live : Needed(w),
           \A w \in Live' : w \in Live /\ shares'[w].use = shares[w].use,
           \A t \in Team, k \in 1..region.length :
              region.constructs[k] # "single" /\ Passed(t, k)' => Passed(t, k)
    PROVE  \A w \in Live' : Needed(w)'
<1>0. Team' = Team /\ \A k, j : Follows(k, j)' <=> Follows(k, j)
  BY RegionKept
<1> SUFFICES ASSUME NEW w \in Live', NEW k \in 1..region.length, Follows(k, shares[w].use)
             PROVE  \E t \in Team : ~Passed(t, k)'
  BY <1>0 DEF Needed, Follows
<1>1. PICK t \in Team : ~Passed(t, k)
  BY DEF Needed
<1> QED
  BY <1>1 DEF Follows

LEMMA BarrierKept ==
    ASSUME BarrierInv, region' = region, awaited' = awaited, cancelled' = cancelled,
           \A t \in Team :
              /\ Arrived(t)' <=> Arrived(t)
              /\ Opens(t)' <=> Opens(t)
              /\ pc'[t] = "end" <=> pc[t] = "end"
              /\ pc[t] = "asleep" => pc'[t] = "asleep"
              /\ pc[t] = "asleep" \/ Opens(t) => at'[t] = at[t]
              /\ \A b \in Barriers : Behind(t, b)' <=> Behind(t, b)
    PROVE  BarrierInv'
<1>0. Team' = Team /\ Barriers' = Barriers
  BY RegionKept
<1>1. {t \in Team : Arrived(t)}' = {t \in Team : Arrived(t)}
  BY <1>0
<1>2. Missing' = Missing
  BY <1>0 DEF Missing
<1>3. (\A s, t \in Team, b \in Barriers :
          pc[s] # "end" /\ pc[t] # "end" /\ Behind(s, b) => Behind(t, b))'
  BY <1>0 DEF BarrierInv
<1>4. (\A t \in Team : Opens(t) =>
          /\ ~cancelled
          /\ \A s \in Team \ {t} : pc[s] = "asleep" /\ at[s] = at[t])'
  BY <1>0 DEF BarrierInv
<1> QED
  BY <1>0, <1>1, <1>2, <1>3, <1>4 DEF BarrierInv

LEMMA ListsKept ==
    ASSUME Lists, Idle' = Idle, list_alloc' = list_alloc, list_free' = list_free,
           \A w \in Idle : shares'[w].next = shares[w].next
    PROVE  Lists'
BY DEF Lists

LEMMA HandKept ==
    ASSUME Typed, Shares' = Shares, NEW t \in Team, HandOf(t), Idle' = Idle, list_free' = list_free,
           region' = region, pc'[t] = pc[t], local'[t] = local[t],
           last_work_share'[t] = last_work_share[t],
           \A s \in Team : pc'[s] \in {"link", "cas"} =>
              pc[s] \in {"link", "cas"} /\ last_work_share'[s] = last_work_share[s],
           \A w \in Shares : shares[w].use = -1 =>
              shares'[w].use = -1 /\ shares'[w].next = shares[w].next
    PROVE  HandOf(t)'
<1>0. Team' = Team /\ t \in Threads
  BY RegionKept, RegionFacts DEF Typed
<1>1. last_work_share[t] \in Shares \cup {None} /\ local[t] \in Shares \cup {None}
  BY <1>0, ShareFacts
<1>2. Idle \subseteq Shares /\ \A w \in Idle : shares[w].use = -1
  BY DEF Idle
<1>3. (pc[t] = "init" =>
          /\ local[t] \in Shares /\ shares[local[t]].use = -1
          /\ \A s \in Team : pc[s] \in {"link", "cas"} => last_work_share[s] # local[t])'
  BY <1>0, <1>1 DEF HandOf
<1>4. (/\ pc[t] \in {"link", "cas"} => /\ last_work_share[t] # None
                                       /\ shares[last_work_share[t]].use = -1
       /\ pc[t] = "cas" => shares[last_work_share[t]].next = local[t])'
  BY <1>0, <1>1 DEF HandOf
<1>5. (pc[t] = "take" /\ local[t] # None =>
          /\ local[t] \in Idle
          /\ \/ list_free = local[t]
             \/ \E y \in Idle : y # local[t] /\ shares[y].next = local[t])'
  BY <1>0, <1>1, <1>2 DEF HandOf
<1> QED
  BY <1>3, <1>4, <1>5 DEF HandOf
-----------------------------------------------------------------------------
(* What a step of one thread keeps.                                        *)

Running == Typed /\ ChainInv /\ FreeInv /\ BarrierInv /\ ListInv

OthersSame(t) ==
    \A s \in Team \ {t} : /\ pc'[s] = pc[s] /\ at'[s] = at[s]
                          /\ work_share'[s] = work_share[s]
                          /\ last_work_share'[s] = last_work_share[s]

LEMMA OtherThreads ==
    ASSUME Running, NEW t \in Team, region' = region, OthersSame(t)
    PROVE  \A s \in Team \ {t} :
              /\ PlaceOf(s)'
              /\ (\A w \in Live : shares'[w].use = shares[w].use) => SharesOf(s)'
              /\ (/\ \A w \in Live : shares'[w].completed = shares[w].completed
                  /\ \A w \in Live' : w \in Live /\ shares'[w].use = shares[w].use) => FreeingOf(s)'
              /\ Frees(s)' <=> Frees(s)
              /\ Allocates(s)' <=> Allocates(s)
              /\ Arrived(s)' <=> Arrived(s)
              /\ Opens(s)' <=> Opens(s)
              /\ \A k : /\ Beyond(s, k)' <=> Beyond(s, k)
                        /\ Sure(s, k)' <=> Sure(s, k)
                        /\ Maybe(s, k)' <=> Maybe(s, k)
                        /\ Passed(s, k)' <=> Passed(s, k)
                        /\ Behind(s, k)' <=> Behind(s, k)
<1> SUFFICES ASSUME NEW s \in Team \ {t}
             PROVE  /\ PlaceOf(s)'
                    /\ (\A w \in Live : shares'[w].use = shares[w].use) => SharesOf(s)'
                    /\ (/\ \A w \in Live : shares'[w].completed = shares[w].completed
                        /\ \A w \in Live' : w \in Live /\ shares'[w].use = shares[w].use) => FreeingOf(s)'
                    /\ Frees(s)' <=> Frees(s)
                    /\ Allocates(s)' <=> Allocates(s)
                    /\ Arrived(s)' <=> Arrived(s)
                    /\ Opens(s)' <=> Opens(s)
                    /\ \A k : /\ Beyond(s, k)' <=> Beyond(s, k)
                              /\ Sure(s, k)' <=> Sure(s, k)
                              /\ Maybe(s, k)' <=> Maybe(s, k)
                              /\ Passed(s, k)' <=> Passed(s, k)
                              /\ Behind(s, k)' <=> Behind(s, k)
  OBVIOUS
<1>1. /\ pc'[s] = pc[s] /\ at'[s] = at[s] /\ work_share'[s] = work_share[s]
      /\ last_work_share'[s] = last_work_share[s] /\ Construct(s)' = Construct(s)
  BY DEF OthersSame, Construct
<1>2. PlaceOf(s)'
  BY <1>1, PlaceKept DEF Running, ChainInv
<1>3. (\A w \in Live : shares'[w].use = shares[w].use) => SharesOf(s)'
  BY <1>1, UsesKept DEF Running
<1>4. (/\ \A w \in Live : shares'[w].completed = shares[w].completed
       /\ \A w \in Live' : w \in Live /\ shares'[w].use = shares[w].use) => FreeingOf(s)'
  BY <1>1, FreeingKept DEF Running, FreeInv
<1>5. (Frees(s)' <=> Frees(s)) /\ (Allocates(s)' <=> Allocates(s))
  BY <1>1 DEF Frees, Allocates
<1>6. (Arrived(s)' <=> Arrived(s)) /\ (Opens(s)' <=> Opens(s))
  BY <1>1, <1>5 DEF Arrived, Opens
<1>7. \A k : /\ Beyond(s, k)' <=> Beyond(s, k)
             /\ Sure(s, k)' <=> Sure(s, k)
             /\ Maybe(s, k)' <=> Maybe(s, k)
             /\ Passed(s, k)' <=> Passed(s, k)
             /\ Behind(s, k)' <=> Behind(s, k)
  BY <1>1, <1>5 DEF Beyond, Sure, Maybe, Passed, Behind
<1> QED
  BY <1>2, <1>3, <1>4, <1>5, <1>6, <1>7

\* A step that leaves the chain alone and starts no construct.
LEMMA MoveChain ==
    ASSUME Running, Typed', NEW t \in Team, ChainSame, OthersSame(t),
           at[t] <= at'[t],
           pc[t] # "share" /\ pc'[t] \notin {"share", "wait"},
           Allocates(t)' => Allocates(t) /\ last_work_share'[t] = last_work_share[t],
           pc[t] # "wait",
           Allocates(t) => Allocates(t)',
           \A k \in 1..region.length : region.constructs[k] # "single" =>
              (Beyond(t, k)' => Beyond(t, k)),
           PlaceOf(t)', SharesOf(t)'
    PROVE  ChainInv'
<1>0. Team' = Team /\ region' = region /\ Live' = Live
      /\ \A w \in Live : shares'[w].use = shares[w].use
  BY RegionKept DEF ChainSame
<1>1. \A s \in Team \ {t} :
          /\ PlaceOf(s)' /\ SharesOf(s)'
          /\ Allocates(s)' <=> Allocates(s)
          /\ \A k : Beyond(s, k)' <=> Beyond(s, k)
  BY <1>0, OtherThreads
<1>2. \A s \in Team : at[s] \in Nat /\ at'[s] \in Nat
  BY RegionFacts, ThreadFacts, <1>0 DEF Running, Typed
<1>3. Unique' /\ \A w \in Live' : ChainOf(w)'
  <2>1. \A s \in Team :
            /\ at[s] <= at'[s]
            /\ pc'[s] = "share" <=> pc[s] = "share"
            /\ pc[s] = "share" => /\ last_work_share'[s] = last_work_share[s]
                                  /\ work_share'[s] = work_share[s]
            /\ \A k \in 1..region.length :
                  region.constructs[k] # "single" /\ Beyond(s, k)' => Beyond(s, k)
    BY <1>1, <1>2 DEF OthersSame
  <2> QED
    BY <2>1, ChainsKept DEF Running, ChainInv
<1>4. \A s \in Team' : OwnersOf(s)'
  <2>1. \A s \in Team :
            /\ Allocates(s)' \/ pc'[s] = "share" => Allocates(s) \/ pc[s] = "share"
            /\ pc'[s] = "wait" => pc[s] = "wait"
            /\ pc[s] \in Starting \cup {"share"} => last_work_share'[s] = last_work_share[s]
    BY <1>1 DEF OthersSame, Starting, Allocates
  <2> QED
    BY <2>1, OwnersKept DEF Running
<1> QED
  BY <1>0, <1>1, <1>3, <1>4 DEF ChainInv

\* A step that leaves the live shares alone, and brings its thread neither past
\* a share nor through a construct that it counts.
LEMMA MoveKeeps ==
    ASSUME Running, Typed', NEW t \in Team, SharesSame, OthersSame(t),
           at[t] <= at'[t],
           pc[t] \notin {"share", "wait"} /\ pc'[t] \notin {"share", "wait"},
           Allocates(t)' => Allocates(t) /\ last_work_share'[t] = last_work_share[t],
           Allocates(t) => Allocates(t)',
           Frees(t)' => Frees(t) \/ \A s \in Team \ {t} : ~Frees(s),
           \A k \in 1..region.length : region.constructs[k] # "single" =>
              /\ Beyond(t, k)' => Beyond(t, k)
              /\ Passed(t, k)' => Passed(t, k),
           \A k \in Counted : (Sure(t, k)' => Sure(t, k)) /\ (Maybe(t, k) => Maybe(t, k)'),
           PlaceOf(t)', SharesOf(t)', FreeingOf(t)'
    PROVE  ChainInv' /\ FreeInv'
<1>0. Team' = Team /\ region' = region /\ Live' = Live
      /\ \A w \in Live : /\ shares'[w].use = shares[w].use
                          /\ shares'[w].completed = shares[w].completed
  BY RegionKept DEF SharesSame, ChainSame
<1>1. \A s \in Team \ {t} :
          /\ FreeingOf(s)'
          /\ Frees(s)' <=> Frees(s)
          /\ \A k : /\ Sure(s, k)' <=> Sure(s, k)
                    /\ Maybe(s, k)' <=> Maybe(s, k)
                    /\ Passed(s, k)' <=> Passed(s, k)
  BY <1>0, OtherThreads
<1>2. ChainInv'
  <2>1. \A k \in 1..region.length : region.constructs[k] # "single" =>
            (Beyond(t, k)' => Beyond(t, k))
    OBVIOUS
  <2> QED
    BY <2>1, MoveChain DEF SharesSame
<1>3. \A w \in Live' : CountOf(w)'
  <2>1. \A s \in Team, k \in Counted : Sure(s, k)' => Sure(s, k)
    BY <1>1
  <2>2. \A s \in Team, k \in Counted : Maybe(s, k) => Maybe(s, k)'
    BY <1>1
  <2> QED
    BY <1>0, <2>1, <2>2, CountsKept DEF Running, FreeInv
<1>4. \A w \in Live' : Needed(w)'
  <2>1. \A s \in Team, k \in 1..region.length :
            region.constructs[k] # "single" /\ Passed(s, k)' => Passed(s, k)
    BY <1>1
  <2> QED
    BY <1>0, <2>1, NeedsKept DEF Running, FreeInv
<1>5. OneFrees'
  BY <1>0, <1>1 DEF Running, FreeInv, OneFrees
<1> QED
  BY <1>0, <1>1, <1>2, <1>3, <1>4, <1>5 DEF FreeInv

\* A step of a thread that neither gets to the team barrier nor leaves it.
LEMMA BarrierMove ==
    ASSUME Running, NEW t \in Team, OthersSame(t), region' = region, awaited' = awaited,
           cancelled' = cancelled, pc[t] # "asleep",
           Arrived(t)' <=> Arrived(t), Opens(t)' <=> Opens(t),
           pc'[t] = "end" <=> pc[t] = "end",
           Opens(t) => at'[t] = at[t],
           \A b \in Barriers : Behind(t, b)' <=> Behind(t, b)
    PROVE  BarrierInv'
<1>1. \A s \in Team \ {t} :
          /\ Arrived(s)' <=> Arrived(s)
          /\ Opens(s)' <=> Opens(s)
          /\ \A k : Behind(s, k)' <=> Behind(s, k)
  BY OtherThreads
<1>2. \A s \in Team :
          /\ Arrived(s)' <=> Arrived(s)
          /\ Opens(s)' <=> Opens(s)
          /\ pc'[s] = "end" <=> pc[s] = "end"
          /\ pc[s] = "asleep" => pc'[s] = "asleep"
          /\ pc[s] = "asleep" \/ Opens(s) => at'[s] = at[s]
          /\ \A b \in Barriers : Behind(s, b)' <=> Behind(s, b)
  BY <1>1 DEF OthersSame
<1> QED
  BY <1>2, BarrierKept DEF Running

\* A step of threads that have no share in their hands and no list in mind.
Holding == {"alloc", "take", "init", "link", "cas"}

LEMMA HandsKept ==
    ASSUME Running, Shares' = Shares, region' = region,
           list_alloc' = list_alloc, list_free' = list_free, local' = local,
           \A w \in Shares : /\ shares'[w].use = -1 <=> shares[w].use = -1
                             /\ shares[w].use = -1 => shares'[w].next = shares[w].next,
           \A s \in Team :
              \/ pc'[s] = pc[s] /\ last_work_share'[s] = last_work_share[s]
              \/ pc[s] \notin Holding /\ pc'[s] \notin Holding
    PROVE  ListInv'
<1>0. Team' = Team
  BY RegionKept
<1>1. \A w : InHand(w)' <=> InHand(w)
  BY <1>0 DEF InHand, Holding
<1>2. Idle' = Idle /\ \A w \in Idle : w \in Shares /\ shares[w].use = -1
  BY <1>1 DEF Idle
<1>3. Lists'
  BY <1>2, ListsKept DEF Running, ListInv
<1>4. ASSUME NEW s \in Team PROVE HandOf(s)'
  <2>1. CASE pc'[s] = pc[s] /\ last_work_share'[s] = last_work_share[s]
    <3>1. \A r \in Team : pc'[r] \in {"link", "cas"} =>
              pc[r] \in {"link", "cas"} /\ last_work_share'[r] = last_work_share[r]
      BY DEF Holding
    <3> QED
      BY <1>2, <2>1, <3>1, HandKept DEF Running, ListInv
  <2>2. CASE pc[s] \notin Holding /\ pc'[s] \notin Holding
    BY <2>2 DEF HandOf, Holding
  <2> QED
    BY <2>1, <2>2
<1>5. OneAllocates'
  BY <1>0 DEF Running, ListInv, OneAllocates, Allocates, Holding
<1> QED
  BY <1>0, <1>3, <1>4, <1>5 DEF ListInv

LEMMA SharesUnchanged ==
    ASSUME shares' = shares, region' = region
    PROVE  SharesSame /\ Shares' = Shares
BY DEF SharesSame, ChainSame, Live, Shares
-----------------------------------------------------------------------------
(* alloc_work_share.                                                       *)

\* A step of the thread that allocates, until it has a share.
LEMMA AllocatorKeeps ==
    ASSUME Running, Typed', NEW t \in Team, SharesSame, OthersSame(t), ListInv',
           awaited' = awaited, cancelled' = cancelled,
           Allocates(t), Allocates(t)', at'[t] = at[t],
           last_work_share'[t] = last_work_share[t]
    PROVE  Running'
<1>0. /\ region' = region /\ Construct(t)' = Construct(t) /\ shareOf' = shareOf
      /\ pc[t] \in {"alloc", "take", "init"} /\ pc'[t] \in {"alloc", "take", "init"}
      /\ at[t] \in Nat /\ t \in Threads
  BY RegionKept, RegionFacts, ThreadFacts DEF SharesSame, ChainSame, Construct, Allocates, Running, Typed
<1>1. PlaceOf(t)'
  BY <1>0 DEF Running, ChainInv, PlaceOf, Starting, Frees
<1>2. SharesOf(t)'
  <2>1. last_work_share[t] \in Live /\ last_work_share[t] # None
        /\ shares[last_work_share[t]].use = shareOf[at[t] - 1]
    BY <1>0, UsesLive DEF Running, ChainInv, SharesOf, Starting
  <2> QED
    BY <1>0, <2>1 DEF SharesOf, Starting, SharesSame, ChainSame
<1>3. FreeingOf(t)'
  BY <1>0 DEF FreeingOf, Frees
<1>4. ChainInv' /\ FreeInv'
  <2>1. \A k : (Beyond(t, k)' => Beyond(t, k)) /\ (Passed(t, k)' => Passed(t, k))
    BY <1>0 DEF Beyond, Passed, Starting
  <2>2. \A k : (Sure(t, k)' => Sure(t, k)) /\ (Maybe(t, k) => Maybe(t, k)')
    BY <1>0 DEF Sure, Maybe
  <2>3. ~Frees(t)'
    BY <1>0 DEF Frees
  <2> QED
    BY <1>0, <1>1, <1>2, <1>3, <2>1, <2>2, <2>3, MoveKeeps
<1>5. BarrierInv'
  <2>1. \A b : Behind(t, b)' <=> Behind(t, b)
    BY <1>0 DEF Behind, Frees
  <2>2. (Arrived(t)' <=> Arrived(t)) /\ (Opens(t)' <=> Opens(t))
    BY <1>0 DEF Arrived, Opens, Frees
  <2> QED
    BY <1>0, <2>1, <2>2, BarrierMove
<1> QED
  BY <1>4, <1>5 DEF Running

LEMMA AllocKeeps ==
    ASSUME Running, NEW t \in Team, Alloc(t) PROVE Running'
<1>0. /\ t \in Threads /\ pc[t] = "alloc" /\ Team' = Team
      /\ shares' = shares /\ region' = region /\ at' = at /\ list_free' = list_free
      /\ pc'[t] \in {"init", "take"} /\ pc' = [pc EXCEPT ![t] = pc'[t]]
      /\ local' = [local EXCEPT ![t] = local'[t]]
      /\ work_share' = work_share /\ last_work_share' = last_work_share
      /\ awaited' = awaited /\ cancelled' = cancelled
      /\ SharesSame /\ Shares' = Shares
  BY RegionFacts, RegionKept, SharesUnchanged
     DEF Alloc, Goto, teamVars, shareVars, Running, Typed
<1>1. OthersSame(t)
  BY <1>0, ThreadMaps DEF OthersSame, Running
<1>2. \/ /\ list_alloc \in Idle /\ local'[t] = list_alloc /\ pc'[t] = "init"
         /\ list_alloc' = shares[list_alloc].next
      \/ /\ list_alloc = None /\ list_alloc' = list_alloc
         /\ local'[t] = list_free /\ pc'[t] = "take"
  BY <1>0 DEF Alloc, Goto, Running, Typed, ListInv, Lists
<1>3. Typed'
  <2>1. list_alloc' \in Shares \cup {None} /\ local'[t] \in Shares \cup {None}
    BY <1>2, ShareFacts DEF Running, ListInv, Lists, Idle
  <2>2. local' \in [Threads -> Shares \cup {None}] /\ pc' \in [Threads -> PCs]
    BY <1>0, <2>1 DEF Running, Typed, PCs
  <2> QED
    BY <1>0, <2>1, <2>2 DEF Alloc, Running, Typed, listVars, shareVars, teamVars, Shares
<1>4. \A s \in Team : s # t => pc[s] \notin {"alloc", "take", "init"}
                               /\ pc'[s] = pc[s] /\ local'[s] = local[s]
  <2>1. \A s \in Team : s # t => pc[s] \notin {"alloc", "take", "init"}
    BY <1>0 DEF Running, ListInv, OneAllocates, Allocates
  <2> QED
    BY <1>0, <2>1, ThreadMaps DEF Running
<1>5. ListInv'
  <2>1. CASE list_alloc = None
    <3>1. pc'[t] = "take" /\ list_alloc' = list_alloc /\ local'[t] = list_free
      BY <1>2, <2>1, ShareFacts DEF Running, Idle
    <3>2. \A w : InHand(w)' <=> InHand(w)
      BY <1>0, <1>4, <3>1 DEF InHand
    <3>3. Idle' = Idle
      BY <1>0, <3>2 DEF Idle
    <3>4. Lists'
      BY <1>0, <3>1, <3>3, ListsKept DEF Running, ListInv
    <3>5. HandOf(t)'
      BY <1>0, <3>1, <3>3 DEF HandOf, Running, ListInv, Lists
    <3>6. ASSUME NEW s \in Team, s # t PROVE HandOf(s)'
      BY <1>0, <1>4, <3>6 DEF HandOf, Running, ListInv
    <3> QED
      BY <1>0, <1>4, <3>4, <3>5, <3>6 DEF ListInv, OneAllocates, Allocates
  <2>2. CASE list_alloc # None
    <3>1. /\ list_alloc \in Idle /\ local'[t] = list_alloc /\ pc'[t] = "init"
          /\ list_alloc' = shares[list_alloc].next
      BY <1>2, <2>2
    <3>2. \A w : InHand(w)' <=> InHand(w) \/ w = list_alloc
      BY <1>0, <1>4, <3>1 DEF InHand
    <3>3. Idle' = Idle \ {list_alloc}
      BY <1>0, <3>1, <3>2 DEF Idle
    <3>4. Lists'
      BY <1>0, <3>1, <3>3 DEF Running, ListInv, Lists
    <3>5. HandOf(t)'
      BY <1>0, <1>4, <3>1 DEF HandOf, Idle, InHand
    <3>6. ASSUME NEW s \in Team, s # t PROVE HandOf(s)'
      BY <1>0, <1>4, <3>6 DEF HandOf, Running, ListInv
    <3> QED
      BY <1>0, <1>4, <3>4, <3>5, <3>6 DEF ListInv, OneAllocates, Allocates
  <2> QED
    BY <2>1, <2>2
<1> QED
  BY <1>0, <1>1, <1>3, <1>5, AllocatorKeeps DEF Allocates

LEMMA SetNext ==
    ASSUME Typed, NEW w \in Shares, NEW x \in Shares \cup {None, Owned},
           shares' = [shares EXCEPT ![w].next = x]
    PROVE  /\ Shares' = Shares /\ shares' \in [Shares -> ShareIn(Shares)]
           /\ shares'[w].next = x
           /\ \A v \in Shares : /\ v # w => shares'[v].next = shares[v].next
                               /\ shares'[v].use = shares[v].use
                               /\ shares'[v].completed = shares[v].completed
<1>1. Shares' = Shares
  BY DEF Shares
<1>2. \A v \in Shares : shares[v] \in ShareIn(Shares)
  BY ShareFacts
<1>3. shares' = [v \in Shares |-> IF v = w THEN [shares[w] EXCEPT !.next = x] ELSE shares[v]]
  BY DEF Shares
<1>4. [shares[w] EXCEPT !.next = x] \in ShareIn(Shares)
      /\ [shares[w] EXCEPT !.next = x].next = x
      /\ [shares[w] EXCEPT !.next = x].use = shares[w].use
      /\ [shares[w] EXCEPT !.next = x].completed = shares[w].completed
  BY <1>2 DEF ShareIn
<1> QED
  BY <1>1, <1>2, <1>3, <1>4

LEMMA TakeKeeps ==
    ASSUME Running, NEW t \in Team, Take(t) PROVE Running'
<1> DEFINE ws == local[t]
           next == shares[ws].next
<1>0. /\ t \in Threads /\ pc[t] = "take" /\ Team' = Team
      /\ ws \in Idle /\ next # None
      /\ shares' = [shares EXCEPT ![ws].next = None]
      /\ list_alloc' = shares[next].next
      /\ region' = region /\ at' = at /\ list_free' = list_free
      /\ pc' = [pc EXCEPT ![t] = "init"]
      /\ local' = [local EXCEPT ![t] = next]
      /\ work_share' = work_share /\ last_work_share' = last_work_share
      /\ awaited' = awaited /\ cancelled' = cancelled /\ chunk' = chunk /\ to_free' = to_free
      /\ first' = first /\ got' = got
  BY RegionFacts, RegionKept
     DEF Take, CutOff, Goto, teamVars, shareVars, Running, Typed, ListInv, HandOf
<1>1. /\ \A w \in Idle : /\ w \in Shares /\ shares[w].use = -1
                         /\ shares[w].next \in Idle \cup {None}
                         /\ shares[w].next # None => shares[w].next \notin {list_alloc, list_free}
      /\ \A v, w \in Idle : shares[v].next = shares[w].next /\ shares[v].next # None => v = w
      /\ next \in Idle
      /\ list_free \in Idle \cup {None}
  BY <1>0 DEF Running, ListInv, Lists, Idle
<1>2. next # ws
  <2>1. list_free = ws \/ \E y \in Idle : y # ws /\ shares[y].next = ws
    BY <1>0, ShareFacts, <1>1 DEF Running, ListInv, HandOf
  <2> QED
    BY <1>0, <1>1, <2>1
<1> HIDE DEF ws, next
<1>3. /\ Shares' = Shares /\ shares' \in [Shares -> ShareIn(Shares)]
      /\ shares'[ws].next = None
      /\ \A v \in Shares : /\ v # ws => shares'[v].next = shares[v].next
                           /\ shares'[v].use = shares[v].use
                           /\ shares'[v].completed = shares[v].completed
  BY <1>0, <1>1, SetNext DEF Running
<1>4. SharesSame
  <2>1. Live' = Live
    BY <1>3 DEF Live
  <2> QED
    BY <1>0, <1>1, <1>3, <2>1, LiveShares DEF SharesSame, ChainSame, Running
<1>5. \A s \in Team : s # t => pc[s] \notin {"alloc", "take", "init"}
                               /\ pc'[s] = pc[s] /\ local'[s] = local[s]
  <2>1. \A s \in Team : s # t => pc[s] \notin {"alloc", "take", "init"}
    BY <1>0 DEF Running, ListInv, OneAllocates, Allocates
  <2> QED
    BY <1>0, <2>1, ThreadMaps DEF Running
<1>6. pc'[t] = "init" /\ local'[t] = next
  BY <1>0, ThreadMaps DEF Running
<1>7. Typed'
  <2>1. list_alloc' \in Shares \cup {None} /\ next \in Shares
    BY <1>0, <1>1
  <2>2. local' \in [Threads -> Shares \cup {None}] /\ pc' \in [Threads -> PCs]
    BY <1>0, <2>1, ThreadMaps DEF Running, PCs
  <2> QED
    BY <1>0, <1>3, <2>1, <2>2 DEF Running, Typed
<1>8. Idle' = Idle \ {next}
  <2>1. \A w : InHand(w)' <=> InHand(w) \/ w = next
    BY <1>0, <1>5, <1>6 DEF InHand
  <2> QED
    BY <1>1, <1>3, <2>1 DEF Idle
<1>9. Lists'
  <2>1. shares[next].next \in (Idle \ {next}) \cup {None}
    BY <1>0, <1>1, <1>2 DEF next
  <2>2. list_free # next
    BY <1>0, <1>1 DEF next
  <2>3. list_alloc' # None => list_alloc' # list_free'
    BY <1>0, <1>1
  <2>4. \A w \in Idle \ {next} :
            /\ shares'[w].next \in (Idle \ {next}) \cup {None}
            /\ shares'[w].next # None => shares'[w].next \notin {list_alloc', list_free'}
    <3> SUFFICES ASSUME NEW w \in Idle \ {next}, w # ws, shares[w].next # None
                 PROVE  /\ shares[w].next \in Idle \ {next}
                        /\ shares[w].next \notin {shares[next].next, list_free}
      BY <1>0, <1>1, <1>3
    <3> QED
      BY <1>0, <1>1 DEF next
  <2>5. \A v, w \in Idle \ {next} :
            shares'[v].next = shares'[w].next /\ shares'[v].next # None => v = w
    BY <1>1, <1>3
  <2> QED
    BY <1>0, <1>1, <1>8, <2>1, <2>2, <2>3, <2>4, <2>5 DEF Lists
<1>10. HandOf(t)'
  BY <1>0, <1>1, <1>3, <1>5, <1>6 DEF HandOf, Idle, InHand
<1>11. ASSUME NEW s \in Team, s # t PROVE HandOf(s)'
  <2>1. pc[s] \in {"link", "cas"} => last_work_share[s] # ws /\ last_work_share[s] \in Shares
    BY <1>0, <1>1, ThreadMaps DEF Idle, InHand, Running, ListInv, HandOf
  <2> QED
    BY <1>0, <1>3, <1>5, <1>11, <2>1 DEF HandOf, Running, ListInv
<1>12. ListInv'
  BY <1>0, <1>5, <1>9, <1>10, <1>11 DEF ListInv, OneAllocates, Allocates
<1>13. OthersSame(t)
  BY <1>0, <1>5 DEF OthersSame
<1> QED
  BY <1>0, <1>4, <1>6, <1>7, <1>12, <1>13, AllocatorKeeps DEF Allocates

LEMMA NumberOfShares ==
    ASSUME Typed
    PROVE  \E n \in Nat : n >= 1 /\ Shares = 0..n - 1 /\ Max(Shares) + 1 = n
<1>1. PICK m \in Nat : Shares = 0..m
  BY DEF Typed
<1>2. Shares \in SUBSET (0..m) /\ Shares # {}
  <2>1. 0 \in 0..m
    OBVIOUS
  <2> QED
    BY <1>1, <2>1
<1>3. Max(Shares) \in 0..m /\ \A y \in 0..m : Max(Shares) >= y
  BY <1>1, <1>2, MaxOfRange
<1>4. Max(Shares) = m
  BY <1>1, <1>3
<1> QED
  BY <1>1, <1>4

\* malloc: the old shares stay as they are, the new ones are linked.
LEMMA MoreShares ==
    ASSUME Typed, NEW n \in Nat, NEW top \in Nat, Shares = 0..n - 1, n + 1 <= top,
           shares' = [w \in Shares \cup DOMAIN Block(n, top) |->
                         IF w \in Shares THEN shares[w] ELSE Block(n, top)[w]]
    PROVE  /\ Shares' = 0..top
           /\ \A w \in Shares : w \in Shares' /\ shares'[w] = shares[w]
           /\ \A w \in n..top : /\ w \in Shares' /\ shares'[w].use = -1
                                /\ w < top => shares'[w].next = w + 1
                                /\ w = top => shares'[w].next = None
           /\ shares' \in [Shares' -> ShareIn(Shares')]
<1>3. n \in Nat /\ top \in Nat /\ n + 1 <= top /\ Shares = 0..n - 1
  OBVIOUS
<1>4. Block(n, top) = [w \in n..top |-> Fresh(IF w < top THEN w + 1 ELSE None)]
  BY DEF Block
<1>5. shares' = [w \in 0..top |-> IF w \in Shares THEN shares[w]
                                              ELSE Fresh(IF w < top THEN w + 1 ELSE None)]
  <2>1. DOMAIN Block(n, top) = n..top /\ Shares \cup (n..top) = 0..top
    BY <1>3, <1>4
  <2>2. shares' = [w \in 0..top |-> IF w \in Shares THEN shares[w] ELSE Block(n, top)[w]]
    BY <2>1
  <2>3. \A w \in 0..top : w \in Shares \/ w \in n..top
    BY <1>3
  <2> QED
    BY <1>4, <2>2, <2>3
<1>6. Shares' = 0..top /\ \A w \in Shares : w \in Shares' /\ shares'[w] = shares[w]
  BY <1>3, <1>5 DEF Shares
<1>7. \A w \in n..top : /\ w \in Shares'
                        /\ w < top => shares'[w] = Fresh(w + 1)
                        /\ w = top => shares'[w] = Fresh(None)
  <2>1. \A w \in n..top : w \in 0..top /\ w \notin Shares
    BY <1>3
  <2> SUFFICES ASSUME NEW w \in n..top
               PROVE  /\ w < top => shares'[w] = Fresh(w + 1)
                      /\ w = top => shares'[w] = Fresh(None)
    BY <1>6, <2>1
  <2>2. shares'[w] = Fresh(IF w < top THEN w + 1 ELSE None)
    BY <1>5, <2>1
  <2>3. CASE w < top
    BY <1>3, <2>2, <2>3
  <2>4. CASE w = top
    BY <1>3, <2>2, <2>4
  <2> QED
    BY <1>3, <2>3, <2>4
<1>8. /\ \A x \in 0..top : /\ Fresh(x).use = -1 /\ Fresh(x).next = x
                           /\ Fresh(x) \in ShareIn(0..top)
      /\ Fresh(None).use = -1 /\ Fresh(None).next = None /\ Fresh(None) \in ShareIn(0..top)
  BY DEF Fresh, ShareIn
<1>9. \A w \in Shares : shares[w] \in ShareIn(0..top)
  <2>1. Shares \subseteq 0..top
    BY <1>3
  <2>2. \A w \in Shares : shares[w] \in ShareIn(Shares)
    BY ShareFacts
  <2> QED
    BY <2>1, <2>2 DEF ShareIn
<1>10. \A w \in 0..top : shares'[w] \in ShareIn(0..top)
  <2>1. \A w \in 0..top : w \in Shares \/ w \in n..top
    BY <1>3
  <2>2. \A w \in n..top : w = top \/ (w < top /\ w + 1 \in 0..top)
    BY <1>3
  <2> SUFFICES ASSUME NEW w \in 0..top PROVE shares'[w] \in ShareIn(0..top)
    OBVIOUS
  <2>3. CASE w \in Shares
    BY <1>6, <1>9, <2>3
  <2>4. CASE w \in n..top /\ w = top
    BY <1>7, <1>8, <2>4
  <2>5. CASE w \in n..top /\ w < top /\ w + 1 \in 0..top
    BY <1>7, <1>8, <2>5
  <2> QED
    BY <2>1, <2>2, <2>3, <2>4, <2>5
<1>11. shares' \in [Shares' -> ShareIn(Shares')]
  <2>1. shares' = [w \in 0..top |-> shares'[w]]
    BY <1>5
  <2> QED
    BY <1>6, <1>10, <2>1
<1>12. \A w \in n..top : /\ shares'[w].use = -1
                         /\ w < top => shares'[w].next = w + 1
                         /\ w = top => shares'[w].next = None
  <2>1. \A w \in n..top : w = top \/ (w < top /\ w + 1 \in 0..top)
    BY <1>3
  <2> SUFFICES ASSUME NEW w \in n..top
               PROVE  /\ shares'[w].use = -1
                      /\ w < top => shares'[w].next = w + 1
                      /\ w = top => shares'[w].next = None
    OBVIOUS
  <2>2. CASE w = top
    <3>1. shares'[w] = Fresh(None)
      BY <1>7, <2>2
    <3> QED
      BY <1>3, <1>8, <2>2, <3>1
  <2>3. CASE w < top /\ w + 1 \in 0..top
    BY <1>3, <1>7, <1>8, <2>3
  <2> QED
    BY <2>1, <2>2, <2>3
<1> QED
  BY <1>3, <1>6, <1>7, <1>11, <1>12

LEMMA MallocKeeps ==
    ASSUME Running, NEW t \in Team, Malloc(t) PROVE Running'
<1>0. PICK n \in Nat : n >= 1 /\ Shares = 0..n - 1 /\ Max(Shares) + 1 = n
  BY NumberOfShares DEF Running
<1> DEFINE top == n + 2 * chunk - 1
<1>1. /\ t \in Threads /\ pc[t] = "take" /\ Team' = Team
      /\ shares' = [w \in Shares \cup DOMAIN Block(n, top) |->
                       IF w \in Shares THEN shares[w] ELSE Block(n, top)[w]]
      /\ list_alloc' = n + 1 /\ chunk' = 2 * chunk
      /\ region' = region /\ at' = at /\ list_free' = list_free
      /\ pc' = [pc EXCEPT ![t] = "init"]
      /\ local' = [local EXCEPT ![t] = n]
      /\ work_share' = work_share /\ last_work_share' = last_work_share
      /\ awaited' = awaited /\ cancelled' = cancelled /\ to_free' = to_free
      /\ first' = first /\ got' = got
  BY <1>0, RegionFacts, RegionKept
     DEF Malloc, Goto, teamVars, shareVars, Running, Typed
<1>2. /\ n \in Nat /\ top \in Nat /\ n + 1 <= top
      /\ Shares = 0..n - 1 /\ Shares' = 0..top
      /\ \A w \in Shares : w \in Shares' /\ shares'[w] = shares[w]
      /\ \A w \in n..top : /\ w \in Shares' /\ shares'[w].use = -1
                           /\ w < top => shares'[w].next = w + 1
                           /\ w = top => shares'[w].next = None
      /\ shares' \in [Shares' -> ShareIn(Shares')]
  <2>1. top \in Nat /\ n + 1 <= top
    BY ThreadFacts DEF Running
  <2> HIDE DEF top
  <2> QED
    BY <1>0, <1>1, <2>1, MoreShares DEF Running
<1> HIDE DEF top
<1>3. \A w : w \in Shares' <=> w \in Shares \/ w \in n..top
  BY <1>2
<1>4. SharesSame
  <2>1. Live' = Live
    BY <1>2, <1>3 DEF Live
  <2> QED
    BY <1>1, <1>2, <2>1 DEF SharesSame, ChainSame, Live
<1>5. \A s \in Team : s # t => pc[s] \notin {"alloc", "take", "init"}
                               /\ pc'[s] = pc[s] /\ local'[s] = local[s]
  <2>1. \A s \in Team : s # t => pc[s] \notin {"alloc", "take", "init"}
    BY <1>1 DEF Running, ListInv, OneAllocates, Allocates
  <2> QED
    BY <1>1, <2>1, ThreadMaps DEF Running
<1>6. pc'[t] = "init" /\ local'[t] = n
  BY <1>1, ThreadMaps DEF Running
<1>7. Typed'
  <2>1. local' \in [Threads -> Shares' \cup {None}] /\ pc' \in [Threads -> PCs]
    BY <1>1, <1>2, ThreadMaps DEF Running, PCs
  <2>2. /\ work_share' \in [Threads -> Shares'] /\ last_work_share' \in [Threads -> Shares' \cup {None}]
    BY <1>1, <1>2, ThreadMaps DEF Running
  <2>3. list_alloc' \in Shares' /\ list_free' \in Shares' \cup {None} /\ to_free' \in Shares'
    BY <1>1, <1>2, ShareFacts DEF Running
  <2>4. (\E m \in Shares : m \in Nat /\ Shares = 0..m)'
    BY <1>2
  <2>5. chunk' \in Nat \ {0}
    BY <1>1, ThreadFacts DEF Running
  <2> QED
    BY <1>1, <1>2, <2>1, <2>2, <2>3, <2>4, <2>5 DEF Running, Typed
<1>8. \A s \in Team : pc[s] \in {"link", "cas"} => last_work_share[s] \in Shares
  BY ShareFacts, ThreadMaps DEF Running, ListInv, HandOf
<1>9. Idle' = Idle \cup (n + 1..top) /\ Idle \subseteq Shares
  <2>1. \A w \in Shares : InHand(w)' <=> InHand(w)
    BY <1>1, <1>2, <1>5, <1>6 DEF InHand
  <2>2. \A w \in n..top : InHand(w)' <=> w = n
    BY <1>1, <1>2, <1>5, <1>6, <1>8 DEF InHand
  <2>3. \A w \in n..top : w = n \/ w \in n + 1..top
    BY <1>2
  <2>4. \A w \in Shares' : w \in Idle' <=> w \in Idle \/ w \in n + 1..top
    BY <1>2, <1>3, <2>1, <2>2, <2>3 DEF Idle
  <2> QED
    BY <1>2, <2>4 DEF Idle
<1>10. Lists'
  <2>1. /\ \A w \in Idle : /\ shares[w].next \in Idle \cup {None}
                           /\ shares[w].next # None => shares[w].next \notin {list_alloc, list_free}
        /\ \A v, w \in Idle : shares[v].next = shares[w].next /\ shares[v].next # None => v = w
        /\ list_free \in Idle \cup {None}
        /\ None \notin Nat
    BY NamesAssumption DEF Running, ListInv, Lists
  <2>2. \A w \in n + 1..top :
            /\ w \in Nat /\ w \notin Shares /\ shares'[w].next \in (n + 2..top) \cup {None}
            /\ shares'[w].next # None => shares'[w].next = w + 1
    BY <1>2
  <2>3. \A w \in Idle : w \in Shares /\ shares'[w].next = shares[w].next
    BY <1>2, <1>9
  <2>4. list_alloc' \in Idle' /\ list_alloc' # list_free' /\ list_free' \in Idle' \cup {None}
    BY <1>1, <1>2, <1>9, <2>1
  <2>5. \A w \in Idle' :
            /\ shares'[w].next \in Idle' \cup {None}
            /\ shares'[w].next # None => shares'[w].next \notin {list_alloc', list_free'}
    <3>1. ASSUME NEW w \in Idle
          PROVE  /\ shares'[w].next \in Idle' \cup {None}
                 /\ shares'[w].next # None => shares'[w].next \notin {list_alloc', list_free'}
      BY <1>1, <1>2, <1>9, <2>1, <2>3
    <3>2. ASSUME NEW w \in n + 1..top
          PROVE  /\ shares'[w].next \in Idle' \cup {None}
                 /\ shares'[w].next # None => shares'[w].next \notin {list_alloc', list_free'}
      <4>1. /\ \A x \in n + 2..top : x \in n + 1..top /\ x # n + 1 /\ x \notin Shares
            /\ list_free \in Shares \cup {None}
            /\ \A x \in n + 2..top : x # None
        BY <1>2, <1>9, <2>1
      <4>2. CASE shares'[w].next = None
        BY <4>2
      <4>3. CASE shares'[w].next \in n + 2..top
        <5>1. PICK x \in n + 2..top : x = shares'[w].next
          BY <4>3
        <5>2. x \in Idle' /\ x # list_alloc' /\ x # list_free'
          BY <1>1, <1>9, <4>1
        <5> QED
          BY <5>1, <5>2
      <4> QED
        BY <2>2, <4>2, <4>3
    <3> QED
      BY <1>9, <3>1, <3>2
  <2>6. \A v, w \in Idle' : shares'[v].next = shares'[w].next /\ shares'[v].next # None => v = w
    <3> SUFFICES ASSUME NEW v \in Idle', NEW w \in Idle',
                        shares'[v].next = shares'[w].next, shares'[v].next # None
                 PROVE  v = w
      OBVIOUS
    <3>1. CASE v \in Idle /\ w \in Idle
      BY <2>1, <2>3, <3>1
    <3>2. CASE v \in Idle /\ w \in n + 1..top
      <4>1. shares'[v].next \in Idle /\ shares'[v].next \in Shares
        BY <2>1, <2>3, <3>2 DEF Idle
      <4>2. shares'[w].next \in n + 2..top
        BY <2>2, <3>2
      <4> QED
        BY <1>2, <4>1, <4>2
    <3>3. CASE v \in n + 1..top /\ w \in Idle
      <4>1. shares'[w].next \in Idle /\ shares'[w].next \in Shares
        BY <2>1, <2>3, <3>3 DEF Idle
      <4>2. shares'[v].next \in n + 2..top
        BY <2>2, <3>3
      <4> QED
        BY <1>2, <4>1, <4>2
    <3>4. CASE v \in n + 1..top /\ w \in n + 1..top
      BY <2>2, <3>4
    <3> QED
      BY <1>9, <3>1, <3>2, <3>3, <3>4
  <2> QED
    BY <2>4, <2>5, <2>6 DEF Lists
<1>11. HandOf(t)'
  <2>1. n \in Shares' /\ shares'[n].use = -1
    BY <1>2
  <2>2. \A s \in Team : pc'[s] \in {"link", "cas"} => last_work_share'[s] # n
    BY <1>1, <1>2, <1>5, <1>6, <1>8
  <2> QED
    BY <1>1, <1>6, <2>1, <2>2 DEF HandOf
<1>12. ASSUME NEW s \in Team, s # t PROVE HandOf(s)'
  BY <1>1, <1>2, <1>5, <1>8, <1>12 DEF HandOf, Running, ListInv
<1>13. ListInv'
  BY <1>1, <1>5, <1>10, <1>11, <1>12 DEF ListInv, OneAllocates, Allocates
<1>14. OthersSame(t)
  BY <1>1, <1>5 DEF OthersSame
<1> QED
  BY <1>1, <1>4, <1>6, <1>7, <1>13, <1>14, AllocatorKeeps DEF Allocates
-----------------------------------------------------------------------------
(* Steps that touch neither lists nor the live shares.                     *)

\* What the invariant says of a thread.
LEMMA OfThread ==
    ASSUME Running, NEW t \in Team
    PROVE  /\ t \in Threads /\ region.length \in Nat
           /\ at[t] \in Nat /\ at[t] <= region.length
           /\ work_share[t] \in Shares /\ last_work_share[t] \in Shares \cup {None}
           /\ PlaceOf(t) /\ OwnersOf(t) /\ SharesOf(t) /\ FreeingOf(t) /\ HandOf(t)
           /\ at[t] >= 1 => Construct(t) \in Kinds
           /\ at[t] = 0 => Construct(t) \in {"loop", "nowait", "none"}
           /\ Construct(t) = region.constructs[at[t]]
<1>1. t \in Threads /\ region.length \in Nat /\ at[t] \in Nat /\ at[t] <= region.length
  BY RegionFacts, ThreadFacts DEF Running, Typed
<1>2. /\ at[t] >= 1 => Construct(t) \in Kinds
      /\ at[t] = 0 => Construct(t) \in {"loop", "nowait", "none"}
  BY <1>1, RegionFacts DEF Running, Typed, Construct
<1> QED
  BY <1>1, <1>2, ShareFacts DEF Running, ChainInv, FreeInv, ListInv, Construct

LEMMA LeaveKeeps ==
    ASSUME Running, NEW t \in Team, Leave(t) PROVE Running'
<1>0. /\ pc[t] = "leave" /\ Construct(t) \in {"loop", "copy"}
      /\ shares' = shares /\ region' = region /\ at' = at /\ local' = local
      /\ list_alloc' = list_alloc /\ list_free' = list_free
      /\ work_share' = work_share /\ awaited' = awaited /\ cancelled' = cancelled
      /\ Construct(t)' = Construct(t) /\ shareOf' = shareOf
  BY OfThread, RegionKept DEF Leave, listVars, teamVars, PlaceOf, Construct
<1>1. /\ pc' = [pc EXCEPT ![t] = IF Construct(t) = "loop" THEN "user" ELSE "nowait"]
      /\ last_work_share' = IF Construct(t) = "loop" THEN [last_work_share EXCEPT ![t] = None]
                                                   ELSE last_work_share
  BY DEF Leave, Goto, Reset
<1>2. /\ pc'[t] = IF Construct(t) = "loop" THEN "user" ELSE "nowait"
      /\ last_work_share'[t] = IF Construct(t) = "loop" THEN None ELSE last_work_share[t]
  BY <1>1, ThreadMaps DEF Running
<1>3. OthersSame(t)
  BY <1>0, <1>1, ThreadMaps DEF OthersSame, Running
<1>4. Typed'
  <2>1. pc' \in [Threads -> PCs] /\ last_work_share' \in [Threads -> Shares \cup {None}]
    BY <1>1, ThreadMaps DEF Running, PCs
  <2>2. got' \in [Threads -> Nat \cup {None}]
    <3>1. shares[work_share[t]].copyprivate \in Nat \cup {None}
      BY OfThread, ShareFacts DEF Running, ShareIn
    <3> QED
      BY <3>1 DEF Leave, Running, Typed
  <2> QED
    BY <1>0, <2>1, <2>2 DEF Leave, Running, Typed, listVars, Shares
<1>5. SharesSame /\ Shares' = Shares
  BY <1>0, SharesUnchanged
<1>6. PlaceOf(t)'
  BY <1>0, <1>2, OfThread DEF PlaceOf, Starting, Frees
<1>7. SharesOf(t)'
  BY <1>0, <1>2, OfThread DEF SharesOf, Starting
<1>8. FreeingOf(t)' /\ ~Frees(t)' /\ ~Allocates(t)' /\ ~Allocates(t)
  BY <1>0, <1>2 DEF FreeingOf, Frees, Allocates
<1>9. ChainInv' /\ FreeInv'
  <2>1. \A k \in 1..region.length : region.constructs[k] # "single" =>
            /\ Beyond(t, k)' => Beyond(t, k)
            /\ Passed(t, k)' => Passed(t, k)
    BY <1>0, <1>2 DEF Beyond, Passed, Starting
  <2>2. \A k \in Counted : (Sure(t, k)' => Sure(t, k)) /\ (Maybe(t, k) => Maybe(t, k)')
    BY <1>0, <1>2, OfThread DEF Sure, Maybe, Counted
  <2> QED
    BY <1>0, <1>2, <1>3, <1>4, <1>5, <1>6, <1>7, <1>8, <2>1, <2>2, OfThread, MoveKeeps
<1>10. BarrierInv'
  <2>1. \A b : Behind(t, b)' <=> Behind(t, b)
    BY <1>0, <1>2 DEF Behind, Frees
  <2>2. ~Arrived(t) /\ ~Arrived(t)' /\ ~Opens(t) /\ ~Opens(t)'
    BY <1>0, <1>2 DEF Arrived, Opens, Frees
  <2> QED
    BY <1>0, <1>2, <1>3, <2>1, <2>2, BarrierMove
<1>11. ListInv'
  <2>1. \A s \in Team : \/ pc'[s] = pc[s] /\ last_work_share'[s] = last_work_share[s]
                        \/ pc[s] \notin Holding /\ pc'[s] \notin Holding
    BY <1>0, <1>2, <1>3 DEF OthersSame, Holding
  <2> QED
    BY <1>0, <1>5, <2>1, HandsKept
<1> QED
  BY <1>4, <1>9, <1>10, <1>11 DEF Running

LEMMA SetField ==
    ASSUME Typed, NEW w \in Shares, NEW v \in ShareIn(Shares),
           v.next = shares[w].next, v.use = shares[w].use,
           shares' = [shares EXCEPT ![w] = v]
    PROVE  /\ Shares' = Shares /\ shares' \in [Shares -> ShareIn(Shares)] /\ shares'[w] = v
           /\ \A x \in Shares : /\ shares'[x].use = shares[x].use
                               /\ shares'[x].next = shares[x].next
                               /\ x # w => shares'[x] = shares[x]
           /\ Live' = Live
<1>1. Shares' = Shares
  BY DEF Shares
<1>2. shares \in [Shares -> ShareIn(Shares)]
  BY DEF Typed
<1>3. shares' \in [Shares -> ShareIn(Shares)]
  BY <1>1, <1>2
<1>4. \A x \in Shares : shares'[x] = IF x = w THEN v ELSE shares[x]
  BY <1>1, <1>2
<1>5. \A x \in Shares : shares'[x].use = shares[x].use /\ shares'[x].next = shares[x].next
  BY <1>4
<1> QED
  BY <1>1, <1>3, <1>4, <1>5 DEF Live

LEMMA CopyEndKeeps ==
    ASSUME Running, NEW t \in Team, CopyEnd(t) PROVE Running'
<1>0. /\ pc[t] = "execute" /\ Construct(t) = "copy"
      /\ shares' = [shares EXCEPT ![work_share[t]].copyprivate = at[t]]
      /\ region' = region /\ at' = at /\ local' = local
      /\ list_alloc' = list_alloc /\ list_free' = list_free
      /\ work_share' = work_share /\ last_work_share' = last_work_share
      /\ awaited' = awaited /\ cancelled' = cancelled
      /\ Construct(t)' = Construct(t) /\ shareOf' = shareOf
      /\ pc' = [pc EXCEPT ![t] = "arrive"] /\ pc'[t] = "arrive"
  BY OfThread, RegionKept, ThreadMaps
     DEF CopyEnd, Goto, listVars, teamVars, shareVars, PlaceOf, Construct, Running
<1>1. /\ Shares' = Shares /\ shares' \in [Shares -> ShareIn(Shares)] /\ Live' = Live
      /\ \A w \in Shares : /\ shares'[w].use = shares[w].use
                          /\ shares'[w].next = shares[w].next
                          /\ shares'[w].completed = shares[w].completed
  <2> DEFINE w == work_share[t]
             v == [shares[w] EXCEPT !.copyprivate = at[t]]
  <2>1. w \in Shares /\ shares[w] \in ShareIn(Shares) /\ at[t] \in Nat
    BY OfThread, ShareFacts DEF Running
  <2>2. /\ v \in ShareIn(Shares) /\ v.next = shares[w].next /\ v.use = shares[w].use
        /\ v.completed = shares[w].completed
    BY <2>1 DEF ShareIn
  <2>3. shares' = [shares EXCEPT ![w] = v]
    BY <1>0
  <2> HIDE DEF v, w
  <2> QED
    BY <2>1, <2>2, <2>3, SetField DEF Running
<1>2. SharesSame
  BY <1>0, <1>1, LiveShares DEF SharesSame, ChainSame, Running
<1>3. OthersSame(t)
  BY <1>0, ThreadMaps DEF OthersSame, Running
<1>4. Typed'
  <2>1. pc' \in [Threads -> PCs]
    BY <1>0, ThreadMaps DEF Running, PCs
  <2> QED
    BY <1>0, <1>1, <2>1 DEF CopyEnd, Running, Typed, listVars, shareVars, teamVars
<1>6. PlaceOf(t)'
  BY <1>0, OfThread DEF PlaceOf, Starting, Frees
<1>7. SharesOf(t)'
  <2>1. /\ shares[work_share[t]].use = shareOf[at[t]]
        /\ at[t] >= 1 => /\ last_work_share[t] # None
                         /\ shares[last_work_share[t]].use = shareOf[at[t] - 1]
    BY <1>0, OfThread DEF SharesOf, Starting
  <2> QED
    BY <1>0, <1>1, <2>1, OfThread DEF SharesOf, Starting
<1>8. FreeingOf(t)' /\ ~Frees(t)' /\ ~Allocates(t)' /\ ~Allocates(t)
  BY <1>0 DEF FreeingOf, Frees, Allocates
<1>9. ChainInv' /\ FreeInv'
  <2>1. \A k \in 1..region.length : region.constructs[k] # "single" =>
            /\ Beyond(t, k)' => Beyond(t, k)
            /\ Passed(t, k)' => Passed(t, k)
    BY <1>0 DEF Beyond, Passed, Starting
  <2>2. \A k \in Counted : (Sure(t, k)' => Sure(t, k)) /\ (Maybe(t, k) => Maybe(t, k)')
    BY <1>0 DEF Sure, Maybe
  <2> QED
    BY <1>0, <1>2, <1>3, <1>4, <1>6, <1>7, <1>8, <2>1, <2>2, OfThread, MoveKeeps
<1>10. BarrierInv'
  <2>1. \A b : Behind(t, b)' <=> Behind(t, b)
    BY <1>0 DEF Behind, Frees
  <2>2. ~Arrived(t) /\ ~Arrived(t)' /\ ~Opens(t) /\ ~Opens(t)'
    BY <1>0 DEF Arrived, Opens, Frees
  <2> QED
    BY <1>0, <1>3, <2>1, <2>2, BarrierMove
<1>11. ListInv'
  <2>1. \A s \in Team : \/ pc'[s] = pc[s] /\ last_work_share'[s] = last_work_share[s]
                        \/ pc[s] \notin Holding /\ pc'[s] \notin Holding
    BY <1>0, <1>3 DEF OthersSame, Holding
  <2> QED
    BY <1>0, <1>1, <2>1, HandsKept
<1> QED
  BY <1>4, <1>9, <1>10, <1>11 DEF Running

LEMMA SingleKeeps ==
    ASSUME Running, NEW t \in Team, Single(t) PROVE Running'
<1>0. /\ pc[t] = "user" /\ at[t] + 1 <= region.length
      /\ region.constructs[at[t] + 1] = "single"
      /\ shares' = shares /\ region' = region /\ local' = local /\ pc' = pc
      /\ list_alloc' = list_alloc /\ list_free' = list_free
      /\ work_share' = work_share /\ last_work_share' = last_work_share
      /\ awaited' = awaited /\ cancelled' = cancelled /\ shareOf' = shareOf
      /\ at' = [at EXCEPT ![t] = @ + 1] /\ at'[t] = at[t] + 1
  BY OfThread, RegionKept, ThreadMaps
     DEF Single, Enter, listVars, teamVars, shareVars, Running
<1>1. /\ t \in Threads /\ at[t] \in Nat /\ region.length \in Nat
      /\ at[t] + 1 \in 1..region.length
      /\ shareOf[at[t] + 1] = shareOf[at[t]]
  BY <1>0, OfThread, OfItsOwn DEF Running, Typed
<1>2. SharesSame /\ Shares' = Shares
  BY <1>0, SharesUnchanged
<1>3. OthersSame(t)
  BY <1>0, ThreadMaps DEF OthersSame, Running
<1>4. Typed'
  <2>1. at' \in [Threads -> 0..region.length]
    BY <1>0, <1>1, ThreadMaps DEF Running
  <2> QED
    BY <1>0, <2>1 DEF Single, Running, Typed, listVars, shareVars, teamVars, Shares
<1>6. PlaceOf(t)'
  BY <1>0, <1>1 DEF PlaceOf, Starting, Frees
<1>7. SharesOf(t)'
  BY <1>0, <1>1, OfThread DEF SharesOf, Starting
<1>8. FreeingOf(t)' /\ ~Frees(t)' /\ ~Allocates(t)' /\ ~Allocates(t)
  BY <1>0 DEF FreeingOf, Frees, Allocates
<1>9. ChainInv' /\ FreeInv'
  <2>1. \A k \in 1..region.length : region.constructs[k] # "single" =>
            /\ Beyond(t, k)' => Beyond(t, k)
            /\ Passed(t, k)' => Passed(t, k)
    BY <1>0, <1>1 DEF Beyond, Passed, Starting
  <2>2. \A k \in Counted : (Sure(t, k)' => Sure(t, k)) /\ (Maybe(t, k) => Maybe(t, k)')
    BY <1>0, <1>1 DEF Sure, Maybe, Counted
  <2> QED
    BY <1>0, <1>1, <1>2, <1>3, <1>4, <1>6, <1>7, <1>8, <2>1, <2>2, MoveKeeps
<1>10. BarrierInv'
  <2>1. \A b \in Barriers : Behind(t, b)' <=> Behind(t, b)
    BY <1>0, <1>1 DEF Behind, Frees, Barriers
  <2>2. ~Arrived(t) /\ ~Arrived(t)' /\ ~Opens(t) /\ ~Opens(t)'
    BY <1>0 DEF Arrived, Opens, Frees
  <2> QED
    BY <1>0, <1>3, <2>1, <2>2, BarrierMove
<1>11. ListInv'
  BY <1>0, <1>2, HandsKept
<1> QED
  BY <1>4, <1>9, <1>10, <1>11 DEF Running
-----------------------------------------------------------------------------
(* A thread jumps to the end of the region.                                *)

\* Counting threads.
LEMMA Counting ==
    ASSUME region \in Regions, NEW A \in SUBSET Team
    PROVE  /\ IsFiniteSet(A) /\ Cardinality(A) \in Nat /\ Cardinality(A) <= Cardinality(Team)
           /\ Cardinality(Team) \in Nat
           /\ \A B \in SUBSET A : Cardinality(B) <= Cardinality(A)
           /\ \A t \in Team : t \notin A =>
                 /\ Cardinality(A) < Cardinality(Team)
                 /\ Cardinality(A \cup {t}) = Cardinality(A) + 1
           /\ \A t \in A : Cardinality(A \ {t}) = Cardinality(A) - 1
<1>1. /\ IsFiniteSet(A) /\ Cardinality(A) \in Nat /\ Cardinality(A) <= Cardinality(Team)
      /\ Cardinality(Team) \in Nat /\ IsFiniteSet(Team)
  BY RegionFacts, SetsFinite
<1>2. \A B \in SUBSET A : Cardinality(B) <= Cardinality(A)
  BY <1>1, FS_Subset
<1>3. ASSUME NEW t \in Team, t \notin A
      PROVE  /\ Cardinality(A) < Cardinality(Team)
             /\ Cardinality(A \cup {t}) = Cardinality(A) + 1
  <2>1. Cardinality(A \cup {t}) = Cardinality(A) + 1
    BY <1>1, <1>3, FS_AddElement
  <2>2. Cardinality(A \cup {t}) <= Cardinality(Team)
    BY <1>1, FS_Subset
  <2> QED
    BY <1>1, <2>1, <2>2
<1>4. \A t \in A : Cardinality(A \ {t}) = Cardinality(A) - 1
  BY <1>1, FS_RemoveElement
<1> QED
  BY <1>1, <1>2, <1>3, <1>4

LEMMA TwoGroups ==
    ASSUME region \in Regions, NEW A \in SUBSET Team, NEW B \in SUBSET Team, A \cap B = {},
           NEW t \in Team, t \notin A, t \notin B
    PROVE  Cardinality(A) + Cardinality(B) < Cardinality(Team)
<1>1. IsFiniteSet(A) /\ IsFiniteSet(B) /\ Cardinality(A) \in Nat /\ Cardinality(B) \in Nat
  BY Counting
<1>2. Cardinality(A \cup B) = Cardinality(A) + Cardinality(B) - Cardinality(A \cap B)
  BY <1>1, FS_Union
<1>3. Cardinality(A \cap B) = 0
  BY FS_EmptySet
<1>4. A \cup B \in SUBSET Team /\ t \notin A \cup B
  OBVIOUS
<1>5. Cardinality(A \cup B) < Cardinality(Team)
  BY <1>4, Counting
<1> QED
  BY <1>1, <1>2, <1>3, <1>5

LEMMA EndKeeps ==
    ASSUME Running, NEW t \in Team,
           region' = region, shares' = shares, awaited' = awaited, at' = at, local' = local,
           list_alloc' = list_alloc, list_free' = list_free, to_free' = to_free, chunk' = chunk,
           work_share' = work_share, last_work_share' = last_work_share, first' = first, got' = got,
           pc' = [pc EXCEPT ![t] = "end"],
           pc[t] \in {"user", "work", "asleep"}, pc[t] = "asleep" => cancelled,
           \/ cancelled' = cancelled
           \/ cancelled' = TRUE /\ region.cancellable
    PROVE  Running'
<1>0. /\ pc'[t] = "end" /\ Team' = Team /\ Barriers' = Barriers
      /\ Construct(t)' = Construct(t) /\ shareOf' = shareOf /\ region \in Regions
      /\ cancelled' \in BOOLEAN /\ (cancelled => cancelled')
  BY RegionKept, ThreadMaps DEF Construct, Running, Typed
<1>1. OthersSame(t)
  BY ThreadMaps DEF OthersSame, Running
<1>2. SharesSame /\ Shares' = Shares
  BY SharesUnchanged
<1>3. Typed'
  <2>1. pc' \in [Threads -> PCs]
    BY ThreadMaps DEF Running, PCs
  <2> QED
    BY <1>0, <2>1 DEF Running, Typed, Shares
<1>4. PlaceOf(t)'
  BY <1>0, OfThread DEF PlaceOf, Starting, Frees
<1>5. SharesOf(t)'
  BY <1>0 DEF SharesOf, Starting
<1>6. FreeingOf(t)' /\ ~Frees(t)' /\ ~Allocates(t)' /\ ~Allocates(t)
  BY <1>0 DEF FreeingOf, Frees, Allocates
<1>7. ChainInv' /\ FreeInv'
  <2>1. \A k \in 1..region.length : region.constructs[k] # "single" =>
            /\ Beyond(t, k)' => Beyond(t, k)
            /\ Passed(t, k)' => Passed(t, k)
    BY <1>0 DEF Beyond, Passed, Starting
  <2>2. \A k \in Counted : (Sure(t, k)' => Sure(t, k)) /\ (Maybe(t, k) => Maybe(t, k)')
    BY <1>0 DEF Sure, Maybe
  <2> QED
    BY <1>0, <1>1, <1>2, <1>3, <1>4, <1>5, <1>6, <2>1, <2>2, OfThread, MoveKeeps
<1>8. BarrierInv'
  <2>0. \A s \in Team \ {t} :
            /\ pc'[s] = pc[s] /\ at'[s] = at[s]
            /\ Arrived(s)' <=> Arrived(s)
            /\ Opens(s)' <=> Opens(s)
            /\ \A k : Behind(s, k)' <=> Behind(s, k)
    BY <1>1, OtherThreads DEF OthersSame
  <2>1. ~Arrived(t)' /\ ~Opens(t)' /\ ~Opens(t) /\ (pc[t] # "asleep" => ~Arrived(t))
    BY <1>0 DEF Arrived, Opens, Frees
  <2>2. (\A r, s \in Team, b \in Barriers :
            pc[r] # "end" /\ pc[s] # "end" /\ Behind(r, b) => Behind(s, b))'
    BY <1>0, <2>0 DEF Running, BarrierInv
  <2>3. \A s \in Team : ~cancelled /\ Opens(s) => FALSE
    BY <2>1, OfThread DEF Running, BarrierInv
  <2>4. \A s \in Team : ~Opens(s)'
    BY <2>0, <2>1, <2>3 DEF Running, BarrierInv
  <2> DEFINE A == {s \in Team : Arrived(s)}
  <2>5. ~cancelled' => awaited = Cardinality({s \in Team : Arrived(s)'})
    <3> SUFFICES ASSUME ~cancelled, pc[t] # "asleep"
                 PROVE  awaited = Cardinality({s \in Team : Arrived(s)'})
      BY <1>0
    <3>1. {s \in Team : Arrived(s)'} = A
      BY <2>0, <2>1
    <3> QED
      BY <3>1 DEF Running, BarrierInv
  <2>6. cancelled' => awaited + Cardinality(Missing') < Cardinality(Team)
    <3>1. Missing' \subseteq Team /\ t \notin Missing' /\ Missing \subseteq Team
      BY <1>0 DEF Missing
    <3>2. CASE cancelled
      <4>1. Missing' \subseteq Missing
        BY <1>0, <2>0 DEF Missing
      <4>2. /\ Cardinality(Missing') <= Cardinality(Missing)
            /\ Cardinality(Missing) \in Nat /\ Cardinality(Missing') \in Nat
            /\ Cardinality(Team) \in Nat /\ awaited \in Nat
        BY <1>0, <3>1, <4>1, Counting, ThreadFacts DEF Running
      <4>3. awaited + Cardinality(Missing) < Cardinality(Team)
        BY <3>2 DEF Running, BarrierInv
      <4> QED
        BY <4>2, <4>3
    <3>3. CASE ~cancelled
      <4>1. A \in SUBSET Team /\ t \notin A /\ A \cap Missing' = {}
        BY <1>0, <2>0, <2>1, <3>3 DEF Missing
      <4>2. awaited = Cardinality(A)
        BY <3>3 DEF Running, BarrierInv
      <4> QED
        BY <1>0, <3>1, <4>1, <4>2, TwoGroups
    <3> QED
      BY <3>2, <3>3
  <2>7. cancelled' => region.cancellable
    BY DEF Running, BarrierInv
  <2>8. {s \in Team : Arrived(s)}' = {s \in Team : Arrived(s)'}
    BY <1>0
  <2> HIDE DEF A
  <2> QED
    BY <1>0, <2>2, <2>4, <2>5, <2>6, <2>7, <2>8 DEF BarrierInv
<1>9. ListInv'
  <2>1. \A s \in Team : \/ pc'[s] = pc[s] /\ last_work_share'[s] = last_work_share[s]
                        \/ pc[s] \notin Holding /\ pc'[s] \notin Holding
    BY <1>0, <1>1 DEF OthersSame, Holding
  <2> QED
    BY <1>0, <1>2, <2>1, HandsKept
<1> QED
  BY <1>3, <1>7, <1>8, <1>9 DEF Running

LEMMA CancelKeeps ==
    ASSUME Running, NEW t \in Team, Cancel(t) PROVE Running'
BY EndKeeps DEF Cancel, Goto, listVars, shareVars

LEMMA WakeCancelledKeeps ==
    ASSUME Running, NEW t \in Team, WakeCancelled(t) PROVE Running'
BY EndKeeps DEF WakeCancelled, Goto, listVars, shareVars, teamVars

LEMMA RegionEndKeeps ==
    ASSUME Running, NEW t \in Team, RegionEnd(t) PROVE Running'
BY EndKeeps DEF RegionEnd, Goto, listVars, shareVars, teamVars
-----------------------------------------------------------------------------
(* The team barrier.                                                       *)

\* The last thread that arrives finds the others at the same construct.
LEMMA LastArrives ==
    ASSUME Running, NEW t \in Team, awaited + 1 = Cardinality(Team),
           pc[t] = "arrive" \/ (pc[t] = "work" /\ Construct(t) = "loop")
    PROVE  ~cancelled /\ \A s \in Team \ {t} : pc[s] = "asleep" /\ at[s] = at[t]
<1> DEFINE A == {s \in Team : Arrived(s)}
<1>0. /\ region \in Regions /\ ~Arrived(t) /\ Construct(t) \in {"loop", "copy"}
      /\ pc[t] # "asleep" /\ awaited \in Nat
  BY OfThread, ThreadFacts DEF Running, Typed, Arrived, Opens, Frees, PlaceOf
<1>1. ~cancelled
  <2> SUFFICES ASSUME cancelled PROVE FALSE
    OBVIOUS
  <2>1. Missing \in SUBSET Team /\ t \in Missing
    BY <1>0 DEF Missing
  <2>2. /\ Cardinality(Missing) \in Nat /\ Cardinality(Missing \ {t}) = Cardinality(Missing) - 1
        /\ Cardinality(Missing \ {t}) \in Nat
    BY <1>0, <2>1, Counting
  <2>3. awaited + Cardinality(Missing) < Cardinality(Team)
    BY DEF Running, BarrierInv
  <2> QED
    BY <1>0, <2>2, <2>3
<1>2. A \cup {t} = Team
  <2>1. A \in SUBSET Team /\ t \notin A
    BY <1>0
  <2>2. Cardinality(A) = awaited
    BY <1>1 DEF Running, BarrierInv
  <2>3. Cardinality(A \cup {t}) = Cardinality(Team)
    BY <1>0, <2>1, <2>2, Counting
  <2>4. IsFiniteSet(Team) /\ A \cup {t} \in SUBSET Team
    BY <1>0, <2>1, RegionFacts
  <2> HIDE DEF A
  <2> QED
    BY <2>3, <2>4, FS_Subset
<1>3. ASSUME NEW s \in Team \ {t} PROVE pc[s] = "asleep" /\ at[s] = at[t]
  <2>1. pc[s] = "asleep"
    <3>1. Arrived(s)
      BY <1>2
    <3>2. ~Opens(s)
      BY <1>0 DEF Running, BarrierInv
    <3> QED
      BY <3>1, <3>2 DEF Arrived
  <2>2. Construct(s) \in {"loop", "copy"}
    BY <2>1, OfThread DEF PlaceOf
  <2>3. at[s] \in Barriers /\ at[t] \in Barriers
    BY <1>0, <2>2, OfThread DEF Barriers
  <2>4. ~Behind(s, at[s]) /\ ~Behind(t, at[t]) /\ at[s] \in Nat /\ at[t] \in Nat
    BY <1>0, <2>1, OfThread DEF Behind, Frees
  <2>5. ~(at[s] < at[t]) /\ ~(at[t] < at[s])
    <3>1. at[t] > at[s] => Behind(t, at[s])
      BY DEF Behind
    <3>2. at[s] > at[t] => Behind(s, at[t])
      BY DEF Behind
    <3>3. pc[s] # "end" /\ pc[t] # "end"
      BY <2>1
    <3> QED
      BY <2>3, <2>4, <3>1, <3>2, <3>3 DEF Running, BarrierInv
  <2> QED
    BY <2>1, <2>4, <2>5
<1> QED
  BY <1>1, <1>3

LEMMA ArriveKeeps ==
    ASSUME Running, NEW t \in Team, Arrive(t) PROVE Running'
<1>0. /\ pc[t] = "arrive" \/ (pc[t] = "work" /\ Construct(t) = "loop")
      /\ Construct(t) \in {"loop", "copy"} /\ (pc[t] = "arrive" => Construct(t) = "copy")
      /\ shares' = shares /\ region' = region /\ at' = at /\ local' = local
      /\ list_alloc' = list_alloc /\ list_free' = list_free /\ chunk' = chunk /\ to_free' = to_free
      /\ work_share' = work_share /\ awaited' = awaited + 1 /\ cancelled' = cancelled
      /\ Construct(t)' = Construct(t) /\ shareOf' = shareOf /\ Team' = Team /\ Barriers' = Barriers
      /\ region \in Regions /\ awaited \in Nat /\ Cardinality(Team) \in Nat
      /\ first' = first /\ got' = got
  BY OfThread, RegionKept, RegionFacts, ThreadFacts
     DEF Arrive, listVars, PlaceOf, Construct, Running, Typed
<1>1. \/ /\ awaited + 1 = Cardinality(Team)
         /\ pc' = [pc EXCEPT ![t] = IF FreesLast(t) THEN "retire" ELSE "open"]
         /\ last_work_share' = last_work_share
      \/ /\ awaited + 1 # Cardinality(Team)
         /\ pc' = [pc EXCEPT ![t] = "asleep"]
         /\ last_work_share' = IF region.cancellable THEN [last_work_share EXCEPT ![t] = None]
                                                     ELSE last_work_share
  BY <1>0 DEF Arrive, Goto, BeforeBarrier, Reset
<1>2. \/ /\ awaited + 1 = Cardinality(Team)
         /\ pc'[t] = IF FreesLast(t) THEN "retire" ELSE "open"
         /\ last_work_share'[t] = last_work_share[t]
      \/ /\ awaited + 1 # Cardinality(Team)
         /\ pc'[t] = "asleep"
         /\ last_work_share'[t] = IF region.cancellable THEN None ELSE last_work_share[t]
  BY <1>1, ThreadMaps DEF Running
<1>3. OthersSame(t)
  BY <1>0, <1>1, ThreadMaps DEF OthersSame, Running
<1>4. Typed'
  <2>1. pc' \in [Threads -> PCs] /\ last_work_share' \in [Threads -> Shares \cup {None}]
    BY <1>1, ThreadMaps DEF Running, PCs
  <2> QED
    BY <1>0, <2>1 DEF Running, Typed, Shares
<1>5. SharesSame /\ Shares' = Shares
  BY <1>0, SharesUnchanged
<1>6. /\ Construct(t) = "copy" => ~region.cancellable /\ at[t] >= 1
      /\ FreesLast(t) => at[t] >= 1 /\ Construct(t) = "loop" /\ last_work_share[t] # None
      /\ at[t] >= 1 => /\ last_work_share[t] # None
                       /\ shares[last_work_share[t]].use = shareOf[at[t] - 1]
                       /\ Construct(t) = "loop" => FreesLast(t)
  BY <1>0, OfThread, RegionFacts DEF PlaceOf, SharesOf, FreesLast
<1>7. PlaceOf(t)'
  BY <1>0, <1>2, <1>6, OfThread DEF PlaceOf, Starting, Frees, Kinds
<1>8. SharesOf(t)'
  <2>1. shares[work_share[t]].use = shareOf[at[t]]
    BY <1>0, OfThread DEF SharesOf, Starting
  <2> QED
    BY <1>0, <1>2, <1>6, <2>1 DEF SharesOf, Starting
<1>9. FreeingOf(t)' /\ ~Allocates(t)' /\ ~Allocates(t)
  BY <1>0, <1>2, <1>6 DEF FreeingOf, Frees, Allocates
<1>10. awaited + 1 = Cardinality(Team) =>
          ~cancelled /\ \A s \in Team \ {t} : pc[s] = "asleep" /\ at[s] = at[t]
  BY <1>0, LastArrives
<1>11. ChainInv' /\ FreeInv'
  <2>1. \A k \in 1..region.length : region.constructs[k] # "single" =>
            /\ Beyond(t, k)' => Beyond(t, k)
            /\ Passed(t, k)' => Passed(t, k)
    BY <1>0, <1>2, <1>6 DEF Beyond, Passed, Starting
  <2>2. \A k \in Counted : (Sure(t, k)' => Sure(t, k)) /\ (Maybe(t, k) => Maybe(t, k)')
    BY <1>0, <1>2, <1>6, OfThread DEF Sure, Maybe, Counted
  <2>3. Frees(t)' => \A s \in Team \ {t} : ~Frees(s)
    BY <1>2, <1>10 DEF Frees
  <2>4. pc[t] \notin {"share", "wait"} /\ pc'[t] \notin {"share", "wait"}
    BY <1>0, <1>2
  <2> QED
    BY <1>0, <1>3, <1>4, <1>5, <1>7, <1>8, <1>9, <2>1, <2>2, <2>3, <2>4, OfThread, MoveKeeps
<1>12. BarrierInv'
  <2>0. \A s \in Team \ {t} :
            /\ pc'[s] = pc[s] /\ at'[s] = at[s]
            /\ Arrived(s)' <=> Arrived(s)
            /\ Opens(s)' <=> Opens(s)
            /\ \A k : Behind(s, k)' <=> Behind(s, k)
    BY <1>0, <1>3, OtherThreads DEF OthersSame
  <2>1. Arrived(t)' /\ ~Arrived(t) /\ pc[t] # "end" /\ pc'[t] # "end" /\ pc[t] # "asleep"
    BY <1>0, <1>2, <1>6 DEF Arrived, Opens, Frees
  <2>2. \A k : Behind(t, k)' <=> Behind(t, k)
    BY <1>0, <1>2, <1>6 DEF Behind, Frees
  <2>3. (\A r, s \in Team, b \in Barriers :
            pc[r] # "end" /\ pc[s] # "end" /\ Behind(r, b) => Behind(s, b))'
    BY <1>0, <2>0, <2>1, <2>2 DEF Running, BarrierInv
  <2>4. ~cancelled' => (awaited = Cardinality({s \in Team : Arrived(s)}))'
    <3> SUFFICES ASSUME ~cancelled
                 PROVE  awaited + 1 = Cardinality({s \in Team : Arrived(s)}')
      BY <1>0
    <3> DEFINE A == {s \in Team : Arrived(s)}
    <3>1. A' = A \cup {t} /\ A \in SUBSET Team /\ t \notin A
      BY <1>0, <2>0, <2>1
    <3>2. awaited = Cardinality(A)
      BY DEF Running, BarrierInv
    <3> QED
      BY <1>0, <3>1, <3>2, Counting
  <2>5. cancelled' => (awaited + Cardinality(Missing) < Cardinality(Team))'
    <3>1. Missing' = Missing \ {t} /\ Missing \in SUBSET Team /\ t \in Missing
      BY <1>0, <2>0, <2>1 DEF Missing
    <3>2. Cardinality(Missing) \in Nat /\ Cardinality(Missing \ {t}) = Cardinality(Missing) - 1
      BY <1>0, <3>1, Counting
    <3>3. cancelled => awaited + Cardinality(Missing) < Cardinality(Team)
      BY DEF Running, BarrierInv
    <3> QED
      BY <1>0, <3>1, <3>2, <3>3
  <2>6. (cancelled => region.cancellable)'
    BY <1>0 DEF Running, BarrierInv
  <2>7. (\A s \in Team : Opens(s) =>
            /\ ~cancelled
            /\ \A r \in Team \ {s} : pc[r] = "asleep" /\ at[r] = at[s])'
    <3>1. CASE awaited + 1 = Cardinality(Team)
      <4>1. \A s \in Team \ {t} : ~Opens(s)' /\ pc'[s] = "asleep" /\ at'[s] = at'[t]
        BY <1>0, <1>10, <2>0, <3>1 DEF Opens, Frees
      <4> QED
        BY <1>0, <1>10, <3>1, <4>1
    <3>2. CASE awaited + 1 # Cardinality(Team)
      <4>1. ~Opens(t)'
        BY <1>2, <3>2 DEF Opens, Frees
      <4>2. \A s \in Team \ {t} : ~Opens(s)
        BY <2>1 DEF Running, BarrierInv
      <4> QED
        BY <1>0, <2>0, <4>1, <4>2
    <3> QED
      BY <3>1, <3>2
  <2> QED
    BY <2>3, <2>4, <2>5, <2>6, <2>7 DEF BarrierInv
<1>13. ListInv'
  <2>1. \A s \in Team : \/ pc'[s] = pc[s] /\ last_work_share'[s] = last_work_share[s]
                        \/ pc[s] \notin Holding /\ pc'[s] \notin Holding
    BY <1>0, <1>2, <1>3 DEF OthersSame, Holding
  <2> QED
    BY <1>0, <1>5, <2>1, HandsKept
<1> QED
  BY <1>4, <1>11, <1>12, <1>13 DEF Running

LEMMA OpenKeeps ==
    ASSUME Running, NEW t \in Team, Open(t) PROVE Running'
<1>0. /\ pc[t] = "open" /\ t \in Threads
      /\ shares' = shares /\ region' = region /\ at' = at /\ local' = local
      /\ list_alloc' = list_alloc /\ list_free' = list_free /\ chunk' = chunk /\ to_free' = to_free
      /\ work_share' = work_share /\ last_work_share' = last_work_share
      /\ awaited' = 0 /\ cancelled' = cancelled /\ first' = first /\ got' = got
      /\ shareOf' = shareOf /\ Team' = Team /\ Barriers' = Barriers /\ Team \subseteq Threads
      /\ pc' = [s \in Threads |-> IF s = t \/ pc[s] = "asleep" THEN "leave" ELSE pc[s]]
  BY OfThread, RegionKept, RegionFacts
     DEF Open, listVars, shareVars, Running, Typed
<1>1. ~cancelled /\ \A s \in Team \ {t} : pc[s] = "asleep" /\ at[s] = at[t]
  BY <1>0 DEF Running, BarrierInv, Opens
<1>2. \A s \in Team :
          /\ pc[s] \in {"asleep", "open"} /\ pc'[s] = "leave" /\ at[s] = at[t]
          /\ Construct(s) = Construct(t) /\ Construct(s)' = Construct(s)
          /\ Construct(t) \in {"loop", "copy"}
  BY <1>0, <1>1, OfThread DEF PlaceOf, Construct
<1>3. Typed'
  <2>1. pc' \in [Threads -> PCs]
    BY <1>0, ThreadMaps DEF Running, PCs
  <2> QED
    BY <1>0, <2>1 DEF Running, Typed, Shares
<1>4. SharesSame /\ Shares' = Shares /\ Live' = Live
  BY <1>0, SharesUnchanged DEF SharesSame, ChainSame
<1>5. ChainInv'
  <2>1. \A s \in Team :
            /\ at[s] <= at'[s]
            /\ pc'[s] = "share" <=> pc[s] = "share"
            /\ pc[s] = "share" => /\ last_work_share'[s] = last_work_share[s]
                                  /\ work_share'[s] = work_share[s]
            /\ \A k \in 1..region.length :
                  region.constructs[k] # "single" /\ Beyond(s, k)' => Beyond(s, k)
    BY <1>0, <1>2, OfThread DEF Beyond, Starting
  <2>2. Unique' /\ \A w \in Live' : ChainOf(w)'
    BY <1>3, <1>4, <2>1, ChainsKept DEF Running, ChainInv, SharesSame
  <2>3. \A s \in Team : PlaceOf(s)' /\ OwnersOf(s)' /\ SharesOf(s)'
    <3> SUFFICES ASSUME NEW s \in Team PROVE PlaceOf(s)' /\ OwnersOf(s)' /\ SharesOf(s)'
      OBVIOUS
    <3>1. PlaceOf(s)'
      BY <1>0, <1>2, OfThread DEF PlaceOf, Starting, Frees
    <3>2. OwnersOf(s)'
      BY <1>2 DEF OwnersOf, Allocates
    <3>3. SharesOf(s)'
      BY <1>0, <1>2, OfThread DEF SharesOf, Starting
    <3> QED
      BY <3>1, <3>2, <3>3
  <2> QED
    BY <1>0, <2>2, <2>3 DEF ChainInv
<1>6. \A s \in Team : ~Frees(s)' /\ ~Allocates(s)' /\ ~Arrived(s)' /\ ~Opens(s)'
                      /\ FreeingOf(s)'
  BY <1>2 DEF Frees, Allocates, Arrived, Opens, FreeingOf
<1>7. FreeInv'
  <2>1. \A w \in Live' : CountOf(w)'
    <3>1. \A s \in Team, k \in Counted : Sure(s, k)' => Sure(s, k)
      BY <1>0, <1>2 DEF Sure
    <3>2. \A s \in Team, k \in Counted : Maybe(s, k) => Maybe(s, k)'
      BY <1>0, <1>2 DEF Maybe, Sure
    <3> QED
      BY <1>0, <1>4, <3>1, <3>2, CountsKept DEF Running, FreeInv
  <2>2. \A w \in Live' : Needed(w)'
    <3> SUFFICES ASSUME NEW w \in Live, NEW k \in 1..region.length, Follows(k, shares[w].use)
                 PROVE  \E s \in Team : ~Passed(s, k)'
      BY <1>0, <1>4 DEF Needed, Follows
    <3>1. PICK s \in Team : ~Passed(s, k)
      BY DEF Running, FreeInv, Needed
    <3>2. at[s] = k /\ Construct(s) = "loop" => shares[w].use # shareOf[k - 1]
      BY <1>0, <1>2, OfThread DEF FreeingOf
    <3>3. ~Passed(s, k)'
      BY <1>0, <1>2, <3>1, <3>2 DEF Passed, Follows
    <3> QED
      BY <3>3
  <2> QED
    BY <1>0, <1>6, <2>1, <2>2 DEF FreeInv, OneFrees
<1>8. BarrierInv'
  <2>1. \A r, s \in Team, b \in Barriers : Behind(r, b)' => Behind(s, b)'
    BY <1>0, <1>2 DEF Behind, Frees
  <2>2. {s \in Team : Arrived(s)}' = {}
    BY <1>0, <1>6
  <2>3. Cardinality({}) = 0
    BY FS_EmptySet
  <2> QED
    BY <1>0, <1>1, <1>6, <2>1, <2>2, <2>3 DEF BarrierInv
<1>9. ListInv'
  <2>1. \A s \in Team : \/ pc'[s] = pc[s] /\ last_work_share'[s] = last_work_share[s]
                        \/ pc[s] \notin Holding /\ pc'[s] \notin Holding
    BY <1>2 DEF Holding
  <2> QED
    BY <1>0, <1>4, <2>1, HandsKept
<1> QED
  BY <1>3, <1>5, <1>7, <1>8, <1>9 DEF Running
-----------------------------------------------------------------------------
(* free_work_share.                                                        *)

\* A share in the hands of the thread that frees it is no longer live, and in
\* no other hands.
LEMMA InFreeing ==
    ASSUME Running, NEW t \in Team, pc[t] \in {"link", "cas"}
    PROVE  /\ last_work_share[t] \in Shares /\ shares[last_work_share[t]].use = -1
           /\ last_work_share[t] \notin Live /\ last_work_share[t] \notin Idle
           /\ \A s \in Team \ {t} : ~Frees(s) /\ (pc[s] = "init" => local[s] # last_work_share[t])
<1>1. last_work_share[t] \in Shares /\ shares[last_work_share[t]].use = -1
  BY OfThread DEF HandOf
<1>2. last_work_share[t] \notin Live /\ last_work_share[t] \notin Idle
  BY <1>1, LiveShares DEF Running, Idle, InHand
<1>3. \A s \in Team \ {t} : ~Frees(s)
  BY DEF Running, FreeInv, OneFrees, Frees
<1>4. \A s \in Team : pc[s] = "init" => local[s] # last_work_share[t]
  BY OfThread DEF HandOf
<1> QED
  BY <1>1, <1>2, <1>3, <1>4

LEMMA LinkKeeps ==
    ASSUME Running, NEW t \in Team, Link(t) PROVE Running'
<1> DEFINE w == last_work_share[t]
<1>0. /\ pc[t] = "link" /\ t \in Threads
      /\ shares' = [shares EXCEPT ![w].next = list_free]
      /\ region' = region /\ at' = at
      /\ list_alloc' = list_alloc /\ list_free' = list_free /\ chunk' = chunk /\ to_free' = to_free
      /\ work_share' = work_share /\ last_work_share' = last_work_share
      /\ awaited' = awaited /\ cancelled' = cancelled /\ first' = first /\ got' = got
      /\ Construct(t)' = Construct(t) /\ shareOf' = shareOf /\ Team' = Team
      /\ pc' = [pc EXCEPT ![t] = "cas"] /\ pc'[t] = "cas"
      /\ local' = [local EXCEPT ![t] = list_free] /\ local'[t] = list_free
  BY OfThread, RegionKept, ThreadMaps
     DEF Link, Goto, listVars, teamVars, shareVars, Construct, Running
<1>1. /\ w \in Shares /\ shares[w].use = -1 /\ w \notin Live /\ w \notin Idle
      /\ list_free \in Shares \cup {None}
      /\ \A s \in Team \ {t} : ~Frees(s) /\ (pc[s] = "init" => local[s] # w)
  BY <1>0, InFreeing, ShareFacts DEF Running
<1> HIDE DEF w
<1>2. /\ Shares' = Shares /\ shares' \in [Shares -> ShareIn(Shares)] /\ shares'[w].next = list_free
      /\ \A v \in Shares : /\ v # w => shares'[v].next = shares[v].next
                           /\ shares'[v].use = shares[v].use
                           /\ shares'[v].completed = shares[v].completed
  BY <1>0, <1>1, SetNext DEF Running
<1>3. SharesSame /\ Live' = Live
  <2>1. Live' = Live
    BY <1>2 DEF Live
  <2> QED
    BY <1>0, <1>1, <1>2, <2>1, LiveShares DEF SharesSame, ChainSame, Running
<1>4. OthersSame(t) /\ \A s \in Team \ {t} : local'[s] = local[s] /\ pc'[s] = pc[s]
  BY <1>0, ThreadMaps DEF OthersSame, Running
<1>5. Typed'
  <2>1. pc' \in [Threads -> PCs] /\ local' \in [Threads -> Shares \cup {None}]
    BY <1>0, <1>1, ThreadMaps DEF Running, PCs
  <2> QED
    BY <1>0, <1>2, <2>1 DEF Running, Typed
<1>6. PlaceOf(t)'
  BY <1>0, OfThread DEF PlaceOf, Starting, Frees
<1>7. SharesOf(t)'
  BY <1>0, <1>2, OfThread DEF SharesOf, Starting
<1>8. FreeingOf(t)'
  BY <1>0, <1>2, <1>3, LiveShares, OfThread DEF FreeingOf, Frees, Running
<1>9. ChainInv' /\ FreeInv'
  <2>1. \A k \in 1..region.length : region.constructs[k] # "single" =>
            /\ Beyond(t, k)' => Beyond(t, k)
            /\ Passed(t, k)' => Passed(t, k)
    BY <1>0 DEF Beyond, Passed, Starting
  <2>2. \A k \in Counted : (Sure(t, k)' => Sure(t, k)) /\ (Maybe(t, k) => Maybe(t, k)')
    BY <1>0 DEF Sure, Maybe
  <2>3. Frees(t) /\ ~Allocates(t)' /\ ~Allocates(t)
    BY <1>0 DEF Frees, Allocates
  <2> QED
    BY <1>0, <1>3, <1>4, <1>5, <1>6, <1>7, <1>8, <2>1, <2>2, <2>3, OfThread, MoveKeeps
<1>10. BarrierInv'
  <2>1. \A b : Behind(t, b)' <=> Behind(t, b)
    BY <1>0 DEF Behind, Frees
  <2>2. (Arrived(t)' <=> Arrived(t)) /\ (Opens(t)' <=> Opens(t))
    BY <1>0 DEF Arrived, Opens, Frees
  <2> QED
    BY <1>0, <1>4, <2>1, <2>2, BarrierMove
<1>11. ListInv'
  <2>1. \A x : InHand(x)' <=> InHand(x)
    BY <1>0, <1>4 DEF InHand
  <2>2. Idle' = Idle
    BY <1>2, <2>1 DEF Idle
  <2>3. \A x \in Idle : x \in Shares /\ x # w /\ shares'[x].next = shares[x].next
    BY <1>1, <1>2 DEF Idle
  <2>4. Lists'
    BY <1>0, <2>2, <2>3, ListsKept DEF Running, ListInv
  <2>5. HandOf(t)'
    <3>1. last_work_share'[t] = w /\ w # None /\ shares'[w].use = -1
      BY <1>0, <1>1, <1>2, ShareFacts DEF w, Running
    <3> QED
      BY <1>0, <1>2, <3>1 DEF HandOf
  <2>6. ASSUME NEW s \in Team \ {t} PROVE HandOf(s)'
    <3>1. pc[s] \notin {"link", "cas"} /\ pc'[s] = pc[s] /\ local'[s] = local[s]
      BY <1>1, <1>4 DEF Frees
    <3>2. \A r \in Team : pc'[r] \in {"link", "cas"} => pc[r] \in {"link", "cas"}
      BY <1>0, <1>4
    <3> QED
      BY <1>0, <1>2, <2>2, <2>3, <3>1, <3>2, OfThread DEF HandOf
  <2>7. OneAllocates'
    BY <1>0, <1>4 DEF Running, ListInv, OneAllocates, Allocates
  <2> QED
    BY <1>0, <2>4, <2>5, <2>6, <2>7 DEF ListInv
<1> QED
  BY <1>5, <1>9, <1>10, <1>11 DEF Running

LEMMA PushKeeps ==
    ASSUME Running, NEW t \in Team, Push(t) PROVE Running'
<1>w. PICK w \in Shares : w = last_work_share[t]
  BY InFreeing DEF Push
<1>0. /\ pc[t] = "cas" /\ t \in Threads /\ at[t] >= 1 /\ Construct(t) \in {"loop", "nowait", "copy"}
      /\ shares' = shares /\ region' = region /\ at' = at /\ local' = local
      /\ list_alloc' = list_alloc /\ chunk' = chunk /\ to_free' = to_free
      /\ work_share' = work_share
      /\ awaited' = awaited /\ cancelled' = cancelled /\ first' = first /\ got' = got
      /\ Construct(t)' = Construct(t) /\ shareOf' = shareOf /\ Team' = Team
  BY OfThread, RegionKept
     DEF Push, listVars, teamVars, Construct, PlaceOf, Frees, Kinds
<1>1. \/ /\ list_free = local[t] /\ list_free' = w
         /\ pc' = [pc EXCEPT ![t] = IF Construct(t) = "loop" THEN "open" ELSE "user"]
         /\ \/ last_work_share' = [last_work_share EXCEPT ![t] = None]
            \/ last_work_share' = last_work_share
      \/ /\ list_free # local[t] /\ list_free' = list_free
         /\ pc' = [pc EXCEPT ![t] = "link"]
         /\ last_work_share' = last_work_share
  BY <1>w DEF Push, Goto, BeforeBarrier, Reset
<1>2. \/ /\ list_free = local[t] /\ list_free' = w
         /\ pc'[t] = IF Construct(t) = "loop" THEN "open" ELSE "user"
      \/ /\ list_free # local[t] /\ list_free' = list_free /\ pc'[t] = "link"
         /\ last_work_share'[t] = w
  BY <1>w, <1>1, ThreadMaps DEF Running
<1>3. OthersSame(t)
  BY <1>0, <1>1, ThreadMaps DEF OthersSame, Running
<1>4. /\ w \in Shares /\ shares[w].use = -1 /\ w \notin Live /\ w \notin Idle /\ w # None
      /\ \A s \in Team \ {t} : ~Frees(s) /\ (pc[s] = "init" => local[s] # w)
      /\ shares[w].next = local[t]
  BY <1>w, <1>0, InFreeing, ShareFacts, OfThread DEF Running, HandOf
<1>5. SharesSame /\ Shares' = Shares /\ Live' = Live
  BY <1>0, SharesUnchanged DEF SharesSame, ChainSame
<1>6. Typed'
  <2>1. pc' \in [Threads -> PCs] /\ last_work_share' \in [Threads -> Shares \cup {None}]
    BY <1>1, ThreadMaps DEF Running, PCs
  <2>2. list_free' \in Shares \cup {None}
    BY <1>1, <1>4, ShareFacts DEF Running
  <2> QED
    BY <1>0, <2>1, <2>2 DEF Running, Typed, Shares
<1>7. PlaceOf(t)'
  BY <1>0, <1>2, OfThread DEF PlaceOf, Starting, Frees, Kinds
<1>8. SharesOf(t)'
  BY <1>0, <1>2, OfThread DEF SharesOf, Starting
<1>9. FreeingOf(t)' /\ Frees(t) /\ ~Allocates(t)' /\ ~Allocates(t)
  BY <1>0, <1>2, <1>5, OfThread DEF FreeingOf, Frees, Allocates
<1>10. ChainInv' /\ FreeInv'
  <2>1. \A k \in 1..region.length : region.constructs[k] # "single" =>
            /\ Beyond(t, k)' => Beyond(t, k)
            /\ Passed(t, k)' => Passed(t, k)
    BY <1>0, <1>2 DEF Beyond, Passed, Starting
  <2>2. \A k \in Counted : (Sure(t, k)' => Sure(t, k)) /\ (Maybe(t, k) => Maybe(t, k)')
    BY <1>0, <1>2, OfThread DEF Sure, Maybe, Counted
  <2>3. pc[t] \notin {"share", "wait"} /\ pc'[t] \notin {"share", "wait"}
    BY <1>0, <1>2
  <2> QED
    BY <1>0, <1>3, <1>5, <1>6, <1>7, <1>8, <1>9, <2>1, <2>2, <2>3, OfThread, MoveKeeps
<1>11. BarrierInv'
  <2>1. \A b \in Barriers : Behind(t, b)' <=> Behind(t, b)
    BY <1>0, <1>2, OfThread DEF Behind, Frees, Barriers
  <2>2. (Arrived(t)' <=> Arrived(t)) /\ (Opens(t)' <=> Opens(t))
    BY <1>0, <1>2 DEF Arrived, Opens, Frees
  <2>3. pc'[t] # "end"
    BY <1>2
  <2> QED
    BY <1>0, <1>3, <2>1, <2>2, <2>3, BarrierMove
<1>12. \A s \in Team : /\ ~Allocates(t) /\ ~Allocates(t)'
                       /\ s # t => pc'[s] = pc[s] /\ last_work_share'[s] = last_work_share[s]
                                   /\ pc[s] \notin {"link", "cas"}
  BY <1>0, <1>3, <1>4, <1>9 DEF OthersSame, Frees
<1>13. OneAllocates'
  BY <1>0, <1>12 DEF Running, ListInv, OneAllocates, Allocates
<1>14. Lists' /\ \A s \in Team : HandOf(s)'
  <2>1. CASE pc'[t] = "link"
    <3>1. list_free' = list_free /\ last_work_share'[t] = w
      BY <1>2, <2>1
    <3>2. \A x : InHand(x)' <=> InHand(x)
      BY <1>w, <1>0, <1>12, <2>1, <3>1 DEF InHand
    <3>3. Idle' = Idle
      BY <1>0, <3>2 DEF Idle, Shares
    <3>4. Lists'
      BY <1>0, <3>1, <3>3, ListsKept DEF Running, ListInv
    <3>5. HandOf(t)'
      BY <1>0, <1>4, <2>1, <3>1 DEF HandOf
    <3>6. ASSUME NEW s \in Team \ {t} PROVE HandOf(s)'
      BY <1>0, <1>4, <1>5, <1>12, <2>1, <3>1, <3>3, OfThread DEF HandOf
    <3> QED
      BY <3>4, <3>5, <3>6
  <2>2. CASE pc'[t] # "link"
    <3>1. /\ list_free = local[t] /\ list_free' = w
          /\ pc'[t] \in {"open", "user"}
      BY <1>2, <2>2
    <3>2. \A x : InHand(x) <=> InHand(x)' \/ x = w
      BY <1>w, <1>0, <1>12, <3>1 DEF InHand
    <3>3. ~InHand(w)'
      BY <1>0, <1>4, <1>12, <3>1 DEF InHand
    <3>4. Idle' = Idle \cup {w}
      BY <1>0, <1>4, <1>5, <3>2, <3>3 DEF Idle
    <3>5. Lists'
      BY <1>0, <1>4, <3>1, <3>4 DEF Running, ListInv, Lists
    <3>6. HandOf(t)'
      BY <3>1 DEF HandOf
    <3>7. ASSUME NEW s \in Team \ {t} PROVE HandOf(s)'
      <4>1. pc[s] = "take" /\ local[s] # None =>
                /\ local[s] \in Idle
                /\ \/ list_free' = local[s]
                   \/ \E y \in Idle' : y # local[s] /\ shares[y].next = local[s]
        BY <1>4, <3>1, <3>4, OfThread DEF HandOf
      <4>2. /\ pc'[s] = pc[s] /\ pc[s] \notin {"link", "cas"} /\ local'[s] = local[s]
            /\ \A r \in Team : pc'[r] \in {"link", "cas"} => FALSE
        BY <1>0, <1>12, <3>1
      <4> QED
        <5>1. (pc[s] = "init" =>
                  /\ local[s] \in Shares /\ shares[local[s]].use = -1
                  /\ \A r \in Team : pc[r] \in {"link", "cas"} => last_work_share[r] # local[s])'
          BY <1>0, <1>5, <4>2, OfThread DEF HandOf
        <5>2. (pc[s] = "take" /\ local[s] # None =>
                  /\ local[s] \in Idle
                  /\ \/ list_free = local[s]
                     \/ \E y \in Idle : y # local[s] /\ shares[y].next = local[s])'
          BY <1>0, <3>4, <4>1, <4>2
        <5> QED
          BY <4>2, <5>1, <5>2 DEF HandOf
    <3> QED
      BY <3>5, <3>6, <3>7
  <2> QED
    BY <2>1, <2>2
<1> QED
  BY <1>0, <1>6, <1>10, <1>11, <1>13, <1>14 DEF Running, ListInv
-----------------------------------------------------------------------------
(* gomp_work_share_end_nowait.                                             *)

\* The share of a construct that a thread is in was made for this construct.
LEMMA OwnShare ==
    ASSUME Running, NEW t \in Team, pc[t] \notin Starting \cup {"end"}, at[t] >= 1,
           Construct(t) # "single"
    PROVE  /\ work_share[t] \in Live /\ shares[work_share[t]].use = at[t]
           /\ at[t] \in 1..region.length /\ shareOf[at[t]] = at[t]
           /\ Construct(t) \in {"nowait", "copy"} => at[t] \in Counted
<1>1. at[t] \in 1..region.length
  BY OfThread
<1>2. shareOf[at[t]] = at[t]
  BY <1>1, OfThread, OfItsOwn DEF Running, Typed
<1>3. work_share[t] \in Live
  BY UsesLive DEF Running
<1>4. shares[work_share[t]].use = at[t]
  BY <1>2, OfThread DEF SharesOf
<1> QED
  BY <1>1, <1>2, <1>3, <1>4, OfThread DEF Counted

\* When a share counts the whole team, everybody is through.
LEMMA AllMaybe ==
    ASSUME Running, NEW w \in Live, NEW k \in Counted, shares[w].use = k,
           shares[w].completed = Cardinality(Team)
    PROVE  \A s \in Team : Maybe(s, k)
<1>1. region \in Regions /\ MaybeSet(k) \in SUBSET Team
  BY DEF Running, Typed, MaybeSet
<1>2. Cardinality(Team) <= Cardinality(MaybeSet(k))
  BY DEF Running, FreeInv, CountOf
<1>3. ASSUME NEW s \in Team, s \notin MaybeSet(k) PROVE FALSE
  <2>1. /\ Cardinality(MaybeSet(k)) < Cardinality(Team)
        /\ Cardinality(MaybeSet(k)) \in Nat /\ Cardinality(Team) \in Nat
    BY <1>1, <1>3, Counting
  <2> QED
    BY <1>2, <2>1
<1> QED
  BY <1>3 DEF MaybeSet

\* There is no share before a combined loop: nothing is counted.
LEMMA FirstNowaitKeeps ==
    ASSUME Running, NEW t \in Team, EndNowait(t), last_work_share[t] = None PROVE Running'
<1>0. /\ pc[t] = "work" /\ Construct(t) = "nowait" /\ at[t] = 0
      /\ shares' = shares /\ region' = region /\ at' = at /\ local' = local
      /\ list_alloc' = list_alloc /\ list_free' = list_free /\ chunk' = chunk /\ to_free' = to_free
      /\ work_share' = work_share /\ last_work_share' = last_work_share
      /\ awaited' = awaited /\ cancelled' = cancelled /\ first' = first /\ got' = got
      /\ Construct(t)' = Construct(t) /\ shareOf' = shareOf /\ Team' = Team
      /\ pc' = [pc EXCEPT ![t] = "user"] /\ pc'[t] = "user"
  <2>1. at[t] = 0 /\ Construct(t) = "nowait"
    BY OfThread DEF EndNowait, SharesOf, PlaceOf
  <2> QED
    BY <2>1, OfThread, RegionKept, ThreadMaps
       DEF EndNowait, Goto, listVars, teamVars, Construct, PlaceOf, Running
<1>1. OthersSame(t)
  BY <1>0, ThreadMaps DEF OthersSame, Running
<1>2. Typed'
  <2>1. pc' \in [Threads -> PCs]
    BY <1>0, ThreadMaps DEF Running, PCs
  <2> QED
    BY <1>0, <2>1 DEF Running, Typed, Shares
<1>3. SharesSame /\ Shares' = Shares
  BY <1>0, SharesUnchanged
<1>4. PlaceOf(t)' /\ SharesOf(t)'
  BY <1>0, OfThread DEF PlaceOf, SharesOf, Starting, Frees
<1>5. FreeingOf(t)' /\ ~Frees(t)' /\ ~Allocates(t)' /\ ~Allocates(t)
  BY <1>0 DEF FreeingOf, Frees, Allocates
<1>6. ChainInv' /\ FreeInv'
  <2>1. \A k \in 1..region.length : region.constructs[k] # "single" =>
            /\ Beyond(t, k)' => Beyond(t, k)
            /\ Passed(t, k)' => Passed(t, k)
    BY <1>0 DEF Beyond, Passed, Starting
  <2>2. \A k \in Counted : (Sure(t, k)' => Sure(t, k)) /\ (Maybe(t, k) => Maybe(t, k)')
    BY <1>0 DEF Sure, Maybe, Counted
  <2> QED
    BY <1>0, <1>1, <1>2, <1>3, <1>4, <1>5, <2>1, <2>2, MoveKeeps
<1>7. BarrierInv'
  <2>1. \A b \in Barriers : Behind(t, b)' <=> Behind(t, b)
    BY <1>0, OfThread DEF Behind, Frees, Barriers
  <2>2. ~Arrived(t) /\ ~Arrived(t)' /\ ~Opens(t) /\ ~Opens(t)'
    BY <1>0 DEF Arrived, Opens, Frees
  <2> QED
    BY <1>0, <1>1, <2>1, <2>2, BarrierMove
<1>8. ListInv'
  <2>1. \A s \in Team : \/ pc'[s] = pc[s] /\ last_work_share'[s] = last_work_share[s]
                        \/ pc[s] \notin Holding /\ pc'[s] \notin Holding
    BY <1>0, <1>1 DEF OthersSame, Holding
  <2> QED
    BY <1>0, <1>3, <2>1, HandsKept
<1> QED
  BY <1>2, <1>6, <1>7, <1>8 DEF Running

LEMMA CountedOutKeeps ==
    ASSUME Running, NEW t \in Team, EndNowait(t), last_work_share[t] # None PROVE Running'
<1>0. /\ pc[t] = "nowait" \/ pc[t] = "work"
      /\ Construct(t) \in {"nowait", "copy"} /\ (pc[t] = "nowait" => Construct(t) = "copy")
      /\ (pc[t] = "work" => Construct(t) = "nowait")
      /\ at[t] >= 1
  BY OfThread DEF EndNowait, PlaceOf
<1>1. PICK k \in Counted : k = at[t] /\ k \in 1..region.length /\ k >= 1
                         /\ Construct(t) = region.constructs[k] /\ k \in Nat
  BY <1>0, OwnShare, OfThread DEF Starting
<1>2. PICK x \in Live : x = work_share[t] /\ shares[x].use = k /\ x \in Shares
  BY <1>0, <1>1, OwnShare, LiveShares DEF Starting, Running
<1>3. PICK c \in Nat : c = shares[x].completed
  BY <1>2, ShareFacts DEF Running
<1>4. /\ shares' = [shares EXCEPT ![x].completed = @ + 1]
      /\ region' = region /\ at' = at /\ local' = local
      /\ list_alloc' = list_alloc /\ list_free' = list_free /\ chunk' = chunk /\ to_free' = to_free
      /\ work_share' = work_share
      /\ awaited' = awaited /\ cancelled' = cancelled /\ first' = first /\ got' = got
      /\ Construct(t)' = Construct(t) /\ shareOf' = shareOf /\ Team' = Team /\ Counted' = Counted
      /\ \/ /\ c + 1 = Cardinality(Team)
            /\ pc' = [pc EXCEPT ![t] = "retire"] /\ last_work_share' = last_work_share
         \/ /\ c + 1 # Cardinality(Team)
            /\ pc' = [pc EXCEPT ![t] = "user"]
            /\ last_work_share' = [last_work_share EXCEPT ![t] = None]
  BY <1>2, <1>3, RegionKept DEF EndNowait, Through, Reset, Goto, listVars, teamVars, Construct
<1>5. \/ c + 1 = Cardinality(Team) /\ pc'[t] = "retire" /\ last_work_share'[t] = last_work_share[t]
      \/ c + 1 # Cardinality(Team) /\ pc'[t] = "user"
  BY <1>4, ThreadMaps DEF Running
<1>6. OthersSame(t)
  BY <1>4, ThreadMaps DEF OthersSame, Running
<1>7. /\ Shares' = Shares /\ shares' \in [Shares -> ShareIn(Shares)] /\ Live' = Live
      /\ shares'[x].completed = c + 1
      /\ \A w \in Shares : /\ shares'[w].use = shares[w].use
                           /\ shares'[w].next = shares[w].next
                           /\ w # x => shares'[w].completed = shares[w].completed
  <2> DEFINE v == [shares[x] EXCEPT !.completed = @ + 1]
  <2>1. shares[x] \in ShareIn(Shares)
    BY <1>2, ShareFacts DEF Running
  <2>2. /\ v \in ShareIn(Shares) /\ v.next = shares[x].next /\ v.use = shares[x].use
        /\ v.completed = c + 1
    BY <1>3, <2>1 DEF ShareIn
  <2>3. shares' = [shares EXCEPT ![x] = v]
    BY <1>4
  <2> HIDE DEF v
  <2> QED
    BY <1>2, <2>2, <2>3, SetField DEF Running
<1>8. ChainSame
  BY <1>4, <1>7, LiveShares DEF ChainSame, Running
<1>9. Typed'
  <2>1. pc' \in [Threads -> PCs] /\ last_work_share' \in [Threads -> Shares \cup {None}]
    BY <1>4, ThreadMaps DEF Running, PCs
  <2> QED
    BY <1>4, <1>7, <2>1 DEF Running, Typed
<1>10. /\ \A s \in Team \ {t} :
             /\ pc'[s] = pc[s] /\ at'[s] = at[s] /\ work_share'[s] = work_share[s]
             /\ Frees(s)' <=> Frees(s)
             /\ \A j : /\ Sure(s, j)' <=> Sure(s, j)
                       /\ Maybe(s, j)' <=> Maybe(s, j)
                       /\ Passed(s, j)' <=> Passed(s, j)
       /\ ~Sure(t, k) /\ ~Maybe(t, k) /\ Sure(t, k)' /\ Maybe(t, k)'
       /\ \A j : j # k => /\ Sure(t, j)' <=> Sure(t, j)
                          /\ Maybe(t, j)' <=> Maybe(t, j)
                          /\ Passed(t, j)' <=> Passed(t, j)
  <2>1. \A s \in Team \ {t} :
             /\ pc'[s] = pc[s] /\ at'[s] = at[s] /\ work_share'[s] = work_share[s]
             /\ Frees(s)' <=> Frees(s)
             /\ \A j : /\ Sure(s, j)' <=> Sure(s, j)
                       /\ Maybe(s, j)' <=> Maybe(s, j)
                       /\ Passed(s, j)' <=> Passed(s, j)
    BY <1>4, <1>6, OtherThreads DEF OthersSame
  <2>2. ~Sure(t, k) /\ ~Maybe(t, k) /\ Sure(t, k)' /\ Maybe(t, k)'
    BY <1>0, <1>1, <1>4, <1>5 DEF Sure, Maybe
  <2>3. \A j : j # k => /\ Sure(t, j)' <=> Sure(t, j)
                        /\ Maybe(t, j)' <=> Maybe(t, j)
                        /\ Passed(t, j)' <=> Passed(t, j)
    <3>1. at'[t] = k /\ at[t] = k
      BY <1>1, <1>4
    <3> QED
      BY <3>1 DEF Sure, Maybe, Passed
  <2> QED
    BY <2>1, <2>2, <2>3
<1>11. /\ SureSet(k) \in SUBSET Team /\ MaybeSet(k) \in SUBSET Team
       /\ SureSet(k)' = SureSet(k) \cup {t} /\ MaybeSet(k)' = MaybeSet(k) \cup {t}
       /\ t \notin SureSet(k) /\ t \notin MaybeSet(k)
       /\ \A j : j # k => SureSet(j)' = SureSet(j) /\ MaybeSet(j)' = MaybeSet(j)
  BY <1>4, <1>10 DEF SureSet, MaybeSet
<1>12. /\ Cardinality(SureSet(k)) \in Nat /\ Cardinality(MaybeSet(k)) \in Nat
       /\ Cardinality(Team) \in Nat
       /\ Cardinality(SureSet(k)) <= c /\ c <= Cardinality(MaybeSet(k))
       /\ Cardinality(MaybeSet(k)) < Cardinality(Team)
       /\ Cardinality(SureSet(k)') = Cardinality(SureSet(k)) + 1
       /\ Cardinality(MaybeSet(k)') = Cardinality(MaybeSet(k)) + 1
  BY <1>1, <1>2, <1>3, <1>11, Counting DEF Running, Typed, FreeInv, CountOf
<1>13. ChainInv'
  <2>1. PlaceOf(t)'
    BY <1>0, <1>4, <1>5, OfThread DEF PlaceOf, Starting, Frees, Kinds
  <2>2. SharesOf(t)'
    <3>1. /\ shares[work_share[t]].use = shareOf[at[t]] /\ last_work_share[t] \in Shares
          /\ last_work_share[t] # None
          /\ shares[last_work_share[t]].use = shareOf[at[t] - 1]
      BY <1>0, OfThread DEF SharesOf, Starting
    <3> QED
      BY <1>2, <1>4, <1>5, <1>7, <3>1 DEF SharesOf, Starting
  <2>3. ~Allocates(t) /\ ~Allocates(t)' /\ pc[t] \notin {"share", "wait"}
        /\ pc'[t] \notin {"share", "wait"}
    BY <1>0, <1>5 DEF Allocates
  <2>4. \A j \in 1..region.length : Beyond(t, j)' => Beyond(t, j)
    BY <1>0, <1>4, <1>5 DEF Beyond, Starting
  <2> QED
    BY <1>4, <1>6, <1>8, <1>9, <2>1, <2>2, <2>3, <2>4, OfThread, MoveChain
<1>14. \A w \in Live' : CountOf(w)'
  <2> SUFFICES ASSUME NEW w \in Live, NEW j \in Counted, shares[w].use = j
               PROVE  /\ Cardinality(SureSet(j)') <= shares'[w].completed
                      /\ shares'[w].completed <= Cardinality(MaybeSet(j)')
    BY <1>4, <1>7, LiveShares DEF CountOf, Running
  <2>1. CASE w = x
    BY <1>2, <1>7, <1>12, <2>1
  <2>2. CASE w # x
    <3>1. j # k /\ shares'[w].completed = shares[w].completed
      BY <1>2, <1>7, <2>2, LiveShares DEF Running, ChainInv, Unique
    <3> QED
      BY <1>11, <3>1 DEF Running, FreeInv, CountOf
  <2> QED
    BY <2>1, <2>2
<1>15. \A w \in Live' : Needed(w)'
  <2> SUFFICES ASSUME NEW w \in Live, NEW j \in 1..region.length, Follows(j, shares[w].use)
               PROVE  \E s \in Team : ~Passed(s, j)'
    BY <1>4, <1>7, LiveShares DEF Needed, Follows, Running
  <2>1. PICK s \in Team : ~Passed(s, j)
    BY DEF Running, FreeInv, Needed
  <2>2. CASE j # k
    BY <1>10, <2>1, <2>2
  <2>3. CASE j = k /\ c + 1 = Cardinality(Team)
    <3>1. ~Passed(t, k)'
      BY <1>1, <1>4, <1>5, <2>3 DEF Passed
    <3> QED
      BY <2>3, <3>1
  <2>4. CASE j = k /\ c + 1 # Cardinality(Team)
    <3>1. Cardinality(SureSet(k)') < Cardinality(Team)
      BY <1>12, <2>4
    <3>2. PICK r \in Team : r \notin SureSet(k)'
      <4>1. SureSet(k)' # Team
        BY <1>12, <3>1
      <4> QED
        BY <1>11, <4>1
    <3>3. ~Sure(r, k)'
      BY <1>4, <3>2 DEF SureSet
    <3>4. Construct(r)' = region.constructs[at'[r]]
      BY <1>4 DEF Construct
    <3>5. ~Passed(r, k)'
      BY <1>0, <1>1, <3>3, <3>4 DEF Passed, Sure
    <3> QED
      BY <2>4, <3>5
  <2> QED
    BY <2>2, <2>3, <2>4
<1>16. \A s \in Team : FreeingOf(s)'
  <2>1. FreeingOf(t)'
    BY <1>2, <1>4, <1>5, <1>7 DEF FreeingOf, Frees
  <2>2. ASSUME NEW s \in Team \ {t} PROVE FreeingOf(s)'
    <3>1. Frees(s) => work_share[s] \in Live
      BY UsesLive DEF Frees, Starting, Running
    <3>2. Frees(s) /\ Construct(s) # "loop" => work_share[s] # x
      BY <1>3, <1>12, OfThread DEF FreeingOf
    <3>3. Construct(s)' = Construct(s)
      BY <1>4 DEF Construct
    <3> QED
      BY <1>4, <1>7, <1>10, <3>1, <3>2, <3>3, OfThread, LiveShares DEF FreeingOf, Running
  <2> QED
    BY <2>1, <2>2
<1>17. OneFrees'
  <2>1. ASSUME NEW s \in Team \ {t}, Frees(s), c + 1 = Cardinality(Team) PROVE FALSE
    <3>1. Construct(s) # "loop"
      BY <1>0, <2>1 DEF Running, BarrierInv, Opens
    <3>2. /\ at[s] >= 1 /\ Construct(s) \in {"nowait", "copy"}
          /\ shares[work_share[s]].completed = Cardinality(Team)
      BY <2>1, <3>1, OfThread DEF PlaceOf, FreeingOf, Kinds
    <3>3. /\ work_share[s] \in Live /\ shares[work_share[s]].use = at[s] /\ at[s] \in Counted
      BY <2>1, <3>2, OwnShare DEF Frees, Starting
    <3>4. Maybe(t, at[s])
      BY <3>2, <3>3, AllMaybe
    <3>5. at[t] > at[s]
      BY <1>0, <3>4 DEF Maybe, Sure
    <3>6. Cardinality(Team) <= Cardinality(MaybeSet(k)')
      BY <1>12, <2>1
    <3>7. s \in MaybeSet(k)'
      <4>1. MaybeSet(k)' \in SUBSET Team
        BY <1>11
      <4>2. PICK A \in SUBSET Team : A = MaybeSet(k)'
        BY <4>1
      <4>3. s \notin A => Cardinality(A) < Cardinality(Team)
        BY Counting DEF Running, Typed
      <4>4. Cardinality(A) \in Nat /\ Cardinality(Team) <= Cardinality(A)
        BY <1>12, <3>6, <4>2
      <4> QED
        BY <1>12, <4>2, <4>3, <4>4
    <3>8. at[s] >= k
      <4>1. Maybe(s, k)'
        BY <3>7 DEF MaybeSet
      <4> QED
        BY <1>1, <1>4, <4>1, OfThread DEF Maybe, Sure
    <3> QED
      BY <1>1, <3>5, <3>8, OfThread
  <2>2. Frees(t)' => c + 1 = Cardinality(Team)
    BY <1>5 DEF Frees
  <2> QED
    BY <1>4, <1>10, <2>1, <2>2 DEF OneFrees, Running, FreeInv
<1>18. BarrierInv'
  <2>1. \A b \in Barriers : Behind(t, b)' <=> Behind(t, b)
    BY <1>0, <1>1, <1>4, <1>5, OfThread DEF Behind, Frees, Barriers
  <2>2. ~Arrived(t) /\ ~Arrived(t)' /\ ~Opens(t) /\ ~Opens(t)'
    BY <1>0, <1>4, <1>5 DEF Arrived, Opens, Frees
  <2> QED
    BY <1>0, <1>4, <1>5, <1>6, <2>1, <2>2, BarrierMove
<1>19. ListInv'
  <2>1. \A s \in Team : \/ pc'[s] = pc[s] /\ last_work_share'[s] = last_work_share[s]
                        \/ pc[s] \notin Holding /\ pc'[s] \notin Holding
    BY <1>0, <1>5, <1>6 DEF OthersSame, Holding
  <2> QED
    BY <1>4, <1>7, <2>1, HandsKept
<1> QED
  BY <1>4, <1>9, <1>13, <1>14, <1>15, <1>16, <1>17, <1>18, <1>19 DEF Running, FreeInv

LEMMA EndNowaitKeeps == ASSUME Running, NEW t \in Team, EndNowait(t) PROVE Running'
BY FirstNowaitKeeps, CountedOutKeeps
-----------------------------------------------------------------------------
(* gomp_fini on the share before, by the last thread through.              *)

LEMMA SetUse ==
    ASSUME Typed, NEW w \in Shares, NEW n \in Nat \cup {-1},
           shares' = [shares EXCEPT ![w].use = n]
    PROVE  /\ Shares' = Shares /\ shares' \in [Shares -> ShareIn(Shares)]
           /\ shares'[w].use = n
           /\ \A v \in Shares : /\ v # w => shares'[v].use = shares[v].use
                               /\ shares'[v].next = shares[v].next
                               /\ shares'[v].completed = shares[v].completed
<1> DEFINE r == [shares[w] EXCEPT !.use = n]
<1>1. shares[w] \in ShareIn(Shares)
  BY ShareFacts
<1>2. r \in ShareIn(Shares) /\ r.use = n /\ r.next = shares[w].next /\ r.completed = shares[w].completed
  BY <1>1 DEF ShareIn
<1>3. shares' = [shares EXCEPT ![w] = r] /\ shares \in [Shares -> ShareIn(Shares)]
  BY DEF Typed
<1> HIDE DEF r
<1> QED
  BY <1>2, <1>3 DEF Shares

\* Whoever frees a share finds everybody else through the construct behind it.
LEMMA AllThrough ==
    ASSUME Running, NEW t \in Team, pc[t] = "retire"
    PROVE  \A s \in Team \ {t} :
              \/ at[s] > at[t]
              \/ at[s] = at[t] /\ pc[s] \in {"user", "end"}
              \/ at[s] = at[t] /\ pc[s] = "asleep" /\ Construct(t) = "loop"
<1>1. at[t] >= 1 /\ Construct(t) \in Kinds \ {"single"}
  BY OfThread DEF PlaceOf, Frees
<1>2. \A s \in Team \ {t} : ~Frees(s)
  BY DEF Running, FreeInv, OneFrees, Frees
<1>3. CASE Construct(t) = "loop"
  BY <1>3 DEF Running, BarrierInv, Opens, Frees
<1>4. CASE Construct(t) # "loop"
  <2>1. /\ work_share[t] \in Live /\ shares[work_share[t]].use = at[t] /\ at[t] \in Counted
    BY <1>1, <1>4, OwnShare DEF Starting, Kinds
  <2>2. shares[work_share[t]].completed = Cardinality(Team)
    BY <1>4, OfThread DEF FreeingOf, Frees
  <2>3. \A s \in Team : Maybe(s, at[t])
    BY <2>1, <2>2, AllMaybe
  <2> QED
    BY <1>2, <2>3 DEF Maybe, Sure, Frees
<1> QED
  BY <1>3, <1>4

LEMMA RetireKeeps ==
    ASSUME Running, NEW t \in Team, Retire(t) PROVE Running'
<1>0. /\ pc[t] = "retire" /\ t \in Threads
      /\ at[t] >= 1 /\ Construct(t) \in Kinds \ {"single"}
  BY OfThread DEF Retire, PlaceOf, Frees
<1>1. PICK k \in 1..region.length : k = at[t] /\ k \in Nat /\ k >= 1 /\ region.constructs[k] # "single"
                                  /\ shareOf[k] = k
  <2>1. at[t] \in 1..region.length /\ shareOf[at[t]] = at[t]
    BY <1>0, OwnShare DEF Starting
  <2> QED
    BY <1>0, <2>1, OfThread
<1>2. PICK u \in Live : u = last_work_share[t] /\ u \in Shares
  <2>1. last_work_share[t] \in Shares /\ shares[last_work_share[t]].use = shareOf[at[t] - 1]
    BY <1>0, OfThread DEF SharesOf, Starting
  <2>2. shareOf[at[t] - 1] \in Nat
    BY <1>0, <1>1, OfThread, ShareOfFacts DEF Running, Typed
  <2> QED
    BY <2>1, <2>2, LiveShares DEF Running
<1>3. PICK j \in Nat : /\ j = shares[u].use /\ j = shareOf[k - 1] /\ j < k
                       /\ \A i \in 0..region.length : i >= k => shareOf[i] >= k /\ shareOf[i] # j
  <2>1. shares[u].use = shareOf[k - 1]
    BY <1>0, <1>1, <1>2, OfThread DEF SharesOf, Starting
  <2>2. shareOf[k - 1] \in 0..(k - 1)
    BY <1>1, OfThread, ShareOfFacts DEF Running, Typed
  <2>3. \A i \in 0..region.length : i >= k => shareOf[i] >= k /\ shareOf[i] \in Nat
    BY <1>1, OfThread, ShareOfFacts DEF Running, Typed
  <2> QED
    BY <1>1, <2>1, <2>2, <2>3
<1>4. PICK x \in Live : x = work_share[t] /\ shares[x].use = k /\ x # u
  <2>1. work_share[t] \in Live /\ shares[work_share[t]].use = at[t]
    BY <1>0, OwnShare DEF Starting
  <2>2. k # j /\ shares[work_share[t]].use = k /\ shares[u].use = j
    BY <1>1, <1>3, <2>1
  <2>3. work_share[t] # u
    BY <2>2, Zenon
  <2> QED
    BY <2>1, <2>2, <2>3
<1>5. /\ shares' = [shares EXCEPT ![u].use = -1] /\ to_free' = x
      /\ region' = region /\ at' = at /\ local' = local
      /\ list_alloc' = list_alloc /\ list_free' = list_free /\ chunk' = chunk
      /\ work_share' = work_share /\ last_work_share' = last_work_share
      /\ awaited' = awaited /\ cancelled' = cancelled /\ first' = first /\ got' = got
      /\ Construct(t)' = Construct(t) /\ shareOf' = shareOf /\ Team' = Team
      /\ pc' = [pc EXCEPT ![t] = "link"] /\ pc'[t] = "link"
  BY <1>0, <1>2, <1>4, RegionKept, ThreadMaps
     DEF Retire, Oldest, Goto, teamVars, shareVars, Construct, Running
<1>6. /\ Shares' = Shares /\ shares' \in [Shares -> ShareIn(Shares)] /\ shares'[u].use = -1
      /\ \A v \in Shares : /\ v # u => shares'[v].use = shares[v].use
                          /\ shares'[v].next = shares[v].next
                          /\ shares'[v].completed = shares[v].completed
      /\ Live' = Live \ {u}
  <2>1. /\ Shares' = Shares /\ shares' \in [Shares -> ShareIn(Shares)] /\ shares'[u].use = -1
        /\ \A v \in Shares : /\ v # u => shares'[v].use = shares[v].use
                            /\ shares'[v].next = shares[v].next
                            /\ shares'[v].completed = shares[v].completed
    BY <1>2, <1>5, SetUse DEF Running
  <2> QED
    BY <2>1 DEF Live
<1>7. OthersSame(t) /\ \A s \in Team \ {t} : local'[s] = local[s] /\ pc'[s] = pc[s]
  BY <1>5, ThreadMaps DEF OthersSame, Running
<1>8. Typed'
  <2>1. pc' \in [Threads -> PCs] /\ x \in Shares
    BY <1>4, <1>5, ThreadMaps, LiveShares DEF Running, PCs
  <2> QED
    BY <1>5, <1>6, <2>1 DEF Running, Typed
<1>9. \A s \in Team \ {t} :
          \/ at[s] > k
          \/ at[s] = k /\ pc[s] \in {"user", "end"}
          \/ at[s] = k /\ pc[s] = "asleep" /\ Construct(s) = "loop"
  BY <1>0, <1>1, AllThrough, OfThread
<1>10. \A s \in Team : at[s] \in Nat /\ at[s] >= k /\ at[s] \in 0..region.length
  BY <1>1, <1>9, OfThread
<1>11. \A w \in Live : shares[w].use = j => w = u
  BY <1>2, <1>3 DEF Running, ChainInv, Unique
<1>12. ChainInv'
  <2>1. Unique'
    BY <1>6, LiveShares DEF Running, ChainInv, Unique
  <2>2. ASSUME NEW w \in Live, w # u PROVE ChainOf(w)'
    <3>1. ChainOf(w) /\ Needed(w) /\ w \in Shares /\ shares'[w].use = shares[w].use
          /\ shares'[w].next = shares[w].next
      BY <1>6, <2>2, LiveShares DEF Running, ChainInv, FreeInv
    <3>2. shares[w].next # u
      <4>1. SUFFICES ASSUME shares[w].next = u PROVE FALSE
        OBVIOUS
      <4>2. Follows(j, shares[w].use)
        BY <1>2, <1>3, <3>1, <4>1 DEF ChainOf
      <4>3. PICK s \in Team : ~Passed(s, j)
        BY <3>1, <4>2 DEF Needed, Follows
      <4> QED
        BY <1>3, <1>10, <4>3 DEF Passed
    <3>3. (shares[w].next \in Shares =>
              shares[w].next \in Live /\ Follows(shares[shares[w].next].use, shares[w].use))'
      <4>1. CASE shares[w].next \notin Shares
        BY <1>6, <3>1, <4>1
      <4>2. CASE shares[w].next \in Shares
        <5>1. PICK y \in Shares : y = shares[w].next
          BY <4>2
        <5>2. y \in Live /\ Follows(shares[y].use, shares[w].use) /\ y # u /\ shares'[w].next = y
          BY <3>1, <3>2, <5>1 DEF ChainOf
        <5>3. y \in Live' /\ shares'[y].use = shares[y].use
          BY <1>6, <5>1, <5>2
        <5>4. Follows(shares[y].use, shares[w].use)'
          BY <1>5, <3>1, <5>2, <5>3, RegionKept
        <5> QED
          BY <5>2, <5>3, <5>4
      <4> QED
        BY <4>1, <4>2
    <3>4. ASSUME NEW v \in Live, v # u, Follows(shares[v].use, shares[w].use)
          PROVE  \/ shares'[w].next = v
                 \/ \E s \in Team : pc'[s] = "share" /\ last_work_share'[s] = w /\ work_share'[s] = v
      <4>1. \/ shares[w].next = v
            \/ \E s \in Team : pc[s] = "share" /\ last_work_share[s] = w /\ work_share[s] = v
        BY <3>1, <3>4 DEF ChainOf
      <4> QED
        BY <1>0, <1>5, <1>7, <3>1, <4>1
    <3>5. \A s \in Team, i \in 1..region.length :
             Follows(i, shares[w].use) /\ Beyond(s, i) =>
                /\ shares[w].next # None
                /\ shares[w].next = Owned =>
                      \E r \in Team : pc'[r] = "share" /\ last_work_share'[r] = w
      <4>1. \A r \in Team : pc[r] = "share" => pc'[r] = "share"
        BY <1>0, <1>7
      <4> QED
        BY <1>5, <3>1, <4>1 DEF ChainOf
    <3>6. \A s \in Team, i \in 1..region.length : Beyond(s, i)' => Beyond(s, i)
      BY <1>0, <1>5, <1>7 DEF Beyond, Starting
    <3>7. shares'[w].use <= region.length /\ shareOf[shares'[w].use] = shares'[w].use
          /\ \E s \in Team : at'[s] >= shares'[w].use
      BY <1>5, <3>1 DEF ChainOf
    <3>8. (\A v \in Live : Follows(shares[v].use, shares[w].use) =>
             \/ shares[w].next = v
             \/ \E s \in Team : pc[s] = "share" /\ last_work_share[s] = w /\ work_share[s] = v)'
      BY <1>5, <1>6, <3>1, <3>4, LiveShares, RegionKept DEF Running
    <3>9. (\A s \in Team, i \in 1..region.length :
             Follows(i, shares[w].use) /\ Beyond(s, i) =>
                /\ shares[w].next # None
                /\ shares[w].next = Owned =>
                      \E r \in Team : pc[r] = "share" /\ last_work_share[r] = w)'
      BY <1>5, <3>1, <3>5, <3>6, RegionKept
    <3> QED
      BY <1>5, <3>3, <3>7, <3>8, <3>9 DEF ChainOf
  <2>3. ASSUME NEW s \in Team PROVE OwnersOf(s)'
    <3>1. CASE s = t
      BY <1>5, <3>1 DEF OwnersOf, Allocates
    <3>2. CASE s # t /\ pc[s] \in Starting \cup {"share"}
      <4>1. last_work_share[s] \in Shares /\ OwnersOf(s) /\ pc'[s] = pc[s]
        BY <1>7, <3>2, OfThread, UsesLive, LiveShares DEF Running
      <4>2. \A r \in Team : Owner(r, last_work_share[s])' => Owner(r, last_work_share[s])
        BY <1>5, <1>7 DEF Owner, Allocates
      <4> QED
        BY <1>5, <1>6, <4>1, <4>2 DEF OwnersOf, Allocates, Owner
    <3>3. CASE s # t /\ pc[s] \notin Starting \cup {"share"}
      BY <1>7, <3>3 DEF OwnersOf, Allocates, Starting
    <3> QED
      BY <3>1, <3>2, <3>3
  <2>4. ASSUME NEW s \in Team PROVE PlaceOf(s)' /\ SharesOf(s)'
    <3>1. CASE s = t
      <4>1. PlaceOf(t)'
        BY <1>0, <1>5, OfThread DEF PlaceOf, Starting, Frees
      <4>2. SharesOf(t)'
        BY <1>1, <1>4, <1>5, <1>6, LiveShares DEF SharesOf, Starting, Running
      <4> QED
        BY <3>1, <4>1, <4>2
    <3>2. CASE s # t
      <4>1. PlaceOf(s)'
        BY <1>5, <1>7, <3>2, OtherThreads
      <4>2. SharesOf(s) /\ Construct(s)' = Construct(s)
            /\ work_share[s] \in Shares /\ last_work_share[s] \in Shares \cup {None}
            /\ pc'[s] = pc[s]
        BY <1>5, <1>7, <3>2, OfThread DEF Construct
      <4>3. pc[s] \notin Starting \cup {"end"} => shares'[work_share[s]].use = shareOf[at[s]]
        BY <1>3, <1>6, <1>10, <4>2 DEF SharesOf
      <4>4. (\/ pc[s] \in Starting \cup {"share"}
             \/ at[s] >= 1 /\ pc[s] \in {"work", "execute", "arrive", "nowait", "retire"}
             \/ pc[s] \in {"asleep", "open", "leave"} /\ Construct(s) = "copy")
            => /\ last_work_share[s] # None
               /\ shares'[last_work_share[s]].use = shareOf[at[s] - 1]
        <5> SUFFICES ASSUME \/ pc[s] \in Starting \cup {"share"}
                            \/ at[s] >= 1 /\ pc[s] \in {"work", "execute", "arrive", "nowait", "retire"}
                            \/ pc[s] \in {"asleep", "open", "leave"} /\ Construct(s) = "copy"
                     PROVE  /\ last_work_share[s] # None
                            /\ shares'[last_work_share[s]].use = shareOf[at[s] - 1]
          OBVIOUS
        <5>1. at[s] > k
          BY <1>9, <3>2 DEF Starting
        <5>2. shareOf[at[s] - 1] # j
          <6>1. at[s] - 1 \in 0..region.length /\ at[s] - 1 >= k
            BY <1>1, <1>10, <5>1, OfThread
          <6> QED
            BY <1>3, <6>1
        <5>3. last_work_share[s] # None /\ shares[last_work_share[s]].use = shareOf[at[s] - 1]
          BY <4>2 DEF SharesOf
        <5> QED
          BY <1>3, <1>6, <4>2, <5>2, <5>3
      <4>5. SharesOf(s)'
        BY <1>5, <4>2, <4>3, <4>4 DEF SharesOf
      <4> QED
        BY <4>1, <4>5
    <3> QED
      BY <3>1, <3>2
  <2> QED
    BY <1>5, <1>6, <2>1, <2>2, <2>3, <2>4 DEF ChainInv
<1>13. FreeInv'
  <2>0. /\ \A i : Sure(t, i)' <=> Sure(t, i)
        /\ \A i : Maybe(t, i)' <=> Maybe(t, i)
        /\ \A i : i # k => (Passed(t, i)' <=> Passed(t, i))
    BY <1>0, <1>1, <1>5 DEF Sure, Maybe, Passed
  <2>1. /\ \A s \in Team, i \in Counted : Sure(s, i)' => Sure(s, i)
        /\ \A s \in Team, i \in Counted : Maybe(s, i) => Maybe(s, i)'
        /\ \A s \in Team : \A i : i # k => (Passed(s, i)' => Passed(s, i))
        /\ \A s \in Team : Frees(s)' => Frees(s)
    BY <1>0, <1>5, <1>7, <2>0, OtherThreads DEF Frees
  <2>2. \A w \in Live' : /\ w \in Live /\ shares'[w].use = shares[w].use
                         /\ shares'[w].completed = shares[w].completed /\ w # u
    BY <1>6, LiveShares DEF Running
  <2>3. \A w \in Live' : CountOf(w)'
    BY <1>5, <2>1, <2>2, CountsKept DEF Running, FreeInv
  <2>4. \A w \in Live' : Needed(w)'
    <3> SUFFICES ASSUME NEW w \in Live', NEW i \in 1..region.length, Follows(i, shares[w].use)
                 PROVE  \E s \in Team : ~Passed(s, i)'
      BY <1>5, <2>2, RegionKept DEF Needed
    <3>1. PICK s \in Team : ~Passed(s, i)
      BY <2>2 DEF Running, FreeInv, Needed
    <3>2. i # k
      BY <1>3, <1>11, <2>2 DEF Follows
    <3> QED
      BY <2>1, <3>1, <3>2
  <2>5. FreeingOf(t)'
    <3>1. Construct(t) # "loop" => shares'[x].completed = Cardinality(Team)
      BY <1>0, <1>4, <1>6, OfThread, LiveShares DEF FreeingOf, Frees, Running
    <3>2. \A w \in Live' : shares'[w].use # shareOf[at[t] - 1]
      BY <1>1, <1>3, <1>11, <2>2
    <3> QED
      BY <1>4, <1>5, <3>1, <3>2 DEF FreeingOf
  <2>6. \A s \in Team \ {t} : FreeingOf(s)'
    <3>1. \A w \in Live : shares'[w].completed = shares[w].completed
      BY <1>6, LiveShares DEF Running
    <3> QED
      BY <1>5, <1>7, <2>2, <3>1, OtherThreads
  <2>7. OneFrees'
    BY <1>5, <2>1 DEF OneFrees, Running, FreeInv
  <2> QED
    BY <1>5, <2>3, <2>4, <2>5, <2>6, <2>7 DEF FreeInv
<1>14. BarrierInv'
  <2>1. \A b : Behind(t, b)' <=> Behind(t, b)
    BY <1>0, <1>5 DEF Behind, Frees
  <2>2. (Arrived(t)' <=> Arrived(t)) /\ (Opens(t)' <=> Opens(t))
    BY <1>0, <1>5 DEF Arrived, Opens, Frees
  <2> QED
    BY <1>0, <1>5, <1>7, <2>1, <2>2, BarrierMove
<1>15. ListInv'
  <2>0. \A s \in Team \ {t} : ~Frees(s)
    BY <1>0 DEF Running, FreeInv, OneFrees, Frees
  <2>1. \A w : InHand(w)' <=> InHand(w) \/ w = u
    BY <1>0, <1>2, <1>5, <1>7, <2>0 DEF InHand, Frees
  <2>2. u \notin Idle
    BY <1>2, LiveShares DEF Running, Idle
  <2>3. Idle' = Idle
    BY <1>2, <1>6, <2>1, <2>2 DEF Idle
  <2>4. Lists'
    BY <1>5, <1>6, <2>3, ListsKept DEF Running, ListInv, Idle
  <2>5. HandOf(t)'
    <3>1. last_work_share'[t] = u /\ u # None /\ shares'[u].use = -1
      BY <1>2, <1>5, <1>6, ShareFacts DEF Running
    <3> QED
      BY <1>5, <3>1 DEF HandOf
  <2>6. ASSUME NEW s \in Team \ {t} PROVE HandOf(s)'
    <3>1. pc[s] \notin {"link", "cas"} /\ pc'[s] = pc[s] /\ local'[s] = local[s]
      BY <1>7, <2>0 DEF Frees
    <3>2. \A r \in Team : pc'[r] \in {"link", "cas"} => r = t
      BY <1>7, <2>0 DEF Frees
    <3>3. pc[s] = "init" => /\ local[s] \in Shares /\ local[s] # u
                            /\ shares'[local[s]].use = -1
      BY <1>2, <1>6, OfThread, LiveShares DEF HandOf, Running
    <3>4. (pc[s] = "init" =>
              /\ local[s] \in Shares /\ shares[local[s]].use = -1
              /\ \A r \in Team : pc[r] \in {"link", "cas"} => last_work_share[r] # local[s])'
      BY <1>2, <1>5, <1>6, <3>1, <3>2, <3>3
    <3>5. (pc[s] = "take" /\ local[s] # None =>
              /\ local[s] \in Idle
              /\ \/ list_free = local[s]
                 \/ \E y \in Idle : y # local[s] /\ shares[y].next = local[s])'
      BY <1>5, <1>6, <2>3, <3>1, OfThread DEF HandOf, Idle
    <3> QED
      BY <3>1, <3>4, <3>5 DEF HandOf
  <2>7. OneAllocates'
    BY <1>0, <1>5, <1>7 DEF Running, ListInv, OneAllocates, Allocates
  <2> QED
    BY <1>5, <2>4, <2>5, <2>6, <2>7 DEF ListInv
<1> QED
  BY <1>8, <1>12, <1>13, <1>14, <1>15 DEF Running
-----------------------------------------------------------------------------
(* gomp_work_share_init_done.                                              *)

LEMMA InitDoneKeeps ==
    ASSUME Running, NEW t \in Team, InitDone(t) PROVE Running'
<1>0. /\ pc[t] = "share" /\ t \in Threads /\ at[t] >= 1
      /\ Construct(t) \in Kinds \ {"single"}
  BY OfThread DEF InitDone, PlaceOf
<1>1. PICK w \in Live : /\ w = last_work_share[t] /\ w \in Shares
                        /\ shares[w].next = Owned /\ Follows(at[t], shares[w].use)
                        /\ \A s \in Team : Owner(s, w) => s = t
  BY <1>0, UsesLive, LiveShares, OfThread DEF Running, OwnersOf
<1>2. PICK x \in Live : x = work_share[t] /\ x \in Shares /\ shares[x].use = at[t]
  BY <1>0, OwnShare, LiveShares DEF Starting, Running
<1>3. PICK p \in {"execute", "work"} :
          /\ pc' = [pc EXCEPT ![t] = p]
          /\ p = "execute" <=> Construct(t) = "copy"
  BY DEF InitDone, Goto
<1>4. /\ shares' = [shares EXCEPT ![w].next = x]
      /\ region' = region /\ at' = at /\ local' = local
      /\ list_alloc' = list_alloc /\ list_free' = list_free /\ chunk' = chunk /\ to_free' = to_free
      /\ work_share' = work_share /\ last_work_share' = last_work_share
      /\ awaited' = awaited /\ cancelled' = cancelled /\ first' = first /\ got' = got
      /\ Construct(t)' = Construct(t) /\ shareOf' = shareOf /\ Team' = Team
      /\ pc'[t] = p
  BY <1>0, <1>1, <1>2, <1>3, RegionKept, ThreadMaps
     DEF InitDone, Publish, listVars, teamVars, shareVars, Construct, Running
<1>5. /\ Shares' = Shares /\ shares' \in [Shares -> ShareIn(Shares)] /\ shares'[w].next = x
      /\ \A v \in Shares : /\ v # w => shares'[v].next = shares[v].next
                          /\ shares'[v].use = shares[v].use
                          /\ shares'[v].completed = shares[v].completed
      /\ Live' = Live
  <2>1. /\ Shares' = Shares /\ shares' \in [Shares -> ShareIn(Shares)] /\ shares'[w].next = x
        /\ \A v \in Shares : /\ v # w => shares'[v].next = shares[v].next
                            /\ shares'[v].use = shares[v].use
                            /\ shares'[v].completed = shares[v].completed
    BY <1>1, <1>2, <1>4, SetNext DEF Running
  <2> QED
    BY <2>1 DEF Live
<1>6. OthersSame(t) /\ \A s \in Team \ {t} : local'[s] = local[s] /\ pc'[s] = pc[s]
  BY <1>3, <1>4, ThreadMaps DEF OthersSame, Running
<1>7. Typed'
  <2>1. pc' \in [Threads -> PCs]
    BY <1>3, ThreadMaps DEF Running, PCs
  <2> QED
    BY <1>4, <1>5, <2>1 DEF Running, Typed
<1>8. PlaceOf(t)' /\ SharesOf(t)' /\ FreeingOf(t)'
  <2>1. PlaceOf(t)'
    BY <1>0, <1>3, <1>4, OfThread DEF PlaceOf, Starting, Frees, Kinds
  <2>2. SharesOf(t)'
    BY <1>0, <1>1, <1>2, <1>3, <1>4, <1>5, OfThread DEF SharesOf, Starting
  <2>3. FreeingOf(t)'
    BY <1>3, <1>4 DEF FreeingOf, Frees
  <2> QED
    BY <2>1, <2>2, <2>3
<1>9. \A s \in Team \ {t} : PlaceOf(s)' /\ SharesOf(s)' /\ FreeingOf(s)'
  <2>1. /\ \A v \in Live : shares'[v].completed = shares[v].completed
        /\ \A v \in Live' : v \in Live /\ shares'[v].use = shares[v].use
    BY <1>5, LiveShares DEF Running
  <2> QED
    BY <1>4, <1>5, <1>6, <2>1, OtherThreads
<1>10. /\ \A s \in Team : \A k : /\ Beyond(s, k)' <=> Beyond(s, k)
                                 /\ Sure(s, k)' <=> Sure(s, k)
                                 /\ Maybe(s, k)' <=> Maybe(s, k)
                                 /\ Passed(s, k)' <=> Passed(s, k)
                                 /\ Behind(s, k)' <=> Behind(s, k)
       /\ \A s \in Team : Frees(s)' <=> Frees(s)
       /\ \A s \in Team : Allocates(s)' <=> Allocates(s)
  <2>1. /\ \A k : /\ Beyond(t, k)' <=> Beyond(t, k)
                  /\ Sure(t, k)' <=> Sure(t, k)
                  /\ Maybe(t, k)' <=> Maybe(t, k)
                  /\ Passed(t, k)' <=> Passed(t, k)
                  /\ Behind(t, k)' <=> Behind(t, k)
        /\ Frees(t)' <=> Frees(t)
        /\ Allocates(t)' <=> Allocates(t)
    BY <1>0, <1>3, <1>4 DEF Beyond, Sure, Maybe, Passed, Behind, Frees, Allocates, Starting
  <2>2. \A s \in Team \ {t} : /\ \A k : /\ Beyond(s, k)' <=> Beyond(s, k)
                                        /\ Sure(s, k)' <=> Sure(s, k)
                                        /\ Maybe(s, k)' <=> Maybe(s, k)
                                        /\ Passed(s, k)' <=> Passed(s, k)
                                        /\ Behind(s, k)' <=> Behind(s, k)
                              /\ Frees(s)' <=> Frees(s)
                              /\ Allocates(s)' <=> Allocates(s)
    BY <1>4, <1>6, OtherThreads
  <2>3. ASSUME NEW s \in Team
        PROVE  /\ \A k : /\ Beyond(s, k)' <=> Beyond(s, k)
                         /\ Sure(s, k)' <=> Sure(s, k)
                         /\ Maybe(s, k)' <=> Maybe(s, k)
                         /\ Passed(s, k)' <=> Passed(s, k)
                         /\ Behind(s, k)' <=> Behind(s, k)
               /\ Frees(s)' <=> Frees(s)
               /\ Allocates(s)' <=> Allocates(s)
    <3>1. CASE s = t
      BY <2>1, <3>1
    <3>2. CASE s # t
      BY <2>2, <3>2
    <3> QED
      BY <3>1, <3>2
  <2> QED
    BY <2>3
<1>11. ChainInv'
  <2>1. Unique'
    BY <1>5, LiveShares DEF Running, ChainInv, Unique
  <2>2. ASSUME NEW y \in Live PROVE ChainOf(y)'
    <3>1. ChainOf(y) /\ y \in Shares /\ shares'[y].use = shares[y].use
      BY <1>5, LiveShares DEF Running, ChainInv
    <3>2. (/\ shares[y].use <= region.length /\ shareOf[shares[y].use] = shares[y].use
           /\ \E s \in Team : at[s] >= shares[y].use)'
      BY <1>4, <3>1 DEF ChainOf
    <3>3. (shares[y].next \in Shares =>
              shares[y].next \in Live /\ Follows(shares[shares[y].next].use, shares[y].use))'
      <4>1. CASE y = w
        BY <1>1, <1>2, <1>4, <1>5, <4>1, RegionKept
      <4>2. CASE y # w /\ shares[y].next \in Shares
        <5>1. PICK z \in Shares : z = shares[y].next
          BY <4>2
        <5>2. z \in Live /\ Follows(shares[z].use, shares[y].use) /\ shares'[y].next = z
          BY <1>5, <3>1, <4>2, <5>1 DEF ChainOf
        <5>3. Follows(shares[z].use, shares[y].use)'
          BY <1>4, <1>5, <3>1, <5>1, <5>2, RegionKept
        <5> QED
          BY <1>5, <5>2, <5>3
      <4>3. CASE y # w /\ shares[y].next \notin Shares
        BY <1>5, <3>1, <4>3
      <4> QED
        BY <4>1, <4>2, <4>3
    <3>4. (\A v \in Live : Follows(shares[v].use, shares[y].use) =>
             \/ shares[y].next = v
             \/ \E s \in Team : pc[s] = "share" /\ last_work_share[s] = y /\ work_share[s] = v)'
      <4> SUFFICES ASSUME NEW v \in Live, Follows(shares[v].use, shares[y].use)
                   PROVE  \/ shares'[y].next = v
                          \/ \E s \in Team : pc'[s] = "share" /\ last_work_share'[s] = y /\ work_share'[s] = v
        BY <1>4, <1>5, <3>1, LiveShares, RegionKept DEF Running
      <4>1. CASE y = w
        <5>1. shares[v].use = at[t]
          BY <1>1, <4>1, FollowsOnce DEF Running, Typed
        <5>2. v = x
          BY <1>2, <5>1 DEF Running, ChainInv, Unique
        <5> QED
          BY <1>5, <4>1, <5>2
      <4>2. CASE y # w
        <5>1. \/ shares[y].next = v
              \/ \E s \in Team : pc[s] = "share" /\ last_work_share[s] = y /\ work_share[s] = v
          BY <3>1 DEF ChainOf
        <5> QED
          BY <1>1, <1>4, <1>5, <1>6, <3>1, <4>2, <5>1
      <4> QED
        BY <4>1, <4>2
    <3>5. (\A s \in Team, i \in 1..region.length :
             Follows(i, shares[y].use) /\ Beyond(s, i) =>
                /\ shares[y].next # None
                /\ shares[y].next = Owned =>
                      \E r \in Team : pc[r] = "share" /\ last_work_share[r] = y)'
      <4> SUFFICES ASSUME NEW s \in Team, NEW i \in 1..region.length,
                          Follows(i, shares[y].use), Beyond(s, i)
                   PROVE  /\ shares'[y].next # None
                          /\ shares'[y].next = Owned =>
                                \E r \in Team : pc'[r] = "share" /\ last_work_share'[r] = y
        BY <1>4, <1>10, <3>1, RegionKept
      <4>1. CASE y = w
        BY <1>2, <1>5, <4>1, ShareFacts DEF Running
      <4>2. CASE y # w
        <5>1. /\ shares[y].next # None
              /\ shares[y].next = Owned =>
                    \E r \in Team : pc[r] = "share" /\ last_work_share[r] = y
          BY <3>1 DEF ChainOf
        <5> QED
          BY <1>1, <1>4, <1>5, <1>6, <3>1, <4>2, <5>1
      <4> QED
        BY <4>1, <4>2
    <3> QED
      BY <3>2, <3>3, <3>4, <3>5 DEF ChainOf
  <2>3. ASSUME NEW s \in Team PROVE OwnersOf(s)'
    <3>1. CASE s = t
      BY <1>3, <1>4, <3>1 DEF OwnersOf, Allocates
    <3>2. CASE s # t /\ (Allocates(s) \/ pc[s] = "share")
      <4>1. last_work_share[s] \in Shares /\ OwnersOf(s) /\ pc'[s] = pc[s]
        BY <1>6, <3>2, OfThread, UsesLive, LiveShares DEF Running, Allocates, Starting
      <4>2. last_work_share[s] # w
        BY <1>1, <3>2 DEF Owner
      <4>3. \A r \in Team : Owner(r, last_work_share[s])' => Owner(r, last_work_share[s])
        BY <1>0, <1>3, <1>4, <1>6, <1>10 DEF Owner
      <4> QED
        BY <1>4, <1>5, <3>2, <4>1, <4>2, <4>3 DEF OwnersOf, Allocates, Owner
    <3>3. CASE s # t /\ pc[s] = "wait"
      <4>1. last_work_share[s] \in Shares /\ shares[last_work_share[s]].next # None
        BY <3>3, OfThread, UsesLive, LiveShares DEF Running, Starting, OwnersOf
      <4>2. shares'[last_work_share[s]].next # None
        BY <1>2, <1>5, <4>1, ShareFacts DEF Running
      <4> QED
        BY <1>4, <1>6, <3>3, <4>2 DEF OwnersOf, Allocates
    <3>4. CASE s # t /\ pc[s] # "wait" /\ ~Allocates(s) /\ pc[s] # "share"
      BY <1>6, <1>10, <3>4 DEF OwnersOf
    <3> QED
      BY <3>1, <3>2, <3>3, <3>4
  <2> QED
    BY <1>4, <1>5, <1>8, <1>9, <2>1, <2>2, <2>3 DEF ChainInv
<1>12. FreeInv'
  <2>1. \A v \in Live' : /\ v \in Live /\ shares'[v].use = shares[v].use
                         /\ shares'[v].completed = shares[v].completed
    BY <1>5, LiveShares DEF Running
  <2>2. \A v \in Live' : CountOf(v)'
    BY <1>4, <1>10, <2>1, CountsKept DEF Running, FreeInv
  <2>3. \A v \in Live' : Needed(v)'
    BY <1>4, <1>10, <2>1, NeedsKept DEF Running, FreeInv
  <2> QED
    BY <1>4, <1>8, <1>9, <1>10, <2>2, <2>3 DEF FreeInv, OneFrees, Running
<1>13. BarrierInv'
  <2>1. (Arrived(t)' <=> Arrived(t)) /\ (Opens(t)' <=> Opens(t))
    BY <1>0, <1>3, <1>4 DEF Arrived, Opens, Frees
  <2> QED
    BY <1>0, <1>3, <1>4, <1>6, <1>10, <2>1, BarrierMove
<1>14. ListInv'
  <2>1. \A v \in Shares : /\ shares'[v].use = -1 <=> shares[v].use = -1
                          /\ shares[v].use = -1 => shares'[v].next = shares[v].next
    BY <1>1, <1>5, LiveShares DEF Running
  <2>2. \A s \in Team : \/ pc'[s] = pc[s] /\ last_work_share'[s] = last_work_share[s]
                        \/ pc[s] \notin Holding /\ pc'[s] \notin Holding
    BY <1>0, <1>3, <1>4, <1>6 DEF Holding
  <2> QED
    BY <1>4, <1>5, <2>1, <2>2, HandsKept
<1> QED
  BY <1>7, <1>11, <1>12, <1>13, <1>14 DEF Running
-----------------------------------------------------------------------------
(* gomp_init_work_share.                                                   *)

LEMMA SetShare ==
    ASSUME Typed, NEW x \in Shares, NEW k \in Nat, shares[x].use = -1,
           shares' = [shares EXCEPT ![x] = [Cleared(@) EXCEPT !.use = k]]
    PROVE  /\ Shares' = Shares /\ shares' \in [Shares -> ShareIn(Shares)]
           /\ shares'[x].next = None /\ shares'[x].use = k /\ shares'[x].completed = 0
           /\ \A v \in Shares : v # x => shares'[v] = shares[v]
           /\ Live' = Live \cup {x} /\ x \notin Live
<1> DEFINE r == [Cleared(shares[x]) EXCEPT !.use = k]
<1>1. shares[x] \in ShareIn(Shares)
  BY ShareFacts
<1>2. r \in ShareIn(Shares) /\ r.use = k /\ r.next = None /\ r.completed = 0
  BY <1>1 DEF ShareIn, Cleared
<1>3. shares' = [shares EXCEPT ![x] = r] /\ shares \in [Shares -> ShareIn(Shares)]
  BY DEF Typed
<1> HIDE DEF r
<1>4. /\ Shares' = Shares /\ shares' \in [Shares -> ShareIn(Shares)] /\ shares'[x] = r
      /\ \A v \in Shares : v # x => shares'[v] = shares[v]
  BY <1>2, <1>3 DEF Shares
<1>5. Live' = Live \cup {x} /\ x \notin Live
  BY <1>2, <1>4 DEF Live
<1> QED
  BY <1>2, <1>4, <1>5

\* Nobody is behind a construct whose share is still being prepared.
LEMMA NobodyBeyond ==
    ASSUME Running, NEW t \in Team, Allocates(t)
    PROVE  /\ \A s \in Team : ~Beyond(s, at[t])
           /\ \A v \in Live : shares[v].use # at[t]
<1>0. pc[t] \in Starting \cup {"share"} /\ pc[t] \in Starting
  BY DEF Allocates, Starting
<1>1. PICK w \in Live : /\ w = last_work_share[t] /\ shares[w].next = Owned
                        /\ Follows(at[t], shares[w].use) /\ ChainOf(w) /\ w \in Shares
                        /\ \A s \in Team : pc[s] = "share" => last_work_share[s] # w
  <2>1. \A s \in Team : Owner(s, last_work_share[t]) => s = t
    BY OfThread DEF OwnersOf
  <2>2. \A s \in Team : pc[s] = "share" => last_work_share[s] # last_work_share[t]
    BY <2>1 DEF Owner, Allocates
  <2> QED
    BY <1>0, <2>2, UsesLive, LiveShares, OfThread DEF Running, ChainInv, OwnersOf
<1>2. \A s \in Team : ~Beyond(s, at[t])
  BY <1>1 DEF ChainOf, Follows
<1>3. \A v \in Live : shares[v].use # at[t]
  <2>1. SUFFICES ASSUME NEW v \in Live, shares[v].use = at[t] PROVE FALSE
    OBVIOUS
  <2>2. v \in Shares /\ shares[w].next # v
    BY <1>1, LiveShares, ShareFacts DEF Running
  <2> QED
    BY <1>1, <2>1, <2>2 DEF ChainOf
<1> QED
  BY <1>2, <1>3

LEMMA InitWorkShareKeeps ==
    ASSUME Running, NEW t \in Team, InitWorkShare(t) PROVE Running'
<1>0. /\ pc[t] = "init" /\ t \in Threads /\ Allocates(t)
      /\ Construct(t) \in Kinds \ {"single"}
      /\ \A s \in Team : ~Beyond(s, at[t])
      /\ \A v \in Live : shares[v].use # at[t]
  BY OfThread, NobodyBeyond DEF InitWorkShare, PlaceOf, Starting, Allocates
<1>1. PICK w \in Live : /\ w = last_work_share[t] /\ w \in Shares
                        /\ shares[w].next = Owned /\ Follows(at[t], shares[w].use)
                        /\ \A s \in Team : Owner(s, w) => s = t
  BY <1>0, UsesLive, LiveShares, OfThread DEF Running, OwnersOf, Starting
<1>2. PICK k \in 1..region.length : k = at[t] /\ k \in Nat /\ k >= 1 /\ region.constructs[k] # "single"
                                  /\ shareOf[k] = k /\ region.length \in Nat
  <2>1. at[t] \in 1..region.length /\ region.constructs[at[t]] # "single"
    BY <1>1 DEF Follows
  <2>2. shareOf[at[t]] = at[t]
    BY <2>1, OfItsOwn DEF Running, Typed
  <2> QED
    BY <2>1, <2>2, OfThread
<1>3. PICK x \in Shares : x = local[t] /\ shares[x].use = -1
                          /\ \A s \in Team : pc[s] \in {"link", "cas"} => last_work_share[s] # x
  BY <1>0, OfThread DEF HandOf
<1>4. /\ shares' = [shares EXCEPT ![x] = [Cleared(@) EXCEPT !.use = k]]
      /\ region' = region /\ at' = at /\ local' = local
      /\ list_alloc' = list_alloc /\ list_free' = list_free /\ chunk' = chunk /\ to_free' = to_free
      /\ work_share' = [work_share EXCEPT ![t] = x] /\ last_work_share' = last_work_share
      /\ awaited' = awaited /\ cancelled' = cancelled /\ got' = got
      /\ first' = [first EXCEPT ![t] = TRUE]
      /\ Construct(t)' = Construct(t) /\ shareOf' = shareOf /\ Team' = Team
      /\ pc' = [pc EXCEPT ![t] = "share"] /\ pc'[t] = "share" /\ work_share'[t] = x
  BY <1>0, <1>2, <1>3, RegionKept, ThreadMaps
     DEF InitWorkShare, Inside, Goto, listVars, teamVars, Construct, Running
<1>5. /\ Shares' = Shares /\ shares' \in [Shares -> ShareIn(Shares)]
      /\ shares'[x].next = None /\ shares'[x].use = k /\ shares'[x].completed = 0
      /\ \A v \in Shares : v # x => shares'[v] = shares[v]
      /\ Live' = Live \cup {x} /\ x \notin Live
  BY <1>2, <1>3, <1>4, SetShare DEF Running
<1>6. OthersSame(t) /\ \A s \in Team \ {t} : local'[s] = local[s] /\ pc'[s] = pc[s]
  BY <1>4, ThreadMaps DEF OthersSame, Running
<1>7. Typed'
  <2>1. pc' \in [Threads -> PCs] /\ work_share' \in [Threads -> Shares]
        /\ first' \in [Threads -> BOOLEAN]
    BY <1>3, <1>4, ThreadMaps DEF Running, Typed, PCs
  <2> QED
    BY <1>4, <1>5, <2>1 DEF Running, Typed
<1>8. PlaceOf(t)' /\ SharesOf(t)' /\ FreeingOf(t)'
  <2>1. PlaceOf(t)'
    BY <1>0, <1>4, OfThread DEF PlaceOf, Starting, Frees
  <2>2. SharesOf(t)'
    BY <1>0, <1>1, <1>2, <1>4, <1>5, OfThread DEF SharesOf, Starting
  <2>3. FreeingOf(t)'
    BY <1>4 DEF FreeingOf, Frees
  <2> QED
    BY <2>1, <2>2, <2>3
<1>9. \A s \in Team \ {t} :
          /\ PlaceOf(s)' /\ SharesOf(s)'
          /\ \A i : /\ Beyond(s, i)' <=> Beyond(s, i)
                    /\ Sure(s, i)' <=> Sure(s, i)
                    /\ Maybe(s, i)' <=> Maybe(s, i)
                    /\ Passed(s, i)' <=> Passed(s, i)
                    /\ Behind(s, i)' <=> Behind(s, i)
          /\ Frees(s)' <=> Frees(s)
          /\ Allocates(s)' <=> Allocates(s)
  <2>1. \A v \in Live : shares'[v].use = shares[v].use
    BY <1>5, LiveShares DEF Running
  <2> QED
    BY <1>4, <1>6, <2>1, OtherThreads
<1>10. /\ \A i : /\ Beyond(t, i)' <=> Beyond(t, i) \/ i = k
                 /\ Sure(t, i)' <=> Sure(t, i)
                 /\ Maybe(t, i)' <=> Maybe(t, i)
                 /\ Passed(t, i)' <=> Passed(t, i)
                 /\ Behind(t, i)' <=> Behind(t, i)
       /\ ~Frees(t)' /\ ~Frees(t) /\ ~Allocates(t)'
  BY <1>0, <1>2, <1>4 DEF Beyond, Sure, Maybe, Passed, Behind, Frees, Allocates, Starting
<1>11. \A v \in Live : v # x /\ v \in Shares /\ shares'[v] = shares[v] /\ ChainOf(v)
  BY <1>5, LiveShares DEF Running, ChainInv
<1>12. \A s \in Team : at[s] \in Nat /\ at[s] <= k
  <2>1. \A s \in Team : at[s] \in Nat /\ ~(at[s] > k)
    BY <1>0, <1>2, OfThread DEF Beyond
  <2> QED
    BY <1>2, <2>1
<1>13. \A v \in Live : Follows(k, shares[v].use) => v = w
  BY <1>1, <1>2 DEF Running, ChainInv, Unique, Follows
<1>14. Unique'
  BY <1>0, <1>2, <1>5, <1>11 DEF Running, ChainInv, Unique
<1>15. ASSUME NEW y \in Live PROVE ChainOf(y)'
  <2>1. (/\ shares[y].use <= region.length /\ shareOf[shares[y].use] = shares[y].use
         /\ \E s \in Team : at[s] >= shares[y].use)'
    BY <1>4, <1>11 DEF ChainOf
  <2>2. (shares[y].next \in Shares =>
            shares[y].next \in Live /\ Follows(shares[shares[y].next].use, shares[y].use))'
    <3>1. CASE shares[y].next \in Shares
      <4>1. PICK z \in Shares : z = shares[y].next
        BY <3>1
      <4>2. z \in Live /\ Follows(shares[z].use, shares[y].use) /\ shares'[y].next = z
        BY <1>11, <4>1 DEF ChainOf
      <4>3. Follows(shares[z].use, shares[y].use)'
        BY <1>4, <1>11, <4>2, RegionKept
      <4> QED
        BY <1>5, <4>2, <4>3
    <3>2. CASE shares[y].next \notin Shares
      BY <1>5, <1>11, <3>2
    <3> QED
      BY <3>1, <3>2
  <2>3. (\A v \in Live : Follows(shares[v].use, shares[y].use) =>
           \/ shares[y].next = v
           \/ \E s \in Team : pc[s] = "share" /\ last_work_share[s] = y /\ work_share[s] = v)'
    <3> SUFFICES ASSUME NEW v \in Live \cup {x}, Follows(shares'[v].use, shares[y].use)
                 PROVE  \/ shares'[y].next = v
                        \/ \E s \in Team : pc'[s] = "share" /\ last_work_share'[s] = y /\ work_share'[s] = v
      BY <1>4, <1>5, <1>11, RegionKept
    <3>1. CASE v = x
      BY <1>1, <1>4, <1>5, <1>13, <3>1
    <3>2. CASE v # x
      <4>1. \/ shares[y].next = v
            \/ \E s \in Team : pc[s] = "share" /\ last_work_share[s] = y /\ work_share[s] = v
        BY <1>11, <3>2 DEF ChainOf
      <4> QED
        BY <1>0, <1>4, <1>6, <1>11, <4>1 DEF OthersSame
    <3> QED
      BY <3>1, <3>2
  <2>4. (\A s \in Team, i \in 1..region.length :
           Follows(i, shares[y].use) /\ Beyond(s, i) =>
              /\ shares[y].next # None
              /\ shares[y].next = Owned =>
                    \E r \in Team : pc[r] = "share" /\ last_work_share[r] = y)'
    <3> SUFFICES ASSUME NEW s \in Team, NEW i \in 1..region.length,
                        Follows(i, shares[y].use), Beyond(s, i)'
                 PROVE  /\ shares'[y].next # None
                        /\ shares'[y].next = Owned =>
                              \E r \in Team : pc'[r] = "share" /\ last_work_share'[r] = y
      BY <1>4, <1>11, RegionKept
    <3>1. CASE i = k
      <4>1. y = w
        BY <1>13, <3>1
      <4>2. Owned # None
        BY ShareFacts DEF Running
      <4> QED
        BY <1>1, <1>4, <1>11, <4>1, <4>2
    <3>2. CASE i # k
      <4>1. Beyond(s, i)
        BY <1>9, <1>10, <3>2
      <4>2. /\ shares[y].next # None
            /\ shares[y].next = Owned =>
                  \E r \in Team : pc[r] = "share" /\ last_work_share[r] = y
        BY <1>11, <4>1 DEF ChainOf
      <4> QED
        BY <1>0, <1>4, <1>6, <1>11, <4>2
    <3> QED
      BY <3>1, <3>2
  <2> QED
    BY <2>1, <2>2, <2>3, <2>4 DEF ChainOf
<1>16. ChainOf(x)'
  <2>1. (/\ shares[x].use <= region.length /\ shareOf[shares[x].use] = shares[x].use
         /\ \E s \in Team : at[s] >= shares[x].use)'
    BY <1>2, <1>4, <1>5
  <2>2. (shares[x].next \notin Shares)'
    BY <1>5, ShareFacts DEF Running
  <2>3. \A i : Follows(i, k) => i \in Nat /\ i > k
    <3> SUFFICES ASSUME NEW i \in 1..region.length, shareOf[i - 1] = k PROVE i > k
      BY <1>2 DEF Follows
    <3>1. shareOf[i - 1] \in 0..(i - 1)
      BY <1>2, ShareOfFacts DEF Running, Typed
    <3> QED
      BY <1>2, <3>1
  <2>4. \A v \in Live : ~Follows(shares[v].use, k)
    <3> SUFFICES ASSUME NEW v \in Live, shares[v].use > k PROVE FALSE
      BY <2>3
    <3>1. PICK s \in Team : at[s] >= shares[v].use
      BY <1>11 DEF ChainOf
    <3>2. shares[v].use \in Nat
      BY LiveShares DEF Running
    <3> QED
      BY <1>2, <1>12, <3>1, <3>2
  <2>5. (\A v \in Live : ~Follows(shares[v].use, shares[x].use))'
    <3>1. ~Follows(k, k)
      BY <1>2, <2>3
    <3> SUFFICES ASSUME NEW v \in Live \cup {x} PROVE ~Follows(shares'[v].use, k)
      BY <1>4, <1>5, RegionKept
    <3> QED
      BY <1>5, <1>11, <2>4, <3>1
  <2>6. (\A s \in Team, i \in 1..region.length : ~(Follows(i, shares[x].use) /\ Beyond(s, i)))'
    <3> SUFFICES ASSUME NEW s \in Team, NEW i \in 1..region.length, Follows(i, k), Beyond(s, i)'
                 PROVE  FALSE
      BY <1>4, <1>5, RegionKept
    <3>1. at[s] >= i
      BY <1>2, <1>4, <1>12 DEF Beyond
    <3> QED
      BY <1>2, <1>12, <2>3, <3>1
  <2> QED
    BY <2>1, <2>2, <2>5, <2>6 DEF ChainOf
<1>17. ASSUME NEW s \in Team PROVE OwnersOf(s)'
  <2>1. CASE pc[s] \in Starting \cup {"share"}
    <3>1. PICK y \in Live : y = last_work_share[s]
      BY <2>1, UsesLive DEF Running
    <3>2. shares'[y].next = shares[y].next /\ last_work_share'[s] = y /\ OwnersOf(s)
      BY <1>4, <1>11, <3>1, OfThread
    <3>3. \A r \in Team : Owner(r, y)' => Owner(r, y)
      BY <1>0, <1>4, <1>6, <1>9, <1>10 DEF Owner
    <3>4. Allocates(s)' \/ pc'[s] = "share" => Allocates(s) \/ pc[s] = "share"
      BY <1>0, <1>6, <1>9
    <3>5. pc'[s] = "wait" => pc[s] = "wait"
      BY <1>4, <1>6
    <3> QED
      BY <1>4, <3>1, <3>2, <3>3, <3>4, <3>5 DEF OwnersOf
  <2>2. CASE pc[s] \notin Starting \cup {"share"}
    BY <1>0, <1>6, <2>2 DEF OwnersOf, Allocates, Starting
  <2> QED
    BY <2>1, <2>2
<1>18. ChainInv'
  BY <1>4, <1>5, <1>8, <1>9, <1>14, <1>15, <1>16, <1>17 DEF ChainInv
<1>19. FreeInv'
  <2>1. \A i : SureSet(i)' = SureSet(i) /\ MaybeSet(i)' = MaybeSet(i)
    BY <1>4, <1>9, <1>10 DEF SureSet, MaybeSet
  <2>2. \A v \in Live : CountOf(v)'
    BY <1>4, <1>11, <2>1, RegionKept DEF Running, FreeInv, CountOf
  <2>3. CountOf(x)'
    <3>1. SureSet(k) = {}
      <4>1. \A s \in Team : ~Sure(s, k)
        BY <1>0, <1>2 DEF Sure, Beyond, Starting
      <4> QED
        BY <4>1 DEF SureSet
    <3>2. Cardinality(SureSet(k)) = 0
      BY <3>1, FS_EmptySet
    <3>3. MaybeSet(k) \in SUBSET Team
      BY DEF MaybeSet
    <3>4. Cardinality(MaybeSet(k)) \in Nat
      BY <3>3, SetsFinite DEF Running, Typed
    <3> QED
      BY <1>4, <1>5, <2>1, <3>2, <3>4, RegionKept DEF CountOf
  <2>4. \A v \in Live : Needed(v)'
    <3> SUFFICES ASSUME NEW v \in Live, NEW i \in 1..region.length, Follows(i, shares[v].use)
                 PROVE  \E s \in Team : ~Passed(s, i)'
      BY <1>4, <1>11, RegionKept DEF Needed
    <3>1. PICK s \in Team : ~Passed(s, i)
      BY DEF Running, FreeInv, Needed
    <3> QED
      BY <1>9, <1>10, <3>1
  <2>5. Needed(x)'
    <3> SUFFICES ASSUME NEW i \in 1..region.length, Follows(i, k)
                 PROVE  \E s \in Team : ~Passed(s, i)'
      BY <1>4, <1>5, RegionKept DEF Needed
    <3>1. ~Follows(k, k) /\ (Follows(i, k) => i >= k)
      <4>1. \A m \in 1..region.length : shareOf[m - 1] \in 0..(m - 1)
        BY <1>2, ShareOfFacts DEF Running, Typed
      <4>2. shareOf[k - 1] # k /\ (shareOf[i - 1] = k => i >= k)
        BY <1>2, <4>1
      <4> QED
        BY <4>2 DEF Follows
    <3>2. ~Passed(t, i)
      BY <1>0, <1>2, <3>1 DEF Passed
    <3> QED
      BY <1>10, <3>2
  <2>6. ASSUME NEW s \in Team \ {t} PROVE FreeingOf(s)'
    <3>1. Frees(s) => work_share[s] \in Live
      BY UsesLive DEF Frees, Starting, Running
    <3>2. /\ pc'[s] = pc[s] /\ at'[s] = at[s] /\ work_share'[s] = work_share[s]
          /\ Construct(s)' = Construct(s)
      BY <1>4, <1>6 DEF OthersSame, Construct
    <3>3. Frees(s) /\ Construct(s) # "loop" => shares'[work_share[s]].completed = Cardinality(Team)
      BY <1>11, <3>1, OfThread DEF FreeingOf
    <3>4. at[s] >= 1 => shareOf[at[s] - 1] # k
      <4> SUFFICES ASSUME at[s] >= 1 PROVE shareOf[at[s] - 1] # k
        OBVIOUS
      <4>1. shareOf[at[s] - 1] \in 0..(at[s] - 1)
        BY OfThread, ShareOfFacts DEF Running, Typed
      <4> QED
        BY <1>2, <1>12, <4>1
    <3>5. (\/ pc[s] \in {"link", "cas"}
           \/ pc[s] = "open" /\ Construct(s) = "loop" /\ at[s] >= 1) =>
              at[s] >= 1 /\ \A v \in Live : shares[v].use # shareOf[at[s] - 1]
      BY OfThread DEF FreeingOf, PlaceOf, Frees
    <3>6. (\/ pc[s] \in {"link", "cas"}
           \/ pc[s] = "open" /\ Construct(s) = "loop" /\ at[s] >= 1) =>
              \A v \in Live' : shares'[v].use # shareOf[at[s] - 1]
      BY <1>5, <1>11, <3>4, <3>5
    <3> QED
      BY <1>4, <1>9, <3>2, <3>3, <3>6 DEF FreeingOf
  <2>7. OneFrees'
    BY <1>4, <1>9, <1>10 DEF OneFrees, Running, FreeInv
  <2> QED
    BY <1>4, <1>5, <1>8, <2>2, <2>3, <2>4, <2>5, <2>6, <2>7 DEF FreeInv
<1>20. BarrierInv'
  <2>1. (Arrived(t)' <=> Arrived(t)) /\ (Opens(t)' <=> Opens(t))
    BY <1>0, <1>4 DEF Arrived, Opens, Frees
  <2> QED
    BY <1>0, <1>4, <1>6, <1>10, <2>1, BarrierMove
<1>21. ListInv'
  <2>1. \A s \in Team \ {t} : ~Allocates(s) /\ ~Allocates(s)'
    BY <1>0, <1>9 DEF Running, ListInv, OneAllocates
  <2>2. \A s \in Team : pc'[s] \notin {"alloc", "take", "init"}
    BY <1>4, <1>6, <2>1 DEF Allocates
  <2>3. \A v \in Shares : v # x => (InHand(v)' <=> InHand(v))
    BY <1>0, <1>3, <1>4, <1>6, <2>1 DEF InHand, Allocates
  <2>4. x \notin Idle
    BY <1>0, <1>3 DEF Idle, InHand
  <2>5. Idle' = Idle
    <3>1. shares'[x].use # -1
      BY <1>2, <1>5
    <3> QED
      BY <1>5, <2>3, <2>4, <3>1 DEF Idle
  <2>6. \A v \in Idle : shares'[v].next = shares[v].next
    BY <1>5, <2>4 DEF Idle
  <2>7. Lists'
    BY <1>4, <2>5, <2>6, ListsKept DEF Running, ListInv
  <2>8. ASSUME NEW s \in Team PROVE HandOf(s)'
    <3>1. pc'[s] \in {"link", "cas"} => /\ pc[s] = pc'[s] /\ last_work_share[s] \in Shares
                                        /\ last_work_share[s] # x
      BY <1>3, <1>4, <1>6, InFreeing
    <3>2. pc'[s] \in {"link", "cas"} => shares'[last_work_share[s]] = shares[last_work_share[s]]
      BY <1>5, <3>1
    <3> QED
      BY <1>4, <2>2, <3>1, <3>2, OfThread DEF HandOf
  <2>9. OneAllocates'
    BY <1>4, <2>2 DEF OneAllocates, Allocates
  <2> QED
    BY <1>4, <2>7, <2>8, <2>9 DEF ListInv
<1> QED
  BY <1>7, <1>18, <1>19, <1>20, <1>21 DEF Running
-----------------------------------------------------------------------------
(* gomp_work_share_start, up to the answer of gomp_ptrlock_get or          *)
(* gomp_ptrlock_get_slow.                                                  *)

\* Thread t goes on to construct k, behind the share w.
Enters(t, k, w) ==
    /\ \/ pc[t] = "user" /\ at[t] + 1 = k
       \/ pc[t] = "wait" /\ at[t] = k
    /\ region' = region /\ awaited' = awaited /\ cancelled' = cancelled
    /\ at'[t] = k /\ last_work_share'[t] = w
    /\ pc'[t] \in {"wait", "alloc", "work", "arrive"}
    /\ Live' = Live
    /\ \A v \in Live : /\ shares'[v].use = shares[v].use
                       /\ shares'[v].completed = shares[v].completed
    /\ shares[w].use = shareOf[k - 1] /\ region.constructs[k] \in Kinds \ {"single"}
    /\ pc'[t] = "work" => region.constructs[k] \in {"loop", "nowait"}
    /\ pc'[t] = "arrive" => region.constructs[k] = "copy"
    /\ pc'[t] \in {"work", "arrive"} =>
          work_share'[t] \in Live /\ shares[work_share'[t]].use = k

LEMMA EntersKeeps ==
    ASSUME Running, NEW t \in Team, NEW k \in 1..region.length, NEW w \in Live,
           OthersSame(t), Enters(t, k, w)
    PROVE  /\ FreeInv' /\ BarrierInv'
           /\ \A s \in Team : PlaceOf(s)' /\ SharesOf(s)'
           /\ \A s \in Team : \A i : s # t => (Beyond(s, i)' <=> Beyond(s, i))
           /\ \A i \in Nat : Beyond(t, i)' => \/ Beyond(t, i)
                                              \/ i = k /\ pc'[t] \in {"work", "arrive"}
<1>0. /\ Team' = Team /\ shareOf' = shareOf /\ k \in Nat /\ k >= 1 /\ at[t] \in Nat
      /\ region.length \in Nat /\ region' = region
      /\ Construct(t)' = region.constructs[k] /\ at'[t] = k
      /\ \/ pc[t] = "user" /\ at[t] + 1 = k
         \/ pc[t] = "wait" /\ at[t] = k
      /\ pc'[t] \in {"wait", "alloc", "work", "arrive"}
  BY OfThread, RegionKept DEF Enters, Construct
<1>1. \A v \in Live' : v \in Live /\ shares'[v].use = shares[v].use
                       /\ shares'[v].completed = shares[v].completed
  BY DEF Enters
<1>2. \A s \in Team \ {t} : /\ PlaceOf(s)' /\ SharesOf(s)' /\ FreeingOf(s)'
                            /\ \A i : /\ Beyond(s, i)' <=> Beyond(s, i)
                                      /\ Sure(s, i)' <=> Sure(s, i)
                                      /\ Maybe(s, i)' <=> Maybe(s, i)
                                      /\ Passed(s, i)' <=> Passed(s, i)
                                      /\ Behind(s, i)' <=> Behind(s, i)
                            /\ Frees(s)' <=> Frees(s)
  BY <1>0, <1>1, OtherThreads DEF Enters
<1>3. PlaceOf(t)'
  <2>1. last_work_share'[t] # None
    BY LiveShares, ShareFacts DEF Enters, Running
  <2> QED
    BY <1>0, <2>1 DEF Enters, PlaceOf, Starting, Frees
<1>4. SharesOf(t)'
  <2>1. last_work_share'[t] # None /\ shares'[last_work_share'[t]].use = shareOf[k - 1]
    BY LiveShares, ShareFacts DEF Enters, Running
  <2>2. shareOf[k] = k
    BY OfItsOwn DEF Enters, Running, Typed
  <2>3. pc'[t] \in {"work", "arrive"} => shares'[work_share'[t]].use = k
    BY DEF Enters
  <2> QED
    BY <1>0, <2>1, <2>2, <2>3 DEF SharesOf, Starting
<1>5. /\ \A i \in Nat : /\ Sure(t, i)' <=> Sure(t, i)
                        /\ Maybe(t, i)' <=> Maybe(t, i)
                        /\ Passed(t, i)' <=> Passed(t, i)
                        /\ Behind(t, i)' <=> Behind(t, i)
      /\ \A i \in Nat : Beyond(t, i)' => \/ Beyond(t, i)
                                         \/ i = k /\ pc'[t] \in {"work", "arrive"}
      /\ ~Frees(t)' /\ ~Frees(t) /\ FreeingOf(t)'
  <2>1. \A i \in Nat : k > i <=> (at[t] > i \/ (pc[t] = "user" /\ at[t] = i))
    BY <1>0
  <2>2. ~Frees(t)' /\ ~Frees(t)
    BY <1>0 DEF Frees
  <2>3. \A i \in Nat : /\ Sure(t, i)' <=> k > i
                       /\ Maybe(t, i)' <=> k > i
                       /\ Passed(t, i)' <=> k > i
                       /\ Behind(t, i)' <=> k > i
    BY <1>0, <2>2 DEF Sure, Maybe, Passed, Behind
  <2>4. \A i \in Nat : /\ Sure(t, i) <=> (at[t] > i \/ (pc[t] = "user" /\ at[t] = i))
                       /\ Maybe(t, i) <=> (at[t] > i \/ (pc[t] = "user" /\ at[t] = i))
                       /\ Passed(t, i) <=> (at[t] > i \/ (pc[t] = "user" /\ at[t] = i))
                       /\ Behind(t, i) <=> (at[t] > i \/ (pc[t] = "user" /\ at[t] = i))
    BY <1>0, <2>2 DEF Sure, Maybe, Passed, Behind
  <2>5. FreeingOf(t)'
    BY <1>0 DEF FreeingOf, Frees
  <2>6. \A i \in Nat : Beyond(t, i)' => \/ Beyond(t, i)
                                        \/ i = k /\ pc'[t] \in {"work", "arrive"}
    BY <1>0, <2>1 DEF Beyond, Starting
  <2> QED
    BY <2>1, <2>2, <2>3, <2>4, <2>5, <2>6
<1>6. FreeInv'
  <2>1. \A s \in Team, i \in Nat : /\ Sure(s, i)' => Sure(s, i)
                                   /\ Maybe(s, i) => Maybe(s, i)'
                                   /\ Passed(s, i)' => Passed(s, i)
    BY <1>2, <1>5
  <2>2. Counted \subseteq Nat /\ 1..region.length \subseteq Nat
    BY <1>0 DEF Counted
  <2>3. \A v \in Live' : CountOf(v)'
    BY <1>0, <1>1, <2>1, <2>2, CountsKept DEF Running, FreeInv
  <2>4. \A v \in Live' : Needed(v)'
    BY <1>0, <1>1, <2>1, <2>2, NeedsKept DEF Running, FreeInv
  <2>5. OneFrees'
    BY <1>0, <1>2, <1>5 DEF OneFrees, Running, FreeInv
  <2> QED
    BY <1>0, <1>2, <1>5, <2>3, <2>4, <2>5 DEF FreeInv
<1>7. BarrierInv'
  <2>1. /\ ~Arrived(t)' /\ ~Arrived(t) /\ ~Opens(t)' /\ ~Opens(t)
        /\ pc[t] # "asleep" /\ pc'[t] # "end" /\ pc[t] # "end"
    BY <1>0 DEF Arrived, Opens, Frees
  <2>2. \A b \in Barriers : Behind(t, b)' <=> Behind(t, b)
    BY <1>0, <1>5 DEF Barriers
  <2> QED
    BY <2>1, <2>2, BarrierMove DEF Enters
<1> QED
  BY <1>2, <1>3, <1>4, <1>5, <1>6, <1>7

\* The thread finds the share that the first one has made.
LEMMA FindKeeps ==
    ASSUME Running, NEW t \in Team, NEW k \in 1..region.length, NEW w \in Live,
           OthersSame(t), Enters(t, k, w), Typed', shares' = shares,
           list_alloc' = list_alloc, list_free' = list_free, local' = local,
           \/ pc'[t] = "wait" /\ shares[w].next # None
           \/ pc'[t] \in {"work", "arrive"} /\ shares[w].next \in Shares
    PROVE  Running'
<1>0. /\ Team' = Team /\ shareOf' = shareOf /\ region' = region /\ Shares' = Shares /\ Live' = Live
      /\ at'[t] >= at[t] /\ at[t] \in Nat /\ at'[t] \in Nat
      /\ pc[t] \in {"user", "wait"} /\ pc'[t] \in {"wait", "work", "arrive"}
      /\ last_work_share'[t] = w
  BY OfThread, RegionKept DEF Enters, Shares
<1>1. Unique'
  BY <1>0 DEF Running, ChainInv, Unique, Live
<1>2. ASSUME NEW y \in Live PROVE ChainOf(y)'
  <2>0. ChainOf(y)
    BY DEF Running, ChainInv
  <2>1. (/\ shares[y].use <= region.length /\ shareOf[shares[y].use] = shares[y].use
         /\ \E s \in Team : at[s] >= shares[y].use)'
    <3>1. PICK s \in Team : at[s] >= shares[y].use
      BY <2>0 DEF ChainOf
    <3>2. at'[s] >= shares[y].use
      BY <1>0, <3>1, OfThread, LiveShares DEF OthersSame, Running
    <3> QED
      BY <1>0, <2>0, <3>2 DEF ChainOf
  <2>2. (shares[y].next \in Shares =>
            shares[y].next \in Live /\ Follows(shares[shares[y].next].use, shares[y].use))'
    BY <1>0, <2>0, RegionKept DEF ChainOf
  <2>3. (\A v \in Live : Follows(shares[v].use, shares[y].use) =>
           \/ shares[y].next = v
           \/ \E s \in Team : pc[s] = "share" /\ last_work_share[s] = y /\ work_share[s] = v)'
    <3> SUFFICES ASSUME NEW v \in Live, Follows(shares[v].use, shares[y].use)
                 PROVE  \/ shares[y].next = v
                        \/ \E s \in Team : pc'[s] = "share" /\ last_work_share'[s] = y /\ work_share'[s] = v
      BY <1>0, RegionKept
    <3>1. \/ shares[y].next = v
          \/ \E s \in Team : pc[s] = "share" /\ last_work_share[s] = y /\ work_share[s] = v
      BY <2>0 DEF ChainOf
    <3> QED
      BY <1>0, <3>1 DEF OthersSame
  <2>4. (\A s \in Team, i \in 1..region.length :
           Follows(i, shares[y].use) /\ Beyond(s, i) =>
              /\ shares[y].next # None
              /\ shares[y].next = Owned =>
                    \E r \in Team : pc[r] = "share" /\ last_work_share[r] = y)'
    <3> SUFFICES ASSUME NEW s \in Team, NEW i \in 1..region.length,
                        Follows(i, shares[y].use), Beyond(s, i)'
                 PROVE  /\ shares[y].next # None
                        /\ shares[y].next = Owned =>
                              \E r \in Team : pc'[r] = "share" /\ last_work_share'[r] = y
      BY <1>0, RegionKept
    <3>1. i \in Nat
      BY OfThread
    <3>2. CASE Beyond(s, i)
      <4>1. /\ shares[y].next # None
            /\ shares[y].next = Owned =>
                  \E r \in Team : pc[r] = "share" /\ last_work_share[r] = y
        BY <2>0, <3>2 DEF ChainOf
      <4> QED
        BY <1>0, <4>1 DEF OthersSame
    <3>3. CASE ~Beyond(s, i)
      <4>1. s = t /\ i = k /\ pc'[t] \in {"work", "arrive"}
        BY <3>1, <3>3, EntersKeeps
      <4>2. shares[y].use = shares[w].use
        BY <4>1 DEF Enters, Follows
      <4>3. y = w
        BY <4>2 DEF Running, ChainInv, Unique
      <4> QED
        BY <4>1, <4>3, ShareFacts DEF Running
    <3> QED
      BY <3>2, <3>3
  <2> QED
    BY <2>1, <2>2, <2>3, <2>4 DEF ChainOf
<1>3. ASSUME NEW s \in Team PROVE OwnersOf(s)'
  <2>1. CASE s = t
    BY <1>0, <2>1 DEF OwnersOf, Allocates
  <2>2. CASE s # t
    <3>1. pc'[s] = pc[s] /\ last_work_share'[s] = last_work_share[s] /\ OwnersOf(s)
      BY <2>2, OfThread DEF OthersSame
    <3>2. \A r \in Team : Owner(r, last_work_share[s])' => Owner(r, last_work_share[s])
      BY <1>0, <3>1 DEF OthersSame, Owner, Allocates
    <3> QED
      BY <1>0, <3>1, <3>2 DEF OwnersOf, Allocates
  <2> QED
    BY <2>1, <2>2
<1>4. ChainInv'
  BY <1>0, <1>1, <1>2, <1>3, EntersKeeps DEF ChainInv
<1>5. ListInv'
  <2>1. \A s \in Team : \/ pc'[s] = pc[s] /\ last_work_share'[s] = last_work_share[s]
                        \/ pc[s] \notin Holding /\ pc'[s] \notin Holding
    BY <1>0 DEF OthersSame, Holding
  <2> QED
    BY <1>0, <2>1, HandsKept
<1> QED
  BY <1>4, <1>5, EntersKeeps DEF Running

\* Nobody allocates when a thread finds the pointer to its next share free.
LEMMA NoAllocator ==
    ASSUME Running, NEW t \in Team, pc[t] = "user", NEW w \in Live,
           Follows(at[t] + 1, shares[w].use), shares[w].next = None
    PROVE  \A s \in Team : ~Allocates(s)
<1> SUFFICES ASSUME NEW s \in Team, Allocates(s) PROVE FALSE
  OBVIOUS
<1>1. PICK k \in 1..region.length : k = at[t] + 1 /\ k \in Nat /\ at[t] \in Nat
                                  /\ shareOf[k - 1] = shares[w].use /\ region.constructs[k] # "single"
  BY OfThread DEF Follows
<1>2. s # t
  BY DEF Allocates
<1>3. PICK y \in Live : /\ y = last_work_share[s] /\ shares[y].next = Owned
                        /\ Follows(at[s], shares[y].use)
  BY UsesLive, OfThread DEF Running, OwnersOf, Allocates, Starting
<1>4. PICK m \in 1..region.length : m = at[s] /\ m \in Nat /\ Follows(m, shares[y].use)
  BY <1>3, OfThread DEF Follows
<1>5. CASE m < k
  <2>1. Beyond(t, m)
    BY <1>1, <1>4, <1>5 DEF Beyond, Starting
  <2>2. PICK r \in Team : pc[r] = "share" /\ last_work_share[r] = y
    BY <1>3, <1>4, <2>1 DEF Running, ChainInv, ChainOf
  <2>3. r = s
    BY <1>3, <2>2, OfThread DEF OwnersOf, Owner
  <2> QED
    BY <2>2, <2>3 DEF Allocates
<1>6. CASE m = k
  <2>1. y = w
    BY <1>1, <1>4, <1>6 DEF Follows, Running, ChainInv, Unique
  <2> QED
    BY <1>3, <2>1, ShareFacts DEF Running
<1>7. CASE m > k
  <2>1. Beyond(s, k)
    BY <1>1, <1>4, <1>7 DEF Beyond
  <2> QED
    BY <1>1, <2>1 DEF Running, ChainInv, ChainOf, Follows
<1> QED
  BY <1>1, <1>4, <1>5, <1>6, <1>7

\* The thread claims the pointer and will allocate the share.
LEMMA ClaimKeeps ==
    ASSUME Running, NEW t \in Team, NEW k \in 1..region.length, NEW w \in Live,
           OthersSame(t), Enters(t, k, w), Typed', pc[t] = "user",
           pc'[t] = "alloc", shares[w].next = None,
           shares' = [shares EXCEPT ![w].next = Owned],
           list_alloc' = list_alloc, list_free' = list_free, local' = local
    PROVE  Running'
<1>0. /\ Team' = Team /\ shareOf' = shareOf /\ region' = region /\ Live' = Live
      /\ at[t] + 1 = k /\ at'[t] = k /\ at[t] \in Nat /\ at'[t] >= at[t] /\ k \in Nat
      /\ last_work_share'[t] = w /\ w \in Shares
  BY OfThread, RegionKept, LiveShares DEF Enters, Running
<1>1. /\ Shares' = Shares /\ shares'[w].next = Owned
      /\ \A v \in Shares : /\ v # w => shares'[v].next = shares[v].next
                          /\ shares'[v].use = shares[v].use
  BY <1>0, SetNext DEF Running
<1>2. Follows(k, shares[w].use) /\ \A s \in Team : ~Allocates(s)
  <2>1. Follows(k, shares[w].use)
    BY DEF Enters, Follows
  <2> QED
    BY <1>0, <2>1, NoAllocator
<1>3. \A y \in Live : Follows(k, shares[y].use) => y = w
  BY <1>2 DEF Running, ChainInv, Unique, Follows
<1>4. \A s \in Team : ~Owner(s, w)
  BY <1>2, OfThread, ShareFacts DEF Owner, OwnersOf, Running
<1>5. Unique'
  BY <1>0, <1>1, LiveShares DEF Running, ChainInv, Unique
<1>6. ASSUME NEW y \in Live PROVE ChainOf(y)'
  <2>0. ChainOf(y) /\ y \in Shares /\ shares'[y].use = shares[y].use
    BY <1>1, LiveShares DEF Running, ChainInv
  <2>1. (/\ shares[y].use <= region.length /\ shareOf[shares[y].use] = shares[y].use
         /\ \E s \in Team : at[s] >= shares[y].use)'
    <3>1. PICK s \in Team : at[s] >= shares[y].use
      BY <2>0 DEF ChainOf
    <3>2. at'[s] >= shares[y].use
      BY <1>0, <3>1, OfThread, LiveShares DEF OthersSame, Running
    <3> QED
      BY <1>0, <2>0, <3>2 DEF ChainOf
  <2>2. (shares[y].next \in Shares =>
            shares[y].next \in Live /\ Follows(shares[shares[y].next].use, shares[y].use))'
    <3>1. CASE y = w
      BY <1>1, <3>1, ShareFacts DEF Running
    <3>2. CASE y # w /\ shares[y].next \in Shares
      <4>1. PICK z \in Shares : z = shares[y].next
        BY <3>2
      <4>2. z \in Live /\ Follows(shares[z].use, shares[y].use) /\ shares'[y].next = z
        BY <1>1, <2>0, <3>2, <4>1 DEF ChainOf
      <4>3. Follows(shares[z].use, shares[y].use)'
        BY <1>0, <1>1, <2>0, <4>2, RegionKept
      <4> QED
        BY <1>0, <4>2, <4>3
    <3>3. CASE y # w /\ shares[y].next \notin Shares
      BY <1>1, <2>0, <3>3
    <3> QED
      BY <3>1, <3>2, <3>3
  <2>3. (\A v \in Live : Follows(shares[v].use, shares[y].use) =>
           \/ shares[y].next = v
           \/ \E s \in Team : pc[s] = "share" /\ last_work_share[s] = y /\ work_share[s] = v)'
    <3> SUFFICES ASSUME NEW v \in Live, Follows(shares[v].use, shares[y].use)
                 PROVE  \/ shares'[y].next = v
                        \/ \E s \in Team : pc'[s] = "share" /\ last_work_share'[s] = y /\ work_share'[s] = v
      BY <1>0, <1>1, <2>0, LiveShares, RegionKept DEF Running
    <3>1. \/ shares[y].next = v
          \/ \E s \in Team : pc[s] = "share" /\ last_work_share[s] = y /\ work_share[s] = v
      BY <2>0 DEF ChainOf
    <3>2. y # w
      BY <1>4, <3>1, LiveShares, ShareFacts DEF Owner, Running
    <3> QED
      BY <1>1, <2>0, <3>1, <3>2 DEF OthersSame
  <2>4. (\A s \in Team, i \in 1..region.length :
           Follows(i, shares[y].use) /\ Beyond(s, i) =>
              /\ shares[y].next # None
              /\ shares[y].next = Owned =>
                    \E r \in Team : pc[r] = "share" /\ last_work_share[r] = y)'
    <3> SUFFICES ASSUME NEW s \in Team, NEW i \in 1..region.length,
                        Follows(i, shares[y].use), Beyond(s, i)'
                 PROVE  /\ shares'[y].next # None
                        /\ shares'[y].next = Owned =>
                              \E r \in Team : pc'[r] = "share" /\ last_work_share'[r] = y
      BY <1>0, <2>0, RegionKept
    <3>1. i \in Nat
      BY OfThread
    <3>2. Beyond(s, i)
      BY <3>1, EntersKeeps
    <3>3. /\ shares[y].next # None
          /\ shares[y].next = Owned =>
                \E r \in Team : pc[r] = "share" /\ last_work_share[r] = y
      BY <2>0, <3>2 DEF ChainOf
    <3> QED
      BY <1>1, <2>0, <3>3 DEF OthersSame
  <2> QED
    BY <2>1, <2>2, <2>3, <2>4 DEF ChainOf
<1>7. ASSUME NEW s \in Team PROVE OwnersOf(s)'
  <2>1. CASE s = t
    <3>1. \A r \in Team : Owner(r, w)' => r = t
      BY <1>4 DEF OthersSame, Owner, Allocates
    <3> QED
      BY <1>0, <1>1, <2>1, <3>1 DEF OwnersOf
  <2>2. CASE s # t /\ pc[s] = "wait"
    <3>1. /\ pc'[s] = pc[s] /\ last_work_share'[s] = last_work_share[s]
          /\ shares[last_work_share[s]].next # None /\ last_work_share[s] \in Shares
      BY <2>2, OfThread, UsesLive, LiveShares DEF OthersSame, OwnersOf, Running, Starting
    <3> QED
      BY <1>1, <2>2, <3>1, ShareFacts DEF OwnersOf, Allocates, Running
  <2>3. CASE s # t /\ pc[s] = "share"
    <3>1. /\ pc'[s] = pc[s] /\ last_work_share'[s] = last_work_share[s] /\ OwnersOf(s)
          /\ last_work_share[s] \in Shares /\ last_work_share[s] # w
      BY <1>4, <2>3, OfThread, UsesLive, LiveShares DEF OthersSame, Running, Starting, Owner
    <3>2. \A r \in Team : Owner(r, last_work_share[s])' => Owner(r, last_work_share[s])
      BY <1>0, <3>1 DEF OthersSame, Owner, Allocates
    <3> QED
      BY <1>0, <1>1, <2>3, <3>1, <3>2 DEF OwnersOf, Allocates
  <2>4. CASE s # t /\ pc[s] \notin {"wait", "share"}
    BY <1>2, <2>4 DEF OthersSame, OwnersOf, Allocates
  <2> QED
    BY <2>1, <2>2, <2>3, <2>4
<1>8. ChainInv'
  BY <1>0, <1>5, <1>6, <1>7, EntersKeeps DEF ChainInv
<1>9. ListInv'
  <2>1. \A v : InHand(v)' <=> InHand(v)
    BY <1>0 DEF InHand, OthersSame
  <2>2. Idle' = Idle
    BY <1>1, <2>1 DEF Idle
  <2>3. \A v \in Shares : shares[v].use = -1 => shares'[v].use = -1 /\ shares'[v].next = shares[v].next
    BY <1>1, LiveShares DEF Running
  <2>4. Lists'
    BY <2>2, <2>3, ListsKept DEF Running, ListInv, Idle
  <2>5. ASSUME NEW s \in Team PROVE HandOf(s)'
    <3>1. CASE s = t
      BY <3>1 DEF HandOf
    <3>2. CASE s # t
      <4>1. \A r \in Team : pc'[r] \in {"link", "cas"} =>
                pc[r] \in {"link", "cas"} /\ last_work_share'[r] = last_work_share[r]
        BY DEF OthersSame
      <4> QED
        BY <1>0, <1>1, <2>2, <2>3, <3>2, <4>1, OfThread, HandKept DEF OthersSame, Running
    <3> QED
      BY <3>1, <3>2
  <2>6. OneAllocates'
    BY <1>0, <1>2 DEF OneAllocates, OthersSame, Allocates
  <2> QED
    BY <1>0, <2>4, <2>5, <2>6 DEF ListInv
<1> QED
  BY <1>8, <1>9, EntersKeeps DEF Running

LEMMA StartKeeps ==
    ASSUME Running, NEW t \in Team, Start(t) PROVE Running'
<1>1. PICK k \in 1..region.length :
          /\ pc[t] = "user" /\ at[t] + 1 = k /\ at' = [at EXCEPT ![t] = k] /\ at'[t] = k
          /\ region.constructs[k] \in Kinds \ {"single"} /\ t \in Threads
  <2>1. /\ pc[t] = "user" /\ at[t] < region.length /\ at' = [at EXCEPT ![t] = at[t] + 1]
        /\ region.constructs[at'[t]] # "single" /\ at'[t] = at[t] + 1 /\ t \in Threads
    BY OfThread, ThreadMaps DEF Start, Enter, Running
  <2>2. at[t] + 1 \in 1..region.length
    BY <2>1, OfThread
  <2> QED
    BY <2>1, <2>2, RegionFacts DEF Running, Typed
<1>2. PICK w \in Live : w = work_share[t] /\ shares[w].use = shareOf[k - 1] /\ w \in Shares
                        /\ Follows(k, shares[w].use)
  <2>1. /\ work_share[t] \in Live /\ shares[work_share[t]].use = shareOf[at[t]] /\ at[t] = k - 1
    BY <1>1, UsesLive, OfThread DEF SharesOf, Starting, Running
  <2> QED
    BY <1>1, <2>1, LiveShares DEF Follows, Running
<1>3. /\ region' = region /\ local' = local
      /\ list_alloc' = list_alloc /\ list_free' = list_free /\ chunk' = chunk /\ to_free' = to_free
      /\ last_work_share' = [last_work_share EXCEPT ![t] = w] /\ last_work_share'[t] = w
      /\ awaited' = awaited /\ cancelled' = cancelled /\ got' = got
  BY <1>1, <1>2, ThreadMaps DEF Start, listVars, teamVars, Running
<1>4. \/ /\ shares[w].next = None /\ shares' = [shares EXCEPT ![w].next = Owned]
         /\ pc' = [pc EXCEPT ![t] = "alloc"] /\ work_share' = work_share /\ first' = first
      \/ /\ shares[w].next = Owned /\ shares' = shares
         /\ pc' = [pc EXCEPT ![t] = "wait"] /\ work_share' = work_share /\ first' = first
      \/ /\ shares[w].next \in Shares /\ shares' = shares
         /\ pc' = [pc EXCEPT ![t] = Joined(k)]
         /\ work_share' = [work_share EXCEPT ![t] = shares[w].next]
         /\ first' = [first EXCEPT ![t] = FALSE]
  BY <1>1, <1>2 DEF Start, Claim, Goto, Inside
<1>5. CASE shares[w].next = None /\ pc' = [pc EXCEPT ![t] = "alloc"]
  <2>1. /\ shares' = [shares EXCEPT ![w].next = Owned] /\ pc' = [pc EXCEPT ![t] = "alloc"]
        /\ work_share' = work_share /\ first' = first
    BY <1>4, <1>5, ShareFacts DEF Running
  <2>2. /\ Shares' = Shares /\ shares' \in [Shares -> ShareIn(Shares)] /\ shares'[w].next = Owned
        /\ \A v \in Shares : /\ shares'[v].use = shares[v].use
                             /\ shares'[v].completed = shares[v].completed
    BY <1>2, <2>1, SetNext DEF Running
  <2>3. pc'[t] = "alloc" /\ OthersSame(t)
    BY <1>1, <1>3, <2>1, ThreadMaps DEF OthersSame, Running
  <2>4. Typed'
    <3>1. /\ pc' \in [Threads -> PCs] /\ at' \in [Threads -> 0..region.length]
          /\ last_work_share' \in [Threads -> Shares \cup {None}]
      BY <1>1, <1>2, <1>3, <2>1, ThreadMaps, OfThread DEF Running, PCs
    <3> QED
      BY <1>3, <2>1, <2>2, <3>1 DEF Running, Typed
  <2>5. Live' = Live
    BY <2>2 DEF Live
  <2>6. Enters(t, k, w)
    BY <1>1, <1>2, <1>3, <2>2, <2>3, <2>5, LiveShares DEF Enters, Running
  <2> QED
    BY <1>1, <1>3, <1>5, <2>1, <2>3, <2>4, <2>6, ClaimKeeps
<1>6. CASE shares[w].next = Owned /\ pc' = [pc EXCEPT ![t] = "wait"]
  <2>1. shares' = shares /\ work_share' = work_share /\ first' = first
    BY <1>4, <1>6, ShareFacts DEF Running
  <2>3. pc'[t] = "wait" /\ OthersSame(t)
    BY <1>1, <1>3, <1>6, <2>1, ThreadMaps DEF OthersSame, Running
  <2>4. Typed'
    <3>1. /\ pc' \in [Threads -> PCs] /\ at' \in [Threads -> 0..region.length]
          /\ last_work_share' \in [Threads -> Shares \cup {None}]
      BY <1>1, <1>2, <1>3, <1>6, ThreadMaps, OfThread DEF Running, PCs
    <3> QED
      BY <1>3, <2>1, <3>1 DEF Running, Typed, Shares
  <2>6. Enters(t, k, w)
    BY <1>1, <1>2, <1>3, <2>1, <2>3, LiveShares DEF Enters, Running, Live, Shares
  <2> QED
    BY <1>1, <1>3, <1>6, <2>1, <2>3, <2>4, <2>6, FindKeeps, ShareFacts DEF Running
<1>7. CASE shares[w].next \in Shares
  <2>1. /\ shares' = shares /\ pc' = [pc EXCEPT ![t] = Joined(k)]
        /\ work_share' = [work_share EXCEPT ![t] = shares[w].next]
        /\ first' = [first EXCEPT ![t] = FALSE]
    BY <1>4, <1>7, ShareFacts DEF Running
  <2>2. PICK v \in Live : v = shares[w].next /\ v \in Shares /\ shares[v].use = k
    <3>1. shares[w].next \in Live /\ Follows(shares[shares[w].next].use, shares[w].use)
      BY <1>7 DEF Running, ChainInv, ChainOf
    <3>2. shares[shares[w].next].use = k
      BY <1>2, <3>1, FollowsOnce DEF Running, Typed
    <3> QED
      BY <1>7, <3>1, <3>2
  <2>3. Joined(k) \in {"work", "arrive"} /\ pc'[t] = Joined(k) /\ OthersSame(t) /\ work_share'[t] = v
    BY <1>1, <1>3, <2>1, <2>2, ThreadMaps DEF OthersSame, Running, Joined
  <2>4. Typed'
    <3>1. /\ pc' \in [Threads -> PCs] /\ at' \in [Threads -> 0..region.length]
          /\ last_work_share' \in [Threads -> Shares \cup {None}]
          /\ work_share' \in [Threads -> Shares] /\ first' \in [Threads -> BOOLEAN]
      BY <1>1, <1>2, <1>3, <2>1, <2>2, <2>3, ThreadMaps, OfThread DEF Running, PCs, Typed
    <3> QED
      BY <1>3, <2>1, <3>1 DEF Running, Typed, Shares
  <2>6. Enters(t, k, w)
    <3>1. /\ pc'[t] = "work" => region.constructs[k] \in {"loop", "nowait"}
          /\ pc'[t] = "arrive" => region.constructs[k] = "copy"
      BY <1>1, <2>3 DEF Joined, Kinds
    <3> QED
      BY <1>1, <1>2, <1>3, <2>1, <2>2, <2>3, <3>1, LiveShares DEF Enters, Running, Live, Shares
  <2> QED
    BY <1>1, <1>3, <1>7, <2>1, <2>3, <2>4, <2>6, FindKeeps
<1> QED
  BY <1>4, <1>5, <1>6, <1>7

LEMMA GetSlowKeeps ==
    ASSUME Running, NEW t \in Team, GetSlow(t) PROVE Running'
<1>1. PICK w \in Live : /\ w = last_work_share[t] /\ w \in Shares /\ pc[t] = "wait"
                        /\ Follows(at[t], shares[w].use) /\ t \in Threads
                        /\ shares[w].next \in Shares
  <2>1. /\ pc[t] = "wait" /\ last_work_share[t] \in Live /\ last_work_share[t] \in Shares
        /\ Follows(at[t], shares[last_work_share[t]].use)
        /\ shares[last_work_share[t]].next # None /\ shares[last_work_share[t]].next # Owned
    BY UsesLive, LiveShares, OfThread DEF GetSlow, Running, Starting, OwnersOf
  <2> QED
    BY <2>1, OfThread, ShareFacts DEF Running
<1>2. PICK k \in 1..region.length : /\ k = at[t] /\ shares[w].use = shareOf[k - 1]
                                    /\ region.constructs[k] \in Kinds \ {"single"}
  <2>1. at[t] \in 1..region.length /\ shareOf[at[t] - 1] = shares[w].use
        /\ region.constructs[at[t]] # "single"
    BY <1>1 DEF Follows
  <2>2. region.constructs[at[t]] \in Kinds
    BY <2>1, RegionFacts DEF Running, Typed
  <2> QED
    BY <2>1, <2>2
<1>3. PICK v \in Live : v = shares[w].next /\ v \in Shares /\ shares[v].use = k
  <2>1. shares[w].next \in Live /\ Follows(shares[shares[w].next].use, shares[w].use)
    BY <1>1 DEF Running, ChainInv, ChainOf
  <2>2. shares[shares[w].next].use = k
    BY <1>1, <1>2, <2>1, FollowsOnce DEF Running, Typed
  <2> QED
    BY <1>1, <2>1, <2>2
<1>4. /\ shares' = shares /\ pc' = [pc EXCEPT ![t] = Joined(k)]
      /\ work_share' = [work_share EXCEPT ![t] = v]
      /\ first' = [first EXCEPT ![t] = FALSE]
      /\ region' = region /\ at' = at /\ local' = local
      /\ list_alloc' = list_alloc /\ list_free' = list_free /\ chunk' = chunk /\ to_free' = to_free
      /\ last_work_share' = last_work_share
      /\ awaited' = awaited /\ cancelled' = cancelled /\ got' = got
  BY <1>1, <1>2, <1>3 DEF GetSlow, Inside, Goto, listVars, teamVars
<1>5. Joined(k) \in {"work", "arrive"} /\ pc'[t] = Joined(k) /\ OthersSame(t) /\ work_share'[t] = v
  BY <1>1, <1>4, ThreadMaps DEF OthersSame, Running, Joined
<1>6. Typed'
  <2>1. /\ pc' \in [Threads -> PCs] /\ work_share' \in [Threads -> Shares]
        /\ first' \in [Threads -> BOOLEAN]
    BY <1>3, <1>4, <1>5, ThreadMaps DEF Running, PCs, Typed
  <2> QED
    BY <1>4, <2>1 DEF Running, Typed, Shares
<1>7. Enters(t, k, w)
  <2>1. /\ pc'[t] = "work" => region.constructs[k] \in {"loop", "nowait"}
        /\ pc'[t] = "arrive" => region.constructs[k] = "copy"
    BY <1>2, <1>5 DEF Joined, Kinds
  <2> QED
    BY <1>1, <1>2, <1>3, <1>4, <1>5, <2>1, LiveShares DEF Enters, Running, Live, Shares
<1> QED
  BY <1>1, <1>4, <1>5, <1>6, <1>7, FindKeeps
-----------------------------------------------------------------------------
(* The end of the team, where only the chain that is left is finished.     *)

EndedInv == /\ Typed /\ AllOver /\ Unique
            /\ pc[Master] = "fini" => local[Master] \in Shares

LEMMA TeamEndKeeps == ASSUME Running, TeamEnd PROVE Ended' /\ EndedInv'
<1>0. /\ region' = region /\ at' = at /\ work_share' = work_share
      /\ list_alloc' = list_alloc /\ list_free' = list_free /\ chunk' = chunk /\ to_free' = to_free
      /\ last_work_share' = last_work_share /\ first' = first /\ got' = got
      /\ awaited' = awaited /\ cancelled' = cancelled /\ Team' = Team
      /\ Master \in Team /\ Master \in Threads /\ to_free \in Shares
  BY RegionKept, RegionFacts, ShareFacts
     DEF TeamEnd, listVars, teamVars, shareVars, Running, Typed
<1>1. CASE cancelled
  <2>1. /\ local' = [local EXCEPT ![Master] = to_free] /\ shares' = shares
        /\ pc' = [t \in Threads |-> IF t = Master THEN "fini" ELSE "over"]
    BY <1>1 DEF TeamEnd
  <2>2. Typed'
    <3>1. pc' \in [Threads -> PCs] /\ local' \in [Threads -> Shares \cup {None}]
      BY <1>0, <2>1, ThreadMaps DEF Running, PCs
    <3> QED
      BY <1>0, <2>1, <3>1 DEF Running, Typed, Shares
  <2>3. AllOver' /\ Ended' /\ local'[Master] \in Shares'
    BY <1>0, <2>1, ThreadMaps DEF AllOver, Ended, Running, Shares
  <2>4. Unique'
    BY <2>1 DEF Running, ChainInv, Unique, Live, Shares
  <2> QED
    BY <2>2, <2>3, <2>4 DEF EndedInv
<1>2. CASE ~cancelled
  <2>1. PICK w \in Shares : w = work_share[Master]
    BY <1>0, ShareFacts DEF Running
  <2>2. /\ local' = local /\ shares' = [shares EXCEPT ![w].use = -1]
        /\ pc' = [t \in Threads |-> "over"]
    BY <1>2, <2>1 DEF TeamEnd
  <2>3. /\ Shares' = Shares /\ shares' \in [Shares -> ShareIn(Shares)] /\ shares'[w].use = -1
        /\ \A v \in Shares : v # w => shares'[v].use = shares[v].use
    BY <2>2, SetUse DEF Running
  <2>4. Typed'
    <3>1. pc' \in [Threads -> PCs]
      BY <2>2 DEF PCs
    <3> QED
      BY <1>0, <2>2, <2>3, <3>1 DEF Running, Typed
  <2>5. AllOver' /\ Ended' /\ pc'[Master] # "fini"
    BY <1>0, <2>2, ThreadMaps DEF AllOver, Ended, Running
  <2>6. Unique'
    BY <2>3 DEF Running, ChainInv, Unique, Live
  <2> QED
    BY <2>4, <2>5, <2>6 DEF EndedInv
<1> QED
  BY <1>1, <1>2

LEMMA FiniChainKeeps == ASSUME EndedInv, FiniChain PROVE Ended' /\ EndedInv'
<1>0. /\ region' = region /\ at' = at /\ work_share' = work_share
      /\ list_alloc' = list_alloc /\ list_free' = list_free /\ chunk' = chunk /\ to_free' = to_free
      /\ last_work_share' = last_work_share /\ first' = first /\ got' = got
      /\ awaited' = awaited /\ cancelled' = cancelled /\ Team' = Team
      /\ Master \in Team /\ Master \in Threads /\ pc[Master] = "fini"
  BY RegionKept, RegionFacts
     DEF FiniChain, listVars, teamVars, singleVars, shareVars, EndedInv, Typed
<1>1. PICK w \in Shares : w = local[Master]
  BY <1>0 DEF EndedInv
<1>2. PICK next \in Shares \cup {None} : next = shares[w].next
  BY <1>1, ShareFacts DEF FiniChain, EndedInv
<1>3. PICK z \in Shares : z = IF next = None THEN w ELSE next
  BY <1>1, <1>2
<1>4. /\ shares' = [shares EXCEPT ![w].use = -1, ![w].next = z]
      /\ local' = [local EXCEPT ![Master] = next]
      /\ pc' = [pc EXCEPT ![Master] = IF next = None THEN "over" ELSE "fini"]
      /\ local'[Master] = next /\ pc'[Master] = IF next = None THEN "over" ELSE "fini"
  BY <1>0, <1>1, <1>2, <1>3, ThreadMaps DEF FiniChain, Goto, EndedInv
<1>5. /\ Shares' = Shares /\ shares' \in [Shares -> ShareIn(Shares)]
      /\ \A v \in Shares : v # w => shares'[v].use = shares[v].use
      /\ shares'[w].use = -1
  <2> DEFINE r == [shares[w] EXCEPT !.use = -1, !.next = z]
  <2>1. shares[w] \in ShareIn(Shares)
    BY ShareFacts DEF EndedInv
  <2>2. r \in ShareIn(Shares) /\ r.use = -1
    BY <2>1 DEF ShareIn
  <2>3. shares' = [shares EXCEPT ![w] = r]
    BY <1>4
  <2>4. shares \in [Shares -> ShareIn(Shares)]
    BY DEF EndedInv, Typed
  <2> HIDE DEF r
  <2> QED
    BY <2>2, <2>3, <2>4 DEF Shares
<1>6. Typed'
  <2>1. pc' \in [Threads -> PCs] /\ local' \in [Threads -> Shares \cup {None}]
    BY <1>2, <1>4, ThreadMaps DEF EndedInv, PCs
  <2> QED
    BY <1>0, <1>5, <2>1 DEF EndedInv, Typed
<1>7. AllOver' /\ Ended'
  BY <1>0, <1>4, ThreadMaps DEF EndedInv, AllOver, Ended
<1>8. Unique'
  BY <1>5 DEF EndedInv, Unique, Live
<1>9. (pc[Master] = "fini" => local[Master] \in Shares)'
  BY <1>2, <1>4, <1>5
<1> QED
  BY <1>6, <1>7, <1>8, <1>9 DEF EndedInv
-----------------------------------------------------------------------------
(* The invariant holds in every state.                                     *)

LEMMA ShareInitInv == ShareInit => ShareInv
<1> SUFFICES ASSUME ShareInit PROVE ShareInv
  OBVIOUS
<1>0. /\ region \in Regions /\ Inline \in Nat /\ Inline >= 2
      /\ region.length \in Nat /\ Master \in Team /\ Team \subseteq Threads
      /\ None \notin Nat /\ Owned \notin Nat /\ None # Owned
  BY InlineAssumption, NamesAssumption, RegionFacts DEF ShareInit
<1>1. /\ Shares = 0..Inline - 1
      /\ shares \in [Shares -> ShareIn(Shares)]
      /\ shares[0].use = 0 /\ shares[0].next = None /\ shares[0].completed = 0
      /\ \A w \in 1..Inline - 1 :
            /\ w \in Shares /\ shares[w].use = -1
            /\ w < Inline - 1 => shares[w].next = w + 1
            /\ w = Inline - 1 => shares[w].next = None
  <2> DEFINE B == Block(0, Inline - 1)
             S == 0..Inline - 1
             r == [Fresh(None) EXCEPT !.use = 0]
  <2>1. r \in ShareIn(S) /\ r.use = 0 /\ r.next = None /\ r.completed = 0
    BY DEF Fresh, ShareIn
  <2>2. ASSUME NEW w \in S
        PROVE  B[w] \in ShareIn(S) /\ B[w].use = -1
               /\ (w < Inline - 1 => B[w].next = w + 1)
               /\ (w = Inline - 1 => B[w].next = None)
    <3>1. B[w] = Fresh(IF w < Inline - 1 THEN w + 1 ELSE None)
      BY DEF Block
    <3>2. CASE w < Inline - 1
      <4>1. w + 1 \in S /\ B[w] = Fresh(w + 1)
        BY <1>0, <3>1, <3>2
      <4> QED
        BY <3>2, <4>1 DEF Fresh, ShareIn
    <3>3. CASE ~(w < Inline - 1)
      <4>1. B[w] = Fresh(None) /\ w = Inline - 1
        BY <1>0, <3>1, <3>3
      <4> QED
        BY <3>3, <4>1 DEF Fresh, ShareIn
    <3> QED
      BY <3>2, <3>3
  <2>3. shares = [B EXCEPT ![0] = r] /\ 0 \in S /\ B = [w \in S |-> B[w]]
    BY <1>0 DEF ShareInit, Block
  <2>4. \A w \in 1..Inline - 1 : w \in S /\ w # 0
    BY <1>0
  <2> HIDE DEF B, r, S
  <2>5. DOMAIN shares = S
    BY <2>3
  <2>6. shares[0] = r /\ \A w \in S : w # 0 => shares[w] = B[w]
    BY <2>3
  <2>7. shares \in [S -> ShareIn(S)]
    BY <2>1, <2>2, <2>3, <2>5, <2>6
  <2> QED
    BY <2>1, <2>2, <2>4, <2>5, <2>6, <2>7 DEF Shares, S
<1>2. /\ \A t \in Threads : /\ pc[t] = IF region.constructs[0] = "none" THEN "user" ELSE "work"
                            /\ at[t] = 0 /\ work_share[t] = 0 /\ last_work_share[t] = None
      /\ list_alloc = 1 /\ list_free = None /\ awaited = 0 /\ cancelled = FALSE
  BY DEF ShareInit
<1>3. Typed
  <2>1. /\ pc \in [Threads -> PCs] /\ at \in [Threads -> 0..region.length]
        /\ work_share \in [Threads -> Shares]
        /\ last_work_share \in [Threads -> Shares \cup {None}]
        /\ first \in [Threads -> BOOLEAN]
        /\ local \in [Threads -> Shares \cup {None}]
        /\ got \in [Threads -> Nat \cup {None}]
    BY <1>0, <1>1 DEF ShareInit, PCs
  <2>2. \E n \in Shares : n \in Nat /\ Shares = 0..n
    BY <1>0, <1>1
  <2>3. /\ list_alloc \in Shares \cup {None} /\ list_free \in Shares \cup {None}
        /\ to_free \in Shares /\ chunk \in Nat \ {0} /\ awaited \in Nat /\ cancelled \in BOOLEAN
    <3>1. 0 \in Shares /\ 1 \in Shares /\ Inline \in Nat \ {0}
      BY <1>0, <1>1
    <3>2. to_free = 0 /\ chunk = Inline
      BY DEF ShareInit
    <3> QED
      BY <1>2, <3>1, <3>2
  <2> QED
    BY <1>0, <1>1, <2>1, <2>2, <2>3 DEF Typed
<1>4. Live = {0}
  BY <1>0, <1>1 DEF Live
<1>5. \A t \in Team : /\ t \in Threads /\ pc[t] \in {"user", "work"} /\ at[t] = 0
                      /\ pc[t] = "work" <=> region.constructs[0] # "none"
                      /\ Construct(t) = region.constructs[0]
  BY <1>0, <1>2 DEF Construct
<1>6. ChainInv
  <2>1. 0 \in 0..region.length /\ shareOf[0] = 0
    <3>1. 0 \in 0..region.length
      BY <1>0
    <3>2. shareOf[0] \in 0..0
      BY <1>0, <3>1, ShareOfFacts
    <3> QED
      BY <3>1, <3>2
  <2>2. ChainOf(0)
    BY <1>0, <1>1, <1>4, <1>5, <2>1, ShareFacts, <1>3 DEF ChainOf, Follows, Beyond
  <2>3. Unique
    BY <1>4 DEF Unique
  <2>4. ASSUME NEW t \in Team PROVE PlaceOf(t) /\ OwnersOf(t) /\ SharesOf(t)
    <3>1. region.constructs[0] \in {"loop", "nowait", "none"}
      BY <1>0, RegionFacts
    <3>2. PlaceOf(t)
      BY <1>2, <1>5, <3>1 DEF PlaceOf, Starting, Frees
    <3>3. OwnersOf(t)
      BY <1>5 DEF OwnersOf, Allocates
    <3>4. SharesOf(t)
      BY <1>1, <1>2, <1>5, <2>1 DEF SharesOf, Starting
    <3> QED
      BY <3>2, <3>3, <3>4
  <2> QED
    BY <1>4, <2>2, <2>3, <2>4 DEF ChainInv
<1>7. FreeInv
  <2>1. \A t \in Team : ~Frees(t) /\ FreeingOf(t)
    BY <1>5 DEF Frees, FreeingOf
  <2>2. CountOf(0)
    BY <1>0, <1>1 DEF CountOf, Counted
  <2>3. Needed(0)
    BY <1>0, <1>5 DEF Needed, Passed
  <2> QED
    BY <1>4, <2>1, <2>2, <2>3 DEF FreeInv, OneFrees
<1>8. BarrierInv
  <2>1. \A t \in Team : ~Arrived(t) /\ ~Opens(t)
    BY <1>5 DEF Arrived, Opens, Frees
  <2>2. {t \in Team : Arrived(t)} = {}
    BY <2>1
  <2>3. \A s, t \in Team, b \in Barriers : Behind(s, b) => Behind(t, b)
    BY <1>5 DEF Behind, Frees
  <2> QED
    BY <1>2, <2>1, <2>2, <2>3, FS_EmptySet DEF BarrierInv
<1>9. ListInv
  <2>1. \A w : ~InHand(w)
    BY <1>5 DEF InHand
  <2>2. Idle = 1..Inline - 1
    BY <1>0, <1>1, <2>1 DEF Idle
  <2>3. Lists
    BY <1>0, <1>1, <1>2, <2>2 DEF Lists
  <2>4. \A t \in Team : HandOf(t) /\ ~Allocates(t)
    BY <1>5 DEF HandOf, Allocates
  <2> QED
    BY <2>3, <2>4 DEF ListInv, OneAllocates
<1>10. ~Ended
  BY <1>0, <1>5 DEF Ended
<1> QED
  BY <1>3, <1>6, <1>7, <1>8, <1>9, <1>10 DEF ShareInv

LEMMA NotEnded == Running => ~Ended
BY RegionFacts DEF Running, Typed, ChainInv, PlaceOf, Ended

LEMMA StepKeeps ==
    ASSUME Running, NEW t \in Team, ShareStep(t) \/ Cancel(t)
    PROVE  Running' /\ ~Ended'
<1>1. Running'
  <2>1. ShareStep(t) \/ Cancel(t)
    OBVIOUS
  <2>2. CASE Start(t) \/ GetSlow(t) \/ Alloc(t) \/ Take(t) \/ Malloc(t)
    BY <2>2, StartKeeps, GetSlowKeeps, AllocKeeps, TakeKeeps, MallocKeeps
  <2>3. CASE InitWorkShare(t) \/ InitDone(t) \/ EndNowait(t) \/ Arrive(t) \/ Retire(t)
    BY <2>3, InitWorkShareKeeps, InitDoneKeeps, EndNowaitKeeps, ArriveKeeps, RetireKeeps
  <2>4. CASE Link(t) \/ Push(t) \/ Open(t) \/ Leave(t) \/ CopyEnd(t)
    BY <2>4, LinkKeeps, PushKeeps, OpenKeeps, LeaveKeeps, CopyEndKeeps
  <2>5. CASE Single(t) \/ WakeCancelled(t) \/ CancellationPoint(t) \/ RegionEnd(t) \/ Cancel(t)
    BY <2>5, SingleKeeps, WakeCancelledKeeps, CancelKeeps, RegionEndKeeps DEF CancellationPoint
  <2> QED
    BY <2>1, <2>2, <2>3, <2>4, <2>5 DEF ShareStep
<1>2. (Running => ~Ended)'
  BY NotEnded, PTL
<1> QED
  BY <1>1, <1>2

\* When the team has ended, its threads do nothing.
LEMMA NobodySteps ==
    ASSUME EndedInv, NEW t \in Team, ShareStep(t) \/ Cancel(t)
    PROVE  FALSE
<1>1. pc[t] \in {"fini", "over"}
  BY DEF EndedInv, AllOver
<1>2. ~(Start(t) \/ GetSlow(t) \/ Alloc(t) \/ Take(t) \/ Malloc(t) \/ InitWorkShare(t))
  BY <1>1 DEF Start, Enter, GetSlow, Alloc, Take, Malloc, InitWorkShare
<1>3. ~(InitDone(t) \/ EndNowait(t) \/ Arrive(t) \/ Retire(t) \/ Link(t) \/ Push(t))
  BY <1>1 DEF InitDone, EndNowait, Arrive, Retire, Link, Push
<1>4. ~(Open(t) \/ Leave(t) \/ CopyEnd(t) \/ Single(t) \/ WakeCancelled(t))
  BY <1>1 DEF Open, Leave, CopyEnd, Single, Enter, WakeCancelled
<1>5. ~(Cancel(t) \/ CancellationPoint(t) \/ RegionEnd(t))
  BY <1>1 DEF Cancel, CancellationPoint, RegionEnd
<1> QED
  BY <1>2, <1>3, <1>4, <1>5 DEF ShareStep

LEMMA ShareStutter == ShareInv /\ UNCHANGED workVars => ShareInv'
<1> SUFFICES ASSUME ShareInv, UNCHANGED workVars PROVE ShareInv'
  OBVIOUS
<1>0. /\ region' = region /\ shares' = shares /\ at' = at /\ pc' = pc /\ local' = local
      /\ list_alloc' = list_alloc /\ list_free' = list_free /\ chunk' = chunk /\ to_free' = to_free
      /\ work_share' = work_share /\ last_work_share' = last_work_share
      /\ awaited' = awaited /\ cancelled' = cancelled /\ first' = first /\ got' = got
  BY DEF workVars, listVars, teamVars, singleVars, shareVars
<1>1. Typed'
  BY <1>0 DEF ShareInv, Typed, Shares
<1>2. (Ended' <=> Ended) /\ (AllOver' <=> AllOver) /\ (Unique' <=> Unique) /\ Shares' = Shares
      /\ Team' = Team /\ shareOf' = shareOf /\ Live' = Live /\ Counted' = Counted
      /\ Barriers' = Barriers
  BY <1>0, RegionKept DEF Ended, AllOver, Unique, Shares, Live, Team
<1>3. ChainInv => ChainInv'
  BY <1>0, <1>2 DEF ChainInv, ChainOf, Follows, Beyond, PlaceOf, OwnersOf, SharesOf, Owner,
     Allocates, Frees, Construct
<1>4. \A t \in Team : (Frees(t)' <=> Frees(t)) /\ (Construct(t)' = Construct(t))
  BY <1>0 DEF Frees, Construct
<1>5. FreeInv => FreeInv'
  <2>1. \A k : SureSet(k)' = SureSet(k) /\ MaybeSet(k)' = MaybeSet(k)
    BY <1>0, <1>2 DEF SureSet, MaybeSet, Sure, Maybe
  <2>2. \A w \in Live : (CountOf(w) => CountOf(w)') /\ (Needed(w) => Needed(w)')
    BY <1>0, <1>2, <2>1 DEF CountOf, Needed, Follows, Passed, Construct
  <2>3. \A t \in Team : FreeingOf(t) => FreeingOf(t)'
    BY <1>0, <1>2, <1>4 DEF FreeingOf
  <2> QED
    BY <1>2, <1>4, <2>2, <2>3 DEF FreeInv, OneFrees
<1>6. BarrierInv => BarrierInv'
  <2>1. /\ \A t : (Arrived(t)' <=> Arrived(t)) /\ (Opens(t)' <=> Opens(t))
        /\ \A t, b : Behind(t, b)' <=> Behind(t, b)
    BY <1>0 DEF Arrived, Opens, Behind, Frees, Construct
  <2>2. Missing' = Missing /\ {t \in Team : Arrived(t)}' = {t \in Team : Arrived(t)}
    BY <1>0, <1>2, <2>1 DEF Missing
  <2> QED
    BY <1>0, <1>2, <2>1, <2>2 DEF BarrierInv
<1>7. ListInv => ListInv'
  <2>1. Idle' = Idle
    BY <1>0, <1>2 DEF Idle, InHand
  <2>2. Lists => Lists'
    BY <1>0, <2>1 DEF Lists
  <2>3. \A t \in Team : HandOf(t) => HandOf(t)'
    BY <1>0, <1>2, <2>1 DEF HandOf
  <2> QED
    BY <1>0, <1>2, <2>2, <2>3 DEF ListInv, OneAllocates, Allocates
<1> QED
  BY <1>0, <1>1, <1>2, <1>3, <1>5, <1>6, <1>7 DEF ShareInv

LEMMA ShareNextInv == ShareInv /\ [ShareNext]_workVars => ShareInv'
<1> SUFFICES ASSUME ShareInv, ShareNext PROVE ShareInv'
  BY ShareStutter
<1>1. CASE ~Ended
  <2>1. Running
    BY <1>1 DEF ShareInv, Running
  <2>2. ~FiniChain
    BY <1>1 DEF FiniChain, Ended
  <2>3. ASSUME NEW t \in Team, ShareStep(t) \/ Cancel(t) PROVE ShareInv'
    BY <2>1, <2>3, StepKeeps DEF ShareInv, Running
  <2>4. CASE TeamEnd
    BY <2>1, <2>4, TeamEndKeeps DEF ShareInv, EndedInv
  <2> QED
    BY <2>2, <2>3, <2>4 DEF ShareNext
<1>2. CASE Ended
  <2>1. EndedInv
    BY <1>2 DEF ShareInv, EndedInv
  <2>2. ~TeamEnd
    <3>1. Master \in Team
      BY <2>1, RegionFacts DEF EndedInv, Typed
    <3> QED
      BY <1>2, <3>1 DEF TeamEnd, Ended
  <2>3. CASE FiniChain
    BY <2>1, <2>3, FiniChainKeeps DEF ShareInv, EndedInv
  <2> QED
    BY <2>1, <2>2, <2>3, NobodySteps DEF ShareNext
<1> QED
  BY <1>1, <1>2

\* In every reachable state the chain of work shares is whole, a share is counted
\* and freed as the threads pass it, the barrier counts who waits, and the lists
\* hold what nobody uses.
THEOREM SharesInvariant == ShareSpec => []ShareInv
<1>1. ShareInit => ShareInv
  BY ShareInitInv
<1>2. ShareInv /\ [ShareNext]_workVars => ShareInv'
  BY ShareNextInv
<1> QED
  BY <1>1, <1>2, PTL DEF ShareSpec
-----------------------------------------------------------------------------
LEMMA ShareOfOf ==
    ASSUME region \in Regions, NEW k \in 0..region.length
    PROVE  shareOf[k] = ShareOf(k)
BY DEF shareOf

\* gomp_work_share_start: threads find the same share for the same construct,
\* however far apart they are in the region.
THEOREM SharesFound == ShareSpec => []SharesAgree
<1>1. ShareInv => SharesAgree
  <2> SUFFICES ASSUME ShareInv PROVE SharesAgree
    OBVIOUS
  <2>1. CASE Ended
    BY <2>1 DEF ShareInv, AllOver, Unique, SharesAgree, Starting
  <2>2. CASE ~Ended
    <3>1. Running
      BY <2>2 DEF ShareInv, Running
    <3>2. ASSUME NEW t \in Team
          PROVE  /\ pc[t] \notin Starting \cup {"end", "fini", "over"} =>
                       shares[work_share[t]].use = ShareOf(at[t])
                 /\ pc[t] \in Starting \cup {"share"} =>
                       shares[last_work_share[t]].use = ShareOf(at[t] - 1)
      <4>1. pc[t] \notin Starting \cup {"end", "fini", "over"} =>
               shares[work_share[t]].use = ShareOf(at[t])
        <5>1. at[t] \in 0..region.length
          BY <3>1, OfThread
        <5>2. shareOf[at[t]] = ShareOf(at[t])
          BY <5>1, ShareOfOf DEF ShareInv, Typed
        <5> QED
          BY <3>1, <5>2, OfThread DEF SharesOf
      <4>2. ASSUME pc[t] \in Starting \cup {"share"}
            PROVE  shares[last_work_share[t]].use = ShareOf(at[t] - 1)
        <5>1. at[t] - 1 \in 0..region.length
          BY <3>1, <4>2, OfThread DEF PlaceOf
        <5>2. shareOf[at[t] - 1] = ShareOf(at[t] - 1)
          BY <5>1, ShareOfOf DEF ShareInv, Typed
        <5> QED
          BY <3>1, <4>2, <5>2, OfThread DEF SharesOf
      <4> QED
        BY <4>1, <4>2
    <3> QED
      BY <3>1, <3>2 DEF SharesAgree, Running, ChainInv, Unique
  <2> QED
    BY <2>1, <2>2
<1> QED
  BY <1>1, SharesInvariant, PTL

\* alloc_work_share and free_work_share: one thread allocates at a time and one
\* frees, though neither holds a lock of the lists.
THEOREM OneOnEachSide == ShareSpec => [](OneAllocates /\ OneFrees)
<1>1. ShareInv => OneAllocates /\ OneFrees
  <2>1. ShareInv /\ Ended => OneAllocates /\ OneFrees
    BY DEF ShareInv, AllOver, OneAllocates, OneFrees, Allocates, Frees
  <2>2. ShareInv /\ ~Ended => OneAllocates /\ OneFrees
    BY DEF ShareInv, ListInv, FreeInv
  <2> QED
    BY <2>1, <2>2
<1> QED
  BY <1>1, SharesInvariant, PTL

\* The share that a thread is about to free was not freed before; no other thread
\* has it as its own or finds the next one through it.
FreedIsLeft ==
    \A t \in Team : pc[t] = "retire" =>
        /\ last_work_share[t] \in Live
        /\ \A s \in Team \ {t} :
              /\ pc[s] \notin Starting \cup {"end"} => work_share[s] # last_work_share[t]
              /\ pc[s] \in Starting \cup {"share"} => last_work_share[s] # last_work_share[t]

\* gomp_work_share_end, gomp_work_share_end_nowait: the share before the last
\* thread's own is freed when every other thread has left it behind.
THEOREM FreedWhenLeft == ShareSpec => []FreedIsLeft
<1>1. ShareInv => FreedIsLeft
  <2> SUFFICES ASSUME ShareInv, NEW t \in Team, pc[t] = "retire"
               PROVE  /\ last_work_share[t] \in Live
                      /\ \A s \in Team \ {t} :
                            /\ pc[s] \notin Starting \cup {"end"} =>
                                  work_share[s] # last_work_share[t]
                            /\ pc[s] \in Starting \cup {"share"} =>
                                  last_work_share[s] # last_work_share[t]
    BY DEF FreedIsLeft
  <2>1. Running
    BY DEF ShareInv, Running, Ended, AllOver
  <2>2. PICK k \in 1..region.length : k = at[t] /\ k \in Nat /\ shareOf[k] = k
    <3>1. at[t] \in 1..region.length /\ shareOf[at[t]] = at[t]
      BY <2>1, OfThread, OwnShare DEF PlaceOf, Frees, Starting
    <3> QED
      BY <2>1, <3>1, OfThread
  <2>3. /\ last_work_share[t] \in Shares
        /\ shares[last_work_share[t]].use = shareOf[k - 1]
    BY <2>1, <2>2, OfThread DEF SharesOf, Starting
  <2>4. /\ shareOf[k - 1] \in Nat /\ shareOf[k - 1] < k
        /\ \A i \in 0..region.length : i >= k => shareOf[i] \in Nat /\ shareOf[i] >= k
    <3>1. shareOf[k - 1] \in 0..(k - 1)
      BY <2>1, <2>2, OfThread, ShareOfFacts DEF Running, Typed
    <3>2. \A i \in 0..region.length : i >= k => shareOf[i] \in Nat /\ shareOf[i] >= k
      BY <2>1, <2>2, OfThread, ShareOfFacts, OfEarlier DEF Running, Typed
    <3> QED
      BY <2>2, <3>1, <3>2
  <2>5. ASSUME NEW s \in Team \ {t}
        PROVE  /\ pc[s] \notin Starting \cup {"end"} => work_share[s] # last_work_share[t]
               /\ pc[s] \in Starting \cup {"share"} => last_work_share[s] # last_work_share[t]
    <3>1. \/ at[s] > k
          \/ at[s] = k /\ pc[s] \in {"user", "end", "asleep"}
      BY <2>1, <2>2, AllThrough
    <3>2. ASSUME pc[s] \notin Starting \cup {"end"} PROVE work_share[s] # last_work_share[t]
      <4>1. at[s] \in 0..region.length /\ at[s] >= k
        BY <2>1, <2>2, <3>1, OfThread
      <4>2. shares[work_share[s]].use = shareOf[at[s]]
        BY <2>1, <3>2, OfThread DEF SharesOf
      <4>3. shareOf[at[s]] # shareOf[k - 1]
        BY <2>2, <2>4, <4>1
      <4> QED
        BY <2>3, <4>2, <4>3
    <3>3. ASSUME pc[s] \in Starting \cup {"share"} PROVE last_work_share[s] # last_work_share[t]
      <4>1. at[s] - 1 \in 0..region.length /\ at[s] - 1 >= k
        BY <2>1, <2>2, <3>1, <3>3, OfThread DEF Starting
      <4>2. shares[last_work_share[s]].use = shareOf[at[s] - 1]
        BY <2>1, <3>3, OfThread DEF SharesOf
      <4>3. shareOf[at[s] - 1] # shareOf[k - 1]
        BY <2>2, <2>4, <4>1
      <4> QED
        BY <2>3, <4>2, <4>3
    <3> QED
      BY <3>2, <3>3
  <2>6. last_work_share[t] \in Live
    BY <2>1, <2>3, <2>4, LiveShares DEF Running
  <2> QED
    BY <2>5, <2>6
<1> QED
  BY <1>1, SharesInvariant, PTL
-----------------------------------------------------------------------------
(* single: who executes it, and whose data the others get.                 *)

Singles(k) == Cardinality({j \in 1..k : region.constructs[j] = "single"})

\* A thread's count is that of the single constructs behind it, and the team's
\* that of the thread that is ahead.
SingleInv ==
    /\ region \in Regions
    /\ ran \in [0..region.length -> SUBSET Team]
    /\ single_count \in Nat /\ my_singles \in [Threads -> Nat]
    /\ at \in [Threads -> 0..region.length]
    /\ \A t \in Team : my_singles[t] = Singles(at[t])
    /\ \E s \in Team : single_count = Singles(at[s]) /\ \A t \in Team : at[t] <= at[s]
    /\ \A k \in 1..region.length : region.constructs[k] = "single" =>
          \/ ran[k] = {} /\ \A t \in Team : at[t] < k
          \/ (\E t \in Team : ran[k] = {t}) /\ \E t \in Team : at[t] >= k

\* Until the data of a copyprivate single are in its share, a thread executes it.
Data(w) ==
    region.constructs[shares[w].use] = "copy" =>
        \/ shares[w].copyprivate = shares[w].use
        \/ \E t \in Team : at[t] = shares[w].use /\ pc[t] \in {"share", "execute"}

CopyInv ==
    /\ \A w \in Live : Data(w)
    /\ \A t \in Team : pc[t] = "nowait" /\ ~first[t] => got[t] = at[t]

LEMMA SinglesFacts ==
    ASSUME region \in Regions
    PROVE  /\ Singles(0) = 0
           /\ \A k \in 0..region.length : Singles(k) \in Nat
           /\ \A k \in 1..region.length :
                 /\ region.constructs[k] = "single" => Singles(k) = Singles(k - 1) + 1
                 /\ region.constructs[k] # "single" => Singles(k) = Singles(k - 1)
           /\ \A j, k \in 0..region.length : j <= k => Singles(j) <= Singles(k)
<1> DEFINE S(k) == {j \in 1..k : region.constructs[j] = "single"}
<1>0. region.length \in Nat
  BY RegionFacts
<1>1. \A k \in Nat : IsFiniteSet(S(k)) /\ Cardinality(S(k)) \in Nat
  <2> SUFFICES ASSUME NEW k \in Nat PROVE IsFiniteSet(S(k)) /\ Cardinality(S(k)) \in Nat
    OBVIOUS
  <2>1. IsFiniteSet(1..k)
    BY FS_Interval
  <2>2. S(k) \subseteq 1..k
    OBVIOUS
  <2> QED
    BY <2>1, <2>2, FS_Subset, FS_CardinalityType
<1>2. \A j, k \in Nat : j <= k => Cardinality(S(j)) <= Cardinality(S(k))
  <2> SUFFICES ASSUME NEW j \in Nat, NEW k \in Nat, j <= k
               PROVE  Cardinality(S(j)) <= Cardinality(S(k))
    OBVIOUS
  <2>1. S(j) \subseteq S(k)
    OBVIOUS
  <2> QED
    BY <1>1, <2>1, FS_Subset
<1>3. S(0) = {}
  OBVIOUS
<1>4. ASSUME NEW k \in 1..region.length
      PROVE  /\ region.constructs[k] = "single" => Cardinality(S(k)) = Cardinality(S(k - 1)) + 1
             /\ region.constructs[k] # "single" => Cardinality(S(k)) = Cardinality(S(k - 1))
  <2>1. k \in Nat /\ k - 1 \in Nat /\ k \notin S(k - 1) /\ IsFiniteSet(S(k - 1))
    BY <1>0, <1>1
  <2>2. region.constructs[k] = "single" => S(k) = S(k - 1) \cup {k}
    BY <2>1
  <2>3. region.constructs[k] # "single" => S(k) = S(k - 1)
    BY <2>1
  <2> HIDE DEF S
  <2>4. Cardinality(S(k - 1) \cup {k}) = Cardinality(S(k - 1)) + 1
    BY <2>1, FS_AddElement
  <2> QED
    BY <2>2, <2>3, <2>4
<1>5. \A k : Singles(k) = Cardinality(S(k))
  BY DEF Singles
<1> HIDE DEF S
<1>6. \A k \in 0..region.length : k \in Nat
  BY <1>0
<1>7. Cardinality(S(0)) = 0
  BY <1>3, FS_EmptySet
<1> QED
  BY <1>1, <1>2, <1>4, <1>5, <1>6, <1>7

LEMMA SingleInit == ShareInit => SingleInv
<1> SUFFICES ASSUME ShareInit PROVE SingleInv
  OBVIOUS
<1>1. region \in Regions /\ region.length \in Nat /\ Team \subseteq Threads /\ Master \in Team
  BY RegionFacts DEF ShareInit
<1>2. DOMAIN region.constructs = 0..region.length
  BY <1>1, RegionsAssumption
<1>3. /\ \A t \in Team : at[t] = 0 /\ my_singles[t] = 0
      /\ single_count = 0 /\ \A k \in 1..region.length : ran[k] = {}
      /\ ran \in [0..region.length -> SUBSET Team]
      /\ my_singles \in [Threads -> Nat] /\ at \in [Threads -> 0..region.length]
  BY <1>1, <1>2 DEF ShareInit
<1>4. Singles(0) = 0
  BY <1>1, SinglesFacts
<1> QED
  BY <1>1, <1>3, <1>4 DEF SingleInv

\* The thread goes on to a construct that is not a single.
LEMMA SingleStart == ASSUME SingleInv, NEW t \in Team, Start(t) PROVE SingleInv'
<1>0. /\ region' = region /\ ran' = ran /\ single_count' = single_count /\ my_singles' = my_singles
      /\ Team' = Team /\ region.length \in Nat /\ t \in Threads
      /\ \A k : Singles(k)' = Singles(k)
  BY RegionFacts, RegionKept DEF Start, teamVars, singleVars, SingleInv, Singles
<1>1. PICK k \in 1..region.length : /\ at[t] + 1 = k /\ at' = [at EXCEPT ![t] = k]
                                    /\ region.constructs[k] # "single"
  <2>1. at[t] \in 0..region.length
    BY <1>0 DEF SingleInv
  <2>2. /\ at[t] < region.length /\ at' = [at EXCEPT ![t] = at[t] + 1]
        /\ region.constructs[at'[t]] # "single" /\ at'[t] = at[t] + 1
    BY <1>0 DEF Start, Enter, SingleInv
  <2>3. at[t] + 1 \in 1..region.length /\ region.constructs[at[t] + 1] # "single"
    BY <1>0, <2>1, <2>2
  <2> QED
    BY <2>2, <2>3
<1>2. /\ at'[t] = k /\ \A s \in Team : s # t => at'[s] = at[s]
      /\ \A s \in Team : at[s] \in 0..region.length
      /\ at' \in [Threads -> 0..region.length]
  BY <1>0, <1>1, RegionFacts DEF SingleInv
<1>3. Singles(k) = Singles(at[t])
  <2>1. k - 1 = at[t]
    BY <1>0, <1>1, <1>2
  <2> QED
    BY <1>1, <2>1, SinglesFacts DEF SingleInv
<1>4. \A s \in Team : my_singles[s] = Singles(at'[s])
  BY <1>2, <1>3 DEF SingleInv
<1>5. \E s \in Team : single_count = Singles(at'[s]) /\ \A r \in Team : at'[r] <= at'[s]
  <2>1. PICK s \in Team : single_count = Singles(at[s]) /\ \A r \in Team : at[r] <= at[s]
    BY DEF SingleInv
  <2>2. CASE at[s] >= k
    <3>1. s # t
      BY <1>0, <1>1, <1>2, <2>2
    <3> QED
      BY <1>0, <1>2, <2>1, <2>2, <3>1
  <2>3. CASE at[s] < k
    <3>1. at[s] = at[t]
      BY <1>0, <1>1, <1>2, <2>1, <2>3
    <3>2. single_count = Singles(at'[t])
      BY <1>2, <1>3, <2>1, <3>1
    <3>3. \A r \in Team : at'[r] <= at'[t]
      BY <1>0, <1>1, <1>2, <2>1, <2>3
    <3> QED
      BY <3>2, <3>3
  <2> QED
    BY <1>0, <1>1, <1>2, <2>2, <2>3
<1>6. ASSUME NEW i \in 1..region.length, region.constructs[i] = "single"
      PROVE  \/ ran[i] = {} /\ \A s \in Team : at'[s] < i
             \/ (\E s \in Team : ran[i] = {s}) /\ \E s \in Team : at'[s] >= i
  <2>1. i # k
    BY <1>1, <1>6
  <2>2. \A s \in Team : at'[s] >= i <=> at[s] >= i
    BY <1>0, <1>1, <1>2, <2>1
  <2>3. \A s \in Team : at'[s] < i <=> at[s] < i
    BY <1>0, <1>1, <1>2, <2>1
  <2> QED
    BY <1>6, <2>2, <2>3 DEF SingleInv
<1> QED
  BY <1>0, <1>2, <1>4, <1>5, <1>6 DEF SingleInv

LEMMA SingleSingle == ASSUME SingleInv, NEW t \in Team, Single(t) PROVE SingleInv'
<1>0. /\ region' = region /\ Team' = Team /\ region.length \in Nat /\ t \in Threads
      /\ Team \subseteq Threads
      /\ \A k : Singles(k)' = Singles(k)
  BY RegionFacts, RegionKept DEF Single, teamVars, SingleInv, Singles
<1>1. PICK k \in 1..region.length : /\ at[t] + 1 = k /\ at' = [at EXCEPT ![t] = k]
                                    /\ region.constructs[k] = "single" /\ at'[t] = k
  <2>1. at[t] \in 0..region.length
    BY <1>0 DEF SingleInv
  <2>2. /\ at[t] < region.length /\ at' = [at EXCEPT ![t] = at[t] + 1]
        /\ region.constructs[at'[t]] = "single" /\ at'[t] = at[t] + 1
    BY <1>0 DEF Single, Enter, SingleInv
  <2>3. at[t] + 1 \in 1..region.length /\ region.constructs[at[t] + 1] = "single"
    BY <1>0, <2>1, <2>2
  <2> QED
    BY <2>2, <2>3
<1>2. /\ \A s \in Team : s # t => at'[s] = at[s]
      /\ \A s \in Team : at[s] \in 0..region.length
      /\ at' \in [Threads -> 0..region.length]
  BY <1>0, <1>1 DEF SingleInv
<1>3. PICK n \in Nat : n = my_singles[t] /\ n = Singles(at[t]) /\ Singles(k) = n + 1
  <2>1. k - 1 = at[t] /\ my_singles[t] \in Nat /\ my_singles[t] = Singles(at[t])
    BY <1>0, <1>1, <1>2 DEF SingleInv
  <2>2. Singles(k) = Singles(k - 1) + 1
    BY <1>1, SinglesFacts DEF SingleInv
  <2> QED
    BY <2>1, <2>2
<1>4. /\ my_singles' = [my_singles EXCEPT ![t] = n + 1]
      /\ \/ single_count = n /\ single_count' = n + 1 /\ ran' = [ran EXCEPT ![k] = @ \cup {t}]
         \/ single_count # n /\ single_count' = single_count /\ ran' = ran
  BY <1>1, <1>3 DEF Single, Count
<1>5. my_singles' \in [Threads -> Nat] /\ \A s \in Team : my_singles'[s] = Singles(at'[s])
  BY <1>0, <1>1, <1>2, <1>3, <1>4 DEF SingleInv
<1>6. PICK s \in Team : single_count = Singles(at[s]) /\ \A r \in Team : at[r] <= at[s]
  BY DEF SingleInv
<1>7. \A i \in 1..region.length : i # k =>
          /\ \A r \in Team : at'[r] >= i <=> at[r] >= i
          /\ \A r \in Team : at'[r] < i <=> at[r] < i
  BY <1>0, <1>1, <1>2
<1>8. CASE single_count = n
  <2>1. at[s] < k
    <3>1. SUFFICES ASSUME at[s] >= k PROVE FALSE
      BY <1>0, <1>1, <1>2
    <3>2. k \in 0..region.length /\ Singles(k) <= Singles(at[s])
      BY <1>0, <1>2, <3>1, SinglesFacts DEF SingleInv
    <3> QED
      BY <1>3, <1>6, <1>8, <3>2
  <2>2. \A r \in Team : at[r] < k /\ at'[r] <= k
    BY <1>0, <1>1, <1>2, <1>6, <2>1
  <2>3. ran[k] = {}
    BY <1>0, <1>1, <1>2, <2>2 DEF SingleInv
  <2>4. /\ single_count' = n + 1 /\ ran'[k] = {t} /\ \A i \in 1..region.length : i # k => ran'[i] = ran[i]
        /\ ran' \in [0..region.length -> SUBSET Team]
    <3>1. k \in 0..region.length /\ ran \in [0..region.length -> SUBSET Team]
      BY <1>0 DEF SingleInv
    <3>2. ran' = [ran EXCEPT ![k] = {t}] /\ single_count' = n + 1
      BY <1>4, <1>8, <2>3, <3>1
    <3>3. \A i \in 1..region.length : i \in 0..region.length
      BY <1>0
    <3> QED
      BY <3>1, <3>2, <3>3
  <2>5. single_count' = Singles(at'[t]) /\ \A r \in Team : at'[r] <= at'[t]
    BY <1>1, <1>3, <2>2, <2>4
  <2>6. ASSUME NEW i \in 1..region.length, region.constructs[i] = "single"
        PROVE  \/ ran'[i] = {} /\ \A r \in Team : at'[r] < i
               \/ (\E r \in Team : ran'[i] = {r}) /\ \E r \in Team : at'[r] >= i
    <3>1. CASE i = k
      BY <1>0, <1>1, <2>4, <3>1
    <3>2. CASE i # k
      BY <1>7, <2>4, <2>6, <3>2 DEF SingleInv
    <3> QED
      BY <3>1, <3>2
  <2>7. \E r \in Team : single_count' = Singles(at'[r]) /\ \A q \in Team : at'[q] <= at'[r]
    BY <2>5
  <2>8. single_count' \in Nat
    BY <1>3, <2>4
  <2> QED
    BY <1>0, <1>2, <1>5, <2>4, <2>6, <2>7, <2>8 DEF SingleInv
<1>9. CASE single_count # n
  <2>1. at[s] >= k
    <3>1. SUFFICES ASSUME at[s] < k PROVE FALSE
      BY <1>0, <1>1, <1>2
    <3>2. at[s] = at[t]
      BY <1>0, <1>1, <1>2, <1>6, <3>1
    <3> QED
      BY <1>3, <1>6, <1>9, <3>2
  <2>2. s # t /\ at'[s] = at[s] /\ \A r \in Team : at'[r] <= at'[s]
    BY <1>0, <1>1, <1>2, <1>6, <2>1
  <2>3. single_count' = single_count /\ ran' = ran
    BY <1>4, <1>9
  <2>4. ASSUME NEW i \in 1..region.length, region.constructs[i] = "single"
        PROVE  \/ ran'[i] = {} /\ \A r \in Team : at'[r] < i
               \/ (\E r \in Team : ran'[i] = {r}) /\ \E r \in Team : at'[r] >= i
    <3>1. CASE i = k
      <4>1. ~(\A r \in Team : at[r] < k)
        BY <1>0, <1>2, <2>1
      <4>2. \E r \in Team : ran[k] = {r}
        BY <1>1, <4>1 DEF SingleInv
      <4> QED
        BY <1>0, <1>1, <2>3, <3>1, <4>2
    <3>2. CASE i # k
      BY <1>7, <2>3, <2>4, <3>2 DEF SingleInv
    <3> QED
      BY <3>1, <3>2
  <2> QED
    BY <1>0, <1>2, <1>5, <1>6, <2>2, <2>3, <2>4 DEF SingleInv
<1> QED
  BY <1>8, <1>9

LEMMA SingleNext == SingleInv /\ [ShareNext]_workVars => SingleInv'
<1> SUFFICES ASSUME SingleInv, [ShareNext]_workVars PROVE SingleInv'
  OBVIOUS
<1>1. ASSUME UNCHANGED <<region, at, singleVars>> PROVE SingleInv'
  <2>1. region' = region /\ at' = at /\ ran' = ran /\ single_count' = single_count
        /\ my_singles' = my_singles /\ Team' = Team
    BY <1>1 DEF singleVars, Team
  <2>2. \A k : Singles(k)' = Singles(k)
    BY <2>1 DEF Singles
  <2> QED
    BY <2>1, <2>2 DEF SingleInv
<1>2. ASSUME NEW t \in Team, ShareStep(t) \/ Cancel(t) PROVE SingleInv'
  <2>1. CASE Start(t)
    BY <2>1, SingleStart
  <2>2. CASE Single(t)
    BY <2>2, SingleSingle
  <2>3. CASE GetSlow(t) \/ Alloc(t) \/ Take(t) \/ Malloc(t) \/ InitWorkShare(t) \/ InitDone(t)
    BY <1>1, <2>3 DEF GetSlow, Alloc, Take, Malloc, InitWorkShare, InitDone, teamVars
  <2>4. CASE EndNowait(t) \/ Arrive(t) \/ Retire(t) \/ Link(t) \/ Push(t) \/ Open(t)
    BY <1>1, <2>4 DEF EndNowait, Arrive, Retire, Link, Push, Open, teamVars
  <2>5. CASE Leave(t) \/ CopyEnd(t) \/ WakeCancelled(t) \/ CancellationPoint(t) \/ Cancel(t)
             \/ RegionEnd(t)
    BY <1>1, <2>5 DEF Leave, CopyEnd, WakeCancelled, CancellationPoint, Cancel, RegionEnd, teamVars
  <2> QED
    BY <1>2, <2>1, <2>2, <2>3, <2>4, <2>5 DEF ShareStep
<1>3. CASE TeamEnd \/ FiniChain
  BY <1>1, <1>3 DEF TeamEnd, FiniChain, teamVars
<1>4. CASE UNCHANGED workVars
  BY <1>1, <1>4 DEF workVars, teamVars
<1> QED
  BY <1>2, <1>3, <1>4 DEF ShareNext

Executes(t) == pc[t] \in {"share", "execute"}

\* Every live share is as before or has its data, and whoever executes a
\* copyprivate single goes on with it unless its data are there.
LEMMA CopyKept ==
    ASSUME CopyInv, region' = region,
           \A w \in Live' : \/ Data(w)'
                            \/ /\ w \in Live /\ shares'[w].use = shares[w].use
                               /\ shares'[w].copyprivate = shares[w].copyprivate,
           \A s \in Team : Executes(s) /\ region.constructs[at[s]] = "copy" =>
              \/ Executes(s)' /\ at'[s] = at[s]
              \/ \A w \in Live' : shares'[w].use = at[s] => Data(w)',
           \A s \in Team : pc'[s] = "nowait" =>
              \/ got'[s] = at'[s]
              \/ pc[s] = "nowait" /\ at'[s] = at[s] /\ first'[s] = first[s] /\ got'[s] = got[s]
    PROVE  CopyInv'
<1>0. Team' = Team
  BY RegionKept
<1>1. ASSUME NEW w \in Live' PROVE Data(w)'
  <2>1. CASE Data(w)'
    BY <2>1
  <2>2. CASE /\ w \in Live /\ shares'[w].use = shares[w].use
             /\ shares'[w].copyprivate = shares[w].copyprivate
    <3>1. Data(w)
      BY <2>2 DEF CopyInv
    <3>2. CASE \/ region.constructs[shares[w].use] # "copy"
               \/ shares[w].copyprivate = shares[w].use
      BY <2>2, <3>2 DEF Data
    <3>3. CASE region.constructs[shares[w].use] = "copy" /\ shares[w].copyprivate # shares[w].use
      <4>1. PICK s \in Team : at[s] = shares[w].use /\ Executes(s)
        BY <3>1, <3>3 DEF Data, Executes
      <4>2. CASE Executes(s)' /\ at'[s] = at[s]
        BY <1>0, <2>2, <4>1, <4>2 DEF Data, Executes
      <4>3. CASE \A v \in Live' : shares'[v].use = at[s] => Data(v)'
        BY <2>2, <4>1, <4>3
      <4> QED
        BY <3>3, <4>1, <4>2, <4>3
    <3> QED
      BY <3>2, <3>3
  <2> QED
    BY <2>1, <2>2
<1>2. \A s \in Team : pc'[s] = "nowait" /\ ~first'[s] => got'[s] = at'[s]
  BY DEF CopyInv
<1> QED
  BY <1>0, <1>1, <1>2 DEF CopyInv

\* What the live shares are for, and their data, stay; shares may be freed.
CopiesSame ==
    \A w \in Live' : /\ w \in Live /\ shares'[w].use = shares[w].use
                     /\ shares'[w].copyprivate = shares[w].copyprivate

LEMMA CopiesStay ==
    ASSUME Typed, NEW w \in Shares, NEW x,
           \/ shares' = shares
           \/ shares' = [shares EXCEPT ![w].next = x]
           \/ shares' = [shares EXCEPT ![w].completed = x]
           \/ shares' = [shares EXCEPT ![w].use = -1]
    PROVE  CopiesSame
<1>1. \A v \in Shares : shares[v] \in ShareIn(Shares)
  BY ShareFacts
<1>2. Shares' = Shares
  BY DEF Shares
<1>3. CASE shares' = shares
  BY <1>3 DEF CopiesSame, Live, Shares
<1>4. CASE shares' = [shares EXCEPT ![w].next = x]
  <2>1. \A v \in Shares : /\ shares'[v].use = shares[v].use
                          /\ shares'[v].copyprivate = shares[v].copyprivate
    BY <1>1, <1>4 DEF Shares, ShareIn
  <2> QED
    BY <1>2, <2>1 DEF CopiesSame, Live
<1>5. CASE shares' = [shares EXCEPT ![w].completed = x]
  <2>1. \A v \in Shares : /\ shares'[v].use = shares[v].use
                          /\ shares'[v].copyprivate = shares[v].copyprivate
    BY <1>1, <1>5 DEF Shares, ShareIn
  <2> QED
    BY <1>2, <2>1 DEF CopiesSame, Live
<1>6. CASE shares' = [shares EXCEPT ![w].use = -1]
  <2>1. \A v \in Shares : /\ v # w => shares'[v] = shares[v]
                          /\ v = w => shares'[v].use = -1
    BY <1>1, <1>6 DEF Shares, ShareIn
  <2>2. w \notin Live'
    BY <1>2, <2>1 DEF Live
  <2> QED
    BY <1>2, <2>1, <2>2 DEF CopiesSame, Live
<1> QED
  BY <1>3, <1>4, <1>5, <1>6

\* A thread that does not execute a copyprivate single goes elsewhere.
LEMMA CopyQuiet ==
    ASSUME CopyInv, NEW t \in Team, region' = region, CopiesSame, ~Executes(t),
           pc'[t] # "nowait", got' = got,
           \A s \in Team \ {t} : /\ pc'[s] = pc[s] \/ (pc[s] = "asleep" /\ pc'[s] = "leave")
                                 /\ at'[s] = at[s] /\ first'[s] = first[s]
    PROVE  CopyInv'
<1>1. ASSUME NEW s \in Team, Executes(s) PROVE Executes(s)' /\ at'[s] = at[s]
  BY <1>1 DEF Executes
<1>2. ASSUME NEW s \in Team, pc'[s] = "nowait"
      PROVE  pc[s] = "nowait" /\ at'[s] = at[s] /\ first'[s] = first[s] /\ got'[s] = got[s]
  BY <1>2
<1> QED
  BY <1>1, <1>2, CopyKept DEF CopiesSame

Elsewhere(t) == region' = region /\ got' = got /\ ~Executes(t) /\ pc'[t] # "nowait"

OthersStay(t) ==
    \A s \in Team \ {t} : pc'[s] = pc[s] /\ at'[s] = at[s] /\ first'[s] = first[s]

LEMMA CopyStart == ASSUME Running, CopyInv, NEW t \in Team, Start(t) PROVE CopyInv'
<1>0. t \in Threads /\ work_share[t] \in Shares
  BY OfThread
<1>1. Elsewhere(t) /\ OthersStay(t)
  BY <1>0, ThreadMaps
     DEF Start, Enter, Inside, Goto, Joined, Elsewhere, OthersStay, Executes, teamVars, Running, Typed
<1>2. CopiesSame
  <2>1. \/ shares' = shares
        \/ shares' = [shares EXCEPT ![work_share[t]].next = Owned]
    BY DEF Start, Claim
  <2> QED
    BY <1>0, <2>1, CopiesStay DEF Running
<1> QED
  BY <1>1, <1>2, CopyQuiet DEF Elsewhere, OthersStay

LEMMA CopyAlloc ==
    ASSUME Running, CopyInv, NEW t \in Team, GetSlow(t) \/ Alloc(t) \/ Take(t) \/ Malloc(t)
    PROVE  CopyInv'
<1>0. t \in Threads /\ local[t] \in Shares \cup {None}
  BY OfThread, ThreadMaps DEF Running
<1>1. Elsewhere(t) /\ OthersStay(t)
  <2>1. CASE GetSlow(t)
    BY <1>0, <2>1, ThreadMaps
       DEF GetSlow, Inside, Goto, Joined, Elsewhere, OthersStay, Executes, teamVars, Running, Typed
  <2>2. CASE Alloc(t) \/ Take(t) \/ Malloc(t)
    BY <1>0, <2>2, ThreadMaps
       DEF Alloc, Take, Malloc, Goto, Elsewhere, OthersStay, Executes, teamVars, shareVars, Running
  <2> QED
    BY <2>1, <2>2
<1>2. CopiesSame
  <2>1. CASE GetSlow(t) \/ Alloc(t)
    <3>1. shares' = shares
      BY <2>1 DEF GetSlow, Alloc
    <3>2. 0 \in Shares
      BY DEF Running, Typed
    <3> QED
      BY <3>1, <3>2, CopiesStay DEF Running
  <2>2. CASE Take(t)
    <3>1. shares' = [shares EXCEPT ![local[t]].next = None] /\ local[t] \in Shares
      BY <1>0, <2>2 DEF Take, CutOff
    <3> QED
      BY <3>1, CopiesStay DEF Running
  <2>3. CASE Malloc(t)
    <3>1. PICK n \in Nat : n >= 1 /\ Shares = 0..n - 1 /\ Max(Shares) + 1 = n
      BY NumberOfShares DEF Running
    <3>2. PICK top \in Nat : top = n + 2 * chunk - 1 /\ n + 1 <= top
      <4>1. n + 2 * chunk - 1 \in Nat /\ n + 1 <= n + 2 * chunk - 1
        BY ThreadFacts DEF Running
      <4> QED
        BY <4>1
    <3>3. shares' = [w \in Shares \cup DOMAIN Block(n, top) |->
                        IF w \in Shares THEN shares[w] ELSE Block(n, top)[w]]
      BY <2>3, <3>1, <3>2 DEF Malloc
    <3>4. /\ Shares' = 0..top
          /\ \A w \in Shares : shares'[w] = shares[w]
          /\ \A w \in n..top : shares'[w].use = -1
      <4>1. Typed /\ Shares = 0..n - 1 /\ n + 1 <= top
        BY <3>1, <3>2 DEF Running
      <4> QED
        BY <3>3, <4>1, MoreShares
    <3>5. \A w \in Shares' : w \in Shares \/ w \in n..top
      BY <3>1, <3>2, <3>4
    <3> QED
      BY <3>4, <3>5 DEF CopiesSame, Live
  <2> QED
    BY <2>1, <2>2, <2>3
<1> QED
  BY <1>1, <1>2, CopyQuiet DEF Elsewhere, OthersStay

LEMMA CopyFree ==
    ASSUME Running, CopyInv, NEW t \in Team,
           EndNowait(t) \/ Retire(t) \/ Link(t) \/ Push(t)
    PROVE  CopyInv'
<1>0. t \in Threads /\ work_share[t] \in Shares /\ 0 \in Shares
  BY OfThread DEF Running, Typed
<1>1. Elsewhere(t) /\ OthersStay(t)
  <2>1. CASE EndNowait(t)
    BY <1>0, <2>1, ThreadMaps
       DEF EndNowait, Goto, Elsewhere, OthersStay, Executes, teamVars, Running
  <2>2. CASE Retire(t) \/ Link(t) \/ Push(t)
    BY <1>0, <2>2, ThreadMaps
       DEF Retire, Link, Push, Goto, Elsewhere, OthersStay, Executes, teamVars, shareVars, Running
  <2> QED
    BY <2>1, <2>2
<1>2. CopiesSame
  <2>1. CASE EndNowait(t)
    <3>1. \/ shares' = shares
          \/ shares' = [shares EXCEPT ![work_share[t]].completed = shares[work_share[t]].completed + 1]
      BY <2>1 DEF EndNowait
    <3> QED
      BY <1>0, <3>1, CopiesStay DEF Running
  <2>2. CASE Retire(t) \/ Link(t)
    <3>1. last_work_share[t] \in Shares
      <4>1. pc[t] \in {"retire", "link"} /\ last_work_share[t] \in Shares \cup {None}
        BY <2>2, OfThread DEF Retire, Link
      <4>2. pc[t] = "link" => last_work_share[t] # None
        BY OfThread DEF HandOf
      <4>3. pc[t] = "retire" => at[t] >= 1 /\ last_work_share[t] # None
        BY OfThread DEF PlaceOf, Frees, SharesOf
      <4> QED
        BY <4>1, <4>2, <4>3
    <3>2. \/ shares' = [shares EXCEPT ![last_work_share[t]].use = -1]
          \/ shares' = [shares EXCEPT ![last_work_share[t]].next = list_free]
      BY <2>2 DEF Retire, Link
    <3> QED
      BY <3>1, <3>2, CopiesStay DEF Running
  <2>3. CASE Push(t)
    <3>1. shares' = shares
      BY <2>3 DEF Push
    <3> QED
      BY <1>0, <3>1, CopiesStay DEF Running
  <2> QED
    BY <2>1, <2>2, <2>3
<1> QED
  BY <1>1, <1>2, CopyQuiet DEF Elsewhere, OthersStay

LEMMA CopyAway ==
    ASSUME Running, CopyInv, NEW t \in Team,
           Arrive(t) \/ Open(t) \/ Single(t) \/ WakeCancelled(t) \/ Cancel(t) \/ RegionEnd(t)
    PROVE  CopyInv'
<1>0. t \in Threads /\ 0 \in Shares /\ Team \subseteq Threads
  BY OfThread, ThreadMaps DEF Running, Typed
<1>1. shares' = shares
  BY DEF Arrive, Open, Single, WakeCancelled, Cancel, RegionEnd
<1>2. CopiesSame
  BY <1>0, <1>1, CopiesStay DEF Running
<1>3. CASE Arrive(t) \/ WakeCancelled(t) \/ Cancel(t) \/ RegionEnd(t)
  <2>1. Elsewhere(t) /\ OthersStay(t)
    BY <1>0, <1>3, ThreadMaps
       DEF Arrive, WakeCancelled, Cancel, RegionEnd, Goto, Elsewhere, OthersStay, Executes,
           teamVars, shareVars, Running
  <2> QED
    BY <1>2, <2>1, CopyQuiet DEF Elsewhere, OthersStay
<1>4. CASE Single(t)
  <2>1. Elsewhere(t) /\ OthersStay(t)
    BY <1>0, <1>4, ThreadMaps
       DEF Single, Enter, Elsewhere, OthersStay, Executes, teamVars, shareVars, Running
  <2> QED
    BY <1>2, <2>1, CopyQuiet DEF Elsewhere, OthersStay
<1>5. CASE Open(t)
  <2>1. /\ region' = region /\ at' = at /\ first' = first /\ got' = got /\ pc[t] = "open"
        /\ pc' = [s \in Threads |-> IF s = t \/ pc[s] = "asleep" THEN "leave" ELSE pc[s]]
    BY <1>5 DEF Open, shareVars
  <2>2. pc'[t] = "leave" /\ ~Executes(t)
    BY <1>0, <2>1 DEF Executes
  <2>3. \A s \in Team \ {t} : pc'[s] = pc[s] \/ (pc[s] = "asleep" /\ pc'[s] = "leave")
    BY <1>0, <2>1
  <2> QED
    BY <1>2, <2>1, <2>2, <2>3, CopyQuiet
<1> QED
  BY <1>3, <1>4, <1>5

\* The thread that prepares a share executes the construct, and so it does
\* when the others may find the share.
LEMMA CopyInit ==
    ASSUME Running, CopyInv, NEW t \in Team, InitWorkShare(t) \/ InitDone(t)
    PROVE  CopyInv'
<1>0. t \in Threads /\ at[t] \in Nat
  BY OfThread
<1>1. CASE InitWorkShare(t)
  <2>1. PICK x \in Shares : x = local[t] /\ shares[x].use = -1
    BY <1>1, OfThread DEF InitWorkShare, HandOf
  <2>2. /\ shares' = [shares EXCEPT ![x] = [Cleared(@) EXCEPT !.use = at[t]]]
        /\ region' = region /\ at' = at /\ got' = got /\ pc[t] = "init"
        /\ pc' = [pc EXCEPT ![t] = "share"] /\ first' = [first EXCEPT ![t] = TRUE]
    BY <1>1, <2>1 DEF InitWorkShare, Inside, Goto, teamVars
  <2>3. pc'[t] = "share" /\ OthersStay(t) /\ Team' = Team
    BY <1>0, <2>2, ThreadMaps, RegionKept DEF OthersStay, Running, Typed
  <2>4. /\ Live' = Live \cup {x} /\ shares'[x].use = at[t] /\ Live \subseteq Shares
        /\ \A v \in Shares : v # x => shares'[v] = shares[v]
    <3>1. Typed
      BY DEF Running
    <3> QED
      BY <1>0, <2>1, <2>2, <3>1, SetShare, LiveShares
  <2>5. Data(x)'
    <3>1. \E s \in Team' : at'[s] = shares'[x].use /\ pc'[s] \in {"share", "execute"}
      BY <2>2, <2>3, <2>4
    <3> QED
      BY <3>1 DEF Data
  <2>6. ASSUME NEW w \in Live'
        PROVE  \/ Data(w)'
               \/ /\ w \in Live /\ shares'[w].use = shares[w].use
                  /\ shares'[w].copyprivate = shares[w].copyprivate
    BY <2>4, <2>5, <2>6
  <2>7. ASSUME NEW s \in Team, Executes(s) PROVE Executes(s)' /\ at'[s] = at[s]
    BY <2>2, <2>3, <2>7 DEF Executes, OthersStay
  <2>8. ASSUME NEW s \in Team, pc'[s] = "nowait"
        PROVE  pc[s] = "nowait" /\ at'[s] = at[s] /\ first'[s] = first[s] /\ got'[s] = got[s]
    BY <2>2, <2>3, <2>8 DEF OthersStay
  <2> QED
    BY <2>2, <2>6, <2>7, <2>8, CopyKept
<1>2. CASE InitDone(t)
  <2>1. /\ shares' = [shares EXCEPT ![last_work_share[t]].next = work_share[t]]
        /\ region' = region /\ at' = at /\ got' = got /\ first' = first /\ pc[t] = "share"
        /\ pc' = [pc EXCEPT ![t] = IF Construct(t) = "copy" THEN "execute" ELSE "work"]
    BY <1>2 DEF InitDone, Publish, Goto, teamVars, shareVars
  <2>2. last_work_share[t] \in Shares
    BY <2>1, OfThread DEF PlaceOf, Starting
  <2>3. CopiesSame
    BY <2>1, <2>2, CopiesStay DEF Running
  <2>4. /\ OthersStay(t) /\ pc'[t] # "nowait"
        /\ Construct(t) = "copy" => pc'[t] = "execute"
    BY <1>0, <2>1, ThreadMaps DEF OthersStay, Running
  <2>5. ASSUME NEW s \in Team, Executes(s), region.constructs[at[s]] = "copy"
        PROVE  Executes(s)' /\ at'[s] = at[s]
    BY <2>1, <2>4, <2>5 DEF Executes, OthersStay, Construct
  <2>6. ASSUME NEW s \in Team, pc'[s] = "nowait"
        PROVE  pc[s] = "nowait" /\ at'[s] = at[s] /\ first'[s] = first[s] /\ got'[s] = got[s]
    BY <2>1, <2>4, <2>6 DEF OthersStay
  <2> QED
    BY <2>1, <2>3, <2>5, <2>6, CopyKept DEF CopiesSame
<1> QED
  BY <1>1, <1>2

\* GOMP_single_copy_end: the data are for the construct the share was made for.
LEMMA CopyCopyEnd == ASSUME Running, CopyInv, NEW t \in Team, CopyEnd(t) PROVE CopyInv'
<1>0. t \in Threads /\ pc[t] = "execute" /\ Construct(t) = "copy"
  BY OfThread DEF CopyEnd, PlaceOf
<1>1. PICK u \in Live : /\ u = work_share[t] /\ shares[u].use = at[t] /\ u \in Shares
                        /\ \A w \in Live : shares[w].use = at[t] => w = u
  <2>1. at[t] >= 1
    BY <1>0, OfThread DEF SharesOf, Construct
  <2>2. work_share[t] \in Live /\ shares[work_share[t]].use = at[t]
    BY <1>0, <2>1, OwnShare DEF Starting
  <2>3. work_share[t] \in Shares
    BY OfThread
  <2>4. \A w \in Live : shares[w].use = at[t] => w = work_share[t]
    BY <2>2 DEF Running, ChainInv, Unique
  <2> QED
    BY <2>2, <2>3, <2>4
<1>2. /\ shares' = [shares EXCEPT ![u].copyprivate = at[t]]
      /\ region' = region /\ at' = at /\ got' = got /\ first' = first
      /\ pc' = [pc EXCEPT ![t] = "arrive"]
  BY <1>0, <1>1 DEF CopyEnd, Goto, teamVars, shareVars
<1>3. /\ \A v \in Shares : shares'[v].use = shares[v].use
      /\ \A v \in Shares : v # u => shares'[v] = shares[v]
      /\ shares'[u].copyprivate = at[t] /\ Shares' = Shares
  <2>1. \A v \in Shares : shares[v] \in ShareIn(Shares)
    BY ShareFacts DEF Running
  <2> QED
    BY <1>1, <1>2, <2>1 DEF Shares, ShareIn
<1>4. Live' = Live /\ Live \subseteq Shares
  BY <1>3 DEF Live
<1>5. OthersStay(t) /\ pc'[t] = "arrive"
  BY <1>0, <1>2, ThreadMaps DEF OthersStay, Running
<1>6. Data(u)'
  <2>1. shares'[u].copyprivate = shares'[u].use
    BY <1>1, <1>3
  <2> QED
    BY <2>1 DEF Data
<1>7. ASSUME NEW w \in Live'
      PROVE  \/ Data(w)'
             \/ /\ w \in Live /\ shares'[w].use = shares[w].use
                /\ shares'[w].copyprivate = shares[w].copyprivate
  BY <1>3, <1>4, <1>6, <1>7
<1>8. ASSUME NEW s \in Team, Executes(s)
      PROVE  \/ Executes(s)' /\ at'[s] = at[s]
             \/ \A w \in Live' : shares'[w].use = at[s] => Data(w)'
  <2>1. CASE s = t
    BY <1>1, <1>3, <1>4, <1>6, <2>1
  <2>2. CASE s # t
    BY <1>5, <1>8, <2>2 DEF OthersStay, Executes
  <2> QED
    BY <2>1, <2>2
<1>9. ASSUME NEW s \in Team, pc'[s] = "nowait"
      PROVE  pc[s] = "nowait" /\ at'[s] = at[s] /\ first'[s] = first[s] /\ got'[s] = got[s]
  BY <1>2, <1>5, <1>9 DEF OthersStay
<1> QED
  BY <1>2, <1>7, <1>8, <1>9, CopyKept

\* Behind the barrier nobody executes the construct any more: its data are there.
LEMMA CopyLeave == ASSUME Running, CopyInv, NEW t \in Team, Leave(t) PROVE CopyInv'
<1>0. /\ t \in Threads /\ pc[t] = "leave" /\ Construct(t) \in {"loop", "copy"}
      /\ region' = region /\ at' = at /\ first' = first /\ shares' = shares
      /\ 0 \in Shares
  BY OfThread DEF Leave, PlaceOf, teamVars, Running, Typed
<1>1. CopiesSame
  BY <1>0, CopiesStay DEF Running
<1>2. OthersStay(t)
  BY <1>0, ThreadMaps DEF Leave, Goto, OthersStay, Running
<1>3. CASE Construct(t) = "loop"
  <2>1. Elsewhere(t)
    BY <1>0, <1>3, ThreadMaps DEF Leave, Goto, Elsewhere, Executes, Running
  <2> QED
    BY <1>1, <1>2, <2>1, CopyQuiet DEF Elsewhere, OthersStay
<1>4. CASE Construct(t) = "copy"
  <2>1. /\ got' = [got EXCEPT ![t] = IF first[t] THEN None ELSE shares[work_share[t]].copyprivate]
        /\ pc'[t] = "nowait"
    BY <1>0, <1>4, ThreadMaps DEF Leave, Goto, Running
  <2>2. at[t] >= 1
    <3>1. at[t] = 0 => Construct(t) \in {"loop", "nowait", "none"}
      BY OfThread
    <3> QED
      BY <1>4, <3>1, OfThread
  <2>3. work_share[t] \in Live /\ shares[work_share[t]].use = at[t]
    BY <1>0, <1>4, <2>2, OwnShare DEF Starting
  <2>4. \A s \in Team : ~(Executes(s) /\ at[s] = at[t])
    <3>1. SUFFICES ASSUME NEW s \in Team, Executes(s), at[s] = at[t] PROVE FALSE
      OBVIOUS
    <3>2. at[t] \in Barriers
      BY <1>4, OfThread DEF Barriers
    <3>3. Behind(t, at[t])
      BY <1>0 DEF Behind
    <3>4. Behind(s, at[t])
      BY <1>0, <3>1, <3>2, <3>3 DEF Running, BarrierInv, Executes
    <3> QED
      BY <3>1, <3>4, OfThread DEF Behind, Executes, Frees
  <2>5. shares[work_share[t]].copyprivate = at[t]
    <3>1. Data(work_share[t])
      BY <2>3 DEF CopyInv
    <3> QED
      BY <1>4, <2>3, <2>4, <3>1 DEF Data, Executes, Construct
  <2>6. /\ ~first[t] => got'[t] = at[t]
        /\ \A s \in Team \ {t} : got'[s] = got[s]
    <3>1. DOMAIN got = Threads /\ Team \subseteq Threads
      BY ThreadMaps DEF Running, Typed
    <3> QED
      BY <1>0, <2>1, <2>5, <3>1
  <2>7. ASSUME NEW s \in Team, Executes(s) PROVE Executes(s)' /\ at'[s] = at[s]
    BY <1>0, <1>2, <2>7 DEF Executes, OthersStay
  <2>8. \A w \in Live' : Data(w)'
    <3>1. ASSUME NEW w \in Live' PROVE Data(w)'
      <4>1. Data(w) /\ shares'[w] = shares[w]
        BY <1>0, <1>1, <3>1 DEF CopiesSame, CopyInv
      <4>2. Team' = Team
        BY <1>0, RegionKept
      <4> QED
        BY <1>0, <2>7, <4>1, <4>2 DEF Data, Executes
    <3> QED
      BY <3>1
  <2>9. \A s \in Team' : pc'[s] = "nowait" /\ ~first'[s] => got'[s] = at'[s]
    <3>1. Team' = Team
      BY <1>0, RegionKept
    <3>2. ASSUME NEW s \in Team, pc'[s] = "nowait", ~first'[s] PROVE got'[s] = at'[s]
      <4>1. CASE s = t
        BY <1>0, <2>6, <3>2, <4>1
      <4>2. CASE s # t
        BY <1>0, <1>2, <2>6, <3>2, <4>2 DEF OthersStay, CopyInv
      <4> QED
        BY <4>1, <4>2
    <3> QED
      BY <3>1, <3>2
  <2> QED
    BY <2>8, <2>9 DEF CopyInv
<1> QED
  BY <1>0, <1>3, <1>4

LEMMA CopyInitial == ShareInit => CopyInv
<1> SUFFICES ASSUME ShareInit PROVE CopyInv
  OBVIOUS
<1>1. region \in Regions /\ Team \subseteq Threads /\ region.constructs[0] # "copy"
  BY RegionFacts DEF ShareInit
<1>2. \A t \in Team : pc[t] \in {"user", "work"}
  BY <1>1 DEF ShareInit
<1>3. \A w \in Live : w \in Shares /\ shares[w].use >= 0
  BY DEF Live
<1>4. Shares = 0..Inline - 1 /\ \A w \in Shares : shares[w].use = IF w = 0 THEN 0 ELSE -1
  <2>1. Block(0, Inline - 1) = [w \in 0..Inline - 1 |-> Fresh(IF w < Inline - 1 THEN w + 1 ELSE None)]
    BY DEF Block
  <2>2. \A x : Fresh(x).use = -1
    BY DEF Fresh
  <2>3. [Fresh(None) EXCEPT !.use = 0].use = 0
    BY DEF Fresh
  <2>4. shares = [Block(0, Inline - 1) EXCEPT ![0] = [Fresh(None) EXCEPT !.use = 0]]
    BY DEF ShareInit
  <2>5. Shares = 0..Inline - 1
    BY <2>1, <2>4 DEF Shares
  <2>6. ASSUME NEW w \in Shares PROVE shares[w].use = IF w = 0 THEN 0 ELSE -1
    <3>1. CASE w = 0
      <4>1. shares[w] = [Fresh(None) EXCEPT !.use = 0]
        BY <2>1, <2>4, <2>5, <3>1
      <4> QED
        BY <2>3, <3>1, <4>1
    <3>2. CASE w # 0
      <4>1. shares[w] = Fresh(IF w < Inline - 1 THEN w + 1 ELSE None)
        BY <2>1, <2>4, <2>5, <3>2
      <4> QED
        BY <2>2, <3>2, <4>1
    <3> QED
      BY <3>1, <3>2
  <2> QED
    BY <2>5, <2>6
<1>5. \A w \in Live : shares[w].use = 0
  BY <1>3, <1>4
<1> QED
  BY <1>1, <1>2, <1>5 DEF CopyInv, Data

LEMMA CopyNext ==
    ShareInv /\ (~Ended => CopyInv) /\ [ShareNext]_workVars => (~Ended => CopyInv)'
<1> SUFFICES ASSUME ShareInv, ~Ended => CopyInv, [ShareNext]_workVars, ~Ended' PROVE CopyInv'
  OBVIOUS
<1>1. CASE UNCHANGED workVars
  <2>1. /\ region' = region /\ shares' = shares /\ at' = at /\ pc' = pc
        /\ first' = first /\ got' = got
    BY <1>1 DEF workVars, teamVars, shareVars
  <2>2. ~Ended /\ Live' = Live /\ Team' = Team
    BY <2>1 DEF Ended, Live, Shares, Team
  <2>3. \A w : Data(w) => Data(w)'
    BY <2>1, <2>2 DEF Data
  <2> QED
    BY <2>1, <2>2, <2>3 DEF CopyInv
<1>2. CASE Ended
  <2>1. EndedInv /\ Master \in Team /\ Master \in Threads
    BY <1>2, RegionFacts DEF ShareInv, EndedInv, Typed
  <2>2. ~TeamEnd
    BY <1>2, <2>1 DEF TeamEnd, Ended
  <2>3. ~FiniChain
    <3>1. SUFFICES ASSUME FiniChain PROVE FALSE
      OBVIOUS
    <3>2. pc[Master] = "fini" /\ (pc' = pc \/ pc' = [pc EXCEPT ![Master] = "over"])
      BY <3>1 DEF FiniChain, Goto
    <3>3. DOMAIN pc = Threads
      BY <2>1, ThreadMaps DEF EndedInv
    <3> QED
      BY <2>1, <3>2, <3>3 DEF Ended
  <2> QED
    BY <1>1, <2>1, <2>2, <2>3, NobodySteps DEF ShareNext
<1>3. CASE ~Ended /\ ShareNext
  <2>1. Running /\ CopyInv /\ ~FiniChain
    BY <1>3 DEF ShareInv, Running, FiniChain, Ended
  <2>2. ~TeamEnd
    BY <2>1, TeamEndKeeps
  <2>3. PICK t \in Team : ShareStep(t) \/ Cancel(t)
    BY <1>3, <2>1, <2>2 DEF ShareNext
  <2>4. CASE Start(t) \/ GetSlow(t) \/ Alloc(t) \/ Take(t) \/ Malloc(t)
    BY <2>1, <2>4, CopyStart, CopyAlloc
  <2>5. CASE InitWorkShare(t) \/ InitDone(t) \/ CopyEnd(t) \/ Leave(t)
    BY <2>1, <2>5, CopyInit, CopyCopyEnd, CopyLeave
  <2>6. CASE EndNowait(t) \/ Retire(t) \/ Link(t) \/ Push(t)
    BY <2>1, <2>6, CopyFree
  <2>7. CASE \/ Arrive(t) \/ Open(t) \/ Single(t) \/ WakeCancelled(t)
             \/ CancellationPoint(t) \/ Cancel(t) \/ RegionEnd(t)
    BY <2>1, <2>7, CopyAway DEF CancellationPoint
  <2> QED
    BY <2>3, <2>4, <2>5, <2>6, <2>7 DEF ShareStep
<1> QED
  BY <1>1, <1>2, <1>3

\* GOMP_single_start, GOMP_single_copy_start: the first thread that gets to a
\* single construct executes it and nobody else, and with copyprivate the others
\* get the data of this very construct, though its share is used again and again.
THEOREM SinglesOnce == ShareSpec => []SinglesAgree
<1>1. ShareInit => SingleInv /\ (~Ended => CopyInv)
  BY SingleInit, CopyInitial
<1>2. /\ ShareInv /\ ShareInv' /\ SingleInv /\ (~Ended => CopyInv) /\ [ShareNext]_workVars
      => SingleInv' /\ (~Ended => CopyInv)'
  BY SingleNext, CopyNext
<1>3. ShareSpec => [](SingleInv /\ (~Ended => CopyInv))
  BY <1>1, <1>2, SharesInvariant, PTL DEF ShareSpec
<1>4. ShareInv /\ SingleInv /\ (~Ended => CopyInv) => SinglesAgree
  <2> SUFFICES ASSUME ShareInv, SingleInv, ~Ended => CopyInv PROVE SinglesAgree
    OBVIOUS
  <2>1. \A t \in Team : pc[t] = "nowait" /\ ~first[t] => got[t] = at[t]
    BY DEF ShareInv, AllOver, CopyInv
  <2>2. ASSUME NEW k \in 1..region.length, region.constructs[k] = "single"
        PROVE  Cardinality(ran[k]) = IF \E t \in Team : at[t] >= k THEN 1 ELSE 0
    <3>1. k \in Nat /\ \A t \in Team : at[t] \in Nat
      <4>1. region.length \in Nat /\ Team \subseteq Threads
        BY RegionFacts DEF SingleInv
      <4> QED
        BY <4>1 DEF SingleInv
    <3>2. CASE ran[k] = {} /\ \A t \in Team : at[t] < k
      <4>1. ~(\E t \in Team : at[t] >= k)
        BY <3>1, <3>2
      <4> QED
        BY <3>2, <4>1, FS_EmptySet
    <3>3. CASE (\E t \in Team : ran[k] = {t}) /\ \E t \in Team : at[t] >= k
      <4>1. Cardinality(ran[k]) = 1
        BY <3>3, FS_Singleton
      <4> QED
        BY <3>3, <4>1
    <3> QED
      BY <2>2, <3>2, <3>3 DEF SingleInv
  <2> QED
    BY <2>1, <2>2 DEF SinglesAgree
<1> QED
  BY <1>3, <1>4, SharesInvariant, PTL
=============================================================================
