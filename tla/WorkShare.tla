----------------------------- MODULE WorkShare ------------------------------
(***************************************************************************)
(* The chain of work shares of a team (work.c), with the users that do not *)
(* care what a share holds: loops and sections ended by a barrier or not,  *)
(* single with copyprivate, plain single (single.c), and the end of the    *)
(* team (team.c).                                                          *)
(*                                                                         *)
(* Threads meet at a construct through the pointer lock next_ws of the     *)
(* share before it.  The fields next_ws and next_free are a union: here    *)
(* they are the field next.  One step per access to a word that another    *)
(* thread may access; the pointer lock and the team barrier are taken at   *)
(* their word (PtrLock, TeamBarrier).                                      *)
(*                                                                         *)
(* A region is a program: its team, its constructs in order (constructs[0] *)
(* is the loop of a combined parallel loop, or "none"), and whether it     *)
(* may be cancelled.                                                       *)
(***************************************************************************)
EXTENDS Integers, FiniteSetsExt

CONSTANTS Threads, Master, None,
          Owned,       \* next_ws is claimed: somebody prepares the pointer
          Inline,      \* work shares inside struct gomp_team, 8 in the code
          Regions

Kinds == {"loop", "nowait", "copy", "single"}

ASSUME InlineAssumption == Inline \in Nat /\ Inline >= 2

ASSUME NamesAssumption ==
    /\ IsFiniteSet(Threads)
    /\ None \notin Nat /\ Owned \notin Nat /\ None # Owned

ASSUME RegionsAssumption ==
    \A r \in Regions :
        /\ r.team \subseteq Threads /\ Master \in r.team
        /\ r.length \in Nat /\ r.cancellable \in BOOLEAN
        /\ r.constructs \in [0..r.length -> Kinds \cup {"none"}]
        /\ r.constructs[0] \in {"loop", "nowait", "none"}
        /\ \A k \in 1..r.length : r.constructs[k] \in Kinds
        \* single with copyprivate has no cancellable barrier
        /\ r.cancellable => \A k \in 1..r.length : r.constructs[k] # "copy"

VARIABLES region,
          shares,       \* w |-> next, threads_completed, copyprivate; use: history,
                        \* the construct w was initialised for, -1 after gomp_fini
          list_alloc, list_free, chunk,   \* work_share_...
          to_free,      \* work_shares_to_free
          single_count,
          awaited,      \* threads that have arrived at the team barrier
          cancelled,
          pc, at,       \* where thread t is, in or behind which construct
          work_share, last_work_share,    \* of thr->ts
          my_singles,   \* thr->ts.single_count
          first,        \* what gomp_work_share_start returned
          local,        \* a local pointer: ws or next_ws
          got,          \* what GOMP_single_copy_start returned
          ran           \* history: threads that executed single construct k

listVars == <<list_alloc, list_free, chunk, to_free>>
teamVars == <<region, awaited, cancelled>>
singleVars == <<single_count, my_singles, ran>>
shareVars == <<work_share, last_work_share, first>>
workVars == <<shares, listVars, teamVars, singleVars, shareVars, pc, at, local, got>>

Team == region.team
Shares == DOMAIN shares

Fresh(next) == [next |-> next, completed |-> 0, copyprivate |-> None, use |-> -1]

\* Shares lo..hi, each linked to the next one.
Block(lo, hi) == [w \in lo..hi |-> Fresh(IF w < hi THEN w + 1 ELSE None)]

Goto(t, l) == pc' = [pc EXCEPT ![t] = l]

Construct(t) == region.constructs[at[t]]

\* gomp_new_team, gomp_team_start
ShareInit ==
    /\ region \in Regions
    /\ shares = [Block(0, Inline - 1) EXCEPT ![0] = [Fresh(None) EXCEPT !.use = 0]]
    /\ list_alloc = 1 /\ list_free = None /\ chunk = Inline
    /\ to_free = 0
    /\ single_count = 0 /\ awaited = 0 /\ cancelled = FALSE
    /\ pc = [t \in Threads |-> IF region.constructs[0] = "none" THEN "user" ELSE "work"]
    /\ at = [t \in Threads |-> 0]
    /\ work_share = [t \in Threads |-> 0]
    /\ last_work_share = [t \in Threads |-> None]
    /\ my_singles = [t \in Threads |-> 0]
    /\ first = [t \in Threads |-> FALSE]
    /\ local = [t \in Threads |-> None]
    /\ got = [t \in Threads |-> None]
    /\ ran = [k \in DOMAIN region.constructs |-> {}]

Enter(t) ==
    /\ pc[t] = "user" /\ at[t] < region.length
    /\ at' = [at EXCEPT ![t] = @ + 1]

\* mutant: the others read copyprivate at once
JoinedAtOnce(k) == IF region.constructs[k] = "copy" THEN "leave" ELSE "work"

\* Loops are worked on; at a copyprivate single, the others wait.
Joined(k) == IF region.constructs[k] = "copy" THEN "arrive" ELSE "work"

\* The thread has its share for construct k.
Inside(t, w, isFirst, k) ==
    /\ work_share' = [work_share EXCEPT ![t] = w]
    /\ first' = [first EXCEPT ![t] = isFirst]
    /\ Goto(t, IF isFirst THEN "share" ELSE Joined(k))

Claim(ws) == shares' = [shares EXCEPT ![ws].next = Owned]

\* gomp_work_share_start up to the answer of gomp_ptrlock_get.
Start(t) ==
    /\ Enter(t) /\ region.constructs[at'[t]] # "single"
    /\ last_work_share' = [last_work_share EXCEPT ![t] = work_share[t]]
    /\ LET next == shares[work_share[t]].next
       IN  \/ /\ next = None
              /\ Claim(work_share[t])
              /\ Goto(t, "alloc")
              /\ UNCHANGED <<work_share, first>>
           \/ /\ next = Owned
              /\ Goto(t, "wait")
              /\ UNCHANGED <<shares, work_share, first>>
           \/ /\ next \in Shares
              /\ Inside(t, next, FALSE, at'[t])
              /\ UNCHANGED shares
    /\ UNCHANGED <<listVars, teamVars, singleVars, local, got>>

\* gomp_ptrlock_get returns the pointer that the first thread has set.
GetSlow(t) ==
    /\ pc[t] = "wait" /\ shares[last_work_share[t]].next # Owned
    /\ Inside(t, shares[last_work_share[t]].next, FALSE, at[t])
    /\ UNCHANGED <<shares, listVars, teamVars, singleVars, last_work_share, at,
                   local, got>>
-----------------------------------------------------------------------------
(* alloc_work_share, by the thread that owns next_ws.                      *)

\* The head of the thread's own list, or a first look at the other one.
Alloc(t) ==
    /\ pc[t] = "alloc"
    /\ \/ /\ list_alloc # None
          /\ local' = [local EXCEPT ![t] = list_alloc]
          /\ list_alloc' = shares[list_alloc].next
          /\ Goto(t, "init")
       \/ /\ list_alloc = None
          /\ local' = [local EXCEPT ![t] = list_free]
          /\ Goto(t, "take")
          /\ UNCHANGED list_alloc
    /\ UNCHANGED <<shares, list_free, chunk, to_free, teamVars, singleVars,
                   shareVars, at, got>>

\* mutant: the head keeps its link
CutOffNothing(ws) == UNCHANGED shares

CutOff(ws) == shares' = [shares EXCEPT ![ws].next = None]

\* All but the head are taken off, without touching list_free itself.
Take(t) ==
    LET ws == local[t]
        next == shares[ws].next
    IN  /\ pc[t] = "take" /\ ws # None /\ next # None
        /\ CutOff(ws)
        /\ list_alloc' = shares[next].next
        /\ local' = [local EXCEPT ![t] = next]
        /\ Goto(t, "init")
        /\ UNCHANGED <<list_free, chunk, to_free, teamVars, singleVars,
                       shareVars, at, got>>

\* work_share_chunk *= 2 and a new block, of which the first is returned.
Malloc(t) ==
    LET n == Max(Shares) + 1
        new == Block(n, n + 2 * chunk - 1)
    IN  /\ pc[t] = "take"
        /\ local[t] # None => shares[local[t]].next = None
        /\ chunk' = 2 * chunk
        /\ shares' = [w \in Shares \cup DOMAIN new |->
                         IF w \in Shares THEN shares[w] ELSE new[w]]
        /\ list_alloc' = n + 1
        /\ local' = [local EXCEPT ![t] = n]
        /\ Goto(t, "init")
        /\ UNCHANGED <<list_free, to_free, teamVars, singleVars, shareVars, at,
                       got>>

Cleared(w) == [w EXCEPT !.next = None, !.completed = 0]

\* gomp_init_work_share; the share becomes the thread's.
InitWorkShare(t) ==
    /\ pc[t] = "init"
    /\ shares' = [shares EXCEPT ![local[t]] = [Cleared(@) EXCEPT !.use = at[t]]]
    /\ Inside(t, local[t], TRUE, at[t])
    /\ UNCHANGED <<listVars, teamVars, singleVars, last_work_share, at, local,
                   got>>

Publish(t) == shares' = [shares EXCEPT ![last_work_share[t]].next = work_share[t]]

\* gomp_work_share_init_done; the first thread goes on into the construct.
InitDone(t) ==
    /\ pc[t] = "share"
    /\ Publish(t)
    /\ Goto(t, IF Construct(t) = "copy" THEN "execute" ELSE "work")
    /\ UNCHANGED <<listVars, teamVars, singleVars, shareVars, at, local, got>>
-----------------------------------------------------------------------------
(* The ends of constructs.                                                 *)

Reset(t) == last_work_share' = [last_work_share EXCEPT ![t] = None]

\* mutant: the thread that counts does not count itself
ThroughEarly(ws) == shares[ws].completed + 2 = Cardinality(Team)

Through(ws) == shares[ws].completed + 1 = Cardinality(Team)

\* gomp_work_share_end_nowait: the last thread through frees the share before.
\* There is none before the loop of a combined construct.
EndNowait(t) ==
    LET ws == work_share[t]
    IN  /\ pc[t] = "nowait" \/ (pc[t] = "work" /\ Construct(t) = "nowait")
        /\ \/ /\ last_work_share[t] = None
              /\ Goto(t, "user")
              /\ UNCHANGED <<shares, last_work_share>>
           \/ /\ last_work_share[t] # None
              /\ shares' = [shares EXCEPT ![ws].completed = @ + 1]
              /\ IF Through(ws) THEN Goto(t, "retire") /\ UNCHANGED last_work_share
                                ELSE Goto(t, "user") /\ Reset(t)
        /\ UNCHANGED <<listVars, teamVars, singleVars, work_share, first, at,
                       local, got>>

FreesLast(t) == Construct(t) = "loop" /\ last_work_share[t] # None

\* gomp_work_share_end_cancel forgets the share before it waits,
\* gomp_work_share_end afterwards.
BeforeBarrier(t) == IF region.cancellable THEN Reset(t) ELSE UNCHANGED last_work_share

\* Into the team barrier.  After gomp_barrier_wait_start, the last thread of a
\* loop frees the share before, unless there is none.
Arrive(t) ==
    /\ pc[t] = "arrive" \/ (pc[t] = "work" /\ Construct(t) = "loop")
    /\ awaited' = awaited + 1
    /\ \/ /\ awaited' = Cardinality(Team)
          /\ Goto(t, IF FreesLast(t) THEN "retire" ELSE "open")
          /\ UNCHANGED last_work_share
       \/ /\ awaited' # Cardinality(Team)
          /\ Goto(t, "asleep")
          /\ BeforeBarrier(t)
    /\ UNCHANGED <<shares, listVars, region, cancelled, singleVars, work_share,
                   first, at, local, got>>

Oldest(t) == to_free' = work_share[t]

\* work_shares_to_free is set, and free_work_share begins with gomp_fini.
Retire(t) ==
    /\ pc[t] = "retire"
    /\ Oldest(t)
    /\ shares' = [shares EXCEPT ![last_work_share[t]].use = -1]
    /\ Goto(t, "link")
    /\ UNCHANGED <<list_alloc, list_free, chunk, teamVars, singleVars,
                   shareVars, at, local, got>>

\* free_work_share: next_ws = team->work_share_list_free; ws->next_free = next_ws
Link(t) ==
    /\ pc[t] = "link"
    /\ local' = [local EXCEPT ![t] = list_free]
    /\ shares' = [shares EXCEPT ![last_work_share[t]].next = list_free]
    /\ Goto(t, "cas")
    /\ UNCHANGED <<listVars, teamVars, singleVars, shareVars, at, got>>

\* The compare-and-swap of free_work_share.
Push(t) ==
    /\ pc[t] = "cas"
    /\ IF list_free = local[t]
       THEN /\ list_free' = last_work_share[t]
            /\ IF Construct(t) = "loop"
               THEN Goto(t, "open") /\ BeforeBarrier(t)
               ELSE Goto(t, "user") /\ Reset(t)
       ELSE /\ Goto(t, "link")
            /\ UNCHANGED <<list_free, last_work_share>>
    /\ UNCHANGED <<shares, list_alloc, chunk, to_free, teamVars, singleVars,
                   work_share, first, at, local, got>>

\* The last thread opens the barrier.
Open(t) ==
    /\ pc[t] = "open"
    /\ awaited' = 0
    /\ pc' = [s \in Threads |-> IF s = t \/ pc[s] = "asleep" THEN "leave" ELSE pc[s]]
    /\ UNCHANGED <<shares, listVars, region, cancelled, singleVars, shareVars,
                   at, local, got>>

\* Behind the barrier: a loop is over, a copyprivate single reads what the
\* first thread has left in the share.
Leave(t) ==
    /\ pc[t] = "leave"
    /\ IF Construct(t) = "loop"
       THEN Reset(t) /\ Goto(t, "user") /\ UNCHANGED got
       ELSE /\ got' = [got EXCEPT ![t] = IF first[t] THEN None
                                         ELSE shares[work_share[t]].copyprivate]
            /\ Goto(t, "nowait")
            /\ UNCHANGED last_work_share
    /\ UNCHANGED <<shares, listVars, teamVars, singleVars, work_share, first,
                   at, local>>

\* GOMP_single_copy_end (data), up to the barrier.
CopyEnd(t) ==
    /\ pc[t] = "execute"
    /\ shares' = [shares EXCEPT ![work_share[t]].copyprivate = at[t]]
    /\ Goto(t, "arrive")
    /\ UNCHANGED <<listVars, teamVars, singleVars, shareVars, at, local, got>>

Count(t) == my_singles' = [my_singles EXCEPT ![t] = @ + 1]

\* GOMP_single_start: whoever finds the team's count as its own executes it.
Single(t) ==
    /\ Enter(t) /\ region.constructs[at'[t]] = "single"
    /\ Count(t)
    /\ IF single_count = my_singles[t]
       THEN single_count' = single_count + 1 /\ ran' = [ran EXCEPT ![at'[t]] = @ \cup {t}]
       ELSE UNCHANGED <<single_count, ran>>
    /\ UNCHANGED <<shares, listVars, teamVars, shareVars, pc, local, got>>
-----------------------------------------------------------------------------
(* Cancellation of the region, and its end.                                *)

\* Threads in user code cancel the region or notice that it is cancelled.
Cancel(t) ==
    /\ region.cancellable /\ pc[t] \in {"user", "work"}
    /\ cancelled' = TRUE
    /\ Goto(t, "end")
    /\ UNCHANGED <<shares, listVars, region, awaited, singleVars, shareVars,
                   at, local, got>>

CancellationPoint(t) == cancelled /\ Cancel(t)

\* A thread in a cancellable barrier is woken and jumps to the end.
WakeCancelled(t) ==
    /\ cancelled /\ pc[t] = "asleep"
    /\ Goto(t, "end")
    /\ UNCHANGED <<shares, listVars, teamVars, singleVars, shareVars, at,
                   local, got>>

RegionEnd(t) ==
    /\ pc[t] = "user" /\ at[t] = region.length
    /\ Goto(t, "end")
    /\ UNCHANGED <<shares, listVars, teamVars, singleVars, shareVars, at,
                   local, got>>

\* gomp_team_end, behind the final barrier: the master finishes its share, or
\* after a cancellation the whole chain that is left.
TeamEnd ==
    /\ \A t \in Team : pc[t] = "end"
    /\ IF cancelled
       THEN /\ local' = [local EXCEPT ![Master] = to_free]
            /\ pc' = [t \in Threads |-> IF t = Master THEN "fini" ELSE "over"]
            /\ UNCHANGED shares
       ELSE /\ shares' = [shares EXCEPT ![work_share[Master]].use = -1]
            /\ pc' = [t \in Threads |-> "over"]
            /\ UNCHANGED local
    /\ UNCHANGED <<listVars, teamVars, singleVars, shareVars, at, got>>

\* gomp_ptrlock_get claims a next_ws that is NULL; it is then set to anything.
FiniChain ==
    LET ws == local[Master]
        next == shares[ws].next
    IN  /\ pc[Master] = "fini" /\ next # Owned
        /\ shares' = [shares EXCEPT ![ws].use = -1,
                                    ![ws].next = IF next = None THEN ws ELSE next]
        /\ local' = [local EXCEPT ![Master] = next]
        /\ IF next = None THEN Goto(Master, "over") ELSE UNCHANGED pc
        /\ UNCHANGED <<listVars, teamVars, singleVars, shareVars, at, got>>

ShareStep(t) ==
    \/ Start(t) \/ GetSlow(t) \/ Alloc(t) \/ Take(t) \/ Malloc(t) \/ InitWorkShare(t)
    \/ InitDone(t) \/ EndNowait(t) \/ Arrive(t) \/ Retire(t) \/ Link(t) \/ Push(t)
    \/ Open(t) \/ Leave(t) \/ CopyEnd(t) \/ Single(t) \/ WakeCancelled(t)
    \/ CancellationPoint(t) \/ RegionEnd(t)

ShareNext == (\E t \in Team : ShareStep(t) \/ Cancel(t)) \/ TeamEnd \/ FiniChain

ShareSpec == ShareInit /\ [][ShareNext]_workVars

(* Every thread of the team is scheduled and its user code comes to an     *)
(* end; nobody has to cancel.                                              *)
ShareFairSpec ==
    /\ ShareSpec
    /\ WF_workVars(TeamEnd \/ FiniChain)
    /\ \A t \in Threads : WF_workVars(t \in Team /\ ShareStep(t))
-----------------------------------------------------------------------------
Live == {w \in Shares : shares[w].use >= 0}

\* The construct a thread behind construct k has its share from.
ShareOf(k) == Max({j \in 1..k : region.constructs[j] # "single"} \cup {0})

Starting == {"wait", "alloc", "take", "init"}

\* Threads find the same share for the same construct, however far apart they
\* are: a share is not freed, and so its next_ws not overwritten by next_free,
\* while a thread is in its construct or has to find the next one through it.
SharesAgree ==
    /\ \A v, w \in Live : shares[v].use = shares[w].use => v = w
    /\ \A t \in Team :
          /\ pc[t] \notin Starting \cup {"end", "fini", "over"} =>
                shares[work_share[t]].use = ShareOf(at[t])
          /\ pc[t] \in Starting \cup {"share"} =>
                shares[last_work_share[t]].use = ShareOf(at[t] - 1)

\* The shares on a list.
Listed(head) ==
    LET upTo[n \in 0..Cardinality(Shares)] ==
            IF n = 0 THEN {head} \cap Shares
            ELSE LET ws == upTo[n - 1] IN ws \cup ({shares[w].next : w \in ws} \cap Shares)
    IN  upTo[Cardinality(Shares)]

InHands == {local[t] : t \in {s \in Team : pc[s] = "init"}} \cup
           {last_work_share[t] : t \in {s \in Team : pc[s] \in {"link", "cas"}}}

\* "This is called in a critical section": one thread allocates at a time, and
\* one frees, so that only the two meet on the lists.  Until the team ends, a
\* share is in use, on its way from or to a list, or on exactly one list: taking
\* all but the head off the one list while others push to it neither loses a
\* share nor puts it on both.
NothingLost ==
    LET places == <<Live, InHands, Listed(list_alloc), Listed(list_free)>>
    IN  /\ Cardinality({t \in Team : pc[t] \in {"alloc", "take", "init"}}) <= 1
        /\ Cardinality({t \in Team : pc[t] \in {"retire", "link", "cas"}}) <= 1
        /\ pc[Master] \notin {"fini", "over"} =>
               \A w \in Shares : Cardinality({i \in 1..4 : w \in places[i]}) = 1

\* gomp_fini_work_share, which frees memory, is called once for each share
\* that was initialised, by the last thread through the next construct or at
\* the team's end; after a cancellation the chain from work_shares_to_free
\* holds what is left.
FinishedOnce ==
    /\ \A t \in Team : pc[t] = "retire" => last_work_share[t] \in Live
    /\ pc[Master] = "fini" => local[Master] \in Live
    /\ pc[Master] = "over" => Live = {}

\* Where every share is, and how often it is finished, through nowait constructs,
\* constructs with a barrier and cancellations in any order.
SharesAccounted == NothingLost /\ FinishedOnce

\* single, with and without copyprivate: everybody gets the data of the thread
\* that executed this very construct; and the first thread that gets to a
\* construct executes it, nobody else.
SinglesAgree ==
    /\ \A t \in Team : pc[t] = "nowait" /\ ~first[t] => got[t] = at[t]
    /\ \A k \in 1..region.length :
          region.constructs[k] = "single" =>
              Cardinality(ran[k]) = IF \E t \in Team : at[t] >= k THEN 1 ELSE 0

\* Every thread leaves the region.
EverybodyEnds == <>(\A t \in Team : pc[t] = "over")
=============================================================================
