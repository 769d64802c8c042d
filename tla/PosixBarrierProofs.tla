-------------------------- MODULE PosixBarrierProofs ------------------------
(***************************************************************************)
(* Theorems about the barriers of systems without futexes, PosixBarrier.   *)
(* PosixInv says who is in which barrier: who keeps mutex1, whom arrived   *)
(* counts, which generation a thread has read, and that the last thread    *)
(* that has not unlocked yet holds everybody else in the same barrier.     *)
(* Without tasks PostInv says that sem1 holds exactly one post for each    *)
(* thread that has not taken its own, and LeaveInv that nobody is in the   *)
(* barrier any more when the one that completed it unlocks mutex1.         *)
(***************************************************************************)
EXTENDS PosixBarrier, FiniteSetTheorems, TLAPS

PCs == {"user", "last", "complete", "post", "others", "wait", "look", "lookagain",
        "leave", "tell", "handle", "top", "task", "wakeall", "wakeone", "waitedtask",
        "cancel", "cancelled", "left"}
Records == [pc : PCs, phase : Int, n : Int, last : BOOLEAN, told : BOOLEAN,
            then : {"user", "task", "waitedtask", "top", "others"}]
Words == [n : Int, pending : BOOLEAN, waiting : BOOLEAN, cancelled : BOOLEAN]

(* The types of the variables; that the counters are no less than zero     *)
(* follows from what they count.                                           *)
Typed ==
    /\ posix \in PosixRegions
    /\ barrier \in [mutex1 : BOOLEAN, sem1 : Int, sem2 : Int, arrived : Int,
                    generation : Words, cancellable : BOOLEAN, freed : BOOLEAN]
    /\ counts \in [task : Int, queued : Int, running : Int, created : Int]
    /\ member \in [Members -> Records]

(* Who executes a task, or is about to, in the barrier's loop; who keeps   *)
(* mutex1 as the last to arrive, or as the one that cancels; who is        *)
(* counted in arrived.                                                     *)
Handling(t) == \/ member[t].pc \in {"handle", "top", "task", "wakeall"}
               \/ Is(t, "wakeone") /\ member[t].then = "task"
Last(t) == \/ member[t].pc \in {"last", "complete", "post", "others"}
           \/ Handling(t) /\ member[t].last
Holds(t) == Last(t) \/ Is(t, "cancelled")
Waits(t) == \/ member[t].pc \in {"wait", "look", "lookagain", "leave"}
            \/ Handling(t) /\ ~member[t].last
Counted == {t \in Members : Waits(t) \/ Is(t, "last")}

(* In the barrier, that is, also while it still has to tell the last one.  *)
Inside(t) == Waits(t) \/ Last(t) \/ Is(t, "tell")
(* Behind the final barrier; on its way out of the present one.            *)
Over(t) == AtSimple(t) \/ Is(t, "left")
Here(t) == member[t].n = barrier.generation.n
Done(t) == member[t].n + 1 = barrier.generation.n

(* The simple barrier has begun; posts left over from tasks may have let   *)
(* somebody through.                                                       *)
Ended == \E t \in Members : AtSimple(t) /\ ~Is(t, "user")
Clean == Ended => posix.tasks = 0

HoldInv ==
    /\ \A s, t \in Members : Holds(s) /\ Holds(t) => s = t
    /\ \A t \in Members : Holds(t) => barrier.mutex1
    /\ barrier.mutex1 => \E t \in Members : Holds(t)

CountInv ==
    /\ barrier.arrived = Cardinality(Counted)
    /\ barrier.sem2 \in {0, 1}
    /\ barrier.sem2 > 0 => barrier.arrived = 0 /\ barrier.mutex1 /\ posix.size # 1
    /\ \A t \in Members : Is(t, "tell") =>
          /\ barrier.sem2 = 0 /\ barrier.arrived = 0
          /\ \A s \in Members : Is(s, "tell") => s = t
    /\ \A t \in Members : member[t].pc \in {"leave", "tell"} => barrier.mutex1
    /\ \A s, t \in Members : Is(t, "last") => s = t \/ (Waits(s) /\ ~Is(s, "leave"))

(* The tasks that are counted are queued or somebody executes them.        *)
TaskPc(t) == \/ member[t].pc \in {"task", "waitedtask"}
             \/ Is(t, "wakeone") /\ member[t].then # "user"
Executing == {t \in Members : TaskPc(t)}
TaskInv ==
    /\ counts.queued >= 0
    /\ counts.task = counts.queued + Cardinality(Executing)
    /\ \A t \in Members : Is(t, "complete") => counts.task = 0

(* Where a thread is, by its pc.                                           *)
SimplePcs == {"last", "post", "others", "wait", "look", "leave", "tell", "left"}
PlaceOf(t) ==
    /\ member[t].phase \in 0..posix.barriers + 2
    /\ AtSimple(t) => posix.nested /\ member[t].pc \in SimplePcs \cup {"user"}
    /\ Is(t, "left") => AtSimple(t) \/ ~posix.nested
    /\ Is(t, "wakeall") => member[t].then \in {"top", "others"}
    /\ Is(t, "wakeall") /\ member[t].then = "others" => member[t].last
    /\ Is(t, "wakeone") => member[t].then \in {"user", "task", "waitedtask"}
    /\ member[t].pc \in {"wait", "look", "lookagain", "leave", "tell"} => ~member[t].last
    /\ Is(t, "last") => member[t].last
    /\ member[t].pc \in {"cancel", "cancelled"} => AtCancellable(t)
    /\ Is(t, "cancelled") => /\ barrier.generation.cancelled
                             /\ member[t].phase = barrier.generation.n
    /\ member[t].told =>
          /\ member[t].pc \in {"leave", "tell"} /\ AtCancellable(t) /\ Here(t)
          /\ barrier.generation.cancelled
          /\ \E h \in Members : Is(h, "cancelled")
    /\ Is(t, "lookagain") => ~member[t].told

(* In which barrier a thread is that is not through with the final one.    *)
OutsideOf(t) ==
    ~Over(t) /\ ~Inside(t) =>
        \/ member[t].phase = barrier.generation.n /\ member[t].phase <= posix.barriers
        \/ Skipping(t) /\ barrier.generation.cancelled
HereOf(t) ==
    ~Over(t) /\ Inside(t) /\ Here(t) =>
        /\ member[t].pc \in {"leave", "tell"} => member[t].told
        /\ member[t].pc \notin {"post", "top", "wakeall"}
        /\ \/ /\ member[t].phase = barrier.generation.n /\ member[t].phase <= posix.barriers
              /\ barrier.generation.cancelled =>
                    AtCancellable(t) /\ \E h \in Members : Is(h, "cancelled")
           \/ Skipping(t) /\ barrier.generation.cancelled
DoneOf(t) ==
    ~Over(t) /\ Inside(t) /\ ~Here(t) =>
        /\ Done(t) /\ ~barrier.generation.cancelled
        /\ member[t].phase = member[t].n \/ Skipping(t)
        /\ member[t].phase <= posix.barriers + 1
        /\ member[t].pc \notin {"last", "complete"}
        /\ Is(t, "handle") => ~member[t].last
        /\ \E h \in Members : Last(h) /\ Done(h) /\ ~Over(h)
LastOf(h) ==
    ~Over(h) /\ Last(h) =>
        /\ Here(h) => \A s \in Members : /\ ~Over(s)
                                         /\ s # h => Waits(s) /\ Here(s)
        /\ Done(h) => \A s \in Members : ~Over(s) /\ Inside(s) => Done(s)
        /\ member[h].pc \in {"last", "complete", "handle"} => ~barrier.generation.waiting
        /\ Here(h) /\ member[h].pc \notin {"last", "complete", "handle"} =>
              barrier.generation.waiting
        /\ Here(h) /\ Is(h, "others") => counts.task > counts.queued

StageInv ==
    /\ \A t \in Members : OutsideOf(t) /\ HereOf(t) /\ DoneOf(t) /\ LastOf(t)
    /\ barrier.generation.waiting => \E h \in Members : ~Over(h) /\ Last(h) /\ Here(h)
    /\ barrier.generation.cancelled => /\ barrier.generation.n < posix.barriers
                                       /\ posix.cancellable
    /\ ~barrier.mutex1 => \A s \in Members :
          Waits(s) /\ AtCancellable(s) => barrier.cancellable

(* The final barrier is complete for everybody as soon as it is for one.   *)
Through(t) == Over(t) \/ (AtFinal(t) /\ Inside(t) /\ Done(t))
OverInv ==
    /\ (\E t \in Members : Through(t)) => \A s \in Members : Through(s)
    /\ Ended => \A s \in Members : AtSimple(s)

PosixInv == /\ Typed /\ HoldInv /\ (Clean => CountInv) /\ TaskInv
            /\ (\A t \in Members : PlaceOf(t)) /\ StageInv /\ OverInv

(* Without tasks the posts of sem1 are exact.                              *)
Released == \E h \in Members : member[h].pc \in {"others", "cancelled"}
Waiting == {t \in Members : Is(t, "wait")}
PostInv ==
    posix.tasks = 0 =>
        /\ counts.task = 0 /\ counts.queued = 0 /\ counts.created = 0
        /\ ~barrier.generation.pending /\ ~barrier.generation.waiting
        /\ barrier.sem1 = IF Released THEN Cardinality(Waiting) ELSE 0
        /\ \A t \in Members :
              /\ ~Handling(t) /\ member[t].pc \notin {"lookagain", "wakeone", "waitedtask"}
              /\ member[t].pc \in {"look", "leave"} => Released
              /\ Is(t, "post") => \A s \in Members : s = t \/ Is(s, "wait")
              /\ Is(t, "others") /\ ~Over(t) => Done(t)
              /\ Is(t, "cancelled") => \A s \in Members : Waits(s) => AtCancellable(s)

Leaving == {"left", "wait", "look", "leave", "tell", "others"}
LeaveInv ==
    posix.tasks = 0 /\ posix.nested =>
        /\ \A t \in Members : (AtSimple(t) /\ Is(t, "others")) \/ Is(t, "left") =>
              \A s \in Members : member[s].pc \in Leaving
        /\ ~barrier.mutex1 => \A t \in Members : Is(t, "left") =>
              \A s \in Members : Is(s, "left")
FreedInv == barrier.freed => /\ Is(0, "left") /\ posix.nested
                             /\ posix.tasks = 0 => \A t \in Members : Is(t, "left")
-----------------------------------------------------------------------------
(* A step of a thread.                                                     *)

Moves(t, r) == /\ posix' = posix /\ r \in Records
               /\ member' = [member EXCEPT ![t] = r]

\* The other threads are where they were.
Same(s) ==
    /\ member'[s] = member[s]
    /\ (Waits(s)' <=> Waits(s)) /\ (Last(s)' <=> Last(s)) /\ (Holds(s)' <=> Holds(s))
    /\ (Handling(s)' <=> Handling(s)) /\ (Inside(s)' <=> Inside(s))
    /\ (Over(s)' <=> Over(s)) /\ (AtSimple(s)' <=> AtSimple(s))
    /\ (Skipping(s)' <=> Skipping(s)) /\ (AtFinal(s)' <=> AtFinal(s))
    /\ (AtCancellable(s)' <=> AtCancellable(s)) /\ (TaskPc(s)' <=> TaskPc(s))

\* A step of one thread: the team is the same, the others stay where they are.
LEMMA MovesFrame ==
  ASSUME Typed, NEW t \in Members, NEW r, Moves(t, r)
  PROVE  /\ Members' = Members
         /\ member' \in [Members -> Records]
         /\ member'[t] = r
         /\ \A s \in Members : s # t => Same(s)
<1>1. Members' = Members
  BY DEF Moves, Members
<1>2. /\ member' \in [Members -> Records]
      /\ member'[t] = r
      /\ \A s \in Members : s # t => member'[s] = member[s]
  BY DEF Moves, Typed
<1>3. ASSUME NEW s \in Members, s # t PROVE Same(s)
  <2>1. member'[s] = member[s] /\ posix' = posix
    BY <1>2, <1>3 DEF Moves
  <2>2. /\ (Waits(s)' <=> Waits(s)) /\ (Last(s)' <=> Last(s)) /\ (Holds(s)' <=> Holds(s))
        /\ (Handling(s)' <=> Handling(s)) /\ (Inside(s)' <=> Inside(s))
        /\ (TaskPc(s)' <=> TaskPc(s))
    BY <2>1 DEF Waits, Last, Holds, Handling, Inside, TaskPc, Is
  <2>3. /\ (AtSimple(s)' <=> AtSimple(s)) /\ (Skipping(s)' <=> Skipping(s))
        /\ (AtFinal(s)' <=> AtFinal(s)) /\ (AtCancellable(s)' <=> AtCancellable(s))
    BY <2>1 DEF AtSimple, Skipping, AtFinal, AtCancellable
  <2>4. Over(s)' <=> Over(s)
    BY <2>1, <2>3 DEF Over, Is
  <2> QED
    BY <2>1, <2>2, <2>3, <2>4 DEF Same
<1> QED
  BY <1>1, <1>2, <1>3

\* The team is finite, and so is the set of those of its threads that are counted.
LEMMA MembersFinite ==
  ASSUME Typed
  PROVE  /\ posix.size \in Nat \ {0} /\ posix.barriers \in Nat /\ posix.tasks \in Nat
         /\ IsFiniteSet(Members) /\ Cardinality(Members) = posix.size
         /\ 0 \in Members
<1>1. posix.size \in Nat \ {0} /\ posix.barriers \in Nat /\ posix.tasks \in Nat
  BY PosixAssumption DEF Typed
<1>2. IsFiniteSet(Members) /\ Cardinality(Members) = posix.size
  <2> DEFINE n == posix.size - 1
  <2>1. n \in Int /\ ~(0 > n) /\ n - 0 + 1 = posix.size
    BY <1>1
  <2>2. IsFiniteSet(0..n) /\ Cardinality(0..n) = IF 0 > n THEN 0 ELSE n - 0 + 1
    BY <2>1, FS_Interval
  <2> QED
    BY <2>1, <2>2 DEF Members
<1> QED
  BY <1>1, <1>2 DEF Members

\* How many are in a set of threads, when one thread enters or leaves it.
LEMMA OneMore ==
  ASSUME Typed, NEW S \in SUBSET Members, NEW t \in Members
  PROVE  /\ Cardinality(S) \in Nat
         /\ t \notin S => Cardinality(S \cup {t}) = Cardinality(S) + 1
         /\ t \in S => Cardinality(S \ {t}) = Cardinality(S) - 1
         /\ (Cardinality(S) = 0) <=> (S = {})
<1>1. IsFiniteSet(S)
  BY MembersFinite, FS_Subset
<1> QED
  BY <1>1, FS_AddElement, FS_RemoveElement, FS_CardinalityType, FS_EmptySet

\* When all but one thread are in a set, its number says so.
LEMMA AllButOne ==
  ASSUME Typed, NEW S \in SUBSET Members, NEW t \in Members, t \notin S
  PROVE  Cardinality(S) + 1 = posix.size <=> \A s \in Members : s # t => s \in S
<1>1. Cardinality(S \cup {t}) = Cardinality(S) + 1 /\ S \cup {t} \in SUBSET Members
  BY OneMore
<1>2. Cardinality(S \cup {t}) = Cardinality(Members) => Members = S \cup {t}
  BY <1>1, MembersFinite, FS_Subset
<1>3. (\A s \in Members : s # t => s \in S) => Members = S \cup {t}
  BY <1>1
<1> QED
  BY <1>1, <1>2, <1>3, MembersFinite

\* The sets that are counted, behind a step of a thread.
LEMMA CountMoves ==
  ASSUME Typed, NEW t \in Members, NEW r, Moves(t, r)
  PROVE  /\ Counted' = IF Waits(t)' \/ Is(t, "last")' THEN Counted \cup {t} ELSE Counted \ {t}
         /\ Executing' = IF TaskPc(t)' THEN Executing \cup {t} ELSE Executing \ {t}
         /\ Waiting' = IF Is(t, "wait")' THEN Waiting \cup {t} ELSE Waiting \ {t}
         /\ t \in Counted <=> Waits(t) \/ Is(t, "last")
         /\ t \in Executing <=> TaskPc(t)
         /\ t \in Waiting <=> Is(t, "wait")
         /\ Counted \in SUBSET Members /\ Executing \in SUBSET Members
         /\ Waiting \in SUBSET Members
<1>1. Members' = Members /\ \A s \in Members : s # t => Same(s)
  BY MovesFrame
<1>2. Counted' = IF Waits(t)' \/ Is(t, "last")' THEN Counted \cup {t} ELSE Counted \ {t}
  BY <1>1 DEF Counted, Same, Is
<1>3. Executing' = IF TaskPc(t)' THEN Executing \cup {t} ELSE Executing \ {t}
  BY <1>1 DEF Executing, Same
<1>4. Waiting' = IF Is(t, "wait")' THEN Waiting \cup {t} ELSE Waiting \ {t}
  BY <1>1 DEF Waiting, Same, Is
<1> QED
  BY <1>2, <1>3, <1>4 DEF Counted, Executing, Waiting
-----------------------------------------------------------------------------
(* Steps that do not change who is in which barrier.                       *)

Stays(t, r) ==
    /\ Moves(t, r)
    /\ r.phase = member[t].phase /\ r.n = member[t].n /\ r.last = member[t].last
    /\ ~r.told /\ ~member[t].told
    /\ r.pc \notin {"last", "complete", "leave", "tell", "left", "cancelled", "post"}
    /\ r.pc \in {"top", "wakeall"} => member[t].pc \in {"top", "wakeall"}
    /\ member[t].pc \notin {"last", "complete", "leave", "tell", "left", "cancelled"}
    /\ (Waits(t)' <=> Waits(t)) /\ (Last(t)' <=> Last(t))
    /\ AtSimple(t) => (member[t].pc = "user" <=> r.pc = "user")
    /\ r.pc = "handle" => ~r.last
    /\ barrier'.mutex1 = barrier.mutex1 /\ barrier'.arrived = barrier.arrived
    /\ barrier'.sem2 = barrier.sem2 /\ barrier'.cancellable = barrier.cancellable
    /\ barrier'.generation.n = barrier.generation.n
    /\ barrier'.generation.cancelled = barrier.generation.cancelled
    /\ barrier'.generation.waiting =>
          barrier.generation.waiting \/ (Last(t) /\ Here(t) /\ ~Over(t))
    /\ barrier.generation.waiting =>
          /\ barrier'.generation.waiting
          /\ counts.task > counts.queued => counts'.task > counts'.queued
    /\ Last(t) /\ Here(t) /\ ~Over(t) =>
          /\ barrier'.generation.waiting
          /\ r.pc = "others" => counts'.task > counts'.queued

\* Such a step changes of the thread only what it does next.
LEMMA StaysSame ==
  ASSUME Typed, NEW t \in Members, NEW r, Stays(t, r)
  PROVE  /\ Members' = Members /\ member'[t] = r
         /\ \A s \in Members : s # t => Same(s)
         /\ \A s \in Members :
               /\ (Waits(s)' <=> Waits(s)) /\ (Last(s)' <=> Last(s))
               /\ (Holds(s)' <=> Holds(s)) /\ (Inside(s)' <=> Inside(s))
               /\ (Over(s)' <=> Over(s)) /\ (AtSimple(s)' <=> AtSimple(s))
               /\ (Skipping(s)' <=> Skipping(s)) /\ (AtFinal(s)' <=> AtFinal(s))
               /\ (AtCancellable(s)' <=> AtCancellable(s))
               /\ (Here(s)' <=> Here(s)) /\ (Done(s)' <=> Done(s))
               /\ member'[s].phase = member[s].phase /\ member'[s].n = member[s].n
               /\ member'[s].last = member[s].last /\ member'[s].told = member[s].told
         /\ posix' = posix
<1>1. /\ Members' = Members /\ member'[t] = r
      /\ \A s \in Members : s # t => Same(s)
  BY MovesFrame DEF Stays
<1>2. posix' = posix
  BY DEF Stays, Moves
<1>3. /\ member[t].told = r.told
  BY DEF Stays, Moves, Records, Typed
<1>4. /\ (Waits(t)' <=> Waits(t)) /\ (Last(t)' <=> Last(t))
      /\ (Is(t, "tell")' <=> Is(t, "tell")) /\ (Is(t, "cancelled")' <=> Is(t, "cancelled"))
      /\ (Is(t, "left")' <=> Is(t, "left"))
  BY <1>1 DEF Stays, Is
<1>5. /\ (Holds(t)' <=> Holds(t)) /\ (Inside(t)' <=> Inside(t))
  BY <1>4 DEF Holds, Inside
<1>6. /\ (AtSimple(t)' <=> AtSimple(t)) /\ (Skipping(t)' <=> Skipping(t))
      /\ (AtFinal(t)' <=> AtFinal(t)) /\ (AtCancellable(t)' <=> AtCancellable(t))
  BY <1>1, <1>2 DEF Stays, AtSimple, Skipping, AtFinal, AtCancellable
<1>7. Over(t)' <=> Over(t)
  BY <1>4, <1>6 DEF Over
<1>8. \A s \in Members : /\ member'[s].phase = member[s].phase /\ member'[s].n = member[s].n
               /\ member'[s].last = member[s].last /\ member'[s].told = member[s].told
  BY <1>1, <1>3 DEF Stays, Same
<1>9. \A s \in Members : (Here(s)' <=> Here(s)) /\ (Done(s)' <=> Done(s))
  BY <1>8 DEF Stays, Here, Done
<1> QED
  BY <1>1, <1>2, <1>4, <1>5, <1>6, <1>7, <1>8, <1>9 DEF Same

\* So it keeps everything that is about all threads; ...
LEMMA StaysKeeps ==
  ASSUME PosixInv, NEW t \in Members, NEW r, Stays(t, r)
  PROVE  /\ HoldInv' /\ (Clean' => Clean) /\ (Clean' => CountInv')
         /\ (\A s \in Members : s # t => PlaceOf(s)')
         /\ StageInv' /\ OverInv'
<1> USE DEF PosixInv
<1>1. /\ Members' = Members /\ member'[t] = r /\ posix' = posix
      /\ \A s \in Members : s # t => Same(s)
  BY StaysSame
<1>2. \A s \in Members :
               /\ (Waits(s)' <=> Waits(s)) /\ (Last(s)' <=> Last(s))
               /\ (Holds(s)' <=> Holds(s)) /\ (Inside(s)' <=> Inside(s))
               /\ (Over(s)' <=> Over(s)) /\ (AtSimple(s)' <=> AtSimple(s))
               /\ (Skipping(s)' <=> Skipping(s)) /\ (AtFinal(s)' <=> AtFinal(s))
               /\ (AtCancellable(s)' <=> AtCancellable(s))
               /\ (Here(s)' <=> Here(s)) /\ (Done(s)' <=> Done(s))
               /\ member'[s].phase = member[s].phase /\ member'[s].n = member[s].n
               /\ member'[s].last = member[s].last /\ member'[s].told = member[s].told
  BY StaysSame
<1>3. \A s \in Members, p \in {"last", "complete", "leave", "tell", "left", "cancelled"} :
         member'[s].pc = p <=> member[s].pc = p
  BY <1>1 DEF Stays, Same
<1>4. /\ barrier'.mutex1 = barrier.mutex1 /\ barrier'.arrived = barrier.arrived
      /\ barrier'.sem2 = barrier.sem2 /\ barrier'.cancellable = barrier.cancellable
      /\ barrier'.generation.n = barrier.generation.n
      /\ barrier'.generation.cancelled = barrier.generation.cancelled
  BY DEF Stays
<1>5. HoldInv'
  BY <1>1, <1>2, <1>4 DEF HoldInv
<1>6. Ended' <=> Ended
  BY <1>1, <1>2 DEF Ended, Stays, Same, Is
<1>7. Clean' => Clean
  BY <1>6, <1>1 DEF Clean
<1>8. Counted' = Counted
  BY <1>1, <1>2, <1>3 DEF Counted, Is
<1>9. CountInv => CountInv'
  BY <1>1, <1>2, <1>3, <1>4, <1>8 DEF CountInv, Is
<1>10. \A s \in Members : s # t => PlaceOf(s)'
  <2> SUFFICES ASSUME NEW s \in Members, s # t PROVE PlaceOf(s)'
    OBVIOUS
  <2>1. PlaceOf(s)
    OBVIOUS
  <2>2. member'[s] = member[s] /\ Same(s)
    BY <1>1 DEF Same
  <2>3. (\E h \in Members : Is(h, "cancelled"))' <=> (\E h \in Members : Is(h, "cancelled"))
    BY <1>1, <1>3 DEF Is
  <2> QED
    BY <2>1, <2>2, <2>3, <1>1, <1>2, <1>4 DEF PlaceOf, Is
<1>11. OverInv'
  <2>1. \A s \in Members : Through(s)' <=> Through(s)
    BY <1>1, <1>2 DEF Through
  <2> QED
    BY <2>1, <1>1, <1>2, <1>6 DEF OverInv
<1>12. StageInv'
  <2>1. ASSUME NEW s \in Members PROVE OutsideOf(s)'
    BY <1>1, <1>2, <1>4 DEF StageInv, OutsideOf
  <2>2. ASSUME NEW s \in Members PROVE HereOf(s)'
    <3>1. HereOf(s)
      BY DEF StageInv
    <3>2. member'[s].pc \in {"post", "top", "wakeall"} =>
             member[s].pc \in {"post", "top", "wakeall"}
      BY <1>1 DEF Stays, Same
    <3>3. (\E h \in Members : Is(h, "cancelled"))' <=> (\E h \in Members : Is(h, "cancelled"))
      BY <1>1, <1>3 DEF Is
    <3> QED
      BY <3>1, <3>2, <3>3, <1>1, <1>2, <1>3, <1>4 DEF HereOf, Is
  <2>3. ASSUME NEW s \in Members PROVE DoneOf(s)'
    <3>1. DoneOf(s)
      BY DEF StageInv
    <3>2. member'[s].pc = "handle" /\ member[s].pc # "handle" => ~member[s].last
      BY <1>1 DEF Stays, Same
    <3> QED
      BY <3>1, <3>2, <1>1, <1>2, <1>3, <1>4 DEF DoneOf, Is
  <2>4. ASSUME NEW s \in Members PROVE LastOf(s)'
    <3>1. LastOf(s)
      BY DEF StageInv
    <3>2. CASE s = t
      <4>1. Last(s) /\ ~Over(s) => member'[s].pc \notin {"last", "complete", "handle"}
        <5>1. Waits(s) => ~Last(s)
          BY DEF Waits, Last, Handling, Is
        <5>2. Last(s)' /\ member'[s].pc = "handle" => member'[s].last
          BY DEF Last, Handling, Is
        <5> QED
          BY <5>2, <3>2, <1>1, <1>2 DEF Stays
      <4>2. Last(s) /\ ~Over(s) /\ Here(s) =>
               /\ barrier'.generation.waiting
               /\ Is(s, "others")' => counts'.task > counts'.queued
        BY <3>2, <1>1 DEF Stays, Is
      <4> QED
        BY <4>1, <4>2, <3>1, <1>1, <1>2, <1>3 DEF LastOf, Is
    <3>3. CASE s # t
      <4>1. member'[s] = member[s]
        BY <1>1, <3>3 DEF Same
      <4>2. Last(s) => ~Last(t)
        BY <3>3 DEF HoldInv, Holds
      <4>3. Last(s) /\ barrier'.generation.waiting => barrier.generation.waiting
        BY <4>2 DEF Stays
      <4>4. barrier.generation.waiting =>
               /\ barrier'.generation.waiting
               /\ counts.task > counts.queued => counts'.task > counts'.queued
        BY DEF Stays
      <4>5. member[s].pc \notin {"last", "complete", "handle"} /\ Last(s) /\ ~Over(s)
               /\ Here(s) => barrier.generation.waiting
        BY <3>1 DEF LastOf
      <4>6. Is(s, "others") => member[s].pc \notin {"last", "complete", "handle"}
        BY DEF Is
      <4> QED
        BY <4>1, <4>3, <4>4, <4>5, <4>6, <3>1, <1>1, <1>2, <1>3 DEF LastOf, Is
    <3> QED
      BY <3>2, <3>3
  <2>5. barrier'.generation.waiting => \E h \in Members : (~Over(h) /\ Last(h) /\ Here(h))'
    <3>1. barrier'.generation.waiting =>
              barrier.generation.waiting \/ (Last(t) /\ Here(t) /\ ~Over(t))
      BY DEF Stays
    <3> QED
      BY <3>1, <1>2 DEF StageInv
  <2>6. (barrier.generation.cancelled => /\ barrier.generation.n < posix.barriers
                                         /\ posix.cancellable)'
    BY <1>1, <1>4 DEF StageInv
  <2>7. (~barrier.mutex1 => \A s \in Members :
          Waits(s) /\ AtCancellable(s) => barrier.cancellable)'
    BY <1>1, <1>2, <1>4 DEF StageInv
  <2> QED
    BY <2>1, <2>2, <2>3, <2>4, <2>5, <2>6, <2>7, <1>1 DEF StageInv
<1> QED
  BY <1>5, <1>7, <1>9, <1>10, <1>11, <1>12

\* ... what is left to see to is the thread itself and the tasks.
LEMMA StaysInv ==
  ASSUME PosixInv, NEW t \in Members, NEW r, Stays(t, r), Typed', PlaceOf(t)', TaskInv'
  PROVE  PosixInv'
<1>1. Members' = Members
  BY StaysSame DEF PosixInv
<1> QED
  BY <1>1, StaysKeeps DEF PosixInv

\* The tasks that are executed, behind a step of a thread.
LEMMA TasksMove ==
  ASSUME Typed, TaskInv, NEW t \in Members, NEW r, Moves(t, r), counts'.queued \in Int,
         r.pc # "complete",
         counts'.queued >= 0,
         (TaskPc(t)' <=> TaskPc(t)) =>
            counts'.task - counts'.queued = counts.task - counts.queued,
         TaskPc(t) /\ ~TaskPc(t)' =>
            counts'.task - counts'.queued = counts.task - counts.queued - 1,
         ~TaskPc(t) /\ TaskPc(t)' =>
            counts'.task - counts'.queued = counts.task - counts.queued + 1,
         counts' \in [task : Int, queued : Int, running : Int, created : Int],
         \/ counts'.task = counts.task
         \/ TaskPc(t) \/ counts.queued # 0
         \/ \A s \in Members : ~Is(s, "complete")
  PROVE  TaskInv'
<1>1. /\ Executing' = IF TaskPc(t)' THEN Executing \cup {t} ELSE Executing \ {t}
      /\ t \in Executing <=> TaskPc(t)
      /\ Executing \in SUBSET Members
  BY CountMoves
<1>2. /\ Cardinality(Executing) \in Nat
      /\ t \notin Executing => Cardinality(Executing \cup {t}) = Cardinality(Executing) + 1
      /\ t \in Executing => Cardinality(Executing \ {t}) = Cardinality(Executing) - 1
  BY <1>1, OneMore
<1>3. /\ TaskPc(t) /\ TaskPc(t)' => Executing' = Executing
      /\ ~TaskPc(t) /\ ~TaskPc(t)' => Executing' = Executing
      /\ TaskPc(t) /\ ~TaskPc(t)' => Executing' = Executing \ {t}
      /\ ~TaskPc(t) /\ TaskPc(t)' => Executing' = Executing \cup {t}
  BY <1>1
<1>4. counts \in [task : Int, queued : Int, running : Int, created : Int]
  BY DEF Typed
<1>5. counts'.task = counts'.queued + Cardinality(Executing')
  <2>1. /\ counts.task \in Int /\ counts.queued \in Int
        /\ counts'.task \in Int /\ counts'.queued \in Int
        /\ counts.task = counts.queued + Cardinality(Executing)
    BY <1>4 DEF TaskInv
  <2>2. CASE TaskPc(t) <=> TaskPc(t)'
    <3>1. Executing' = Executing
      BY <2>2, <1>3
    <3> QED
      BY <3>1, <2>1, <2>2, <1>2
  <2>3. CASE TaskPc(t) /\ ~TaskPc(t)'
    <3>1. Cardinality(Executing') = Cardinality(Executing) - 1
      BY <2>3, <1>1, <1>2, <1>3
    <3> QED
      BY <3>1, <2>1, <2>3, <1>2
  <2>4. CASE ~TaskPc(t) /\ TaskPc(t)'
    <3>1. Cardinality(Executing') = Cardinality(Executing) + 1
      BY <2>4, <1>1, <1>2, <1>3
    <3> QED
      BY <3>1, <2>1, <2>4, <1>2
  <2> QED
    BY <2>2, <2>3, <2>4
<1>6. \A s \in Members' : Is(s, "complete")' => counts'.task = 0
  <2> SUFFICES ASSUME NEW s \in Members, Is(s, "complete")' PROVE counts'.task = 0
    BY MovesFrame
  <2>1. s # t /\ Is(s, "complete")
    BY MovesFrame DEF Same, Is
  <2>2. counts.task = 0 /\ counts.queued >= 0
    BY <2>1 DEF TaskInv
  <2>3. counts.queued = 0 /\ Cardinality(Executing) = 0
    BY <2>2, <1>2, <1>4 DEF TaskInv
  <2>4. Executing = {}
    BY <2>3, <1>1, OneMore
  <2>5. ~TaskPc(t)
    BY <2>4, <1>1
  <2> QED
    BY <2>1, <2>2, <2>3, <2>5
<1> QED
  BY <1>5, <1>6 DEF TaskInv

\* Who neither begins nor ends a task leaves the count of tasks as it is.
LEMMA TasksKept ==
  ASSUME Typed, TaskInv, NEW t \in Members, NEW r, Moves(t, r), r.pc # "complete",
         counts' = counts, TaskPc(t)' <=> TaskPc(t)
  PROVE  TaskInv'
<1>1. counts' \in [task : Int, queued : Int, running : Int, created : Int]
  BY DEF Typed
<1>2. counts'.queued \in Int /\ counts'.queued >= 0 /\ counts'.task = counts.task
  BY <1>1 DEF TaskInv
<1> QED
  BY <1>1, <1>2, TasksMove
-----------------------------------------------------------------------------
(* The actions of this kind.                                               *)

\* What a step does to the record of a thread at most keeps its type.
LEMMA RecordsTyped ==
  ASSUME NEW r \in Records, NEW p \in PCs,
         NEW q \in {"user", "task", "waitedtask", "top", "others"}, NEW b \in BOOLEAN
  PROVE  /\ [r EXCEPT !.pc = p] \in Records
         /\ [r EXCEPT !.told = b, !.pc = p] \in Records
         /\ [r EXCEPT !.then = q, !.pc = p] \in Records
BY DEF Records

\* A thread that executes no task in the barrier is not told of cancellation.
LEMMA NotTold ==
  ASSUME PosixInv, NEW t \in Members
  PROVE  /\ member[t] \in Records
         /\ member[t].pc \notin {"leave", "tell"} => ~member[t].told
BY DEF PosixInv, Typed, PlaceOf

\* What StageInv says of a thread that stays, and of the others while the last one
\* waits for tasks.
LEMMA WhileHere ==
  ASSUME PosixInv, NEW t \in Members
  PROVE  /\ Last(t) /\ Here(t) /\ ~Over(t) =>
            /\ member[t].pc \notin {"last", "complete", "handle"} => barrier.generation.waiting
            /\ member[t].pc \notin {"post", "top", "wakeall"}
         /\ barrier.generation.waiting => Inside(t)
         /\ counts.task \in Int /\ counts.queued \in Int
<1>1. Last(t) => Inside(t)
  BY DEF Inside
<1>2. LastOf(t) /\ HereOf(t)
  BY DEF PosixInv, StageInv
<1>3. barrier.generation.waiting => Inside(t)
  <2> SUFFICES ASSUME barrier.generation.waiting PROVE Inside(t)
    OBVIOUS
  <2>1. PICK h \in Members : ~Over(h) /\ Last(h) /\ Here(h)
    BY DEF PosixInv, StageInv
  <2>2. t # h => Waits(t)
    BY <2>1 DEF PosixInv, StageInv, LastOf
  <2> QED
    BY <2>1, <2>2 DEF Inside
<1>4. counts.task \in Int /\ counts.queued \in Int
  BY DEF PosixInv, Typed
<1> QED
  BY <1>1, <1>2, <1>3, <1>4 DEF LastOf, HereOf

\* The last thread posts sem1 for the others.
LEMMA PostOthersInv ==
  ASSUME PosixInv, NEW t \in Members, PostOthers(t)
  PROVE  PosixInv'
<1> DEFINE r == [member[t] EXCEPT !.pc = "others"]
<1>1. r \in Records /\ ~member[t].told /\ member[t] \in Records /\ member[t].pc = "post"
  BY NotTold, RecordsTyped DEF PostOthers, Is, PCs
<1>2. Moves(t, r)
  BY <1>1 DEF PostOthers, Proceed, Moves
<1>3. member'[t] = r /\ Members' = Members /\ member' \in [Members -> Records]
  BY <1>2, MovesFrame DEF PosixInv
<1>4. Stays(t, r)
  <2>1. (Waits(t)' <=> Waits(t)) /\ (Last(t)' <=> Last(t)) /\ Last(t)
    BY <1>1, <1>3 DEF Waits, Last, Handling, Is, Records
  <2>2. ~(Here(t) /\ ~Over(t))
    BY <1>1, <2>1, WhileHere
  <2>3. counts' = counts /\ barrier'.generation = barrier.generation
    BY DEF PostOthers, PosixInv, Typed
  <2> QED
    BY <1>1, <1>2, <1>3, <2>1, <2>2, <2>3 DEF PostOthers, Stays, Is, Records, PosixInv, Typed
<1>5. Typed'
  BY <1>1, <1>3, MembersFinite DEF PostOthers, PosixInv, Typed
<1>6. PlaceOf(t)'
  BY <1>1, <1>2, <1>3 DEF PosixInv, PlaceOf, Moves, Is, AtSimple, AtCancellable, Records, SimplePcs
<1>7. TaskInv'
  <2>1. ~TaskPc(t) /\ ~TaskPc(t)'
    BY <1>1, <1>3 DEF TaskPc, Is
  <2> QED
    BY <2>1, <1>1, <1>2, TasksKept DEF PostOthers, PosixInv, Records
<1> QED
  BY <1>4, <1>5, <1>6, <1>7, StaysInv

\* A thread takes a post of sem1.
LEMMA SemWaitInv ==
  ASSUME PosixInv, NEW t \in Members, SemWait(t)
  PROVE  PosixInv'
<1> DEFINE r == [member[t] EXCEPT !.pc = "look"]
<1>1. r \in Records /\ ~member[t].told /\ member[t] \in Records /\ member[t].pc = "wait"
  BY NotTold, RecordsTyped DEF SemWait, Is, PCs
<1>2. Moves(t, r)
  BY <1>1 DEF SemWait, Proceed, Moves
<1>3. member'[t] = r /\ Members' = Members /\ member' \in [Members -> Records]
  BY <1>2, MovesFrame DEF PosixInv
<1>4. Stays(t, r)
  BY <1>1, <1>2, <1>3 DEF SemWait, Stays, Waits, Last, Handling, Is, Records, PosixInv, Typed
<1>5. Typed'
  BY <1>1, <1>3 DEF SemWait, PosixInv, Typed
<1>6. PlaceOf(t)'
  BY <1>1, <1>2, <1>3 DEF PosixInv, PlaceOf, Moves, Is, AtSimple, AtCancellable, Records, SimplePcs
<1>7. TaskInv'
  <2>1. ~TaskPc(t) /\ ~TaskPc(t)'
    BY <1>1, <1>3 DEF TaskPc, Is
  <2> QED
    BY <2>1, <1>1, <1>2, TasksKept DEF SemWait, PosixInv, Records
<1> QED
  BY <1>4, <1>5, <1>6, <1>7, StaysInv

\* A look that does not end the wait.
LEMMA LookStaysInv ==
  ASSUME PosixInv, NEW t \in Members, Look(t), member'[t].pc # "leave"
  PROVE  PosixInv'
<1> DEFINE p == member'[t].pc
           r == [member[t] EXCEPT !.told = FALSE, !.pc = p]
<1>1. /\ ~member[t].told /\ member[t] \in Records
      /\ member[t].pc \in {"look", "lookagain"}
  BY NotTold DEF Look, Is
<1>2. /\ member' = [member EXCEPT ![t] = r] /\ p \in {"handle", "wait"}
      /\ p = "handle" => ~AtSimple(t)
  <2> DEFINE told == AtCancellable(t) /\ barrier.generation.cancelled
             tasks == Is(t, "look") /\ ~AtSimple(t) /\ barrier.generation.pending
             pc == IF told THEN "leave" ELSE IF tasks THEN "handle"
                   ELSE IF Passed(t) THEN "leave" ELSE "wait"
  <2>1. member' = [member EXCEPT ![t] = [@ EXCEPT !.told = told, !.pc = pc]]
    BY DEF Look
  <2> HIDE DEF told, tasks
  <2>2. p = pc
    BY <2>1 DEF PosixInv, Typed, Records
  <2>3. ~told /\ pc \in {"handle", "wait"} /\ (pc = "handle" => tasks)
    BY <2>2
  <2>4. told = FALSE
    BY <2>3 DEF told
  <2> QED
    BY <2>1, <2>2, <2>3, <2>4 DEF tasks
<1>3. r \in Records
  BY <1>1, <1>2, RecordsTyped DEF PCs
<1>4. Moves(t, r) /\ UNCHANGED <<barrier, counts>>
  BY <1>2, <1>3 DEF Look, Moves
<1>5. member'[t] = r /\ Members' = Members /\ member' \in [Members -> Records]
  BY <1>4, MovesFrame DEF PosixInv
<1> HIDE DEF p
<1>6. ~member[t].last
  BY <1>1 DEF PosixInv, PlaceOf
<1>7. r.pc = p /\ r.told = FALSE /\ r.last = member[t].last
  BY <1>1 DEF Records
<1>8. Stays(t, r)
  BY <1>1, <1>2, <1>4, <1>5, <1>6, <1>7 DEF Stays, Waits, Last, Handling, Is, Records
<1>9. Typed'
  BY <1>4, <1>5 DEF PosixInv, Typed, Moves
<1>10. PlaceOf(t)'
  BY <1>1, <1>2, <1>4, <1>5, <1>6 DEF PosixInv, PlaceOf, Moves, Is, AtSimple, AtCancellable, Records, SimplePcs
<1>11. TaskInv'
  <2>1. ~TaskPc(t) /\ ~TaskPc(t)'
    BY <1>1, <1>2, <1>5 DEF TaskPc, Is
  <2> QED
    BY <2>1, <1>2, <1>4, <1>7, TasksKept DEF PosixInv
<1> QED
  BY <1>8, <1>9, <1>10, <1>11, StaysInv

\* The posts of gomp_team_barrier_wake.
LEMMA PosixWakeInv ==
  ASSUME PosixInv, NEW t \in Members, PosixWake(t)
  PROVE  PosixInv'
<1> DEFINE r == [member[t] EXCEPT !.pc = member[t].then]
<1>1. /\ ~member[t].told /\ member[t] \in Records
      /\ member[t].pc \in {"wakeall", "wakeone"} /\ PlaceOf(t)
  BY NotTold DEF PosixWake, Is, PosixInv
<1>2. /\ Is(t, "wakeall") => member[t].then \in {"top", "others"}
      /\ Is(t, "wakeall") /\ member[t].then = "others" => member[t].last
      /\ Is(t, "wakeone") => member[t].then \in {"user", "task", "waitedtask"}
      /\ ~AtSimple(t)
  BY <1>1 DEF PlaceOf, SimplePcs
<1>3. r \in Records
  BY <1>1, <1>2, RecordsTyped DEF PCs, Is
<1>4. Moves(t, r)
  BY <1>3 DEF PosixWake, Proceed, Moves
<1>5. member'[t] = r /\ Members' = Members /\ member' \in [Members -> Records]
  BY <1>4, MovesFrame DEF PosixInv
<1>6. /\ r.pc = member[t].then /\ r.told = member[t].told /\ r.last = member[t].last
      /\ r.phase = member[t].phase /\ r.n = member[t].n /\ r.then = member[t].then
  BY <1>1 DEF Records
<1>7. /\ barrier'.mutex1 = barrier.mutex1 /\ barrier'.arrived = barrier.arrived
      /\ barrier'.sem2 = barrier.sem2 /\ barrier'.cancellable = barrier.cancellable
      /\ barrier'.generation = barrier.generation
  BY DEF PosixWake, PosixInv, Typed
<1>8. Stays(t, r)
  <2>1. (Waits(t)' <=> Waits(t)) /\ (Last(t)' <=> Last(t))
    BY <1>1, <1>2, <1>5, <1>6 DEF Waits, Last, Handling, Is
  <2> QED
    <3>1. Last(t) /\ Here(t) /\ ~Over(t) =>
             barrier.generation.waiting /\ ~Is(t, "wakeall")
      BY <1>1, WhileHere DEF Is
    <3>2. counts' = counts
      BY DEF PosixWake
    <3>3. ~Is(t, "wakeall") => Is(t, "wakeone") /\ r.pc \notin {"others", "top", "wakeall"}
      BY <1>1, <1>2, <1>6 DEF Is
    <3>4. r.pc \in {"top", "wakeall"} => member[t].pc \in {"top", "wakeall"}
      BY <3>3 DEF Is
    <3> HIDE DEF r
    <3>5. r.pc \in {"top", "others", "user", "task", "waitedtask"}
      BY <1>1, <1>2, <1>6 DEF Is
    <3> QED
      BY <3>1, <3>2, <3>3, <3>4, <3>5, <2>1, <1>1, <1>2, <1>4, <1>6, <1>7 DEF Stays
<1>9. Typed'
  BY <1>4, <1>5, MembersFinite DEF PosixWake, PosixInv, Typed
<1>10. PlaceOf(t)'
  BY <1>1, <1>2, <1>4, <1>5, <1>6, <1>7 DEF PlaceOf, Moves, Is, AtSimple, AtCancellable, SimplePcs
<1>11. TaskInv'
  <2>1. TaskPc(t) <=> TaskPc(t)'
    BY <1>1, <1>2, <1>5, <1>6 DEF TaskPc, Is
  <2>2. r.pc # "complete"
    BY <1>1, <1>2, <1>6 DEF Is
  <2> QED
    BY <2>1, <2>2, <1>4, TasksMove DEF PosixWake, PosixInv, Typed, TaskInv
<1> QED
  BY <1>8, <1>9, <1>10, <1>11, StaysInv

\* omp task: queued, or executed at once.
LEMMA PosixTaskInv ==
  ASSUME PosixInv, NEW t \in Members, PosixTask(t)
  PROVE  PosixInv'
<1> DEFINE q == member[t].pc
           p == member'[t].pc
           r == [member[t] EXCEPT !.then = q, !.pc = p]
<1>1. /\ ~member[t].told /\ member[t] \in Records
      /\ q \in {"user", "task", "waitedtask"} /\ PlaceOf(t)
      /\ q = "user" => ~AtSimple(t)
  BY NotTold DEF PosixTask, Is, PosixInv
<1>2. ~AtSimple(t)
  BY <1>1 DEF PlaceOf, SimplePcs
<1>3. member' = [member EXCEPT ![t] = r] /\ p \in {"wakeone", q}
  BY <1>1 DEF PosixTask, PosixInv, Typed, Records
<1> HIDE DEF p
<1>4. r \in Records
  BY <1>1, <1>3, RecordsTyped DEF PCs
<1>5. Moves(t, r)
  BY <1>3, <1>4 DEF PosixTask, Moves
<1>6. member'[t] = r /\ Members' = Members /\ member' \in [Members -> Records]
  BY <1>5, MovesFrame DEF PosixInv
<1>7. /\ r.pc = p /\ r.told = member[t].told /\ r.last = member[t].last
      /\ r.phase = member[t].phase /\ r.n = member[t].n /\ r.then = q
  BY <1>1 DEF Records
<1>8. /\ barrier'.mutex1 = barrier.mutex1 /\ barrier'.arrived = barrier.arrived
      /\ barrier'.sem2 = barrier.sem2 /\ barrier'.cancellable = barrier.cancellable
      /\ barrier'.generation.n = barrier.generation.n
      /\ barrier'.generation.cancelled = barrier.generation.cancelled
      /\ barrier'.generation.waiting = barrier.generation.waiting
  BY DEF PosixTask, PosixInv, Typed, Words
<1>9. Stays(t, r)
  <2>1. (Waits(t)' <=> Waits(t)) /\ (Last(t)' <=> Last(t))
    BY <1>1, <1>3, <1>6, <1>7 DEF Waits, Last, Handling, Is
  <2> QED
    <3>1. Last(t) /\ Here(t) /\ ~Over(t) => barrier.generation.waiting
      BY <1>1, WhileHere
    <3>2. counts' = [task |-> counts.task + 1, queued |-> counts.queued + 1,
                     running |-> counts.running, created |-> counts.created + 1]
      BY DEF PosixTask, PosixInv, Typed
    <3>3. counts.task > counts.queued => counts'.task > counts'.queued
      BY <3>2, WhileHere
    <3>4. r.pc \in {"wakeone", "user", "task", "waitedtask"}
      BY <1>1, <1>3, <1>7
    <3> HIDE DEF r
    <3> QED
      BY <3>1, <3>3, <3>4, <2>1, <1>1, <1>2, <1>3, <1>5, <1>7, <1>8 DEF Stays
<1>10. Typed'
  <2>1. counts' = [counts EXCEPT !.task = @ + 1, !.queued = @ + 1, !.created = @ + 1]
    BY DEF PosixTask
  <2>2. counts' \in [task : Int, queued : Int, running : Int, created : Int]
    <3>1. counts \in [task : Int, queued : Int, running : Int, created : Int]
      BY DEF PosixInv, Typed
    <3>2. /\ counts.task \in Int /\ counts.queued \in Int /\ counts.created \in Int
      BY <3>1
    <3>3. counts' = [task |-> counts.task + 1, queued |-> counts.queued + 1,
                     running |-> counts.running, created |-> counts.created + 1]
      BY <2>1, <3>1
    <3> QED
      BY <3>1, <3>2, <3>3
  <2>3. barrier' \in [mutex1 : BOOLEAN, sem1 : Int, sem2 : Int, arrived : Int,
                    generation : Words, cancellable : BOOLEAN, freed : BOOLEAN]
    BY DEF PosixTask, PosixInv, Typed, Words
  <2> QED
    BY <2>2, <2>3, <1>5, <1>6 DEF PosixInv, Typed, Moves
<1>11. PlaceOf(t)'
  BY <1>1, <1>2, <1>3, <1>5, <1>6, <1>7, <1>8 DEF PlaceOf, Moves, Is, AtSimple, AtCancellable, SimplePcs
<1>12. TaskInv'
  <2>1. TaskPc(t)' <=> TaskPc(t)
    BY <1>1, <1>3, <1>6, <1>7 DEF TaskPc, Is
  <2>2. r.pc # "complete"
    BY <1>1, <1>3, <1>7
  <2>3. TaskPc(t) \/ \A s \in Members : ~Is(s, "complete")
    <3> SUFFICES ASSUME NEW s \in Members, Is(s, "complete"), ~TaskPc(t) PROVE FALSE
      OBVIOUS
    <3>1. q = "user"
      BY <1>1 DEF TaskPc, Is
    <3>2. Last(s) /\ s # t
      BY <3>1 DEF Last, Is
    <3>3. PlaceOf(s) /\ LastOf(s) /\ DoneOf(s)
      BY DEF PosixInv, StageInv
    <3>4. ~Over(s)
      BY <3>3 DEF PlaceOf, Over, Is, SimplePcs
    <3>5. Here(s)
      BY <3>2, <3>3, <3>4 DEF DoneOf, Inside, Is
    <3>6. Waits(t)
      BY <3>2, <3>3, <3>4, <3>5 DEF LastOf
    <3> QED
      BY <3>1, <3>6 DEF Waits, Handling, Is
  <2>4. /\ counts' \in [task : Int, queued : Int, running : Int, created : Int]
        /\ counts'.task = counts.task + 1 /\ counts'.queued = counts.queued + 1
        /\ counts.queued \in Int /\ counts.task \in Int /\ counts.queued >= 0
    <3>1. counts' = [counts EXCEPT !.task = @ + 1, !.queued = @ + 1, !.created = @ + 1]
      BY DEF PosixTask
    <3>2. counts \in [task : Int, queued : Int, running : Int, created : Int]
      BY DEF PosixInv, Typed
    <3>3. counts' \in [task : Int, queued : Int, running : Int, created : Int]
      BY <1>10 DEF Typed
    <3>4. counts'.task = counts.task + 1 /\ counts'.queued = counts.queued + 1
      BY <3>1, <3>2
    <3> QED
      BY <3>2, <3>3, <3>4 DEF PosixInv, TaskInv
  <2>5. /\ counts'.queued \in Int /\ counts'.queued >= 0
        /\ counts'.task - counts'.queued = counts.task - counts.queued
    BY <2>4
  <2> HIDE DEF r
  <2> QED
    BY <2>1, <2>2, <2>3, <2>4, <2>5, <1>5, TasksMove DEF PosixInv
<1> QED
  BY <1>9, <1>10, <1>11, <1>12, StaysInv

\* taskwait takes a task of its own ...
LEMMA WaitedTaskInv ==
  ASSUME PosixInv, NEW t \in Members, WaitedTask(t)
  PROVE  PosixInv'
<1> DEFINE r == [member[t] EXCEPT !.pc = "waitedtask"]
<1>1. /\ ~member[t].told /\ member[t] \in Records
      /\ member[t].pc = "user" /\ PlaceOf(t) /\ ~AtSimple(t)
  BY NotTold DEF WaitedTask, Is, PosixInv
<1>2. r \in Records
  BY <1>1, RecordsTyped DEF PCs
<1>3. Moves(t, r)
  BY <1>2 DEF WaitedTask, Moves, Proceed
<1>4. member'[t] = r /\ Members' = Members /\ member' \in [Members -> Records]
  BY <1>3, MovesFrame DEF PosixInv
<1>5. /\ r.pc = "waitedtask" /\ r.told = member[t].told /\ r.last = member[t].last
      /\ r.phase = member[t].phase /\ r.n = member[t].n /\ r.then = member[t].then
  BY <1>1 DEF Records
<1>6. /\ barrier'.mutex1 = barrier.mutex1 /\ barrier'.arrived = barrier.arrived
      /\ barrier'.sem2 = barrier.sem2 /\ barrier'.cancellable = barrier.cancellable
      /\ barrier'.generation.n = barrier.generation.n
      /\ barrier'.generation.cancelled = barrier.generation.cancelled
      /\ barrier'.generation.waiting = barrier.generation.waiting
  BY DEF WaitedTask, PosixInv, Typed, Words
<1>7. Stays(t, r)
  <2>1. (Waits(t)' <=> Waits(t)) /\ (Last(t)' <=> Last(t))
    BY <1>1, <1>4, <1>5 DEF Waits, Last, Handling, Is
  <2> QED
    <3>1. ~Last(t) /\ ~Inside(t)
      BY <1>1 DEF Last, Waits, Handling, Inside, Is
    <3>2. ~barrier.generation.waiting
      BY <3>1, WhileHere
    <3> HIDE DEF r
    <3> QED
      BY <3>1, <3>2, <2>1, <1>1, <1>3, <1>5, <1>6 DEF Stays
<1>8. Typed'
  BY <1>3, <1>4 DEF WaitedTask, PosixInv, Typed, Words
<1>9. PlaceOf(t)'
  BY <1>1, <1>3, <1>4, <1>5, <1>6 DEF PlaceOf, Moves, Is, AtSimple, AtCancellable, SimplePcs
<1>10. TaskInv'
  <2>1. TaskPc(t)' /\ ~TaskPc(t)
    BY <1>1, <1>4, <1>5 DEF TaskPc, Is
  <2>2. /\ counts' \in [task : Int, queued : Int, running : Int, created : Int]
        /\ counts'.task = counts.task /\ counts'.queued = counts.queued - 1
        /\ counts.queued \in Int /\ counts.task \in Int /\ counts.queued > 0
    BY DEF WaitedTask, PosixInv, Typed
  <2>3. /\ counts'.queued \in Int /\ counts'.queued >= 0 /\ counts.queued # 0
        /\ counts'.task - counts'.queued = counts.task - counts.queued + 1
    BY <2>2
  <2>4. r.pc # "complete"
    BY <1>5
  <2> HIDE DEF r
  <2> QED
    BY <2>1, <2>2, <2>3, <2>4, <1>3, TasksMove DEF PosixInv
<1> QED
  BY <1>7, <1>8, <1>9, <1>10, StaysInv

\* ... and is through with it.
LEMMA EndWaitedTaskInv ==
  ASSUME PosixInv, NEW t \in Members, EndWaitedTask(t)
  PROVE  PosixInv'
<1> DEFINE r == [member[t] EXCEPT !.pc = "user"]
<1>1. /\ ~member[t].told /\ member[t] \in Records
      /\ member[t].pc = "waitedtask" /\ PlaceOf(t)
  BY NotTold DEF EndWaitedTask, Is, PosixInv
<1>2. ~AtSimple(t)
  BY <1>1 DEF PlaceOf, SimplePcs
<1>3. r \in Records
  BY <1>1, RecordsTyped DEF PCs
<1>4. Moves(t, r)
  BY <1>3 DEF EndWaitedTask, Moves, Proceed
<1>5. member'[t] = r /\ Members' = Members /\ member' \in [Members -> Records]
  BY <1>4, MovesFrame DEF PosixInv
<1>6. /\ r.pc = "user" /\ r.told = member[t].told /\ r.last = member[t].last
      /\ r.phase = member[t].phase /\ r.n = member[t].n /\ r.then = member[t].then
  BY <1>1 DEF Records
<1>7. Stays(t, r)
  <2>1. (Waits(t)' <=> Waits(t)) /\ (Last(t)' <=> Last(t))
    BY <1>1, <1>5, <1>6 DEF Waits, Last, Handling, Is
  <2> QED
    <3>1. ~Last(t) /\ ~Inside(t)
      BY <1>1 DEF Last, Waits, Handling, Inside, Is
    <3>2. ~barrier.generation.waiting
      BY <3>1, WhileHere
    <3> HIDE DEF r
    <3> QED
      BY <3>1, <3>2, <2>1, <1>1, <1>2, <1>4, <1>6 DEF Stays, EndWaitedTask
<1>8. Typed'
  BY <1>4, <1>5 DEF EndWaitedTask, PosixInv, Typed, Moves
<1>9. PlaceOf(t)'
  BY <1>1, <1>2, <1>4, <1>5, <1>6 DEF PlaceOf, Moves, Is, AtSimple, AtCancellable, SimplePcs, EndWaitedTask
<1>10. TaskInv'
  <2>1. TaskPc(t) /\ ~TaskPc(t)'
    BY <1>1, <1>5, <1>6 DEF TaskPc, Is
  <2>2. /\ counts' \in [task : Int, queued : Int, running : Int, created : Int]
        /\ counts'.task = counts.task - 1 /\ counts'.queued = counts.queued
        /\ counts.queued \in Int /\ counts.task \in Int /\ counts.queued >= 0
    BY DEF EndWaitedTask, PosixInv, Typed, TaskInv
  <2>3. /\ counts'.queued \in Int /\ counts'.queued >= 0
        /\ counts'.task - counts'.queued = counts.task - counts.queued - 1
    BY <2>2
  <2>4. r.pc # "complete"
    BY <1>6
  <2> HIDE DEF r
  <2> QED
    BY <2>1, <2>2, <2>3, <2>4, <1>4, TasksMove DEF PosixInv
<1> QED
  BY <1>7, <1>8, <1>9, <1>10, StaysInv

\* The first look of gomp_team_barrier_cancel, when nobody has cancelled yet.
LEMMA CancelLooksInv ==
  ASSUME PosixInv, NEW t \in Members, PosixCancel(t), ~barrier.generation.cancelled
  PROVE  PosixInv'
<1> DEFINE r == [member[t] EXCEPT !.pc = "cancel"]
<1>1. /\ ~member[t].told /\ member[t] \in Records
      /\ member[t].pc = "user" /\ PlaceOf(t) /\ AtCancellable(t)
  BY NotTold DEF PosixCancel, Is, PosixInv
<1>2. ~AtSimple(t)
  BY <1>1, MembersFinite DEF AtSimple, AtCancellable, PosixInv, Records
<1>3. r \in Records
  BY <1>1, RecordsTyped DEF PCs
<1>4. Moves(t, r) /\ UNCHANGED <<barrier, counts>>
  BY <1>3 DEF PosixCancel, Moves, Proceed
<1>5. member'[t] = r /\ Members' = Members /\ member' \in [Members -> Records]
  BY <1>4, MovesFrame DEF PosixInv
<1>6. /\ r.pc = "cancel" /\ r.told = member[t].told /\ r.last = member[t].last
      /\ r.phase = member[t].phase /\ r.n = member[t].n /\ r.then = member[t].then
  BY <1>1 DEF Records
<1>7. Stays(t, r)
  <2>1. (Waits(t)' <=> Waits(t)) /\ (Last(t)' <=> Last(t))
    BY <1>1, <1>5, <1>6 DEF Waits, Last, Handling, Is
  <2> QED
    <3>1. ~Last(t) /\ ~Inside(t)
      BY <1>1 DEF Last, Waits, Handling, Inside, Is
    <3> HIDE DEF r
    <3> QED
      BY <3>1, <2>1, <1>1, <1>2, <1>4, <1>6 DEF Stays
<1>8. Typed'
  BY <1>4, <1>5 DEF PosixInv, Typed, Moves
<1>9. PlaceOf(t)'
  BY <1>1, <1>2, <1>4, <1>5, <1>6 DEF PlaceOf, Moves, Is, AtSimple, AtCancellable, SimplePcs
<1>10. TaskInv'
  <2>1. TaskPc(t)' <=> TaskPc(t)
    BY <1>1, <1>5, <1>6 DEF TaskPc, Is
  <2> QED
    BY <2>1, <1>4, <1>6, TasksKept DEF PosixInv
<1> QED
  BY <1>7, <1>8, <1>9, <1>10, StaysInv

CountsSet == [task : Int, queued : Int, running : Int, created : Int]
BarrierSet == [mutex1 : BOOLEAN, sem1 : Int, sem2 : Int, arrived : Int,
               generation : Words, cancellable : BOOLEAN, freed : BOOLEAN]

\* A new generation has no flags.
LEMMA GenerationFields ==
  ASSUME NEW n \in Int
  PROVE  /\ Generation(n) \in Words /\ Generation(n).n = n /\ ~Generation(n).pending
         /\ ~Generation(n).waiting /\ ~Generation(n).cancelled
BY DEF Generation, Words

\* What the top of the loop of gomp_barrier_handle_tasks starts from: the counts
\* without the task that has just ended, and waiting set by the last thread.
TopOfLoop(t, c, g) ==
    /\ member[t].pc \in {"handle", "top", "task"} /\ posix' = posix
    /\ c \in CountsSet /\ g \in Words
    /\ c.queued = counts.queued
    /\ c.task = IF Is(t, "task") THEN counts.task - 1 ELSE counts.task
    /\ g.n = barrier.generation.n /\ g.cancelled = barrier.generation.cancelled
    /\ g.waiting <=> \/ barrier.generation.waiting
                     \/ Is(t, "handle") /\ member[t].last

\* A task is taken, or the thread finds none left, and is not the one that ends
\* the barrier.
TakesOrLeaves(t, c, g) ==
    LET none == [c EXCEPT !.task = @ - c.queued, !.queued = 0]
    IN \/ /\ c.queued = 0 /\ Proceed(t, Handled(t))
          /\ counts' = c /\ barrier' = [barrier EXCEPT !.generation = g]
       \/ /\ c.queued > 0 /\ Proceed(t, "task")
          /\ counts' = [c EXCEPT !.queued = @ - 1, !.running = @ + 1]
          /\ barrier' = [barrier EXCEPT !.generation =
                            [g EXCEPT !.pending = @ /\ c.queued > 1]]
       \/ /\ c.queued > 0 /\ counts' = none /\ Proceed(t, Handled(t))
          /\ barrier' = [barrier EXCEPT !.generation = [g EXCEPT !.pending = FALSE]]
          /\ ~LastTask(none, g)

\* gomp_barrier_handle_tasks takes a task, or finds none and leaves the loop.
LEMMA TakeTaskInv ==
  ASSUME PosixInv, NEW t \in Members, NEW c, NEW g, TopOfLoop(t, c, g),
         TakesOrLeaves(t, c, g),
         \* gomp_barrier_handle_tasks has looked for the end of the barrier before
         Is(t, "top") \/ ~(g.waiting /\ c.task = 0)
  PROVE  PosixInv'
<1> DEFINE none == [c EXCEPT !.task = @ - c.queued, !.queued = 0]
           p == member'[t].pc
           r == [member[t] EXCEPT !.pc = p]
<1>1. /\ ~member[t].told /\ member[t] \in Records /\ PlaceOf(t) /\ DoneOf(t)
      /\ member[t].pc \in {"handle", "top", "task"} /\ posix' = posix
      /\ counts \in CountsSet /\ barrier \in BarrierSet /\ c \in CountsSet /\ g \in Words
  BY NotTold DEF TopOfLoop, PosixInv, StageInv, Typed, CountsSet, BarrierSet
<1>2. ~AtSimple(t) /\ ~Over(t)
  BY <1>1 DEF PlaceOf, SimplePcs, Over, Is
<1>3. /\ member' = [member EXCEPT ![t] = r]
      /\ p = "task" \/ (p = "others" /\ member[t].last) \/ (p = "lookagain" /\ ~member[t].last)
  BY <1>1 DEF TakesOrLeaves, Proceed, Handled, PosixInv, Typed, Records
<1> HIDE DEF p
<1>4. r \in Records
  BY <1>1, <1>3, RecordsTyped DEF PCs
<1>5. Moves(t, r)
  BY <1>1, <1>3, <1>4 DEF Moves
<1>6. member'[t] = r /\ Members' = Members /\ member' \in [Members -> Records]
  BY <1>5, MovesFrame DEF PosixInv
<1>7. /\ r.pc = p /\ r.told = member[t].told /\ r.last = member[t].last
      /\ r.phase = member[t].phase /\ r.n = member[t].n /\ r.then = member[t].then
  BY <1>1 DEF Records
<1>8. \E h \in Words : /\ barrier' = [barrier EXCEPT !.generation = h]
                       /\ h.n = g.n /\ h.cancelled = g.cancelled /\ h.waiting = g.waiting
  <2>1. \A b \in BOOLEAN : LET h == [g EXCEPT !.pending = b]
                           IN h \in Words /\ h.n = g.n /\ h.cancelled = g.cancelled
                              /\ h.waiting = g.waiting
    BY <1>1 DEF Words
  <2>2. g = [g EXCEPT !.pending = g.pending] /\ g.pending \in BOOLEAN
        /\ (g.pending /\ c.queued > 1) \in BOOLEAN
    BY <1>1 DEF Words
  <2> QED
    BY <2>1, <2>2 DEF TakesOrLeaves
<1>9. /\ barrier' \in BarrierSet
      /\ barrier'.mutex1 = barrier.mutex1 /\ barrier'.arrived = barrier.arrived
      /\ barrier'.sem2 = barrier.sem2 /\ barrier'.cancellable = barrier.cancellable
      /\ barrier'.generation.n = barrier.generation.n
      /\ barrier'.generation.cancelled = barrier.generation.cancelled
      /\ barrier'.generation.waiting = g.waiting
  BY <1>1, <1>8 DEF TopOfLoop, BarrierSet
<1>10. /\ counts' \in CountsSet /\ counts'.queued >= 0 /\ counts'.queued \in Int
       /\ counts'.task - counts'.queued =
             IF p = "task" THEN c.task - c.queued + 1 ELSE c.task - c.queued
       /\ c.queued = 0 => counts'.task = c.task
  <2>1. counts.queued >= 0 /\ c.queued = counts.queued /\ c.queued \in Int /\ c.task \in Int
    BY <1>1 DEF TopOfLoop, PosixInv, TaskInv, CountsSet
  <2>2. CASE counts' = c /\ p # "task"
    BY <2>1, <2>2, <1>1
  <2>3. CASE /\ c.queued > 0 /\ p = "task"
             /\ counts' = [c EXCEPT !.queued = @ - 1, !.running = @ + 1]
    <3>1. counts' = [task |-> c.task, queued |-> c.queued - 1, running |-> c.running + 1,
                     created |-> c.created]
      BY <2>3, <1>1 DEF CountsSet
    <3>2. counts' \in CountsSet
      BY <3>1, <1>1 DEF CountsSet
    <3> QED
      BY <3>1, <3>2, <2>1, <2>3
  <2>4. CASE c.queued > 0 /\ p # "task" /\ counts' = none
    <3>1. counts' = [task |-> c.task - c.queued, queued |-> 0, running |-> c.running,
                     created |-> c.created]
      BY <2>4, <1>1 DEF CountsSet
    <3>2. counts' \in CountsSet
      BY <3>1, <1>1 DEF CountsSet
    <3> QED
      BY <3>1, <3>2, <2>1, <2>4
  <2>5. (p = "task") <=> Proceed(t, "task")
    <3>1. member \in [Members -> Records]
      BY DEF PosixInv, Typed
    <3>2. Proceed(t, "task") => p = "task"
      BY <3>1 DEF Proceed, p, Records
    <3>3. p = "task" => Proceed(t, "task")
      BY <1>3 DEF Proceed
    <3> QED
      BY <3>2, <3>3
  <2>6. Proceed(t, Handled(t)) => p # "task"
    <3>1. member \in [Members -> Records]
      BY DEF PosixInv, Typed
    <3> QED
      BY <3>1 DEF Proceed, Handled, p, Records
  <2> QED
    BY <2>2, <2>3, <2>4, <2>5, <2>6 DEF TakesOrLeaves
<1>11. Stays(t, r)
  <2>1. (Waits(t)' <=> Waits(t)) /\ (Last(t)' <=> Last(t))
    BY <1>1, <1>3, <1>6, <1>7 DEF Waits, Last, Handling, Is
  <2>2. Is(t, "handle") /\ member[t].last => Last(t) /\ Here(t) /\ ~Over(t)
    BY <1>1, <1>2 DEF DoneOf, Last, Handling, Inside, Is
  <2>3. g.waiting => barrier.generation.waiting \/ (Last(t) /\ Here(t) /\ ~Over(t))
    BY <2>2 DEF TopOfLoop
  <2> QED
    <3>1. Last(t) /\ Here(t) /\ ~Over(t) => g.waiting /\ ~Is(t, "top")
      BY <1>1, WhileHere DEF TopOfLoop, Last, Handling, Is
    <3>2. counts.queued >= 0 /\ counts.task \in Int /\ counts.queued \in Int
          /\ counts.task >= counts.queued /\ (Is(t, "task") => counts.task > counts.queued)
      <4>1. Executing \in SUBSET Members /\ (Is(t, "task") => t \in Executing)
        BY DEF Executing, TaskPc, Is
      <4>2. Cardinality(Executing) \in Nat /\ (Cardinality(Executing) = 0 <=> Executing = {})
        BY <4>1, OneMore DEF PosixInv
      <4> QED
        BY <4>1, <4>2, WhileHere DEF PosixInv, TaskInv
    <3>3. /\ c.task = IF Is(t, "task") THEN counts.task - 1 ELSE counts.task
          /\ c.queued = counts.queued
      BY DEF TopOfLoop
    <3>4. /\ counts'.task \in Int /\ counts'.queued \in Int
      BY <1>10 DEF CountsSet
    <3>5. g.waiting /\ (~Is(t, "top") \/ counts.task > counts.queued) =>
             counts'.task > counts'.queued
      <4>1. CASE p = "task"
        BY <4>1, <3>2, <3>3, <3>4, <1>10
      <4>2. CASE p # "task" /\ Is(t, "top")
        BY <4>2, <3>2, <3>3, <3>4, <1>10 DEF Is
      <4>3. CASE p # "task" /\ ~Is(t, "top") /\ g.waiting
        <5>1. counts'.task - counts'.queued = c.task - c.queued
          BY <4>3, <1>10
        <5>2. c.task # c.queued
          <6>1. CASE c.queued = 0
            BY <6>1, <4>3
          <6>2. CASE c.queued # 0
            <7>1. ~LastTask(none, g)
              <8>1. ~Proceed(t, "task")
                BY <4>3 DEF Proceed, p, PosixInv, Typed, Records
              <8> QED
                BY <6>2, <8>1 DEF TakesOrLeaves
            <7>2. none.task # 0
              BY <7>1, <4>3 DEF LastTask
            <7>3. none.task = c.task - c.queued
              BY <1>1 DEF CountsSet
            <7> QED
              BY <7>2, <7>3, <3>2, <3>3
          <6> QED
            BY <6>1, <6>2
        <5> QED
          BY <5>1, <5>2, <3>2, <3>3, <3>4
      <4> QED
        BY <4>1, <4>2, <4>3
    <3>6. barrier.generation.waiting => g.waiting
      BY DEF TopOfLoop
    <3>7. Last(t) /\ Here(t) /\ ~Over(t) =>
            /\ barrier'.generation.waiting
            /\ r.pc = "others" => counts'.task > counts'.queued
      BY <3>1, <3>5, <1>9
    <3>8. barrier.generation.waiting =>
            /\ barrier'.generation.waiting
            /\ counts.task > counts.queued => counts'.task > counts'.queued
      BY <3>5, <3>6, <1>9
    <3>9. r.pc \in {"task", "others", "lookagain"}
      BY <1>3, <1>7
    <3> HIDE DEF r
    <3> QED
      BY <3>7, <3>8, <3>9, <2>1, <2>3, <1>1, <1>2, <1>3, <1>5, <1>7, <1>9 DEF Stays
<1>12. Typed'
  BY <1>1, <1>6, <1>9, <1>10 DEF PosixInv, Typed, CountsSet, BarrierSet
<1>13. PlaceOf(t)'
  BY <1>1, <1>2, <1>3, <1>6, <1>7, <1>9 DEF PlaceOf, Is, AtSimple, AtCancellable, SimplePcs
<1>14. TaskInv'
  <2>1. TaskPc(t) <=> Is(t, "task")
    BY <1>1 DEF TaskPc, Is
  <2>2. TaskPc(t)' <=> p = "task"
    BY <1>3, <1>6, <1>7 DEF TaskPc, Is
  <2>3. r.pc # "complete"
    BY <1>3, <1>7
  <2>4. /\ c.task = IF Is(t, "task") THEN counts.task - 1 ELSE counts.task
        /\ c.queued = counts.queued /\ counts.task \in Int /\ counts.queued \in Int
        /\ counts'.task \in Int /\ counts'.queued \in Int
    BY <1>1, <1>10 DEF TopOfLoop, CountsSet
  <2>5. (TaskPc(t)' <=> TaskPc(t)) =>
            counts'.task - counts'.queued = counts.task - counts.queued
    BY <2>1, <2>2, <2>4, <1>10
  <2>6. TaskPc(t) /\ ~TaskPc(t)' =>
            counts'.task - counts'.queued = counts.task - counts.queued - 1
    BY <2>1, <2>2, <2>4, <1>10
  <2>7. ~TaskPc(t) /\ TaskPc(t)' =>
            counts'.task - counts'.queued = counts.task - counts.queued + 1
    BY <2>1, <2>2, <2>4, <1>10
  <2>8. counts'.task = counts.task \/ TaskPc(t) \/ counts.queued # 0
    BY <2>1, <2>4, <1>10
  <2> HIDE DEF r
  <2> QED
    BY <2>3, <2>4, <2>5, <2>6, <2>7, <2>8, <1>5, <1>10, TasksMove DEF PosixInv, CountsSet
<1> QED
  BY <1>11, <1>12, <1>13, <1>14, StaysInv
-----------------------------------------------------------------------------
(* The barrier completes.                                                  *)

Completes(t, r) ==
    /\ Moves(t, r) /\ r.n = member[t].n /\ r.phase = member[t].phase
    /\ r.last = member[t].last /\ ~r.told
    /\ member[t].pc \in {"complete", "handle", "top", "task"}
    /\ r.pc \in {"post", "wakeall"}
    /\ (Waits(t)' <=> Waits(t)) /\ (Last(t)' <=> Last(t))
    /\ barrier' = [barrier EXCEPT !.generation = Generation(member[t].n + 1)]
    /\ \E h \in Members : /\ Last(h) /\ Here(h) /\ ~Over(h)
                          /\ h = t \/ barrier.generation.waiting

CompletesNow ==
    /\ barrier'.generation.n = barrier.generation.n + 1
    /\ \A t \in Members : /\ InPosixBarrier(t) /\ InPosixBarrier(t)'
                          /\ member[t].n = barrier.generation.n
    /\ \A s, t \in Members : AtFinal(s) => AtFinal(t)
    /\ counts'.task = 0

\* When it completes everybody is in it, in the same one.
LEMMA CompletesFacts ==
  ASSUME PosixInv, NEW t \in Members, NEW r, Completes(t, r)
  PROVE  /\ \A s \in Members : Inside(s) /\ ~Over(s) /\ Here(s)
         /\ \A s \in Members : ~Is(s, "cancelled") /\ ~member[s].told
                               /\ member[s].pc \notin {"leave", "tell"}
         /\ \A s \in Members : s # t => member[s].pc \notin {"last", "complete"}
         /\ \A s \in Members : s # t /\ Is(s, "handle") => ~member[s].last
         /\ \A s, u \in Members : AtFinal(s) => AtFinal(u)
         /\ barrier.mutex1
<1> USE DEF PosixInv
<1>1. PICK h \in Members : /\ Last(h) /\ Here(h) /\ ~Over(h)
                           /\ h = t \/ barrier.generation.waiting
  BY DEF Completes
<1>2. \A s \in Members : ~Over(s) /\ (s # h => Waits(s) /\ Here(s))
  BY <1>1 DEF StageInv, LastOf
<1>3. \A s \in Members : Inside(s) /\ ~Over(s) /\ Here(s)
  BY <1>1, <1>2 DEF Inside
<1>4. \A s \in Members : ~Is(s, "cancelled")
  <2> SUFFICES ASSUME NEW s \in Members, Is(s, "cancelled") PROVE FALSE
    OBVIOUS
  <2>1. s = h
    BY <1>1 DEF HoldInv, Holds
  <2> QED
    BY <2>1, <1>1 DEF Last, Handling, Is
<1>5. \A s \in Members : ~member[s].told
  BY <1>4 DEF PlaceOf
<1>6. \A s \in Members : member[s].pc \notin {"leave", "tell"}
  BY <1>3, <1>5 DEF StageInv, HereOf
<1>7. ASSUME NEW s \in Members, s # t
      PROVE  /\ member[s].pc \notin {"last", "complete"}
             /\ Is(s, "handle") => ~member[s].last
  <2>1. CASE s = h
    <3>1. barrier.generation.waiting
      BY <1>1, <1>7, <2>1
    <3> QED
      BY <3>1, <2>1, <1>1 DEF StageInv, LastOf, Is
  <2>2. CASE s # h
    BY <2>2, <1>2 DEF Waits, Handling, Is
  <2> QED
    BY <2>1, <2>2
<1>8. ASSUME NEW s \in Members, NEW u \in Members, AtFinal(s) PROVE AtFinal(u)
  <2>1. /\ posix.barriers \in Nat /\ member[s].phase \in Int /\ member[u].phase \in Int
        /\ barrier.generation.n \in Int
    BY MembersFinite DEF Typed, Records, Words
  <2>2. HereOf(s) /\ HereOf(u)
    BY DEF StageInv
  <2>3. CASE barrier.generation.cancelled
    BY <2>1, <2>2, <2>3, <1>3, <1>4 DEF HereOf, Skipping, AtFinal, AtSimple
  <2>4. CASE ~barrier.generation.cancelled
    BY <2>1, <2>2, <2>4, <1>3, <1>8 DEF HereOf, AtFinal, AtSimple
  <2> QED
    BY <2>3, <2>4
<1>9. barrier.mutex1
  BY <1>1 DEF HoldInv, Holds
<1> QED
  BY <1>3, <1>4, <1>5, <1>6, <1>7, <1>8, <1>9

\* Whatever else the step does, a barrier that completes keeps the invariant.
LEMMA CompletesInv ==
  ASSUME PosixInv, NEW t \in Members, NEW r, Completes(t, r), Typed', PlaceOf(t)', TaskInv',
         counts'.task = 0
  PROVE  PosixInv' /\ CompletesNow
<1> USE DEF PosixInv
<1> DEFINE G == barrier.generation.n
<1>1. /\ Members' = Members /\ member'[t] = r /\ posix' = posix
      /\ \A s \in Members : s # t => Same(s)
  BY MovesFrame DEF Completes, Moves
<1>2. \A s \in Members :
               /\ (Waits(s)' <=> Waits(s)) /\ (Last(s)' <=> Last(s))
               /\ member'[s].phase = member[s].phase /\ member'[s].n = member[s].n
               /\ member'[s].last = member[s].last
  BY <1>1 DEF Completes, Same
<1>3. /\ \A s \in Members : Inside(s) /\ ~Over(s) /\ Here(s)
      /\ \A s \in Members : ~Is(s, "cancelled") /\ ~member[s].told
                               /\ member[s].pc \notin {"leave", "tell"}
      /\ \A s \in Members : s # t => member[s].pc \notin {"last", "complete"}
      /\ \A s \in Members : s # t /\ Is(s, "handle") => ~member[s].last
      /\ \A s, u \in Members : AtFinal(s) => AtFinal(u)
      /\ barrier.mutex1
  BY CompletesFacts
<1>4. \A s \in Members : /\ member[s].n = G /\ G \in Int
                         /\ member[s].phase \in Int /\ posix.barriers \in Nat
  BY <1>3, MembersFinite DEF Here, Typed, Records, Words
<1>5. /\ barrier'.generation.n = G + 1 /\ ~barrier'.generation.waiting
      /\ ~barrier'.generation.cancelled /\ barrier'.mutex1 = barrier.mutex1
      /\ barrier'.arrived = barrier.arrived /\ barrier'.sem2 = barrier.sem2
      /\ barrier'.cancellable = barrier.cancellable
  BY <1>4, GenerationFields DEF Completes, Typed
<1>6. \A s \in Members : /\ (Is(s, "left")' <=> Is(s, "left"))
                         /\ (Is(s, "tell")' <=> Is(s, "tell"))
                         /\ (Is(s, "leave")' <=> Is(s, "leave"))
                         /\ (Is(s, "cancelled")' <=> Is(s, "cancelled"))
  BY <1>1 DEF Completes, Same, Is
<1>7. \A s \in Members : /\ (AtSimple(s)' <=> AtSimple(s)) /\ (Skipping(s)' <=> Skipping(s))
                         /\ (AtFinal(s)' <=> AtFinal(s)) /\ (Over(s)' <=> Over(s))
                         /\ (Holds(s)' <=> Holds(s)) /\ (Inside(s)' <=> Inside(s))
                         /\ ~Here(s)' /\ Done(s)'
  BY <1>1, <1>2, <1>4, <1>5, <1>6 DEF AtSimple, Skipping, AtFinal, Over, Holds, Inside, Here, Done
<1>8. PICK h \in Members : Last(h)
  BY DEF Completes
<1>9. HoldInv'
  BY <1>1, <1>5, <1>7 DEF HoldInv
<1>10. ~Ended /\ ~Ended'
  BY <1>1, <1>3, <1>7 DEF Ended, Over
<1>11. \A s \in Members : Is(s, "last")' <=> Is(s, "last")
  BY <1>1 DEF Completes, Same, Is
<1>12. CountInv'
  <2>1. CountInv
    BY <1>10 DEF Clean
  <2>2. Counted' = Counted
    BY <1>1, <1>2, <1>11 DEF Counted
  <2> QED
    BY <2>1, <2>2, <1>1, <1>2, <1>5, <1>6, <1>11 DEF CountInv, Is
<1>13. \A s \in Members : s # t => PlaceOf(s)'
  <2> SUFFICES ASSUME NEW s \in Members, s # t PROVE PlaceOf(s)'
    OBVIOUS
  <2>1. PlaceOf(s) /\ member'[s] = member[s] /\ ~Is(s, "cancelled") /\ ~member[s].told
    BY <1>1, <1>3 DEF Same
  <2>2. AtCancellable(s)' <=> AtCancellable(s)
    BY <1>1 DEF AtCancellable, Same
  <2> QED
    BY <2>1, <2>2, <1>1, <1>7 DEF PlaceOf, Is
<1>14. OverInv'
  <2>1. \A s, u \in Members : Through(s)' => Through(u)'
    BY <1>3, <1>7 DEF Through
  <2> QED
    BY <2>1, <1>1, <1>10 DEF OverInv
<1>15. StageInv'
  <2>1. ASSUME NEW s \in Members PROVE OutsideOf(s)' /\ HereOf(s)'
    BY <1>3, <1>7 DEF OutsideOf, HereOf
  <2>2. ASSUME NEW s \in Members PROVE DoneOf(s)'
    <3>1. /\ member[s].phase = member[s].n \/ Skipping(s)
          /\ member[s].phase <= posix.barriers + 1
      BY <1>3, <1>4 DEF StageInv, HereOf, Skipping
    <3>2. member'[s].pc \notin {"last", "complete"}
      BY <1>1, <1>3 DEF Completes, Same
    <3>3. Is(s, "handle")' => ~member'[s].last
      BY <1>1, <1>3 DEF Completes, Same, Is
    <3>4. Last(h)' /\ Done(h)' /\ ~Over(h)'
      BY <1>2, <1>3, <1>7, <1>8
    <3> QED
      BY <3>1, <3>2, <3>3, <3>4, <1>1, <1>2, <1>5, <1>7 DEF DoneOf
  <2>3. ASSUME NEW s \in Members PROVE LastOf(s)'
    BY <1>1, <1>5, <1>7 DEF LastOf
  <2> QED
    BY <2>1, <2>2, <2>3, <1>1, <1>3, <1>5 DEF StageInv
<1>16. CompletesNow
  <2>1. \A s \in Members : ~TaskPc(s)'
    <3>1. Typed' /\ TaskInv' /\ Executing' \in SUBSET Members'
      BY DEF Executing
    <3>2. Cardinality(Executing') \in Nat /\ (Cardinality(Executing') = 0 <=> Executing' = {})
      <4>1. IsFiniteSet(Members)
        BY MembersFinite
      <4>2. IsFiniteSet(Executing')
        BY <4>1, <3>1, <1>1, FS_Subset
      <4> QED
        BY <4>2, FS_CardinalityType, FS_EmptySet
    <3>3. counts'.queued \in Int
      BY DEF Typed
    <3>4. Executing' = {}
      BY <3>1, <3>2, <3>3 DEF TaskInv
    <3> QED
      BY <3>4, <1>1 DEF Executing
  <2>2. ASSUME NEW s \in Members PROVE InPosixBarrier(s) /\ InPosixBarrier(s)'
    <3>1. CASE s = t
      BY <3>1, <1>1 DEF InPosixBarrier, Completes
    <3>2. CASE s # t
      <4>1. ~TaskPc(s) /\ member'[s] = member[s] /\ Inside(s)
        BY <3>2, <2>1, <1>1, <1>3 DEF Same
      <4> QED
        BY <4>1 DEF InPosixBarrier, TaskPc, Inside, Waits, Last, Handling, Is
    <3> QED
      BY <3>1, <3>2
  <2> QED
    BY <2>2, <1>3, <1>4, <1>5 DEF CompletesNow
<1> QED
  BY <1>1, <1>9, <1>12, <1>13, <1>14, <1>15, <1>16

\* gomp_team_barrier_done in gomp_barrier_handle_tasks, without tasks left.
LEMMA PosixDoneInv ==
  ASSUME PosixInv, NEW t \in Members, NEW then \in {"top", "others"}, PosixDone(t, then),
         posix' = posix,
         member[t].pc \in {"handle", "top", "task"},
         then = "others" => member[t].last,
         counts' \in CountsSet, counts'.task = 0, counts'.queued >= 0,
         counts'.task - counts'.queued =
            IF Is(t, "task") THEN counts.task - counts.queued - 1
            ELSE counts.task - counts.queued,
         counts'.task = counts.task \/ TaskPc(t) \/ counts.queued # 0,
         \/ barrier.generation.waiting
         \/ Is(t, "handle") /\ member[t].last
  PROVE  PosixInv' /\ CompletesNow
<1> DEFINE r == [member[t] EXCEPT !.then = then, !.pc = "wakeall"]
<1>1. /\ ~member[t].told /\ member[t] \in Records /\ PlaceOf(t) /\ DoneOf(t)
  BY NotTold DEF PosixInv, StageInv
<1>2. ~AtSimple(t) /\ ~Over(t)
  BY <1>1 DEF PlaceOf, SimplePcs, Over, Is
<1>3. r \in Records
  BY <1>1, RecordsTyped DEF PCs
<1>4. Moves(t, r)
  <2>1. r = [member[t] EXCEPT !.pc = "wakeall", !.then = then]
    BY <1>1 DEF Records
  <2> QED
    BY <2>1, <1>3 DEF PosixDone, Moves
<1>5. member'[t] = r /\ Members' = Members /\ member' \in [Members -> Records]
  BY <1>4, MovesFrame DEF PosixInv
<1>6. /\ r.pc = "wakeall" /\ r.told = member[t].told /\ r.last = member[t].last
      /\ r.phase = member[t].phase /\ r.n = member[t].n /\ r.then = then
  BY <1>1 DEF Records
<1>7. (Waits(t)' <=> Waits(t)) /\ (Last(t)' <=> Last(t))
  BY <1>5, <1>6 DEF Waits, Last, Handling, Is
<1>8. \E h \in Members : /\ Last(h) /\ Here(h) /\ ~Over(h)
                         /\ h = t \/ barrier.generation.waiting
  <2>1. CASE barrier.generation.waiting
    BY <2>1 DEF PosixInv, StageInv
  <2>2. CASE Is(t, "handle") /\ member[t].last
    BY <2>2, <1>1, <1>2 DEF DoneOf, Last, Handling, Inside
  <2> QED
    BY <2>1, <2>2
<1>9. Completes(t, r)
  BY <1>1, <1>4, <1>6, <1>7, <1>8 DEF Completes, PosixDone
<1>10. Typed'
  <2>1. barrier' \in BarrierSet
    BY <1>1, GenerationFields DEF PosixDone, BarrierSet, PosixInv, Typed, Records
  <2> QED
    BY <2>1, <1>4, <1>5 DEF PosixInv, Typed, Moves, BarrierSet, CountsSet
<1>11. PlaceOf(t)'
  BY <1>1, <1>2, <1>4, <1>5, <1>6 DEF PlaceOf, Moves, Is, AtSimple, AtCancellable, SimplePcs
<1>12. TaskInv'
  <2>1. TaskPc(t) <=> Is(t, "task")
    BY DEF TaskPc, Is
  <2>2. ~TaskPc(t)'
    BY <1>5, <1>6 DEF TaskPc, Is
  <2>3. r.pc # "complete"
    BY <1>6
  <2>4. counts'.queued \in Int
    BY DEF CountsSet
  <2> HIDE DEF r
  <2> QED
    BY <2>1, <2>2, <2>3, <2>4, <1>4, TasksMove DEF PosixInv, CountsSet
<1> HIDE DEF r
<1> QED
  BY <1>9, <1>10, <1>11, <1>12, CompletesInv

\* The last thread completes a barrier without tasks.
LEMMA PosixCompleteInv ==
  ASSUME PosixInv, NEW t \in Members, PosixComplete(t)
  PROVE  PosixInv' /\ CompletesNow
<1> DEFINE r == [member[t] EXCEPT !.pc = "post"]
<1>1. /\ ~member[t].told /\ member[t] \in Records /\ PlaceOf(t) /\ DoneOf(t)
      /\ member[t].pc = "complete" /\ posix' = posix /\ counts' = counts
  BY NotTold DEF PosixInv, StageInv, PosixComplete, Is
<1>2. ~AtSimple(t) /\ ~Over(t)
  BY <1>1 DEF PlaceOf, SimplePcs, Over, Is
<1>3. r \in Records
  BY <1>1, RecordsTyped DEF PCs
<1>4. Moves(t, r)
  BY <1>1, <1>3 DEF PosixComplete, Proceed, Moves
<1>5. member'[t] = r /\ Members' = Members /\ member' \in [Members -> Records]
  BY <1>4, MovesFrame DEF PosixInv
<1>6. /\ r.pc = "post" /\ r.told = member[t].told /\ r.last = member[t].last
      /\ r.phase = member[t].phase /\ r.n = member[t].n /\ r.then = member[t].then
  BY <1>1 DEF Records
<1>7. (Waits(t)' <=> Waits(t)) /\ Last(t)' /\ Last(t)
  BY <1>1, <1>5, <1>6 DEF Waits, Last, Handling, Is
<1>8. Here(t)
  BY <1>1, <1>2, <1>7 DEF DoneOf, Inside
<1>9. Completes(t, r)
  BY <1>1, <1>2, <1>4, <1>6, <1>7, <1>8 DEF Completes, PosixComplete
<1>10. Typed'
  <2>1. barrier' \in BarrierSet
    BY <1>1, GenerationFields DEF PosixComplete, BarrierSet, PosixInv, Typed, Records
  <2> QED
    BY <2>1, <1>1, <1>5 DEF PosixInv, Typed, BarrierSet
<1>11. PlaceOf(t)'
  BY <1>1, <1>2, <1>5, <1>6 DEF PlaceOf, Is, AtSimple, AtCancellable, SimplePcs
<1>12. TaskInv'
  <2>1. ~TaskPc(t) /\ ~TaskPc(t)'
    BY <1>1, <1>5, <1>6 DEF TaskPc, Is
  <2>2. r.pc # "complete"
    BY <1>6
  <2> HIDE DEF r
  <2> QED
    BY <2>1, <2>2, <1>1, <1>4, TasksKept DEF PosixInv
<1>13. counts'.task = 0
  BY <1>1 DEF PosixInv, TaskInv, Is
<1> HIDE DEF r
<1> QED
  BY <1>9, <1>10, <1>11, <1>12, <1>13, CompletesInv

\* While the last thread waits for the end of the tasks, there are some.
LEMMA WaitsForTasks ==
  ASSUME PosixInv, barrier.generation.waiting
  PROVE  counts.task # 0
<1>1. PICK h \in Members : ~Over(h) /\ Last(h) /\ Here(h)
  BY DEF PosixInv, StageInv
<1>2. /\ counts.task \in Int /\ counts.queued \in Int /\ counts.queued >= 0
      /\ counts.task = counts.queued + Cardinality(Executing)
  BY DEF PosixInv, Typed, TaskInv
<1>3. CASE Is(h, "others")
  BY <1>1, <1>2, <1>3 DEF PosixInv, StageInv, LastOf
<1>4. CASE ~Is(h, "others")
  <2>1. TaskPc(h)
    <3>1. member[h].pc \notin {"last", "complete", "handle", "post", "top", "wakeall"}
      <4>1. member[h].pc \notin {"last", "complete", "handle"}
        BY <1>1 DEF PosixInv, StageInv, LastOf
      <4> QED
        BY <4>1, <1>1, WhileHere
    <3> QED
      BY <3>1, <1>1, <1>4 DEF Last, Handling, TaskPc, Is
  <2>2. h \in Executing /\ Executing \in SUBSET Members
    BY <2>1 DEF Executing
  <2>3. Cardinality(Executing) \in Nat /\ Cardinality(Executing) # 0
    BY <2>2, OneMore DEF PosixInv
  <2> QED
    BY <2>3, <1>2
<1> QED
  BY <1>3, <1>4

\* The top of the loop, whatever it finds.
LEMMA LoopInv ==
  ASSUME PosixInv, NEW t \in Members, NEW c, NEW g, TopOfLoop(t, c, g), TakeTask(t, c, g),
         Is(t, "top") \/ ~(g.waiting /\ c.task = 0)
  PROVE  /\ PosixInv'
         /\ barrier'.generation.n # barrier.generation.n => CompletesNow
<1> DEFINE none == [c EXCEPT !.task = @ - c.queued, !.queued = 0]
<1>1. CASE TakesOrLeaves(t, c, g)
  <2>1. g.n = barrier.generation.n /\ g \in Words /\ barrier \in BarrierSet
    BY DEF TopOfLoop, PosixInv, Typed, BarrierSet
  <2>2. \E b \in BOOLEAN : barrier' = [barrier EXCEPT !.generation = [g EXCEPT !.pending = b]]
    <3>1. g.pending \in BOOLEAN /\ (g.pending /\ c.queued > 1) \in BOOLEAN
          /\ g = [g EXCEPT !.pending = g.pending]
      BY <2>1 DEF Words
    <3> QED
      BY <3>1, <1>1 DEF TakesOrLeaves
  <2>3. barrier'.generation.n = barrier.generation.n
    BY <2>1, <2>2 DEF BarrierSet, Words
  <2> QED
    BY <2>3, <1>1, TakeTaskInv
<1>2. CASE /\ c.queued > 0 /\ counts' = none
           /\ LastTask(none, g) /\ PosixDone(t, "top")
  <2>1. /\ c \in CountsSet /\ c.queued = counts.queued /\ posix' = posix
        /\ member[t].pc \in {"handle", "top", "task"}
        /\ c.task = IF Is(t, "task") THEN counts.task - 1 ELSE counts.task
    BY DEF TopOfLoop
  <2>2. counts' = [task |-> c.task - c.queued, queued |-> 0, running |-> c.running,
                     created |-> c.created]
    BY <1>2, <2>1 DEF CountsSet
  <2>3. counts' \in CountsSet /\ counts'.queued = 0 /\ counts'.task = c.task - c.queued
    BY <2>1, <2>2 DEF CountsSet
  <2>4. counts'.task = 0 /\ g.waiting
    BY <1>2 DEF LastTask
  <2>5. counts.task \in Int /\ counts.queued \in Int /\ counts.queued # 0
    BY <1>2, <2>1 DEF PosixInv, Typed, CountsSet
  <2>6. counts'.task - counts'.queued =
            IF Is(t, "task") THEN counts.task - counts.queued - 1
            ELSE counts.task - counts.queued
    BY <2>1, <2>3, <2>5
  <2>7. \/ barrier.generation.waiting
        \/ Is(t, "handle") /\ member[t].last
    BY <2>4 DEF TopOfLoop
  <2>8. PosixDone(t, "top") /\ counts'.queued >= 0
    BY <1>2, <2>3
  <2> HIDE DEF none
  <2> QED
    BY <2>1, <2>3, <2>4, <2>5, <2>6, <2>7, <2>8, PosixDoneInv
<1>3. TakesOrLeaves(t, c, g) \/ (/\ c.queued > 0 /\ counts' = none
                                 /\ LastTask(none, g) /\ PosixDone(t, "top"))
  BY DEF TakeTask, TakesOrLeaves
<1> QED
  BY <1>1, <1>2, <1>3

\* The loop of gomp_barrier_handle_tasks: its entry, and after a task.
LEMMA HandleInv ==
  ASSUME PosixInv, NEW t \in Members, PosixHandle(t) \/ LoopAgain(t) \/ EndTask(t)
  PROVE  /\ PosixInv'
         /\ barrier'.generation.n # barrier.generation.n => CompletesNow
<1>1. /\ counts \in CountsSet /\ barrier \in BarrierSet /\ barrier.generation \in Words
      /\ posix' = posix /\ counts.task \in Int /\ counts.queued \in Int
      /\ counts.queued >= 0 /\ member[t] \in Records
  BY DEF PosixInv, Typed, CountsSet, BarrierSet, TaskInv, PosixHandle, LoopAgain, EndTask
<1>2. CASE PosixHandle(t)
  <2> DEFINE g == [barrier.generation EXCEPT !.waiting = @ \/ member[t].last]
  <2>1. Is(t, "handle") /\ ~Is(t, "task") /\ member[t].pc \in {"handle", "top", "task"}
    BY <1>2 DEF PosixHandle, Is
  <2>2. CASE member[t].last /\ counts.task = 0
    <3>1. PosixDone(t, "others") /\ counts' = counts
      BY <1>2, <2>2 DEF PosixHandle
    <3>2. counts'.task - counts'.queued = counts.task - counts.queued
      BY <3>1
    <3> QED
      BY <3>1, <3>2, <2>1, <2>2, <1>1, PosixDoneInv
  <2>3. CASE ~(member[t].last /\ counts.task = 0)
    <3>1. TakeTask(t, counts, g)
      BY <1>2, <2>3 DEF PosixHandle
    <3>2. /\ g \in Words /\ g.n = barrier.generation.n
          /\ g.cancelled = barrier.generation.cancelled
          /\ g.waiting <=> barrier.generation.waiting \/ member[t].last
      BY <1>1 DEF Words, Records
    <3>3. TopOfLoop(t, counts, g)
      BY <2>1, <3>2, <1>1 DEF TopOfLoop
    <3>4. ~(g.waiting /\ counts.task = 0)
      BY <3>2, <2>3, WaitsForTasks
    <3> HIDE DEF g
    <3> QED
      BY <3>1, <3>3, <3>4, LoopInv
  <2> QED
    BY <2>2, <2>3
<1>3. CASE LoopAgain(t)
  <2>1. /\ TakeTask(t, counts, barrier.generation) /\ ~Is(t, "task") /\ ~Is(t, "handle")
        /\ member[t].pc \in {"handle", "top", "task"}
    BY <1>3 DEF LoopAgain, Is
  <2>2. TopOfLoop(t, counts, barrier.generation)
    BY <2>1, <1>1 DEF TopOfLoop
  <2>3. Is(t, "top")
    BY <1>3 DEF LoopAgain
  <2> QED
    BY <2>1, <2>2, <2>3, LoopInv
<1>4. CASE EndTask(t)
  <2> DEFINE c == [counts EXCEPT !.running = @ - 1, !.task = @ - 1]
  <2>1. /\ Is(t, "task") /\ ~Is(t, "handle") /\ member[t].pc \in {"handle", "top", "task"}
        /\ TaskPc(t)
    BY <1>4 DEF EndTask, Is, TaskPc
  <2>3. c \in CountsSet /\ c.queued = counts.queued /\ c.task = counts.task - 1
    <3>1. PICK y \in Int, z \in Int : y = counts.running - 1 /\ z = counts.task - 1
      BY <1>1 DEF CountsSet
    <3>2. c = [counts EXCEPT !.running = y, !.task = z]
      BY <1>1, <3>1 DEF CountsSet
    <3>3. c \in CountsSet /\ c.queued = counts.queued /\ c.task = z
      BY <1>1, <3>2 DEF CountsSet
    <3> QED
      BY <3>1, <3>3
  <2>4. CASE LastTask(c, barrier.generation)
    <3>1. PosixDone(t, "top") /\ counts' = c
      BY <1>4, <2>4 DEF EndTask
    <3>2. c.task = 0 /\ barrier.generation.waiting
      BY <2>4 DEF LastTask
    <3>3. c.task - c.queued = counts.task - counts.queued - 1
      BY <2>3, <1>1
    <3> HIDE DEF c
    <3> QED
      BY <3>1, <3>2, <3>3, <2>1, <2>3, <1>1, PosixDoneInv
  <2>5. CASE ~LastTask(c, barrier.generation)
    <3>1. TakeTask(t, c, barrier.generation)
      BY <1>4, <2>5 DEF EndTask
    <3>2. TopOfLoop(t, c, barrier.generation)
      BY <2>1, <2>3, <1>1 DEF TopOfLoop
    <3>3. ~(barrier.generation.waiting /\ c.task = 0)
      BY <2>5 DEF LastTask
    <3> HIDE DEF c
    <3> QED
      BY <3>1, <3>2, <3>3, LoopInv
  <2> QED
    BY <2>4, <2>5
<1> QED
  BY <1>2, <1>3, <1>4
-----------------------------------------------------------------------------
(* Cancellation: threads jump to the final barrier.                        *)

LEMMA ToEndFields ==
  ASSUME Typed, NEW t \in Members
  PROVE  LET r == ToEnd(member[t])
         IN /\ r \in Records /\ r.pc = "user" /\ r.phase = posix.barriers + 1
            /\ ~r.told /\ r.n = member[t].n /\ r.last = member[t].last
            /\ r.then = member[t].then
<1>1. posix.barriers + 1 \in Int /\ member[t] \in Records
  BY MembersFinite DEF Typed
<1> QED
  BY <1>1 DEF ToEnd, Records, PCs

\* What cannot be while mutex1 is free.
LEMMA MutexFree ==
  ASSUME PosixInv, ~barrier.mutex1
  PROVE  /\ \A s \in Members : ~Holds(s) /\ ~Last(s) /\ ~Is(s, "last")
         /\ \A s \in Members : ~Over(s) /\ Inside(s) => Here(s)
         /\ ~barrier.generation.waiting
         /\ Clean => /\ barrier.sem2 = 0
                     /\ \A s \in Members : member[s].pc \notin {"leave", "tell"}
         /\ \A s \in Members : ~member[s].told
<1>1. \A s \in Members : ~Holds(s) /\ ~Last(s) /\ ~Is(s, "last")
  BY DEF PosixInv, HoldInv, Holds, Last, Is
<1>2. \A s \in Members : ~Over(s) /\ Inside(s) => Here(s)
  BY <1>1 DEF PosixInv, StageInv, DoneOf
<1>3. ~barrier.generation.waiting
  BY <1>1 DEF PosixInv, StageInv
<1>4. Clean => /\ barrier.sem2 = 0
               /\ \A s \in Members : member[s].pc \notin {"leave", "tell"}
  BY DEF PosixInv, CountInv
<1>5. \A s \in Members : ~member[s].told
  BY <1>1 DEF PosixInv, PlaceOf, Holds
<1> QED
  BY <1>1, <1>2, <1>3, <1>4, <1>5

Jumps(t) ==
    /\ Moves(t, ToEnd(member[t])) /\ counts' = counts
    /\ member[t].pc \in {"user", "cancel"} /\ AtCancellable(t)
    /\ barrier'.generation.n = barrier.generation.n
    /\ barrier'.generation.waiting = barrier.generation.waiting
    /\ barrier'.generation.cancelled
    /\ barrier'.mutex1 = barrier.mutex1 /\ barrier'.arrived = barrier.arrived
    /\ barrier'.sem2 = barrier.sem2
    /\ \/ /\ barrier.generation.cancelled
          /\ barrier'.cancellable = barrier.cancellable
       \/ ~barrier.mutex1 /\ \A s \in Members : ~Waits(s)

\* Who jumps to the final barrier keeps the invariant.
LEMMA JumpsInv ==
  ASSUME PosixInv, NEW t \in Members, Jumps(t), Typed'
  PROVE  PosixInv'
<1> DEFINE r == ToEnd(member[t])
<1> USE DEF PosixInv
<1>1. /\ Members' = Members /\ member'[t] = r /\ posix' = posix
      /\ \A s \in Members : s # t => Same(s)
  BY MovesFrame DEF Jumps, Moves
<1>2. /\ r \in Records /\ r.pc = "user" /\ r.phase = posix.barriers + 1
      /\ ~r.told /\ r.n = member[t].n /\ r.last = member[t].last
  BY ToEndFields
<1> DEFINE moves == Moves(t, r)
<1>0. moves
  BY DEF Jumps
<1> HIDE DEF r
<1>3. /\ posix.barriers \in Nat /\ member[t].phase \in Int /\ member[t].phase < posix.barriers
      /\ posix.cancellable
  BY MembersFinite DEF Typed, Records, Jumps, AtCancellable
<1>4. /\ ~Over(t) /\ ~Over(t)' /\ ~AtSimple(t) /\ ~AtSimple(t)' /\ Skipping(t)' /\ ~AtFinal(t)
      /\ ~AtCancellable(t)' /\ ~Skipping(t)
  <2>1. ~AtSimple(t) /\ ~AtSimple(t)' /\ Skipping(t)' /\ ~AtFinal(t) /\ ~Skipping(t)
        /\ ~AtCancellable(t)'
    BY <1>1, <1>2, <1>3 DEF AtSimple, Skipping, AtFinal, AtCancellable
  <2> QED
    BY <2>1, <1>1, <1>2 DEF Over, Is, Jumps
<1>5. /\ ~Waits(t) /\ ~Last(t) /\ ~Inside(t) /\ ~Holds(t) /\ ~TaskPc(t) /\ ~Is(t, "last")
      /\ ~Waits(t)' /\ ~Last(t)' /\ ~Inside(t)' /\ ~Holds(t)' /\ ~TaskPc(t)' /\ ~Is(t, "last")'
  BY <1>1, <1>2 DEF Jumps, Waits, Last, Handling, Inside, Holds, TaskPc, Is
<1>6. /\ barrier'.generation.n = barrier.generation.n
      /\ barrier'.generation.waiting = barrier.generation.waiting
      /\ barrier'.generation.cancelled
      /\ barrier'.mutex1 = barrier.mutex1 /\ barrier'.arrived = barrier.arrived
      /\ barrier'.sem2 = barrier.sem2
  BY DEF Jumps
<1>7. ~Ended /\ Clean
  BY <1>4 DEF OverInv, Ended, Clean
<1>8. ~Ended'
  BY <1>1, <1>4, <1>7 DEF Ended, Same, Is
<1>9. barrier.generation.cancelled \/ (\A s \in Members : ~Inside(s))
  BY <1>7, MutexFree DEF Jumps, Inside, Is
<1>10. \A s \in Members : s # t => /\ (Here(s)' <=> Here(s)) /\ (Done(s)' <=> Done(s))
                                   /\ member'[s] = member[s]
  BY <1>1, <1>6 DEF Same, Here, Done
<1>11. HoldInv'
  BY <1>1, <1>5, <1>6 DEF HoldInv, Same
<1>12. CountInv'
  <2>1. Counted' = Counted
    BY <1>1, <1>5 DEF Counted, Same, Is
  <2>2. CountInv
    BY <1>7
  <2>3. member[t].pc = "user" \/ member[t].pc = "cancel"
    BY DEF Jumps
  <2> QED
    BY <2>1, <2>2, <2>3, <1>1, <1>2, <1>5, <1>6, <1>10 DEF CountInv, Is, Same
<1>13. TaskInv'
  BY <1>0, <1>1, <1>2, <1>5, TasksKept DEF Jumps
<1>14. ASSUME NEW s \in Members PROVE PlaceOf(s)'
  <2>1. PlaceOf(s)
    OBVIOUS
  <2>2. CASE s = t
    BY <2>2, <1>1, <1>2, <1>3, <1>4 DEF PlaceOf, Is, Typed
  <2>3. CASE s # t
    <3>1. Same(s) /\ member'[s] = member[s]
      BY <1>1, <2>3 DEF Same
    <3>2. (\E h \in Members : Is(h, "cancelled")) => (\E h \in Members : Is(h, "cancelled"))'
      BY <1>1, <1>5, <1>10 DEF Is, Holds
    <3>3. Is(s, "cancelled")' => barrier'.generation.cancelled /\
                                  member'[s].phase = barrier'.generation.n
      BY <2>1, <3>1, <1>6 DEF PlaceOf, Is
    <3>4. member'[s].told =>
          /\ member'[s].pc \in {"leave", "tell"} /\ AtCancellable(s)' /\ Here(s)'
          /\ barrier'.generation.cancelled
          /\ (\E h \in Members : Is(h, "cancelled"))'
      BY <2>1, <2>3, <3>1, <3>2, <1>6, <1>10 DEF PlaceOf, Same
    <3> QED
      BY <3>1, <3>3, <3>4, <2>1, <1>1 DEF PlaceOf, Is, Same
  <2> QED
    BY <2>2, <2>3
<1>15. \A s \in Members : ~Through(s) /\ ~Through(s)'
  BY <1>1, <1>4, <1>5, <1>10 DEF OverInv, Through, Same
<1>16. OverInv'
  BY <1>1, <1>8, <1>15 DEF OverInv
<1>17. barrier.generation.n < posix.barriers
  BY <1>3, <1>4, <1>5 DEF StageInv, OutsideOf
<1>18. StageInv'
  <2>1. ASSUME NEW s \in Members PROVE OutsideOf(s)'
    <3>1. OutsideOf(s)
      BY DEF StageInv
    <3> QED
      BY <3>1, <1>1, <1>4, <1>6, <1>10 DEF OutsideOf, Same
  <2>2. ASSUME NEW s \in Members PROVE HereOf(s)'
    <3>1. HereOf(s)
      BY DEF StageInv
    <3>2. (\E h \in Members : Is(h, "cancelled")) => (\E h \in Members : Is(h, "cancelled"))'
      BY <1>1, <1>5, <1>10 DEF Is, Holds
    <3>3. CASE s = t
      BY <3>3, <1>5 DEF HereOf
    <3>4. CASE s # t
      BY <3>1, <3>2, <3>4, <1>1, <1>6, <1>9, <1>10 DEF HereOf, Same
    <3> QED
      BY <3>3, <3>4
  <2>3. ASSUME NEW s \in Members PROVE DoneOf(s)'
    <3>1. DoneOf(s)
      BY DEF StageInv
    <3>2. CASE s = t
      BY <3>2, <1>5 DEF DoneOf
    <3>3. CASE s # t
      BY <3>1, <3>3, <1>1, <1>6, <1>9, <1>10 DEF DoneOf, Same
    <3> QED
      BY <3>2, <3>3
  <2>4. ASSUME NEW h \in Members PROVE LastOf(h)'
    <3>1. LastOf(h)
      BY DEF StageInv
    <3>2. CASE h = t
      BY <3>2, <1>5 DEF LastOf
    <3>3. CASE h # t
      <4>1. ~Over(h) /\ Last(h) => ~Here(h)
        BY <3>1, <1>5, <3>3 DEF LastOf
      <4>2. (Last(h)' <=> Last(h)) /\ (Over(h)' <=> Over(h)) /\ member'[h].pc = member[h].pc
        BY <1>1, <3>3 DEF Same
      <4>3. Done(h) /\ ~Over(h) /\ Last(h) =>
               \A s \in Members : ~Over(s)' /\ Inside(s)' => Done(s)'
        BY <3>1, <1>1, <1>5, <1>10 DEF LastOf, Same
      <4> QED
        BY <3>1, <3>3, <4>1, <4>2, <4>3, <1>1, <1>6, <1>10 DEF LastOf, Is
    <3> QED
      BY <3>2, <3>3
  <2>5. barrier'.generation.waiting => \E h \in Members : (~Over(h) /\ Last(h) /\ Here(h))'
    BY <1>1, <1>5, <1>6, <1>10 DEF StageInv, Same
  <2>6. (~barrier.mutex1 => \A s \in Members :
          Waits(s) /\ AtCancellable(s) => barrier.cancellable)'
    <3>1. CASE barrier'.cancellable = barrier.cancellable
      BY <3>1, <1>1, <1>5, <1>6 DEF StageInv, Same
    <3>2. CASE \A s \in Members : ~Waits(s)
      BY <3>2, <1>1, <1>5 DEF Same
    <3> QED
      BY <3>1, <3>2 DEF Jumps
  <2> QED
    BY <2>1, <2>2, <2>3, <2>4, <2>5, <2>6, <1>1, <1>3, <1>6, <1>17 DEF StageInv
<1> QED
  BY <1>1, <1>11, <1>12, <1>13, <1>14, <1>16, <1>18

\* A thread that finds the region cancelled.
LEMMA JumpInv ==
  ASSUME PosixInv, NEW t \in Members, JumpToFinal(t), UNCHANGED <<posix, barrier, counts>>,
         member[t].pc \in {"user", "cancel"}, AtCancellable(t), barrier.generation.cancelled
  PROVE  PosixInv'
<1>1. Moves(t, ToEnd(member[t]))
  <2>1. member' = [member EXCEPT ![t] = ToEnd(member[t])]
    BY DEF JumpToFinal
  <2>2. ToEnd(member[t]) \in Records
    BY ToEndFields DEF PosixInv
  <2> QED
    BY <2>1, <2>2 DEF Moves
<1>2. Jumps(t)
  BY <1>1 DEF Jumps
<1>3. Typed'
  BY <1>1, MovesFrame DEF PosixInv, Typed
<1> QED
  BY <1>2, <1>3, JumpsInv

\* The one that cancels the region, when nobody waits at a cancellable barrier.
LEMMA CancelAloneInv ==
  ASSUME PosixInv, NEW t \in Members, CancelBarrier(t),
         ~barrier.generation.cancelled, ~(barrier.cancellable /\ barrier.arrived > 0)
  PROVE  PosixInv'
<1>0. member[t].pc = "cancel" /\ AtCancellable(t) /\ ~barrier.mutex1
  BY DEF CancelBarrier, Is, PosixInv, PlaceOf
<1>1. Moves(t, ToEnd(member[t]))
  <2>1. member' = [member EXCEPT ![t] = ToEnd(member[t])]
    BY DEF CancelBarrier, JumpToFinal
  <2>2. ToEnd(member[t]) \in Records
    BY ToEndFields DEF PosixInv
  <2> QED
    BY <2>1, <2>2 DEF Moves, CancelBarrier
<1>2. barrier' = [barrier EXCEPT !.generation.cancelled = TRUE, !.mutex1 = FALSE,
                                 !.cancellable = FALSE, !.sem1 = barrier.sem1]
  <2> DEFINE wait == barrier.cancellable /\ barrier.arrived > 0
  <2>1. barrier' = [barrier EXCEPT !.generation.cancelled = TRUE,
                    !.mutex1 = wait, !.cancellable = FALSE,
                    !.sem1 = IF wait THEN @ + barrier.arrived ELSE @]
    BY DEF CancelBarrier
  <2>2. wait = FALSE
    OBVIOUS
  <2> HIDE DEF wait
  <2> QED
    BY <2>1, <2>2
<1>3. barrier \in BarrierSet
  BY DEF PosixInv, Typed, BarrierSet
<1>4. /\ barrier' \in BarrierSet
      /\ barrier'.generation.n = barrier.generation.n
      /\ barrier'.generation.waiting = barrier.generation.waiting
      /\ barrier'.generation.cancelled
      /\ barrier'.mutex1 = barrier.mutex1 /\ barrier'.arrived = barrier.arrived
      /\ barrier'.sem2 = barrier.sem2
  BY <1>0, <1>2, <1>3 DEF BarrierSet, Words
<1>5. \A s \in Members : ~Waits(s)
  <2>1. ~AtSimple(t) /\ ~Over(t) /\ member[t].phase < posix.barriers
    BY <1>0, MembersFinite DEF AtSimple, AtCancellable, Over, Is, PosixInv, Typed, Records
  <2>2. Clean
    BY <2>1 DEF PosixInv, OverInv, Ended, Clean
  <2>3. ~Inside(t)
    BY <1>0 DEF Inside, Waits, Last, Handling, Is
  <2>4. member[t].phase = barrier.generation.n /\ posix.cancellable
    BY <1>0, <2>1, <2>3 DEF PosixInv, StageInv, OutsideOf, AtCancellable
  <2> SUFFICES ASSUME NEW s \in Members, Waits(s) PROVE FALSE
    OBVIOUS
  <2>5. s \in Counted /\ Counted \in SUBSET Members
    BY DEF Counted
  <2>6. Cardinality(Counted) \in Nat /\ Cardinality(Counted) # 0
    BY <2>5, OneMore DEF PosixInv
  <2>7. barrier.arrived > 0
    BY <2>2, <2>6 DEF PosixInv, CountInv
  <2>8. ~AtCancellable(s)
    BY <2>7, <1>0 DEF PosixInv, StageInv
  <2>9. ~Over(s)
    <3>1. ~Through(t)
      BY <2>1, <2>3 DEF Through
    <3> QED
      BY <3>1 DEF PosixInv, OverInv, Through
  <2>10. Here(s) /\ Inside(s)
    BY <2>9, <1>0, MutexFree DEF Inside
  <2>11. member[s].phase = barrier.generation.n
    BY <2>9, <2>10 DEF PosixInv, StageInv, HereOf
  <2> QED
    BY <2>1, <2>4, <2>8, <2>11 DEF AtCancellable
<1>6. Jumps(t)
  BY <1>0, <1>1, <1>4, <1>5 DEF Jumps, CancelBarrier
<1>7. Typed'
  BY <1>1, <1>4, MovesFrame DEF PosixInv, Typed, BarrierSet, CancelBarrier, Moves
<1> QED
  BY <1>6, <1>7, JumpsInv

\* The one that cancels the region and lets go those that wait.
LEMMA CancelWakesInv ==
  ASSUME PosixInv, NEW t \in Members, CancelBarrier(t),
         ~barrier.generation.cancelled, barrier.cancellable /\ barrier.arrived > 0
  PROVE  PosixInv'
<1> DEFINE r == [member[t] EXCEPT !.pc = "cancelled"]
<1> USE DEF PosixInv
<1>0. /\ member[t].pc = "cancel" /\ AtCancellable(t) /\ ~barrier.mutex1
      /\ posix' = posix /\ counts' = counts
  BY DEF CancelBarrier, Is, PlaceOf
<1>1. /\ ~member[t].told /\ member[t] \in Records
  BY <1>0, NotTold
<1>2. r \in Records
  BY <1>1, RecordsTyped DEF PCs
<1>3. Moves(t, r)
  BY <1>0, <1>2 DEF CancelBarrier, Moves, Proceed
<1>4. /\ Members' = Members /\ member'[t] = r
      /\ \A s \in Members : s # t => Same(s)
      /\ member' \in [Members -> Records]
  BY <1>3, MovesFrame
<1>5. /\ r.pc = "cancelled" /\ r.told = member[t].told /\ r.last = member[t].last
      /\ r.phase = member[t].phase /\ r.n = member[t].n /\ r.then = member[t].then
  BY <1>1 DEF Records
<1> DEFINE moves == Moves(t, r)
<1>6. moves
  BY <1>3
<1> HIDE DEF r
<1>7. /\ barrier' \in BarrierSet
      /\ barrier'.generation.n = barrier.generation.n
      /\ barrier'.generation.waiting = barrier.generation.waiting
      /\ barrier'.generation.cancelled
      /\ barrier'.mutex1 /\ barrier'.arrived = barrier.arrived
      /\ barrier'.sem2 = barrier.sem2 /\ ~barrier'.cancellable
  <2>1. barrier \in BarrierSet /\ barrier.sem1 + barrier.arrived \in Int
    BY DEF Typed, BarrierSet
  <2>2. barrier' = [barrier EXCEPT !.generation.cancelled = TRUE, !.mutex1 = TRUE,
                      !.cancellable = FALSE, !.sem1 = barrier.sem1 + barrier.arrived]
    <3> DEFINE wait == barrier.cancellable /\ barrier.arrived > 0
    <3>1. barrier' = [barrier EXCEPT !.generation.cancelled = TRUE,
                    !.mutex1 = wait, !.cancellable = FALSE,
                    !.sem1 = IF wait THEN @ + barrier.arrived ELSE @]
      BY DEF CancelBarrier
    <3>2. wait = TRUE
      OBVIOUS
    <3> HIDE DEF wait
    <3> QED
      BY <3>1, <3>2
  <2> QED
    BY <2>1, <2>2 DEF BarrierSet, Words
<1>8. /\ ~AtSimple(t) /\ ~Over(t) /\ ~AtFinal(t) /\ ~Skipping(t) /\ posix.cancellable
      /\ member[t].phase < posix.barriers /\ posix.barriers \in Nat /\ member[t].phase \in Int
  BY <1>0, <1>1, MembersFinite DEF AtSimple, AtFinal, Skipping, AtCancellable, Over, Is, Typed, Records
<1>9. /\ (AtSimple(t)' <=> AtSimple(t)) /\ (Over(t)' <=> Over(t)) /\ (AtFinal(t)' <=> AtFinal(t))
      /\ (Skipping(t)' <=> Skipping(t)) /\ (AtCancellable(t)' <=> AtCancellable(t))
  <2>1. /\ (AtSimple(t)' <=> AtSimple(t)) /\ (AtFinal(t)' <=> AtFinal(t))
        /\ (Skipping(t)' <=> Skipping(t)) /\ (AtCancellable(t)' <=> AtCancellable(t))
    BY <1>0, <1>4, <1>5 DEF AtSimple, AtFinal, Skipping, AtCancellable
  <2> QED
    BY <2>1, <1>0, <1>4, <1>5 DEF Over, Is
<1>10. /\ ~Waits(t) /\ ~Last(t) /\ ~Inside(t) /\ ~Holds(t) /\ ~TaskPc(t) /\ ~Is(t, "last")
       /\ ~Waits(t)' /\ ~Last(t)' /\ ~Inside(t)' /\ Holds(t)' /\ ~TaskPc(t)' /\ ~Is(t, "last")'
       /\ Is(t, "cancelled")'
  BY <1>0, <1>4, <1>5 DEF Waits, Last, Handling, Inside, Holds, TaskPc, Is
<1>11. ~Ended /\ Clean /\ ~Ended'
  BY <1>4, <1>8, <1>9 DEF OverInv, Ended, Clean, Same, Is
<1>12. /\ \A s \in Members : ~Holds(s) /\ ~Last(s) /\ ~Is(s, "last")
       /\ \A s \in Members : ~Over(s) /\ Inside(s) => Here(s)
       /\ ~barrier.generation.waiting
       /\ barrier.sem2 = 0
       /\ \A s \in Members : member[s].pc \notin {"leave", "tell"}
       /\ \A s \in Members : ~member[s].told
  BY <1>0, <1>11, MutexFree
<1>13. \A s \in Members : s # t => /\ (Here(s)' <=> Here(s)) /\ (Done(s)' <=> Done(s))
                                   /\ member'[s] = member[s]
  BY <1>4, <1>7 DEF Same, Here, Done
<1>14. Typed'
  BY <1>0, <1>4, <1>7 DEF Typed, BarrierSet
<1>15. HoldInv'
  BY <1>4, <1>7, <1>10, <1>12 DEF HoldInv, Same
<1>16. CountInv'
  <2>1. Counted' = Counted
    BY <1>4, <1>10 DEF Counted, Same, Is
  <2>2. CountInv
    BY <1>11
  <2> QED
    BY <2>1, <2>2, <1>0, <1>4, <1>5, <1>7, <1>10, <1>12, <1>13 DEF CountInv, Is, Same
<1>17. TaskInv'
  BY <1>0, <1>4, <1>5, <1>6, <1>10, TasksKept
<1>18. member[t].phase = barrier.generation.n
  BY <1>8, <1>10 DEF StageInv, OutsideOf
<1>19. ASSUME NEW s \in Members PROVE PlaceOf(s)'
  <2>1. PlaceOf(s)
    OBVIOUS
  <2>2. CASE s = t
    BY <2>1, <2>2, <1>0, <1>1, <1>4, <1>5, <1>7, <1>8, <1>9, <1>18 DEF PlaceOf, Is
  <2>3. CASE s # t
    <3>1. Same(s) /\ member'[s] = member[s]
      BY <1>4, <2>3 DEF Same
    <3>2. ~Is(s, "cancelled") /\ ~member[s].told
      BY <1>12 DEF Holds
    <3> QED
      BY <3>1, <3>2, <2>1, <1>0, <1>4 DEF PlaceOf, Is, Same
  <2> QED
    BY <2>2, <2>3
<1>20. \A s \in Members : ~Through(s) /\ ~Through(s)'
  <2>1. ~Through(t) /\ ~Through(t)'
    BY <1>8, <1>9 DEF Through
  <2> QED
    BY <2>1, <1>4, <1>13 DEF OverInv, Through, Same
<1>21. OverInv'
  BY <1>4, <1>11, <1>20 DEF OverInv
<1>22. StageInv'
  <2>1. ASSUME NEW s \in Members PROVE OutsideOf(s)'
    <3>1. OutsideOf(s)
      BY DEF StageInv
    <3> QED
      BY <3>1, <1>0, <1>4, <1>5, <1>7, <1>8, <1>9, <1>10, <1>13, <1>18 DEF OutsideOf, Same
  <2>2. ASSUME NEW s \in Members PROVE HereOf(s)'
    <3>1. CASE s = t
      BY <3>1, <1>10 DEF HereOf
    <3>2. CASE s # t
      <4> SUFFICES ASSUME ~Over(s), Inside(s), Here(s) PROVE HereOf(s)'
        BY <3>2, <1>4, <1>13 DEF HereOf, Same
      <4>1. member[s].phase = barrier.generation.n
            /\ member[s].pc \notin {"leave", "tell", "post", "top", "wakeall"}
        BY <1>12 DEF StageInv, HereOf
      <4>2. AtCancellable(s)
        BY <4>1, <1>8, <1>18 DEF AtCancellable
      <4> QED
        BY <3>2, <4>1, <4>2, <1>0, <1>4, <1>7, <1>8, <1>10, <1>13, <1>18 DEF HereOf, Same
    <3> QED
      BY <3>1, <3>2
  <2>3. ASSUME NEW s \in Members PROVE DoneOf(s)'
    BY <1>4, <1>10, <1>12, <1>13 DEF DoneOf, Same
  <2>4. ASSUME NEW h \in Members PROVE LastOf(h)'
    BY <1>4, <1>10, <1>12 DEF LastOf, Same
  <2> QED
    BY <2>1, <2>2, <2>3, <2>4, <1>0, <1>4, <1>7, <1>8, <1>12, <1>18 DEF StageInv
<1> QED
  BY <1>4, <1>14, <1>15, <1>16, <1>17, <1>19, <1>21, <1>22
-----------------------------------------------------------------------------
(* Arrival.                                                                *)

Arrives(t, last, p) ==
    /\ member' = [member EXCEPT ![t].n = barrier.generation.n, ![t].last = last, ![t].pc = p]
    /\ barrier' = [barrier EXCEPT !.arrived = @ + 1, !.mutex1 = last,
                    !.cancellable = @ \/ (AtCancellable(t) /\ ~last)]

\* gomp_barrier_wait_start and the arrival in the waits.
LEMMA ArriveInv ==
  ASSUME PosixInv, NEW t \in Members, PosixArrive(t)
  PROVE  PosixInv'
<1> USE DEF PosixInv
<1>0. /\ member[t].pc = "user" /\ ~barrier.mutex1
      /\ posix' = posix /\ counts' = counts
      /\ member[t] \in Records /\ barrier \in BarrierSet
  BY DEF PosixArrive, Is, Typed, BarrierSet
<1>1. CASE AtCancellable(t) /\ barrier.generation.cancelled
  BY <1>0, <1>1, JumpInv DEF PosixArrive
<1>2. CASE ~(AtCancellable(t) /\ barrier.generation.cancelled)
  <2> DEFINE last == barrier.arrived + 1 = posix.size
             p == IF last THEN "last" ELSE "wait"
             r == [member[t] EXCEPT !.n = barrier.generation.n, !.last = last, !.pc = p]
  <2>1. Arrives(t, last, p)
    BY <1>2 DEF PosixArrive, Arrives
  <2>2. last \in BOOLEAN /\ barrier.generation.n \in Int /\ p \in {"last", "wait"}
        /\ ((p = "last") <=> last)
    BY <1>0 DEF BarrierSet, Words
  <2> DEFINE lastDef == last <=> barrier.arrived + 1 = posix.size
  <2>3. lastDef
    OBVIOUS
  <2> HIDE DEF last, p
  <2>4. /\ r \in Records /\ r.n = barrier.generation.n /\ r.last = last /\ r.pc = p
        /\ r.phase = member[t].phase /\ r.told = member[t].told /\ r.then = member[t].then
    BY <1>0, <2>2 DEF Records, PCs
  <2>5. Moves(t, r)
    BY <1>0, <2>1, <2>4 DEF Moves, Arrives
  <2> DEFINE moves == Moves(t, r)
  <2>50. moves
    BY <2>5
  <2> HIDE DEF r
  <2>6. /\ Members' = Members /\ member'[t] = r
        /\ \A s \in Members : s # t => Same(s)
        /\ member' \in [Members -> Records]
    BY <2>5, MovesFrame
  <2>7. /\ barrier' \in BarrierSet
        /\ barrier'.generation = barrier.generation
        /\ (barrier'.mutex1 <=> last) /\ barrier'.arrived = barrier.arrived + 1
        /\ barrier'.sem2 = barrier.sem2
        /\ (barrier'.cancellable <=> barrier.cancellable \/ (AtCancellable(t) /\ ~last))
    <3>1. (barrier.cancellable \/ (AtCancellable(t) /\ ~last)) \in BOOLEAN
          /\ barrier.arrived + 1 \in Int
      BY <1>0 DEF BarrierSet
    <3> QED
      BY <1>0, <2>1, <2>2, <3>1 DEF Arrives, BarrierSet
  <2>8. /\ (AtSimple(t)' <=> AtSimple(t)) /\ (Over(t)' <=> Over(t)) /\ (AtFinal(t)' <=> AtFinal(t))
        /\ (Skipping(t)' <=> Skipping(t)) /\ (AtCancellable(t)' <=> AtCancellable(t))
    <3>1. /\ (AtSimple(t)' <=> AtSimple(t)) /\ (AtFinal(t)' <=> AtFinal(t))
          /\ (Skipping(t)' <=> Skipping(t)) /\ (AtCancellable(t)' <=> AtCancellable(t))
      BY <1>0, <2>4, <2>6 DEF AtSimple, AtFinal, Skipping, AtCancellable
    <3> QED
      BY <3>1, <1>0, <2>2, <2>4, <2>6 DEF Over, Is
  <2>9. /\ ~Waits(t) /\ ~Last(t) /\ ~Inside(t) /\ ~Holds(t) /\ ~TaskPc(t) /\ ~Is(t, "last")
        /\ (Waits(t)' <=> ~last) /\ (Last(t)' <=> last) /\ Inside(t)' /\ (Holds(t)' <=> last)
        /\ ~TaskPc(t)' /\ (Is(t, "last")' <=> last) /\ (Is(t, "wait")' <=> ~last)
    BY <1>0, <2>2, <2>4, <2>6 DEF Waits, Last, Handling, Inside, Holds, TaskPc, Is
  <2>10. Here(t)' /\ ~Done(t)'
    BY <2>2, <2>4, <2>6, <2>7 DEF Here, Done
  <2>11. \A s \in Members : s # t => /\ (Here(s)' <=> Here(s)) /\ (Done(s)' <=> Done(s))
                                     /\ member'[s] = member[s]
    BY <2>6, <2>7 DEF Same, Here, Done
  <2>12. /\ \A s \in Members : ~Holds(s) /\ ~Last(s) /\ ~Is(s, "last")
         /\ \A s \in Members : ~Over(s) /\ Inside(s) => Here(s)
         /\ ~barrier.generation.waiting
         /\ Clean => /\ barrier.sem2 = 0
                     /\ \A s \in Members : member[s].pc \notin {"leave", "tell"}
         /\ \A s \in Members : ~member[s].told
    BY <1>0, MutexFree
  <2>13. \A s \in Members : ~Done(s) \/ Over(s) \/ ~Inside(s)
    BY <2>12, <2>2 DEF Here, Done
  \* At the simple barrier, everybody is.
  <2>14. Over(t) => \A s \in Members : AtSimple(s) /\ posix.nested
    <3> SUFFICES ASSUME Over(t), NEW s \in Members PROVE AtSimple(s) /\ posix.nested
      OBVIOUS
    <3>1. AtSimple(t) /\ posix.nested
      BY <1>0 DEF Over, Is, PlaceOf
    <3>2. Over(s)
      BY <2>13 DEF OverInv, Through
    <3> QED
      BY <3>1, <3>2 DEF Over, PlaceOf
  <2>15. ~Over(t) => (~Ended /\ Clean /\ ~Ended' /\ \A s \in Members : ~Over(s))
    <3> SUFFICES ASSUME ~Over(t) PROVE ~Ended /\ Clean /\ ~Ended' /\ \A s \in Members : ~Over(s)
      OBVIOUS
    <3>1. ~Through(t)
      BY <2>9 DEF Through
    <3>2. \A s \in Members : ~Over(s)
      BY <3>1 DEF OverInv, Through
    <3>3. ~Ended /\ ~Ended'
      BY <3>2, <2>6, <2>8 DEF Ended, Over, Same
    <3> QED
      BY <3>2, <3>3 DEF Clean
  <2>16. Clean' => Clean
    <3>1. Ended => Ended'
      <4> QED
        BY <2>6, <1>0, <2>11, <2>8 DEF Ended, Same, Is
    <3> QED
      BY <3>1, <1>0 DEF Clean
  <2>17. Clean /\ last => \A s \in Members : s # t => Waits(s) /\ ~Is(s, "leave")
    <3> SUFFICES ASSUME Clean, last PROVE \A s \in Members : s # t => Waits(s) /\ ~Is(s, "leave")
      OBVIOUS
    <3>1. Counted \in SUBSET Members /\ t \notin Counted
      BY <2>9 DEF Counted
    <3>2. Cardinality(Counted) + 1 = posix.size
      BY <2>3 DEF CountInv
    <3>3. \A s \in Members : s # t => s \in Counted
      BY <3>1, <3>2, AllButOne
    <3> QED
      BY <3>3, <2>12 DEF Counted, Is
  <2>18. Typed'
    BY <1>0, <2>6, <2>7 DEF Typed, BarrierSet
  <2>19. HoldInv'
    BY <2>6, <2>7, <2>9, <2>12 DEF HoldInv, Same
  <2>20. Clean' => CountInv'
    <3> SUFFICES ASSUME Clean' PROVE CountInv'
      OBVIOUS
    <3>1. CountInv /\ Clean
      BY <2>16
    <3>2. Counted' = Counted \cup {t} /\ t \notin Counted /\ Counted \in SUBSET Members
      BY <2>6, <2>9 DEF Counted, Same, Is
    <3>3. Cardinality(Counted') = Cardinality(Counted) + 1
      BY <3>2, OneMore
    <3>4. barrier'.arrived = Cardinality(Counted')
      BY <3>1, <3>3, <2>7 DEF CountInv
    <3>5. \A s \in Members : member'[s].pc \notin {"leave", "tell"}
      BY <3>1, <2>2, <2>4, <2>6, <2>11, <2>12
    <3>6. ASSUME NEW s \in Members, NEW u \in Members, Is(u, "last")'
          PROVE  s = u \/ (Waits(s) /\ ~Is(s, "leave"))'
      <4>1. u = t /\ last
        BY <3>6, <2>9, <2>11, <2>12 DEF Is
      <4> QED
        BY <4>1, <3>1, <2>6, <2>11, <2>17 DEF Same, Is
    <3> QED
      BY <3>1, <3>4, <3>5, <3>6, <2>6, <2>7, <2>12 DEF CountInv, Is
  <2>21. TaskInv'
    <3>1. r.pc # "complete"
      BY <2>2, <2>4
    <3> QED
      BY <3>1, <1>0, <2>9, <2>50, TasksKept
  <2>22. ASSUME NEW s \in Members PROVE PlaceOf(s)'
    <3>1. PlaceOf(s)
      OBVIOUS
    <3>2. ~Is(s, "cancelled") /\ ~member[s].told
      BY <2>12 DEF Holds
    <3>3. CASE s = t
      <4>1. r.pc \in {"last", "wait"} /\ (r.pc = "last" => r.last) /\ (r.pc = "wait" => ~r.last)
        BY <2>2, <2>4
      <4> QED
        BY <4>1, <3>1, <3>2, <3>3, <1>0, <2>4, <2>6, <2>8 DEF PlaceOf, Is, SimplePcs
    <3>4. CASE s # t
      <4>1. Same(s) /\ member'[s] = member[s]
        BY <2>6, <3>4 DEF Same
      <4> QED
        BY <4>1, <3>1, <3>2, <1>0, <2>6 DEF PlaceOf, Is, Same
    <3> QED
      BY <3>3, <3>4
  <2>23. OverInv'
    <3>1. \A s \in Members : Through(s)' <=> Through(s)
      BY <2>6, <2>8, <2>9, <2>10, <2>11 DEF Through, Same
    <3>2. Ended' => \A s \in Members : AtSimple(s)'
      <4>1. CASE Over(t)
        BY <4>1, <2>14, <2>6, <2>8 DEF Same
      <4>2. CASE ~Over(t)
        BY <4>2, <2>15
      <4> QED
        BY <4>1, <4>2
    <3> QED
      BY <3>1, <3>2, <2>6 DEF OverInv
  <2>24. StageInv'
    <3>1. ASSUME NEW s \in Members PROVE OutsideOf(s)'
      BY <1>0, <2>6, <2>7, <2>9 DEF StageInv, OutsideOf, Same
    <3>2. ASSUME NEW s \in Members PROVE HereOf(s)'
      <4>1. CASE s = t
        <5> SUFFICES ASSUME ~Over(t)
                     PROVE /\ r.pc \notin {"leave", "tell", "post", "top", "wakeall"}
                           /\ \/ /\ r.phase = barrier.generation.n
                                 /\ r.phase <= posix.barriers /\ ~barrier.generation.cancelled
                              \/ Skipping(t) /\ barrier.generation.cancelled
          BY <4>1, <1>0, <2>4, <2>6, <2>7, <2>8 DEF HereOf
        <5>1. OutsideOf(t)
          BY DEF StageInv
        <5>2. \/ member[t].phase = barrier.generation.n /\ member[t].phase <= posix.barriers
              \/ Skipping(t) /\ barrier.generation.cancelled
          BY <5>1, <2>9 DEF OutsideOf
        <5>3. barrier.generation.cancelled => barrier.generation.n < posix.barriers
                                              /\ posix.cancellable
          BY DEF StageInv
        <5>4. barrier.generation.cancelled /\ member[t].phase = barrier.generation.n => FALSE
          BY <5>3, <1>2 DEF AtCancellable
        <5>5. r.pc \notin {"leave", "tell", "post", "top", "wakeall"}
          BY <2>2, <2>4
        <5> QED
          BY <5>2, <5>4, <5>5, <2>4
      <4>2. CASE s # t
        <5>1. HereOf(s)
          BY DEF StageInv
        <5>2. \A h \in Members : ~Is(h, "cancelled")
          BY <2>12 DEF Holds
        <5> QED
          BY <5>1, <5>2, <4>2, <1>0, <2>6, <2>7, <2>11 DEF HereOf, Same
      <4> QED
        BY <4>1, <4>2
    <3>3. ASSUME NEW s \in Members PROVE DoneOf(s)'
      BY <2>6, <2>8, <2>10, <2>11, <2>12 DEF DoneOf, Same
    <3>4. ASSUME NEW h \in Members PROVE LastOf(h)'
      <4>1. CASE h = t
        <5> SUFFICES ASSUME ~Over(t), last PROVE LastOf(t)'
          BY <4>1, <2>8, <2>9 DEF LastOf
        <5>1. \A s \in Members : ~Over(s)' /\ (s # t => Waits(s)' /\ Here(s)')
          <6>1. \A s \in Members : s # t => Waits(s) /\ ~Over(s)
            BY <2>15, <2>17
          <6>2. \A s \in Members : s # t => Here(s)
            BY <6>1, <2>12 DEF Inside
          <6> QED
            BY <6>1, <6>2, <2>6, <2>8, <2>11 DEF Same
        <5>2. Is(t, "last")' /\ ~barrier'.generation.waiting
          BY <2>7, <2>9, <2>12
        <5> QED
          BY <5>1, <5>2, <2>6, <2>10 DEF LastOf, Is
      <4>2. CASE h # t
        BY <4>2, <2>6, <2>12 DEF LastOf, Same
      <4> QED
        BY <4>1, <4>2
    <3>5. (~barrier.mutex1 => \A s \in Members :
            Waits(s) /\ AtCancellable(s) => barrier.cancellable)'
      <4>1. \A s \in Members : Waits(s) /\ AtCancellable(s) => barrier.cancellable
        BY <1>0 DEF StageInv
      <4> QED
        BY <4>1, <2>6, <2>7, <2>8 DEF Same
    <3> QED
      BY <3>1, <3>2, <3>3, <3>4, <3>5, <1>0, <2>6, <2>7, <2>12 DEF StageInv
  <2> QED
    BY <2>6, <2>18, <2>19, <2>20, <2>21, <2>22, <2>23, <2>24
<1> QED
  BY <1>1, <1>2
-----------------------------------------------------------------------------
(* The last thread to arrive.                                              *)

LEMMA PosixLastInv ==
  ASSUME PosixInv, NEW t \in Members, PosixLast(t)
  PROVE  PosixInv'
<1> USE DEF PosixInv
<1> DEFINE p == IF AtSimple(t) THEN "post" ELSE IF counts.task > 0 THEN "handle" ELSE "complete"
           r == [member[t] EXCEPT !.pc = p]
<1>0. /\ member[t].pc = "last" /\ posix' = posix /\ counts' = counts
      /\ member[t] \in Records /\ barrier \in BarrierSet /\ ~member[t].told /\ PlaceOf(t)
      /\ member[t].last
  BY NotTold DEF PosixLast, Is, Typed, BarrierSet, PlaceOf
<1>1. /\ p \in {"post", "handle", "complete"} /\ (p = "post" <=> AtSimple(t))
      /\ p = "complete" => ~(counts.task > 0)
  OBVIOUS
<1>2. member' = [member EXCEPT ![t] = r]
  BY DEF PosixLast, Proceed, Typed, Records
<1> HIDE DEF p
<1>3. /\ r \in Records /\ r.pc = p /\ r.phase = member[t].phase /\ r.n = member[t].n
      /\ r.last = member[t].last /\ r.told = member[t].told /\ r.then = member[t].then
  BY <1>0, <1>1 DEF Records, PCs
<1>4. Moves(t, r)
  BY <1>0, <1>2, <1>3 DEF Moves
<1> DEFINE moves == Moves(t, r)
<1>5. moves
  BY <1>4
<1>6. /\ Members' = Members /\ member'[t] = r
      /\ \A s \in Members : s # t => Same(s)
      /\ member' \in [Members -> Records]
  BY <1>4, MovesFrame
<1> HIDE DEF r
<1>7. /\ barrier' \in BarrierSet
      /\ barrier'.generation = barrier.generation
      /\ barrier'.mutex1 = barrier.mutex1 /\ barrier'.arrived = barrier.arrived - 1
      /\ barrier'.sem2 = barrier.sem2
  <2>1. (barrier.cancellable /\ ~AtCancellable(t)) \in BOOLEAN /\ barrier.arrived - 1 \in Int
    BY <1>0 DEF BarrierSet
  <2> QED
    BY <1>0, <2>1 DEF PosixLast, BarrierSet
<1>8. /\ (AtSimple(t)' <=> AtSimple(t)) /\ (Over(t)' <=> Over(t)) /\ (AtFinal(t)' <=> AtFinal(t))
      /\ (Skipping(t)' <=> Skipping(t)) /\ (AtCancellable(t)' <=> AtCancellable(t))
  <2>1. /\ (AtSimple(t)' <=> AtSimple(t)) /\ (AtFinal(t)' <=> AtFinal(t))
        /\ (Skipping(t)' <=> Skipping(t)) /\ (AtCancellable(t)' <=> AtCancellable(t))
    BY <1>0, <1>3, <1>6 DEF AtSimple, AtFinal, Skipping, AtCancellable
  <2> QED
    BY <2>1, <1>0, <1>1, <1>3, <1>6 DEF Over, Is
<1>9. /\ ~Waits(t) /\ Last(t) /\ Inside(t) /\ Holds(t) /\ ~TaskPc(t) /\ Is(t, "last")
      /\ ~Waits(t)' /\ Last(t)' /\ Inside(t)' /\ Holds(t)' /\ ~TaskPc(t)' /\ ~Is(t, "last")'
  BY <1>0, <1>1, <1>3, <1>6 DEF Waits, Last, Handling, Inside, Holds, TaskPc, Is
<1>10. \A s \in Members : /\ (Here(s)' <=> Here(s)) /\ (Done(s)' <=> Done(s))
                          /\ s # t => member'[s] = member[s]
  BY <1>3, <1>6, <1>7 DEF Same, Here, Done
<1>11. \A s \in Members : /\ (Over(s)' <=> Over(s)) /\ (Inside(s)' <=> Inside(s))
                          /\ (Holds(s)' <=> Holds(s)) /\ (Last(s)' <=> Last(s))
                          /\ (Waits(s)' <=> Waits(s)) /\ (AtSimple(s)' <=> AtSimple(s))
                          /\ (AtFinal(s)' <=> AtFinal(s)) /\ (Skipping(s)' <=> Skipping(s))
                          /\ (AtCancellable(s)' <=> AtCancellable(s))
  BY <1>6, <1>8, <1>9 DEF Same
<1>12. /\ \A s \in Members : ~Is(s, "cancelled") /\ ~member[s].told
       /\ barrier.mutex1
  <2>1. \A s \in Members : ~Is(s, "cancelled")
    <3> SUFFICES ASSUME NEW s \in Members, Is(s, "cancelled") PROVE FALSE
      OBVIOUS
    <3>1. s = t
      BY <1>9 DEF HoldInv, Holds
    <3> QED
      BY <3>1, <1>0 DEF Is
  <2> QED
    BY <2>1, <1>9 DEF HoldInv, PlaceOf
<1>13. Typed'
  BY <1>0, <1>6, <1>7 DEF Typed, BarrierSet
<1>14. HoldInv'
  BY <1>6, <1>7, <1>11 DEF HoldInv
<1>15. Ended' <=> Ended
  BY <1>0, <1>1, <1>3, <1>6, <1>8, <1>10 DEF Ended, Same, Is
<1>16. Clean' => CountInv'
  <2> SUFFICES ASSUME CountInv PROVE CountInv'
    BY <1>0, <1>15 DEF Clean
  <2>1. Counted' = Counted \ {t} /\ t \in Counted /\ Counted \in SUBSET Members
    BY <1>6, <1>9 DEF Counted, Same, Is
  <2>2. Cardinality(Counted') = Cardinality(Counted) - 1 /\ Cardinality(Counted) \in Nat
        /\ Cardinality(Counted) # 0
    BY <2>1, OneMore
  <2>3. barrier'.arrived = Cardinality(Counted') /\ barrier.arrived # 0
    BY <2>2, <1>7 DEF CountInv
  <2>4. barrier.sem2 = 0 /\ \A s \in Members : ~Is(s, "tell")
    BY <2>3 DEF CountInv
  <2>5. \A s \in Members : ~Is(s, "tell")' /\ ~Is(s, "leave")'
    <3>1. \A s \in Members : s # t => ~Is(s, "leave")
      BY <1>9 DEF CountInv
    <3> QED
      BY <3>1, <2>4, <1>1, <1>3, <1>6, <1>10 DEF Is
  <2>6. \A s \in Members : ~Is(s, "last")'
    <3>1. \A s \in Members : Is(s, "last") => s = t
      BY <1>9 DEF HoldInv, Holds, Last, Is
    <3> QED
      BY <3>1, <1>6, <1>9, <1>10 DEF Is
  <2> QED
    BY <2>3, <2>4, <2>5, <2>6, <1>6, <1>7 DEF CountInv, Is
<1>17. TaskInv'
  <2>1. Executing' = Executing
    BY <1>6, <1>9 DEF Executing, Same
  <2>2. p = "complete" => counts.task = 0
    <3>1. Executing \in SUBSET Members
      BY DEF Executing
    <3>2. Cardinality(Executing) \in Nat
      BY <3>1, OneMore
    <3> QED
      BY <3>2, <1>1 DEF TaskInv, Typed
  <2>3. \A s \in Members : Is(s, "complete")' => counts.task = 0
    BY <2>2, <1>3, <1>6, <1>10 DEF TaskInv, Is
  <2> QED
    BY <2>1, <2>3, <1>0, <1>6 DEF TaskInv
<1>18. ASSUME NEW s \in Members PROVE PlaceOf(s)'
  <2>1. PlaceOf(s)
    OBVIOUS
  <2>2. CASE s = t
    BY <2>2, <1>0, <1>1, <1>3, <1>6, <1>8 DEF PlaceOf, Is, SimplePcs
  <2>3. CASE s # t
    BY <2>1, <2>3, <1>0, <1>6, <1>10, <1>11, <1>12 DEF PlaceOf, Is
  <2> QED
    BY <2>2, <2>3
<1>19. OverInv'
  <2>1. \A s \in Members : Through(s)' <=> Through(s)
    BY <1>10, <1>11 DEF Through
  <2> QED
    BY <2>1, <1>6, <1>11, <1>15 DEF OverInv
<1>20. StageInv'
  <2>1. ASSUME NEW s \in Members PROVE OutsideOf(s)'
    BY <1>0, <1>3, <1>6, <1>7, <1>10, <1>11 DEF StageInv, OutsideOf
  <2>2. ~Over(t) => Here(t)
    BY <1>0, <1>9 DEF StageInv, DoneOf
  <2>3. ASSUME NEW s \in Members PROVE HereOf(s)'
    <3>1. HereOf(s)
      BY DEF StageInv
    <3>2. CASE s = t
      <4> SUFFICES ASSUME ~Over(t) PROVE HereOf(t)'
        BY <3>2, <1>11 DEF HereOf
      <4>1. r.pc \in {"handle", "complete"}
        BY <1>1, <1>3 DEF Over
      <4> QED
        BY <4>1, <3>1, <3>2, <2>2, <1>0, <1>3, <1>6, <1>7, <1>9, <1>10, <1>11, <1>12 DEF HereOf
    <3>3. CASE s # t
      BY <3>1, <3>3, <1>0, <1>6, <1>7, <1>10, <1>11, <1>12 DEF HereOf
    <3> QED
      BY <3>2, <3>3
  <2>4. ASSUME NEW s \in Members PROVE DoneOf(s)'
    <3>1. DoneOf(s)
      BY DEF StageInv
    <3>2. CASE s = t
      BY <3>2, <2>2, <1>10, <1>11 DEF DoneOf
    <3>3. CASE s # t
      BY <3>1, <3>3, <1>0, <1>6, <1>7, <1>10, <1>11 DEF DoneOf, Is
    <3> QED
      BY <3>2, <3>3
  <2>5. ASSUME NEW h \in Members PROVE LastOf(h)'
    <3>1. LastOf(h)
      BY DEF StageInv
    <3>2. CASE h = t
      <4> SUFFICES ASSUME ~Over(t) PROVE LastOf(t)'
        BY <3>2, <1>11 DEF LastOf
      <4>1. r.pc \in {"handle", "complete"}
        BY <1>1, <1>3 DEF Over
      <4>2. ~barrier.generation.waiting
        BY <3>1, <3>2, <1>0, <1>9 DEF LastOf
      <4> QED
        BY <4>1, <4>2, <3>1, <3>2, <1>0, <1>3, <1>6, <1>7, <1>9, <1>10, <1>11 DEF LastOf, Is
    <3>3. CASE h # t
      BY <3>1, <3>3, <1>0, <1>6, <1>7, <1>10, <1>11 DEF LastOf, Is
    <3> QED
      BY <3>2, <3>3
  <2> QED
    BY <2>1, <2>3, <2>4, <2>5, <1>0, <1>6, <1>7, <1>10, <1>11, <1>12 DEF StageInv
<1> QED
  BY <1>6, <1>13, <1>14, <1>16, <1>17, <1>18, <1>19, <1>20

(* Who leaves the barrier.                                                 *)

LEMMA OutFields ==
  ASSUME PosixInv, NEW t \in Members, ~member[t].told
  PROVE  LET r == Out(member[t])
         IN /\ r \in Records /\ r.pc \in {"user", "left"} /\ ~r.told
            /\ r.n = member[t].n /\ r.last = member[t].last /\ r.then = member[t].then
            /\ member[t].phase < posix.barriers =>
                  r.pc = "user" /\ r.phase = member[t].phase + 1
            /\ AtSimple(t) => r.pc = "left" /\ r.phase = member[t].phase
            /\ ~AtSimple(t) /\ ~(member[t].phase < posix.barriers) =>
                  \/ r.pc = "user" /\ r.phase = posix.barriers + 2 /\ posix.nested
                  \/ r.pc = "left" /\ r.phase = member[t].phase /\ ~posix.nested
<1>1. /\ member[t] \in Records /\ posix.barriers \in Nat /\ member[t].phase \in Int
      /\ member[t].phase \in 0..posix.barriers + 2
  BY MembersFinite DEF PosixInv, Typed, Records, PlaceOf
<1>2. CASE member[t].phase < posix.barriers
  <2>1. Out(member[t]) = [member[t] EXCEPT !.phase = member[t].phase + 1, !.pc = "user"]
    BY <1>1, <1>2 DEF Out
  <2>2. member[t].phase + 1 \in Int /\ ~AtSimple(t)
    BY <1>1, <1>2 DEF AtSimple
  <2> QED
    BY <2>1, <2>2, <1>1, <1>2 DEF Records, PCs
<1>3. CASE member[t].phase \in posix.barriers..posix.barriers + 1
  <2>1. ~(member[t].phase < posix.barriers) /\ ~AtSimple(t) /\ posix.barriers + 2 \in Int
    BY <1>1, <1>3 DEF AtSimple
  <2>2. CASE posix.nested
    <3>1. Out(member[t]) = [member[t] EXCEPT !.phase = posix.barriers + 2, !.pc = "user"]
      BY <1>1, <1>3, <2>1, <2>2 DEF Out
    <3> QED
      BY <3>1, <2>1, <2>2, <1>1 DEF Records, PCs
  <2>3. CASE ~posix.nested
    <3>1. Out(member[t]) = [member[t] EXCEPT !.pc = "left"]
      BY <1>1, <1>3, <2>1, <2>3 DEF Out
    <3> QED
      BY <3>1, <2>1, <2>3, <1>1 DEF Records, PCs
  <2> QED
    BY <2>2, <2>3
<1>4. CASE member[t].phase = posix.barriers + 2
  BY <1>1, <1>4 DEF Out, Records, PCs, AtSimple
<1> QED
  BY <1>1, <1>2, <1>3, <1>4

\* A thread that sees that the barrier is over: the one that keeps mutex1 is not
\* still arriving.
LEMMA LookLeavesInv ==
  ASSUME PosixInv, PostInv, NEW t \in Members, Look(t), member'[t].pc = "leave"
  PROVE  PosixInv'
<1> USE DEF PosixInv
<1> DEFINE told == AtCancellable(t) /\ barrier.generation.cancelled
           r == [member[t] EXCEPT !.told = told, !.pc = "leave"]
<1>0. /\ member[t].pc \in {"look", "lookagain"} /\ member[t] \in Records /\ ~member[t].told
      /\ posix' = posix /\ barrier' = barrier /\ counts' = counts /\ PlaceOf(t)
      /\ ~member[t].last
  BY NotTold DEF Look, PlaceOf
<1>1. member' = [member EXCEPT ![t] = r] /\ (told \/ Passed(t))
  <2> DEFINE tasks == Is(t, "look") /\ ~AtSimple(t) /\ barrier.generation.pending
             pc == IF told THEN "leave" ELSE IF tasks THEN "handle"
                   ELSE IF Passed(t) THEN "leave" ELSE "wait"
  <2>1. member' = [member EXCEPT ![t] = [@ EXCEPT !.told = told, !.pc = pc]]
    BY DEF Look
  <2> HIDE DEF told, tasks
  <2>2. pc = "leave"
    BY <2>1 DEF Typed, Records
  <2> QED
    BY <2>1, <2>2
<1>2. told \in BOOLEAN /\ (told <=> AtCancellable(t) /\ barrier.generation.cancelled)
  BY DEF AtCancellable, Typed, Words
<1> HIDE DEF told
<1>3. /\ r \in Records /\ r.pc = "leave" /\ r.phase = member[t].phase /\ r.n = member[t].n
      /\ r.last = member[t].last /\ r.told = told /\ r.then = member[t].then
  BY <1>0, <1>2 DEF Records, PCs
<1>4. Moves(t, r)
  BY <1>0, <1>1, <1>3 DEF Moves
<1> DEFINE moves == Moves(t, r)
<1>5. moves
  BY <1>4
<1> HIDE DEF r
<1>6. /\ Members' = Members /\ member'[t] = r
      /\ \A s \in Members : s # t => Same(s)
      /\ member' \in [Members -> Records]
  BY <1>5, MovesFrame
<1>7. /\ (AtSimple(t)' <=> AtSimple(t)) /\ (AtFinal(t)' <=> AtFinal(t))
      /\ (Skipping(t)' <=> Skipping(t)) /\ (AtCancellable(t)' <=> AtCancellable(t))
  BY <1>0, <1>3, <1>6 DEF AtSimple, AtFinal, Skipping, AtCancellable
<1>8. Over(t)' <=> Over(t)
  BY <1>7, <1>0, <1>3, <1>6 DEF Over, Is
<1>9. /\ Waits(t) /\ ~Last(t) /\ Inside(t) /\ ~Holds(t) /\ ~TaskPc(t) /\ ~Is(t, "last")
      /\ Waits(t)' /\ ~Last(t)' /\ Inside(t)' /\ ~Holds(t)' /\ ~TaskPc(t)' /\ ~Is(t, "last")'
  BY <1>0, <1>3, <1>6 DEF Waits, Last, Handling, Inside, Holds, TaskPc, Is
<1>10. \A s \in Members : /\ (Here(s)' <=> Here(s)) /\ (Done(s)' <=> Done(s))
                          /\ s # t => member'[s] = member[s]
  BY <1>0, <1>3, <1>6 DEF Same, Here, Done
<1>11. \A s \in Members : /\ (Over(s)' <=> Over(s)) /\ (Inside(s)' <=> Inside(s))
                          /\ (Holds(s)' <=> Holds(s)) /\ (Last(s)' <=> Last(s))
                          /\ (Waits(s)' <=> Waits(s)) /\ (AtSimple(s)' <=> AtSimple(s))
                          /\ (AtFinal(s)' <=> AtFinal(s)) /\ (Skipping(s)' <=> Skipping(s))
                          /\ (AtCancellable(s)' <=> AtCancellable(s))
                          /\ (Is(s, "cancelled")' <=> Is(s, "cancelled"))
                          /\ (Is(s, "last")' <=> Is(s, "last"))
  BY <1>0, <1>3, <1>6, <1>7, <1>8, <1>9 DEF Same, Is
\* Who keeps the mutex.
<1>12. ASSUME told
       PROVE  /\ AtCancellable(t) /\ Here(t) /\ barrier.generation.cancelled /\ ~Over(t)
              /\ \E h \in Members : Is(h, "cancelled")
              /\ barrier.mutex1 /\ \A u \in Members : ~Is(u, "last")
  <2> USE <1>12
  <2>1. AtCancellable(t) /\ barrier.generation.cancelled
    BY <1>2
  <2>2. ~Over(t)
    BY <2>1, <1>0, MembersFinite DEF AtSimple, AtCancellable, Over, Is, Records
  <2>3. Here(t)
    BY <2>1, <2>2, <1>9 DEF StageInv, DoneOf
  <2>4. PICK h \in Members : Is(h, "cancelled")
    <3>1. ~Skipping(t)
      BY <2>1, <1>0, MembersFinite DEF AtCancellable, Skipping, Records
    <3> QED
      BY <3>1, <2>1, <2>2, <2>3, <1>9 DEF StageInv, HereOf
  <2>5. barrier.mutex1 /\ \A u \in Members : ~Is(u, "last")
    <3>1. Holds(h) /\ barrier.mutex1
      BY <2>4 DEF Holds, HoldInv
    <3>2. \A u \in Members : Is(u, "last") => u = h
      BY <3>1 DEF HoldInv, Holds, Last, Is
    <3> QED
      BY <3>1, <3>2, <2>4 DEF Is
  <2> QED
    BY <2>1, <2>2, <2>3, <2>4, <2>5
<1>13. ASSUME ~told, ~AtSimple(t)
       PROVE  ~Here(t) /\ barrier.mutex1 /\ \A u \in Members : ~Is(u, "last")
  <2>1. barrier.generation = Generation(member[t].n + 1) /\ ~Over(t)
    BY <1>0, <1>1, <1>13 DEF Passed, Over, Is
  <2>2. Done(t) /\ ~Here(t)
    BY <2>1, <1>0 DEF Done, Here, Generation, Records
  <2>3. PICK h \in Members : Last(h) /\ Done(h) /\ ~Over(h)
    BY <2>1, <2>2, <1>9 DEF StageInv, DoneOf
  <2>4. barrier.mutex1
    BY <2>3 DEF Holds, HoldInv
  <2>5. \A u \in Members : ~Is(u, "last")
    <3>1. \A u \in Members : Is(u, "last") => u = h
      BY <2>3 DEF HoldInv, Holds, Last, Is
    <3>2. ~Here(h)
      BY <2>3 DEF Here, Done, Typed, Records
    <3>3. ~Is(h, "last")
      BY <2>3, <3>2 DEF StageInv, DoneOf, Inside, Is
    <3> QED
      BY <3>1, <3>3
  <2> QED
    BY <2>1, <2>2, <2>4, <2>5
<1>14. ASSUME ~told, AtSimple(t)
       PROVE  Clean => barrier.mutex1 /\ \A u \in Members : ~Is(u, "last")
  <2>1. Ended
    BY <1>0, <1>14 DEF Ended, Is
  <2>2. CASE posix.tasks = 0
    <3>1. PICK h \in Members : member[h].pc \in {"others", "cancelled"}
      <4>1. Is(t, "look")
        BY <2>2, <1>0 DEF PostInv, Is
      <4> QED
        BY <4>1, <2>2 DEF PostInv, Released, Is
    <3>2. Holds(h) /\ barrier.mutex1
      BY <3>1 DEF Holds, Last, HoldInv, Is
    <3>3. \A u \in Members : ~Is(u, "last")
      BY <3>1, <3>2 DEF HoldInv, Holds, Last, Is
    <3> QED
      BY <3>2, <3>3
  <2>3. CASE posix.tasks # 0
    BY <2>1, <2>3 DEF Clean
  <2> QED
    BY <1>14, <2>1, <2>2, <2>3
<1>15. Clean => barrier.mutex1 /\ \A u \in Members : ~Is(u, "last")
  BY <1>12, <1>13, <1>14
<1>16. told => /\ AtCancellable(t) /\ Here(t) /\ barrier.generation.cancelled /\ ~Over(t)
               /\ \E h \in Members : Is(h, "cancelled")
  BY <1>12
<1>17. ~told => Over(t) \/ ~Here(t)
  BY <1>13, <1>14 DEF Over
<1>18. Typed'
  BY <1>0, <1>6 DEF Typed
<1>19. HoldInv'
  BY <1>0, <1>6, <1>11 DEF HoldInv
<1>20. Ended' <=> Ended
  BY <1>0, <1>3, <1>6, <1>7, <1>10 DEF Ended, Same, Is
<1>21. Clean' => CountInv'
  <2> SUFFICES ASSUME Clean PROVE CountInv'
    BY <1>0, <1>20 DEF Clean
  <2>1. CountInv
    OBVIOUS
  <2>2. Counted' = Counted
    BY <1>6, <1>11 DEF Counted
  <2>3. \A s \in Members : Is(s, "tell")' <=> Is(s, "tell")
    BY <1>0, <1>3, <1>6, <1>10 DEF Is
  <2> QED
    BY <2>1, <2>2, <2>3, <1>0, <1>6, <1>11, <1>15 DEF CountInv, Is
<1>22. TaskInv'
  BY <1>0, <1>3, <1>5, <1>9, TasksKept
<1>23. ASSUME NEW s \in Members PROVE PlaceOf(s)'
  <2>1. PlaceOf(s)
    OBVIOUS
  <2>2. CASE s = t
    BY <2>1, <2>2, <1>0, <1>3, <1>6, <1>7, <1>10, <1>11, <1>16 DEF PlaceOf, Is, SimplePcs
  <2>3. CASE s # t
    BY <2>1, <2>3, <1>0, <1>6, <1>10, <1>11 DEF PlaceOf, Is
  <2> QED
    BY <2>2, <2>3
<1>24. OverInv'
  <2>1. \A s \in Members : Through(s)' <=> Through(s)
    BY <1>10, <1>11 DEF Through
  <2> QED
    BY <2>1, <1>6, <1>11, <1>20 DEF OverInv
<1>25. StageInv'
  <2>1. ASSUME NEW s \in Members PROVE OutsideOf(s)'
    BY <1>0, <1>3, <1>6, <1>10, <1>11 DEF StageInv, OutsideOf
  <2>2. ASSUME NEW s \in Members PROVE HereOf(s)'
    <3>1. HereOf(s)
      BY DEF StageInv
    <3>2. CASE s = t
      BY <3>1, <3>2, <1>0, <1>3, <1>6, <1>10, <1>11, <1>17 DEF HereOf
    <3>3. CASE s # t
      BY <3>1, <3>3, <1>0, <1>6, <1>10, <1>11 DEF HereOf
    <3> QED
      BY <3>2, <3>3
  <2>3. ASSUME NEW s \in Members PROVE DoneOf(s)'
    <3>1. DoneOf(s)
      BY DEF StageInv
    <3>2. CASE s = t
      BY <3>1, <3>2, <1>0, <1>3, <1>6, <1>10, <1>11 DEF DoneOf, Is
    <3>3. CASE s # t
      BY <3>1, <3>3, <1>0, <1>6, <1>10, <1>11 DEF DoneOf, Is
    <3> QED
      BY <3>2, <3>3
  <2>4. ASSUME NEW h \in Members PROVE LastOf(h)'
    <3>1. LastOf(h)
      BY DEF StageInv
    <3>2. CASE h = t
      BY <3>2, <1>9 DEF LastOf
    <3>3. CASE h # t
      BY <3>1, <3>3, <1>0, <1>6, <1>10, <1>11 DEF LastOf, Is
    <3> QED
      BY <3>2, <3>3
  <2> QED
    BY <2>1, <2>2, <2>3, <2>4, <1>0, <1>6, <1>10, <1>11 DEF StageInv
<1> QED
  BY <1>6, <1>18, <1>19, <1>21, <1>22, <1>23, <1>24, <1>25
-----------------------------------------------------------------------------
(* Those that were let go leave.                                           *)

Leaves(t) ==
    /\ member[t].pc \in {"leave", "tell"} /\ posix' = posix /\ counts' = counts
    /\ GoOut(t) \/ (Is(t, "leave") /\ Proceed(t, "tell"))
    /\ barrier' \in BarrierSet
    /\ barrier'.generation = barrier.generation /\ barrier'.mutex1 = barrier.mutex1
    /\ barrier'.cancellable = barrier.cancellable

\* Where it goes: to the final barrier, to the one that tells, or on.
LEMMA LeavesTo ==
  ASSUME PosixInv, NEW t \in Members, Leaves(t)
  PROVE  \E r \in Records :
            /\ Moves(t, r) /\ r.n = member[t].n /\ r.last = member[t].last
            /\ \/ /\ r.pc = "tell" /\ r.phase = member[t].phase /\ r.told = member[t].told
               \/ /\ member[t].told /\ ~r.told
                  /\ r.pc = "user" /\ r.phase = posix.barriers + 1
               \/ /\ ~member[t].told /\ ~r.told /\ r.pc \in {"user", "left"}
                  /\ member[t].phase < posix.barriers =>
                        r.pc = "user" /\ r.phase = member[t].phase + 1
                  /\ AtSimple(t) => r.pc = "left" /\ r.phase = member[t].phase
                  /\ ~AtSimple(t) /\ ~(member[t].phase < posix.barriers) =>
                        \/ r.pc = "user" /\ r.phase = posix.barriers + 2 /\ posix.nested
                        \/ r.pc = "left" /\ r.phase = member[t].phase /\ ~posix.nested
<1>1. posix' = posix /\ member[t] \in Records
  BY DEF Leaves, PosixInv, Typed
<1>2. CASE Proceed(t, "tell")
  <2> DEFINE r == [member[t] EXCEPT !.pc = "tell"]
  <2>1. /\ r \in Records /\ r.pc = "tell" /\ r.phase = member[t].phase
        /\ r.told = member[t].told /\ r.n = member[t].n /\ r.last = member[t].last
    BY <1>1 DEF Records, PCs
  <2>2. Moves(t, r)
    BY <1>1, <1>2, <2>1 DEF Moves, Proceed
  <2> QED
    BY <2>1, <2>2
<1>3. CASE GoOut(t) /\ member[t].told
  <2> DEFINE r == ToEnd(member[t])
  <2>1. Out(member[t]) = r
    BY <1>3 DEF Out
  <2>2. /\ r \in Records /\ r.pc = "user" /\ r.phase = posix.barriers + 1
        /\ ~r.told /\ r.n = member[t].n /\ r.last = member[t].last
    BY ToEndFields DEF PosixInv
  <2>3. Moves(t, r)
    <3>1. member' = [member EXCEPT ![t] = r]
      BY <1>3, <2>1 DEF GoOut
    <3> HIDE DEF r
    <3> QED
      BY <3>1, <1>1, <2>2 DEF Moves
  <2> HIDE DEF r
  <2> QED
    BY <1>3, <2>2, <2>3
<1>4. CASE GoOut(t) /\ ~member[t].told
  <2> DEFINE r == Out(member[t])
  <2>1. /\ r \in Records /\ r.pc \in {"user", "left"} /\ ~r.told
        /\ r.n = member[t].n /\ r.last = member[t].last
        /\ member[t].phase < posix.barriers =>
              r.pc = "user" /\ r.phase = member[t].phase + 1
        /\ AtSimple(t) => r.pc = "left" /\ r.phase = member[t].phase
        /\ ~AtSimple(t) /\ ~(member[t].phase < posix.barriers) =>
              \/ r.pc = "user" /\ r.phase = posix.barriers + 2 /\ posix.nested
              \/ r.pc = "left" /\ r.phase = member[t].phase /\ ~posix.nested
    BY <1>4, OutFields
  <2>2. member' = [member EXCEPT ![t] = r]
    BY <1>4 DEF GoOut
  <2> HIDE DEF r
  <2>3. Moves(t, r)
    BY <2>1, <2>2, <1>1 DEF Moves
  <2> QED
    BY <1>4, <2>1, <2>3
<1> QED
  BY <1>2, <1>3, <1>4 DEF Leaves

\* Who is let go keeps the invariant if the counts do.
LEMMA LeavesInv ==
  ASSUME PosixInv, NEW t \in Members, Leaves(t), Clean => CountInv'
  PROVE  PosixInv'
<1> USE DEF PosixInv
<1>0. /\ member[t].pc \in {"leave", "tell"} /\ posix' = posix /\ counts' = counts
      /\ member[t] \in Records /\ PlaceOf(t) /\ barrier' \in BarrierSet
      /\ barrier'.generation = barrier.generation /\ barrier'.mutex1 = barrier.mutex1
      /\ barrier'.cancellable = barrier.cancellable
      /\ posix.barriers \in Nat /\ member[t].phase \in Int /\ member[t].n \in Int
      /\ barrier.generation.n \in Int
  BY MembersFinite DEF Leaves, Typed, Records, Words
<1>1. PICK r \in Records :
         /\ Moves(t, r) /\ r.n = member[t].n /\ r.last = member[t].last
         /\ \/ /\ r.pc = "tell" /\ r.phase = member[t].phase /\ r.told = member[t].told
            \/ /\ member[t].told /\ ~r.told
               /\ r.pc = "user" /\ r.phase = posix.barriers + 1
            \/ /\ ~member[t].told /\ ~r.told /\ r.pc \in {"user", "left"}
               /\ member[t].phase < posix.barriers =>
                     r.pc = "user" /\ r.phase = member[t].phase + 1
               /\ AtSimple(t) => r.pc = "left" /\ r.phase = member[t].phase
               /\ ~AtSimple(t) /\ ~(member[t].phase < posix.barriers) =>
                     \/ r.pc = "user" /\ r.phase = posix.barriers + 2 /\ posix.nested
                     \/ r.pc = "left" /\ r.phase = member[t].phase /\ ~posix.nested
  BY LeavesTo
<1>2. /\ Members' = Members /\ member'[t] = r
      /\ \A s \in Members : s # t => Same(s)
      /\ member' \in [Members -> Records]
  BY <1>1, MovesFrame
<1>3. \A s \in Members : /\ (Here(s)' <=> Here(s)) /\ (Done(s)' <=> Done(s))
                         /\ s # t => member'[s] = member[s]
  BY <1>0, <1>1, <1>2 DEF Same, Here, Done
<1>4. /\ Inside(t) /\ ~Last(t) /\ ~Holds(t) /\ ~TaskPc(t) /\ ~Is(t, "last")
      /\ ~Is(t, "cancelled") /\ ~Is(t, "user") /\ ~Is(t, "left")
      /\ ~Waits(t)' /\ ~Last(t)' /\ ~Holds(t)' /\ ~TaskPc(t)' /\ ~Is(t, "last")'
      /\ ~Is(t, "cancelled")' /\ (Inside(t)' <=> r.pc = "tell")
      /\ r.pc \in {"tell", "user", "left"}
  <2>1. r.pc \in {"tell", "user", "left"}
    BY <1>1
  <2> QED
    BY <2>1, <1>0, <1>2 DEF Waits, Last, Handling, Inside, Holds, TaskPc, Is
<1>5. \A s \in Members : s # t =>
         /\ (Over(s)' <=> Over(s)) /\ (Inside(s)' <=> Inside(s))
         /\ (Holds(s)' <=> Holds(s)) /\ (Last(s)' <=> Last(s))
         /\ (Waits(s)' <=> Waits(s)) /\ (AtSimple(s)' <=> AtSimple(s))
         /\ (AtFinal(s)' <=> AtFinal(s)) /\ (Skipping(s)' <=> Skipping(s))
         /\ (AtCancellable(s)' <=> AtCancellable(s))
  BY <1>2 DEF Same
<1>6. \A s \in Members : /\ (Holds(s)' <=> Holds(s)) /\ (Last(s)' <=> Last(s))
                         /\ (Is(s, "cancelled")' <=> Is(s, "cancelled"))
  BY <1>3, <1>4, <1>5 DEF Is
<1>7. \A h \in Members : ~Over(h) /\ Last(h) => ~Here(h)
  <2> SUFFICES ASSUME NEW h \in Members, ~Over(h), Last(h), Here(h) PROVE FALSE
    OBVIOUS
  <2>1. h # t
    BY <1>4
  <2>2. Waits(t) /\ Here(t) /\ ~Over(t)
    BY <2>1 DEF StageInv, LastOf
  <2>3. member[t].told
    BY <2>2, <1>0, <1>4 DEF StageInv, HereOf
  <2>4. PICK u \in Members : Is(u, "cancelled")
    BY <2>3 DEF PlaceOf
  <2>5. u = h
    BY <2>4 DEF HoldInv, Holds
  <2> QED
    BY <2>4, <2>5 DEF Last, Handling, Is
<1>8. ~barrier.generation.waiting
  BY <1>7 DEF StageInv
<1>9. AtSimple(t) => ~member[t].told
  BY <1>0 DEF PlaceOf, AtSimple, AtCancellable
<1>10. /\ AtSimple(t) => Over(t) /\ AtSimple(t)' /\ Over(t)'
       /\ r.told => AtCancellable(t)' /\ member[t].told /\ r.pc = "tell"
       /\ AtSimple(t)' /\ ~AtSimple(t) => r.pc = "user" /\ posix.nested
       /\ r.pc = "left" => AtSimple(t)' \/ ~posix.nested
       /\ r.phase \in 0..posix.barriers + 2
  BY <1>0, <1>1, <1>2, <1>9 DEF AtSimple, AtCancellable, Over, Is, PlaceOf
<1>11. Typed'
  BY <1>0, <1>2 DEF Typed, BarrierSet
<1>12. HoldInv'
  BY <1>0, <1>2, <1>6 DEF HoldInv
<1>13. Ended' => Ended
  <2> SUFFICES ASSUME NEW s \in Members, AtSimple(s)', ~Is(s, "user")' PROVE Ended
    BY <1>2 DEF Ended
  <2>1. AtSimple(s) /\ ~Is(s, "user")
    <3>1. CASE s = t
      BY <3>1, <1>2, <1>4, <1>10 DEF Is
    <3>2. CASE s # t
      BY <3>2, <1>3, <1>5 DEF Is
    <3> QED
      BY <3>1, <3>2
  <2> QED
    BY <2>1 DEF Ended
<1>14. Clean' => CountInv'
  <2>1. Ended => Ended'
    <3> SUFFICES ASSUME Ended PROVE Ended'
      OBVIOUS
    <3>1. AtSimple(t)
      BY DEF OverInv
    <3>2. r.pc # "user"
      BY <3>1, <1>0, <1>1, <1>9
    <3> QED
      BY <3>1, <3>2, <1>2, <1>10 DEF Ended, Is
  <2> QED
    BY <2>1, <1>0 DEF Clean
<1>15. TaskInv'
  <2>1. r.pc # "complete" /\ Moves(t, r)
    BY <1>1
  <2> QED
    BY <2>1, <1>0, <1>4, TasksKept
<1>16. ASSUME NEW s \in Members PROVE PlaceOf(s)'
  <2>1. PlaceOf(s)
    OBVIOUS
  <2>2. CASE s = t
    <3>1. r.told => /\ r.pc = "tell" /\ AtCancellable(t)' /\ Here(t)'
                    /\ barrier.generation.cancelled
                    /\ \E h \in Members : Is(h, "cancelled")
      BY <1>0, <1>3, <1>10 DEF PlaceOf
    <3>2. r.pc = "tell" => ~r.last
      BY <1>0, <1>1 DEF PlaceOf
    <3>3. (AtSimple(t) => posix.nested /\ member[t].pc \in SimplePcs \cup {"user"})
      BY <1>0 DEF PlaceOf
    <3> QED
      BY <3>1, <3>2, <3>3, <2>2, <1>0, <1>2, <1>4, <1>6, <1>10 DEF PlaceOf, Is, SimplePcs
  <2>3. CASE s # t
    BY <2>1, <2>3, <1>0, <1>2, <1>3, <1>5, <1>6 DEF PlaceOf, Is
  <2> QED
    BY <2>2, <2>3
<1>17. /\ ~AtSimple(t) => ~Over(t)
       /\ r.pc = "tell" => (AtSimple(t)' <=> AtSimple(t)) /\ (Over(t)' <=> Over(t))
                           /\ (AtFinal(t)' <=> AtFinal(t)) /\ (Skipping(t)' <=> Skipping(t))
                           /\ (AtCancellable(t)' <=> AtCancellable(t))
                           /\ (r.told <=> member[t].told) /\ r.phase = member[t].phase
  <2>1. ~AtSimple(t) => ~Over(t)
    BY <1>4 DEF Over
  <2>2. r.pc = "tell" => r.phase = member[t].phase /\ (r.told <=> member[t].told)
    BY <1>1
  <2> QED
    BY <2>1, <2>2, <1>0, <1>2, <1>4 DEF AtSimple, AtFinal, Skipping, AtCancellable, Over, Is
<1>18. ASSUME AtSimple(t) PROVE \A s \in Members : Over(s)' /\ AtSimple(s)'
  <2>1. Ended
    BY <1>4, <1>18 DEF Ended
  <2>2. \A s \in Members : AtSimple(s)
    BY <2>1 DEF OverInv
  <2> QED
    BY <2>2, <1>5, <1>10 DEF Over
<1>19. ASSUME ~AtSimple(t), member[t].told
       PROVE  /\ \A s \in Members : ~Through(s) /\ ~Through(s)'
              /\ ~Over(t)' /\ barrier.generation.cancelled
              /\ r.pc = "user" => Skipping(t)'
              /\ r.pc \in {"tell", "user"}
  <2>1. /\ AtCancellable(t) /\ barrier.generation.cancelled
        /\ r.pc = "tell" \/ (r.pc = "user" /\ r.phase = posix.barriers + 1)
    BY <1>1, <1>19 DEF PlaceOf
  <2>2. ~AtFinal(t) /\ ~Through(t)
    BY <2>1, <1>0, <1>17, <1>19 DEF AtFinal, AtCancellable, Through
  <2>3. ~Over(t)' /\ ~Through(t)' /\ (r.pc = "user" => Skipping(t)')
    BY <2>1, <2>2, <1>0, <1>2, <1>4, <1>17, <1>19 DEF Over, Through, AtSimple, Skipping, Is
  <2>4. \A s \in Members : ~Through(s)
    BY <2>2 DEF OverInv
  <2>5. \A s \in Members : s # t => ~Through(s)'
    BY <2>4, <1>3, <1>5 DEF Through
  <2> QED
    BY <2>1, <2>3, <2>4, <2>5
<1>20. ASSUME ~AtSimple(t), ~member[t].told
       PROVE  /\ Done(t) /\ ~barrier.generation.cancelled
              /\ \/ \A s \in Members : Through(s)'
                 \/ \A s \in Members : ~Through(s) /\ ~Through(s)'
              /\ ~Over(t)' /\ r.pc # "tell" =>
                    r.phase = barrier.generation.n /\ r.phase <= posix.barriers
  <2>1. ~Over(t) /\ ~Here(t)
    BY <1>0, <1>4, <1>17, <1>20 DEF StageInv, HereOf
  <2>2. /\ Done(t) /\ ~barrier.generation.cancelled
        /\ member[t].phase = member[t].n \/ Skipping(t)
    BY <2>1, <1>4 DEF StageInv, DoneOf
  <2>3. CASE member[t].phase < posix.barriers
    <3>1. \/ r.pc = "tell" /\ r.phase = member[t].phase
          \/ r.pc = "user" /\ r.phase = member[t].phase + 1
      BY <1>1, <1>20, <2>3
    <3>2. ~AtFinal(t) /\ ~Through(t) /\ ~Skipping(t)
      BY <2>3, <1>0, <1>17, <1>20 DEF AtFinal, Skipping, Through
    <3>3. ~Over(t)' /\ ~Through(t)'
      BY <3>1, <3>2, <2>3, <1>0, <1>2, <1>4, <1>17, <1>20 DEF Over, Through, AtSimple, Is
    <3>4. \A s \in Members : ~Through(s)
      BY <3>2 DEF OverInv
    <3>5. \A s \in Members : s # t => ~Through(s)'
      BY <3>4, <1>3, <1>5 DEF Through
    <3>6. r.pc # "tell" => r.phase = barrier.generation.n /\ r.phase <= posix.barriers
      BY <3>1, <3>2, <2>2, <2>3, <1>0 DEF Done
    <3> QED
      BY <2>2, <3>3, <3>4, <3>5, <3>6
  <2>4. CASE ~(member[t].phase < posix.barriers)
    <3>1. Through(t)
      BY <2>2, <2>4, <1>0, <1>4, <1>20 DEF Through, AtFinal
    <3>2. \A s \in Members : s # t => Through(s)'
      BY <3>1, <1>3, <1>5 DEF OverInv, Through
    <3>3. Through(t)' /\ (Over(t)' \/ r.pc = "tell")
      <4>1. CASE r.pc = "tell"
        BY <4>1, <3>1, <1>3, <1>4, <1>17 DEF Through
      <4>2. CASE r.pc # "tell"
        <5>1. r.pc = "left" \/ r.phase = posix.barriers + 2
          BY <4>2, <2>4, <1>1, <1>20
        <5> QED
          BY <5>1, <1>0, <1>2 DEF Through, Over, AtSimple, Is
      <4> QED
        BY <4>1, <4>2
    <3> QED
      BY <2>2, <3>2, <3>3
  <2> QED
    BY <2>3, <2>4
<1>21. OverInv'
  <2>1. (\A s \in Members : Through(s)') \/ (\A s \in Members : ~Through(s)')
    <3>1. \A s \in Members : Over(s)' => Through(s)'
      BY DEF Through
    <3> QED
      BY <3>1, <1>18, <1>19, <1>20
  <2>2. Ended' => \A s \in Members : AtSimple(s)'
    BY <1>5, <1>10, <1>13 DEF OverInv
  <2> QED
    BY <2>1, <2>2, <1>2 DEF OverInv
<1>22. StageInv'
  <2>1. ASSUME NEW s \in Members PROVE OutsideOf(s)'
    <3>1. OutsideOf(s)
      BY DEF StageInv
    <3>2. CASE s = t
      <4> SUFFICES ASSUME ~Over(t)', ~Inside(t)', OutsideOf(t)
                   PROVE  \/ r.phase = barrier.generation.n /\ r.phase <= posix.barriers
                          \/ Skipping(t)' /\ barrier.generation.cancelled
        BY <3>1, <3>2, <1>0, <1>2 DEF OutsideOf
      <4>1. r.pc # "tell" /\ ~AtSimple(t)
        BY <1>4, <1>10
      <4> QED
        BY <4>1, <1>19, <1>20
    <3>3. CASE s # t
      BY <3>1, <3>3, <1>0, <1>3, <1>5 DEF OutsideOf
    <3> QED
      BY <3>2, <3>3
  <2>2. ASSUME NEW s \in Members PROVE HereOf(s)'
    <3>1. HereOf(s)
      BY DEF StageInv
    <3>2. CASE s = t
      <4> SUFFICES ASSUME r.pc = "tell" PROVE HereOf(t)'
        BY <3>2, <1>4 DEF HereOf
      <4> QED
        BY <3>1, <3>2, <1>0, <1>2, <1>3, <1>4, <1>6, <1>17 DEF HereOf
    <3>3. CASE s # t
      BY <3>1, <3>3, <1>0, <1>2, <1>3, <1>5, <1>6 DEF HereOf
    <3> QED
      BY <3>2, <3>3
  <2>3. ASSUME NEW s \in Members PROVE DoneOf(s)'
    <3>1. DoneOf(s)
      BY DEF StageInv
    <3>0. (\E h \in Members : Last(h) /\ Done(h) /\ ~Over(h)) =>
             \E h \in Members : (Last(h) /\ Done(h) /\ ~Over(h))'
      BY <1>3, <1>4, <1>5
    <3>2. CASE s = t
      <4> SUFFICES ASSUME r.pc = "tell" PROVE DoneOf(t)'
        BY <3>2, <1>4 DEF DoneOf
      <4>1. ~Is(t, "handle")'
        BY <1>2 DEF Is
      <4> QED
        BY <3>0, <3>1, <3>2, <4>1, <1>0, <1>1, <1>2, <1>3, <1>4, <1>17 DEF DoneOf
    <3>3. CASE s # t
      BY <3>0, <3>1, <3>3, <1>0, <1>2, <1>3, <1>5 DEF DoneOf, Is
    <3> QED
      BY <3>2, <3>3
  <2>4. ASSUME NEW h \in Members PROVE LastOf(h)'
    <3>1. LastOf(h)
      BY DEF StageInv
    <3> SUFFICES ASSUME ~Over(h)', Last(h)' PROVE LastOf(h)'
      BY DEF LastOf
    <3>2. h # t /\ ~Over(h) /\ Last(h) /\ ~Here(h) /\ ~Here(h)'
      BY <1>3, <1>4, <1>5, <1>7
    <3>3. Done(h) => \A s \in Members : ~Over(s)' /\ Inside(s)' => Done(s)'
      <4> SUFFICES ASSUME Done(h), NEW s \in Members, ~Over(s)', Inside(s)' PROVE Done(s)'
        OBVIOUS
      <4>1. ~Over(s) /\ Inside(s)
        BY <1>4, <1>5, <1>17
      <4> QED
        BY <4>1, <3>1, <3>2, <1>3 DEF LastOf
    <3> QED
      BY <3>2, <3>3, <1>0, <1>2, <1>3, <1>8 DEF LastOf
  <2> QED
    BY <2>1, <2>2, <2>3, <2>4, <1>0, <1>2, <1>4, <1>5, <1>8 DEF StageInv
<1> QED
  BY <1>2, <1>11, <1>12, <1>14, <1>15, <1>16, <1>21, <1>22

\* A thread counts itself out of arrived ...
LEMMA CountOutInv ==
  ASSUME PosixInv, NEW t \in Members, CountOut(t)
  PROVE  PosixInv'
<1> USE DEF PosixInv
<1>1. Leaves(t)
  <2>1. barrier \in BarrierSet /\ barrier.arrived - 1 \in Int
    BY DEF Typed, BarrierSet
  <2> QED
    BY <2>1 DEF CountOut, Leaves, Is, BarrierSet
<1>2. PICK r \in Records : Moves(t, r) /\ r.pc \in {"tell", "user", "left"}
  BY <1>1, LeavesTo
<1>3. /\ Members' = Members /\ member'[t] = r
      /\ \A s \in Members : s # t => Same(s)
  BY <1>2, MovesFrame
<1>4. Clean => CountInv'
  <2> SUFFICES ASSUME CountInv PROVE CountInv'
    OBVIOUS
  <2>1. Counted' = Counted \ {t} /\ t \in Counted /\ Counted \in SUBSET Members
    BY <1>2, <1>3 DEF Counted, Same, Is, Waits, Handling, CountOut
  <2>2. Cardinality(Counted') = Cardinality(Counted) - 1 /\ Cardinality(Counted) \in Nat
        /\ Cardinality(Counted) # 0
    BY <2>1, OneMore
  <2>3. /\ barrier'.arrived = Cardinality(Counted') /\ barrier.arrived # 0
        /\ barrier'.sem2 = barrier.sem2 /\ barrier'.mutex1 = barrier.mutex1
        /\ barrier'.arrived = barrier.arrived - 1
    BY <2>2 DEF CountInv, CountOut, Typed
  <2>4. barrier.sem2 = 0 /\ barrier.mutex1 /\ \A s \in Members : ~Is(s, "tell") /\ ~Is(s, "last")
    BY <2>3 DEF CountInv, CountOut, Is
  <2>5. \A s \in Members : ~Is(s, "last")' /\ (Is(s, "tell")' => s = t)
    BY <2>4, <1>2, <1>3 DEF Same, Is
  <2>6. Is(t, "tell")' => barrier.arrived = 1
    <3> SUFFICES ASSUME barrier.arrived # 1 PROVE ~Is(t, "tell")'
      OBVIOUS
    <3>1. member[t] \in Records /\ GoOut(t)
      BY DEF CountOut, Typed
    <3>2. r = Out(member[t])
      BY <3>1, <1>3 DEF GoOut, Typed
    <3>3. CASE member[t].told
      BY <3>2, <3>3, <1>3, ToEndFields DEF Out, Is
    <3>4. CASE ~member[t].told
      BY <3>2, <3>4, <1>3, OutFields DEF Is
    <3> QED
      BY <3>3, <3>4
  <2>7. Is(t, "tell")' => barrier'.arrived = 0
    BY <2>3, <2>6
  <2> QED
    BY <2>3, <2>4, <2>5, <2>7, <1>3 DEF CountInv
<1> QED
  BY <1>1, <1>4, LeavesInv

\* ... and the last one out posts sem2.
LEMMA TellLastInv ==
  ASSUME PosixInv, NEW t \in Members, TellLast(t)
  PROVE  PosixInv'
<1> USE DEF PosixInv
<1>1. Leaves(t)
  <2>1. barrier \in BarrierSet /\ barrier.sem2 + 1 \in Int
    BY DEF Typed, BarrierSet
  <2> QED
    BY <2>1 DEF TellLast, Leaves, Is, BarrierSet
<1>2. PICK r \in Records : Moves(t, r) /\ r.pc \in {"tell", "user", "left"}
  BY <1>1, LeavesTo
<1>3. /\ Members' = Members /\ member'[t] = r
      /\ \A s \in Members : s # t => Same(s)
  BY <1>2, MovesFrame
<1>4. Clean => CountInv'
  <2> SUFFICES ASSUME CountInv PROVE CountInv'
    OBVIOUS
  <2>1. Counted' = Counted /\ Counted \in SUBSET Members
    BY <1>2, <1>3 DEF Counted, Same, Is, Waits, Handling, TellLast
  <2>2. /\ barrier'.arrived = barrier.arrived /\ barrier.arrived = 0 /\ barrier.sem2 = 0
        /\ barrier'.sem2 = 1 /\ barrier.mutex1 /\ barrier'.mutex1
        /\ \A s \in Members : Is(s, "tell") => s = t
    BY DEF CountInv, TellLast, Typed, Is
  <2>3. Counted = {}
    BY <2>1, <2>2, OneMore DEF CountInv
  <2>4. \A s \in Members : ~Is(s, "last")'
    BY <2>1, <2>3, <1>3 DEF Counted
  <2>5. \A s \in Members : ~Is(s, "tell")'
    <3>1. ~Is(t, "tell")'
      <4>1. GoOut(t) /\ member[t] \in Records
        BY DEF TellLast, Typed
      <4>2. r = Out(member[t])
        BY <4>1, <1>3 DEF GoOut, Typed
      <4>3. CASE member[t].told
        BY <4>2, <4>3, <1>3, ToEndFields DEF Out, Is
      <4>4. CASE ~member[t].told
        BY <4>2, <4>4, <1>3, OutFields DEF Is
      <4> QED
        BY <4>3, <4>4
    <3> QED
      BY <3>1, <2>2, <1>3 DEF Same, Is
  <2>6. posix'.size # 1
    <3>1. PICK h \in Members : Holds(h)
      BY <2>2 DEF HoldInv
    <3>2. h # t
      BY <3>1 DEF Holds, Last, Handling, Is, TellLast
    <3>3. posix' = posix
      BY <1>2 DEF Moves
    <3> QED
      BY <3>2, <3>3, MembersFinite DEF Members
  <2> QED
    BY <2>1, <2>2, <2>4, <2>5, <2>6, <1>3 DEF CountInv
<1> QED
  BY <1>1, <1>4, LeavesInv
-----------------------------------------------------------------------------
(* The one that kept mutex1 unlocks it.                                    *)

Unlocks(t) ==
    /\ Holds(t) /\ posix' = posix /\ counts' = counts
    /\ barrier' \in BarrierSet /\ ~barrier'.mutex1
    /\ barrier'.generation = barrier.generation /\ barrier'.arrived = barrier.arrived
    /\ \/ posix.size = 1 /\ barrier'.sem2 = barrier.sem2
       \/ barrier.sem2 > 0 /\ barrier'.sem2 = barrier.sem2 - 1

\* Then the others are gone.
LEMMA OthersGone ==
  ASSUME PosixInv, NEW t \in Members, Unlocks(t),
         member[t].pc \in {"others", "cancelled"}, Clean
  PROVE  /\ barrier'.sem2 = 0
         /\ \A s \in Members : s # t => ~Inside(s)
         /\ barrier.arrived = Cardinality(Counted) /\ Counted = {}
<1> USE DEF PosixInv
<1>1. CountInv
  OBVIOUS
<1>2. CASE posix.size = 1
  <2>1. Members = {t}
    BY <1>2 DEF Members
  <2>2. Counted = {}
    BY <2>1 DEF Counted, Waits, Handling, Is
  <2> QED
    BY <2>1, <2>2, <1>1, <1>2 DEF CountInv, Unlocks
<1>3. CASE barrier.sem2 > 0 /\ barrier'.sem2 = barrier.sem2 - 1
  <2>1. barrier.sem2 = 1 /\ barrier.arrived = 0 /\ \A s \in Members : ~Is(s, "tell")
    BY <1>1, <1>3 DEF CountInv
  <2>2. Counted \in SUBSET Members
    BY DEF Counted
  <2>3. Counted = {}
    BY <2>1, <2>2, <1>1, OneMore DEF CountInv
  <2>4. \A s \in Members : s # t => ~Last(s)
    BY DEF Unlocks, HoldInv, Holds
  <2> QED
    BY <2>1, <2>3, <2>4, <1>1, <1>3 DEF CountInv, Counted, Inside
<1> QED
  BY <1>2, <1>3 DEF Unlocks

\* The thread that completed the barrier takes sem2 and unlocks.
LEMMA AwaitOthersInv ==
  ASSUME PosixInv, NEW t \in Members, AwaitOthers(t)
  PROVE  PosixInv'
<1> USE DEF PosixInv
<1>0. /\ member[t].pc = "others" /\ posix' = posix /\ counts' = counts
      /\ member[t] \in Records /\ PlaceOf(t) /\ ~member[t].told
      /\ posix.barriers \in Nat /\ member[t].phase \in Int /\ member[t].n \in Int
      /\ barrier.generation.n \in Int
  BY NotTold, MembersFinite DEF AwaitOthers, Is, Typed, Records, Words
<1> DEFINE r == Out(member[t])
<1>1. /\ r \in Records /\ r.pc \in {"user", "left"} /\ ~r.told
      /\ r.n = member[t].n /\ r.last = member[t].last
      /\ member[t].phase < posix.barriers =>
            r.pc = "user" /\ r.phase = member[t].phase + 1
      /\ AtSimple(t) => r.pc = "left" /\ r.phase = member[t].phase
      /\ ~AtSimple(t) /\ ~(member[t].phase < posix.barriers) =>
            \/ r.pc = "user" /\ r.phase = posix.barriers + 2 /\ posix.nested
            \/ r.pc = "left" /\ r.phase = member[t].phase /\ ~posix.nested
  BY <1>0, OutFields
<1>2. member' = [member EXCEPT ![t] = r]
  BY DEF AwaitOthers, GoOut
<1> HIDE DEF r
<1>3. Moves(t, r)
  BY <1>0, <1>1, <1>2 DEF Moves
<1>4. /\ Members' = Members /\ member'[t] = r
      /\ \A s \in Members : s # t => Same(s)
      /\ member' \in [Members -> Records]
  BY <1>3, MovesFrame
<1>5. /\ barrier' \in BarrierSet /\ ~barrier'.mutex1
      /\ barrier'.generation = barrier.generation /\ barrier'.arrived = barrier.arrived
      /\ \/ posix.size = 1 /\ barrier'.sem2 = barrier.sem2
         \/ posix.size # 1 /\ barrier.sem2 > 0 /\ barrier'.sem2 = barrier.sem2 - 1
  <2>1. barrier \in BarrierSet /\ barrier.sem2 - 1 \in Int
    BY DEF Typed, BarrierSet
  <2> QED
    BY <2>1 DEF AwaitOthers, BarrierSet
<1>6. /\ Inside(t) /\ Last(t) /\ Holds(t) /\ ~TaskPc(t) /\ ~Waits(t)
      /\ ~Waits(t)' /\ ~Last(t)' /\ ~Holds(t)' /\ ~TaskPc(t)' /\ ~Inside(t)'
      /\ ~Is(t, "last") /\ ~Is(t, "last")' /\ ~Is(t, "tell")'
      /\ ~Is(t, "cancelled") /\ ~Is(t, "cancelled")' /\ ~Is(t, "user") /\ ~Is(t, "left")
  BY <1>0, <1>1, <1>4 DEF Waits, Last, Handling, Inside, Holds, TaskPc, Is
<1>7. Unlocks(t)
  BY <1>0, <1>5, <1>6 DEF Unlocks
<1>8. \A s \in Members : /\ (Here(s)' <=> Here(s)) /\ (Done(s)' <=> Done(s))
                         /\ s # t => member'[s] = member[s]
  BY <1>1, <1>4, <1>5 DEF Same, Here, Done
<1>9. \A s \in Members : s # t =>
         /\ (Over(s)' <=> Over(s)) /\ (Inside(s)' <=> Inside(s))
         /\ (Holds(s)' <=> Holds(s)) /\ (Last(s)' <=> Last(s))
         /\ (Waits(s)' <=> Waits(s)) /\ (AtSimple(s)' <=> AtSimple(s))
         /\ (AtFinal(s)' <=> AtFinal(s)) /\ (Skipping(s)' <=> Skipping(s))
         /\ (AtCancellable(s)' <=> AtCancellable(s))
  BY <1>4 DEF Same
<1>10. \A s \in Members : /\ s # t => ~Holds(s) /\ ~Last(s) /\ ~Is(s, "last")
                          /\ ~Is(s, "cancelled") /\ ~member[s].told
  <2>1. \A s \in Members : s # t => ~Holds(s)
    BY <1>6 DEF HoldInv
  <2>2. \A s \in Members : ~Is(s, "cancelled")
    BY <2>1, <1>6 DEF Holds
  <2> QED
    BY <2>1, <2>2 DEF Holds, Last, Is, PlaceOf
<1>11. \A s \in Members : ~Holds(s)' /\ ~Last(s)' /\ ~Is(s, "last")' /\ ~Is(s, "cancelled")'
  BY <1>6, <1>8, <1>9, <1>10 DEF Is
<1>12. /\ AtSimple(t) => Over(t) /\ AtSimple(t)' /\ Over(t)'
       /\ AtSimple(t)' /\ ~AtSimple(t) => r.pc = "user" /\ posix.nested
       /\ r.pc = "left" => AtSimple(t)' \/ ~posix.nested
       /\ r.phase \in 0..posix.barriers + 2
  BY <1>0, <1>1, <1>4 DEF AtSimple, Over, Is, PlaceOf
<1>13. Typed'
  BY <1>0, <1>4, <1>5 DEF Typed, BarrierSet
<1>14. HoldInv'
  BY <1>4, <1>5, <1>11 DEF HoldInv
<1>15. Ended' => Ended
  <2> SUFFICES ASSUME NEW s \in Members, AtSimple(s)', ~Is(s, "user")' PROVE Ended
    BY <1>4 DEF Ended
  <2>1. AtSimple(s) /\ ~Is(s, "user")
    <3>1. CASE s = t
      BY <3>1, <1>4, <1>6, <1>12 DEF Is
    <3>2. CASE s # t
      BY <3>2, <1>8, <1>9 DEF Is
    <3> QED
      BY <3>1, <3>2
  <2> QED
    BY <2>1 DEF Ended
<1>16. Ended => Ended'
  <2> SUFFICES ASSUME Ended PROVE Ended'
    OBVIOUS
  <2>1. AtSimple(t)
    BY DEF OverInv
  <2> QED
    BY <2>1, <1>1, <1>4, <1>12 DEF Ended, Is
<1>17. Clean => /\ barrier'.sem2 = 0
                /\ \A s \in Members : s # t => ~Inside(s)
                /\ barrier.arrived = Cardinality(Counted) /\ Counted = {}
  BY <1>0, <1>7, OthersGone
<1>18. Clean' => CountInv'
  <2> SUFFICES ASSUME Clean PROVE CountInv'
    BY <1>0, <1>15, <1>16 DEF Clean
  <2>1. Counted' = Counted
    BY <1>4, <1>6, <1>8, <1>9 DEF Counted, Is
  <2>2. \A s \in Members : ~Is(s, "leave")' /\ ~Is(s, "tell")'
    BY <1>1, <1>4, <1>8, <1>17 DEF Inside, Waits, Is
  <2> QED
    BY <2>1, <2>2, <1>4, <1>5, <1>11, <1>17 DEF CountInv, Is
<1>19. TaskInv'
  <2>1. r.pc # "complete" /\ Moves(t, r)
    BY <1>1, <1>3
  <2> QED
    BY <2>1, <1>0, <1>6, TasksKept
<1>20. ASSUME NEW s \in Members PROVE PlaceOf(s)'
  <2>1. PlaceOf(s)
    OBVIOUS
  <2>2. CASE s = t
    <3>1. AtSimple(t) => posix.nested
      BY <1>0 DEF PlaceOf
    <3> QED
      BY <3>1, <2>2, <1>0, <1>1, <1>4, <1>12 DEF PlaceOf, Is, SimplePcs
  <2>3. CASE s # t
    BY <2>1, <2>3, <1>0, <1>4, <1>8, <1>9, <1>10 DEF PlaceOf, Is
  <2> QED
    BY <2>2, <2>3
\* Behind the simple barrier, ...
<1>21. ASSUME AtSimple(t)
       PROVE  /\ \A s \in Members : Over(s)' /\ AtSimple(s)'
              /\ ~barrier.generation.waiting
  <2>1. Ended
    BY <1>6, <1>21 DEF Ended
  <2>2. \A s \in Members : AtSimple(s)
    BY <2>1 DEF OverInv
  <2> QED
    BY <2>2, <1>9, <1>12 DEF Over, StageInv
\* ... or behind another one.
<1>22. ASSUME ~AtSimple(t)
       PROVE  /\ Done(t) /\ ~barrier.generation.cancelled /\ ~barrier.generation.waiting
              /\ \A s \in Members : ~Inside(s)'
              /\ \/ \A s \in Members : Over(s)'
                 \/ /\ \A s \in Members : ~Through(s)'
                    /\ r.phase = barrier.generation.n /\ r.phase <= posix.barriers
  <2>1. ~Over(t)
    BY <1>6, <1>22 DEF Over
  <2>2. ~Ended /\ Clean
    BY <1>22 DEF OverInv, Clean
  <2>3. \A s \in Members : ~Inside(s)'
    BY <2>2, <1>6, <1>9, <1>17
  <2>4. Done(t) /\ ~Here(t)
    <3>1. ~Here(t)
      <4> SUFFICES ASSUME Here(t) PROVE FALSE
        OBVIOUS
      <4>1. counts.task > counts.queued
        BY <2>1, <1>0, <1>6 DEF StageInv, LastOf, Is
      <4>2. Executing \in SUBSET Members
        BY DEF Executing
      <4>3. Cardinality(Executing) # 0
        BY <4>1 DEF TaskInv, Typed
      <4>4. PICK u \in Members : TaskPc(u)
        BY <4>2, <4>3, OneMore DEF Executing
      <4>5. u # t /\ Waits(u)
        BY <4>4, <2>1, <1>6 DEF StageInv, LastOf
      <4> QED
        BY <4>5, <2>2, <1>17 DEF Inside
    <3> QED
      BY <3>1, <2>1, <1>6 DEF StageInv, DoneOf
  <2>5. ~barrier.generation.cancelled /\ (member[t].phase = member[t].n \/ Skipping(t))
    BY <2>1, <2>4, <1>6 DEF StageInv, DoneOf
  <2>6. ~barrier.generation.waiting
    <3>1. \A h \in Members : Last(h) => h = t
      BY <1>10
    <3> QED
      BY <3>1, <2>4 DEF StageInv
  <2>7. CASE member[t].phase < posix.barriers
    <3>1. r.pc = "user" /\ r.phase = member[t].phase + 1
      BY <1>1, <2>7
    <3>2. ~AtFinal(t) /\ ~Through(t) /\ ~Skipping(t)
      BY <2>1, <2>7, <1>0 DEF AtFinal, Skipping, Through
    <3>3. ~Over(t)' /\ ~Through(t)'
      BY <3>1, <2>7, <1>0, <1>4, <1>6 DEF Over, Through, AtSimple, Is
    <3>4. \A s \in Members : ~Through(s)
      BY <3>2 DEF OverInv
    <3>5. \A s \in Members : s # t => ~Through(s)'
      BY <3>4, <1>8, <1>9 DEF Through
    <3>6. r.phase = barrier.generation.n /\ r.phase <= posix.barriers
      BY <3>1, <3>2, <2>4, <2>5, <2>7, <1>0 DEF Done
    <3> QED
      BY <2>3, <2>4, <2>5, <2>6, <3>3, <3>5, <3>6
  <2>8. CASE ~(member[t].phase < posix.barriers)
    <3>1. Through(t)
      BY <2>4, <2>8, <1>0, <1>6, <1>22 DEF Through, AtFinal
    <3>2. \A s \in Members : s # t => Over(s)'
      BY <3>1, <2>2, <1>9, <1>17 DEF OverInv, Through
    <3>3. Over(t)'
      <4>1. r.pc = "left" \/ r.phase = posix.barriers + 2
        BY <2>8, <1>1, <1>22
      <4> QED
        BY <4>1, <1>0, <1>4 DEF Over, AtSimple, Is
    <3> QED
      BY <2>3, <2>4, <2>5, <2>6, <3>2, <3>3
  <2> QED
    BY <2>7, <2>8
<1>23. OverInv'
  <2>1. (\A s \in Members : Through(s)') \/ (\A s \in Members : ~Through(s)')
    <3>1. \A s \in Members : Over(s)' => Through(s)'
      BY DEF Through
    <3> QED
      BY <3>1, <1>21, <1>22
  <2>2. Ended' => \A s \in Members : AtSimple(s)'
    BY <1>9, <1>12, <1>15 DEF OverInv
  <2> QED
    BY <2>1, <2>2, <1>4 DEF OverInv
<1>24. StageInv'
  <2>0. /\ ~barrier'.generation.waiting
        /\ barrier'.generation.cancelled => /\ barrier'.generation.n < posix'.barriers
                                            /\ posix'.cancellable
    BY <1>0, <1>5, <1>21, <1>22 DEF StageInv
  <2>1. ASSUME NEW s \in Members PROVE OutsideOf(s)'
    <3>1. OutsideOf(s)
      BY DEF StageInv
    <3>2. CASE s = t
      BY <3>2, <1>0, <1>4, <1>5, <1>21, <1>22 DEF OutsideOf, Through
    <3>3. CASE s # t
      BY <3>1, <3>3, <1>0, <1>5, <1>8, <1>9 DEF OutsideOf
    <3> QED
      BY <3>2, <3>3
  <2>2. \A s \in Members : HereOf(s)' /\ DoneOf(s)' /\ LastOf(s)'
    <3>1. \A s \in Members : ~Last(s)' /\ (Over(s)' \/ ~Inside(s)')
      BY <1>11, <1>21, <1>22
    <3> QED
      BY <3>1 DEF HereOf, DoneOf, LastOf
  <2>3. \A s \in Members : ~(Waits(s)' /\ AtCancellable(s)')
    <3>1. CASE AtSimple(t)
      <4>1. \A s \in Members : member'[s].phase = posix.barriers + 2
        BY <3>1, <1>0, <1>21 DEF AtSimple
      <4> QED
        BY <4>1, <1>0 DEF AtCancellable
    <3>2. CASE ~AtSimple(t)
      BY <3>2, <1>22 DEF Inside
    <3> QED
      BY <3>1, <3>2
  <2> QED
    BY <2>0, <2>1, <2>2, <2>3, <1>4 DEF StageInv
<1> QED
  BY <1>4, <1>13, <1>14, <1>18, <1>19, <1>20, <1>23, <1>24

\* gomp_team_barrier_cancel takes sem2 and unlocks.
LEMMA CancelEndInv ==
  ASSUME PosixInv, NEW t \in Members, CancelEnd(t)
  PROVE  PosixInv'
<1> USE DEF PosixInv
<1>0. /\ member[t].pc = "cancelled" /\ posix' = posix /\ counts' = counts
      /\ member[t] \in Records /\ PlaceOf(t) /\ AtCancellable(t)
      /\ barrier.generation.cancelled /\ member[t].phase = barrier.generation.n
      /\ posix.barriers \in Nat /\ member[t].phase \in Int /\ member[t].phase < posix.barriers
      /\ posix.cancellable
  BY MembersFinite DEF CancelEnd, Is, Typed, Records, PlaceOf, AtCancellable
<1> DEFINE r == ToEnd(member[t])
<1>1. /\ r \in Records /\ r.pc = "user" /\ r.phase = posix.barriers + 1
      /\ ~r.told /\ r.n = member[t].n /\ r.last = member[t].last
  BY ToEndFields
<1>2. member' = [member EXCEPT ![t] = r]
  BY DEF CancelEnd, JumpToFinal
<1> HIDE DEF r
<1>3. Moves(t, r)
  BY <1>0, <1>1, <1>2 DEF Moves
<1>4. /\ Members' = Members /\ member'[t] = r
      /\ \A s \in Members : s # t => Same(s)
      /\ member' \in [Members -> Records]
  BY <1>3, MovesFrame
<1>5. /\ barrier' \in BarrierSet /\ ~barrier'.mutex1
      /\ barrier'.generation = barrier.generation /\ barrier'.arrived = barrier.arrived
      /\ barrier.sem2 > 0 /\ barrier'.sem2 = barrier.sem2 - 1
  <2>1. barrier \in BarrierSet /\ barrier.sem2 - 1 \in Int
    BY DEF Typed, BarrierSet
  <2> QED
    BY <2>1 DEF CancelEnd, BarrierSet
<1>6. /\ ~Inside(t) /\ ~Last(t) /\ Holds(t) /\ ~TaskPc(t) /\ ~Waits(t)
      /\ ~Waits(t)' /\ ~Last(t)' /\ ~Holds(t)' /\ ~TaskPc(t)' /\ ~Inside(t)'
      /\ ~Is(t, "last") /\ ~Is(t, "last")' /\ ~Is(t, "tell")' /\ ~Is(t, "cancelled")'
  BY <1>0, <1>1, <1>4 DEF Waits, Last, Handling, Inside, Holds, TaskPc, Is
<1>7. /\ ~AtSimple(t) /\ ~Over(t) /\ ~AtFinal(t) /\ ~Through(t)
      /\ ~AtSimple(t)' /\ ~Over(t)' /\ Skipping(t)' /\ ~Through(t)'
  <2>1. ~AtSimple(t) /\ ~AtFinal(t) /\ ~AtSimple(t)' /\ Skipping(t)'
    BY <1>0, <1>1, <1>4 DEF AtSimple, AtFinal, Skipping
  <2>2. ~Over(t) /\ ~Over(t)'
    BY <2>1, <1>0, <1>1, <1>4 DEF Over, Is
  <2> QED
    BY <2>1, <2>2, <1>6 DEF Through
<1>8. /\ ~Ended /\ Clean /\ \A s \in Members : ~Through(s) /\ ~Over(s)
  BY <1>7 DEF OverInv, Clean, Through
<1>9. /\ barrier'.sem2 = 0 /\ \A s \in Members : ~Inside(s)
      /\ barrier.arrived = Cardinality(Counted) /\ Counted = {}
  <2>1. Unlocks(t)
    BY <1>0, <1>5, <1>6 DEF Unlocks
  <2> QED
    BY <2>1, <1>0, <1>6, <1>8, OthersGone
<1>10. \A s \in Members : s # t =>
         /\ member'[s] = member[s]
         /\ (Over(s)' <=> Over(s)) /\ (Inside(s)' <=> Inside(s))
         /\ (Holds(s)' <=> Holds(s)) /\ (Last(s)' <=> Last(s))
         /\ (Waits(s)' <=> Waits(s)) /\ (AtSimple(s)' <=> AtSimple(s))
         /\ (AtFinal(s)' <=> AtFinal(s)) /\ (Skipping(s)' <=> Skipping(s))
         /\ (AtCancellable(s)' <=> AtCancellable(s))
  BY <1>4 DEF Same
<1>11. \A s \in Members : ~Inside(s)' /\ ~Holds(s)' /\ ~Last(s)' /\ ~Waits(s)'
  <2>1. \A s \in Members : s # t => ~Holds(s)
    BY <1>6 DEF HoldInv
  <2> QED
    BY <2>1, <1>6, <1>9, <1>10 DEF Inside
<1>12. \A s \in Members : s # t =>
          ~member[s].told /\ ~Is(s, "cancelled") /\ member[s].pc \notin {"leave", "tell"}
  <2>1. \A s \in Members : member[s].pc \notin {"leave", "tell"}
    BY <1>9 DEF Inside, Waits, Is
  <2> QED
    BY <2>1, <1>6 DEF PlaceOf, HoldInv, Holds
<1>13. Typed'
  BY <1>0, <1>4, <1>5 DEF Typed, BarrierSet
<1>14. HoldInv'
  BY <1>4, <1>5, <1>11 DEF HoldInv
<1>15. ~Ended'
  <2>1. \A s \in Members : ~AtSimple(s)
    BY <1>8 DEF Over
  <2> QED
    BY <2>1, <1>4, <1>7, <1>10 DEF Ended
<1>16. CountInv'
  <2>1. Counted' = {} /\ Cardinality({}) = 0
    <3>1. \A s \in Members : ~Is(s, "last")'
      BY <1>11 DEF Last, Is
    <3> QED
      BY <3>1, <1>4, <1>11, FS_EmptySet DEF Counted
  <2>2. \A s \in Members : ~Is(s, "leave")' /\ ~Is(s, "tell")' /\ ~Is(s, "last")'
    BY <1>11 DEF Inside, Waits, Last, Is
  <2>3. barrier'.arrived = Cardinality(Counted') /\ barrier'.sem2 = 0
    BY <2>1, <1>5, <1>9
  <2> QED
    BY <2>2, <2>3, <1>4, <1>5 DEF CountInv, Is
<1>17. TaskInv'
  <2>1. r.pc # "complete" /\ Moves(t, r)
    BY <1>1, <1>3
  <2> QED
    BY <2>1, <1>0, <1>6, TasksKept
<1>18. ASSUME NEW s \in Members PROVE PlaceOf(s)'
  <2>1. PlaceOf(s)
    OBVIOUS
  <2>2. CASE s = t
    BY <2>2, <1>0, <1>1, <1>4, <1>7 DEF PlaceOf, Is
  <2>3. CASE s # t
    BY <2>1, <2>3, <1>0, <1>4, <1>10, <1>12 DEF PlaceOf, Is
  <2> QED
    BY <2>2, <2>3
<1>19. OverInv'
  <2>1. \A s \in Members : ~Through(s)'
    BY <1>7, <1>8, <1>10, <1>11 DEF Through
  <2> QED
    BY <2>1, <1>4, <1>15 DEF OverInv
<1>20. StageInv'
  <2>1. ASSUME NEW s \in Members PROVE OutsideOf(s)'
    <3>1. OutsideOf(s)
      BY DEF StageInv
    <3>2. CASE s = t
      BY <3>2, <1>0, <1>5, <1>7 DEF OutsideOf
    <3>3. CASE s # t
      BY <3>1, <3>3, <1>0, <1>5, <1>10 DEF OutsideOf
    <3> QED
      BY <3>2, <3>3
  <2>2. \A s \in Members : HereOf(s)' /\ DoneOf(s)' /\ LastOf(s)'
    BY <1>11 DEF HereOf, DoneOf, LastOf
  <2>3. ~barrier'.generation.waiting
    BY <1>5, <1>9 DEF StageInv, Inside
  <2> QED
    BY <2>1, <2>2, <2>3, <1>0, <1>4, <1>5, <1>11 DEF StageInv
<1> QED
  BY <1>4, <1>13, <1>14, <1>16, <1>17, <1>18, <1>19, <1>20

\* Destroying the barrier, or doing nothing, changes nothing that matters.
LEMMA NothingMovesInv ==
  ASSUME PosixInv, UNCHANGED <<posix, counts, member>>, barrier' \in BarrierSet,
         barrier'.mutex1 = barrier.mutex1, barrier'.sem2 = barrier.sem2,
         barrier'.arrived = barrier.arrived, barrier'.generation = barrier.generation,
         barrier'.cancellable = barrier.cancellable
  PROVE  PosixInv'
<1> USE DEF PosixInv
<1>1. Members' = Members
  BY DEF Members
<1>2. \A s \in Members :
        /\ (Waits(s)' <=> Waits(s)) /\ (Last(s)' <=> Last(s)) /\ (Holds(s)' <=> Holds(s))
        /\ (Handling(s)' <=> Handling(s)) /\ (Inside(s)' <=> Inside(s))
        /\ (TaskPc(s)' <=> TaskPc(s))
  BY DEF Waits, Last, Holds, Handling, Inside, TaskPc, Is
<1>3. \A s \in Members :
        /\ (AtSimple(s)' <=> AtSimple(s)) /\ (Skipping(s)' <=> Skipping(s))
        /\ (AtFinal(s)' <=> AtFinal(s)) /\ (AtCancellable(s)' <=> AtCancellable(s))
        /\ (Here(s)' <=> Here(s)) /\ (Done(s)' <=> Done(s))
        /\ (Is(s, "left")' <=> Is(s, "left"))
  BY DEF AtSimple, Skipping, AtFinal, AtCancellable, Here, Done, Is
<1>4. \A s \in Members : (Over(s)' <=> Over(s)) /\ (Through(s)' <=> Through(s))
  BY <1>2, <1>3 DEF Over, Through
<1>5. Typed'
  BY <1>1 DEF Typed, BarrierSet
<1>6. HoldInv'
  BY <1>1, <1>2 DEF HoldInv
<1>7. Ended' <=> Ended
  BY <1>1, <1>3 DEF Ended, Is
<1>8. Clean' => CountInv'
  <2>1. Counted' = Counted
    BY <1>1, <1>2 DEF Counted, Is
  <2> QED
    BY <2>1, <1>1, <1>2, <1>7 DEF CountInv, Clean, Is
<1>9. TaskInv'
  <2>1. Executing' = Executing
    BY <1>1, <1>2 DEF Executing
  <2> QED
    BY <2>1, <1>1 DEF TaskInv, Is
<1>10. \A s \in Members : PlaceOf(s)'
  BY <1>1, <1>3 DEF PlaceOf, Is
<1>11. OverInv'
  BY <1>1, <1>3, <1>4, <1>7 DEF OverInv
<1>12. StageInv'
  <2>1. \A s \in Members : OutsideOf(s)' /\ HereOf(s)'
    BY <1>1, <1>2, <1>3, <1>4 DEF StageInv, OutsideOf, HereOf, Is
  <2>2. \A s \in Members : DoneOf(s)' /\ LastOf(s)'
    BY <1>1, <1>2, <1>3, <1>4 DEF StageInv, DoneOf, LastOf, Is
  <2> QED
    BY <2>1, <2>2, <1>1, <1>2, <1>3, <1>4 DEF StageInv
<1> QED
  BY <1>1, <1>5, <1>6, <1>8, <1>9, <1>10, <1>11, <1>12

\* The invariant holds when the region begins.
LEMMA PosixStarts ==
  ASSUME PosixInit PROVE PosixInv
<1>1. /\ posix \in PosixRegions /\ posix.barriers \in Nat /\ posix.size \in Nat \ {0}
  BY PosixAssumption DEF PosixInit
<1>2. /\ barrier = [mutex1 |-> FALSE, sem1 |-> 0, sem2 |-> 0, arrived |-> 0,
                    generation |-> Generation(0), cancellable |-> FALSE, freed |-> FALSE]
      /\ counts = [task |-> 0, queued |-> 0, running |-> 0, created |-> 0]
      /\ member = [t \in Members |-> NewMember]
  BY DEF PosixInit, PosixBegins
<1>3. /\ ~barrier.mutex1 /\ barrier.sem2 = 0 /\ barrier.arrived = 0
      /\ barrier.generation.n = 0 /\ ~barrier.generation.cancelled
      /\ ~barrier.generation.waiting
  BY <1>2 DEF Generation
<1>4. \A t \in Members : /\ member[t].pc = "user" /\ member[t].phase = 0
                         /\ ~member[t].told
  BY <1>2 DEF NewMember
<1>5. Typed
  BY <1>1, <1>2 DEF Typed, Generation, Words, NewMember, Records, PCs
<1>6. \A t \in Members : /\ ~Waits(t) /\ ~Last(t) /\ ~Inside(t) /\ ~Holds(t) /\ ~TaskPc(t)
                         /\ ~AtSimple(t) /\ ~Is(t, "left") /\ ~Over(t) /\ ~Through(t)
                         /\ ~Is(t, "last")
  <2> SUFFICES ASSUME NEW t \in Members
               PROVE /\ ~Waits(t) /\ ~Last(t) /\ ~Inside(t) /\ ~Holds(t) /\ ~TaskPc(t)
                     /\ ~AtSimple(t) /\ ~Is(t, "left") /\ ~Over(t) /\ ~Through(t)
                     /\ ~Is(t, "last")
    OBVIOUS
  <2>1. /\ ~Waits(t) /\ ~Last(t) /\ ~TaskPc(t) /\ ~Is(t, "left")
        /\ ~Is(t, "tell") /\ ~Is(t, "cancelled") /\ ~Is(t, "last")
    BY <1>4 DEF Waits, Last, Handling, TaskPc, Is
  <2>2. ~AtSimple(t)
    BY <1>1, <1>4 DEF AtSimple
  <2> QED
    BY <2>1, <2>2 DEF Inside, Holds, Over, Through
<1>7. HoldInv /\ OverInv
  BY <1>3, <1>6 DEF HoldInv, OverInv, Ended
<1>8. CountInv /\ TaskInv
  <2>1. Counted = {} /\ Executing = {}
    BY <1>6 DEF Counted, Executing
  <2>2. Cardinality({}) = 0
    BY FS_EmptySet
  <2> QED
    BY <2>1, <2>2, <1>2, <1>3, <1>4 DEF CountInv, TaskInv, Is
<1>9. \A t \in Members : PlaceOf(t)
  BY <1>1, <1>4, <1>6 DEF PlaceOf, Is
<1>10. StageInv
  BY <1>1, <1>3, <1>4, <1>6 DEF StageInv, OutsideOf, HereOf, DoneOf, LastOf
<1> QED
  BY <1>5, <1>7, <1>8, <1>9, <1>10 DEF PosixInv

\* gomp_team_barrier_cancel, from its look at the generation to its posts.
LEMMA CancelInv ==
  ASSUME PosixInv, NEW t \in Members, PosixCancel(t) \/ CancelBarrier(t)
  PROVE  PosixInv'
<1>1. CASE PosixCancel(t) /\ ~barrier.generation.cancelled
  BY <1>1, CancelLooksInv
<1>2. CASE PosixCancel(t) /\ barrier.generation.cancelled
  BY <1>2, JumpInv DEF PosixCancel, Is
<1>3. CASE CancelBarrier(t) /\ barrier.generation.cancelled
  <2>1. AtCancellable(t) /\ member[t].pc = "cancel"
    BY <1>3 DEF CancelBarrier, PosixInv, PlaceOf, Is
  <2> QED
    BY <1>3, <2>1, JumpInv DEF CancelBarrier
<1>4. CASE CancelBarrier(t) /\ ~barrier.generation.cancelled
           /\ ~(barrier.cancellable /\ barrier.arrived > 0)
  BY <1>4, CancelAloneInv
<1>5. CASE CancelBarrier(t) /\ ~barrier.generation.cancelled
           /\ barrier.cancellable /\ barrier.arrived > 0
  BY <1>5, CancelWakesInv
<1> QED
  BY <1>1, <1>2, <1>3, <1>4, <1>5

\* Every step keeps the invariant, and a generation that changes is a barrier
\* that completes.
LEMMA PosixNextInv ==
  ASSUME PosixInv, PostInv, [PosixNext]_posixVars
  PROVE  /\ PosixInv'
         /\ barrier'.generation.n # barrier.generation.n => CompletesNow
<1> DEFINE Same_n == barrier'.generation.n = barrier.generation.n
<1>0. Typed
  BY DEF PosixInv
<1>1. ASSUME NEW t \in Members, PosixArrive(t) PROVE PosixInv' /\ Same_n
  BY <1>0, <1>1, ArriveInv DEF PosixArrive, Typed
<1>2. ASSUME NEW t \in Members, PosixLast(t) PROVE PosixInv' /\ Same_n
  BY <1>0, <1>2, PosixLastInv DEF PosixLast, Typed
<1>3. ASSUME NEW t \in Members, PosixComplete(t) PROVE PosixInv' /\ CompletesNow
  BY <1>3, PosixCompleteInv
<1>4. ASSUME NEW t \in Members, PostOthers(t) PROVE PosixInv' /\ Same_n
  BY <1>0, <1>4, PostOthersInv DEF PostOthers, Typed
<1>5. ASSUME NEW t \in Members, AwaitOthers(t) PROVE PosixInv' /\ Same_n
  BY <1>0, <1>5, AwaitOthersInv DEF AwaitOthers, Typed
<1>6. ASSUME NEW t \in Members, SemWait(t) PROVE PosixInv' /\ Same_n
  BY <1>0, <1>6, SemWaitInv DEF SemWait, Typed
<1>7. ASSUME NEW t \in Members, Look(t) PROVE PosixInv' /\ Same_n
  BY <1>7, LookStaysInv, LookLeavesInv DEF Look
<1>8. ASSUME NEW t \in Members, CountOut(t) PROVE PosixInv' /\ Same_n
  BY <1>0, <1>8, CountOutInv DEF CountOut, Typed
<1>9. ASSUME NEW t \in Members, TellLast(t) PROVE PosixInv' /\ Same_n
  BY <1>0, <1>9, TellLastInv DEF TellLast, Typed
<1>10. ASSUME NEW t \in Members, PosixHandle(t) \/ LoopAgain(t) \/ EndTask(t)
       PROVE  PosixInv' /\ (~Same_n => CompletesNow)
  BY <1>10, HandleInv
<1>11. ASSUME NEW t \in Members, PosixWake(t) PROVE PosixInv' /\ Same_n
  BY <1>0, <1>11, PosixWakeInv DEF PosixWake, Typed
<1>12. ASSUME NEW t \in Members, EndWaitedTask(t) PROVE PosixInv' /\ Same_n
  BY <1>12, EndWaitedTaskInv DEF EndWaitedTask
<1>13. ASSUME NEW t \in Members, CancelBarrier(t) PROVE PosixInv' /\ Same_n
  <2>1. Same_n
    <3>1. \/ barrier' = barrier
          \/ \E w, x : barrier' = [barrier EXCEPT !.generation.cancelled = TRUE,
                           !.mutex1 = w, !.cancellable = FALSE, !.sem1 = x]
      BY <1>13 DEF CancelBarrier
    <3> QED
      BY <3>1, <1>0 DEF Typed, Words
  <2> QED
    BY <2>1, <1>13, CancelInv
<1>14. ASSUME NEW t \in Members, CancelEnd(t) PROVE PosixInv' /\ Same_n
  BY <1>0, <1>14, CancelEndInv DEF CancelEnd, Typed
<1>15. ASSUME NEW t \in Members, PosixTask(t) PROVE PosixInv' /\ Same_n
  BY <1>0, <1>15, PosixTaskInv DEF PosixTask, Typed, Words
<1>16. ASSUME NEW t \in Members, WaitedTask(t) PROVE PosixInv' /\ Same_n
  BY <1>0, <1>16, WaitedTaskInv DEF WaitedTask, Typed, Words
<1>17. ASSUME NEW t \in Members, PosixCancel(t) PROVE PosixInv' /\ Same_n
  BY <1>17, CancelInv DEF PosixCancel
<1>18. ASSUME PosixDestroy PROVE PosixInv' /\ Same_n
  BY <1>0, <1>18, NothingMovesInv DEF PosixDestroy, Typed, BarrierSet
<1>19. ASSUME UNCHANGED posixVars PROVE PosixInv' /\ Same_n
  BY <1>0, <1>19, NothingMovesInv DEF posixVars, Typed, BarrierSet
<1> QED
  BY <1>1, <1>2, <1>3, <1>4, <1>5, <1>6, <1>7, <1>8, <1>9, <1>10, <1>11, <1>12, <1>13,
     <1>14, <1>15, <1>16, <1>17, <1>18, <1>19 DEF PosixNext, PosixStep
-----------------------------------------------------------------------------
(* Without tasks.                                                          *)

Idle == {"handle", "top", "task", "wakeall", "wakeone", "lookagain", "waitedtask"}

\* Nobody is in the loop of the tasks, so the pc tells the holder of mutex1.
LEMMA QuietFacts ==
  ASSUME PosixInv, PostInv, posix.tasks = 0
  PROVE  /\ CountInv
         /\ \A t \in Members : member[t].pc \notin Idle
         /\ \A t \in Members : Waits(t) => member[t].pc \in {"wait", "look", "leave"}
         /\ \A t \in Members : Last(t) => member[t].pc \in {"last", "complete", "post", "others"}
         /\ \A t \in Members : Holds(t) =>
               /\ Released <=> member[t].pc \in {"others", "cancelled"}
               /\ \A s \in Members : s # t => member[s].pc \notin
                     {"last", "complete", "post", "others", "cancelled"}
         /\ ~barrier.mutex1 => ~Released
<1>1. CountInv
  BY DEF PosixInv, Clean
<1>2. \A t \in Members : member[t].pc \notin Idle
  BY DEF PostInv, Idle, Handling, Is
<1>3. \A t \in Members : Waits(t) => member[t].pc \in {"wait", "look", "leave"}
  BY <1>2 DEF Waits, Handling, Idle, Is
<1>4. \A t \in Members : Last(t) => member[t].pc \in {"last", "complete", "post", "others"}
  BY <1>2 DEF Last, Handling, Idle, Is
<1>5. \A s \in Members : member[s].pc \in {"last", "complete", "post", "others", "cancelled"}
                            => Holds(s)
  BY DEF Holds, Last, Is
<1>6. ASSUME NEW t \in Members, Holds(t)
      PROVE  /\ Released <=> member[t].pc \in {"others", "cancelled"}
             /\ \A s \in Members : s # t => member[s].pc \notin
                     {"last", "complete", "post", "others", "cancelled"}
  BY <1>5, <1>6 DEF PosixInv, HoldInv, Released
<1>7. ~barrier.mutex1 => ~Released
  BY <1>5 DEF PosixInv, HoldInv, Released
<1> QED
  BY <1>1, <1>2, <1>3, <1>4, <1>6, <1>7

\* The record of a thread that moves is the one it has then.
LEMMA MovesToNext ==
  ASSUME Typed, Typed', posix' = posix, NEW t \in Members, NEW x,
         member' = [member EXCEPT ![t] = x]
  PROVE  Moves(t, member'[t]) /\ member'[t] = x
<1>1. member'[t] = x
  BY DEF Typed
<1>2. Members' = Members
  BY DEF Members
<1>3. member'[t] \in Records
  BY <1>2 DEF Typed
<1> QED
  BY <1>1, <1>3 DEF Moves

\* What a step must see to for the posts to stay exact.
LEMMA PostMoves ==
  ASSUME PosixInv, PostInv, posix.tasks = 0, NEW t \in Members, Moves(t, member'[t]),
         counts' = counts, ~barrier'.generation.pending, ~barrier'.generation.waiting,
         ~Is(t, "wait") \/ Released,
         member'[t].pc \notin Idle,
         member'[t].pc \in {"look", "leave"} => Released',
         Is(t, "post")' => \A s \in Members : s = t \/ Is(s, "wait"),
         Is(t, "others")' /\ ~Over(t)' => Done(t)',
         Is(t, "cancelled")' => \A s \in Members : Waits(s)' => AtCancellable(s)',
         Waits(t)' => AtCancellable(t)' \/ \A s \in Members : ~Is(s, "cancelled"),
         Released => Released' \/ \A s \in Members :
                                     s = t \/ member[s].pc \notin {"look", "leave"},
         \/ barrier'.generation.n = barrier.generation.n
         \/ \A s \in Members : s = t \/ ~Is(s, "others"),
         barrier'.sem1 = IF Released' THEN Cardinality(Waiting') ELSE 0
  PROVE  PostInv'
<1>1. /\ Members' = Members /\ posix' = posix
      /\ \A s \in Members : s # t => Same(s)
  BY MovesFrame DEF PosixInv, Moves
<1>2. counts'.task = 0 /\ counts'.queued = 0 /\ counts'.created = 0
  BY DEF PostInv
<1>3. ASSUME NEW s \in Members
      PROVE  /\ ~Handling(s)' /\ member'[s].pc \notin {"lookagain", "wakeone", "waitedtask"}
             /\ member'[s].pc \in {"look", "leave"} => Released'
             /\ Is(s, "post")' => \A u \in Members : s = u \/ Is(u, "wait")'
             /\ Is(s, "others")' /\ ~Over(s)' => Done(s)'
             /\ Is(s, "cancelled")' => \A u \in Members : Waits(u)' => AtCancellable(u)'
  <2>1. member'[s].pc \notin Idle
    BY <1>1, QuietFacts DEF Same
  <2>2. ~Handling(s)' /\ member'[s].pc \notin {"lookagain", "wakeone", "waitedtask"}
    BY <2>1 DEF Handling, Idle, Is
  <2>3. CASE s = t
    <3>1. \A u \in Members : u # t /\ Is(u, "wait") => Is(u, "wait")'
      BY <1>1 DEF Same, Is
    <3> QED
      BY <2>2, <2>3, <3>1
  <2>4. CASE s # t
    <3>1. /\ member'[s] = member[s] /\ (Over(s)' <=> Over(s))
      BY <2>4, <1>1 DEF Same
    <3>2. member[s].pc \in {"look", "leave"} => Released'
      BY <2>4 DEF PostInv
    <3>3. ~Is(s, "post")
      <4> SUFFICES ASSUME Is(s, "post") PROVE FALSE
        OBVIOUS
      <4>1. Is(t, "wait")
        BY <2>4 DEF PostInv
      <4>2. Released /\ Holds(s)
        BY <4>1 DEF Holds, Last, Is
      <4> QED
        BY <4>2, QuietFacts DEF Is
    <3>4. Is(s, "others") /\ ~Over(s) => Done(s)'
      BY <2>4, <3>1 DEF PostInv, Done
    <3>5. ASSUME Is(s, "cancelled"), NEW u \in Members, Waits(u)' PROVE AtCancellable(u)'
      <4>1. CASE u = t
        BY <3>5, <4>1
      <4>2. CASE u # t
        BY <3>5, <4>2, <1>1 DEF PostInv, Same
      <4> QED
        BY <4>1, <4>2
    <3> QED
      BY <2>2, <3>1, <3>2, <3>3, <3>4, <3>5 DEF Is
  <2> QED
    BY <2>3, <2>4
<1> QED
  BY <1>1, <1>2, <1>3 DEF PostInv

\* The posts, when a thread moves that does not keep the mutex.
LEMMA PostCount ==
  ASSUME PosixInv, NEW t \in Members, Moves(t, member'[t])
  PROVE  /\ member[t].pc \notin {"others", "cancelled"} =>
               (Released' <=> Released \/ member'[t].pc \in {"others", "cancelled"})
         /\ ~Is(t, "wait") /\ ~Is(t, "wait")' => Waiting' = Waiting
         /\ Is(t, "wait") /\ ~Is(t, "wait")' =>
               Cardinality(Waiting') = Cardinality(Waiting) - 1
         /\ Is(t, "wait") /\ Is(t, "wait")' => Waiting' = Waiting
         /\ Cardinality(Waiting) \in Nat
<1>1. /\ Waiting' = IF Is(t, "wait")' THEN Waiting \cup {t} ELSE Waiting \ {t}
      /\ t \in Waiting <=> Is(t, "wait")
      /\ Waiting \in SUBSET Members
  BY CountMoves DEF PosixInv
<1>2. /\ Cardinality(Waiting) \in Nat
      /\ t \in Waiting => Cardinality(Waiting \ {t}) = Cardinality(Waiting) - 1
  BY <1>1, OneMore DEF PosixInv
<1>3. Members' = Members /\ \A s \in Members : s # t => Same(s)
  BY MovesFrame DEF PosixInv
<1>4. member[t].pc \notin {"others", "cancelled"} =>
               (Released' <=> Released \/ member'[t].pc \in {"others", "cancelled"})
  BY <1>3 DEF Released, Same
<1> QED
  BY <1>1, <1>2, <1>4

\* The arrival keeps the posts exact; so do the steps that follow.
LEMMA ArrivePosts ==
  ASSUME PosixInv, PosixInv', PostInv, posix.tasks = 0, NEW t \in Members, PosixArrive(t)
  PROVE  PostInv' /\ member'[t].pc \in {"user", "wait", "last"} /\ Moves(t, member'[t])
<1>1. /\ member[t].pc = "user" /\ ~barrier.mutex1 /\ posix' = posix /\ counts' = counts
      /\ Typed /\ Typed'
  BY DEF PosixArrive, Is, PosixInv
<1>2. \E x : member' = [member EXCEPT ![t] = x] /\ x.pc \in {"user", "wait", "last"}
  <2>1. CASE JumpToFinal(t)
    <3>1. member' = [member EXCEPT ![t] = ToEnd(member[t])]
      BY <2>1 DEF JumpToFinal
    <3>2. ToEnd(member[t]).pc = "user"
      BY <1>1, ToEndFields
    <3> QED
      BY <3>1, <3>2
  <2>2. CASE \E last \in BOOLEAN :
               member' = [member EXCEPT ![t].n = barrier.generation.n,
                    ![t].last = last, ![t].pc = IF last THEN "last" ELSE "wait"]
    <3>1. PICK last \in BOOLEAN :
               member' = [member EXCEPT ![t].n = barrier.generation.n,
                    ![t].last = last, ![t].pc = IF last THEN "last" ELSE "wait"]
      BY <2>2
    <3> DEFINE p == IF last THEN "last" ELSE "wait"
               x == [member[t] EXCEPT !.n = barrier.generation.n, !.last = last, !.pc = p]
    <3>2. member' = [member EXCEPT ![t] = x]
      BY <3>1, <1>1 DEF Typed
    <3>3. x.pc = p /\ p \in {"wait", "last"}
      BY <1>1 DEF Typed, Records
    <3> QED
      BY <3>2, <3>3
  <2> QED
    BY <2>1, <2>2 DEF PosixArrive
<1>3. Moves(t, member'[t]) /\ member'[t].pc \in {"user", "wait", "last"}
  BY <1>1, <1>2, MovesToNext
<1>4. /\ ~Released /\ ~Released' /\ barrier.sem1 = 0 /\ barrier'.sem1 = 0
      /\ barrier'.generation = barrier.generation
      /\ ~barrier.generation.pending /\ ~barrier.generation.waiting
  <2>1. ~Released
    BY <1>1, QuietFacts
  <2>2. ~Released'
    BY <2>1, <1>1, <1>3, PostCount
  <2>3. barrier'.sem1 = barrier.sem1 /\ barrier'.generation = barrier.generation
    BY <1>1 DEF PosixArrive, Typed
  <2> QED
    BY <2>1, <2>2, <2>3 DEF PostInv
<1>5. \A s \in Members : ~Is(s, "cancelled")
  BY <1>4 DEF Released, Is
<1> QED
  BY <1>1, <1>3, <1>4, <1>5, PostMoves DEF Is, Idle

\* The last thread sees that there are no tasks.
LEMMA LastPosts ==
  ASSUME PosixInv, PosixInv', PostInv, posix.tasks = 0, NEW t \in Members, PosixLast(t)
  PROVE  PostInv' /\ member'[t].pc \in {"post", "complete"} /\ Moves(t, member'[t])
<1>1. /\ member[t].pc = "last" /\ posix' = posix /\ counts' = counts
      /\ Typed /\ Typed' /\ member[t] \in Records
  BY DEF PosixLast, Is, PosixInv, Typed
<1>2. \E x : member' = [member EXCEPT ![t] = x] /\ x.pc \in {"post", "complete"}
  <2>1. counts.task = 0
    BY DEF PostInv
  <2> DEFINE p == IF AtSimple(t) THEN "post" ELSE "complete"
             x == [member[t] EXCEPT !.pc = p]
  <2>2. member' = [member EXCEPT ![t] = x] /\ x.pc = p
    BY <1>1, <2>1 DEF PosixLast, Proceed, Records
  <2> QED
    BY <2>2
<1>3. Moves(t, member'[t]) /\ member'[t].pc \in {"post", "complete"}
  BY <1>1, <1>2, MovesToNext
<1>4. Holds(t)
  BY <1>1 DEF Holds, Last, Is
<1>5. /\ ~Released /\ ~Released' /\ barrier.sem1 = 0 /\ barrier'.sem1 = 0
      /\ barrier'.generation = barrier.generation
      /\ ~barrier.generation.pending /\ ~barrier.generation.waiting
  <2>1. ~Released
    BY <1>1, <1>4, QuietFacts
  <2>2. ~Released'
    BY <2>1, <1>1, <1>3, PostCount
  <2>3. barrier'.sem1 = barrier.sem1 /\ barrier'.generation = barrier.generation
    BY <1>1 DEF PosixLast, Typed
  <2> QED
    BY <2>1, <2>2, <2>3 DEF PostInv
<1>6. \A s \in Members : s = t \/ Is(s, "wait")
  <2> SUFFICES ASSUME NEW s \in Members, s # t PROVE Is(s, "wait")
    OBVIOUS
  <2>1. Waits(s)
    BY <1>1, QuietFacts DEF CountInv, Is
  <2>2. member[s].pc \in {"wait", "look", "leave"}
    BY <2>1, QuietFacts
  <2> QED
    BY <2>2, <1>5 DEF PostInv, Is
<1>7. ~Waits(t)'
  BY <1>3 DEF Waits, Handling, Is
<1> QED
  BY <1>1, <1>3, <1>5, <1>6, <1>7, PostMoves DEF Is, Idle

\* It completes the barrier.
LEMMA CompletePosts ==
  ASSUME PosixInv, PosixInv', PostInv, posix.tasks = 0, NEW t \in Members, PosixComplete(t)
  PROVE  PostInv' /\ member'[t].pc = "post" /\ Moves(t, member'[t])
<1>1. /\ member[t].pc = "complete" /\ posix' = posix /\ counts' = counts
      /\ Typed /\ Typed' /\ member[t] \in Records
  BY DEF PosixComplete, Is, PosixInv, Typed
<1>2. \E x : member' = [member EXCEPT ![t] = x] /\ x.pc = "post"
  <2> DEFINE x == [member[t] EXCEPT !.pc = "post"]
  <2>1. member' = [member EXCEPT ![t] = x] /\ x.pc = "post"
    BY <1>1 DEF PosixComplete, Proceed, Records
  <2> QED
    BY <2>1
<1>3. Moves(t, member'[t]) /\ member'[t].pc = "post"
  BY <1>1, <1>2, MovesToNext
<1>4. Holds(t) /\ Last(t) /\ Inside(t)
  BY <1>1 DEF Holds, Last, Inside, Is
<1>5. /\ ~Released /\ ~Released' /\ barrier.sem1 = 0 /\ barrier'.sem1 = 0
      /\ ~barrier'.generation.pending /\ ~barrier'.generation.waiting
  <2>1. ~Released
    BY <1>1, <1>4, QuietFacts
  <2>2. ~Released'
    BY <2>1, <1>1, <1>3, PostCount
  <2>3. barrier'.sem1 = barrier.sem1 /\ barrier'.generation = Generation(member[t].n + 1)
    BY <1>1 DEF PosixComplete, Typed
  <2> QED
    BY <2>1, <2>2, <2>3 DEF PostInv, Generation
<1>6. \A s \in Members : s = t \/ Is(s, "wait")
  <2> SUFFICES ASSUME NEW s \in Members, s # t PROVE Is(s, "wait")
    OBVIOUS
  <2>1. ~Over(t)
    <3>1. PlaceOf(t)
      BY DEF PosixInv
    <3> QED
      BY <3>1, <1>1 DEF PlaceOf, Over, SimplePcs, Is
  <2>2. Here(t)
    BY <2>1, <1>1, <1>4 DEF PosixInv, StageInv, DoneOf
  <2>3. Waits(s)
    BY <2>1, <2>2, <1>4 DEF PosixInv, StageInv, LastOf
  <2>4. member[s].pc \in {"wait", "look", "leave"}
    BY <2>3, QuietFacts
  <2> QED
    BY <2>4, <1>5 DEF PostInv, Is
<1>7. ~Waits(t)' /\ \A s \in Members : s = t \/ ~Is(s, "others")
  BY <1>3, <1>6 DEF Waits, Handling, Is
<1> QED
  BY <1>1, <1>3, <1>5, <1>6, <1>7, PostMoves DEF Is, Idle

\* It posts once for each of the others, all of which wait.
LEMMA OthersPosts ==
  ASSUME PosixInv, PosixInv', PostInv, posix.tasks = 0, NEW t \in Members, PostOthers(t)
  PROVE  /\ PostInv' /\ member'[t].pc = "others" /\ Moves(t, member'[t])
         /\ \A s \in Members : s = t \/ Is(s, "wait")
<1>1. /\ member[t].pc = "post" /\ posix' = posix /\ counts' = counts
      /\ Typed /\ Typed' /\ member[t] \in Records
  BY DEF PostOthers, Is, PosixInv, Typed
<1>2. \E x : member' = [member EXCEPT ![t] = x] /\ x.pc = "others"
                /\ x.n = member[t].n /\ x.phase = member[t].phase
  <2> DEFINE x == [member[t] EXCEPT !.pc = "others"]
  <2>1. member' = [member EXCEPT ![t] = x] /\ x.pc = "others"
           /\ x.n = member[t].n /\ x.phase = member[t].phase
    BY <1>1 DEF PostOthers, Proceed, Records
  <2> QED
    BY <2>1
<1>3. /\ Moves(t, member'[t]) /\ member'[t].pc = "others"
      /\ member'[t].n = member[t].n /\ member'[t].phase = member[t].phase
  BY <1>1, <1>2, MovesToNext
<1>4. Holds(t) /\ Last(t) /\ Inside(t)
  BY <1>1 DEF Holds, Last, Inside, Is
<1>5. \A s \in Members : s = t \/ Is(s, "wait")
  BY <1>1 DEF PostInv, Is
<1>6. /\ ~Released /\ Released' /\ barrier'.sem1 = posix.size - 1
      /\ barrier'.generation = barrier.generation
      /\ ~barrier.generation.pending /\ ~barrier.generation.waiting
  <2>1. ~Released
    BY <1>1, <1>4, QuietFacts
  <2>2. Released'
    BY <2>1, <1>1, <1>3, PostCount
  <2>3. barrier.sem1 = 0 /\ posix.size \in Nat
    BY <2>1, <1>1, MembersFinite DEF PostInv
  <2>4. barrier'.sem1 = barrier.sem1 + posix.size - 1 /\ barrier'.generation = barrier.generation
    BY <1>1 DEF PostOthers, Typed
  <2> QED
    BY <2>1, <2>2, <2>3, <2>4 DEF PostInv
<1>7. Cardinality(Waiting') = posix.size - 1
  <2>1. Waiting' = Waiting
    BY <1>1, <1>3, PostCount DEF Is
  <2>2. Waiting \in SUBSET Members /\ t \notin Waiting
    BY <1>1 DEF Waiting, Is
  <2>3. Cardinality(Waiting) + 1 = posix.size /\ Cardinality(Waiting) \in Nat
    BY <2>2, <1>1, <1>5, AllButOne, OneMore DEF Waiting
  <2> QED
    BY <2>1, <2>3
<1>8. ~Over(t)' => Done(t)'
  <2>1. AtSimple(t)' <=> AtSimple(t)
    BY <1>1, <1>3 DEF AtSimple
  <2>2. ~Over(t)' => ~Over(t)
    BY <2>1, <1>1 DEF Over, Is
  <2>3. ~Over(t) => Done(t)
    BY <1>1, <1>4 DEF PosixInv, StageInv, HereOf, DoneOf
  <2> QED
    BY <2>2, <2>3, <1>3, <1>6 DEF Done
<1>9. ~Waits(t)'
  BY <1>3 DEF Waits, Handling, Is
<1> QED
  BY <1>1, <1>3, <1>5, <1>6, <1>7, <1>8, <1>9, PostMoves DEF Is, Idle

\* Where a thread goes from the barrier.
LEMMA GoesOut ==
  ASSUME PosixInv, PosixInv', NEW t \in Members, posix' = posix,
         GoOut(t) \/ JumpToFinal(t)
  PROVE  /\ Moves(t, member'[t]) /\ member'[t].pc \in {"user", "left"}
         /\ member'[t].pc = "left" =>
               /\ GoOut(t) /\ ~member[t].told /\ (AtSimple(t) \/ ~posix.nested)
               /\ member'[t].phase = member[t].phase
         /\ GoOut(t) /\ AtSimple(t) => member'[t].pc = "left"
<1>1. /\ Typed /\ Typed' /\ PlaceOf(t) /\ posix.barriers \in Nat /\ member[t] \in Records
      /\ member[t].phase \in 0..posix.barriers + 2
  BY MembersFinite DEF PosixInv, PlaceOf, Typed
<1>2. CASE JumpToFinal(t) \/ (GoOut(t) /\ member[t].told)
  <2> DEFINE x == ToEnd(member[t])
  <2>1. x.pc = "user"
    BY <1>1, ToEndFields
  <2>2. member' = [member EXCEPT ![t] = x]
    BY <1>2 DEF JumpToFinal, GoOut, Out
  <2>3. ~(GoOut(t) /\ AtSimple(t))
    <3>1. CASE GoOut(t) /\ AtSimple(t) /\ ~member[t].told
      <4>1. member'[t] = Out(member[t]) /\ Out(member[t]).pc = "left"
        BY <3>1, <1>1, OutFields DEF GoOut, Typed
      <4>2. member'[t].pc = "user"
        BY <2>1, <2>2, <1>1 DEF Typed
      <4> QED
        BY <4>1, <4>2
    <3>2. CASE member[t].told
      BY <3>2, <1>1 DEF PlaceOf, AtSimple, AtCancellable
    <3> QED
      BY <3>1, <3>2
  <2> HIDE DEF x
  <2> QED
    BY <2>1, <2>2, <2>3, <1>1, MovesToNext
<1>3. CASE GoOut(t) /\ ~member[t].told
  <2> DEFINE x == Out(member[t])
  <2>1. /\ x.pc \in {"user", "left"}
        /\ member[t].phase < posix.barriers => x.pc = "user"
        /\ AtSimple(t) => x.pc = "left" /\ x.phase = member[t].phase
        /\ ~AtSimple(t) /\ ~(member[t].phase < posix.barriers) =>
              x.pc = "user" \/ (x.pc = "left" /\ x.phase = member[t].phase /\ ~posix.nested)
    BY <1>3, OutFields
  <2>2. member' = [member EXCEPT ![t] = x]
    BY <1>3 DEF GoOut
  <2> HIDE DEF x
  <2>3. x.pc = "left" => (AtSimple(t) \/ ~posix.nested) /\ x.phase = member[t].phase
    BY <2>1
  <2> QED
    BY <2>1, <2>2, <2>3, <1>1, <1>3, MovesToNext
<1> QED
  BY <1>2, <1>3

\* Who unlocks mutex1 is alone: all posts have been taken.
LEMMA UnlockPosts ==
  ASSUME PosixInv, PosixInv', PostInv, posix.tasks = 0, NEW t \in Members,
         AwaitOthers(t) \/ CancelEnd(t)
  PROVE  /\ PostInv' /\ member'[t].pc \in {"user", "left"} /\ Moves(t, member'[t])
         /\ \A s \in Members : s # t => ~Inside(s)
<1>1. /\ member[t].pc \in {"others", "cancelled"} /\ posix' = posix /\ counts' = counts
      /\ Typed /\ Typed' /\ barrier'.sem1 = barrier.sem1
      /\ barrier'.generation = barrier.generation
      /\ GoOut(t) \/ JumpToFinal(t)
  BY DEF AwaitOthers, CancelEnd, Is, PosixInv, Typed
<1>2. Moves(t, member'[t]) /\ member'[t].pc \in {"user", "left"}
  BY <1>1, GoesOut
<1>3. Holds(t)
  BY <1>1 DEF Holds, Last, Is
<1>4. Unlocks(t)
  <2>1. barrier \in BarrierSet /\ barrier.sem2 - 1 \in Int
    BY <1>1 DEF Typed, BarrierSet
  <2> QED
    BY <2>1, <1>1, <1>3 DEF AwaitOthers, CancelEnd, BarrierSet, Unlocks
<1>5. (\A s \in Members : s # t => ~Inside(s)) /\ Counted = {}
  <2>1. Clean
    BY DEF Clean
  <2> QED
    BY <2>1, <1>1, <1>4, OthersGone
<1>6. ~Released' /\ barrier.sem1 = 0
  <2>1. \A s \in Members : s # t => ~Holds(s)
    BY <1>3 DEF PosixInv, HoldInv
  <2>2. ~Released'
    BY <2>1, <1>2, MovesFrame, <1>1 DEF Released, Same, Holds, Last, Is
  <2>3. Waiting = {}
    BY <1>5 DEF Waiting, Counted, Waits, Is
  <2> QED
    BY <2>2, <2>3, FS_EmptySet DEF PostInv
<1>7. \A s \in Members : s = t \/ member[s].pc \notin {"look", "leave"}
  BY <1>5 DEF Inside, Waits
<1>8. ~barrier.generation.pending /\ ~barrier.generation.waiting
  BY DEF PostInv
<1>9. ~Waits(t)' /\ ~Is(t, "wait")
  BY <1>1, <1>2 DEF Waits, Handling, Is
<1> QED
  BY <1>1, <1>2, <1>5, <1>6, <1>7, <1>8, <1>9, PostMoves DEF Is, Idle

\* A post is taken by somebody it was made for.
LEMMA SemWaitPosts ==
  ASSUME PosixInv, PosixInv', PostInv, posix.tasks = 0, NEW t \in Members, SemWait(t)
  PROVE  PostInv' /\ member'[t].pc = "look" /\ Moves(t, member'[t])
<1>1. /\ member[t].pc = "wait" /\ posix' = posix /\ counts' = counts
      /\ Typed /\ Typed' /\ member[t] \in Records /\ barrier.sem1 > 0
      /\ barrier'.sem1 = barrier.sem1 - 1 /\ barrier'.generation = barrier.generation
  BY DEF SemWait, Is, PosixInv, Typed
<1>2. \E x : member' = [member EXCEPT ![t] = x] /\ x.pc = "look"
             /\ x.phase = member[t].phase
  <2> DEFINE x == [member[t] EXCEPT !.pc = "look"]
  <2>1. member' = [member EXCEPT ![t] = x] /\ x.pc = "look" /\ x.phase = member[t].phase
    BY <1>1 DEF SemWait, Proceed, Records
  <2> QED
    BY <2>1
<1>3. /\ Moves(t, member'[t]) /\ member'[t].pc = "look"
      /\ member'[t].phase = member[t].phase
  BY <1>1, <1>2, MovesToNext
<1>4. /\ Released /\ barrier.sem1 = Cardinality(Waiting)
      /\ ~barrier.generation.pending /\ ~barrier.generation.waiting
  BY <1>1 DEF PostInv
<1>5. Released' /\ barrier'.sem1 = Cardinality(Waiting')
  BY <1>1, <1>3, <1>4, PostCount DEF Is
<1>6. AtCancellable(t)' \/ \A s \in Members : ~Is(s, "cancelled")
  <2>1. Waits(t)
    BY <1>1 DEF Waits
  <2>2. AtCancellable(t) \/ \A s \in Members : ~Is(s, "cancelled")
    BY <2>1 DEF PostInv
  <2> QED
    BY <2>2, <1>1, <1>3 DEF AtCancellable
<1> QED
  BY <1>1, <1>3, <1>4, <1>5, <1>6, PostMoves DEF Is, Idle

\* A post is for a barrier that is over, so nobody goes back to wait.
LEMMA LookPosts ==
  ASSUME PosixInv, PosixInv', PostInv, posix.tasks = 0, NEW t \in Members, Look(t)
  PROVE  PostInv' /\ member'[t].pc = "leave" /\ Moves(t, member'[t])
<1>1. /\ member[t].pc = "look" /\ posix' = posix /\ counts' = counts
      /\ Typed /\ Typed' /\ member[t] \in Records /\ barrier' = barrier
      /\ posix.barriers \in Nat /\ member[t].phase \in Int /\ member[t].n \in Int
      /\ barrier.generation \in Words
  BY QuietFacts, MembersFinite DEF Look, Is, PosixInv, Typed, Idle, Records
<1>2. /\ Released /\ ~barrier.generation.pending /\ ~barrier.generation.waiting
  BY <1>1 DEF PostInv
<1>3. Waits(t) /\ Inside(t)
  BY <1>1 DEF Waits, Inside
<1>4. PICK h \in Members : member[h].pc \in {"others", "cancelled"}
  BY <1>2 DEF Released
<1>5. Passed(t) \/ (AtCancellable(t) /\ barrier.generation.cancelled)
  <2>1. CASE Is(h, "cancelled")
    <3>1. AtCancellable(t)
      BY <2>1, <1>3 DEF PostInv
    <3>2. barrier.generation.cancelled
      BY <2>1 DEF PosixInv, PlaceOf
    <3> QED
      BY <3>1, <3>2
  <2>2. CASE Is(h, "others") /\ Over(h)
    <3>1. AtSimple(h)
      BY <2>2 DEF Over, Is
    <3>2. Ended
      BY <3>1, <2>2 DEF Ended, Is
    <3>3. AtSimple(t)
      BY <3>2 DEF PosixInv, OverInv
    <3> QED
      BY <3>3 DEF Passed
  <2>3. CASE Is(h, "others") /\ ~Over(h) /\ ~AtSimple(t)
    <3>1. Done(h)
      BY <2>3 DEF PostInv
    <3>2. ~Over(t) /\ Last(h)
      BY <2>3, <1>1 DEF Over, Last, Is
    <3>3. Done(t)
      BY <2>3, <3>1, <3>2, <1>3 DEF PosixInv, StageInv, LastOf
    <3>4. ~Here(t)
      BY <3>3, <1>1 DEF Done, Here, Words
    <3>5. ~barrier.generation.cancelled
      BY <3>2, <3>4, <1>3 DEF PosixInv, StageInv, DoneOf
    <3>6. barrier.generation = Generation(member[t].n + 1)
      BY <3>3, <3>5, <1>1, <1>2 DEF Done, Generation, Words
    <3> QED
      BY <3>6 DEF Passed
  <2>4. CASE AtSimple(t)
    BY <2>4 DEF Passed
  <2> QED
    BY <2>1, <2>2, <2>3, <2>4, <1>4 DEF Is
<1>6. \E x : /\ member' = [member EXCEPT ![t] = x] /\ x.pc = "leave"
             /\ x.phase = member[t].phase
  <2> DEFINE told == AtCancellable(t) /\ barrier.generation.cancelled
             tasks == Is(t, "look") /\ ~AtSimple(t) /\ barrier.generation.pending
             pc == IF told THEN "leave" ELSE IF tasks THEN "handle"
                   ELSE IF Passed(t) THEN "leave" ELSE "wait"
             x == [member[t] EXCEPT !.told = told, !.pc = pc]
  <2>1. member' = [member EXCEPT ![t] = x]
    BY <1>1 DEF Look, Typed
  <2>2. pc = "leave"
    BY <1>2, <1>5
  <2> HIDE DEF told, tasks, pc
  <2>3. x.pc = pc /\ x.phase = member[t].phase
    BY <1>1 DEF Records
  <2> QED
    BY <2>1, <2>2, <2>3
<1>7. /\ Moves(t, member'[t]) /\ member'[t].pc = "leave"
      /\ member'[t].phase = member[t].phase
  BY <1>1, <1>6, MovesToNext
<1>8. Released' /\ barrier'.sem1 = Cardinality(Waiting')
  BY <1>1, <1>2, <1>7, PostCount DEF Is, PostInv
<1>9. AtCancellable(t)' \/ \A s \in Members : ~Is(s, "cancelled")
  BY <1>1, <1>3, <1>7 DEF AtCancellable, PostInv
<1> QED
  BY <1>1, <1>2, <1>7, <1>8, <1>9, PostMoves DEF Is, Idle

\* Who leaves the barrier has taken its post before.
LEMMA OutPosts ==
  ASSUME PosixInv, PosixInv', PostInv, posix.tasks = 0, NEW t \in Members,
         CountOut(t) \/ TellLast(t)
  PROVE  PostInv' /\ member'[t].pc \in {"tell", "user", "left"} /\ Moves(t, member'[t])
<1>1. /\ member[t].pc \in {"leave", "tell"} /\ posix' = posix /\ counts' = counts
      /\ Typed /\ Typed' /\ member[t] \in Records
      /\ barrier'.sem1 = barrier.sem1 /\ barrier'.generation = barrier.generation
      /\ GoOut(t) \/ Proceed(t, "tell")
  BY DEF CountOut, TellLast, Is, PosixInv, Typed
<1>2. /\ Moves(t, member'[t]) /\ member'[t].pc \in {"tell", "user", "left"}
  <2>1. CASE GoOut(t)
    BY <2>1, <1>1, GoesOut
  <2>2. CASE Proceed(t, "tell")
    <3> DEFINE x == [member[t] EXCEPT !.pc = "tell"]
    <3>1. member' = [member EXCEPT ![t] = x] /\ x.pc = "tell"
      BY <2>2, <1>1 DEF Proceed, Records
    <3> HIDE DEF x
    <3> QED
      BY <3>1, <1>1, MovesToNext
  <2> QED
    BY <2>1, <2>2, <1>1
<1>3. Waiting' = Waiting /\ (Released' <=> Released)
  BY <1>1, <1>2, PostCount DEF Is
<1>4. /\ barrier'.sem1 = IF Released' THEN Cardinality(Waiting') ELSE 0
      /\ ~barrier.generation.pending /\ ~barrier.generation.waiting
  BY <1>1, <1>3 DEF PostInv
<1>5. ~Waits(t)'
  BY <1>2 DEF Waits, Handling, Is
<1> QED
  BY <1>1, <1>2, <1>3, <1>4, <1>5, PostMoves DEF Is, Idle

\* gomp_team_barrier_cancel posts once for each thread that waits.
LEMMA CancelPosts ==
  ASSUME PosixInv, PosixInv', PostInv, posix.tasks = 0, NEW t \in Members,
         PosixCancel(t) \/ CancelBarrier(t)
  PROVE  /\ PostInv' /\ Moves(t, member'[t])
         /\ member'[t].pc \in {"user", "cancel", "cancelled"}
<1>1. /\ member[t].pc \in {"user", "cancel"} /\ posix' = posix /\ counts' = counts
      /\ Typed /\ Typed' /\ member[t] \in Records
  BY DEF PosixCancel, CancelBarrier, Is, PosixInv, Typed
<1>2. ~barrier.generation.pending /\ ~barrier.generation.waiting
  BY DEF PostInv
\* Nobody is woken.
<1>3. ASSUME NEW p, NEW x, member' = [member EXCEPT ![t] = x], x.pc = p,
             p \in {"user", "cancel"}, barrier'.sem1 = barrier.sem1,
             ~barrier'.generation.pending, ~barrier'.generation.waiting,
             barrier'.generation.n = barrier.generation.n
      PROVE  PostInv' /\ Moves(t, member'[t]) /\ member'[t].pc \in {"user", "cancel"}
  <2>1. Moves(t, member'[t]) /\ member'[t].pc \in {"user", "cancel"}
    BY <1>1, <1>3, MovesToNext
  <2>2. Waiting' = Waiting /\ (Released' <=> Released)
    BY <1>1, <2>1, PostCount DEF Is
  <2>3. barrier'.sem1 = IF Released' THEN Cardinality(Waiting') ELSE 0
    BY <1>3, <2>2 DEF PostInv
  <2>4. ~Waits(t)'
    BY <2>1 DEF Waits, Handling, Is
  <2> QED
    BY <1>1, <1>3, <2>1, <2>2, <2>3, <2>4, PostMoves DEF Is, Idle
<1>4. ASSUME JumpToFinal(t), barrier'.sem1 = barrier.sem1,
             ~barrier'.generation.pending, ~barrier'.generation.waiting,
             barrier'.generation.n = barrier.generation.n
      PROVE  PostInv' /\ Moves(t, member'[t]) /\ member'[t].pc \in {"user", "cancel"}
  <2>1. ToEnd(member[t]).pc = "user"
    BY <1>1, ToEndFields
  <2>2. member' = [member EXCEPT ![t] = ToEnd(member[t])]
    BY <1>4 DEF JumpToFinal
  <2> QED
    BY <2>1, <2>2, <1>3, <1>4
<1>5. CASE barrier' = barrier
  <2>1. CASE JumpToFinal(t)
    BY <2>1, <1>2, <1>4, <1>5
  <2>2. CASE Proceed(t, "cancel")
    <3> DEFINE x == [member[t] EXCEPT !.pc = "cancel"]
    <3>1. member' = [member EXCEPT ![t] = x] /\ x.pc = "cancel"
      BY <2>2, <1>1 DEF Proceed, Records
    <3> HIDE DEF x
    <3> QED
      BY <3>1, <1>2, <1>3, <1>5
  <2>3. CASE CancelBarrier(t) /\ ~barrier.generation.cancelled
    <3>1. \E w, y : barrier' = [barrier EXCEPT !.generation.cancelled = TRUE,
                           !.mutex1 = w, !.cancellable = FALSE, !.sem1 = y]
      BY <2>3 DEF CancelBarrier
    <3>2. barrier'.generation.cancelled
      BY <3>1, <1>1 DEF Typed, Words
    <3> QED
      BY <3>2, <2>3, <1>5
  <2> QED
    BY <2>1, <2>2, <2>3 DEF PosixCancel, CancelBarrier
<1>6. CASE CancelBarrier(t) /\ ~barrier.generation.cancelled
  <2> DEFINE wait == barrier.cancellable /\ barrier.arrived > 0
  <2>1. /\ barrier' = [barrier EXCEPT !.generation.cancelled = TRUE,
                    !.mutex1 = wait, !.cancellable = FALSE,
                    !.sem1 = IF wait THEN @ + barrier.arrived ELSE @]
        /\ IF wait THEN Proceed(t, "cancelled") ELSE JumpToFinal(t)
        /\ member[t].pc = "cancel" /\ ~barrier.mutex1
    BY <1>6 DEF CancelBarrier, Is
  <2> HIDE DEF wait
  <2>2. /\ barrier'.sem1 = IF wait THEN barrier.sem1 + barrier.arrived ELSE barrier.sem1
        /\ barrier'.generation.n = barrier.generation.n
        /\ ~barrier'.generation.pending /\ ~barrier'.generation.waiting
    <3>1. \E w, y : /\ barrier' = [barrier EXCEPT !.generation.cancelled = TRUE,
                           !.mutex1 = w, !.cancellable = FALSE, !.sem1 = y]
                    /\ y = IF wait THEN barrier.sem1 + barrier.arrived ELSE barrier.sem1
      BY <2>1
    <3> QED
      BY <3>1, <1>1, <1>2 DEF Typed, Words
  <2>3. CASE ~wait
    BY <2>1, <2>2, <2>3, <1>4
  <2>4. CASE wait
    <3> DEFINE x == [member[t] EXCEPT !.pc = "cancelled"]
    <3>1. member' = [member EXCEPT ![t] = x] /\ x.pc = "cancelled"
      BY <2>1, <2>4, <1>1 DEF Proceed, Records
    <3> HIDE DEF x
    <3>2. Moves(t, member'[t]) /\ member'[t].pc = "cancelled"
      BY <3>1, <1>1, MovesToNext
    <3>3. ~Released /\ barrier.sem1 = 0 /\ Released' /\ Waiting' = Waiting
      <4>1. ~Released
        BY <2>1, QuietFacts
      <4> QED
        BY <4>1, <3>2, <1>1, PostCount DEF PostInv, Is
    <3>4. Counted = Waiting
      <4>1. \A s \in Members : Waits(s) => Is(s, "wait")
        BY <3>3, QuietFacts DEF PostInv, Is
      <4>2. \A s \in Members : ~Is(s, "last")
        BY <2>1, MutexFree
      <4>3. \A s \in Members : Is(s, "wait") => Waits(s)
        BY DEF Waits, Is
      <4> QED
        BY <4>1, <4>2, <4>3 DEF Counted, Waiting
    <3>5. barrier'.sem1 = Cardinality(Waiting')
      <4>1. barrier.arrived = Cardinality(Waiting)
        BY <3>4, QuietFacts DEF CountInv
      <4>2. Cardinality(Waiting) \in Nat
        BY <3>2, PostCount
      <4> QED
        BY <4>1, <4>2, <3>3, <2>2, <2>4
    <3>6. ~Waits(t)' /\ Members' = Members
      BY <3>2, <1>1 DEF Waits, Handling, Is, Members
    <3>7. \A s \in Members : Waits(s)' => AtCancellable(s)'
      <4> SUFFICES ASSUME NEW s \in Members, Waits(s)' PROVE AtCancellable(s)'
        OBVIOUS
      <4>1. PlaceOf(t)' /\ HereOf(s)' /\ DoneOf(s)' /\ OverInv'
        BY <3>6 DEF PosixInv, StageInv
      <4>2. Is(t, "cancelled")' /\ AtCancellable(t) /\ AtCancellable(t)'
        BY <3>2, <2>1, <4>1, <3>1, <1>1 DEF Is, PlaceOf, PosixInv
      <4>3. s # t /\ Same(s)
        BY <3>2, <3>6, <1>1, MovesFrame
      <4>4. Waits(s) /\ ~Through(t)
        <5>1. ~Inside(t) /\ ~Over(t)
          <6>1. ~AtSimple(t)
            BY <4>2, <1>1, MembersFinite DEF AtSimple, AtCancellable, Typed, Records
          <6> QED
            BY <6>1, <2>1 DEF Inside, Waits, Last, Handling, Is, Over
        <5> QED
          BY <5>1, <4>3 DEF Through, Same
      <4>5. ~Over(s)
        BY <4>4 DEF PosixInv, OverInv, Through
      <4>6. Here(s) /\ Inside(s)
        BY <4>4, <4>5, <2>1, MutexFree DEF Inside
      <4>7. member[s].phase = barrier.generation.n
        BY <4>5, <4>6, <1>6 DEF PosixInv, StageInv, HereOf
      <4>8. member[t].phase = barrier.generation.n
        <5>1. PlaceOf(t)'
          BY <4>1
        <5>2. member'[t].phase = barrier'.generation.n
          BY <5>1, <4>2 DEF PlaceOf
        <5>3. member'[t].phase = member[t].phase
          <6>1. member'[t] = [member[t] EXCEPT !.pc = "cancelled"]
            BY <2>1, <2>4, <1>1 DEF Proceed, Typed
          <6> QED
            BY <6>1, <1>1 DEF Records
        <5> QED
          BY <5>2, <5>3, <2>2
      <4> QED
        BY <4>2, <4>3, <4>7, <4>8 DEF AtCancellable, Same
    <3> QED
      BY <3>2, <3>3, <3>5, <3>6, <3>7, <2>1, <2>2, <1>1, PostMoves DEF Is, Idle
  <2> QED
    BY <2>3, <2>4
<1>7. CASE CancelBarrier(t) /\ barrier.generation.cancelled
  BY <1>5, <1>7 DEF CancelBarrier
<1>8. CASE PosixCancel(t)
  BY <1>5, <1>8 DEF PosixCancel
<1> QED
  BY <1>6, <1>7, <1>8

\* What does not touch the threads, the generation or sem1 keeps the posts.
LEMMA PostFixed ==
  ASSUME PosixInv, PostInv, UNCHANGED <<posix, counts, member>>,
         barrier'.sem1 = barrier.sem1, barrier'.generation = barrier.generation
  PROVE  PostInv'
<1>1. Members' = Members
  BY DEF Members
<1>2. /\ Waiting' = Waiting /\ (Released' <=> Released)
  BY <1>1 DEF Waiting, Released, Is
<1>3. \A s \in Members : /\ (Handling(s)' <=> Handling(s)) /\ (Over(s)' <=> Over(s))
                         /\ (Done(s)' <=> Done(s)) /\ (Waits(s)' <=> Waits(s))
                         /\ (AtCancellable(s)' <=> AtCancellable(s))
  BY DEF Handling, Over, AtSimple, Done, Waits, AtCancellable, Is
<1> QED
  BY <1>1, <1>2, <1>3 DEF PostInv, Is

\* Without tasks nobody executes one, ...
LEMMA NoTaskSteps ==
  ASSUME PosixInv, PostInv, posix.tasks = 0, NEW t \in Members
  PROVE  /\ ~PosixHandle(t) /\ ~LoopAgain(t) /\ ~EndTask(t) /\ ~PosixWake(t)
         /\ ~EndWaitedTask(t) /\ ~PosixTask(t) /\ ~WaitedTask(t)
<1>1. member[t].pc \notin Idle
  BY QuietFacts
<1>2. ~PosixTask(t) /\ ~WaitedTask(t)
  BY DEF PostInv, PosixTask, WaitedTask
<1> QED
  BY <1>1, <1>2 DEF PosixHandle, LoopAgain, EndTask, PosixWake, EndWaitedTask, Is, Idle

\* ... and what a thread does is one of these.
LEMMA PostNextInv ==
  ASSUME PosixInv, PosixInv', PostInv, [PosixNext]_posixVars
  PROVE  PostInv'
<1>1. CASE posix.tasks = 0 /\ \E t \in Members : PosixStep(t)
  <2>1. PICK t \in Members : PosixStep(t)
    BY <1>1
  <2> QED
    BY <1>1, <2>1, NoTaskSteps, ArrivePosts, LastPosts, CompletePosts, OthersPosts,
       UnlockPosts, SemWaitPosts, LookPosts, OutPosts, CancelPosts DEF PosixStep
<1>2. CASE posix.tasks = 0 /\ \E t \in Members : PosixTask(t) \/ WaitedTask(t) \/ PosixCancel(t)
  BY <1>2, NoTaskSteps, CancelPosts
<1>3. CASE PosixDestroy
  BY <1>3, PostFixed DEF PosixDestroy, PosixInv, Typed
<1>4. CASE UNCHANGED posixVars
  BY <1>4, PostFixed DEF posixVars
<1>5. CASE posix.tasks # 0 /\ \E t \in Members :
              PosixStep(t) \/ PosixTask(t) \/ WaitedTask(t) \/ PosixCancel(t)
  <2>1. posix' = posix
    BY <1>5 DEF PosixStep, PosixTask, WaitedTask, PosixCancel, PosixArrive, PosixLast,
       PosixComplete, PostOthers, AwaitOthers, SemWait, Look, CountOut, TellLast,
       PosixHandle, LoopAgain, EndTask, PosixWake, EndWaitedTask, CancelBarrier, CancelEnd
  <2> QED
    BY <1>5, <2>1 DEF PostInv
<1> QED
  BY <1>1, <1>2, <1>3, <1>4, <1>5 DEF PosixNext

\* At the beginning nobody waits and nothing is posted.
LEMMA PostStarts ==
  ASSUME PosixInit PROVE PostInv
<1>1. /\ counts.task = 0 /\ counts.queued = 0 /\ counts.created = 0
      /\ ~barrier.generation.pending /\ ~barrier.generation.waiting /\ barrier.sem1 = 0
      /\ \A t \in Members : member[t].pc = "user"
  BY DEF PosixInit, PosixBegins, Generation, NewMember
<1>2. /\ ~Released /\ \A t \in Members : ~Handling(t)
  BY <1>1 DEF Released, Handling, Is
<1> QED
  BY <1>1, <1>2 DEF PostInv, Is
-----------------------------------------------------------------------------
(* Who has left.                                                           *)

\* In a nested region without tasks a thread leaves behind the simple barrier, where
\* everybody is.
LEMMA LeftNested ==
  ASSUME PosixInv, posix.nested, NEW t \in Members,
         (AtSimple(t) /\ Is(t, "others")) \/ Is(t, "left")
  PROVE  /\ AtSimple(t)
         /\ \A s \in Members : AtSimple(s) /\ member[s].pc \in SimplePcs \cup {"user"}
<1>1. AtSimple(t)
  BY DEF PosixInv, PlaceOf
<1>2. Ended
  BY <1>1 DEF Ended, Is
<1>3. \A s \in Members : AtSimple(s)
  BY <1>2 DEF PosixInv, OverInv
<1> QED
  BY <1>1, <1>3 DEF PosixInv, PlaceOf

\* A step that brings nobody behind the final barrier keeps LeaveInv.
LEMMA LeaveOutside ==
  ASSUME PosixInv, PostInv, LeaveInv, NEW t \in Members, Moves(t, member'[t]),
         member[t].pc \notin Leaving,
         ~Is(t, "left")', ~(Is(t, "others")' /\ AtSimple(t)')
  PROVE  LeaveInv'
<1>1. /\ Members' = Members /\ posix' = posix
      /\ \A s \in Members : s # t => Same(s)
  BY MovesFrame DEF PosixInv, Moves
<1> SUFFICES ASSUME posix.tasks = 0, posix.nested,
                    NEW u \in Members, (AtSimple(u) /\ Is(u, "others"))' \/ Is(u, "left")'
             PROVE FALSE
  BY <1>1 DEF LeaveInv
<1>2. u # t
  OBVIOUS
<1>3. (AtSimple(u) /\ Is(u, "others")) \/ Is(u, "left")
  BY <1>1, <1>2 DEF Same, Is
<1>4. member[t].pc \in Leaving
  BY <1>3 DEF LeaveInv
<1> QED
  BY <1>4

\* A thread goes on behind the simple barrier.
LEMMA LeaveInside ==
  ASSUME PosixInv, PostInv, LeaveInv, NEW t \in Members, Moves(t, member'[t]),
         member[t].pc \in {"wait", "look", "leave", "tell"}, barrier'.mutex1 = barrier.mutex1,
         member'[t].pc \in {"look", "leave", "tell", "left", "user"},
         member'[t].pc \in {"user", "left"} =>
            /\ member[t].pc \in {"leave", "tell"} /\ barrier.mutex1
            /\ AtSimple(t) => member'[t].pc = "left"
            /\ member'[t].pc = "left" => AtSimple(t) \/ ~posix.nested
  PROVE  LeaveInv'
<1>1. /\ Members' = Members /\ posix' = posix
      /\ \A s \in Members : s # t => Same(s)
  BY MovesFrame DEF PosixInv, Moves
<1> SUFFICES ASSUME posix.tasks = 0, posix.nested, NEW u \in Members,
                    (AtSimple(u) /\ Is(u, "others"))' \/ Is(u, "left")'
             PROVE  /\ \A s \in Members : member'[s].pc \in Leaving
                    /\ barrier'.mutex1
  <2>1. posix'.tasks = 0 /\ posix'.nested => posix.tasks = 0 /\ posix.nested
    BY <1>1
  <2> QED
    BY <2>1, <1>1 DEF LeaveInv
<1>2. \E h \in Members : (AtSimple(h) /\ Is(h, "others")) \/ Is(h, "left")
  <2>1. CASE u # t
    BY <2>1, <1>1 DEF Same, Is
  <2>2. CASE u = t
    <3>1. Is(t, "left")' /\ AtSimple(t) /\ barrier.mutex1
      BY <2>2 DEF Is
    <3>2. Ended
      BY <3>1 DEF Ended, Is
    <3>3. PICK h \in Members : Holds(h)
      BY <3>1 DEF PosixInv, HoldInv
    <3>4. AtSimple(h) /\ ~AtCancellable(h)
      <4>1. AtSimple(h)
        BY <3>2 DEF PosixInv, OverInv
      <4> QED
        BY <4>1, MembersFinite DEF AtSimple, AtCancellable, PosixInv, Typed, Records
    <3>5. ~Is(h, "cancelled") /\ Last(h)
      BY <3>3, <3>4 DEF PosixInv, PlaceOf, Holds, Is
    <3>6. ~Is(h, "complete") /\ member[h].pc \in {"last", "complete", "post", "others"}
      <4>1. member[h].pc \in SimplePcs \cup {"user"}
        BY <3>4 DEF PosixInv, PlaceOf
      <4> QED
        BY <4>1, <3>5, QuietFacts DEF SimplePcs, Is
    <3>7. ~Is(h, "post")
      <4> SUFFICES ASSUME Is(h, "post") PROVE FALSE
        OBVIOUS
      <4>1. h = t \/ Is(t, "wait")
        BY DEF PostInv
      <4> QED
        BY <4>1, <2>2 DEF Is
    <3>8. ~Is(h, "last")
      <4> SUFFICES ASSUME Is(h, "last") PROVE FALSE
        OBVIOUS
      <4>1. CountInv
        BY QuietFacts
      <4>2. t = h \/ (Waits(t) /\ ~Is(t, "leave"))
        BY <4>1 DEF CountInv
      <4> QED
        BY <4>2, <3>1 DEF Is, Waits, Handling
    <3> QED
      BY <3>4, <3>6, <3>7, <3>8 DEF Is
  <2> QED
    BY <2>1, <2>2
<1>3. \A s \in Members : AtSimple(s) /\ member[s].pc \in Leaving
  BY <1>2, LeftNested DEF LeaveInv
<1>4. \A s \in Members : member'[s].pc \in Leaving
  BY <1>1, <1>3 DEF Same, Leaving
<1>5. barrier.mutex1
  <2> SUFFICES ASSUME ~barrier.mutex1 PROVE FALSE
    OBVIOUS
  <2>1. \A h \in Members : ~Is(h, "others")
    BY DEF PosixInv, HoldInv, Holds, Last, Is
  <2>2. Is(t, "left")
    BY <2>1, <1>2 DEF LeaveInv
  <2> QED
    BY <2>2 DEF Is
<1> QED
  BY <1>4, <1>5

\* When the last thread of the simple barrier posts, all wait in it.
LEMMA PostOthersLeave ==
  ASSUME PosixInv, PosixInv', PostInv, LeaveInv, posix.tasks = 0, NEW t \in Members,
         PostOthers(t)
  PROVE  LeaveInv'
<1>1. /\ member'[t].pc = "others" /\ Moves(t, member'[t])
      /\ \A s \in Members : s = t \/ Is(s, "wait")
  BY OthersPosts
<1>2. /\ Members' = Members /\ posix' = posix
      /\ \A s \in Members : s # t => Same(s)
  BY <1>1, MovesFrame DEF PosixInv, Moves
<1>3. \A s \in Members' : member'[s].pc \in Leaving
  BY <1>1, <1>2 DEF Same, Leaving, Is
<1>4. barrier'.mutex1
  <2>1. Holds(t)'
    BY <1>1 DEF Holds, Last, Is
  <2> QED
    BY <2>1, <1>2 DEF PosixInv, HoldInv
<1> QED
  BY <1>3, <1>4 DEF LeaveInv

\* When it has unlocked, all have left.
LEMMA AwaitOthersLeave ==
  ASSUME PosixInv, PosixInv', PostInv, LeaveInv, posix.tasks = 0, NEW t \in Members,
         AwaitOthers(t)
  PROVE  LeaveInv'
<1>0. Is(t, "others") /\ GoOut(t) /\ posix' = posix
  BY DEF AwaitOthers
<1>1. /\ Moves(t, member'[t]) /\ member'[t].pc \in {"user", "left"}
      /\ member'[t].pc = "left" => AtSimple(t) \/ ~posix.nested
      /\ AtSimple(t) => member'[t].pc = "left"
      /\ \A s \in Members : s # t => ~Inside(s)
  BY <1>0, GoesOut, UnlockPosts
<1>2. /\ Members' = Members
      /\ \A s \in Members : s # t => Same(s)
  BY <1>1, MovesFrame DEF PosixInv
<1> SUFFICES ASSUME posix.nested, NEW u \in Members,
                    (AtSimple(u) /\ Is(u, "others"))' \/ Is(u, "left")'
             PROVE  \A s \in Members : member'[s].pc = "left"
  <2>1. \A s \in Members : member'[s].pc = "left" => member'[s].pc \in Leaving
    BY DEF Leaving
  <2> QED
    BY <2>1, <1>0, <1>2 DEF LeaveInv, Is
<1>3. AtSimple(t)
  <2>1. CASE u = t
    BY <2>1, <1>1 DEF Is
  <2>2. CASE u # t
    <3>1. (AtSimple(u) /\ Is(u, "others")) \/ Is(u, "left")
      BY <2>2, <1>2 DEF Same, Is
    <3> QED
      BY <3>1, LeftNested
  <2> QED
    BY <2>1, <2>2
<1>4. \A s \in Members : member[s].pc \in Leaving
  BY <1>0, <1>3 DEF LeaveInv
<1>5. \A s \in Members : s # t => member[s].pc = "left"
  BY <1>1, <1>4 DEF Leaving, Inside, Waits, Last, Is
<1> QED
  BY <1>1, <1>2, <1>3, <1>5 DEF Same

\* Every step keeps LeaveInv.
LEMMA LeaveNextInv ==
  ASSUME PosixInv, PosixInv', PostInv, LeaveInv, [PosixNext]_posixVars
  PROVE  LeaveInv'
<1>1. CASE UNCHANGED <<posix, member>> /\ barrier'.mutex1 = barrier.mutex1
  <2>1. Members' = Members
    BY <1>1 DEF Members
  <2> QED
    BY <2>1, <1>1 DEF LeaveInv, AtSimple, Is
<1>2. ASSUME posix.tasks = 0, NEW t \in Members, PosixStep(t) \/ PosixCancel(t)
      PROVE  LeaveInv'
  <2>1. CASE PosixArrive(t)
    <3>1. member[t].pc = "user"
      BY <2>1 DEF PosixArrive, Is
    <3> QED
      BY <3>1, <2>1, <1>2, ArrivePosts, LeaveOutside DEF Is, Leaving
  <2>2. CASE PosixLast(t)
    <3>1. member[t].pc = "last"
      BY <2>2 DEF PosixLast, Is
    <3> QED
      BY <3>1, <2>2, <1>2, LastPosts, LeaveOutside DEF Is, Leaving
  <2>3. CASE PosixComplete(t)
    <3>1. member[t].pc = "complete"
      BY <2>3 DEF PosixComplete, Is
    <3> QED
      BY <3>1, <2>3, <1>2, CompletePosts, LeaveOutside DEF Is, Leaving
  <2>4. CASE PostOthers(t)
    BY <2>4, <1>2, PostOthersLeave
  <2>5. CASE AwaitOthers(t)
    BY <2>5, <1>2, AwaitOthersLeave
  <2>6. CASE SemWait(t)
    <3>1. member[t].pc = "wait" /\ barrier'.mutex1 = barrier.mutex1
      BY <2>6 DEF SemWait, Is, PosixInv, Typed
    <3> QED
      BY <3>1, <2>6, <1>2, SemWaitPosts, LeaveInside
  <2>7. CASE Look(t)
    <3>1. member[t].pc \in {"look", "lookagain"} /\ barrier'.mutex1 = barrier.mutex1
      BY <2>7 DEF Look
    <3>2. member[t].pc = "look"
      BY <3>1, <1>2, QuietFacts DEF Idle
    <3> QED
      BY <3>1, <3>2, <2>7, <1>2, LookPosts, LeaveInside
  <2>8. CASE CountOut(t) \/ TellLast(t)
    <3>1. /\ member[t].pc \in {"leave", "tell"} /\ barrier'.mutex1 = barrier.mutex1
          /\ posix' = posix
          /\ GoOut(t) \/ Proceed(t, "tell")
      BY <2>8 DEF CountOut, TellLast, Is, PosixInv, Typed
    <3>2. barrier.mutex1
      BY <3>1, <1>2, QuietFacts DEF CountInv
    <3>3. Moves(t, member'[t]) /\ member'[t].pc \in {"tell", "user", "left"}
      BY <2>8, <1>2, OutPosts
    <3>4. CASE GoOut(t)
      <4>1. /\ AtSimple(t) => member'[t].pc = "left"
            /\ member'[t].pc = "left" => AtSimple(t) \/ ~posix.nested
        BY <3>1, <3>4, GoesOut
      <4> QED
        BY <3>1, <3>2, <3>3, <4>1, LeaveInside
    <3>5. CASE Proceed(t, "tell")
      <4>1. member'[t].pc = "tell"
        BY <3>5 DEF Proceed, PosixInv, Typed, Records
      <4> QED
        BY <3>1, <3>3, <4>1, LeaveInside
    <3> QED
      BY <3>1, <3>4, <3>5
  <2>9. CASE CancelBarrier(t) \/ PosixCancel(t)
    <3>1. member[t].pc \in {"user", "cancel"}
      BY <2>9 DEF CancelBarrier, PosixCancel, Is
    <3> QED
      BY <3>1, <2>9, <1>2, CancelPosts, LeaveOutside DEF Is, Leaving
  <2>10. CASE CancelEnd(t)
    <3>1. member[t].pc = "cancelled" /\ JumpToFinal(t)
      BY <2>10 DEF CancelEnd, Is
    <3>2. member'[t].pc = "user"
      <4>1. ToEnd(member[t]).pc = "user"
        BY ToEndFields DEF PosixInv
      <4> QED
        BY <3>1, <4>1 DEF JumpToFinal, PosixInv, Typed
    <3> QED
      BY <3>1, <3>2, <2>10, <1>2, UnlockPosts, LeaveOutside DEF Is, Leaving
  <2> QED
    BY <1>2, <2>1, <2>2, <2>3, <2>4, <2>5, <2>6, <2>7, <2>8, <2>9, <2>10, NoTaskSteps
       DEF PosixStep
<1>3. CASE posix.tasks # 0 /\ posix' = posix
  BY <1>3 DEF LeaveInv
<1>4. CASE PosixDestroy
  BY <1>1, <1>4 DEF PosixDestroy, PosixInv, Typed
<1>5. CASE UNCHANGED posixVars
  BY <1>1, <1>5 DEF posixVars
<1>6. ASSUME NEW t \in Members, PosixStep(t) \/ PosixTask(t) \/ WaitedTask(t) \/ PosixCancel(t)
      PROVE  posix' = posix
  BY <1>6 DEF PosixStep, PosixTask, WaitedTask, PosixCancel, PosixArrive, PosixLast,
       PosixComplete, PostOthers, AwaitOthers, SemWait, Look, CountOut, TellLast,
       PosixHandle, LoopAgain, EndTask, PosixWake, EndWaitedTask, CancelBarrier, CancelEnd
<1> QED
  BY <1>2, <1>3, <1>4, <1>5, <1>6, NoTaskSteps DEF PosixNext
-----------------------------------------------------------------------------
(* Who has left does nothing more, nor does anybody move another thread.   *)
LEMMA MovesAlone ==
  ASSUME Typed, NEW t \in Members,
         PosixStep(t) \/ PosixTask(t) \/ WaitedTask(t) \/ PosixCancel(t)
  PROVE  /\ posix' = posix /\ barrier'.freed = barrier.freed /\ ~Is(t, "left")
         /\ \A s \in Members : s # t => member'[s] = member[s]
<1> USE DEF Typed
<1>1. CASE PosixArrive(t)
  BY <1>1 DEF PosixArrive, JumpToFinal, Is
<1>2. CASE PosixLast(t) \/ PosixComplete(t) \/ PostOthers(t)
  BY <1>2 DEF PosixLast, PosixComplete, PostOthers, Proceed, Is
<1>3. CASE AwaitOthers(t) \/ CountOut(t) \/ TellLast(t)
  BY <1>3 DEF AwaitOthers, CountOut, TellLast, GoOut, Proceed, Is
<1>4. CASE SemWait(t) \/ Look(t)
  BY <1>4 DEF SemWait, Look, Proceed, Is
<1>5. ASSUME NEW c, NEW g, TakeTask(t, c, g)
      PROVE  /\ barrier'.freed = barrier.freed
             /\ \A s \in Members : s # t => member'[s] = member[s]
  <2>1. \/ \E x : barrier' = [barrier EXCEPT !.generation = x]
        \/ \E x, then : PosixDone(t, then)
    BY <1>5 DEF TakeTask
  <2>2. (\E p : Proceed(t, p)) \/ (\E then : PosixDone(t, then))
    BY <1>5 DEF TakeTask
  <2> QED
    BY <2>1, <2>2 DEF PosixDone, Proceed
<1>6. CASE PosixHandle(t)
  <2>1. ~Is(t, "left") /\ posix' = posix
    BY <1>6 DEF PosixHandle, Is
  <2>2. PosixDone(t, "others") \/ \E c, g : TakeTask(t, c, g)
    BY <1>6 DEF PosixHandle
  <2> QED
    BY <2>1, <2>2, <1>5 DEF PosixDone
<1>7. CASE LoopAgain(t) \/ EndTask(t)
  <2>1. ~Is(t, "left") /\ posix' = posix
    BY <1>7 DEF LoopAgain, EndTask, Is
  <2>2. PosixDone(t, "top") \/ \E c, g : TakeTask(t, c, g)
    BY <1>7 DEF LoopAgain, EndTask
  <2> QED
    BY <2>1, <2>2, <1>5 DEF PosixDone
<1>8. CASE PosixWake(t) \/ EndWaitedTask(t)
  BY <1>8 DEF PosixWake, EndWaitedTask, Proceed, Is
<1>9. CASE CancelBarrier(t)
  <2>1. \/ barrier' = barrier
        \/ \E w, x : barrier' = [barrier EXCEPT !.generation.cancelled = TRUE,
                         !.mutex1 = w, !.cancellable = FALSE, !.sem1 = x]
    BY <1>9 DEF CancelBarrier
  <2>2. JumpToFinal(t) \/ Proceed(t, "cancelled")
    BY <1>9 DEF CancelBarrier
  <2>3. ~Is(t, "left") /\ posix' = posix
    BY <1>9 DEF CancelBarrier, Is
  <2> QED
    BY <2>1, <2>2, <2>3 DEF JumpToFinal, Proceed
<1>10. CASE CancelEnd(t) \/ PosixCancel(t)
  BY <1>10 DEF CancelEnd, PosixCancel, JumpToFinal, Proceed, Is
<1>11. CASE PosixTask(t) \/ WaitedTask(t)
  <2>1. \E x : barrier' = [barrier EXCEPT !.generation.pending = x]
    BY <1>11 DEF PosixTask, WaitedTask
  <2>2. ~Is(t, "left") /\ posix' = posix
    BY <1>11 DEF PosixTask, WaitedTask, Is
  <2>3. \A s \in Members : s # t => member'[s] = member[s]
    BY <1>11 DEF PosixTask, WaitedTask, Proceed
  <2> QED
    BY <2>1, <2>2, <2>3
<1> QED
  BY <1>1, <1>2, <1>3, <1>4, <1>6, <1>7, <1>8, <1>9, <1>10, <1>11 DEF PosixStep

\* The team is freed by its master, when it has left and mutex1 is free.
LEMMA FreedNextInv ==
  ASSUME PosixInv, LeaveInv, FreedInv, [PosixNext]_posixVars
  PROVE  FreedInv'
<1>1. ASSUME NEW t \in Members,
             PosixStep(t) \/ PosixTask(t) \/ WaitedTask(t) \/ PosixCancel(t)
      PROVE  FreedInv'
  <2>1. /\ posix' = posix /\ barrier'.freed = barrier.freed /\ ~Is(t, "left")
        /\ \A s \in Members : s # t => member'[s] = member[s]
    BY <1>1, MovesAlone DEF PosixInv
  <2>2. Members' = Members /\ 0 \in Members
    BY <2>1, MembersFinite DEF Members, PosixInv
  <2>3. barrier.freed /\ posix.tasks = 0 => FALSE
    BY <2>1 DEF FreedInv
  <2> QED
    BY <2>1, <2>2, <2>3 DEF FreedInv, Is
<1>2. CASE PosixDestroy
  <2>1. /\ Is(0, "left") /\ posix.nested /\ ~barrier.mutex1 /\ 0 \in Members
        /\ UNCHANGED <<posix, member>>
    BY <1>2, MembersFinite DEF PosixDestroy, MayDestroy, PosixInv
  <2>2. posix.tasks = 0 => \A t \in Members : Is(t, "left")
    BY <2>1 DEF LeaveInv
  <2> QED
    BY <2>1, <2>2 DEF FreedInv, Is, Members
<1>3. CASE UNCHANGED posixVars
  BY <1>3 DEF posixVars, FreedInv, Is, Members
<1> QED
  BY <1>1, <1>2, <1>3 DEF PosixNext
-----------------------------------------------------------------------------
PosixSafe == PosixInv /\ PostInv /\ LeaveInv /\ FreedInv

(* In every state of the barriers of systems without futexes who is in     *)
(* which barrier, who keeps mutex1, what arrived and the semaphores count  *)
(* and what the flags of the generation say agree.                         *)
THEOREM PosixBarrierSafe == PosixSpec => []PosixSafe
<1>1. PosixInit => PosixSafe
  <2> SUFFICES ASSUME PosixInit PROVE PosixSafe
    OBVIOUS
  <2>1. PosixInv /\ PostInv
    BY PosixStarts, PostStarts
  <2>2. ~barrier.freed /\ \A t \in Members : member[t].pc = "user"
    BY DEF PosixInit, PosixBegins, NewMember
  <2>3. LeaveInv /\ FreedInv
    BY <2>2 DEF LeaveInv, FreedInv, Is
  <2> QED
    BY <2>1, <2>3 DEF PosixSafe
<1>2. PosixSafe /\ [PosixNext]_posixVars => PosixSafe'
  BY PosixNextInv, PostNextInv, LeaveNextInv, FreedNextInv DEF PosixSafe
<1> QED
  BY <1>1, <1>2, PTL DEF PosixSpec

(* A barrier completes once, when all threads are in it, in the same one,  *)
(* and no task is left.                                                    *)
THEOREM BarrierCompletes == PosixSpec => PosixBarrierCompletes
<1>1. PosixSafe /\ [PosixNext]_posixVars =>
        [barrier'.generation.n # barrier.generation.n => CompletesNow]_posixVars
  BY PosixNextInv DEF PosixSafe
<1>2. PosixSafe /\ [PosixNext]_posixVars =>
        [barrier'.generation.n # barrier.generation.n =>
          /\ barrier'.generation.n = barrier.generation.n + 1
          /\ \A t \in Members : /\ InPosixBarrier(t) /\ InPosixBarrier(t)'
                                /\ member[t].n = barrier.generation.n
          /\ \A s, t \in Members : AtFinal(s) => AtFinal(t)
          /\ counts'.task = 0]_posixVars
  BY <1>1 DEF CompletesNow
<1> QED
  BY <1>2, PosixBarrierSafe, PTL DEF PosixSpec, PosixBarrierCompletes

(* The barrier of a nested team is destroyed when everybody has left it,   *)
(* if the region creates no tasks or is of one thread.                     *)
THEOREM DestroyedInTime ==
  ASSUME \A r \in PosixRegions : r.nested /\ r.size > 1 => r.tasks = 0
  PROVE  PosixSpec => []DestroyedWhenLeft
<1>1. PosixSafe => DestroyedWhenLeft
  <2> SUFFICES ASSUME PosixSafe, barrier.freed, NEW t \in Members PROVE Is(t, "left")
    BY DEF DestroyedWhenLeft
  <2>1. /\ Is(0, "left") /\ posix.nested
        /\ posix.tasks = 0 => \A s \in Members : Is(s, "left")
    BY DEF PosixSafe, FreedInv
  <2>2. posix \in PosixRegions /\ posix.size \in Nat \ {0}
    BY MembersFinite DEF PosixSafe, PosixInv, Typed
  <2>3. CASE posix.size > 1
    BY <2>1, <2>2, <2>3
  <2>4. CASE ~(posix.size > 1)
    <3>1. t = 0
      BY <2>2, <2>4 DEF Members
    <3> QED
      BY <2>1, <3>1
  <2> QED
    BY <2>3, <2>4
<1> QED
  BY <1>1, PosixBarrierSafe, PTL
=============================================================================
