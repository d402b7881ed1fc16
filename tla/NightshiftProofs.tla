-------------------------- MODULE NightshiftProofs --------------------------
(***************************************************************************)
(* What Nightshift's run checks on eleven directories, for any number of   *)
(* models, sessions, nights and signals: what a night decides by is        *)
(* evidence, no night undoes or repeats the work of an earlier one, why a  *)
(* night stopped and how it exited agree with its items, and a night that  *)
(* nobody stopped leaves nothing out.                                      *)
(***************************************************************************)
EXTENDS Nightshift, TLAPS, FiniteSetTheorems, WellFoundedInduction

Busy == Trying \ {"loop"}

\* A queue holds what it is named for; only resumed work has a directory.
QueueOK(q, p, ss) ==
    /\ q \in Seq(Items)
    /\ \A k \in DOMAIN q :
        /\ q[k].kind = p
        /\ IF p = "resume" THEN q[k].session \in DOMAIN ss ELSE q[k].session = 0

QueueInv == \A p \in PhaseNames : QueueOK(queue[p], p, sessions)

\* The item at hand is the one the position points at, and of the right kind.
ItemInv ==
    /\ pc \in Busy => pos >= 1 /\ item = Queue[pos]
    /\ pc \in {"preparing", "tuning", "tuned"} => item.kind \in TuneClass
    /\ pc = "calibrating" => item.kind = "calibrate"
    /\ pc = "preparing" => session = item.session

\* A running child has the directory of its model to itself, unfinished.
ChildInv ==
    pc = "tuning" =>
        /\ session \in DOMAIN sessions
        /\ ~Done(sessions[session])
        /\ sessions[session].model = item.model
        /\ item.kind = "resume" => session = item.session

\* Every reference of the snapshot is there, completed, with its context.
Backed(m) ==
    /\ records[m] \in DOMAIN sessions
    /\ sessions[records[m]].model = m /\ Done(sessions[records[m]]) /\ sessions[records[m]].ctx

RecordsInv == pc \in Trying => \A m \in DOMAIN records : Backed(m)

\* Position k of the queue of a phase has not been worked on.
Pending(i, k) ==
    \/ phase < i
    \/ phase = i /\ k > pos
    \/ phase = i /\ k = pos /\ pc \in {"picked", "preparing"}

\* All there is of a model is completed, the newest of it without the context.
FirstOf(m) ==
    LET own == {i \in DOMAIN sessions : sessions[i].model = m}
    IN  /\ \A i \in own : Done(sessions[i])
        /\ own # {} => ~sessions[Max(own)].ctx

\* What a plan says of a directory or a model is still true when its turn comes.
PlanInv ==
    pc \in Trying =>
        /\ \A k \in DOMAIN queue["resume"] :
            LET q == queue["resume"]
            IN  /\ Pending(1, k) => ~Done(sessions[q[k].session])
                /\ sessions[q[k].session].model = q[k].model
                /\ \A l \in DOMAIN q : q[l].session = q[k].session => l = k
        /\ \A k \in DOMAIN queue["tune"] :
            LET q == queue["tune"]
            IN  /\ Pending(2, k) => FirstOf(q[k].model)
                /\ \A l \in DOMAIN q : q[l].model = q[k].model => l = k

\* The records, the flags and the exit code.
OutcomeInv ==
    /\ ~failed => \A k \in DOMAIN items : items[k].outcome \notin {"failed", "error"}
    /\ pc = "ended" => exit = IF Interrupted THEN 4 ELSE IF failed THEN 1 ELSE 0

Distinct(x, y, z) == x # y /\ y # z /\ x # z

\* failures are the models of the streak, each different from the next; the last
\* of them is that of the last failure, the one before that of the failure
\* before, unless it is the same.
FailuresFollow ==
    /\ \A i \in DOMAIN failures : failures[i] \in ModelsOf(Streak)
    /\ \A b \in Streak : (\A k \in Streak : k <= b) =>
        /\ failures # <<>> /\ failures[Len(failures)] = items[b].model
        /\ \A a \in Streak :
            a < b /\ (\A k \in Streak : k <= a \/ k = b) /\ items[a].model # items[b].model =>
                Len(failures) >= 2 /\ failures[Len(failures) - 1] = items[a].model
    /\ \A a, b, c \in Streak :
        InARow(a, b, c) => ~Distinct(items[a].model, items[b].model, items[c].model)

ThreeModels == \E a, b, c \in Streak : Distinct(items[a].model, items[b].model, items[c].model)

Going == Trying \cup {"finalizing"}

BreakerInv ==
    /\ pc \in Going /\ ~stop => FailuresFollow
    /\ pc \in Going \cup {"ended"} /\ stop /\ ~Interrupted =>
        pc \in {"loop", "finalizing", "ended"} /\ ThreeModels

Inv ==
    /\ TypeOK
    /\ QueueInv
    /\ ItemInv
    /\ ChildInv
    /\ RecordsInv
    /\ PlanInv
    /\ OutcomeInv
    /\ BreakerInv

----------------------------------------------------------------------------
(* A non-empty set of numbers has a smallest.                              *)
LEMMA SmallestOf ==
    ASSUME NEW B \in SUBSET Nat, B # {}
    PROVE  \E m \in B : \A x \in B : m <= x
<1>1. PICK m \in B : \A x \in B : ~(<<x, m>> \in OpToRel(<, Nat))
  BY NatLessThanWellFounded, WFMin
<1>2. ASSUME NEW x \in B
      PROVE  m <= x
  <2>1. x \in Nat /\ m \in Nat /\ ~(<<x, m>> \in OpToRel(<, Nat))
    BY <1>1
  <2>2. ~(x < m)
    BY <2>1 DEF OpToRel
  <2>3. x \in Nat /\ m \in Nat => x < m \/ m <= x
    OBVIOUS
  <2>4. QED
    BY <2>1, <2>2, <2>3
<1>3. QED
  BY <1>2

(* Max of a non-empty set of positions is its largest.                     *)
LEMMA MaxIsLargest ==
    ASSUME NEW n \in Nat, NEW S \in SUBSET (1..n), S # {}
    PROVE  Max(S) \in S /\ \A x \in S : x <= Max(S)
<1> DEFINE B == {n - x : x \in S}
<1>1. B \in SUBSET Nat /\ B # {}
  <2>1. \A x \in S : n - x \in Nat
    OBVIOUS
  <2>2. QED
    BY <2>1
<1>2. PICK m \in B : \A x \in B : m <= x
  <2> HIDE DEF B
  <2>1. QED
    BY <1>1, SmallestOf
<1>3. PICK k \in S : m = n - k
  BY <1>2
<1>4. ASSUME NEW x \in S
      PROVE  k >= x
  <2>1. n - x \in B
    OBVIOUS
  <2>2. n - k <= n - x
    BY <1>2, <1>3, <2>1
  <2>3. QED
    BY <2>2
<1>5. Max(S) \in S /\ \A x \in S : Max(S) >= x
  BY <1>4 DEF Max
<1>6. QED
  BY <1>5

Increasing(q) == \A i, j \in DOMAIN q : i < j => q[i] < q[j]

\* Finite sets of n numbers can be put in order.
Orders(n) ==
    \A S \in SUBSET Nat : IsFiniteSet(S)
    /\ Cardinality(S) = n => \E q \in [1..n -> S] : Increasing(q)

(* Every finite set of numbers can be put in order, by the smallest size   *)
(* for which one cannot.                                                   *)
LEMMA AllOrder == \A n \in Nat : Orders(n)
<1> SUFFICES ASSUME {n \in Nat : ~Orders(n)} # {}
             PROVE  FALSE
  OBVIOUS
<1>1. PICK m \in Nat : ~Orders(m) /\ \A n \in Nat : ~Orders(n) => m <= n
  <2>1. {n \in Nat : ~Orders(n)} \in SUBSET Nat
    OBVIOUS
  <2>2. PICK m \in {n \in Nat : ~Orders(n)} : \A x \in {n \in Nat : ~Orders(n)} : m <= x
    BY <2>1, SmallestOf
  <2>3. QED
    BY <2>2
<1>2. PICK S \in SUBSET Nat :
          IsFiniteSet(S) /\ Cardinality(S) = m /\ ~\E q \in [1..m -> S] : Increasing(q)
  BY <1>1 DEF Orders
<1>3. CASE m = 0
  <2>1. 1..m = {}
    BY <1>3
  <2>2. [x \in 1..m |-> 0] \in [1..m -> S] /\ Increasing([x \in 1..m |-> 0])
    BY <2>1 DEF Increasing
  <2>3. QED
    BY <1>2, <2>2
<1>4. CASE m # 0
  <2>1. S # {} /\ m - 1 \in Nat
    BY <1>2, <1>4, FS_EmptySet
  <2>2. PICK b \in S : \A x \in S : b <= x
    BY <2>1, SmallestOf
  <2>3. IsFiniteSet(S \ {b}) /\ Cardinality(S \ {b}) = m - 1 /\ S \ {b} \in SUBSET Nat
    BY <1>2, FS_RemoveElement
  <2>4. Orders(m - 1)
    BY <1>1, <2>1
  <2>5. PICK q \in [1..(m - 1) -> S \ {b}] : Increasing(q)
    BY <2>3, <2>4 DEF Orders
  <2> DEFINE r == [k \in 1..m |-> IF k = 1 THEN b ELSE q[k - 1]]
  <2>6. ASSUME NEW k \in 1..m, k # 1
        PROVE  k - 1 \in 1..(m - 1) /\ q[k - 1] \in S \ {b}
    BY <2>6
  <2>7. r \in [1..m -> S]
    BY <2>6
  <2>8. ASSUME NEW i \in 1..m, NEW j \in 1..m, i < j
        PROVE  r[i] < r[j]
    <3>1. j # 1 /\ r[j] = q[j - 1] /\ j - 1 \in 1..(m - 1) /\ q[j - 1] \in S \ {b}
      BY <2>6, <2>8
    <3>2. CASE i = 1
      <4>1. r[i] = b /\ b <= q[j - 1] /\ b # q[j - 1] /\ b \in Nat /\ q[j - 1] \in Nat
        BY <2>2, <3>1, <3>2
      <4>2. QED
        BY <3>1, <4>1
    <3>3. CASE i # 1
      <4>1. r[i] = q[i - 1] /\ i - 1 \in DOMAIN q /\ j - 1 \in DOMAIN q /\ i - 1 < j - 1
        BY <2>6, <2>8, <3>1, <3>3
      <4>2. QED
        BY <2>5, <3>1, <4>1 DEF Increasing
    <3>4. QED
      BY <3>2, <3>3
  <2>9. Increasing(r)
    BY <2>7, <2>8 DEF Increasing
  <2>10. QED
    BY <1>2, <2>7, <2>9
<1>5. QED
  BY <1>3, <1>4

(* So Ascending is what it is named for: a sequence of the members, none   *)
(* twice.                                                                  *)
LEMMA AscendingFacts ==
    ASSUME NEW S \in SUBSET Nat, IsFiniteSet(S)
    PROVE  /\ Cardinality(S) \in Nat /\ Ascending(S) \in [1..Cardinality(S) -> S]
           /\ DOMAIN Ascending(S) = 1..Cardinality(S)
           /\ \A i \in 1..Cardinality(S) : Ascending(S)[i] \in S
           /\ \A i, j \in 1..Cardinality(S) : Ascending(S)[i] = Ascending(S)[j] => i = j
<1>1. Cardinality(S) \in Nat
  BY FS_CardinalityType
<1>2. \E q \in [1..Cardinality(S) -> S] : \A i, j \in DOMAIN q : i < j => q[i] < q[j]
  BY <1>1, AllOrder DEF Orders, Increasing
<1>3. /\ Ascending(S) \in [1..Cardinality(S) -> S]
      /\ \A i, j \in DOMAIN Ascending(S) : i < j => Ascending(S)[i] < Ascending(S)[j]
  BY <1>2, Zenon DEF Ascending
<1>4. ASSUME NEW i \in 1..Cardinality(S), NEW j \in 1..Cardinality(S),
             Ascending(S)[i] = Ascending(S)[j]
      PROVE  i = j
  <2>1. Ascending(S)[i] \in Nat /\ DOMAIN Ascending(S) = 1..Cardinality(S)
    BY <1>3
  <2>2. ~(i < j) /\ ~(j < i)
    BY <1>3, <1>4, <2>1
  <2>3. QED
    BY <1>1, <2>2
<1>5. QED
  BY <1>1, <1>3, <1>4

----------------------------------------------------------------------------
(* What the assumptions on the constants say of one world.                 *)
LEMMA WorldFacts ==
    ASSUME world \in Worlds
    PROVE  /\ world.found \in SUBSET Models /\ world.rep \in [Models -> Models]
           /\ world.deadline \in BOOLEAN /\ world.deepens \in BOOLEAN
           /\ world.sessions \in Seq(Session)
           /\ world.time \in Nat /\ world.nights \in Nat /\ world.signals \in Nat
           /\ NumModels \in Nat /\ 1 \in Models /\ Models \in SUBSET Nat
BY WorldsAssumption, BoundsAssumption DEF World, Models

(* A function on 1..n is a sequence.                                       *)
LEMMA FunctionIsSeq ==
    ASSUME NEW n \in Nat, NEW T, NEW f \in [1..n -> T]
    PROVE  f \in Seq(T) /\ Len(f) = n /\ DOMAIN f = 1..n
OBVIOUS

(* Items of the plan are well-typed.                                       *)
LEMMA ItemFacts ==
    ASSUME NEW k \in Kinds, NEW m \in Models, NEW i \in Nat, NEW r \in Models
    PROVE  /\ Item(k, m, i, r) \in Items
           /\ Item(k, m, i, r).kind = k /\ Item(k, m, i, r).model = m
           /\ Item(k, m, i, r).session = i /\ Item(k, m, i, r).ref = r
BY DEF Item, Items

(* The registry refers to completed sessions of its models, with the       *)
(* context.                                                                *)
LEMMA RegistryFacts ==
    ASSUME world \in Worlds, NEW ss \in Seq(Session)
    PROVE  /\ DOMAIN Registry(ss) \in SUBSET Models
           /\ \A m \in DOMAIN Registry(ss) :
                /\ Registry(ss)[m] \in DOMAIN ss /\ ss[Registry(ss)[m]].model = m
                /\ Done(ss[Registry(ss)[m]]) /\ ss[Registry(ss)[m]].ctx
           /\ References(ss) \in SUBSET (1..Len(ss))
<1>1. ASSUME NEW m, Evidence(ss, m) # {}
      PROVE  Max(Evidence(ss, m)) \in Evidence(ss, m)
  <2>1. Evidence(ss, m) \in SUBSET (1..Len(ss)) /\ Len(ss) \in Nat
    BY DEF Evidence
  <2>2. QED
    BY <1>1, <2>1, MaxIsLargest
<1>2. \A m \in DOMAIN Registry(ss) :
          /\ Registry(ss)[m] = Max(Evidence(ss, m)) /\ Evidence(ss, m) # {}
          /\ ss[Max(Evidence(ss, m))].ctx /\ m \in world.found
  BY DEF Registry
<1>3. \A m \in DOMAIN Registry(ss) : Registry(ss)[m] \in Evidence(ss, m) /\ ss[Registry(ss)[m]].ctx
  BY <1>1, <1>2
<1>4. \A m \in DOMAIN Registry(ss) :
          /\ Registry(ss)[m] \in DOMAIN ss /\ ss[Registry(ss)[m]].model = m
          /\ Done(ss[Registry(ss)[m]]) /\ ss[Registry(ss)[m]].ctx
  BY <1>3 DEF Evidence
<1>5. DOMAIN Registry(ss) \in SUBSET Models
  BY <1>2, WorldFacts
<1>6. References(ss) \in SUBSET (1..Len(ss))
  <2>1. DOMAIN ss = 1..Len(ss)
    OBVIOUS
  <2>2. QED
    BY <1>4, <2>1 DEF References
<1>7. QED
  BY <1>4, <1>5, <1>6

(* AscendingFacts for a set of positions.                                  *)
LEMMA Ordered ==
    ASSUME NEW n \in Nat, NEW S \in SUBSET (1..n)
    PROVE  /\ Cardinality(S) \in Nat /\ DOMAIN Ascending(S) = 1..Cardinality(S)
           /\ \A i \in DOMAIN Ascending(S) : Ascending(S)[i] \in S
           /\ \A i, j \in DOMAIN Ascending(S) : Ascending(S)[i] = Ascending(S)[j] => i = j
<1>1. IsFiniteSet(1..n) /\ S \in SUBSET Nat
  BY FS_Interval
<1>2. IsFiniteSet(S)
  BY <1>1, FS_Subset
<1>3. QED
  BY <1>1, <1>2, AscendingFacts

(* The resumptions of a plan: each an unfinished directory, none twice.    *)
LEMMA ResumesFacts ==
    ASSUME world \in Worlds, NEW ss \in Seq(Session)
    PROVE  /\ QueueOK(Resumes(ss), "resume", ss)
           /\ \A k \in DOMAIN Resumes(ss) :
                /\ ~Done(ss[Resumes(ss)[k].session])
                /\ ss[Resumes(ss)[k].session].model = Resumes(ss)[k].model
                /\ \A l \in DOMAIN Resumes(ss) :
                    Resumes(ss)[l].session = Resumes(ss)[k].session => l = k
<1> DEFINE U == Unfinished(ss)
           q == Ascending(U)
           n == Cardinality(U)
<1>1. Len(ss) \in Nat /\ U \in SUBSET (1..Len(ss)) /\ DOMAIN ss = 1..Len(ss)
  BY DEF Unfinished
<1>2. /\ n \in Nat /\ DOMAIN q = 1..n /\ \A i \in 1..n : q[i] \in U
      /\ \A i, j \in 1..n : q[i] = q[j] => i = j
  <2>1. n \in Nat /\ DOMAIN q = 1..n /\ \A i \in 1..n : q[i] \in U
    BY <1>1, Ordered
  <2>2. ASSUME NEW i \in 1..n, NEW j \in 1..n, q[i] = q[j]
        PROVE  i = j
    BY <1>1, <2>1, <2>2, Ordered
  <2>3. QED
    BY <2>1, <2>2
<1>3. ASSUME NEW k \in 1..n
      PROVE  /\ q[k] \in DOMAIN ss /\ q[k] \in Nat /\ ss[q[k]].model \in Models /\ ~Done(ss[q[k]])
             /\ 1 \in Models /\ "resume" \in Kinds
  BY <1>1, <1>2, WorldFacts DEF Unfinished, Incomplete, Kinds, TuneClass, Session
<1> DEFINE it(k) == Item("resume", ss[q[k]].model, q[k], 1)
<1>4. ASSUME NEW k \in 1..n
      PROVE  /\ it(k) \in Items /\ it(k).kind = "resume" /\ it(k).session = q[k]
             /\ it(k).model = ss[q[k]].model
  BY <1>3, ItemFacts
<1>5. Resumes(ss) = [k \in 1..n |-> it(k)]
  BY <1>2 DEF Resumes
<1> HIDE DEF it, n, q, U
<1>6. Resumes(ss) \in [1..n -> Items]
  BY <1>4, <1>5
<1>7. Resumes(ss) \in Seq(Items) /\ DOMAIN Resumes(ss) = 1..n
  BY <1>2, <1>6, FunctionIsSeq
<1>8. \A k \in 1..n : /\ Resumes(ss)[k].kind = "resume" /\ Resumes(ss)[k].session = q[k]
                      /\ Resumes(ss)[k].model = ss[q[k]].model
  BY <1>4, <1>5
<1>9. QED
  BY <1>2, <1>3, <1>7, <1>8 DEF QueueOK

(* A queue of items of one kind without directories.                       *)
LEMMA SameKind ==
    ASSUME NEW n \in Nat, NEW r, r = [k \in 1..n |-> r[k]], NEW p, p # "resume", NEW ss,
           \A k \in 1..n : r[k] \in Items /\ r[k].kind = p /\ r[k].session = 0
    PROVE  QueueOK(r, p, ss) /\ DOMAIN r = 1..n
<1>1. r \in [1..n -> Items]
  OBVIOUS
<1>2. r \in Seq(Items) /\ DOMAIN r = 1..n
  BY <1>1, FunctionIsSeq
<1>3. QED
  BY <1>2 DEF QueueOK

(* The tunes of a plan: each a model found and untuned, none twice.        *)
LEMMA TunesFacts ==
    ASSUME world \in Worlds, NEW ss \in Seq(Session)
    PROVE  /\ QueueOK(Tunes(ss), "tune", ss)
           /\ \A k \in DOMAIN Tunes(ss) :
                /\ Tunes(ss)[k].model \in world.found /\ Untuned(ss, Tunes(ss)[k].model)
                /\ \A l \in DOMAIN Tunes(ss) : Tunes(ss)[l].model = Tunes(ss)[k].model => l = k
<1> DEFINE S == {m \in world.found : world.rep[m] = m /\ Untuned(ss, m)}
           q == Ascending(S)
           n == Cardinality(S)
           r == Tunes(ss)
<1>1. S \in SUBSET (1..NumModels) /\ NumModels \in Nat /\ 1 \in Models /\ S \in SUBSET Models
  BY WorldFacts DEF Models
<1>2. n \in Nat /\ DOMAIN q = 1..n
  BY <1>1, Ordered
<1>3. ASSUME NEW k \in 1..n
      PROVE  q[k] \in S
  BY <1>1, <1>2, Ordered
<1>4. ASSUME NEW k \in 1..n, NEW l \in 1..n, q[k] = q[l]
      PROVE  k = l
  BY <1>1, <1>2, <1>4, Ordered
<1>5. r = [k \in 1..n |-> Item("tune", q[k], 0, 1)]
  BY <1>2 DEF Tunes
<1>6. ASSUME NEW k \in 1..n
      PROVE  r[k] \in Items /\ r[k].kind = "tune" /\ r[k].session = 0 /\ r[k].model = q[k]
  <2>1. q[k] \in Models /\ "tune" \in Kinds /\ r[k] = Item("tune", q[k], 0, 1)
    BY <1>1, <1>3, <1>5 DEF Kinds, TuneClass
  <2>2. QED
    BY <1>1, <2>1, ItemFacts
<1>7. r = [k \in 1..n |-> r[k]]
  BY <1>5
<1>8. QueueOK(r, "tune", ss) /\ DOMAIN r = 1..n
  <2> HIDE DEF r, n
  <2>1. QED
    BY <1>2, <1>6, <1>7, SameKind
<1>9. \A k \in 1..n : r[k].model \in world.found /\ Untuned(ss, r[k].model)
  BY <1>3, <1>6
<1>10. \A k, l \in 1..n : r[l].model = r[k].model => l = k
  BY <1>4, <1>6
<1>11. QED
  BY <1>8, <1>9, <1>10

(* Queues made of the references: calibrations and deepenings.             *)
LEMMA OwnFacts ==
    ASSUME world \in Worlds, NEW ss \in Seq(Session), NEW p \in Kinds, p # "resume", NEW r,
           r = [k \in DOMAIN Ascending(References(ss)) |-> r[k]],
           \A k \in DOMAIN Ascending(References(ss)) :
                LET m == ss[Ascending(References(ss))[k]].model
                IN  r[k] \in {Item(p, m, 0, m), Item(p, m, 0, 1)}
    PROVE  QueueOK(r, p, ss)
<1> DEFINE S == References(ss)
           q == Ascending(S)
           n == Cardinality(S)
<1>1. S \in SUBSET (1..Len(ss)) /\ Len(ss) \in Nat /\ 1 \in Models
  BY RegistryFacts, WorldFacts
<1>2. ASSUME NEW x \in S
      PROVE  ss[x].model \in Models
  <2>1. x \in 1..Len(ss)
    BY <1>1
  <2>2. ss[x] \in Session
    BY <2>1
  <2>3. QED
    BY <2>2 DEF Session
<1>3. n \in Nat /\ DOMAIN q = 1..n
  BY <1>1, Ordered
<1>4. ASSUME NEW k \in 1..n
      PROVE  r[k] \in Items /\ r[k].kind = p /\ r[k].session = 0
  <2>1. q[k] \in S
    BY <1>1, <1>3, Ordered
  <2>2. r[k] \in {Item(p, ss[q[k]].model, 0, ss[q[k]].model), Item(p, ss[q[k]].model, 0, 1)}
    BY <1>3
  <2>3. ss[q[k]].model \in Models
    BY <1>2, <2>1
  <2>4. ASSUME NEW m \in Models, NEW i \in Models
        PROVE  Item(p, m, 0, i) \in Items /\ Item(p, m, 0, i).kind = p /\ Item(p, m, 0,
               i).session = 0
    BY DEF Item, Items
  <2>5. QED
    BY <1>1, <2>2, <2>3, <2>4
<1>5. r = [k \in 1..n |-> r[k]]
  BY <1>3
<1> HIDE DEF n
<1>6. QED
  BY <1>3, <1>4, <1>5, SameKind

(* The queue of deepenings is one.                                         *)
LEMMA DeepeningsFacts ==
    ASSUME world \in Worlds, NEW ss \in Seq(Session)
    PROVE  QueueOK(Deepenings(ss), "deepen", ss)
<1> DEFINE own == Ascending(References(ss))
           r == Deepenings(ss)
<1>1. r = [k \in DOMAIN own |-> Item("deepen", ss[own[k]].model, 0, 1)]
  BY DEF Deepenings
<1>2. /\ r = [k \in DOMAIN own |-> r[k]]
      /\ \A k \in DOMAIN own : r[k] = Item("deepen", ss[own[k]].model, 0, 1)
  BY <1>1
<1>3. "deepen" \in Kinds /\ "deepen" # "resume"
  BY DEF Kinds, TuneClass
<1> HIDE DEF r
<1>4. QueueOK(r, "deepen", ss)
  BY <1>2, <1>3, OwnFacts
<1>5. QED
  BY <1>4 DEF r

(* Two queues of one phase make a queue of it.                             *)
LEMMA ConcatOK ==
    ASSUME NEW q, NEW r, NEW p, NEW ss, QueueOK(q, p, ss), QueueOK(r, p, ss)
    PROVE  QueueOK(q \o r, p, ss)
<1>1. q \in Seq(Items) /\ r \in Seq(Items)
  BY DEF QueueOK
<1>2. /\ q \o r \in Seq(Items) /\ Len(q) \in Nat /\ Len(r) \in Nat
      /\ DOMAIN (q \o r) = 1..(Len(q) + Len(r)) /\ DOMAIN q = 1..Len(q) /\ DOMAIN r = 1..Len(r)
      /\ \A k \in 1..(Len(q) + Len(r)) :
            (q \o r)[k] = IF k <= Len(q) THEN q[k] ELSE r[k - Len(q)]
  BY <1>1
<1>3. ASSUME NEW k \in 1..(Len(q) + Len(r))
      PROVE  (\E l \in DOMAIN q : (q \o r)[k] = q[l]) \/ (\E l \in DOMAIN r : (q \o r)[k] = r[l])
  <2>1. k <= Len(q) => k \in DOMAIN q
    BY <1>2
  <2>2. ~(k <= Len(q)) => k - Len(q) \in DOMAIN r
    BY <1>2
  <2>3. QED
    BY <1>2, <2>1, <2>2
<1> DEFINE qr == q \o r
<1> HIDE DEF qr
<1>4. qr \in Seq(Items) /\ \A k \in DOMAIN qr :
          (\E l \in DOMAIN q : qr[k] = q[l]) \/ (\E l \in DOMAIN r : qr[k] = r[l])
  BY <1>2, <1>3 DEF qr
<1>5. QueueOK(qr, p, ss)
  BY <1>4 DEF QueueOK
<1>6. QED
  BY <1>5 DEF qr

(* The queue of calibrations: own records, then siblings.                  *)
LEMMA CalibrationsFacts ==
    ASSUME world \in Worlds, NEW ss \in Seq(Session)
    PROVE  QueueOK(Calibrations(ss), "calibrate", ss)
<1> DEFINE S == {s \in world.found : Transferable(ss, s)}
           q == Ascending(S)
           n == Cardinality(S)
           r == [k \in DOMAIN q |-> Item("calibrate", q[k], 0, world.rep[q[k]])]
           own == Ascending(References(ss))
           o == [k \in DOMAIN own |-> Item("calibrate", ss[own[k]].model, 0, ss[own[k]].model)]
<1>1. S \in SUBSET (1..NumModels) /\ NumModels \in Nat /\ world.rep \in [Models -> Models]
      /\ S \in SUBSET Models
  BY WorldFacts DEF Models
<1>2. n \in Nat /\ DOMAIN q = 1..n
  BY <1>1, Ordered
<1>3. "calibrate" \in Kinds /\ "calibrate" # "resume"
  BY DEF Kinds, TuneClass
<1>4. ASSUME NEW k \in 1..n
      PROVE  r[k] \in Items /\ r[k].kind = "calibrate" /\ r[k].session = 0
  <2>1. q[k] \in Models /\ world.rep[q[k]] \in Models
    BY <1>1, <1>2, Ordered
  <2>2. r[k] = Item("calibrate", q[k], 0, world.rep[q[k]])
    BY <1>2
  <2>3. QED
    BY <1>3, <2>1, <2>2, ItemFacts
<1>5. r = [k \in 1..n |-> r[k]]
  BY <1>2
<1>6. o = [k \in DOMAIN own |-> o[k]]
  OBVIOUS
<1>7. \A k \in DOMAIN own : o[k] = Item("calibrate", ss[own[k]].model, 0, ss[own[k]].model)
  OBVIOUS
<1>8. Calibrations(ss) = o \o r
  BY DEF Calibrations
<1> HIDE DEF o, r, n
<1>9. QueueOK(o, "calibrate", ss)
  BY <1>3, <1>6, <1>7, OwnFacts
<1>10. QueueOK(r, "calibrate", ss)
  BY <1>2, <1>3, <1>4, <1>5, SameKind
<1>11. QED
  BY <1>8, <1>9, <1>10, ConcatOK

(* Every queue of a plan holds what it is named for.                       *)
LEMMA PlanFacts ==
    ASSUME world \in Worlds, NEW ss \in Seq(Session)
    PROVE  /\ Plan(ss) \in [PhaseNames -> Seq(Items)]
           /\ \A p \in PhaseNames : QueueOK(Plan(ss)[p], p, ss)
           /\ Plan(ss)["resume"] = Resumes(ss) /\ Plan(ss)["tune"] = Tunes(ss)
<1>1. /\ DOMAIN Plan(ss) = PhaseNames /\ Plan(ss) = [p \in PhaseNames |-> Plan(ss)[p]]
      /\ Plan(ss)["resume"] = Resumes(ss) /\ Plan(ss)["tune"] = Tunes(ss)
      /\ Plan(ss)["calibrate"] = Calibrations(ss)
      /\ Plan(ss)["retune"] = <<>> /\ Plan(ss)["deepen"] = <<>>
  BY DEF Plan, PhaseNames
<1>2. \A p : QueueOK(<<>>, p, ss)
  BY DEF QueueOK
<1>3. \A p \in PhaseNames : QueueOK(Plan(ss)[p], p, ss)
  BY <1>1, <1>2, ResumesFacts, TunesFacts, CalibrationsFacts DEF PhaseNames
<1>4. \A p \in PhaseNames : Plan(ss)[p] \in Seq(Items)
  BY <1>3 DEF QueueOK
<1>5. QED
  BY <1>1, <1>3, <1>4

----------------------------------------------------------------------------
(* Steps.                                                                  *)
(* No step changes the command line or the models.                         *)
LEMMA WorldStays == [Next]_vars => world' = world
<1> SUFFICES ASSUME [Next]_vars
             PROVE  world' = world
  OBVIOUS
<1>1. CASE StartNight
  BY <1>1 DEF StartNight, Begin, disk
<1>2. CASE Pick
  BY <1>2 DEF Pick, Look, disk
<1>3. CASE NextPhase
  BY <1>3 DEF NextPhase, FirstIndex, disk
<1>4. CASE EnterDeepening
  BY <1>4 DEF EnterDeepening, disk
<1>5. CASE LeaveLoop
  BY <1>5 DEF LeaveLoop, disk
<1>6. CASE Defer
  BY <1>6 DEF Defer, disk
<1>7. CASE StartCalibration
  BY <1>7 DEF StartCalibration, disk
<1>8. CASE \E v \in {"consistent", "drift", "error"} : EndCalibration(v)
  BY <1>8 DEF EndCalibration, disk
<1>9. CASE StartTuning
  BY <1>9 DEF StartTuning, disk
<1>10. CASE Prepare
  BY <1>10 DEF Prepare, disk
<1>11. CASE PrepareFails
  BY <1>11 DEF PrepareFails, disk
<1>12. CASE ChildFinishes
  BY <1>12 DEF ChildFinishes, Leaves, disk
<1>13. CASE ChildFails
  BY <1>13 DEF ChildFails, Leaves, disk
<1>14. CASE ChildRaises
  BY <1>14 DEF ChildRaises, Leaves, disk
<1>15. CASE JudgeFailed
  BY <1>15 DEF JudgeFailed, Fails, disk
<1>16. CASE JudgePassed
  BY <1>16 DEF JudgePassed, disk
<1>17. CASE JudgeDeepened
  BY <1>17 DEF JudgeDeepened, disk
<1>18. CASE SignalToChild
  BY <1>18 DEF SignalToChild, disk
<1>19. CASE SignalToNight
  BY <1>19 DEF SignalToNight, disk
<1>20. CASE Finalize
  BY <1>20 DEF Finalize, disk
<1>21. CASE Crash
  BY <1>21 DEF Crash, disk
<1>22. CASE Rest
  BY <1>22 DEF Rest, vars, disk
<1>23. CASE UNCHANGED vars
  BY <1>23 DEF vars, disk
<1>24. QED
  BY <1>1, <1>2, <1>3, <1>4, <1>5, <1>6, <1>7, <1>8, <1>9, <1>10, <1>11, <1>12, <1>13, <1>14,
     <1>15, <1>16, <1>17, <1>18, <1>19, <1>20, <1>21, <1>22, <1>23 DEF Next

(* The Boolean variables, in a lemma of their own: Zenon proves it.        *)
LEMMA FlagsInductive ==
    FlagsOK /\ [Next]_vars => FlagsOK'
<1> SUFFICES ASSUME FlagsOK, [Next]_vars
             PROVE  FlagsOK'
  OBVIOUS
<1> USE DEF FlagsOK
<1>1. CASE StartNight
  BY <1>1, Zenon DEF StartNight, Begin, disk, flags, child, place
<1>2. CASE Pick
  BY <1>2, Zenon DEF Pick, Look, disk, flags, child, place
<1>3. CASE NextPhase
  BY <1>3, Zenon DEF NextPhase, FirstIndex, disk, flags, child, place
<1>4. CASE EnterDeepening
  BY <1>4, Zenon DEF EnterDeepening, disk, flags, child, place
<1>5. CASE LeaveLoop
  BY <1>5, Zenon DEF LeaveLoop, disk, flags, child, place
<1>6. CASE Defer
  BY <1>6, Zenon DEF Defer, disk, flags, child, place
<1>7. CASE StartCalibration
  BY <1>7, Zenon DEF StartCalibration, disk, flags, child, place
<1>8. CASE \E v \in {"consistent", "drift", "error"} : EndCalibration(v)
  BY <1>8, Zenon DEF EndCalibration, disk, flags, child, place
<1>9. CASE StartTuning
  BY <1>9, Zenon DEF StartTuning, disk, flags, child, place
<1>10. CASE Prepare
  BY <1>10, Zenon DEF Prepare, disk, flags, child, place
<1>11. CASE PrepareFails
  BY <1>11, Zenon DEF PrepareFails, disk, flags, child, place
<1>12. CASE ChildFinishes
  BY <1>12, Zenon DEF ChildFinishes, Leaves, disk, flags, child, place
<1>13. CASE ChildFails
  BY <1>13, Zenon DEF ChildFails, Leaves, disk, flags, child, place
<1>14. CASE ChildRaises
  BY <1>14, Zenon DEF ChildRaises, Leaves, disk, flags, child, place
<1>15. CASE JudgeFailed
  BY <1>15, Zenon DEF JudgeFailed, Fails, disk, flags, child, place
<1>16. CASE JudgePassed
  BY <1>16, Zenon DEF JudgePassed, disk, flags, child, place
<1>17. CASE JudgeDeepened
  BY <1>17, Zenon DEF JudgeDeepened, disk, flags, child, place
<1>18. CASE SignalToChild
  BY <1>18, Zenon DEF SignalToChild, disk, flags, child, place
<1>19. CASE SignalToNight
  BY <1>19, Zenon DEF SignalToNight, disk, flags, child, place
<1>20. CASE Finalize
  BY <1>20, Zenon DEF Finalize, disk, flags, child, place
<1>21. CASE Crash
  BY <1>21, Zenon DEF Crash, disk, flags, child, place
<1>22. CASE Rest
  BY <1>22, Zenon DEF Rest, vars, disk, flags, child, place
<1>23. CASE UNCHANGED vars
  BY <1>23, Zenon DEF vars, disk, flags, child, place
<1>24. QED
  BY <1>1, <1>2, <1>3, <1>4, <1>5, <1>6, <1>7, <1>8, <1>9, <1>10, <1>11, <1>12, <1>13, <1>14,
     <1>15, <1>16, <1>17, <1>18, <1>19, <1>20, <1>21, <1>22, <1>23 DEF Next

\* What a step may do to the directories: open one, or touch the child's.
Touched ==
    /\ sessions' \in Seq(Session) /\ Len(sessions') \in Nat /\ Len(sessions) <= Len(sessions')
    /\ \A i \in 1..Len(sessions) :
        /\ sessions'[i].model = sessions[i].model
        /\ sessions'[i] = sessions[i] \/ (pc = "tuning" /\ i = session)
    /\ Len(sessions') # Len(sessions) =>
        /\ Prepare /\ item.kind # "resume"
        /\ Len(sessions') = Len(sessions) + 1
        /\ sessions'[Len(sessions) + 1].model = item.model
        /\ ~Done(sessions'[Len(sessions) + 1])

(* A step that leaves the directories alone.                               *)
LEMMA UntouchedFacts ==
    ASSUME sessions \in Seq(Session), UNCHANGED sessions
    PROVE  Touched
BY DEF Touched

(* A step of the child changes its own directory only, and not its model.  *)
LEMMA ChildTouches ==
    ASSUME sessions \in Seq(Session), pc = "tuning", session \in DOMAIN sessions,
           NEW new \in Session, new.model = Own.model,
           sessions' = [sessions EXCEPT ![session] = new]
    PROVE  Touched
<1>1. /\ sessions' \in Seq(Session) /\ Len(sessions') = Len(sessions) /\ Len(sessions) \in Nat
      /\ \A i \in 1..Len(sessions) : i # session => sessions'[i] = sessions[i]
      /\ sessions'[session] = new
  OBVIOUS
<1>2. \A i \in 1..Len(sessions) : sessions'[i].model = sessions[i].model
  BY <1>1 DEF Own
<1>3. QED
  BY <1>1, <1>2 DEF Touched

(* The changes of a child to its directory are well-typed.                 *)
LEMMA OwnChanges ==
    ASSUME Own \in Session, NEW a \in BOOLEAN, NEW m \in BOOLEAN, NEW c \in BOOLEAN,
           NEW x \in BOOLEAN
    PROVE  /\ [Own EXCEPT !.analysis = a, !.marked = m, !.ctx = x, !.cut = c] \in Session
           /\ [Own EXCEPT !.analysis = a, !.marked = m, !.ctx = x, !.cut = c].model = Own.model
           /\ [Own EXCEPT !.analysis = a, !.marked = m, !.ctx = x] \in Session
           /\ [Own EXCEPT !.analysis = a, !.marked = m, !.ctx = x].model = Own.model
           /\ [Own EXCEPT !.analysis = a, !.marked = m] \in Session
           /\ [Own EXCEPT !.analysis = a, !.marked = m].model = Own.model
           /\ Torn \in Session /\ Torn.model = Own.model
<1> DEFINE o == Own
<1> HIDE DEF o
<1>1. o \in Session
  BY DEF o
<1>2. /\ [o EXCEPT !.analysis = a, !.marked = m, !.ctx = x, !.cut = c] \in Session
      /\ [o EXCEPT !.analysis = a, !.marked = m, !.ctx = x, !.cut = c].model = o.model
  BY <1>1 DEF Session
<1>3. /\ [o EXCEPT !.analysis = a, !.marked = m, !.ctx = x] \in Session
      /\ [o EXCEPT !.analysis = a, !.marked = m, !.ctx = x].model = o.model
      /\ [o EXCEPT !.analysis = a, !.marked = m] \in Session
      /\ [o EXCEPT !.analysis = a, !.marked = m].model = o.model
  BY <1>1 DEF Session
<1>4. /\ [o EXCEPT !.marked = TRUE, !.cut = TRUE] \in Session
      /\ [o EXCEPT !.marked = TRUE, !.cut = TRUE].model = o.model
  BY <1>1 DEF Session
<1>5. QED
  BY <1>2, <1>3, <1>4 DEF o, Torn

(* No step does more to the directories than that.                         *)
LEMMA DiskSteps ==
    TypeOK /\ ChildInv /\ [Next]_vars => Touched
<1> SUFFICES ASSUME TypeOK, ChildInv, [Next]_vars
             PROVE  Touched
  OBVIOUS
<1>a. /\ sessions \in Seq(Session)
      /\ pc = "tuning" => session \in DOMAIN sessions /\ Own \in Session
  BY DEF TypeOK, ChildInv, Own
<1>1. CASE StartNight
  BY <1>1, <1>a, UntouchedFacts DEF StartNight, Begin, disk
<1>2. CASE Pick
  BY <1>2, <1>a, UntouchedFacts DEF Pick, Look, disk
<1>3. CASE NextPhase
  BY <1>3, <1>a, UntouchedFacts DEF NextPhase, FirstIndex, disk
<1>4. CASE EnterDeepening
  BY <1>4, <1>a, UntouchedFacts DEF EnterDeepening, disk
<1>5. CASE LeaveLoop
  BY <1>5, <1>a, UntouchedFacts DEF LeaveLoop, disk
<1>6. CASE Defer
  BY <1>6, <1>a, UntouchedFacts DEF Defer, disk
<1>7. CASE StartCalibration
  BY <1>7, <1>a, UntouchedFacts DEF StartCalibration, disk
<1>8. CASE \E v \in {"consistent", "drift", "error"} : EndCalibration(v)
  BY <1>8, <1>a, UntouchedFacts DEF EndCalibration, disk
<1>9. CASE StartTuning
  BY <1>9, <1>a, UntouchedFacts DEF StartTuning, disk
<1>10. CASE Prepare
  <2>1. CASE item.kind = "resume"
    BY <1>10, <1>a, <2>1, UntouchedFacts DEF Prepare
  <2>2. CASE item.kind # "resume"
    <3> DEFINE new == [model |-> item.model, analysis |-> FALSE, marked |-> FALSE, cut |-> FALSE,
                       ctx |-> FALSE]
    <3>1. new \in Session /\ new.model = item.model /\ ~Done(new)
      BY DEF Session, Done, TypeOK, Items
    <3>2. sessions' = Append(sessions, new)
      BY <1>10, <2>2 DEF Prepare
    <3> HIDE DEF new
    <3>3. /\ sessions' \in Seq(Session) /\ Len(sessions') = Len(sessions) + 1
               /\ Len(sessions) \in Nat
          /\ \A i \in 1..Len(sessions) : sessions'[i] = sessions[i]
          /\ sessions'[Len(sessions) + 1] = new
      BY <1>a, <3>1, <3>2
    <3>4. QED
      BY <1>10, <2>2, <3>1, <3>3 DEF Touched
  <2>3. QED
    BY <2>1, <2>2
<1>11. CASE PrepareFails
  BY <1>11, <1>a, UntouchedFacts DEF PrepareFails, disk
<1>12. CASE ChildFinishes
  <2>1. pc = "tuning" /\ session \in DOMAIN sessions /\ Own \in Session
    BY <1>12, <1>a DEF ChildFinishes
  <2>2. PICK ctx \in BOOLEAN :
            sessions' = [sessions EXCEPT ![session] =
                [Own EXCEPT !.analysis = TRUE, !.marked = TRUE, !.ctx = ctx, !.cut = @ \/ stopping]]
    BY <1>12 DEF ChildFinishes, Leaves
  <2>3. PICK cut \in BOOLEAN :
            sessions' = [sessions EXCEPT ![session] =
                [Own EXCEPT !.analysis = TRUE, !.marked = TRUE, !.ctx = ctx, !.cut = cut]]
    BY <2>2
  <2>4. QED
    BY <1>a, <2>1, <2>3, OwnChanges, ChildTouches
<1>13. CASE ChildFails
  <2>1. pc = "tuning" /\ session \in DOMAIN sessions /\ Own \in Session
    BY <1>13, <1>a DEF ChildFails
  <2>2. Own.analysis \in BOOLEAN /\ Own.marked \in BOOLEAN
    BY <2>1 DEF Session
  <2>3. PICK analysis \in BOOLEAN, marked \in BOOLEAN :
            sessions' = [sessions EXCEPT ![session] =
                [Own EXCEPT !.analysis = analysis, !.marked = marked]]
    BY <1>13, <2>2 DEF ChildFails, Leaves
  <2>4. QED
    BY <1>a, <2>1, <2>3, OwnChanges, ChildTouches
<1>14. CASE ChildRaises
  <2>1. pc = "tuning" /\ session \in DOMAIN sessions /\ Own \in Session
    BY <1>14, <1>a DEF ChildRaises
  <2>2. sessions' = [sessions EXCEPT ![session] = Own]
    BY <1>14 DEF ChildRaises, Leaves
  <2>3. QED
    BY <1>a, <2>1, <2>2, ChildTouches
<1>15. CASE JudgeFailed
  BY <1>15, <1>a, UntouchedFacts DEF JudgeFailed, Fails, disk
<1>16. CASE JudgePassed
  BY <1>16, <1>a, UntouchedFacts DEF JudgePassed, disk
<1>17. CASE JudgeDeepened
  BY <1>17, <1>a, UntouchedFacts DEF JudgeDeepened, disk
<1>18. CASE SignalToChild
  <2>1. CASE UNCHANGED sessions
    BY <1>a, <2>1, UntouchedFacts
  <2>2. CASE pc = "tuning" /\ sessions' = [sessions EXCEPT ![session] = Torn]
    <3>1. Torn \in Session /\ Torn.model = Own.model
      BY <1>a, <2>2, OwnChanges
    <3>2. QED
      BY <1>a, <2>2, <3>1, ChildTouches
  <2>3. QED
    BY <1>18, <2>1, <2>2 DEF SignalToChild
<1>19. CASE SignalToNight
  <2>1. CASE UNCHANGED sessions
    BY <1>a, <2>1, UntouchedFacts
  <2>2. CASE pc = "tuning" /\ sessions' = [sessions EXCEPT ![session] = Torn]
    <3>1. Torn \in Session /\ Torn.model = Own.model
      BY <1>a, <2>2, OwnChanges
    <3>2. QED
      BY <1>a, <2>2, <3>1, ChildTouches
  <2>3. QED
    BY <1>19, <2>1, <2>2 DEF SignalToNight
<1>20. CASE Finalize
  BY <1>20, <1>a, UntouchedFacts DEF Finalize, disk
<1>21. CASE Crash
  <2>1. CASE UNCHANGED sessions
    BY <1>a, <2>1, UntouchedFacts
  <2>2. CASE pc = "tuning" /\ \E marked \in {TRUE, Own.marked}, ctx \in BOOLEAN :
                sessions' = [sessions EXCEPT ![session] =
                    [Own EXCEPT !.analysis = TRUE, !.marked = marked, !.ctx = ctx]]
    <3>1. Own \in Session /\ Own.marked \in BOOLEAN
      BY <1>a, <2>2 DEF Session
    <3>2. PICK marked \in BOOLEAN, ctx \in BOOLEAN :
                sessions' = [sessions EXCEPT ![session] =
                    [Own EXCEPT !.analysis = TRUE, !.marked = marked, !.ctx = ctx]]
      BY <2>2, <3>1
    <3>3. QED
      BY <1>a, <2>2, <3>1, <3>2, OwnChanges, ChildTouches
  <2>3. QED
    BY <1>21, <2>1, <2>2 DEF Crash
<1>22. CASE Rest
  BY <1>22, <1>a, UntouchedFacts DEF Rest, vars, disk
<1>23. CASE UNCHANGED vars
  BY <1>23, <1>a, UntouchedFacts DEF vars, disk
<1>24. QED
  BY <1>1, <1>2, <1>3, <1>4, <1>5, <1>6, <1>7, <1>8, <1>9, <1>10, <1>11, <1>12, <1>13, <1>14,
     <1>15, <1>16, <1>17, <1>18, <1>19, <1>20, <1>21, <1>22, <1>23 DEF Next

\* TypeOK, part by part.
PlaceOK ==
    /\ night \in 0..world.nights /\ left \in 0..world.time
    /\ pc \in Trying \cup Over \cup {"finalizing"} /\ phase \in 1..5
    /\ result \in {"none", "succeeded", "failed", "raised"}
    /\ exit \in {0, 1, 4} /\ signals \in 0..world.signals

QueuesOK ==
    /\ queue \in [PhaseNames -> Seq(Items)] /\ pos \in 0..Len(Queue)
    /\ item \in Items /\ item.session \in 0..Len(sessions)

SessionOK == session \in 0..Len(sessions)

NotesOK ==
    /\ failures \in Seq(Models) /\ calibrated \subseteq Models
    /\ DOMAIN records \subseteq Models /\ items \in Seq(Recorded)

(* TypeOK is its parts.                                                    *)
LEMMA TypeParts ==
    TypeOK <=>
        /\ world \in Worlds /\ sessions \in Seq(Session) /\ FlagsOK
        /\ PlaceOK /\ QueuesOK /\ SessionOK /\ NotesOK
BY DEF TypeOK, PlaceOK, QueuesOK, SessionOK, NotesOK

(* Where the scheduler is, the time and the counters.                      *)
LEMMA PlaceInductive ==
    TypeOK /\ [Next]_vars => PlaceOK'
<1> SUFFICES ASSUME TypeOK, [Next]_vars
             PROVE  PlaceOK'
  OBVIOUS
<1>a. /\ PlaceOK /\ world' = world /\ world.time \in Nat /\ world.nights \in Nat
      /\ world.signals \in Nat /\ night \in Nat /\ signals \in Nat
  BY TypeParts, WorldStays, WorldFacts DEF PlaceOK
<1>1. CASE StartNight
  BY <1>1, <1>a DEF StartNight, Begin, PlaceOK, Trying, Over, disk, flags, child, place
<1>2. CASE Pick
  <2>1. left' \in 0..world.time
    BY <1>2, <1>a DEF Pick, Look, PlaceOK
  <2>2. QED
    BY <1>2, <1>a, <2>1 DEF Pick, disk, child, PlaceOK, Trying, Over
<1>3. CASE NextPhase
  BY <1>3, <1>a DEF NextPhase, FirstIndex, PlaceOK, Trying, Over, disk, flags, child, place
<1>4. CASE EnterDeepening
  BY <1>4, <1>a DEF EnterDeepening, PlaceOK, Trying, Over, disk, flags, child, place
<1>5. CASE LeaveLoop
  BY <1>5, <1>a DEF LeaveLoop, PlaceOK, Trying, Over, disk, flags, child, place
<1>6. CASE Defer
  BY <1>6, <1>a DEF Defer, PlaceOK, Trying, Over, disk, flags, child, place
<1>7. CASE StartCalibration
  BY <1>7, <1>a DEF StartCalibration, PlaceOK, Trying, Over, disk, flags, child, place
<1>8. CASE \E v \in {"consistent", "drift", "error"} : EndCalibration(v)
  BY <1>8, <1>a DEF EndCalibration, PlaceOK, Trying, Over, disk, flags, child, place
<1>9. CASE StartTuning
  BY <1>9, <1>a DEF StartTuning, PlaceOK, Trying, Over, disk, flags, child, place
<1>10. CASE Prepare
  BY <1>10, <1>a DEF Prepare, flags, place, PlaceOK, Trying, Over
<1>11. CASE PrepareFails
  BY <1>11, <1>a DEF PrepareFails, PlaceOK, Trying, Over, disk, flags, child, place
<1>12. CASE ChildFinishes
  BY <1>12, <1>a DEF ChildFinishes, Leaves, PlaceOK, Trying, Over, disk, flags, child, place
<1>13. CASE ChildFails
  BY <1>13, <1>a DEF ChildFails, Leaves, PlaceOK, Trying, Over, disk, flags, child, place
<1>14. CASE ChildRaises
  BY <1>14, <1>a DEF ChildRaises, Leaves, PlaceOK, Trying, Over, disk, flags, child, place
<1>15. CASE JudgeFailed
  BY <1>15, <1>a DEF JudgeFailed, Fails, PlaceOK, Trying, Over, disk, flags, child, place
<1>16. CASE JudgePassed
  BY <1>16, <1>a DEF JudgePassed, PlaceOK, Trying, Over, disk, flags, child, place
<1>17. CASE JudgeDeepened
  BY <1>17, <1>a DEF JudgeDeepened, PlaceOK, Trying, Over, disk, flags, child, place
<1>18. CASE SignalToChild
  BY <1>18, <1>a DEF SignalToChild, PlaceOK, Trying, Over, disk, flags, child, place
<1>19. CASE SignalToNight
  <2>1. /\ pc \in Trying /\ signals < world.signals /\ signals' = signals + 1
        /\ UNCHANGED <<night, left, phase, exit>>
    BY <1>19 DEF SignalToNight, place
  <2>2. pc' \in {pc, "tuned", "finalizing"} /\ result' \in {result, "failed"}
    <3>1. CASE ~stop
      BY <1>19, <3>1 DEF SignalToNight
    <3>2. CASE stop /\ pc = "tuning"
      BY <1>19, <3>2 DEF SignalToNight
    <3>3. CASE stop /\ pc # "tuning"
      BY <1>19, <3>3 DEF SignalToNight
    <3>4. QED
      BY <3>1, <3>2, <3>3
  <2>3. QED
    BY <1>a, <2>1, <2>2 DEF PlaceOK, Trying, Over
<1>20. CASE Finalize
  BY <1>20, <1>a DEF Finalize, PlaceOK, Trying, Over, disk, flags, child, place
<1>21. CASE Crash
  BY <1>21, <1>a DEF Crash, PlaceOK, Trying, Over, disk, flags, child, place
<1>22. CASE Rest
  BY <1>22, <1>a DEF Rest, vars, PlaceOK, Trying, Over, disk, flags, child, place
<1>23. CASE UNCHANGED vars
  BY <1>23, <1>a DEF vars, PlaceOK, Trying, Over, disk, flags, child, place
<1>24. QED
  BY <1>1, <1>2, <1>3, <1>4, <1>5, <1>6, <1>7, <1>8, <1>9, <1>10, <1>11, <1>12, <1>13, <1>14,
     <1>15, <1>16, <1>17, <1>18, <1>19, <1>20, <1>21, <1>22, <1>23 DEF Next

\* The queues of a step are typed against directories that only become more.
(* A queue stays right when the directories only become more.              *)
LEMMA QueueGrows ==
    ASSUME NEW q, NEW p, QueueOK(q, p, sessions), sessions \in Seq(Session), Touched
    PROVE  QueueOK(q, p, sessions')
<1>1. DOMAIN sessions \subseteq DOMAIN sessions'
  <2>1. /\ sessions' \in Seq(Session) /\ DOMAIN sessions = 1..Len(sessions)
        /\ DOMAIN sessions' = 1..Len(sessions') /\ Len(sessions) \in Nat
        /\ Len(sessions') \in Nat /\ Len(sessions) <= Len(sessions')
    BY DEF Touched
  <2>2. QED
    BY <2>1
<1>2. QED
  BY <1>1 DEF QueueOK

(* So does one that gets another item of its phase.                        *)
LEMMA OneMore ==
    ASSUME NEW q, NEW p, NEW ss, QueueOK(q, p, ss), NEW it \in Items, it.kind = p, it.session = 0,
           p # "resume"
    PROVE  QueueOK(Append(q, it), p, ss)
<1>1. q \in Seq(Items)
  BY DEF QueueOK
<1>2. /\ Append(q, it) \in Seq(Items) /\ Len(q) \in Nat /\ DOMAIN q = 1..Len(q)
      /\ DOMAIN Append(q, it) = 1..(Len(q) + 1)
      /\ \A k \in 1..(Len(q) + 1) : Append(q, it)[k] = IF k <= Len(q) THEN q[k] ELSE it
  BY <1>1
<1>3. \A k \in 1..(Len(q) + 1) : k <= Len(q) => k \in DOMAIN q
  BY <1>2
<1>4. QED
  BY <1>2, <1>3 DEF QueueOK

(* The calibrations that a newly tuned model brings.                       *)
LEMMA SiblingsQueue ==
    ASSUME world \in Worlds, NEW S \in SUBSET Models, NEW m \in Models, NEW ss
    PROVE  QueueOK([k \in DOMAIN Ascending(S) |-> Item("calibrate", Ascending(S)[k], 0, m)],
                   "calibrate", ss)
<1> DEFINE q == Ascending(S)
           n == Cardinality(S)
           r == [k \in DOMAIN q |-> Item("calibrate", q[k], 0, m)]
<1>1. S \in SUBSET (1..NumModels) /\ NumModels \in Nat
  BY WorldFacts DEF Models
<1>2. n \in Nat /\ DOMAIN q = 1..n
  BY <1>1, Ordered
<1>3. ASSUME NEW k \in 1..n
      PROVE  r[k] \in Items /\ r[k].kind = "calibrate" /\ r[k].session = 0
  <2>1. q[k] \in Models /\ r[k] = Item("calibrate", q[k], 0, m) /\ "calibrate" \in Kinds
    BY <1>1, <1>2, Ordered DEF Kinds
  <2>2. QED
    BY <2>1 DEF Item, Items
<1>4. r = [k \in 1..n |-> r[k]]
  BY <1>2
<1> HIDE DEF n, r
<1>5. QueueOK(r, "calibrate", ss)
  BY <1>2, <1>3, <1>4, SameKind
<1>6. QED
  BY <1>5 DEF r

QueueShape == queue \in [PhaseNames -> Seq(Items)] /\ QueueInv

(* What the queues are, from their contents.                               *)
LEMMA ShapeFacts ==
    ASSUME DOMAIN queue = PhaseNames, queue = [p \in PhaseNames |-> queue[p]], QueueInv
    PROVE  QueueShape
BY DEF QueueShape, QueueInv, QueueOK

(* Another queue for one phase.                                            *)
LEMMA Replaced ==
    ASSUME QueueShape, NEW p \in PhaseNames, NEW q, QueueOK(q, p, sessions),
           queue' = [queue EXCEPT ![p] = q], sessions' = sessions
    PROVE  QueueShape'
BY DEF QueueShape, QueueInv, QueueOK

(* The queues keep holding what they are named for.                        *)
LEMMA ShapeInductive ==
    TypeOK /\ QueueInv /\ ChildInv /\ [Next]_vars => QueueShape'
<1> SUFFICES ASSUME TypeOK, QueueInv, ChildInv, [Next]_vars
             PROVE  QueueShape'
  OBVIOUS
<1>a. /\ QueueShape /\ world \in Worlds /\ sessions \in Seq(Session) /\ item \in Items
      /\ item.model \in Models /\ 1 \in Models
  BY WorldFacts DEF TypeOK, QueueShape, Items
<1>b. UNCHANGED queue => QueueShape'
  <2>1. Touched
    BY DiskSteps
  <2>2. QED
    BY <1>a, <2>1, QueueGrows DEF QueueShape, QueueInv
<1>1. CASE StartNight
  <2>1. queue' = Plan(sessions) /\ sessions' = sessions
    BY <1>1 DEF StartNight, Begin
  <2>2. QED
    BY <1>a, <2>1, PlanFacts DEF QueueShape, QueueInv
<1>2. CASE Pick
  BY <1>2, <1>b DEF Pick, Look, place
<1>3. CASE NextPhase
  BY <1>3, <1>b DEF NextPhase, FirstIndex, place
<1>4. CASE EnterDeepening
  <2>1. queue' = [queue EXCEPT !["deepen"] = Deepenings(sessions)] /\ sessions' = sessions
    BY <1>4 DEF EnterDeepening, disk
  <2>2. QueueOK(Deepenings(sessions), "deepen", sessions)
    BY <1>a, DeepeningsFacts
  <2>3. QED
    BY <1>a, <2>1, <2>2, Replaced DEF PhaseNames
<1>5. CASE LeaveLoop
  BY <1>5, <1>b DEF LeaveLoop, place
<1>6. CASE Defer
  BY <1>6, <1>b DEF Defer, place
<1>7. CASE StartCalibration
  BY <1>7, <1>b DEF StartCalibration, place
<1>8. CASE \E v \in {"consistent", "drift", "error"} : EndCalibration(v)
  <2>1. PICK v \in {"consistent", "drift", "error"} : EndCalibration(v)
    BY <1>8
  <2>2. sessions' = sessions /\ (queue' = queue \/
            queue' = [queue EXCEPT !["retune"] = Append(queue["retune"], Item("retune",
            item.model, 0, 1))])
    BY <2>1 DEF EndCalibration, disk
  <2>3. /\ Item("retune", item.model, 0, 1) \in Items
        /\ Item("retune", item.model, 0, 1).kind = "retune" /\ Item("retune", item.model, 0,
             1).session = 0
    BY <1>a DEF Item, Items, Kinds, TuneClass
  <2>4. QueueOK(Append(queue["retune"], Item("retune", item.model, 0, 1)), "retune", sessions)
    BY <1>a, <2>3, OneMore DEF QueueShape, QueueInv, PhaseNames
  <2>5. QED
    BY <1>a, <1>b, <2>2, <2>4, Replaced DEF PhaseNames
<1>9. CASE StartTuning
  BY <1>9, <1>b DEF StartTuning, place
<1>10. CASE Prepare
  BY <1>10, <1>b DEF Prepare, place
<1>11. CASE PrepareFails
  BY <1>11, <1>b DEF PrepareFails, place
<1>12. CASE ChildFinishes
  BY <1>12, <1>b DEF ChildFinishes, Leaves, place
<1>13. CASE ChildFails
  BY <1>13, <1>b DEF ChildFails, Leaves, place
<1>14. CASE ChildRaises
  BY <1>14, <1>b DEF ChildRaises, Leaves, place
<1>15. CASE JudgeFailed
  BY <1>15, <1>b DEF JudgeFailed, Fails, place
<1>16. CASE JudgePassed
  <2> DEFINE S == {s \in Siblings(item.model) : s \notin DOMAIN records' \cup calibrated}
             q == [k \in DOMAIN Ascending(S) |-> Item("calibrate", Ascending(S)[k], 0, item.model)]
  <2>1. sessions' = sessions /\ (queue' = queue \/
            queue' = [queue EXCEPT !["calibrate"] = queue["calibrate"] \o q])
    BY <1>16 DEF JudgePassed, disk
  <2>2. S \in SUBSET Models
    BY <1>a, WorldFacts DEF Siblings
  <2>3. QueueOK(q, "calibrate", sessions)
    BY <1>a, <2>2, SiblingsQueue
  <2> HIDE DEF q
  <2>4. QueueOK(queue["calibrate"] \o q, "calibrate", sessions)
    BY <1>a, <2>3, ConcatOK DEF QueueShape, QueueInv, PhaseNames
  <2>5. QED
    BY <1>a, <1>b, <2>1, <2>4, Replaced DEF PhaseNames
<1>17. CASE JudgeDeepened
  BY <1>17, <1>b DEF JudgeDeepened, place
<1>18. CASE SignalToChild
  BY <1>18, <1>b DEF SignalToChild, place
<1>19. CASE SignalToNight
  BY <1>19, <1>b DEF SignalToNight, place
<1>20. CASE Finalize
  BY <1>20, <1>b DEF Finalize, place
<1>21. CASE Crash
  BY <1>21, <1>b DEF Crash, place
<1>22. CASE Rest
  BY <1>22, <1>b DEF Rest, vars, place
<1>23. CASE UNCHANGED vars
  BY <1>23, <1>b DEF vars, place
<1>24. QED
  BY <1>1, <1>2, <1>3, <1>4, <1>5, <1>6, <1>7, <1>8, <1>9, <1>10, <1>11, <1>12, <1>13, <1>14,
     <1>15, <1>16, <1>17, <1>18, <1>19, <1>20, <1>21, <1>22, <1>23 DEF Next

\* Queues are only planned, or longer than they were, and never those of the
\* two phases that work from the plan alone.
Grown ==
    \A p \in PhaseNames :
        /\ Len(queue[p]) \in Nat /\ Len(queue'[p]) \in Nat /\ Len(queue[p]) <= Len(queue'[p])
        /\ \A k \in 1..Len(queue[p]) : queue'[p][k] = queue[p][k]

QueueKept ==
    /\ StartNight \/ (queue'["resume"] = queue["resume"] /\ queue'["tune"] = queue["tune"])
    /\ StartNight \/ EnterDeepening \/ Grown

(* A queue extended at its end, of a phase that takes new work.            *)
LEMMA Longer ==
    ASSUME QueueShape, NEW p \in PhaseNames, NEW r \in Seq(Items), p \notin {"resume", "tune"},
           queue' = [queue EXCEPT ![p] = queue[p] \o r]
    PROVE  QueueKept
<1>1. queue[p] \in Seq(Items) /\ \A n \in PhaseNames : queue[n] \in Seq(Items)
  BY DEF QueueShape
<1>2. /\ queue'["resume"] = queue["resume"] /\ queue'["tune"] = queue["tune"]
      /\ queue'[p] = queue[p] \o r
      /\ \A n \in PhaseNames \ {p} : queue'[n] = queue[n]
  BY DEF QueueShape, PhaseNames
<1>3. /\ Len(queue[p]) \in Nat /\ Len(queue'[p]) \in Nat /\ Len(queue[p]) <= Len(queue'[p])
      /\ \A k \in 1..Len(queue[p]) : queue'[p][k] = queue[p][k]
  BY <1>1, <1>2
<1>4. \A n \in PhaseNames : Len(queue[n]) \in Nat
  BY <1>1
<1>5. Grown
  BY <1>2, <1>3, <1>4 DEF Grown
<1>6. QED
  BY <1>2, <1>5 DEF QueueKept

(* No step shortens a queue or changes what is in it, the plan of a night  *)
(* apart.                                                                  *)
LEMMA QueueSteps ==
    TypeOK /\ QueueInv /\ [Next]_vars => QueueKept
<1> SUFFICES ASSUME TypeOK, QueueInv, [Next]_vars
             PROVE  QueueKept
  OBVIOUS
<1>a. /\ QueueShape /\ world \in Worlds /\ item \in Items /\ item.model \in Models /\ 1 \in Models
  BY WorldFacts DEF TypeOK, QueueShape, Items
<1>b. UNCHANGED queue => QueueKept
  BY <1>a DEF QueueShape, QueueKept, Grown
<1>1. CASE StartNight
  BY <1>1 DEF QueueKept
<1>2. CASE Pick
  BY <1>2, <1>b DEF Pick, Look, place
<1>3. CASE NextPhase
  BY <1>3, <1>b DEF NextPhase, FirstIndex, place
<1>4. CASE EnterDeepening
  <2>1. queue' = [queue EXCEPT !["deepen"] = Deepenings(sessions)]
    BY <1>4 DEF EnterDeepening
  <2>2. queue'["resume"] = queue["resume"] /\ queue'["tune"] = queue["tune"]
    BY <1>a, <2>1 DEF QueueShape, PhaseNames
  <2>3. QED
    BY <1>4, <2>2 DEF QueueKept
<1>5. CASE LeaveLoop
  BY <1>5, <1>b DEF LeaveLoop, place
<1>6. CASE Defer
  BY <1>6, <1>b DEF Defer, place
<1>7. CASE StartCalibration
  BY <1>7, <1>b DEF StartCalibration, place
<1>8. CASE \E v \in {"consistent", "drift", "error"} : EndCalibration(v)
  <2>1. PICK v \in {"consistent", "drift", "error"} : EndCalibration(v)
    BY <1>8
  <2> DEFINE it == Item("retune", item.model, 0, 1)
  <2>2. \/ UNCHANGED queue
        \/ queue' = [queue EXCEPT !["retune"] = Append(queue["retune"], it)]
    BY <2>1 DEF EndCalibration
  <2>3. it \in Items
    BY <1>a DEF Item, Items, Kinds, TuneClass
  <2> HIDE DEF it
  <2>4. <<it>> \in Seq(Items) /\ Append(queue["retune"], it) = queue["retune"] \o <<it>>
    BY <1>a, <2>3 DEF QueueShape, PhaseNames
  <2>5. QED
    BY <1>a, <1>b, <2>2, <2>4, Longer DEF PhaseNames
<1>9. CASE StartTuning
  BY <1>9, <1>b DEF StartTuning, place
<1>10. CASE Prepare
  BY <1>10, <1>b DEF Prepare, place
<1>11. CASE PrepareFails
  BY <1>11, <1>b DEF PrepareFails, place
<1>12. CASE ChildFinishes
  BY <1>12, <1>b DEF ChildFinishes, Leaves, place
<1>13. CASE ChildFails
  BY <1>13, <1>b DEF ChildFails, Leaves, place
<1>14. CASE ChildRaises
  BY <1>14, <1>b DEF ChildRaises, Leaves, place
<1>15. CASE JudgeFailed
  BY <1>15, <1>b DEF JudgeFailed, Fails, place
<1>16. CASE JudgePassed
  <2> DEFINE S == {s \in Siblings(item.model) : s \notin DOMAIN records' \cup calibrated}
             q == [k \in DOMAIN Ascending(S) |-> Item("calibrate", Ascending(S)[k], 0, item.model)]
  <2>1. \/ UNCHANGED queue
        \/ queue' = [queue EXCEPT !["calibrate"] = queue["calibrate"] \o q]
    BY <1>16 DEF JudgePassed
  <2>2. S \in SUBSET Models
    BY <1>a, WorldFacts DEF Siblings
  <2>3. QueueOK(q, "calibrate", sessions)
    BY <1>a, <2>2, SiblingsQueue
  <2> HIDE DEF q
  <2>4. q \in Seq(Items)
    BY <2>3 DEF QueueOK
  <2>5. QED
    BY <1>a, <1>b, <2>1, <2>4, Longer DEF PhaseNames
<1>17. CASE JudgeDeepened
  BY <1>17, <1>b DEF JudgeDeepened, place
<1>18. CASE SignalToChild
  BY <1>18, <1>b DEF SignalToChild, place
<1>19. CASE SignalToNight
  BY <1>19, <1>b DEF SignalToNight, place
<1>20. CASE Finalize
  BY <1>20, <1>b DEF Finalize, place
<1>21. CASE Crash
  BY <1>21, <1>b DEF Crash, place
<1>22. CASE Rest
  BY <1>22, <1>b DEF Rest, vars, place
<1>23. CASE UNCHANGED vars
  BY <1>23, <1>b DEF vars, place
<1>24. QED
  BY <1>1, <1>2, <1>3, <1>4, <1>5, <1>6, <1>7, <1>8, <1>9, <1>10, <1>11, <1>12, <1>13, <1>14,
     <1>15, <1>16, <1>17, <1>18, <1>19, <1>20, <1>21, <1>22, <1>23 DEF Next

(* Every phase has a name.                                                 *)
LEMMA PhaseFacts ==
    ASSUME PlaceOK
    PROVE  Phases[phase] \in PhaseNames /\ phase \in Nat
BY DEF PlaceOK, Phases, PhaseNames

(* An item taken from a queue is well-typed and of its phase.              *)
LEMMA Taken ==
    ASSUME QueueShape, sessions \in Seq(Session), NEW p \in PhaseNames, NEW k \in 1..Len(queue[p])
    PROVE  queue[p][k] \in Items /\ queue[p][k].session \in 0..Len(sessions) /\ queue[p][k].kind = p
<1>1. QueueOK(queue[p], p, sessions) /\ k \in DOMAIN queue[p]
  BY DEF QueueShape, QueueInv, QueueOK
<1>2. QED
  BY <1>1 DEF QueueOK

(* The queues, the position and the item at hand keep their types.         *)
LEMMA QueuesInductive ==
    TypeOK /\ QueueInv /\ ChildInv /\ [Next]_vars => QueuesOK'
<1> SUFFICES ASSUME TypeOK, QueueInv, ChildInv, [Next]_vars
             PROVE  QueuesOK'
  OBVIOUS
<1>a. /\ QueueShape' /\ QueueShape /\ sessions \in Seq(Session) /\ item \in Items
      /\ item.session \in 0..Len(sessions) /\ pos \in 0..Len(Queue) /\ 1 \in Models
      /\ Len(sessions) \in Nat /\ Len(sessions') \in Nat /\ Len(sessions) <= Len(sessions')
      /\ queue' \in [PhaseNames -> Seq(Items)]
  BY ShapeInductive, DiskSteps, WorldFacts DEF TypeOK, QueueShape, Touched
<1>b. item' \in Items /\ item'.session \in 0..Len(sessions) => item' \in Items
      /\ item'.session \in 0..Len(sessions')
  BY <1>a
<1>c. QueueKept /\ PlaceOK /\ PlaceOK'
  BY QueueSteps, PlaceInductive, TypeParts
<1>d. Len(Queue)' \in Nat
  <2>1. (Phases[phase])' \in PhaseNames
    BY <1>c DEF PlaceOK, Phases, PhaseNames
  <2>2. QED
    BY <1>a, <2>1 DEF Queue
<1>e. Len(Queue) \in Nat /\ Phases[phase] \in PhaseNames
  BY <1>a, <1>c, PhaseFacts DEF Queue, QueueShape
<1>f. UNCHANGED <<phase, pos, item>> /\ ~StartNight /\ ~EnterDeepening => QueuesOK'
  <2> SUFFICES ASSUME UNCHANGED <<phase, pos, item>>, Grown
               PROVE  QueuesOK'
    BY <1>c DEF QueueKept
  <2>1. Len(Queue) <= Len(Queue)' /\ Len(Queue)' \in Nat
    BY <1>e DEF Grown, Queue
  <2>2. pos' \in 0..Len(Queue)'
    BY <1>a, <1>e, <2>1
  <2>3. QED
    BY <1>a, <2>2 DEF QueuesOK
<1>g. UNCHANGED <<phase, pos, item, queue>> => QueuesOK'
  BY <1>a DEF QueuesOK, Queue
<1>1. CASE StartNight
  <2>1. pos' = 0 /\ Len(Queue)' \in Nat /\ item' = NoItem
    BY <1>1, <1>d DEF StartNight, Begin
  <2>2. NoItem \in Items /\ NoItem.session = 0
    BY <1>a DEF NoItem, Items
  <2>3. QED
    BY <1>a, <2>1, <2>2 DEF QueuesOK
<1>2. CASE Pick
  <2>1. /\ pos' = pos + 1 /\ item' = Queue[pos + 1] /\ pos < Len(Queue) /\ UNCHANGED <<queue,
             phase>>
        /\ sessions' = sessions
    BY <1>2 DEF Pick, disk
  <2>2. pos + 1 \in 1..Len(Queue)
    BY <1>a, <1>e, <2>1
  <2>3. item' \in Items /\ item'.session \in 0..Len(sessions)
    BY <1>a, <1>e, <2>1, <2>2, Taken DEF Queue
  <2>4. pos' \in 0..Len(Queue)'
    BY <1>a, <2>1, <2>2 DEF Queue
  <2>5. QED
    BY <1>a, <2>1, <2>3, <2>4 DEF QueuesOK
<1>3. CASE NextPhase
  <2>1. pos' = 0 /\ Len(Queue)' \in Nat /\ item' = item
    BY <1>3, <1>d DEF NextPhase, FirstIndex
  <2>2. QED
    BY <1>a, <2>1 DEF QueuesOK
<1>4. CASE EnterDeepening
  <2>1. pos' = 0 /\ Len(Queue)' \in Nat /\ item' = item
    BY <1>4, <1>d DEF EnterDeepening
  <2>2. QED
    BY <1>a, <2>1 DEF QueuesOK
<1>5. CASE LeaveLoop
  BY <1>5, <1>f DEF LeaveLoop, place, StartNight, EnterDeepening, Over
<1>6. CASE Defer
  BY <1>6, <1>f DEF Defer, place, StartNight, EnterDeepening, Over
<1>7. CASE StartCalibration
  BY <1>7, <1>f DEF StartCalibration, place, StartNight, EnterDeepening, Over
<1>8. CASE \E v \in {"consistent", "drift", "error"} : EndCalibration(v)
  BY <1>8, <1>f DEF EndCalibration, place, StartNight, EnterDeepening, Over
<1>9. CASE StartTuning
  BY <1>9, <1>f DEF StartTuning, place, StartNight, EnterDeepening, Over
<1>10. CASE Prepare
  BY <1>10, <1>f DEF Prepare, place, StartNight, EnterDeepening, Over
<1>11. CASE PrepareFails
  BY <1>11, <1>f DEF PrepareFails, place, StartNight, EnterDeepening, Over
<1>12. CASE ChildFinishes
  BY <1>12, <1>f DEF ChildFinishes, Leaves, place, StartNight, EnterDeepening, Over
<1>13. CASE ChildFails
  BY <1>13, <1>f DEF ChildFails, Leaves, place, StartNight, EnterDeepening, Over
<1>14. CASE ChildRaises
  BY <1>14, <1>f DEF ChildRaises, Leaves, place, StartNight, EnterDeepening, Over
<1>15. CASE JudgeFailed
  BY <1>15, <1>f DEF JudgeFailed, Fails, place, StartNight, EnterDeepening, Over
<1>16. CASE JudgePassed
  BY <1>16, <1>f DEF JudgePassed, place, StartNight, EnterDeepening, Over
<1>17. CASE JudgeDeepened
  BY <1>17, <1>f DEF JudgeDeepened, place, StartNight, EnterDeepening, Over
<1>18. CASE SignalToChild
  BY <1>18, <1>f DEF SignalToChild, place, StartNight, EnterDeepening, Over
<1>19. CASE SignalToNight
  BY <1>19, <1>g DEF SignalToNight, place
<1>20. CASE Finalize
  BY <1>20, <1>f DEF Finalize, place, StartNight, EnterDeepening, Over
<1>21. CASE Crash
  BY <1>21, <1>f DEF Crash, place, StartNight, EnterDeepening, Over
<1>22. CASE Rest
  BY <1>22, <1>g DEF Rest, vars
<1>23. CASE UNCHANGED vars
  BY <1>23, <1>g DEF vars
<1>24. QED
  BY <1>1, <1>2, <1>3, <1>4, <1>5, <1>6, <1>7, <1>8, <1>9, <1>10, <1>11, <1>12, <1>13, <1>14,
     <1>15, <1>16, <1>17, <1>18, <1>19, <1>20, <1>21, <1>22, <1>23 DEF Next

(* The child's directory is there.                                         *)
LEMMA SessionInductive ==
    TypeOK /\ ChildInv /\ [Next]_vars => SessionOK'
<1> SUFFICES ASSUME TypeOK, ChildInv, [Next]_vars
             PROVE  SessionOK'
  OBVIOUS
<1>a. /\ sessions \in Seq(Session) /\ session \in 0..Len(sessions)
           /\ item.session \in 0..Len(sessions)
      /\ Len(sessions) \in Nat /\ Len(sessions') \in Nat /\ Len(sessions) <= Len(sessions')
  BY DiskSteps DEF TypeOK, Touched
<1>b. UNCHANGED session => SessionOK'
  BY <1>a DEF SessionOK
<1>1. CASE StartNight
  BY <1>1, <1>a DEF StartNight, Begin, SessionOK
<1>2. CASE Pick
  BY <1>2, <1>b DEF Pick, Look, child
<1>3. CASE NextPhase
  BY <1>3, <1>b DEF NextPhase, FirstIndex, child
<1>4. CASE EnterDeepening
  BY <1>4, <1>b DEF EnterDeepening, child
<1>5. CASE LeaveLoop
  BY <1>5, <1>b DEF LeaveLoop, child
<1>6. CASE Defer
  BY <1>6, <1>b DEF Defer, child
<1>7. CASE StartCalibration
  BY <1>7, <1>b DEF StartCalibration, child
<1>8. CASE \E v \in {"consistent", "drift", "error"} : EndCalibration(v)
  BY <1>8, <1>b DEF EndCalibration, child
<1>9. CASE StartTuning
  BY <1>9, <1>a DEF StartTuning, SessionOK
<1>10. CASE Prepare
  <2>1. CASE item.kind = "resume"
    BY <1>10, <1>a, <1>b, <2>1 DEF Prepare
  <2>2. CASE item.kind # "resume"
    <3>1. Len(sessions') = Len(sessions) + 1 /\ session' = Len(sessions) + 1
      BY <1>10, <1>a, <2>2 DEF Prepare
    <3>2. QED
      BY <1>a, <3>1 DEF SessionOK
  <2>3. QED
    BY <2>1, <2>2
<1>11. CASE PrepareFails
  BY <1>11, <1>b DEF PrepareFails, child
<1>12. CASE ChildFinishes
  BY <1>12, <1>b DEF ChildFinishes, Leaves, child
<1>13. CASE ChildFails
  BY <1>13, <1>b DEF ChildFails, Leaves, child
<1>14. CASE ChildRaises
  BY <1>14, <1>b DEF ChildRaises, Leaves, child
<1>15. CASE JudgeFailed
  BY <1>15, <1>b DEF JudgeFailed, Fails, child
<1>16. CASE JudgePassed
  BY <1>16, <1>b DEF JudgePassed, child
<1>17. CASE JudgeDeepened
  BY <1>17, <1>b DEF JudgeDeepened, child
<1>18. CASE SignalToChild
  BY <1>18, <1>b DEF SignalToChild, child
<1>19. CASE SignalToNight
  BY <1>19, <1>b DEF SignalToNight, child
<1>20. CASE Finalize
  BY <1>20, <1>b DEF Finalize, child
<1>21. CASE Crash
  BY <1>21, <1>b DEF Crash, child
<1>22. CASE Rest
  BY <1>22, <1>b DEF Rest, vars, child
<1>23. CASE UNCHANGED vars
  BY <1>23, <1>b DEF vars, child
<1>24. QED
  BY <1>1, <1>2, <1>3, <1>4, <1>5, <1>6, <1>7, <1>8, <1>9, <1>10, <1>11, <1>12, <1>13, <1>14,
     <1>15, <1>16, <1>17, <1>18, <1>19, <1>20, <1>21, <1>22, <1>23 DEF Next

(* Records are well-typed.                                                 *)
LEMMA RecordedFacts ==
    ASSUME NEW i \in Items, i.kind \in Kinds, NEW o \in Outcomes
    PROVE  /\ Record(i, o) \in Recorded /\ Record(i, o).kind = i.kind
           /\ Record(i, o).model = i.model /\ Record(i, o).outcome = o
BY DEF Record, Recorded, Items

(* The siblings deferred with a failed model are no child sessions.        *)
LEMMA DeferredFacts ==
    ASSUME world \in Worlds, item.model \in Models, NEW S \in SUBSET Models
    PROVE  /\ Deferred(S) \in Seq(Recorded)
           /\ \A k \in DOMAIN Deferred(S) :
                Deferred(S)[k].outcome = "deferred" /\ Deferred(S)[k].kind = "calibrate"
<1> DEFINE q == Ascending(S)
           n == Cardinality(S)
           r == Deferred(S)
<1>1. S \in SUBSET (1..NumModels) /\ NumModels \in Nat
  BY WorldFacts DEF Models
<1>2. n \in Nat /\ DOMAIN q = 1..n
  BY <1>1, Ordered
<1>3. r = [k \in 1..n |-> Record(Item("calibrate", q[k], 0, item.model), "deferred")]
  BY <1>2 DEF Deferred
<1>4. ASSUME NEW k \in 1..n
      PROVE  r[k] \in Recorded /\ r[k].outcome = "deferred" /\ r[k].kind = "calibrate"
  <2>1. q[k] \in Models
    BY <1>1, <1>2, Ordered
  <2>2. r[k] = Record(Item("calibrate", q[k], 0, item.model), "deferred")
    BY <1>3
  <2>3. QED
    BY <2>1, <2>2 DEF Record, Item, Recorded, Kinds, Outcomes
<1> HIDE DEF n, r
<1>5. r \in [1..n -> Recorded]
  <2>1. r = [k \in 1..n |-> r[k]]
    BY <1>3
  <2>2. QED
    BY <1>4, <2>1
<1>6. r \in Seq(Recorded) /\ DOMAIN r = 1..n
  BY <1>2, <1>5, FunctionIsSeq
<1>7. QED
  BY <1>4, <1>6 DEF r

(* The item at hand is of its phase.                                       *)
LEMMA KindFacts ==
    ASSUME QueuesOK, QueueInv, ItemInv, PlaceOK, pc \in Busy
    PROVE  /\ item.kind \in Kinds /\ item.kind = Phases[phase]
           /\ pos \in DOMAIN Queue /\ item = Queue[pos] /\ Phases[phase] \in PhaseNames
<1>1. pos >= 1 /\ item = Queue[pos] /\ Phases[phase] \in PhaseNames
  BY PhaseFacts DEF ItemInv
<1>2. QueueOK(Queue, Phases[phase], sessions) /\ Queue \in Seq(Items) /\ pos \in 0..Len(Queue)
  BY <1>1 DEF QueueInv, Queue, QueuesOK
<1>3. pos \in DOMAIN Queue
  BY <1>1, <1>2
<1>4. item.kind = Phases[phase]
  BY <1>1, <1>2, <1>3 DEF QueueOK
<1>5. QED
  BY <1>1, <1>3, <1>4 DEF PhaseNames, Kinds, TuneClass

(* A child session succeeded, failed or was interrupted.                   *)
LEMMA JudgedFacts == Judged \in {"interrupted", "succeeded", "failed"} /\ Judged \in Outcomes
BY DEF Judged, Outcomes

(* Failures, calibrated models, snapshot and records keep their types.     *)
LEMMA NotesInductive ==
    TypeOK /\ QueueInv /\ ItemInv /\ [Next]_vars => NotesOK'
<1> SUFFICES ASSUME TypeOK, QueueInv, ItemInv, [Next]_vars
             PROVE  NotesOK'
  OBVIOUS
<1>a. /\ NotesOK /\ failures \in Seq(Models) /\ calibrated \subseteq Models
      /\ items \in Seq(Recorded) /\ DOMAIN records \subseteq Models
      /\ world \in Worlds /\ sessions \in Seq(Session) /\ item \in Items /\ item.model \in Models
  BY TypeParts DEF TypeOK, NotesOK, Items
<1>b. pc \in Busy => item.kind \in Kinds
  BY TypeParts, KindFacts
<1>c. UNCHANGED <<failures, calibrated, records, items>> => NotesOK'
  BY <1>a DEF NotesOK
<1>1. CASE StartNight
  <2>1. /\ failures' = <<>> /\ calibrated' = {} /\ items' = <<>> /\ records' = Registry(sessions)
    BY <1>1 DEF StartNight, Begin
  <2>2. DOMAIN Registry(sessions) \in SUBSET Models
    BY <1>a, RegistryFacts
  <2>3. QED
    BY <2>1, <2>2 DEF NotesOK
<1>2. CASE Pick
  BY <1>2, <1>c DEF Pick, Look, flags
<1>3. CASE NextPhase
  BY <1>3, <1>c DEF NextPhase, FirstIndex, flags
<1>4. CASE EnterDeepening
  <2>1. DOMAIN records' \in SUBSET Models
    BY <1>4, <1>a, RegistryFacts DEF EnterDeepening
  <2>2. QED
    BY <1>4, <1>a, <2>1 DEF EnterDeepening, flags, NotesOK
<1>5. CASE LeaveLoop
  BY <1>5, <1>c DEF LeaveLoop, flags
<1>6. CASE Defer
  <2>1. item.kind \in Kinds
    BY <1>6, <1>b DEF Defer, Busy, Trying
  <2>2. Record(item, "deferred") \in Recorded
    BY <1>a, <2>1, RecordedFacts DEF Outcomes
  <2>3. QED
    BY <1>6, <1>a, <2>2 DEF Defer, flags, NotesOK
<1>7. CASE StartCalibration
  BY <1>7, <1>c DEF StartCalibration, flags
<1>8. CASE \E v \in {"consistent", "drift", "error"} : EndCalibration(v)
  <2>1. PICK v \in {"consistent", "drift", "error"} : EndCalibration(v)
    BY <1>8
  <2>2. item.kind \in Kinds
    BY <1>b, <2>1 DEF EndCalibration, Busy, Trying
  <2>3. Record(item, v) \in Recorded
    BY <1>a, <2>2, RecordedFacts DEF Outcomes
  <2>4. /\ items' \in Seq(Recorded) /\ calibrated' \subseteq Models /\ failures' = failures
        /\ records' = records
    BY <1>a, <2>1, <2>3 DEF EndCalibration
  <2>5. QED
    BY <1>a, <2>4 DEF NotesOK
<1>9. CASE StartTuning
  BY <1>9, <1>c DEF StartTuning, flags
<1>10. CASE Prepare
  BY <1>10, <1>c DEF Prepare, flags
<1>11. CASE PrepareFails
  BY <1>11, <1>c DEF PrepareFails, flags
<1>12. CASE ChildFinishes
  BY <1>12, <1>c DEF ChildFinishes, Leaves, flags
<1>13. CASE ChildFails
  BY <1>13, <1>c DEF ChildFails, Leaves, flags
<1>14. CASE ChildRaises
  BY <1>14, <1>c DEF ChildRaises, Leaves, flags
<1>15. CASE JudgeFailed
  <2> DEFINE S == {s \in Siblings(item.model) : s \notin DOMAIN records}
  <2>1. item.kind \in Kinds
    BY <1>15, <1>b DEF JudgeFailed, Busy, Trying
  <2>2. <<Record(item, "failed")>> \in Seq(Recorded)
    BY <1>a, <2>1, RecordedFacts DEF Outcomes
  <2>3. S \in SUBSET Models
    BY <1>a, WorldFacts DEF Siblings
  <2>4. Deferred(S) \in Seq(Recorded)
    BY <1>a, <2>3, DeferredFacts
  <2>5. \/ items' = items \o <<Record(item, "failed")>> \o Deferred(S)
        \/ items' = items \o <<Record(item, "failed")>> \o <<>>
    BY <1>15 DEF JudgeFailed
  <2> HIDE DEF S
  <2>6. items' \in Seq(Recorded)
    <3>1. items \o <<Record(item, "failed")>> \in Seq(Recorded)
      BY <1>a, <2>2
    <3>2. <<>> \in Seq(Recorded)
      OBVIOUS
    <3>3. \A q, r : q \in Seq(Recorded) /\ r \in Seq(Recorded) => q \o r \in Seq(Recorded)
      OBVIOUS
    <3>4. QED
      BY <2>4, <2>5, <3>1, <3>2, <3>3, Zenon
  <2>7. failures' \in Seq(Models)
    <3>1. failures' = failures \/ failures' = Append(failures, item.model)
      BY <1>15 DEF JudgeFailed, Noted
    <3>2. QED
      BY <1>a, <3>1
  <2>8. calibrated' = calibrated /\ records' = records
    BY <1>15 DEF JudgeFailed
  <2>9. QED
    BY <1>a, <2>6, <2>7, <2>8 DEF NotesOK
<1>16. CASE JudgePassed
  <2>1. item.kind \in Kinds
    BY <1>16, <1>b DEF JudgePassed, Busy, Trying
  <2>2. Record(item, Judged) \in Recorded
    BY <1>a, <2>1, JudgedFacts, RecordedFacts
  <2>3. /\ items' = Append(items, Record(item, Judged)) /\ failures' = <<>>
             /\ calibrated' = calibrated
        /\ records' = Registry(sessions)
    <3>1. records' = Registry(sessions)
      BY <1>16 DEF JudgePassed
    <3>2. QED
      BY <1>16, <3>1 DEF JudgePassed
  <2>4. DOMAIN Registry(sessions) \in SUBSET Models
    BY <1>a, RegistryFacts
  <2>5. QED
    BY <1>a, <2>2, <2>3, <2>4 DEF NotesOK
<1>17. CASE JudgeDeepened
  <2>1. item.kind \in Kinds
    BY <1>17, <1>b DEF JudgeDeepened, Busy, Trying
  <2>2. Record(item, Judged) \in Recorded
    BY <1>a, <2>1, JudgedFacts, RecordedFacts
  <2>3. /\ items' = Append(items, Record(item, Judged)) /\ failures' \in {failures, <<>>}
        /\ calibrated' = calibrated /\ records' = records
    BY <1>17 DEF JudgeDeepened
  <2>4. items' \in Seq(Recorded) /\ failures' \in Seq(Models)
    <3>1. items' \in Seq(Recorded)
      BY <1>a, <2>2, <2>3
    <3>2. <<>> \in Seq(Models)
      OBVIOUS
    <3>3. failures' \in Seq(Models)
      BY <1>a, <2>3, <3>2, Zenon
    <3>4. QED
      BY <3>1, <3>3
  <2>5. QED
    BY <1>a, <2>3, <2>4 DEF NotesOK
<1>18. CASE SignalToChild
  BY <1>18, <1>c DEF SignalToChild, flags
<1>19. CASE SignalToNight
  BY <1>19, <1>c DEF SignalToNight, flags
<1>20. CASE Finalize
  BY <1>20, <1>c DEF Finalize, flags
<1>21. CASE Crash
  BY <1>21, <1>c DEF Crash, flags
<1>22. CASE Rest
  BY <1>22, <1>c DEF Rest, vars, flags
<1>23. CASE UNCHANGED vars
  BY <1>23, <1>c DEF vars, flags
<1>24. QED
  BY <1>1, <1>2, <1>3, <1>4, <1>5, <1>6, <1>7, <1>8, <1>9, <1>10, <1>11, <1>12, <1>13, <1>14,
     <1>15, <1>16, <1>17, <1>18, <1>19, <1>20, <1>21, <1>22, <1>23 DEF Next

(* TypeOK and the queues' invariant are preserved.                         *)
LEMMA TypeInductive ==
    TypeOK /\ QueueInv /\ ItemInv /\ ChildInv /\ [Next]_vars => TypeOK' /\ QueueInv'
<1> SUFFICES ASSUME TypeOK, QueueInv, ItemInv, ChildInv, [Next]_vars
             PROVE  TypeOK' /\ QueueInv'
  OBVIOUS
<1>1. world' \in Worlds /\ FlagsOK /\ sessions' \in Seq(Session)
  BY WorldStays, TypeParts, DiskSteps DEF Touched
<1>2. FlagsOK'
  BY <1>1, FlagsInductive
<1>3. PlaceOK' /\ QueuesOK' /\ SessionOK' /\ NotesOK' /\ QueueInv'
  BY PlaceInductive, QueuesInductive, SessionInductive, NotesInductive, ShapeInductive DEF
         QueueShape
<1>4. QED
  BY <1>1, <1>2, <1>3, TypeParts DEF TypeOK, PlaceOK, QueuesOK, SessionOK, NotesOK, FlagsOK

----------------------------------------------------------------------------
(* The item at hand, and the directory of its child session.               *)
(* The item at hand stays the one the position points at: later queues     *)
(* only grow behind it.                                                    *)
LEMMA ItemInductive ==
    TypeOK /\ QueueInv /\ ItemInv /\ [Next]_vars => ItemInv'
<1> SUFFICES ASSUME TypeOK, QueueInv, ItemInv, [Next]_vars
             PROVE  ItemInv'
  OBVIOUS
<1>a. pos \in 0..Len(Queue) /\ Phases[phase] \in PhaseNames
  BY TypeParts, PhaseFacts DEF TypeOK
<1>b. QueueKept /\ ItemInv
  BY QueueSteps
<1>c. UNCHANGED <<phase, pos, queue, item>> /\ pc \in Busy => pos' >= 1 /\ item' = (Queue[pos])'
  BY DEF Queue, ItemInv
<1>1. CASE StartNight
  BY <1>1 DEF StartNight, Begin, ItemInv, Busy
<1>2. CASE Pick
  <2>1. /\ pos' = pos + 1 /\ item' = Queue[pos + 1] /\ UNCHANGED <<queue, phase>>
        /\ pc' \in {"finalizing", "picked"}
    BY <1>2 DEF Pick
  <2>2. pos' >= 1 /\ item' = (Queue[pos])'
    BY <1>a, <2>1 DEF Queue
  <2>3. QED
    BY <2>1, <2>2 DEF ItemInv, Busy, Trying
<1>3. CASE NextPhase
  BY <1>3 DEF NextPhase, ItemInv, Busy, Trying, Over
<1>4. CASE EnterDeepening
  BY <1>4 DEF EnterDeepening, ItemInv, Busy, Trying, Over
<1>5. CASE LeaveLoop
  BY <1>5 DEF LeaveLoop, ItemInv, Busy, Trying, Over
<1>6. CASE Defer
  BY <1>6 DEF Defer, ItemInv, Busy, Trying, Over
<1>7. CASE StartCalibration
  BY <1>7, <1>c, <1>b DEF StartCalibration, place, ItemInv, Busy, Trying, Over, vars
<1>8. CASE \E v \in {"consistent", "drift", "error"} : EndCalibration(v)
  BY <1>8 DEF EndCalibration, ItemInv, Busy, Trying, Over
<1>9. CASE StartTuning
  BY <1>9, <1>c, <1>b DEF StartTuning, place, ItemInv, Busy, Trying, Over, vars
<1>10. CASE Prepare
  BY <1>10, <1>c, <1>b DEF Prepare, place, ItemInv, Busy, Trying, Over, vars
<1>11. CASE PrepareFails
  BY <1>11, <1>c, <1>b DEF PrepareFails, place, ItemInv, Busy, Trying, Over, vars
<1>12. CASE ChildFinishes
  BY <1>12, <1>c, <1>b DEF ChildFinishes, Leaves, place, ItemInv, Busy, Trying, Over, vars
<1>13. CASE ChildFails
  BY <1>13, <1>c, <1>b DEF ChildFails, Leaves, place, ItemInv, Busy, Trying, Over, vars
<1>14. CASE ChildRaises
  BY <1>14, <1>c, <1>b DEF ChildRaises, Leaves, place, ItemInv, Busy, Trying, Over, vars
<1>15. CASE JudgeFailed
  BY <1>15 DEF JudgeFailed, ItemInv, Busy, Trying, Over
<1>16. CASE JudgePassed
  BY <1>16 DEF JudgePassed, ItemInv, Busy, Trying, Over
<1>17. CASE JudgeDeepened
  BY <1>17 DEF JudgeDeepened, ItemInv, Busy, Trying, Over
<1>18. CASE SignalToChild
  BY <1>18, <1>c, <1>b DEF SignalToChild, place, ItemInv, Busy, Trying, Over, vars
<1>19. CASE SignalToNight
  <2>1. UNCHANGED <<phase, pos, queue, item, session>>
    BY <1>19 DEF SignalToNight, place
  <2>2. pc \in Trying /\ pc' \in {pc, "tuned", "finalizing"}
        /\ (pc' = "tuned" => pc \in {"tuning", "tuned"})
    <3>1. CASE ~stop
      BY <1>19, <3>1 DEF SignalToNight
    <3>2. CASE stop /\ pc = "tuning"
      BY <1>19, <3>2 DEF SignalToNight
    <3>3. CASE stop /\ pc # "tuning"
      BY <1>19, <3>3 DEF SignalToNight
    <3>4. QED
      BY <3>1, <3>2, <3>3
  <2>3. pc' \in Busy => pc \in Busy
    BY <2>2 DEF Busy, Trying
  <2>4. QED
    BY <1>c, <2>1, <2>2, <2>3 DEF ItemInv
<1>20. CASE Finalize
  BY <1>20 DEF Finalize, ItemInv, Busy, Trying, Over
<1>21. CASE Crash
  BY <1>21 DEF Crash, ItemInv, Busy, Trying, Over
<1>22. CASE Rest
  BY <1>22, <1>c, <1>b DEF Rest, vars, place, ItemInv, Busy, Trying, Over, vars
<1>23. CASE UNCHANGED vars
  BY <1>23, <1>c, <1>b DEF vars, place, ItemInv, Busy, Trying, Over, vars
<1>24. QED
  BY <1>1, <1>2, <1>3, <1>4, <1>5, <1>6, <1>7, <1>8, <1>9, <1>10, <1>11, <1>12, <1>13, <1>14,
     <1>15, <1>16, <1>17, <1>18, <1>19, <1>20, <1>21, <1>22, <1>23 DEF Next

(* A child starts on a directory that is unfinished: by the plan if        *)
(* resumed, by its being new otherwise.                                    *)
LEMMA ChildInductive ==
    TypeOK /\ QueueInv /\ ItemInv /\ ChildInv /\ PlanInv /\ [Next]_vars => ChildInv'
<1> SUFFICES ASSUME TypeOK, QueueInv, ItemInv, ChildInv, PlanInv, [Next]_vars
             PROVE  ChildInv'
  OBVIOUS
<1>a. /\ sessions \in Seq(Session) /\ Len(sessions) \in Nat /\ PlaceOK /\ Touched
      /\ item \in Items
  BY TypeParts, DiskSteps DEF TypeOK
<1>b. pc \in Busy => item.kind = Phases[phase] /\ pos \in DOMAIN Queue /\ item = Queue[pos]
  BY TypeParts, KindFacts
<1>1. CASE StartNight
  BY <1>1 DEF StartNight, ChildInv, Begin
<1>2. CASE Pick
  BY <1>2 DEF Pick, ChildInv
<1>3. CASE NextPhase
  BY <1>3 DEF NextPhase, FirstIndex, disk, child, ChildInv, Done, vars
<1>4. CASE EnterDeepening
  BY <1>4 DEF EnterDeepening, disk, child, ChildInv, Done, vars
<1>5. CASE LeaveLoop
  BY <1>5 DEF LeaveLoop, disk, child, ChildInv, Done, vars
<1>6. CASE Defer
  BY <1>6 DEF Defer, disk, child, ChildInv, Done, vars
<1>7. CASE StartCalibration
  BY <1>7 DEF StartCalibration, ChildInv
<1>8. CASE \E v \in {"consistent", "drift", "error"} : EndCalibration(v)
  BY <1>8 DEF EndCalibration, ChildInv
<1>9. CASE StartTuning
  BY <1>9 DEF StartTuning, disk, child, ChildInv, Done, vars
<1>10. CASE Prepare
  <2>1. pc = "preparing" /\ session = item.session /\ item.kind \in TuneClass
    BY <1>10 DEF Prepare, ItemInv
  <2>2. CASE item.kind = "resume"
    <3>1. UNCHANGED <<sessions, session, item>>
      BY <1>10, <2>2 DEF Prepare
    <3>2. Phases[phase] = "resume" /\ pos \in DOMAIN Queue /\ item = Queue[pos]
      BY <1>b, <2>1, <2>2 DEF Busy, Trying
    <3>3. phase = 1
      BY <1>a, <3>2 DEF PlaceOK, Phases
    <3>4. pos \in DOMAIN queue["resume"] /\ item = queue["resume"][pos] /\ Pending(1, pos)
      BY <2>1, <3>2, <3>3 DEF Queue, Pending
    <3>5. ~Done(sessions[item.session]) /\ sessions[item.session].model = item.model
      BY <2>1, <3>4 DEF PlanInv, Trying
    <3>6. item.session \in DOMAIN sessions
      <4>1. QueueOK(queue["resume"], "resume", sessions)
        BY DEF QueueInv, PhaseNames
      <4>2. QED
        BY <3>4, <4>1 DEF QueueOK
    <3>7. QED
      BY <2>1, <3>1, <3>5, <3>6 DEF ChildInv
  <2>3. CASE item.kind # "resume"
    <3>1. session' = Len(sessions) + 1 /\ Len(sessions') = Len(sessions) + 1 /\ item' = item
      BY <1>10, <1>a, <2>3 DEF Prepare
    <3>2. /\ sessions'[Len(sessions) + 1].model = item.model /\ ~Done(sessions'[Len(sessions) + 1])
          /\ sessions' \in Seq(Session) /\ Len(sessions) \in Nat
      BY <1>a, <3>1 DEF Touched
    <3>3. session' \in DOMAIN sessions'
      BY <3>1, <3>2
    <3>4. QED
      BY <2>3, <3>1, <3>2, <3>3 DEF ChildInv, Done
  <2>4. QED
    BY <2>2, <2>3
<1>11. CASE PrepareFails
  BY <1>11 DEF PrepareFails, disk, child, ChildInv, Done, vars
<1>12. CASE ChildFinishes
  BY <1>12 DEF ChildFinishes, ChildInv, Leaves
<1>13. CASE ChildFails
  BY <1>13 DEF ChildFails, ChildInv, Leaves
<1>14. CASE ChildRaises
  BY <1>14 DEF ChildRaises, ChildInv, Leaves
<1>15. CASE JudgeFailed
  BY <1>15 DEF JudgeFailed, ChildInv
<1>16. CASE JudgePassed
  BY <1>16 DEF JudgePassed, ChildInv
<1>17. CASE JudgeDeepened
  BY <1>17 DEF JudgeDeepened, ChildInv
<1>18. CASE SignalToChild
  BY <1>18 DEF SignalToChild, disk, child, ChildInv, Done, vars
<1>19. CASE SignalToNight
  <2>1. CASE ~stop
    BY <1>19, <2>1 DEF SignalToNight, ChildInv, Done
  <2>2. CASE stop /\ pc = "tuning"
    BY <1>19, <2>2 DEF SignalToNight, ChildInv
  <2>3. CASE stop /\ pc # "tuning"
    BY <1>19, <2>3 DEF SignalToNight, ChildInv
  <2>4. QED
    BY <2>1, <2>2, <2>3
<1>20. CASE Finalize
  BY <1>20 DEF Finalize, ChildInv
<1>21. CASE Crash
  BY <1>21 DEF Crash, ChildInv
<1>22. CASE Rest
  BY <1>22 DEF Rest, vars, disk, child, ChildInv, Done, vars
<1>23. CASE UNCHANGED vars
  BY <1>23 DEF vars, disk, child, ChildInv, Done, vars
<1>24. QED
  BY <1>1, <1>2, <1>3, <1>4, <1>5, <1>6, <1>7, <1>8, <1>9, <1>10, <1>11, <1>12, <1>13, <1>14,
     <1>15, <1>16, <1>17, <1>18, <1>19, <1>20, <1>21, <1>22, <1>23 DEF Next

\* What a step leaves of the directories that are completed.
(* Completed directories are not touched.                                  *)
LEMMA DoneStays ==
    ASSUME TypeOK, ChildInv, Touched
    PROVE  \A i \in 1..Len(sessions) : Done(sessions[i]) => sessions'[i] = sessions[i]
BY DEF Touched, ChildInv

(* So the snapshot stays backed, and a new one is.                         *)
LEMMA RecordsInductive ==
    TypeOK /\ ChildInv /\ RecordsInv /\ [Next]_vars => RecordsInv'
<1> SUFFICES ASSUME TypeOK, ChildInv, RecordsInv, [Next]_vars
             PROVE  RecordsInv'
  OBVIOUS
<1>a. pc \in Trying /\ UNCHANGED records => RecordsInv'
  <2> SUFFICES ASSUME pc \in Trying, UNCHANGED records, NEW m \in DOMAIN records
               PROVE  Backed(m)'
    BY DEF RecordsInv
  <2>1. Backed(m) /\ Touched
    BY DiskSteps DEF RecordsInv
  <2>2. /\ records[m] \in 1..Len(sessions) /\ Len(sessions) \in Nat /\ Len(sessions') \in Nat
        /\ Len(sessions) <= Len(sessions') /\ sessions' \in Seq(Session)
    BY <2>1 DEF Touched, Backed, TypeOK
  <2>3. sessions'[records[m]] = sessions[records[m]]
    BY <2>1, <2>2, DoneStays DEF Backed
  <2>4. records[m] \in DOMAIN sessions'
    BY <2>2
  <2>5. QED
    BY <2>1, <2>3, <2>4 DEF Backed, Done
<1>b. records' = Registry(sessions) /\ sessions' = sessions => RecordsInv'
  <2> SUFFICES ASSUME records' = Registry(sessions), sessions' = sessions, NEW m \in DOMAIN records'
               PROVE  Backed(m)'
    BY DEF RecordsInv
  <2>1. /\ records'[m] \in DOMAIN sessions /\ sessions[records'[m]].model = m
        /\ Done(sessions[records'[m]]) /\ sessions[records'[m]].ctx
    BY RegistryFacts DEF TypeOK
  <2>2. QED
    BY <2>1 DEF Backed, Done
<1>c. pc' \notin Trying => RecordsInv'
  BY DEF RecordsInv
<1>1. CASE StartNight
  <2>1. records' = Registry(sessions) /\ sessions' = sessions
    BY <1>1 DEF StartNight, Begin
  <2>2. QED
    BY <1>b, <2>1
<1>2. CASE Pick
  BY <1>2, <1>a, <1>c DEF Pick, Look, flags, Trying, vars
<1>3. CASE NextPhase
  BY <1>3, <1>a, <1>c DEF NextPhase, FirstIndex, flags, Trying, vars
<1>4. CASE EnterDeepening
  <2>1. records' = Registry(sessions) /\ sessions' = sessions
    BY <1>4 DEF EnterDeepening, disk
  <2>2. QED
    BY <1>b, <2>1
<1>5. CASE LeaveLoop
  BY <1>5, <1>a, <1>c DEF LeaveLoop, flags, Trying, vars
<1>6. CASE Defer
  BY <1>6, <1>a, <1>c DEF Defer, flags, Trying, vars
<1>7. CASE StartCalibration
  BY <1>7, <1>a, <1>c DEF StartCalibration, flags, Trying, vars
<1>8. CASE \E v \in {"consistent", "drift", "error"} : EndCalibration(v)
  BY <1>8, <1>a, <1>c DEF EndCalibration, flags, Trying, vars
<1>9. CASE StartTuning
  BY <1>9, <1>a, <1>c DEF StartTuning, flags, Trying, vars
<1>10. CASE Prepare
  BY <1>10, <1>a, <1>c DEF Prepare, flags, Trying, vars
<1>11. CASE PrepareFails
  BY <1>11, <1>a, <1>c DEF PrepareFails, flags, Trying, vars
<1>12. CASE ChildFinishes
  BY <1>12, <1>a, <1>c DEF ChildFinishes, Leaves, flags, Trying, vars
<1>13. CASE ChildFails
  BY <1>13, <1>a, <1>c DEF ChildFails, Leaves, flags, Trying, vars
<1>14. CASE ChildRaises
  BY <1>14, <1>a, <1>c DEF ChildRaises, Leaves, flags, Trying, vars
<1>15. CASE JudgeFailed
  BY <1>15, <1>a, <1>c DEF JudgeFailed, Fails, flags, Trying, vars
<1>16. CASE JudgePassed
  <2>1. records' = Registry(sessions) /\ sessions' = sessions
    BY <1>16 DEF JudgePassed, disk
  <2>2. QED
    BY <1>b, <2>1
<1>17. CASE JudgeDeepened
  BY <1>17, <1>a, <1>c DEF JudgeDeepened, flags, Trying, vars
<1>18. CASE SignalToChild
  BY <1>18, <1>a, <1>c DEF SignalToChild, flags, Trying, vars
<1>19. CASE SignalToNight
  <2>1. pc \in Trying /\ UNCHANGED records
    BY <1>19 DEF SignalToNight
  <2>2. QED
    BY <1>a, <2>1
<1>20. CASE Finalize
  BY <1>20, <1>a, <1>c DEF Finalize, flags, Trying, vars
<1>21. CASE Crash
  BY <1>21, <1>a, <1>c DEF Crash, flags, Trying, vars
<1>22. CASE Rest
  BY <1>22, <1>a, <1>c DEF Rest, vars, flags, Trying, vars
<1>23. CASE UNCHANGED vars
  BY <1>23, <1>a, <1>c DEF vars, flags, Trying, vars
<1>24. QED
  BY <1>1, <1>2, <1>3, <1>4, <1>5, <1>6, <1>7, <1>8, <1>9, <1>10, <1>11, <1>12, <1>13, <1>14,
     <1>15, <1>16, <1>17, <1>18, <1>19, <1>20, <1>21, <1>22, <1>23 DEF Next

----------------------------------------------------------------------------
(* What the plan says stays true until its turn.                           *)
(* A model the plan calls untuned has nothing unfinished and no fitting    *)
(* record.                                                                 *)
LEMMA UntunedIsFirst ==
    ASSUME world \in Worlds, NEW ss \in Seq(Session), NEW m \in world.found, Untuned(ss, m)
    PROVE  LET own == {i \in DOMAIN ss : ss[i].model = m}
           IN  (\A i \in own : Done(ss[i])) /\ (own # {} => ~ss[Max(own)].ctx)
<1> DEFINE own == {i \in DOMAIN ss : ss[i].model = m}
<1>1. \A i \in own : Done(ss[i])
  BY DEF Untuned, Incomplete
<1>2. Evidence(ss, m) = own
  BY <1>1 DEF Evidence
<1>3. ~(Evidence(ss, m) # {} /\ ss[Max(Evidence(ss, m))].ctx)
  BY DEF Untuned, Registry
<1>4. QED
  BY <1>1, <1>2, <1>3

Waiting(i, k) == Pending(i, k) /\ (pc = "tuning" \/ Prepare => ~(phase = i /\ k = pos))

Recedes ==
    StartNight \/ pc' \notin Trying
        \/ (pc \in Trying /\ \A i \in Nat, k \in Nat : Pending(i, k)' => Waiting(i, k))

(* No step makes work pending again, and the item worked on is not         *)
(* pending.                                                                *)
LEMMA PendingSteps ==
    TypeOK /\ [Next]_vars => Recedes
<1> SUFFICES ASSUME TypeOK, [Next]_vars
             PROVE  Recedes
  OBVIOUS
<1>a. phase \in Nat /\ pos \in Nat
  <2>1. Len(Queue) \in Nat
    BY PhaseFacts, TypeParts DEF Queue, TypeOK
  <2>2. QED
    BY <2>1 DEF TypeOK
<1>b. UNCHANGED <<phase, pos>> /\ pc \in Trying /\ (pc' \in {"picked",
      "preparing"} => pc \in {"picked", "preparing"})
          /\ (pc = "preparing" => pc' # "tuning") /\ (pc = "tuning" => pc' \notin {"picked",
               "preparing"})
          => Recedes
  BY <1>a DEF Recedes, Waiting, Pending, Prepare
<1>c. UNCHANGED <<phase, pos, pc, night>> => Recedes
  BY <1>a DEF Recedes, Waiting, Pending, Prepare
<1>1. CASE StartNight
  BY <1>1 DEF Recedes
<1>2. CASE Pick
  <2>1. /\ pc = "loop" /\ pos' = pos + 1 /\ UNCHANGED phase /\ ~Prepare
    BY <1>2 DEF Pick, Prepare
  <2>2. QED
    BY <1>a, <2>1 DEF Recedes, Waiting, Pending, Trying
<1>3. CASE NextPhase
  <2>1. /\ pc = "loop" /\ phase' = phase + 1 /\ pos' = 0 /\ pc' = pc /\ ~Prepare
    BY <1>3 DEF NextPhase, Prepare, FirstIndex
  <2>2. QED
    BY <1>a, <2>1 DEF Recedes, Waiting, Pending, Trying
<1>4. CASE EnterDeepening
  <2>1. /\ pc = "loop" /\ phase' = phase + 1 /\ pos' = 0 /\ pc' = pc /\ ~Prepare
    BY <1>4 DEF EnterDeepening, Prepare, FirstIndex
  <2>2. QED
    BY <1>a, <2>1 DEF Recedes, Waiting, Pending, Trying
<1>5. CASE LeaveLoop
  <2>1. pc = "loop" /\ pc' \in {"finalizing"} /\ UNCHANGED <<phase, pos>>
    BY <1>5 DEF LeaveLoop, place
  <2>2. QED
    BY <1>a, <1>b, <2>1 DEF Recedes, Trying
<1>6. CASE Defer
  <2>1. pc = "picked" /\ pc' \in {"loop"} /\ UNCHANGED <<phase, pos>>
    BY <1>6 DEF Defer, place
  <2>2. QED
    BY <1>a, <1>b, <2>1 DEF Recedes, Trying
<1>7. CASE StartCalibration
  <2>1. pc = "picked" /\ pc' \in {"calibrating", "died"} /\ UNCHANGED <<phase, pos>>
    BY <1>7 DEF StartCalibration, place
  <2>2. QED
    BY <1>a, <1>b, <2>1 DEF Recedes, Trying
<1>8. CASE \E v \in {"consistent", "drift", "error"} : EndCalibration(v)
  <2>1. pc = "calibrating" /\ pc' = "loop" /\ UNCHANGED <<phase, pos>>
    BY <1>8 DEF EndCalibration
  <2>2. QED
    BY <1>a, <1>b, <2>1 DEF Recedes, Trying
<1>9. CASE StartTuning
  <2>1. pc = "picked" /\ pc' \in {"preparing"} /\ UNCHANGED <<phase, pos>>
    BY <1>9 DEF StartTuning, place
  <2>2. QED
    BY <1>a, <1>b, <2>1 DEF Recedes, Trying
<1>10. CASE Prepare
  <2>1. pc = "preparing" /\ pc' = "tuning" /\ UNCHANGED <<phase, pos>>
    BY <1>10 DEF Prepare, place
  <2>2. QED
    BY <1>a, <2>1 DEF Recedes, Waiting, Pending, Trying
<1>11. CASE PrepareFails
  <2>1. pc = "preparing" /\ pc' \in {"tuned"} /\ UNCHANGED <<phase, pos>>
    BY <1>11 DEF PrepareFails, place
  <2>2. QED
    BY <1>a, <1>b, <2>1 DEF Recedes, Trying
<1>12. CASE ChildFinishes
  <2>1. pc = "tuning" /\ pc' \in {"tuned"} /\ UNCHANGED <<phase, pos>>
    BY <1>12 DEF ChildFinishes, Leaves, place
  <2>2. QED
    BY <1>a, <1>b, <2>1 DEF Recedes, Trying
<1>13. CASE ChildFails
  <2>1. pc = "tuning" /\ pc' \in {"tuned"} /\ UNCHANGED <<phase, pos>>
    BY <1>13 DEF ChildFails, Leaves, place
  <2>2. QED
    BY <1>a, <1>b, <2>1 DEF Recedes, Trying
<1>14. CASE ChildRaises
  <2>1. pc = "tuning" /\ pc' \in {"tuned"} /\ UNCHANGED <<phase, pos>>
    BY <1>14 DEF ChildRaises, Leaves, place
  <2>2. QED
    BY <1>a, <1>b, <2>1 DEF Recedes, Trying
<1>15. CASE JudgeFailed
  <2>1. pc = "tuned" /\ pc' \in {"loop"} /\ UNCHANGED <<phase, pos>>
    BY <1>15 DEF JudgeFailed, place
  <2>2. QED
    BY <1>a, <1>b, <2>1 DEF Recedes, Trying
<1>16. CASE JudgePassed
  <2>1. pc = "tuned" /\ pc' \in {"loop"} /\ UNCHANGED <<phase, pos>>
    BY <1>16 DEF JudgePassed, place
  <2>2. QED
    BY <1>a, <1>b, <2>1 DEF Recedes, Trying
<1>17. CASE JudgeDeepened
  <2>1. pc = "tuned" /\ pc' \in {"loop"} /\ UNCHANGED <<phase, pos>>
    BY <1>17 DEF JudgeDeepened, place
  <2>2. QED
    BY <1>a, <1>b, <2>1 DEF Recedes, Trying
<1>18. CASE SignalToChild
  <2>1. pc = "tuning" /\ pc' \in {"tuning", "tuned"} /\ UNCHANGED <<phase, pos>>
    BY <1>18 DEF SignalToChild, place
  <2>2. QED
    BY <1>a, <1>b, <2>1 DEF Recedes, Trying
<1>19. CASE SignalToNight
  <2>1. pc \in Trying /\ pc' \in {pc, "tuned", "finalizing"} /\ UNCHANGED <<phase, pos>>
    BY <1>19, Zenon DEF SignalToNight, place
  <2>2. QED
    BY <1>a, <1>b, <2>1 DEF Recedes
<1>20. CASE Finalize
  BY <1>20 DEF Finalize, Recedes, Trying
<1>21. CASE Crash
  BY <1>21 DEF Crash, Recedes, Trying
<1>22. CASE Rest
  BY <1>22, <1>c DEF Rest, vars
<1>23. CASE UNCHANGED vars
  BY <1>23, <1>c DEF vars
<1>24. QED
  BY <1>1, <1>2, <1>3, <1>4, <1>5, <1>6, <1>7, <1>8, <1>9, <1>10, <1>11, <1>12, <1>13, <1>14,
     <1>15, <1>16, <1>17, <1>18, <1>19, <1>20, <1>21, <1>22, <1>23 DEF Next

ResumesLeft ==
    \A k \in DOMAIN queue["resume"] :
        LET q == queue["resume"]
        IN  /\ Pending(1, k) => ~Done(sessions[q[k].session])
            /\ sessions[q[k].session].model = q[k].model
            /\ \A l \in DOMAIN q : q[l].session = q[k].session => l = k

TunesLeft ==
    \A k \in DOMAIN queue["tune"] :
        LET q == queue["tune"]
        IN  /\ Pending(2, k) => FirstOf(q[k].model)
            /\ \A l \in DOMAIN q : q[l].model = q[k].model => l = k

(* The two halves of the plan's invariant.                                 *)
LEMMA PlanParts == PlanInv <=> (pc \in Trying => ResumesLeft /\ TunesLeft)
BY DEF PlanInv, ResumesLeft, TunesLeft

(* Both hold of the plan a night starts with.                              *)
LEMMA PlanStarts ==
    ASSUME TypeOK, StartNight
    PROVE  ResumesLeft' /\ TunesLeft'
<1>1. /\ queue' = Plan(sessions) /\ sessions' = sessions /\ world \in Worlds
      /\ sessions \in Seq(Session)
  BY DEF StartNight, Begin, TypeOK
<1>2. queue'["resume"] = Resumes(sessions) /\ queue'["tune"] = Tunes(sessions)
  BY <1>1, PlanFacts
<1>3. ResumesLeft'
  BY <1>1, <1>2, ResumesFacts DEF ResumesLeft, Done
<1>4. ASSUME NEW m \in world.found, Untuned(sessions, m)
      PROVE  FirstOf(m)'
  <2>1. LET own == {i \in DOMAIN sessions : sessions[i].model = m}
        IN  (\A i \in own : Done(sessions[i])) /\ (own # {} => ~sessions[Max(own)].ctx)
    BY <1>1, <1>4, UntunedIsFirst
  <2>2. QED
    BY <1>1, <2>1 DEF FirstOf, Done
<1>5. TunesLeft'
  BY <1>2, <1>4, <1>1, TunesFacts DEF TunesLeft
<1>6. QED
  BY <1>3, <1>5

(* Nothing a child does to another model's directory makes this one less   *)
(* untuned.                                                                *)
LEMMA FirstStays ==
    ASSUME TypeOK, Touched, ChildInv, NEW m, FirstOf(m),
           Len(sessions') # Len(sessions) => item.model # m
    PROVE  FirstOf(m)'
<1> DEFINE own == {i \in DOMAIN sessions : sessions[i].model = m}
           now == {i \in DOMAIN sessions' : sessions'[i].model = m}
<1>0. /\ Len(sessions) \in Nat /\ Len(sessions') \in Nat /\ Len(sessions) <= Len(sessions')
      /\ Len(sessions') # Len(sessions) => Len(sessions') = Len(sessions) + 1
  BY DEF Touched, TypeOK
<1>1. /\ DOMAIN sessions = 1..Len(sessions) /\ DOMAIN sessions' = 1..Len(sessions')
      /\ \A i \in 1..Len(sessions) : sessions'[i].model = sessions[i].model
      /\ Len(sessions') # Len(sessions) => sessions'[Len(sessions) + 1].model = item.model
  BY DEF Touched, TypeOK
<1>2. now = own
  <2>1. ASSUME NEW i \in 1..Len(sessions'), sessions'[i].model = m
        PROVE  i \in 1..Len(sessions) /\ sessions[i].model = m
    <3>1. i \in Nat /\ i >= 1 /\ i <= Len(sessions')
      BY <1>0
    <3>2. i # Len(sessions) + 1
      <4>1. CASE Len(sessions') = Len(sessions)
        BY <1>0, <3>1, <4>1
      <4>2. CASE Len(sessions') # Len(sessions)
        BY <1>1, <2>1, <4>2
      <4>3. QED
        BY <4>1, <4>2
    <3>4. i <= Len(sessions)
      BY <1>0, <3>1, <3>2
    <3>5. i \in 1..Len(sessions)
      BY <1>0, <3>1, <3>4
    <3>6. QED
      BY <1>1, <2>1, <3>5
  <2>2. ASSUME NEW i \in 1..Len(sessions), sessions[i].model = m
        PROVE  i \in 1..Len(sessions') /\ sessions'[i].model = m
    <3>1. i \in 1..Len(sessions')
      BY <1>0
    <3>2. QED
      BY <1>1, <2>2, <3>1
  <2>3. QED
    BY <1>1, <2>1, <2>2
<1>3. \A i \in own : Done(sessions[i]) /\ sessions'[i] = sessions[i]
  BY <1>1, DoneStays DEF FirstOf
<1>4. own # {} => Max(own) \in own
  BY <1>0, <1>1, MaxIsLargest
<1>5. own # {} => ~sessions[Max(own)].ctx
  BY DEF FirstOf
<1> HIDE DEF own
<1>6. (\A i \in now : Done(sessions'[i])) /\ (now # {} => ~sessions'[Max(now)].ctx)
  BY <1>2, <1>3, <1>4, <1>5
<1>7. QED
  BY <1>6 DEF FirstOf, Done

(* What the plan says of work not yet started stays true.                  *)
LEMMA PlanInductive ==
    TypeOK /\ QueueInv /\ ItemInv /\ ChildInv /\ PlanInv /\ [Next]_vars => PlanInv'
<1> SUFFICES ASSUME TypeOK, QueueInv, ItemInv, ChildInv, PlanInv, [Next]_vars, pc' \in Trying
             PROVE  ResumesLeft' /\ TunesLeft'
  BY PlanParts DEF PlanInv, ResumesLeft, TunesLeft
<1>1. CASE StartNight
  BY <1>1, PlanStarts
<1>2. CASE ~StartNight
  <2>1. /\ pc \in Trying /\ ResumesLeft /\ TunesLeft
        /\ \A i \in Nat, k \in Nat : Pending(i, k)' => Waiting(i, k)
    BY <1>2, PendingSteps, PlanParts DEF Recedes
  <2>2. /\ queue'["resume"] = queue["resume"] /\ queue'["tune"] = queue["tune"]
        /\ Touched /\ sessions \in Seq(Session) /\ Len(sessions) \in Nat
        /\ DOMAIN sessions = 1..Len(sessions)
    BY <1>2, QueueSteps, DiskSteps DEF QueueKept, TypeOK
  <2>3. QueueOK(queue["resume"], "resume", sessions) /\ QueueOK(queue["tune"], "tune", sessions)
    BY DEF QueueInv, PhaseNames
  <2>4. pc \in Busy => item.kind = Phases[phase] /\ pos \in DOMAIN Queue /\ item = Queue[pos]
    BY TypeParts, KindFacts
  <2>5. phase \in 1..5
    BY DEF TypeOK
  <2>6. ASSUME NEW k \in DOMAIN queue["resume"]
        PROVE  /\ queue["resume"][k].session \in 1..Len(sessions) /\ k \in Nat
               /\ Pending(1, k)' => sessions'[queue["resume"][k].session] = sessions[queue["resume"][k].session]
    <3>1. queue["resume"][k].session \in 1..Len(sessions) /\ k \in Nat
      BY <2>2, <2>3 DEF QueueOK
    <3>2. ASSUME Pending(1, k)', pc = "tuning", session = queue["resume"][k].session
          PROVE  FALSE
      <4>1. Pending(1, k) /\ ~(phase = 1 /\ k = pos)
        BY <2>1, <3>1, <3>2 DEF Waiting
      <4>2. phase = 1 /\ k # pos
        BY <2>5, <3>2, <4>1 DEF Pending
      <4>3. item.kind = "resume" /\ pos \in DOMAIN queue["resume"] /\ item = queue["resume"][pos]
        BY <2>4, <3>2, <4>2 DEF Busy, Trying, Phases, Queue
      <4>4. session = item.session
        BY <3>2, <4>3 DEF ChildInv
      <4>5. QED
        BY <2>1, <3>2, <4>2, <4>3, <4>4 DEF ResumesLeft
    <3>3. QED
      BY <2>2, <3>1, <3>2 DEF Touched
  <2>7. ResumesLeft'
    <3>1. ASSUME NEW k \in DOMAIN queue["resume"]
          PROVE  /\ Pending(1, k)' => ~Done(sessions'[queue["resume"][k].session])
                 /\ sessions'[queue["resume"][k].session].model = queue["resume"][k].model
                 /\ \A l \in DOMAIN queue["resume"] :
                        queue["resume"][l].session = queue["resume"][k].session => l = k
      <4>1. Pending(1, k)' => Pending(1, k)
        BY <2>1, <2>6 DEF Waiting
      <4>2. sessions'[queue["resume"][k].session].model = sessions[queue["resume"][k].session].model
        BY <2>2, <2>6 DEF Touched
      <4>3. QED
        BY <2>1, <2>6, <4>1, <4>2 DEF ResumesLeft
    <3>2. QED
      BY <2>2, <3>1 DEF ResumesLeft, Done
  <2>8. TunesLeft'
    <3>1. ASSUME NEW k \in DOMAIN queue["tune"]
          PROVE  /\ Pending(2, k)' => FirstOf(queue["tune"][k].model)'
                 /\ \A l \in DOMAIN queue["tune"] : queue["tune"][l].model = queue["tune"][k].model => l = k
      <4>1. k \in Nat
        BY <2>3 DEF QueueOK
      <4>2. ASSUME Pending(2, k)', Len(sessions') # Len(sessions)
            PROVE  item.model # queue["tune"][k].model
        <5>1. Prepare /\ item.kind # "resume" /\ pc = "preparing"
          BY <2>2, <4>2 DEF Touched, Prepare
        <5>2. Pending(2, k) /\ ~(phase = 2 /\ k = pos)
          BY <2>1, <4>1, <4>2, <5>1 DEF Waiting
        <5>3. phase # 1
          BY <2>4, <5>1 DEF Busy, Trying, Phases
        <5>4. phase = 2 /\ k # pos
          BY <2>5, <5>2, <5>3 DEF Pending
        <5>5. pos \in DOMAIN queue["tune"] /\ item = queue["tune"][pos]
          BY <2>4, <5>1, <5>4 DEF Busy, Trying, Phases, Queue
        <5>6. QED
          BY <2>1, <5>4, <5>5 DEF TunesLeft
      <4>3. Pending(2, k)' => FirstOf(queue["tune"][k].model)
        BY <2>1, <4>1 DEF Waiting, TunesLeft
      <4>4. QED
        BY <2>1, <2>2, <4>2, <4>3, FirstStays DEF TunesLeft
    <3>2. QED
      BY <2>2, <3>1 DEF TunesLeft
  <2>9. QED
    BY <2>7, <2>8
<1>3. QED
  BY <1>1, <1>2

----------------------------------------------------------------------------
(* The records of the night, its flags and its end.                        *)
(* One more record.                                                        *)
LEMMA Appended ==
    ASSUME items \in Seq(Recorded), NEW x \in Recorded, items' = Append(items, x)
    PROVE  /\ items' \in Seq(Recorded) /\ Len(items) \in Nat /\ DOMAIN items = 1..Len(items)
           /\ DOMAIN items' = 1..(Len(items) + 1) /\ items'[Len(items) + 1] = x
           /\ \A k \in 1..Len(items) : items'[k] = items[k]
OBVIOUS

(* Several more records.                                                   *)
LEMMA Joined ==
    ASSUME NEW q \in Seq(Recorded), NEW r \in Seq(Recorded)
    PROVE  /\ q \o r \in Seq(Recorded) /\ Len(q) \in Nat /\ Len(r) \in Nat
           /\ DOMAIN q = 1..Len(q) /\ DOMAIN (q \o r) = 1..(Len(q) + Len(r))
           /\ \A k \in 1..Len(q) : (q \o r)[k] = q[k]
           /\ \A k \in 1..(Len(q) + Len(r)) : k <= Len(q) \/ \E l \in DOMAIN r : (q \o r)[k] = r[l]
<1>1. /\ q \o r \in Seq(Recorded) /\ Len(q) \in Nat /\ Len(r) \in Nat
      /\ DOMAIN q = 1..Len(q) /\ DOMAIN r = 1..Len(r) /\ DOMAIN (q \o r) = 1..(Len(q) + Len(r))
      /\ \A k \in 1..(Len(q) + Len(r)) :
            (q \o r)[k] = IF k <= Len(q) THEN q[k] ELSE r[k - Len(q)]
  OBVIOUS
<1>2. ASSUME NEW k \in 1..(Len(q) + Len(r)), ~(k <= Len(q))
      PROVE  k - Len(q) \in DOMAIN r /\ (q \o r)[k] = r[k - Len(q)]
  BY <1>1, <1>2
<1>3. ASSUME NEW k \in 1..Len(q)
      PROVE  (q \o r)[k] = q[k]
  BY <1>1
<1>4. QED
  BY <1>1, <1>2, <1>3

(* The flags keep up with the records, the exit code with both.            *)
LEMMA OutcomeInductive ==
    TypeOK /\ QueueInv /\ ItemInv /\ OutcomeInv /\ [Next]_vars => OutcomeInv'
<1> SUFFICES ASSUME TypeOK, QueueInv, ItemInv, OutcomeInv, [Next]_vars
             PROVE  OutcomeInv'
  OBVIOUS
<1>a. items \in Seq(Recorded) /\ item \in Items
  BY DEF TypeOK
<1>b. pc \in Busy => item.kind \in Kinds
  BY TypeParts, KindFacts
<1>1. CASE StartNight
  <2>1. items' = <<>> /\ pc' = "loop" /\ DOMAIN <<>> = {}
    BY <1>1 DEF StartNight, Begin
  <2>2. QED
    BY <2>1 DEF OutcomeInv
<1>2. CASE Pick
  BY <1>2 DEF Pick, Look, flags, OutcomeInv, Over
<1>3. CASE NextPhase
  BY <1>3 DEF NextPhase, FirstIndex, flags, OutcomeInv, Over
<1>4. CASE EnterDeepening
  BY <1>4 DEF EnterDeepening, flags, OutcomeInv, Over
<1>5. CASE LeaveLoop
  BY <1>5 DEF LeaveLoop, flags, OutcomeInv, Over
<1>6. CASE Defer
  <2>1. item.kind \in Kinds
    BY <1>6, <1>b DEF Defer, Busy, Trying
  <2>2. Record(item, "deferred") \in Recorded /\ Record(item,
        "deferred").outcome \notin {"failed", "error"}
    BY <1>6, <1>a, <2>1, JudgedFacts, RecordedFacts DEF Defer, Outcomes
  <2>3. items' = Append(items, Record(item, "deferred")) /\ failed' = failed /\ pc' = "loop"
    BY <1>6 DEF Defer, flags
  <2> DEFINE x == Record(item, "deferred")
  <2> HIDE DEF x
  <2>4. x \in Recorded /\ x.outcome \notin {"failed", "error"} /\ items' = Append(items, x)
    BY <2>2, <2>3 DEF x
  <2>5. /\ DOMAIN items' = 1..(Len(items) + 1) /\ items'[Len(items) + 1] = x /\ Len(items) \in Nat
        /\ DOMAIN items = 1..Len(items) /\ \A k \in 1..Len(items) : items'[k] = items[k]
    BY <1>a, <2>4, Appended
  <2>6. ASSUME NEW k \in DOMAIN items', ~failed
        PROVE  items'[k].outcome \notin {"failed", "error"}
    <3>1. CASE k = Len(items) + 1
      BY <2>4, <2>5, <3>1
    <3>2. CASE k # Len(items) + 1
      <4>1. k \in 1..Len(items)
        BY <2>5, <3>2
      <4>2. QED
        BY <2>5, <2>6, <4>1 DEF OutcomeInv
    <3>3. QED
      BY <3>1, <3>2
  <2>7. QED
    BY <2>3, <2>6 DEF OutcomeInv
<1>7. CASE StartCalibration
  BY <1>7 DEF StartCalibration, flags, OutcomeInv, Over
<1>8. CASE \E v \in {"consistent", "drift", "error"} : EndCalibration(v)
  <2>1. PICK v \in {"consistent", "drift", "error"} : EndCalibration(v)
    BY <1>8
  <2>2. item.kind \in Kinds
    BY <1>b, <2>1 DEF EndCalibration, Busy, Trying
  <2>3. Record(item, v) \in Recorded /\ Record(item, v).outcome = v
    BY <1>a, <2>2, RecordedFacts DEF Outcomes
  <2>4. items' = Append(items, Record(item, v)) /\ failed' = (failed \/ v = "error") /\ pc' = "loop"
    BY <2>1 DEF EndCalibration
  <2> DEFINE x == Record(item, v)
  <2> HIDE DEF x
  <2>5. x \in Recorded /\ x.outcome = v /\ items' = Append(items, x)
    BY <2>3, <2>4 DEF x
  <2>6. /\ DOMAIN items' = 1..(Len(items) + 1) /\ items'[Len(items) + 1] = x /\ Len(items) \in Nat
        /\ DOMAIN items = 1..Len(items) /\ \A k \in 1..Len(items) : items'[k] = items[k]
    BY <1>a, <2>5, Appended
  <2>7. ASSUME NEW k \in DOMAIN items', ~failed'
        PROVE  items'[k].outcome \notin {"failed", "error"}
    <3>1. CASE k = Len(items) + 1
      BY <2>4, <2>5, <2>6, <2>7, <3>1
    <3>2. CASE k # Len(items) + 1
      <4>1. k \in 1..Len(items)
        BY <2>6, <3>2
      <4>2. ~failed
        BY <2>4, <2>7
      <4>3. QED
        BY <2>6, <4>1, <4>2 DEF OutcomeInv
    <3>3. QED
      BY <3>1, <3>2
  <2>8. QED
    BY <2>4, <2>7 DEF OutcomeInv
<1>9. CASE StartTuning
  BY <1>9 DEF StartTuning, flags, OutcomeInv, Over
<1>10. CASE Prepare
  BY <1>10 DEF Prepare, flags, OutcomeInv, Over
<1>11. CASE PrepareFails
  BY <1>11 DEF PrepareFails, flags, OutcomeInv, Over
<1>12. CASE ChildFinishes
  BY <1>12 DEF ChildFinishes, Leaves, flags, OutcomeInv, Over
<1>13. CASE ChildFails
  BY <1>13 DEF ChildFails, Leaves, flags, OutcomeInv, Over
<1>14. CASE ChildRaises
  BY <1>14 DEF ChildRaises, Leaves, flags, OutcomeInv, Over
<1>15. CASE JudgeFailed
  <2>1. failed' = TRUE /\ pc' = "loop"
    BY <1>15 DEF JudgeFailed, Fails
  <2>2. QED
    BY <2>1 DEF OutcomeInv
<1>16. CASE JudgePassed
  <2>1. item.kind \in Kinds
    BY <1>16, <1>b DEF JudgePassed, Busy, Trying
  <2>2. Record(item, Judged) \in Recorded /\ Record(item, Judged).outcome \notin {"failed", "error"}
    BY <1>16, <1>a, <2>1, JudgedFacts, RecordedFacts DEF JudgePassed, Outcomes
  <2>3. items' = Append(items, Record(item, Judged)) /\ failed' = failed /\ pc' = "loop"
    BY <1>16 DEF JudgePassed, flags
  <2> DEFINE x == Record(item, Judged)
  <2> HIDE DEF x
  <2>4. x \in Recorded /\ x.outcome \notin {"failed", "error"} /\ items' = Append(items, x)
    BY <2>2, <2>3 DEF x
  <2>5. /\ DOMAIN items' = 1..(Len(items) + 1) /\ items'[Len(items) + 1] = x /\ Len(items) \in Nat
        /\ DOMAIN items = 1..Len(items) /\ \A k \in 1..Len(items) : items'[k] = items[k]
    BY <1>a, <2>4, Appended
  <2>6. ASSUME NEW k \in DOMAIN items', ~failed
        PROVE  items'[k].outcome \notin {"failed", "error"}
    <3>1. CASE k = Len(items) + 1
      BY <2>4, <2>5, <3>1
    <3>2. CASE k # Len(items) + 1
      <4>1. k \in 1..Len(items)
        BY <2>5, <3>2
      <4>2. QED
        BY <2>5, <2>6, <4>1 DEF OutcomeInv
    <3>3. QED
      BY <3>1, <3>2
  <2>7. QED
    BY <2>3, <2>6 DEF OutcomeInv
<1>17. CASE JudgeDeepened
  <2>1. item.kind \in Kinds
    BY <1>17, <1>b DEF JudgeDeepened, Busy, Trying
  <2>2. Record(item, Judged) \in Recorded /\ Record(item, Judged).outcome \notin {"failed", "error"}
    BY <1>17, <1>a, <2>1, JudgedFacts, RecordedFacts DEF JudgeDeepened, Outcomes
  <2>3. items' = Append(items, Record(item, Judged)) /\ failed' = failed /\ pc' = "loop"
    BY <1>17 DEF JudgeDeepened, flags
  <2> DEFINE x == Record(item, Judged)
  <2> HIDE DEF x
  <2>4. x \in Recorded /\ x.outcome \notin {"failed", "error"} /\ items' = Append(items, x)
    BY <2>2, <2>3 DEF x
  <2>5. /\ DOMAIN items' = 1..(Len(items) + 1) /\ items'[Len(items) + 1] = x /\ Len(items) \in Nat
        /\ DOMAIN items = 1..Len(items) /\ \A k \in 1..Len(items) : items'[k] = items[k]
    BY <1>a, <2>4, Appended
  <2>6. ASSUME NEW k \in DOMAIN items', ~failed
        PROVE  items'[k].outcome \notin {"failed", "error"}
    <3>1. CASE k = Len(items) + 1
      BY <2>4, <2>5, <3>1
    <3>2. CASE k # Len(items) + 1
      <4>1. k \in 1..Len(items)
        BY <2>5, <3>2
      <4>2. QED
        BY <2>5, <2>6, <4>1 DEF OutcomeInv
    <3>3. QED
      BY <3>1, <3>2
  <2>7. QED
    BY <2>3, <2>6 DEF OutcomeInv
<1>18. CASE SignalToChild
  BY <1>18 DEF SignalToChild, flags, OutcomeInv, Over
<1>19. CASE SignalToNight
  <2>1. pc' \in {pc, "tuned", "finalizing"} /\ pc \in Trying /\ UNCHANGED <<items, failed>>
    BY <1>19, Zenon DEF SignalToNight
  <2>2. QED
    BY <2>1 DEF OutcomeInv, Trying
<1>20. CASE Finalize
  <2>1. /\ exit' = (IF Interrupted THEN 4 ELSE IF failed THEN 1 ELSE 0)
        /\ UNCHANGED <<items, failed, signalled>>
    BY <1>20 DEF Finalize, flags
  <2>2. QED
    BY <2>1 DEF OutcomeInv, Interrupted
<1>21. CASE Crash
  BY <1>21 DEF Crash, flags, OutcomeInv, Over
<1>22. CASE Rest
  BY <1>22 DEF Rest, vars, OutcomeInv, Interrupted
<1>23. CASE UNCHANGED vars
  BY <1>23 DEF vars, OutcomeInv, Interrupted
<1>24. QED
  BY <1>1, <1>2, <1>3, <1>4, <1>5, <1>6, <1>7, <1>8, <1>9, <1>10, <1>11, <1>12, <1>13, <1>14,
     <1>15, <1>16, <1>17, <1>18, <1>19, <1>20, <1>21, <1>22, <1>23 DEF Next

(* Adding an element to a finite set.                                      *)
LEMMA OneMoreOf ==
    ASSUME NEW S, IsFiniteSet(S), NEW x
    PROVE  /\ IsFiniteSet(S \cup {x}) /\ Cardinality(S) \in Nat
           /\ x \in S => Cardinality(S \cup {x}) = Cardinality(S)
           /\ x \notin S => Cardinality(S \cup {x}) = Cardinality(S) + 1
BY FS_AddElement, FS_CardinalityType

(* Three elements are three just when they differ.                         *)
LEMMA ThreeOf ==
    ASSUME NEW x, NEW y, NEW z
    PROVE  /\ IsFiniteSet({x, y, z})
           /\ Distinct(x, y, z) => Cardinality({x, y, z}) = 3
           /\ ~Distinct(x, y, z) => Cardinality({x, y, z}) < 3
<1> DEFINE S == {x} \cup {y}
           T == S \cup {z}
<1>1. Cardinality({x}) = 1 /\ IsFiniteSet({x})
  BY FS_Singleton
<1>2. /\ IsFiniteSet(S)
      /\ y # x => Cardinality(S) = 2
      /\ y = x => Cardinality(S) = 1
  BY <1>1, OneMoreOf
<1>3. (z \in S <=> z = x \/ z = y) /\ T = {x, y, z}
  OBVIOUS
<1> HIDE DEF S
<1>4. /\ IsFiniteSet(T)
      /\ z \in S => Cardinality(T) = Cardinality(S)
      /\ z \notin S => Cardinality(T) = Cardinality(S) + 1
  BY <1>2, OneMoreOf
<1> HIDE DEF T
<1>5. /\ Distinct(x, y, z) => Cardinality(T) = 3
      /\ ~Distinct(x, y, z) => Cardinality(T) < 3
  BY <1>2, <1>3, <1>4 DEF Distinct
<1>6. QED
  BY <1>3, <1>4, <1>5

\* A record that is of no child session, or of a deferral.
Aside(x) == ~(x.kind \in TuneClass /\ x.outcome # "deferred")

(* Records of no child session leave the streak as it is.                  *)
LEMMA Unmoved ==
    ASSUME items \in Seq(Recorded), items' \in Seq(Recorded), NEW n \in Nat, NEW m \in Nat,
           DOMAIN items = 1..n, DOMAIN items' = 1..m, n <= m,
           \A k \in 1..n : items'[k] = items[k],
           \A k \in 1..m : k <= n \/ Aside(items'[k])
    PROVE  Trials' = Trials /\ Streak' = Streak /\ \A k \in Streak : items'[k] = items[k]
<1>1. Trials' = Trials /\ Trials \subseteq 1..n
  BY DEF Trials, Aside
<1>2. \A k \in Trials : items'[k] = items[k]
  BY <1>1
<1>3. Streak' = Streak
  BY <1>1, <1>2 DEF Streak
<1>4. QED
  BY <1>1, <1>2, <1>3 DEF Streak

(* A failed child session extends the streak, siblings deferred with it or *)
(* not.                                                                    *)
LEMMA Failing ==
    ASSUME items \in Seq(Recorded), items' \in Seq(Recorded), NEW n \in Nat, NEW m \in Nat,
           DOMAIN items = 1..n, DOMAIN items' = 1..m, n < m,
           \A k \in 1..n : items'[k] = items[k],
           items'[n + 1].kind \in TuneClass, items'[n + 1].outcome = "failed",
           \A k \in 1..m : k <= n + 1 \/ Aside(items'[k])
    PROVE  /\ Streak' = Streak \cup {n + 1} /\ Streak \subseteq 1..n
           /\ \A k \in Streak : items'[k] = items[k]
<1>1. n + 1 \in 1..m /\ \A k \in 1..m : k <= n + 1 => k \in 1..n \/ k = n + 1
  OBVIOUS
<1>2. Trials \subseteq 1..n /\ Trials' = Trials \cup {n + 1}
  <2>1. ASSUME NEW k \in Trials'
        PROVE  k \in Trials \cup {n + 1}
    <3>1. k \in 1..m /\ ~Aside(items'[k])
      BY DEF Trials, Aside
    <3>2. k \in 1..n \/ k = n + 1
      BY <1>1, <3>1
    <3>3. QED
      BY <3>1, <3>2 DEF Trials, Aside
  <2>2. ASSUME NEW k \in Trials
        PROVE  k \in Trials' /\ k \in 1..n
    <3>1. k \in 1..n /\ k \in 1..m
      BY DEF Trials
    <3>2. QED
      BY <3>1 DEF Trials
  <2>3. n + 1 \in Trials'
    BY <1>1 DEF Trials
  <2>4. QED
    BY <2>1, <2>2, <2>3
<1>3. \A k \in Trials : items'[k] = items[k] /\ k <= n + 1 /\ ~(n + 1 <= k)
  BY <1>2
<1>4. ASSUME NEW k \in Trials
      PROVE  k \in Streak' <=> k \in Streak
  BY <1>2, <1>3 DEF Streak
<1>5. n + 1 \in Streak'
  BY <1>2, <1>3 DEF Streak
<1>6. Streak \subseteq Trials /\ Streak' \subseteq Trials'
  BY DEF Streak
<1>7. QED
  BY <1>2, <1>3, <1>4, <1>5, <1>6

(* One that passed ends it.                                                *)
LEMMA Passing ==
    ASSUME items \in Seq(Recorded), items' \in Seq(Recorded), NEW n \in Nat,
           DOMAIN items' = 1..(n + 1), items'[n + 1].kind \in TuneClass,
           items'[n + 1].outcome \notin {"failed", "deferred"}
    PROVE  Streak' = {}
<1>1. n + 1 \in Trials' /\ \A k \in Trials' : k <= n + 1
  BY DEF Trials
<1>2. QED
  BY <1>1 DEF Streak

(* What the breaker knows of a streak depends on nothing else.             *)
LEMMA SameStreak ==
    ASSUME Streak' = Streak, \A k \in Streak : items'[k] = items[k]
    PROVE  /\ FailuresFollow /\ failures' = failures => FailuresFollow'
           /\ ThreeModels => ThreeModels'
<1>1. ModelsOf(Streak)' = ModelsOf(Streak)
  BY DEF ModelsOf
<1>2. ASSUME FailuresFollow, failures' = failures
      PROVE  FailuresFollow'
  <2>1. \A a, b, c \in Streak : InARow(a, b, c)' <=> InARow(a, b, c)
    BY DEF InARow
  <2>2. (\A i \in DOMAIN failures : failures[i] \in ModelsOf(Streak))'
    BY <1>1, <1>2 DEF FailuresFollow
  <2>3. (\A b \in Streak : (\A k \in Streak : k <= b) =>
            /\ failures # <<>> /\ failures[Len(failures)] = items[b].model
            /\ \A a \in Streak :
                a < b /\ (\A k \in Streak : k <= a \/ k = b) /\ items[a].model # items[b].model =>
                    Len(failures) >= 2 /\ failures[Len(failures) - 1] = items[a].model)'
    BY <1>2 DEF FailuresFollow
  <2>4. (\A a, b, c \in Streak :
            InARow(a, b, c) => ~Distinct(items[a].model, items[b].model, items[c].model))'
    BY <1>2, <2>1 DEF FailuresFollow, Distinct
  <2>5. QED
    BY <2>2, <2>3, <2>4 DEF FailuresFollow
<1>3. ThreeModels => ThreeModels'
  BY DEF ThreeModels, Distinct
<1>4. QED
  BY <1>2, <1>3

(* The breaker's condition without cardinalities.                          *)
LEMMA TrippedFacts ==
    ASSUME NEW f, Len(f) \in Nat
    PROVE  Tripped(f) <=> Len(f) >= 3 /\ Distinct(f[Len(f)], f[Len(f) - 1], f[Len(f) - 2])
<1> DEFINE x == f[Len(f)]
           y == f[Len(f) - 1]
           z == f[Len(f) - 2]
<1>1. Tripped(f) <=> Len(f) >= 3 /\ Cardinality({x, y, z}) = 3
  BY DEF Tripped
<1> HIDE DEF x, y, z
<1>2. /\ Distinct(x, y, z) => Cardinality({x, y, z}) = 3
      /\ ~Distinct(x, y, z) => Cardinality({x, y, z}) < 3
  BY ThreeOf, Zenon
<1>3. Tripped(f) <=> Len(f) >= 3 /\ Distinct(x, y, z)
  <2>1. ~(3 < 3)
    OBVIOUS
  <2>2. QED
    BY <1>1, <1>2, <2>1, Zenon
<1>4. QED
  BY <1>3 DEF x, y, z

\* One more failure of a child session, and what the breaker says of it.
(* The breaker opens at a failure just when the last three differ: what    *)
(* failures remembers is enough to tell, although repeated models are left *)
(* out of it.                                                              *)
LEMMA OneMoreFailure ==
    ASSUME FailuresFollow, NEW n \in Nat, Streak \subseteq 1..n, Streak' = Streak \cup {n + 1},
           \A k \in Streak : items'[k] = items[k], NEW x \in Models, items'[n + 1].model = x,
           failures \in Seq(Models), failures' = Noted(x)
    PROVE  /\ Tripped(failures') => ThreeModels'
           /\ ~Tripped(failures') => FailuresFollow'
<1>1. /\ failures' \in Seq(Models) /\ Len(failures) \in Nat
      /\ \/ failures' = failures /\ failures # <<>> /\ failures[Len(failures)] = x
         \/ /\ failures' = Append(failures, x) /\ ~(failures # <<>> /\ failures[Len(failures)] = x)
            /\ Len(failures') = Len(failures) + 1 /\ failures'[Len(failures) + 1] = x
            /\ \A i \in 1..Len(failures) : failures'[i] = failures[i]
  BY DEF Noted
<1>2. n + 1 \in Streak' /\ Streak \subseteq Streak' /\ \A k \in Streak' : k \in Streak \/ k = n + 1
  OBVIOUS
<1>3. \A k \in Streak : k \in Nat /\ k < n + 1
  OBVIOUS
<1>4. /\ failures' # <<>> /\ Len(failures') \in Nat \ {0} /\ failures'[Len(failures')] = x
      /\ DOMAIN failures' = 1..Len(failures') /\ DOMAIN failures = 1..Len(failures)
  BY <1>1
<1>5. \A k \in Streak : items'[k].model \in ModelsOf(Streak)'
  BY <1>2 DEF ModelsOf
<1>6. x \in ModelsOf(Streak)'
  BY <1>2 DEF ModelsOf
<1>7. ModelsOf(Streak) \subseteq ModelsOf(Streak)'
  BY <1>5 DEF ModelsOf
<1>8. ASSUME NEW i \in DOMAIN failures'
      PROVE  failures'[i] \in ModelsOf(Streak)'
  <2>1. CASE i \in DOMAIN failures
    <3>1. failures'[i] = failures[i]
      BY <1>1, <1>4, <2>1
    <3>2. QED
      BY <1>7, <2>1, <3>1 DEF FailuresFollow
  <2>2. CASE i \notin DOMAIN failures
    <3>1. failures'[i] = x
      <4>1. failures' # failures
        BY <2>2
      <4>2. Len(failures') = Len(failures) + 1 /\ failures'[Len(failures) + 1] = x
        BY <1>1, <4>1
      <4>3. i = Len(failures) + 1
        BY <1>1, <1>4, <2>2, <4>2
      <4>4. QED
        BY <4>2, <4>3
    <3>2. QED
      BY <1>6, <3>1
  <2>3. QED
    BY <2>1, <2>2
<1>9. ASSUME Tripped(failures')
      PROVE  ThreeModels'
  <2> DEFINE m == Len(failures')
  <2>1. m \in Nat /\ m >= 3 /\ Distinct(failures'[m], failures'[m - 1], failures'[m - 2])
    BY <1>4, <1>9, TrippedFacts
  <2>2. m \in DOMAIN failures' /\ m - 1 \in DOMAIN failures' /\ m - 2 \in DOMAIN failures'
    BY <1>4, <2>1
  <2> HIDE DEF m
  <2>3. PICK a \in Streak', b \in Streak', c \in Streak' :
            /\ failures'[m] = items'[a].model /\ failures'[m - 1] = items'[b].model
            /\ failures'[m - 2] = items'[c].model
    BY <1>8, <2>2 DEF ModelsOf
  <2>4. QED
    BY <2>1, <2>3 DEF ThreeModels, Distinct
<1>10. ASSUME NEW a \in Streak, \A k \in Streak : k <= a
       PROVE  /\ failures # <<>> /\ failures[Len(failures)] = items[a].model
              /\ items[a].model # x => /\ failures' = Append(failures, x) /\ Len(failures') >= 2
                                       /\ Len(failures') = Len(failures) + 1
                                       /\ failures'[Len(failures') - 1] = items[a].model
  <2>1. failures # <<>> /\ failures[Len(failures)] = items[a].model
    BY <1>10 DEF FailuresFollow
  <2>2. Len(failures) \in 1..Len(failures)
    BY <1>1, <2>1
  <2>3. items[a].model # x => /\ failures' = Append(failures, x)
        /\ Len(failures') = Len(failures) + 1
                              /\ failures'[Len(failures)] = items[a].model
    BY <1>1, <2>1, <2>2
  <2>4. items[a].model # x => Len(failures') >= 2 /\ Len(failures') - 1 = Len(failures)
    BY <1>1, <2>2, <2>3
  <2>5. QED
    BY <2>1, <2>3, <2>4
<1>11. ASSUME NEW b \in Streak', \A k \in Streak' : k <= b
       PROVE  /\ b = n + 1 /\ failures' # <<>> /\ failures'[Len(failures')] = items'[b].model
              /\ \A a \in Streak' :
                  a < b /\ (\A k \in Streak' : k <= a \/ k = b)
                  /\ items'[a].model # items'[b].model =>
                      Len(failures') >= 2 /\ failures'[Len(failures') - 1] = items'[a].model
  <2>1. b = n + 1
    <3>1. n + 1 <= b
      BY <1>2, <1>11
    <3>2. QED
      BY <1>2, <1>3, <3>1
  <2>2. ASSUME NEW a \in Streak', a < b, \A k \in Streak' : k <= a \/ k = b,
               items'[a].model # items'[b].model
        PROVE  Len(failures') >= 2 /\ failures'[Len(failures') - 1] = items'[a].model
    <3>1. a \in Streak /\ items'[a] = items[a]
      BY <1>2, <2>1, <2>2
    <3>2. \A k \in Streak : k <= a
      BY <1>2, <1>3, <2>1, <2>2
    <3>3. QED
      BY <1>10, <2>1, <2>2, <3>1, <3>2
  <2>3. QED
    BY <1>4, <2>1, <2>2
<1>12. ASSUME ~Tripped(failures'), NEW a \in Streak', NEW b \in Streak', NEW c \in Streak',
              InARow(a, b, c)'
       PROVE  ~Distinct(items'[a].model, items'[b].model, items'[c].model)
  <2>1. a < b /\ b < c /\ \A k \in Streak' : a <= k /\ k <= c => k \in {a, b, c}
    BY <1>12 DEF InARow
  <2>2. a \in Streak /\ b \in Streak /\ items'[a] = items[a] /\ items'[b] = items[b]
    BY <1>2, <1>3, <2>1
  <2>3. CASE c # n + 1
    <3>1. c \in Streak /\ InARow(a, b, c) /\ items'[c] = items[c]
      BY <1>2, <2>1, <2>3 DEF InARow
    <3>2. QED
      BY <2>2, <3>1 DEF FailuresFollow, Distinct
  <2>4. CASE c = n + 1
    <3>1. \A k \in Streak : k <= b /\ (k <= a \/ k = b)
      BY <1>2, <1>3, <2>1, <2>2, <2>4
    <3>2. SUFFICES ASSUME Distinct(items[a].model, items[b].model, x)
                   PROVE  FALSE
      BY <2>2, <2>4
    <3>3. /\ failures # <<>> /\ failures[Len(failures)] = items[b].model
          /\ Len(failures) >= 2 /\ failures[Len(failures) - 1] = items[a].model
      BY <2>1, <2>2, <3>1, <3>2 DEF FailuresFollow, Distinct
    <3>4. /\ failures' = Append(failures, x) /\ Len(failures') = Len(failures) + 1
          /\ failures'[Len(failures')] = x
          /\ failures'[Len(failures)] = items[b].model
          /\ failures'[Len(failures) - 1] = items[a].model
      <4>1. x # items[b].model
        BY <3>2 DEF Distinct
      <4>2. failures' = Append(failures, x) /\ Len(failures') = Len(failures) + 1
        BY <1>1, <3>3, <4>1
      <4>3. Len(failures) \in 1..Len(failures) /\ Len(failures) - 1 \in 1..Len(failures)
        BY <1>1, <3>3
      <4>4. \A i \in 1..Len(failures) : failures'[i] = failures[i]
        BY <1>1, <4>2
      <4>5. QED
        BY <1>4, <3>3, <4>2, <4>3, <4>4
    <3>5. /\ Len(failures') >= 3 /\ Len(failures') - 1 = Len(failures)
          /\ Len(failures') - 2 = Len(failures) - 1
      BY <1>1, <3>3, <3>4
    <3>6. Distinct(failures'[Len(failures')], failures'[Len(failures') - 1],
          failures'[Len(failures') - 2])
      BY <3>2, <3>4, <3>5 DEF Distinct
    <3>7. Tripped(failures')
      BY <1>4, <3>5, <3>6, TrippedFacts
    <3>8. QED
      BY <1>12, <3>7
  <2>5. QED
    BY <2>3, <2>4
<1>13. ASSUME ~Tripped(failures')
       PROVE  FailuresFollow'
  <2>1. (\A i \in DOMAIN failures : failures[i] \in ModelsOf(Streak))'
    BY <1>8
  <2>2. (\A b \in Streak : (\A k \in Streak : k <= b) =>
            /\ failures # <<>> /\ failures[Len(failures)] = items[b].model
            /\ \A a \in Streak :
                a < b /\ (\A k \in Streak : k <= a \/ k = b) /\ items[a].model # items[b].model =>
                    Len(failures) >= 2 /\ failures[Len(failures) - 1] = items[a].model)'
    BY <1>11
  <2>3. (\A a, b, c \in Streak :
            InARow(a, b, c) => ~Distinct(items[a].model, items[b].model, items[c].model))'
    BY <1>12, <1>13 DEF Distinct
  <2>4. QED
    BY <2>1, <2>2, <2>3 DEF FailuresFollow
<1>14. QED
  BY <1>9, <1>13

(* An interruption is never forgotten.                                     *)
LEMMA InterruptionStays ==
    ASSUME signalled' = signalled, NEW n \in Nat, NEW m \in Nat, n <= m, DOMAIN items = 1..n,
           DOMAIN items' = 1..m, \A k \in 1..n : items'[k] = items[k], Interrupted
    PROVE  Interrupted'
<1>1. \A k \in 1..n : k \in 1..m
  OBVIOUS
<1>2. QED
  BY <1>1 DEF Interrupted

Stopped == {"loop", "finalizing", "ended"}

(* Steps without a record.                                                 *)
LEMMA NothingRecorded ==
    ASSUME BreakerInv, UNCHANGED <<items, failures, stop, signalled>>,
           pc' \in Going => pc \in Going,
           pc' \in Going \cup {"ended"} => pc \in Going \cup {"ended"},
           pc' \in Stopped \cup {"died", "off"} \/ ~stop \/ pc \notin Stopped
    PROVE  BreakerInv'
<1>1. Streak' = Streak /\ (Interrupted' <=> Interrupted)
  BY DEF Streak, Trials, Interrupted
<1>2. (FailuresFollow => FailuresFollow') /\ (ThreeModels => ThreeModels')
  BY <1>1, SameStreak
<1>3. QED
  BY <1>1, <1>2 DEF BreakerInv, Going, Trying, Stopped

(* Steps with a record of no child session.                                *)
LEMMA AsideRecorded ==
    ASSUME BreakerInv, items \in Seq(Recorded), NEW x \in Recorded, Aside(x),
           items' = Append(items, x), pc' = "loop", pc \in Busy,
           UNCHANGED <<stop, signalled, failures>>
    PROVE  BreakerInv'
<1>1. /\ items' \in Seq(Recorded) /\ Len(items) \in Nat /\ DOMAIN items = 1..Len(items)
      /\ DOMAIN items' = 1..(Len(items) + 1) /\ items'[Len(items) + 1] = x
      /\ \A k \in 1..Len(items) : items'[k] = items[k]
  BY Appended
<1>2. /\ Len(items) + 1 \in Nat /\ Len(items) <= Len(items) + 1
      /\ \A k \in 1..(Len(items) + 1) : k <= Len(items) \/ k = Len(items) + 1
  BY <1>1
<1>3. \A k \in 1..(Len(items) + 1) : k <= Len(items) \/ Aside(items'[k])
  BY <1>1, <1>2
<1>4. Streak' = Streak /\ \A k \in Streak : items'[k] = items[k]
  BY <1>1, <1>2, <1>3, Unmoved
<1>5. (FailuresFollow => FailuresFollow') /\ (ThreeModels => ThreeModels')
  BY <1>4, SameStreak
<1>6. Interrupted => Interrupted'
  BY <1>1, <1>2, InterruptionStays
<1>7. QED
  BY <1>5, <1>6 DEF BreakerInv, Going, Trying, Busy

(* The breaker's view of the records stays right.                          *)
LEMMA BreakerInductive ==
    TypeOK /\ QueueInv /\ ItemInv /\ BreakerInv /\ [Next]_vars => BreakerInv'
<1> SUFFICES ASSUME TypeOK, QueueInv, ItemInv, BreakerInv, [Next]_vars
             PROVE  BreakerInv'
  OBVIOUS
<1>a. /\ items \in Seq(Recorded) /\ item \in Items /\ failures \in Seq(Models) /\ world \in Worlds
      /\ item.model \in Models
  BY DEF TypeOK, Items
<1>b. pc \in Busy => item.kind \in Kinds
  BY TypeParts, KindFacts
<1>1. CASE StartNight
  <2>1. /\ pc' = "loop" /\ stop' = FALSE /\ items' = <<>> /\ failures' = <<>> /\ DOMAIN <<>> = {}
    BY <1>1 DEF StartNight, Begin
  <2>2. Streak' = {}
    BY <2>1 DEF Streak, Trials
  <2>3. FailuresFollow'
    BY <2>1, <2>2 DEF FailuresFollow
  <2>4. QED
    BY <2>1, <2>3 DEF BreakerInv
<1>2. CASE Pick
  <2>1. pc = "loop" /\ ~stop /\ pc' \in {"picked", "finalizing"} /\ UNCHANGED <<items, failures,
        stop, signalled>>
    BY <1>2 DEF Pick, flags
  <2>2. QED
    BY <2>1, NothingRecorded DEF Going, Trying, Stopped
<1>3. CASE NextPhase
  <2>1. pc = "loop" /\ pc' = "loop" /\ UNCHANGED <<items, failures, stop, signalled>>
    BY <1>3 DEF NextPhase, flags
  <2>2. QED
    BY <2>1, NothingRecorded DEF Going, Trying, Stopped
<1>4. CASE EnterDeepening
  <2>1. pc = "loop" /\ pc' = "loop" /\ UNCHANGED <<items, failures, stop, signalled>>
    BY <1>4 DEF EnterDeepening, flags
  <2>2. QED
    BY <2>1, NothingRecorded DEF Going, Trying, Stopped
<1>5. CASE LeaveLoop
  <2>1. pc = "loop" /\ pc' = "finalizing" /\ UNCHANGED <<items, failures, stop, signalled>>
    BY <1>5 DEF LeaveLoop, flags
  <2>2. QED
    BY <2>1, NothingRecorded DEF Going, Trying, Stopped
<1>6. CASE Defer
  <2>1. item.kind \in Kinds /\ pc \in Busy
    BY <1>6, <1>b DEF Defer, Busy, Trying
  <2>2. Record(item, "deferred") \in Recorded /\ Aside(Record(item, "deferred"))
    BY <1>a, <2>1, RecordedFacts DEF Outcomes, Aside
  <2>3. items' = Append(items, Record(item, "deferred")) /\ pc' = "loop"
        /\ UNCHANGED <<stop, signalled, failures>>
    BY <1>6 DEF Defer, flags
  <2>4. QED
    BY <1>a, <2>1, <2>2, <2>3, AsideRecorded
<1>7. CASE StartCalibration
  <2>1. pc = "picked" /\ pc' \in {"calibrating", "died"} /\ UNCHANGED <<items, failures, stop,
        signalled>>
    BY <1>7 DEF StartCalibration, flags
  <2>2. QED
    BY <2>1, NothingRecorded DEF Going, Trying, Stopped
<1>8. CASE \E v \in {"consistent", "drift", "error"} : EndCalibration(v)
  <2>1. PICK v \in {"consistent", "drift", "error"} : EndCalibration(v)
    BY <1>8
  <2>2. item.kind \in Kinds /\ item.kind = "calibrate" /\ pc \in Busy
    BY <1>b, <2>1 DEF EndCalibration, Busy, Trying, ItemInv
  <2>3. Record(item, v) \in Recorded /\ Aside(Record(item, v))
    BY <1>a, <2>2, RecordedFacts DEF Outcomes, Aside, TuneClass
  <2>4. items' = Append(items, Record(item, v)) /\ pc' = "loop"
        /\ UNCHANGED <<stop, signalled, failures>>
    BY <2>1 DEF EndCalibration
  <2>5. QED
    BY <1>a, <2>2, <2>3, <2>4, AsideRecorded
<1>9. CASE StartTuning
  <2>1. pc = "picked" /\ pc' = "preparing" /\ UNCHANGED <<items, failures, stop, signalled>>
    BY <1>9 DEF StartTuning, flags
  <2>2. QED
    BY <2>1, NothingRecorded DEF Going, Trying, Stopped
<1>10. CASE Prepare
  <2>1. pc = "preparing" /\ pc' = "tuning" /\ UNCHANGED <<items, failures, stop, signalled>>
    BY <1>10 DEF Prepare, flags
  <2>2. QED
    BY <2>1, NothingRecorded DEF Going, Trying, Stopped
<1>11. CASE PrepareFails
  <2>1. pc = "preparing" /\ pc' = "tuned" /\ UNCHANGED <<items, failures, stop, signalled>>
    BY <1>11 DEF PrepareFails, flags
  <2>2. QED
    BY <2>1, NothingRecorded DEF Going, Trying, Stopped
<1>12. CASE ChildFinishes
  <2>1. pc = "tuning" /\ pc' = "tuned" /\ UNCHANGED <<items, failures, stop, signalled>>
    BY <1>12 DEF ChildFinishes, Leaves, flags
  <2>2. QED
    BY <2>1, NothingRecorded DEF Going, Trying, Stopped
<1>13. CASE ChildFails
  <2>1. pc = "tuning" /\ pc' = "tuned" /\ UNCHANGED <<items, failures, stop, signalled>>
    BY <1>13 DEF ChildFails, Leaves, flags
  <2>2. QED
    BY <2>1, NothingRecorded DEF Going, Trying, Stopped
<1>14. CASE ChildRaises
  <2>1. pc = "tuning" /\ pc' = "tuned" /\ UNCHANGED <<items, failures, stop, signalled>>
    BY <1>14 DEF ChildRaises, Leaves, flags
  <2>2. QED
    BY <2>1, NothingRecorded DEF Going, Trying, Stopped
<1>15. CASE JudgeFailed
  <2> DEFINE S == {s \in Siblings(item.model) : s \notin DOMAIN records}
             n == Len(items)
             x == Record(item, "failed")
             y == items \o <<x>>
  <2>1. item.kind \in TuneClass /\ item.kind \in Kinds /\ pc = "tuned"
    BY <1>15 DEF JudgeFailed, ItemInv, Kinds
  <2>2. x \in Recorded /\ x.kind \in TuneClass /\ x.outcome = "failed" /\ x.model = item.model
    BY <1>a, <2>1, RecordedFacts DEF Outcomes
  <2>3. S \in SUBSET Models
    BY <1>a, WorldFacts DEF Siblings
  <2>4. Deferred(S) \in Seq(Recorded) /\ \A k \in DOMAIN Deferred(S) : Aside(Deferred(S)[k])
    BY <1>a, <2>3, DeferredFacts DEF Aside
  <2>5. /\ failures' = Noted(item.model) /\ stop' = (stop \/ Tripped(failures'))
        /\ UNCHANGED signalled /\ pc' = "loop"
        /\ (items' = y \o Deferred(S) \/ items' = y \o <<>>)
    BY <1>15 DEF JudgeFailed
  <2> HIDE DEF S, x, y
  <2>6. PICK r \in Seq(Recorded) : items' = y \o r /\ \A k \in DOMAIN r : Aside(r[k])
    <3>1. <<>> \in Seq(Recorded) /\ DOMAIN <<>> = {}
      OBVIOUS
    <3>2. QED
      BY <2>4, <2>5, <3>1
  <2>7. /\ y \in Seq(Recorded) /\ Len(y) = n + 1 /\ n \in Nat /\ DOMAIN items = 1..n
        /\ \A k \in 1..n : y[k] = items[k]
        /\ y[n + 1] = x
    BY <1>a, <2>2 DEF y
  <2>8. /\ items' \in Seq(Recorded) /\ Len(r) \in Nat /\ DOMAIN items' = 1..(n + 1 + Len(r))
        /\ \A k \in 1..(n + 1) : items'[k] = y[k]
        /\ \A k \in 1..(n + 1 + Len(r)) : k <= n + 1 \/ \E l \in DOMAIN r : items'[k] = r[l]
    <3>1. /\ y \o r \in Seq(Recorded) /\ Len(r) \in Nat /\ DOMAIN (y \o r) = 1..(Len(y) + Len(r))
          /\ \A k \in 1..Len(y) : (y \o r)[k] = y[k]
          /\ \A k \in 1..(Len(y) + Len(r)) : k <= Len(y) \/ \E l \in DOMAIN r : (y \o r)[k] = r[l]
      BY <2>7, Joined
    <3>2. QED
      BY <2>6, <2>7, <3>1
  <2> DEFINE m == n + 1 + Len(r)
  <2>9. /\ m \in Nat /\ n < m /\ n <= m /\ DOMAIN items' = 1..m
        /\ \A k \in 1..n : items'[k] = items[k]
        /\ items'[n + 1] = x
        /\ \A k \in 1..m : k <= n + 1 \/ Aside(items'[k])
    <3>1. m \in Nat /\ n < m /\ n <= m /\ n + 1 \in 1..(n + 1) /\ \A k \in 1..n : k \in 1..(n + 1)
      BY <2>7, <2>8
    <3>2. QED
      BY <2>6, <2>7, <2>8, <3>1
  <2> HIDE DEF m, n
  <2>10. /\ Streak' = Streak \cup {n + 1} /\ Streak \subseteq 1..n
         /\ \A k \in Streak : items'[k] = items[k]
    BY <1>a, <2>2, <2>7, <2>8, <2>9, Failing
  <2>11. CASE stop
    <3>1. Interrupted
      BY <2>1, <2>11 DEF BreakerInv, Going, Trying
    <3>2. Interrupted'
      BY <2>5, <2>7, <2>9, <3>1, InterruptionStays
    <3>3. QED
      BY <2>5, <2>11, <3>2 DEF BreakerInv
  <2>12. CASE ~stop
    <3>1. FailuresFollow
      BY <2>1, <2>12 DEF BreakerInv, Going, Trying
    <3>2. items'[n + 1].model = item.model /\ item.model \in Models
      BY <1>a, <2>2, <2>9 DEF Items
    <3>3. (Tripped(failures') => ThreeModels') /\ (~Tripped(failures') => FailuresFollow')
      BY <1>a, <2>5, <2>7, <2>10, <3>1, <3>2, OneMoreFailure
    <3>4. QED
      BY <2>5, <2>12, <3>3 DEF BreakerInv
  <2>13. QED
    BY <2>11, <2>12
<1>16. CASE JudgePassed
  <2> DEFINE x == Record(item, Judged)
  <2>1. item.kind \in TuneClass /\ item.kind \in Kinds /\ pc = "tuned"
    BY <1>16 DEF JudgePassed, ItemInv, Kinds
  <2>2. x \in Recorded /\ x.kind \in TuneClass /\ x.outcome = Judged
    BY <1>a, <2>1, JudgedFacts, RecordedFacts
  <2>3. /\ items' = Append(items, x) /\ signalled' = signalled /\ Judged \in {"interrupted",
             "succeeded"}
        /\ stop' = (stop \/ Judged = "interrupted") /\ (Judged = "succeeded" => failures' = <<>>)
    BY <1>16, JudgedFacts DEF JudgePassed
  <2> HIDE DEF x
  <2>4. /\ items' \in Seq(Recorded) /\ Len(items) \in Nat /\ DOMAIN items = 1..Len(items)
        /\ DOMAIN items' = 1..(Len(items) + 1) /\ items'[Len(items) + 1] = x
        /\ \A k \in 1..Len(items) : items'[k] = items[k]
    BY <1>a, <2>2, <2>3, Appended
  <2>5. CASE Judged = "interrupted"
    <3>1. Len(items) + 1 \in DOMAIN items'
      BY <2>4
    <3>2. Interrupted'
      BY <2>2, <2>4, <2>5, <3>1 DEF Interrupted
    <3>3. stop' = TRUE
      BY <2>3, <2>5
    <3>4. QED
      BY <3>2, <3>3 DEF BreakerInv
  <2>6. CASE Judged = "succeeded"
    <3>1. Streak' = {}
      BY <1>a, <2>2, <2>4, <2>6, Passing
    <3>2. failures' = <<>> /\ DOMAIN <<>> = {} /\ (stop' <=> stop)
      <4>1. Judged # "interrupted" /\ DOMAIN <<>> = {}
        BY <2>6
      <4>2. stop' <=> stop
        BY <2>3, <4>1, Zenon
      <4>3. QED
        BY <2>3, <2>6, <4>1, <4>2
    <3>3. FailuresFollow'
      BY <3>1, <3>2 DEF FailuresFollow
    <3>4. stop => Interrupted
      BY <2>1 DEF BreakerInv, Going, Trying
    <3>5. Len(items) + 1 \in Nat /\ Len(items) <= Len(items) + 1
      BY <2>4
    <3>6. stop => Interrupted'
      BY <2>3, <2>4, <3>4, <3>5, InterruptionStays
    <3>7. QED
      BY <3>2, <3>3, <3>6 DEF BreakerInv
  <2>7. QED
    BY <2>3, <2>5, <2>6
<1>17. CASE JudgeDeepened
  <2> DEFINE x == Record(item, Judged)
  <2>1. item.kind \in TuneClass /\ item.kind \in Kinds /\ pc = "tuned"
    BY <1>17 DEF JudgeDeepened, ItemInv, Kinds
  <2>2. x \in Recorded /\ x.kind \in TuneClass /\ x.outcome = Judged
    BY <1>a, <2>1, JudgedFacts, RecordedFacts
  <2>3. /\ items' = Append(items, x) /\ signalled' = signalled /\ Judged \in {"interrupted",
             "succeeded"}
        /\ stop' = (stop \/ Judged = "interrupted") /\ (Judged = "succeeded" => failures' = <<>>)
    BY <1>17, JudgedFacts DEF JudgeDeepened
  <2> HIDE DEF x
  <2>4. /\ items' \in Seq(Recorded) /\ Len(items) \in Nat /\ DOMAIN items = 1..Len(items)
        /\ DOMAIN items' = 1..(Len(items) + 1) /\ items'[Len(items) + 1] = x
        /\ \A k \in 1..Len(items) : items'[k] = items[k]
    BY <1>a, <2>2, <2>3, Appended
  <2>5. CASE Judged = "interrupted"
    <3>1. Len(items) + 1 \in DOMAIN items'
      BY <2>4
    <3>2. Interrupted'
      BY <2>2, <2>4, <2>5, <3>1 DEF Interrupted
    <3>3. stop' = TRUE
      BY <2>3, <2>5
    <3>4. QED
      BY <3>2, <3>3 DEF BreakerInv
  <2>6. CASE Judged = "succeeded"
    <3>1. Streak' = {}
      BY <1>a, <2>2, <2>4, <2>6, Passing
    <3>2. failures' = <<>> /\ DOMAIN <<>> = {} /\ (stop' <=> stop)
      <4>1. Judged # "interrupted" /\ DOMAIN <<>> = {}
        BY <2>6
      <4>2. stop' <=> stop
        BY <2>3, <4>1, Zenon
      <4>3. QED
        BY <2>3, <2>6, <4>1, <4>2
    <3>3. FailuresFollow'
      BY <3>1, <3>2 DEF FailuresFollow
    <3>4. stop => Interrupted
      BY <2>1 DEF BreakerInv, Going, Trying
    <3>5. Len(items) + 1 \in Nat /\ Len(items) <= Len(items) + 1
      BY <2>4
    <3>6. stop => Interrupted'
      BY <2>3, <2>4, <3>4, <3>5, InterruptionStays
    <3>7. QED
      BY <3>2, <3>3, <3>6 DEF BreakerInv
  <2>7. QED
    BY <2>3, <2>5, <2>6
<1>18. CASE SignalToChild
  <2>1. pc = "tuning" /\ pc' \in {"tuning", "tuned"} /\ UNCHANGED <<items, failures, stop,
        signalled>>
    BY <1>18 DEF SignalToChild, flags
  <2>2. QED
    BY <2>1, NothingRecorded DEF Going, Trying, Stopped
<1>19. CASE SignalToNight
  <2>1. stop' = TRUE /\ signalled' = TRUE
    BY <1>19 DEF SignalToNight
  <2>2. QED
    BY <2>1 DEF BreakerInv, Interrupted
<1>20. CASE Finalize
  <2>1. pc = "finalizing" /\ pc' = "ended" /\ UNCHANGED <<items, failures, stop, signalled>>
    BY <1>20 DEF Finalize, flags
  <2>2. QED
    BY <2>1, NothingRecorded DEF Going, Trying, Stopped
<1>21. CASE Crash
  <2>1. pc' = "off" /\ UNCHANGED <<items, failures, stop, signalled>>
    BY <1>21 DEF Crash, flags
  <2>2. QED
    BY <2>1, NothingRecorded DEF Going, Trying, Stopped
<1>22. CASE Rest
  <2>1. UNCHANGED <<pc, items, failures, stop, signalled>>
    BY <1>22 DEF Rest, vars
  <2>2. QED
    BY <2>1, NothingRecorded
<1>23. CASE UNCHANGED vars
  <2>1. UNCHANGED <<pc, items, failures, stop, signalled>>
    BY <1>23 DEF vars
  <2>2. QED
    BY <2>1, NothingRecorded
<1>24. QED
  BY <1>1, <1>2, <1>3, <1>4, <1>5, <1>6, <1>7, <1>8, <1>9, <1>10, <1>11, <1>12, <1>13, <1>14,
     <1>15, <1>16, <1>17, <1>18, <1>19, <1>20, <1>21, <1>22, <1>23 DEF Next

----------------------------------------------------------------------------
(* The invariant holds before the first night.                             *)
LEMMA Initially == Init => Inv
<1> SUFFICES ASSUME Init
             PROVE  Inv
  OBVIOUS
<1>1. /\ world \in Worlds /\ sessions = world.sessions /\ world.sessions \in Seq(Session)
      /\ 1 \in Models /\ world.nights \in Nat /\ world.time \in Nat /\ world.signals \in Nat
  BY WorldFacts DEF Init
<1>2. queue \in [PhaseNames -> Seq(Items)] /\ \A p \in PhaseNames : queue[p] = <<>>
  BY DEF Init
<1>3. Queue = <<>>
  BY <1>2 DEF Init, Queue, Phases, PhaseNames
<1>4. item \in Items /\ item.session = 0
  BY <1>1 DEF Init, NoItem, Items
<1>5. PlaceOK /\ FlagsOK
  <2>1. PlaceOK
    BY <1>1 DEF Init, PlaceOK, Over, Trying
  <2>2. FlagsOK
    BY Zenon DEF Init, FlagsOK
  <2>3. QED
    BY <2>1, <2>2
<1>6. QueuesOK /\ SessionOK /\ NotesOK
  <2>1. failures \in Seq(Models) /\ items \in Seq(Recorded) /\ DOMAIN records \subseteq Models
    BY DEF Init
  <2>2. Len(Queue) = 0 /\ pos = 0 /\ session = 0 /\ calibrated = {} /\ Len(sessions) \in Nat
    BY <1>1, <1>3 DEF Init
  <2>3. QED
    BY <1>2, <1>4, <2>1, <2>2 DEF QueuesOK, SessionOK, NotesOK
<1>7. TypeOK
  BY <1>1, <1>5, <1>6, TypeParts
<1>8. QueueInv
  BY <1>2 DEF QueueInv, QueueOK
<1>9. ItemInv /\ ChildInv /\ RecordsInv /\ PlanInv /\ BreakerInv
  BY DEF Init, ItemInv, ChildInv, RecordsInv, PlanInv, BreakerInv, Busy, Trying, Going
<1>10. OutcomeInv
  BY DEF Init, OutcomeInv
<1>11. QED
  BY <1>7, <1>8, <1>9, <1>10 DEF Inv

(* Every step preserves it.                                                *)
LEMMA Preserved == Inv /\ [Next]_vars => Inv'
<1> SUFFICES ASSUME Inv, [Next]_vars
             PROVE  Inv'
  OBVIOUS
<1>1. /\ TypeOK /\ QueueInv /\ ItemInv /\ ChildInv /\ RecordsInv /\ PlanInv /\ OutcomeInv
      /\ BreakerInv
  BY DEF Inv
<1>2. TypeOK' /\ QueueInv'
  BY <1>1, TypeInductive
<1>3. ItemInv' /\ ChildInv' /\ RecordsInv' /\ PlanInv'
  BY <1>1, ItemInductive, ChildInductive, RecordsInductive, PlanInductive
<1>4. OutcomeInv' /\ BreakerInv'
  BY <1>1, OutcomeInductive, BreakerInductive
<1>5. QED
  BY <1>2, <1>3, <1>4 DEF Inv

(* The inductive invariant holds of every night.                           *)
THEOREM Inductive == Spec => []Inv
<1>1. Init => Inv
  BY Initially
<1>2. Inv /\ [Next]_vars => Inv'
  BY Preserved
<1>3. QED
  BY <1>1, <1>2, PTL DEF Spec

(* Every variable has its type in every reachable state.                   *)
THEOREM TypeCorrect == Spec => []TypeOK
<1>1. Inv => TypeOK
  BY DEF Inv
<1>2. QED
  BY <1>1, Inductive, PTL

(* What a night decides by is evidence: run_nightshift's snapshot never    *)
(* refers to a session that is not completed, on disk, for its own model   *)
(* and with the context asked for, whatever the child sessions did since   *)
(* it was taken.                                                           *)
THEOREM RecordsAreRight == Spec => []RecordsAreEvidence
<1>1. Inv => RecordsAreEvidence
  BY DEF Inv, RecordsInv, Backed, RecordsAreEvidence
<1>2. QED
  BY <1>1, Inductive, PTL

(* The breaker property in its published form, with cardinalities.         *)
LEMMA BreakerFollows == Inv => BreakerIsRight
<1> SUFFICES ASSUME Inv
             PROVE  BreakerIsRight
  OBVIOUS
<1>1. BreakerInv /\ items \in Seq(Recorded)
  BY DEF Inv, TypeOK
<1>2. ModelsOf(Streak) \subseteq Models
  <2>1. \A k \in Streak : k \in DOMAIN items /\ items[k] \in Recorded
    BY <1>1 DEF Streak, Trials
  <2>2. QED
    BY <2>1 DEF ModelsOf, Recorded
<1>3. ASSUME pc = "ended", stop, ~Interrupted
      PROVE  Cardinality(ModelsOf(Streak)) >= 3
  <2>1. PICK a \in Streak, b \in Streak, c \in Streak :
            Distinct(items[a].model, items[b].model, items[c].model)
    BY <1>1, <1>3 DEF BreakerInv, ThreeModels
  <2> DEFINE T == {items[a].model, items[b].model, items[c].model}
             U == ModelsOf(Streak)
  <2>2. Cardinality(T) = 3
    <3>1. \A x, y, z : Distinct(x, y, z) => Cardinality({x, y, z}) = 3
      BY ThreeOf
    <3>2. QED
      BY <2>1, <3>1, Zenon
  <2>3. T \subseteq U
    BY DEF ModelsOf
  <2>4. IsFiniteSet(U)
    <3>1. IsFiniteSet(Models)
      BY FS_Interval, BoundsAssumption DEF Models
    <3>2. QED
      BY <1>2, <3>1, FS_Subset
  <2> HIDE DEF T, U
  <2>5. Cardinality(T) <= Cardinality(U) /\ Cardinality(U) \in Nat
    BY <2>3, <2>4, FS_Subset, FS_CardinalityType
  <2>6. Cardinality(U) >= 3
    BY <2>2, <2>5
  <2>7. QED
    BY <2>6 DEF U
<1>4. ASSUME pc = "loop", ~stop, NEW a \in Streak, NEW b \in Streak, NEW c \in Streak, InARow(a,
             b, c)
      PROVE  Cardinality(ModelsOf({a, b, c})) < 3
  <2>1. ~Distinct(items[a].model, items[b].model, items[c].model)
    BY <1>1, <1>4 DEF BreakerInv, FailuresFollow, Going, Trying
  <2>2. ModelsOf({a, b, c}) = {items[a].model, items[b].model, items[c].model}
    BY DEF ModelsOf
  <2>3. \A x, y, z : ~Distinct(x, y, z) => Cardinality({x, y, z}) < 3
    BY ThreeOf
  <2>4. QED
    BY <2>1, <2>2, <2>3, Zenon
<1>5. QED
  BY <1>3, <1>4, Zenon DEF BreakerIsRight

(* Why a night stopped and how it exited: the circuit breaker opened for   *)
(* three models that failed in a row and not otherwise, exit 0 means that  *)
(* nothing failed and 4 that a signal came.                                *)
THEOREM EndsAreHonest == Spec => []EndIsHonest
<1>1. ASSUME Inv, pc = "ended"
      PROVE  /\ exit = 0 => \A k \in DOMAIN items : items[k].outcome \notin {"failed",
                  "interrupted", "error"}
             /\ signalled => exit = 4
  <2>1. /\ exit = IF Interrupted THEN 4 ELSE IF failed THEN 1 ELSE 0
        /\ ~failed => \A k \in DOMAIN items : items[k].outcome \notin {"failed", "error"}
    BY <1>1 DEF Inv, OutcomeInv
  <2>2. exit = 0 => ~Interrupted /\ ~failed
    BY <2>1
  <2>3. QED
    BY <2>1, <2>2 DEF Interrupted
<1>2. Inv => ExitIsHonest
  BY <1>1 DEF ExitIsHonest
<1>3. Inv => EndIsHonest
  BY <1>2, BreakerFollows DEF EndIsHonest
<1>4. QED
  BY <1>3, Inductive, PTL

(* One step leaves completed sessions completed.                           *)
LEMMA CompletedStep ==
    Inv /\ [Next]_vars => \A i \in DOMAIN sessions : Done(sessions[i]) => Done(sessions'[i])
<1> SUFFICES ASSUME Inv, [Next]_vars, NEW i \in DOMAIN sessions, Done(sessions[i])
             PROVE  Done(sessions'[i])
  OBVIOUS
<1>1. TypeOK /\ ChildInv /\ Touched /\ sessions \in Seq(Session)
  BY DiskSteps DEF Inv, TypeOK
<1>2. i \in 1..Len(sessions)
  BY <1>1
<1>3. sessions'[i] = sessions[i]
  BY <1>1, <1>2, DoneStays
<1>4. QED
  BY <1>3

TuneStep ==
    item.kind = "tune" /\ Len(sessions') > Len(sessions) =>
        LET others == {i \in DOMAIN sessions : sessions[i].model = item.model}
        IN  /\ \A i \in others : Done(sessions[i])
            /\ others # {} => ~sessions[Max(others)].ctx

(* One step opens a directory to tune only where the plan may.             *)
LEMMA TuneIsRight == Inv /\ [Next]_vars => TuneStep
<1> SUFFICES ASSUME Inv, [Next]_vars, item.kind = "tune", Len(sessions') > Len(sessions)
             PROVE  FirstOf(item.model)
  BY DEF TuneStep, FirstOf
<1>1. TypeOK /\ QueueInv /\ ItemInv /\ ChildInv /\ PlanInv
  BY DEF Inv
<1>2. Touched /\ Len(sessions) \in Nat
  BY <1>1, DiskSteps DEF TypeOK
<1>3. Prepare /\ pc = "preparing" /\ pc \in Busy
  <2>1. Len(sessions') # Len(sessions)
    BY <1>2
  <2>2. QED
    BY <1>2, <2>1 DEF Touched, Prepare, Busy, Trying
<1>4. item.kind = Phases[phase] /\ pos \in DOMAIN Queue /\ item = Queue[pos]
  BY <1>1, <1>3, TypeParts, KindFacts
<1>5. phase = 2
  BY <1>1, <1>4 DEF TypeOK, Phases
<1>6. pos \in DOMAIN queue["tune"] /\ item = queue["tune"][pos] /\ Pending(2, pos)
  BY <1>3, <1>4, <1>5 DEF Queue, Pending, Phases
<1>7. QED
  BY <1>1, <1>3, <1>6 DEF PlanInv, Trying

(* A completed session is never resumed, torn or otherwise undone, and a   *)
(* tune never starts over a session of its model that could be resumed or  *)
(* counted, for every sequence of crashes, signals and nights.             *)
THEOREM NoWorkIsUndone == Spec => WorkIsKept
<1>1. Inv /\ [Next]_vars => [\A i \in DOMAIN sessions : Done(sessions[i]) => Done(sessions'[i])]_vars
  BY CompletedStep
<1>2. Inv /\ [Next]_vars =>
          [item.kind = "tune" /\ Len(sessions') > Len(sessions) =>
               LET others == {i \in DOMAIN sessions : sessions[i].model = item.model}
               IN  /\ \A i \in others : Done(sessions[i])
                   /\ others # {} => ~sessions[Max(others)].ctx]_vars
  BY TuneIsRight DEF TuneStep
<1>3. QED
  BY <1>1, <1>2, Inductive, PTL DEF Spec, WorkIsKept, CompletedStays, TuneIsFirst

----------------------------------------------------------------------------
\* Work that a night nobody stopped has come to, and a record of a piece of work.
Present == Trying \cup {"finalizing", "ended"}

Reached(i, k) ==
    \/ phase > i
    \/ phase = i /\ k < pos
    \/ phase = i /\ k = pos /\ pc \notin Busy

Same(r, e) == r.kind = e.kind /\ r.model = e.model /\ r.session = e.session

AllReached == pc \in {"finalizing", "ended"} => phase > 4 \/ (phase = 4 /\ pos = Len(Queue))

\* All that was reached has a record, and a night ends with all of it reached.
Covered ==
    /\ \A i \in 1..4 : \A k \in DOMAIN queue[Phases[i]] :
        Reached(i, k) => \E r \in DOMAIN items : Same(items[r], queue[Phases[i]][k])
    /\ AllReached

\* What was not reached has none, calibrations apart, and records are unique but
\* for deepenings and deferred calibrations.
RecordedOnce ==
    /\ \A i \in {1, 2, 4} : \A k \in DOMAIN queue[Phases[i]] :
        ~Reached(i, k) => \A r \in DOMAIN items : ~Same(items[r], queue[Phases[i]][k])
    /\ \A r, s \in DOMAIN items :
        r # s /\ Same(items[r], items[s]) =>
            \/ items[r].kind = "deepen"
            \/ items[r].kind = "calibrate" /\ "deferred" \in {items[r].outcome, items[s].outcome}
    /\ \A r \in DOMAIN items :
        /\ items[r].kind = "calibrate" /\ items[r].outcome # "deferred" =>
            items[r].model \in calibrated
        /\ items[r].kind = "retune" => phase >= 4

\* A model is tuned again once, after its calibration.
RetunesInv ==
    \A k \in DOMAIN queue["retune"] :
        LET q == queue["retune"]
        IN  q[k].model \in calibrated /\ \A l \in DOMAIN q : q[l].model = q[k].model => l = k

\* A model is calibrated once, against a reference that the snapshot has.
CalibratedInv ==
    /\ phase < 3 => calibrated = {}
    /\ pc = "calibrating" => item.ref \in DOMAIN records /\ item.model \notin calibrated
    /\ phase = 3 => \A m \in calibrated :
        \E k \in DOMAIN queue["calibrate"] :
            /\ Reached(3, k)
            /\ queue["calibrate"][k].model = m /\ queue["calibrate"][k].ref \in DOMAIN records

\* A model is twice among the calibrations only when its record, which the plan
\* saw, is hidden: a copy that the tune of its representative then brings again.
DoublesInv ==
    LET q == queue["calibrate"]
    IN  /\ phase = 1 => \A k, l \in DOMAIN q : q[k].model = q[l].model => k = l
        /\ phase \in {2, 3} =>
            \A k, l \in DOMAIN q : k < l /\ q[k].model = q[l].model =>
                /\ q[k].ref = q[k].model /\ world.rep[q[k].model] # q[k].model
                /\ q[k].model \notin DOMAIN records
                /\ q[k].model \notin DOMAIN Registry(sessions)
        /\ \A k \in DOMAIN q : q[k].ref = q[k].model \/ q[k].model \in Siblings(q[k].ref)
        /\ \A k \in DOMAIN queue["tune"] :
            /\ world.rep[queue["tune"][k].model] = queue["tune"][k].model
            /\ ~Reached(2, k) => \A l \in DOMAIN q : q[l].ref # queue["tune"][k].model

LeftInv ==
    pc \in Present /\ ~stop =>
        Covered /\ RecordedOnce /\ RetunesInv /\ CalibratedInv /\ DoublesInv

(* What the invariant says of the queues and of the item at hand.          *)
LEMMA NightFacts ==
    ASSUME Inv
    PROVE  /\ QueueShape /\ world \in Worlds /\ sessions \in Seq(Session)
           /\ item \in Items /\ items \in Seq(Recorded) /\ calibrated \subseteq Models
           /\ phase \in 1..5 /\ pos \in Nat /\ pos <= Len(Queue)
           /\ \A i \in 1..5 :
                /\ Phases[i] \in PhaseNames /\ queue[Phases[i]] \in Seq(Items)
                /\ DOMAIN queue[Phases[i]] = 1..Len(queue[Phases[i]])
                /\ Len(queue[Phases[i]]) \in Nat
                /\ \A k \in DOMAIN queue[Phases[i]] :
                    /\ queue[Phases[i]][k].kind = Phases[i]
                    /\ i # 1 => queue[Phases[i]][k].session = 0
           /\ pc \in Busy =>
                /\ item.kind = Phases[phase] /\ item.kind \in Kinds
                /\ pos \in DOMAIN queue[Phases[phase]] /\ item = queue[Phases[phase]][pos]
           /\ pc \in Trying => ResumesLeft /\ TunesLeft
<1>1. TypeOK /\ QueueInv /\ ItemInv /\ PlanInv /\ PlaceOK /\ QueuesOK
  BY TypeParts DEF Inv
<1>2. /\ world \in Worlds /\ sessions \in Seq(Session) /\ item \in Items
      /\ items \in Seq(Recorded) /\ calibrated \subseteq Models /\ phase \in 1..5
      /\ pos \in 0..Len(Queue) /\ QueueShape
  BY <1>1 DEF TypeOK, QueueShape
<1>3. ASSUME NEW i \in 1..5
      PROVE  /\ Phases[i] \in PhaseNames /\ queue[Phases[i]] \in Seq(Items)
             /\ DOMAIN queue[Phases[i]] = 1..Len(queue[Phases[i]])
             /\ Len(queue[Phases[i]]) \in Nat
             /\ \A k \in DOMAIN queue[Phases[i]] :
                 /\ queue[Phases[i]][k].kind = Phases[i]
                 /\ i # 1 => queue[Phases[i]][k].session = 0
  <2>1. Phases[i] \in PhaseNames /\ (i # 1 => Phases[i] # "resume")
    BY DEF Phases, PhaseNames
  <2>2. QueueOK(queue[Phases[i]], Phases[i], sessions)
    BY <1>1, <2>1 DEF QueueInv
  <2>3. QED
    BY <2>1, <2>2 DEF QueueOK
<1>4. Len(Queue) \in Nat
  BY <1>2, <1>3 DEF Queue
<1>5. pc \in Busy =>
        /\ item.kind = Phases[phase] /\ item.kind \in Kinds
        /\ pos \in DOMAIN queue[Phases[phase]] /\ item = queue[Phases[phase]][pos]
  BY <1>1, KindFacts DEF Queue
<1>6. pc \in Trying => ResumesLeft /\ TunesLeft
  BY <1>1, PlanParts
<1>7. QED
  BY <1>2, <1>3, <1>4, <1>5, <1>6

\* The steps that record nothing and move nothing.
Quiet ==
    /\ UNCHANGED <<phase, pos, queue, item, items, calibrated, records>>
    /\ \/ pc' = pc
       \/ pc \in Busy /\ pc' \in Busy \ {"calibrating"}
       \/ pc = "finalizing" /\ pc' = "ended"
       \/ pc' = "off"
       \/ stop'
    /\ stop => stop'

(* Every other step is one of a dozen.                                     *)
LEMMA QuietSteps ==
    [Next]_vars =>
        \/ StartNight \/ Pick \/ NextPhase \/ EnterDeepening \/ LeaveLoop \/ Defer
        \/ StartCalibration \/ \E v \in {"consistent", "drift", "error"} : EndCalibration(v)
        \/ JudgeFailed \/ JudgePassed \/ JudgeDeepened \/ Quiet
<1> SUFFICES ASSUME [Next]_vars
             PROVE  \/ StartNight \/ Pick \/ NextPhase \/ EnterDeepening \/ LeaveLoop \/ Defer
                    \/ StartCalibration
                    \/ \E v \in {"consistent", "drift", "error"} : EndCalibration(v)
                    \/ JudgeFailed \/ JudgePassed \/ JudgeDeepened \/ Quiet
  OBVIOUS
<1>1. CASE StartTuning
  BY <1>1 DEF StartTuning, Quiet, place, flags, Busy, Trying
<1>2. CASE Prepare
  BY <1>2 DEF Prepare, Quiet, place, flags, Busy, Trying
<1>3. CASE PrepareFails
  BY <1>3 DEF PrepareFails, Quiet, place, flags, Busy, Trying
<1>4. CASE ChildFinishes
  BY <1>4 DEF ChildFinishes, Leaves, Quiet, place, flags, Busy, Trying
<1>5. CASE ChildFails
  BY <1>5 DEF ChildFails, Leaves, Quiet, place, flags, Busy, Trying
<1>6. CASE ChildRaises
  BY <1>6 DEF ChildRaises, Leaves, Quiet, place, flags, Busy, Trying
<1>7. CASE SignalToChild
  BY <1>7 DEF SignalToChild, Quiet, place, flags, Busy, Trying
<1>8. CASE SignalToNight
  BY <1>8 DEF SignalToNight, Quiet, place
<1>9. CASE Finalize
  BY <1>9 DEF Finalize, Quiet, place, flags
<1>10. CASE Crash
  BY <1>10 DEF Crash, Quiet, place, flags
<1>11. CASE Rest \/ UNCHANGED vars
  BY <1>11 DEF Rest, vars, Quiet
<1>12. QED
  BY <1>1, <1>2, <1>3, <1>4, <1>5, <1>6, <1>7, <1>8, <1>9, <1>10, <1>11, Zenon DEF Next

(* Work on other models does not bring a model into the registry.          *)
LEMMA RegistryStays ==
    ASSUME sessions \in Seq(Session), Touched, ChildInv, world' = world, NEW d,
           pc = "tuning" \/ Prepare => item.model # d
    PROVE  (d \in DOMAIN Registry(sessions))' <=> d \in DOMAIN Registry(sessions)
<1>0. /\ Len(sessions) \in Nat /\ Len(sessions') \in Nat /\ Len(sessions) <= Len(sessions')
      /\ Len(sessions') # Len(sessions) => Len(sessions') = Len(sessions) + 1
  BY DEF Touched
<1>1. /\ DOMAIN sessions = 1..Len(sessions) /\ DOMAIN sessions' = 1..Len(sessions')
      /\ Len(sessions') # Len(sessions) => sessions'[Len(sessions) + 1].model # d
  BY DEF Touched
<1>2. ASSUME NEW i \in 1..Len(sessions), sessions[i].model = d
      PROVE  sessions'[i] = sessions[i]
  BY <1>1, <1>2 DEF Touched, ChildInv
<1>3. ASSUME NEW i \in 1..Len(sessions), sessions'[i].model = d
      PROVE  sessions[i].model = d
  BY <1>3 DEF Touched
<1>4. ASSUME NEW i \in 1..Len(sessions'), sessions'[i].model = d
      PROVE  i \in 1..Len(sessions)
  <2>1. i \in Nat /\ i >= 1 /\ i <= Len(sessions')
    BY <1>0
  <2>2. i # Len(sessions) + 1
    <3>1. CASE Len(sessions') = Len(sessions)
      BY <1>0, <2>1, <3>1
    <3>2. CASE Len(sessions') # Len(sessions)
      BY <1>1, <1>4, <3>2
    <3>3. QED
      BY <3>1, <3>2
  <2>3. i <= Len(sessions)
    BY <1>0, <2>1, <2>2
  <2>4. QED
    BY <1>0, <2>1, <2>3
<1>5. ASSUME NEW i \in 1..Len(sessions)
      PROVE  i \in 1..Len(sessions')
  BY <1>0
<1>6. /\ Evidence(sessions', d) = Evidence(sessions, d)
      /\ \A i \in Evidence(sessions, d) : sessions'[i] = sessions[i]
  BY <1>1, <1>2, <1>3, <1>4, <1>5 DEF Evidence
<1>7. Evidence(sessions, d) # {} => Max(Evidence(sessions, d)) \in Evidence(sessions, d)
  <2>1. Evidence(sessions, d) \in SUBSET (1..Len(sessions))
    BY <1>1 DEF Evidence
  <2>2. QED
    BY <1>0, <2>1, MaxIsLargest
<1> DEFINE e == Evidence(sessions, d)
<1>8. /\ d \in DOMAIN Registry(sessions) <=>
             d \in world.found /\ e # {} /\ sessions[Max(e)].ctx
      /\ (d \in DOMAIN Registry(sessions))' <=>
             d \in world.found /\ Evidence(sessions', d) # {}
             /\ sessions'[Max(Evidence(sessions', d))].ctx
  <2>1. ASSUME NEW w, NEW ss
        PROVE  d \in DOMAIN [m \in {n \in w.found : Evidence(ss, n) # {} /\ ss[Max(Evidence(ss, n))].ctx}
                               |-> Max(Evidence(ss, m))]
               <=> d \in w.found /\ Evidence(ss, d) # {} /\ ss[Max(Evidence(ss, d))].ctx
    OBVIOUS
  <2>2. d \in DOMAIN Registry(sessions) <=>
             d \in world.found /\ e # {} /\ sessions[Max(e)].ctx
    BY <2>1 DEF Registry
  <2>3. (d \in DOMAIN Registry(sessions))' <=>
             d \in world'.found /\ Evidence(sessions', d) # {}
             /\ sessions'[Max(Evidence(sessions', d))].ctx
    BY <2>1 DEF Registry, Evidence, Done
  <2>4. QED
    BY <2>2, <2>3
<1> HIDE DEF e
<1>9. Evidence(sessions', d) = e /\ (e # {} => sessions'[Max(e)] = sessions[Max(e)])
  BY <1>6, <1>7 DEF e
<1>10. QED
  BY <1>8, <1>9

(* A quiet step reaches nothing more.                                      *)
LEMMA ReachedStays ==
    ASSUME Quiet, pc' \in Present, ~stop'
    PROVE  /\ pc \in Present /\ ~stop /\ (pc' \in Busy <=> pc \in Busy)
           /\ pc' = "calibrating" => pc = "calibrating"
           /\ \A i, k : (Reached(i, k)' <=> Reached(i, k))
<1>1. /\ pc' = pc \/ (pc \in Busy /\ pc' \in Busy \ {"calibrating"})
             \/ (pc = "finalizing" /\ pc' = "ended")
      /\ UNCHANGED <<phase, pos>> /\ ~stop
  BY DEF Quiet, Present, Trying
<1>2. /\ pc \in Present /\ ~stop /\ (pc' \in Busy <=> pc \in Busy)
      /\ pc' = "calibrating" => pc = "calibrating"
  BY <1>1 DEF Present, Busy, Trying
<1>3. QED
  BY <1>1, <1>2 DEF Reached

(* A quiet step leaves nothing out.                                        *)
LEMMA QuietKeeps ==
    ASSUME Inv, LeftInv, Quiet, Touched, world' = world, Prepare => pc = "preparing",
           pc' \in Present, ~stop'
    PROVE  Covered' /\ RecordedOnce' /\ RetunesInv' /\ CalibratedInv' /\ DoublesInv'
<1>1. /\ pc \in Present /\ ~stop /\ (pc' \in Busy <=> pc \in Busy)
      /\ pc' = "calibrating" => pc = "calibrating"
      /\ \A i, k : (Reached(i, k)' <=> Reached(i, k))
      /\ UNCHANGED <<phase, pos, queue, item, items, calibrated, records>>
  BY ReachedStays DEF Quiet
<1>2. Covered /\ RecordedOnce /\ RetunesInv /\ CalibratedInv /\ DoublesInv
  BY <1>1 DEF LeftInv
<1>3. Covered'
  <2>1. pc' \in {"finalizing", "ended"} => pc \in {"finalizing", "ended"}
    BY <1>1 DEF Present, Busy, Trying, Quiet
  <2>2. Queue' = Queue
    BY <1>1 DEF Queue
  <2>3. QED
    BY <1>1, <1>2, <2>1, <2>2 DEF Covered, AllReached, Same
<1>4. RecordedOnce'
  BY <1>1, <1>2 DEF RecordedOnce, Same
<1>5. RetunesInv' /\ CalibratedInv'
  BY <1>1, <1>2 DEF RetunesInv, CalibratedInv
<1>6. DoublesInv'
  <2>1. Siblings(1)' = Siblings(1) /\ \A m : Siblings(m)' = Siblings(m)
    BY DEF Siblings
  <2>2. ASSUME NEW d, phase \in {2, 3}, world.rep[d] # d
        PROVE  (d \in DOMAIN Registry(sessions))' <=> d \in DOMAIN Registry(sessions)
    <3>1. CASE pc = "tuning" \/ Prepare
      <4>1. pc \in Busy /\ item.kind \in TuneClass
        BY <3>1 DEF Inv, ItemInv, Busy, Trying
      <4>2. phase = 2 /\ pos \in DOMAIN queue["tune"] /\ item = queue["tune"][pos]
        BY <2>2, <4>1, NightFacts DEF Phases, TuneClass
      <4>3. world.rep[item.model] = item.model
        BY <1>2, <4>2 DEF DoublesInv
      <4>4. item.model # d
        BY <2>2, <4>3
      <4>5. QED
        BY <4>4, NightFacts, RegistryStays DEF Inv
    <3>2. CASE ~(pc = "tuning" \/ Prepare)
      BY <3>2, NightFacts, RegistryStays DEF Inv
    <3>3. QED
      BY <3>1, <3>2
  <2>3. QED
    BY <1>1, <1>2, <2>1, <2>2 DEF DoublesInv
<1>7. QED
  BY <1>3, <1>4, <1>5, <1>6

(* A plan calibrates a model once, against a record it has, and tunes      *)
(* representatives.                                                        *)
LEMMA CalibrationsPlan ==
    ASSUME world \in Worlds, NEW ss \in Seq(Session)
    PROVE  LET c == Calibrations(ss)
           IN  /\ \A k \in DOMAIN c :
                    /\ c[k].ref \in DOMAIN Registry(ss)
                    /\ c[k].ref = c[k].model \/ c[k].model \in Siblings(c[k].ref)
               /\ \A k, l \in DOMAIN c : c[k].model = c[l].model => k = l
<1> DEFINE R == References(ss)
           own == Ascending(R)
           n == Cardinality(R)
           S == {s \in world.found : Transferable(ss, s)}
           q == Ascending(S)
           m == Cardinality(S)
           o == [k \in DOMAIN own |-> Item("calibrate", ss[own[k]].model, 0, ss[own[k]].model)]
           r == [k \in DOMAIN q |-> Item("calibrate", q[k], 0, world.rep[q[k]])]
           reg == DOMAIN Registry(ss)
<1>1. R \in SUBSET (1..Len(ss)) /\ Len(ss) \in Nat
  BY RegistryFacts
<1>2. n \in Nat /\ DOMAIN own = 1..n /\ \A k \in 1..n : own[k] \in R
  BY <1>1, Ordered
<1>3. ASSUME NEW k \in 1..n, NEW l \in 1..n, own[k] = own[l]
      PROVE  k = l
  BY <1>1, <1>2, <1>3, Ordered
<1>4. S \in SUBSET (1..NumModels) /\ NumModels \in Nat
  BY WorldFacts DEF Models
<1>5. m \in Nat /\ DOMAIN q = 1..m /\ \A k \in 1..m : q[k] \in S
  BY <1>4, Ordered
<1>6. ASSUME NEW k \in 1..m, NEW l \in 1..m, q[k] = q[l]
      PROVE  k = l
  BY <1>4, <1>5, <1>6, Ordered
<1>7. ASSUME NEW x \in R
      PROVE  ss[x].model \in reg /\ x = Registry(ss)[ss[x].model]
  <2>1. PICK d \in reg : x = Registry(ss)[d]
    BY DEF References
  <2>2. ss[x].model = d
    BY <2>1, RegistryFacts
  <2>3. QED
    BY <2>1, <2>2
<1>8. ASSUME NEW k \in 1..n
      PROVE  o[k].model = ss[own[k]].model /\ o[k].ref = o[k].model /\ o[k].model \in reg
  BY <1>2, <1>7 DEF Item
<1>9. ASSUME NEW k \in 1..m
      PROVE  /\ r[k].model = q[k] /\ r[k].ref = world.rep[q[k]]
             /\ r[k].model \notin reg /\ r[k].ref \in reg /\ r[k].model \in Siblings(r[k].ref)
  BY <1>5 DEF Item, Transferable
<1>10. \A k, l \in 1..n : o[k].model = o[l].model => k = l
  <2>1. ASSUME NEW k \in 1..n, NEW l \in 1..n, o[k].model = o[l].model
        PROVE  own[k] = own[l]
    BY <1>2, <1>7, <1>8, <2>1
  <2>2. QED
    BY <1>3, <2>1
<1>11. \A k, l \in 1..m : r[k].model = r[l].model => k = l
  <2>1. ASSUME NEW k \in 1..m, NEW l \in 1..m, r[k].model = r[l].model
        PROVE  q[k] = q[l]
    BY <1>9, <2>1
  <2>2. QED
    BY <1>6, <2>1
<1>12. Calibrations(ss) = o \o r
  BY DEF Calibrations
<1>13. DOMAIN o = 1..n /\ DOMAIN r = 1..m
  BY <1>2, <1>5
<1>14. o = [k \in 1..n |-> o[k]] /\ r = [k \in 1..m |-> r[k]]
  BY <1>2, <1>5
<1> HIDE DEF o, r, n, m, own, q, reg, R, S
<1> DEFINE V == {o[k] : k \in 1..n} \cup {r[k] : k \in 1..m}
<1>15. o \in Seq(V) /\ r \in Seq(V) /\ Len(o) = n /\ Len(r) = m
  <2>1. o \in [1..n -> V] /\ r \in [1..m -> V]
    BY <1>14
  <2> HIDE DEF V
  <2>2. QED
    BY <1>2, <1>5, <2>1, FunctionIsSeq
<1>16. /\ DOMAIN (o \o r) = 1..(n + m)
       /\ \A k \in 1..(n + m) : (o \o r)[k] = IF k <= n THEN o[k] ELSE r[k - n]
  <2> HIDE DEF V
  <2>1. QED
    BY <1>2, <1>5, <1>15
<1> DEFINE c == o \o r
<1> HIDE DEF c
<1>17. ASSUME NEW k \in 1..(n + m)
       PROVE  \/ k \in 1..n /\ c[k] = o[k]
              \/ k - n \in 1..m /\ c[k] = r[k - n] /\ ~(k <= n)
  BY <1>2, <1>5, <1>16 DEF c
<1>18. \A k \in 1..(n + m) :
          c[k].ref \in reg /\ (c[k].ref = c[k].model \/ c[k].model \in Siblings(c[k].ref))
  BY <1>8, <1>9, <1>17
<1>19. ASSUME NEW k \in 1..(n + m), NEW l \in 1..(n + m), c[k].model = c[l].model
       PROVE  k = l
  <2>1. CASE k \in 1..n /\ l \in 1..n
    BY <1>2, <1>10, <1>17, <1>19, <2>1
  <2>2. CASE k \notin 1..n /\ l \notin 1..n
    <3>1. k - n = l - n
      BY <1>11, <1>17, <1>19, <2>2
    <3>2. QED
      BY <1>2, <1>5, <3>1
  <2>3. CASE k \in 1..n /\ l \notin 1..n
    <3>1. c[k] = o[k] /\ l - n \in 1..m /\ c[l] = r[l - n]
      BY <1>2, <1>17, <2>3
    <3>2. QED
      BY <1>8, <1>9, <1>19, <2>3, <3>1
  <2>4. CASE k \notin 1..n /\ l \in 1..n
    <3>1. c[l] = o[l] /\ k - n \in 1..m /\ c[k] = r[k - n]
      BY <1>2, <1>17, <2>4
    <3>2. QED
      BY <1>8, <1>9, <1>19, <2>4, <3>1
  <2>5. QED
    BY <2>1, <2>2, <2>3, <2>4
<1>20. QED
  BY <1>12, <1>16, <1>18, <1>19 DEF c, reg

(* What is tuned is its own representative.                                *)
LEMMA TunesPlan ==
    ASSUME world \in Worlds, NEW ss \in Seq(Session)
    PROVE  \A k \in DOMAIN Tunes(ss) :
              /\ world.rep[Tunes(ss)[k].model] = Tunes(ss)[k].model
              /\ Tunes(ss)[k].model \notin DOMAIN Registry(ss)
<1> DEFINE S == {m \in world.found : world.rep[m] = m /\ Untuned(ss, m)}
           q == Ascending(S)
           n == Cardinality(S)
<1>1. S \in SUBSET (1..NumModels) /\ NumModels \in Nat
  BY WorldFacts DEF Models
<1>2. n \in Nat /\ DOMAIN q = 1..n /\ \A k \in 1..n : q[k] \in S
  BY <1>1, Ordered
<1>3. Tunes(ss) = [k \in 1..n |-> Item("tune", q[k], 0, 1)]
  BY <1>2 DEF Tunes
<1>4. \A k \in 1..n : Tunes(ss)[k].model = q[k]
  BY <1>3 DEF Item
<1>5. DOMAIN Tunes(ss) = 1..n
  BY <1>3
<1>6. QED
  BY <1>2, <1>4, <1>5 DEF Untuned

(* A night starts with nothing reached, recorded or calibrated.            *)
LEMMA StartKeeps ==
    ASSUME Inv, StartNight
    PROVE  Covered' /\ RecordedOnce' /\ RetunesInv' /\ CalibratedInv' /\ DoublesInv'
<1>1. world \in Worlds /\ sessions \in Seq(Session)
  BY NightFacts
<1>2. /\ phase' = 1 /\ pos' = 0 /\ pc' = "loop" /\ items' = <<>> /\ calibrated' = {}
      /\ queue' = Plan(sessions) /\ world' = world /\ sessions' = sessions
  BY DEF StartNight, Begin
<1>3. /\ queue'["tune"] = Tunes(sessions) /\ queue'["calibrate"] = Calibrations(sessions)
      /\ queue'["retune"] = <<>>
  BY <1>2 DEF Plan, PhaseNames
<1>4. ASSUME NEW i \in 1..4, NEW k \in DOMAIN queue'[Phases[i]]
      PROVE  ~Reached(i, k)'
  <2>1. Phases[i] \in PhaseNames
    BY DEF Phases, PhaseNames
  <2>2. Plan(sessions)[Phases[i]] \in Seq(Items)
    BY <1>1, <2>1, PlanFacts
  <2>3. k \in Nat /\ k >= 1
    BY <1>2, <1>4, <2>2
  <2>4. QED
    BY <1>2, <2>3 DEF Reached
<1>5. DOMAIN items' = {}
  BY <1>2
<1>6. Covered'
  BY <1>2, <1>4 DEF Covered, AllReached
<1>7. RecordedOnce'
  BY <1>5 DEF RecordedOnce
<1>8. RetunesInv' /\ CalibratedInv'
  BY <1>2, <1>3 DEF RetunesInv, CalibratedInv
<1>9. DoublesInv'
  <2>1. \A m : Siblings(m)' = Siblings(m)
    BY <1>2 DEF Siblings
  <2> DEFINE c == Calibrations(sessions)
             t == Tunes(sessions)
             reg == DOMAIN Registry(sessions)
  <2>2. /\ \A k \in DOMAIN c : c[k].ref \in reg
             /\ (c[k].ref = c[k].model \/ c[k].model \in Siblings(c[k].ref))
        /\ \A k, l \in DOMAIN c : c[k].model = c[l].model => k = l
    BY <1>1, CalibrationsPlan
  <2>3. \A k \in DOMAIN t : world.rep[t[k].model] = t[k].model /\ t[k].model \notin reg
    BY <1>1, TunesPlan
  <2> HIDE DEF c, t, reg
  <2>4. queue'["tune"] = t /\ queue'["calibrate"] = c
    BY <1>3 DEF c, t
  <2>5. QED
    BY <1>2, <2>1, <2>2, <2>3, <2>4 DEF DoublesInv
<1>10. QED
  BY <1>6, <1>7, <1>8, <1>9

(* A step that only moves on.                                              *)
LEMMA MovesOn ==
    ASSUME Inv, Covered, RecordedOnce, RetunesInv, CalibratedInv, DoublesInv,
           UNCHANGED <<items, calibrated, world, sessions>>,
           phase' \in Nat, phase <= phase', records' = records \/ phase' > 3,
           \A i \in 1..4 : queue'[Phases[i]] = queue[Phases[i]],
           \A i \in 1..4 : \A k \in DOMAIN queue[Phases[i]] : (Reached(i, k)' <=> Reached(i, k))
    PROVE  /\ AllReached' => Covered'
           /\ RecordedOnce' /\ RetunesInv' /\ DoublesInv'
           /\ pc' # "calibrating" => CalibratedInv'
<1>1. Phases[1] = "resume" /\ Phases[2] = "tune" /\ Phases[3] = "calibrate" /\ Phases[4] = "retune"
  BY DEF Phases
<1>2. /\ queue'["tune"] = queue["tune"] /\ queue'["calibrate"] = queue["calibrate"]
      /\ queue'["retune"] = queue["retune"]
      /\ \A k \in DOMAIN queue["tune"] : (Reached(2, k)' <=> Reached(2, k))
      /\ \A k \in DOMAIN queue["calibrate"] : (Reached(3, k)' <=> Reached(3, k))
  BY <1>1
<1>3. phase \in 1..5 /\ DOMAIN queue["calibrate"] \subseteq Nat
  BY <1>1, NightFacts
<1>4. AllReached' => Covered'
  BY DEF Covered, Same
<1>5. RecordedOnce'
  <2>1. \A i \in {1, 2, 4} : i \in 1..4
    OBVIOUS
  <2>2. phase >= 4 => phase' >= 4
    BY <1>3
  <2>3. QED
    BY <2>1, <2>2 DEF RecordedOnce, Same
<1>6. RetunesInv'
  BY <1>2 DEF RetunesInv
<1>7. DoublesInv'
  <2>1. \A m : Siblings(m)' = Siblings(m)
    BY DEF Siblings
  <2>2. (DOMAIN Registry(sessions))' = DOMAIN Registry(sessions)
    BY DEF Registry, Evidence, Done
  <2>3. phase' = 1 => phase = 1
    BY <1>3
  <2>4. phase' \in {2, 3} => phase \in {1, 2, 3} /\ records' = records
    BY <1>3
  <2>5. ASSUME NEW k \in DOMAIN queue["calibrate"], NEW l \in DOMAIN queue["calibrate"], k < l
        PROVE  k # l
    BY <1>3, <2>5
  <2>6. QED
    BY <1>2, <2>1, <2>2, <2>3, <2>4, <2>5 DEF DoublesInv
<1>8. pc' # "calibrating" => CalibratedInv'
  <2>1. phase' < 3 => phase < 3
    BY <1>3
  <2>2. phase' = 3 => (phase < 3 \/ phase = 3) /\ records' = records
    BY <1>3
  <2>3. QED
    BY <1>2, <2>1, <2>2 DEF CalibratedInv
<1>9. QED
  BY <1>4, <1>5, <1>6, <1>7, <1>8

(* The loop over the queues, and its end.                                  *)
LEMMA LoopKeeps ==
    ASSUME Inv, Covered, RecordedOnce, RetunesInv, CalibratedInv, DoublesInv, ~stop, ~stop',
           Pick \/ NextPhase \/ EnterDeepening \/ LeaveLoop
    PROVE  Covered' /\ RecordedOnce' /\ RetunesInv' /\ CalibratedInv' /\ DoublesInv'
<1>1. /\ phase \in 1..5 /\ pos \in Nat /\ pc = "loop" /\ "loop" \notin Busy
      /\ Len(Queue) = Len(queue[Phases[phase]])
      /\ \A i \in 1..5 : Phases[i] \in PhaseNames /\ Len(queue[Phases[i]]) \in Nat
                         /\ DOMAIN queue[Phases[i]] = 1..Len(queue[Phases[i]])
  BY NightFacts DEF Pick, NextPhase, EnterDeepening, LeaveLoop, Busy, Queue
<1>2. CASE Pick
  <2>1. /\ UNCHANGED <<items, calibrated, world, sessions, phase, records, queue>>
        /\ pos' = pos + 1
        /\ pc' = "picked" \/ (pc' = "finalizing" /\ Phases[phase] = "deepen")
    BY <1>2 DEF Pick, disk, flags
  <2>2. Phases[phase] = "deepen" => phase = 5
    BY <1>1 DEF Phases
  <2>3. ASSUME NEW i \in 1..4, NEW k \in Nat
        PROVE  Reached(i, k)' <=> Reached(i, k)
    <3>1. CASE pc' = "picked"
      <4>1. "picked" \in Busy
        BY DEF Busy, Trying
      <4>2. QED
        BY <1>1, <2>1, <3>1, <4>1 DEF Reached
    <3>2. CASE phase = 5
      BY <2>1, <3>2 DEF Reached
    <3>3. QED
      BY <2>1, <2>2, <3>1, <3>2
  <2>4. pc' # "calibrating" /\ AllReached'
    BY <2>1, <2>2 DEF AllReached
  <2>5. \A i \in 1..4 : \A k \in DOMAIN queue[Phases[i]] : (Reached(i, k)' <=> Reached(i, k))
    BY <1>1, <2>3
  <2>6. QED
    BY <1>1, <2>1, <2>4, <2>5, MovesOn
<1>3. CASE NextPhase
  <2>1. /\ UNCHANGED <<items, calibrated, world, sessions, records, queue>>
        /\ pos' = 0 /\ phase' = phase + 1 /\ pc' = "loop" /\ pos = Len(Queue)
    BY <1>3 DEF NextPhase, FirstIndex, disk, flags
  <2>2. ASSUME NEW i \in 1..4, NEW k \in DOMAIN queue[Phases[i]]
        PROVE  Reached(i, k)' <=> Reached(i, k)
    <3>1. k \in Nat /\ k >= 1 /\ k <= Len(queue[Phases[i]])
      BY <1>1
    <3>2. QED
      BY <1>1, <2>1, <3>1 DEF Reached
  <2>3. AllReached' /\ phase <= phase' /\ phase' \in Nat
    BY <1>1, <2>1 DEF AllReached
  <2>4. QED
    BY <2>1, <2>2, <2>3, MovesOn
<1>4. CASE EnterDeepening
  <2>1. /\ UNCHANGED <<items, calibrated, world, sessions>>
        /\ phase = 4 /\ phase' = 5 /\ pc' = "loop" /\ pos = Len(Queue)
        /\ queue' = [queue EXCEPT !["deepen"] = Deepenings(sessions)]
    BY <1>4 DEF EnterDeepening, disk, flags
  <2>2. \A i \in 1..4 : queue'[Phases[i]] = queue[Phases[i]]
    <3>1. \A i \in 1..4 : Phases[i] # "deepen" /\ Phases[i] \in PhaseNames
      BY DEF Phases, PhaseNames
    <3>2. DOMAIN queue = PhaseNames
      BY NightFacts DEF QueueShape
    <3>3. QED
      BY <2>1, <3>1, <3>2
  <2>3. ASSUME NEW i \in 1..4, NEW k \in DOMAIN queue[Phases[i]]
        PROVE  Reached(i, k)' <=> Reached(i, k)
    <3>1. k \in Nat /\ k >= 1 /\ k <= Len(queue[Phases[i]])
      BY <1>1
    <3>2. QED
      BY <1>1, <2>1, <3>1 DEF Reached
  <2>4. AllReached' /\ phase <= phase' /\ phase' \in Nat
    BY <2>1 DEF AllReached
  <2>5. QED
    BY <2>1, <2>2, <2>3, <2>4, MovesOn
<1>5. CASE LeaveLoop
  <2>1. /\ UNCHANGED <<items, calibrated, world, sessions, records, queue, phase, pos>>
        /\ pc' = "finalizing" /\ (phase = 5 \/ (phase = 4 /\ pos = Len(Queue)))
    BY <1>5 DEF LeaveLoop, disk, flags, place
  <2>2. "finalizing" \notin Busy
    BY DEF Busy, Trying
  <2>3. \A i, k : (Reached(i, k)' <=> Reached(i, k))
    BY <1>1, <2>1, <2>2 DEF Reached
  <2>4. AllReached' /\ phase <= phase' /\ phase' \in Nat
    BY <1>1, <2>1 DEF Queue, AllReached
  <2>5. QED
    BY <2>1, <2>3, <2>4, MovesOn
<1>6. QED
  BY <1>2, <1>3, <1>4, <1>5

(* A model is not calibrated a second time: of two calibrations the first  *)
(* has a reference that is hidden, and ends the night unless deferred.     *)
LEMMA CalibrationKeeps ==
    ASSUME Inv, Covered, RecordedOnce, RetunesInv, CalibratedInv, DoublesInv, ~stop, ~stop',
           StartCalibration, pc' \in Present
    PROVE  Covered' /\ RecordedOnce' /\ RetunesInv' /\ CalibratedInv' /\ DoublesInv'
<1>1. /\ UNCHANGED <<items, calibrated, world, sessions, records, queue, phase, pos, item>>
      /\ pc = "picked" /\ pc' = "calibrating" /\ item.ref \in DOMAIN records
      /\ item.kind = "calibrate"
  BY DEF StartCalibration, disk, flags, place, Present, Trying
<1>2. "picked" \in Busy /\ "calibrating" \in Busy
  BY DEF Busy, Trying
<1>3. \A i, k : (Reached(i, k)' <=> Reached(i, k))
  BY <1>1, <1>2 DEF Reached
<1>4. phase = 3 /\ Phases[3] = "calibrate" /\ pos \in DOMAIN queue["calibrate"]
      /\ item = queue["calibrate"][pos]
  BY <1>1, <1>2, NightFacts DEF Phases
<1>5. item.model \notin calibrated
  <2>1. SUFFICES ASSUME item.model \in calibrated
                 PROVE  FALSE
    OBVIOUS
  <2>2. PICK k \in DOMAIN queue["calibrate"] :
            /\ Reached(3, k) /\ queue["calibrate"][k].model = item.model
            /\ queue["calibrate"][k].ref \in DOMAIN records
    BY <1>4, <2>1 DEF CalibratedInv
  <2>3. k < pos
    BY <1>1, <1>2, <1>4, <2>2 DEF Reached
  <2>4. QED
    BY <1>4, <2>2, <2>3 DEF DoublesInv
<1>6. phase \in Nat /\ phase <= phase' /\ phase' \in Nat
  BY <1>1, <1>4
<1>7. Covered' /\ RecordedOnce' /\ RetunesInv' /\ DoublesInv'
  <2>1. AllReached'
    BY <1>1 DEF AllReached
  <2>2. QED
    BY <1>1, <1>3, <1>6, <2>1, MovesOn
<1>8. CalibratedInv'
  BY <1>1, <1>3, <1>4, <1>5 DEF CalibratedInv
<1>9. QED
  BY <1>7, <1>8

Postponed(r) == r.kind = "calibrate" /\ r.outcome = "deferred"

\* Records x and then some more, all of postponed calibrations.
Recording(x, n, m) ==
    /\ n < m /\ DOMAIN items = 1..n /\ DOMAIN items' = 1..m
    /\ \A k \in 1..n : items'[k] = items[k]
    /\ items'[n + 1] = x
    /\ \A k \in 1..m : k <= n + 1 \/ Postponed(items'[k])

\* The queues of later phases may get more work to calibrate or to tune again.
Growing ==
    \A i \in 1..4 :
        /\ \A k \in DOMAIN queue[Phases[i]] :
            k \in DOMAIN queue'[Phases[i]] /\ queue'[Phases[i]][k] = queue[Phases[i]][k]
        /\ \A k \in DOMAIN queue'[Phases[i]] :
            k \in DOMAIN queue[Phases[i]] \/
                (i \in {3, 4} /\ phase < i /\ queue'[Phases[i]][k].kind = Phases[i])

(* A record that is not of the item at hand, and not of a calibration, is  *)
(* of another entry.                                                       *)
LEMMA OthersDiffer ==
    ASSUME Inv, pc \in Busy, RetunesInv,
           NEW i \in {1, 2, 4}, NEW k \in DOMAIN queue[Phases[i]],
           Same(item, queue[Phases[i]][k])
    PROVE  i = phase /\ k = pos
<1>1. /\ item.kind = Phases[phase] /\ phase \in 1..5 /\ i \in 1..5
      /\ queue[Phases[i]][k].kind = Phases[i]
      /\ pos \in DOMAIN queue[Phases[phase]] /\ item = queue[Phases[phase]][pos]
      /\ ResumesLeft /\ TunesLeft
  <2>1. pc \in Trying /\ i \in 1..5
    BY DEF Busy
  <2>2. queue[Phases[i]][k].kind = Phases[i]
    BY <2>1, NightFacts
  <2>3. QED
    BY <2>1, <2>2, NightFacts
<1>2. i = phase
  <2>1. Phases[i] = Phases[phase]
    BY <1>1 DEF Same
  <2>2. phase \in {1, 2, 3, 4, 5}
    BY <1>1
  <2>3. QED
    BY <2>1, <2>2 DEF Phases
<1>3. CASE i = 1
  <2>1. Phases[i] = "resume"
    BY <1>3 DEF Phases
  <2>2. QED
    BY <1>1, <1>2, <2>1 DEF ResumesLeft, Same
<1>4. CASE i = 2
  <2>1. Phases[i] = "tune"
    BY <1>4 DEF Phases
  <2>2. QED
    BY <1>1, <1>2, <2>1 DEF TunesLeft, Same
<1>5. CASE i = 4
  <2>1. Phases[i] = "retune"
    BY <1>5 DEF Phases
  <2>2. QED
    BY <1>1, <1>2, <2>1 DEF RetunesInv, Same
<1>6. QED
  BY <1>3, <1>4, <1>5

(* Recording the item at hand covers it, and covers nothing twice.         *)
LEMMA RecordKept ==
    ASSUME Inv, Covered, RecordedOnce, RetunesInv, pc \in Busy, pc' = "loop",
           UNCHANGED <<phase, pos>>, Growing, calibrated \subseteq calibrated',
           NEW x, Same(x, item), NEW n \in Nat, NEW m \in Nat, Recording(x, n, m),
           x.kind = "calibrate" /\ x.outcome # "deferred" => x.model \in calibrated' \ calibrated
    PROVE  Covered' /\ RecordedOnce'
<1>1. /\ phase \in 1..5 /\ pos \in Nat
      /\ item.kind = Phases[phase]
      /\ pos \in DOMAIN queue[Phases[phase]] /\ item = queue[Phases[phase]][pos]
  BY NightFacts
<1>2. /\ x.kind = item.kind /\ x.model = item.model /\ x.session = item.session
      /\ n + 1 \in 1..m /\ \A k \in 1..n : k \in 1..m
  BY DEF Same, Recording
<1>3. ASSUME NEW k \in 1..m
      PROVE  \/ k \in 1..n /\ items'[k] = items[k]
             \/ k = n + 1 /\ items'[k] = x
             \/ Postponed(items'[k])
  <2>1. CASE k <= n
    BY <2>1 DEF Recording
  <2>2. CASE k = n + 1
    BY <2>2 DEF Recording
  <2>3. CASE ~(k <= n) /\ k # n + 1
    <3>1. ~(k <= n + 1)
      BY <2>3
    <3>2. QED
      BY <3>1 DEF Recording
  <2>4. QED
    BY <2>1, <2>2, <2>3
<1>4. DOMAIN items = 1..n /\ DOMAIN items' = 1..m
  BY DEF Recording
<1>5. "loop" \notin Busy
  BY DEF Busy
<1>6. ASSUME NEW i, NEW k
      PROVE  Reached(i, k)' <=> Reached(i, k) \/ (phase = i /\ k = pos)
  BY <1>5 DEF Reached
<1>7. ~Reached(phase, pos)
  BY <1>1 DEF Reached
<1>8. Covered'
  <2>1. ASSUME NEW i \in 1..4, NEW k \in DOMAIN queue'[Phases[i]], Reached(i, k)'
        PROVE  \E r \in DOMAIN items' : Same(items'[r], queue'[Phases[i]][k])
    <3>1. ~(phase < i)
      BY <1>1, <1>6, <2>1 DEF Reached
    <3>2. k \in DOMAIN queue[Phases[i]] /\ queue'[Phases[i]][k] = queue[Phases[i]][k]
      BY <2>1, <3>1 DEF Growing
    <3>3. CASE Reached(i, k)
      <4>1. PICK r \in DOMAIN items : Same(items[r], queue[Phases[i]][k])
        BY <3>2, <3>3 DEF Covered
      <4>2. r \in DOMAIN items' /\ items'[r] = items[r]
        BY <1>2, <1>4, <4>1 DEF Recording
      <4>3. QED
        BY <3>2, <4>1, <4>2
    <3>4. CASE phase = i /\ k = pos
      <4>1. queue'[Phases[i]][k] = item
        BY <1>1, <3>2, <3>4
      <4>2. n + 1 \in DOMAIN items' /\ items'[n + 1] = x
        BY <1>2, <1>4 DEF Recording
      <4>3. QED
        BY <4>1, <4>2
    <3>5. QED
      BY <1>6, <2>1, <3>3, <3>4
  <2>2. AllReached'
    BY DEF AllReached
  <2>3. QED
    BY <2>1, <2>2 DEF Covered, Same
<1>9. ASSUME NEW i \in {1, 2, 4}, NEW k \in DOMAIN queue'[Phases[i]], ~Reached(i, k)',
             NEW r \in 1..m
      PROVE  ~Same(items'[r], queue'[Phases[i]][k])
  <2>1. ~Reached(i, k) /\ ~(phase = i /\ k = pos) /\ i \in 1..4
    BY <1>6, <1>9
  <2>2. CASE k \in DOMAIN queue[Phases[i]]
    <3>1. queue'[Phases[i]][k] = queue[Phases[i]][k] /\ queue[Phases[i]][k].kind = Phases[i]
      <4>1. i \in 1..5
        BY <2>1
      <4>2. queue[Phases[i]][k].kind = Phases[i]
        BY <2>2, <4>1, NightFacts
      <4>3. QED
        BY <2>1, <2>2, <4>2 DEF Growing
    <3>2. CASE r \in 1..n /\ items'[r] = items[r]
      BY <1>4, <2>1, <2>2, <3>1, <3>2 DEF RecordedOnce
    <3>3. CASE items'[r] = x
      <4>1. ~Same(item, queue[Phases[i]][k])
        BY <2>1, <2>2, OthersDiffer
      <4>2. QED
        BY <1>2, <3>1, <3>3, <4>1 DEF Same
    <3>4. CASE Postponed(items'[r])
      <4>1. Phases[i] # "calibrate"
        BY DEF Phases
      <4>2. QED
        BY <3>1, <3>4, <4>1 DEF Postponed, Same
    <3>5. QED
      BY <1>3, <3>2, <3>3, <3>4
  <2>3. CASE k \notin DOMAIN queue[Phases[i]]
    <3>1. i = 4 /\ phase < 4 /\ queue'[Phases[i]][k].kind = Phases[4]
      BY <2>1, <2>3 DEF Growing
    <3>2. Phases[4] = "retune" /\ Phases[phase] # "retune"
      BY <1>1, <3>1 DEF Phases
    <3>3. CASE r \in 1..n /\ items'[r] = items[r]
      <4>1. items[r].kind # "retune"
        BY <1>1, <1>4, <3>1, <3>3 DEF RecordedOnce
      <4>2. QED
        BY <3>1, <3>2, <3>3, <4>1 DEF Same
    <3>4. CASE items'[r] = x
      BY <1>1, <1>2, <3>1, <3>2, <3>4 DEF Same
    <3>5. CASE Postponed(items'[r])
      BY <3>1, <3>2, <3>5 DEF Same, Postponed
    <3>6. QED
      BY <1>3, <3>3, <3>4, <3>5
  <2>4. QED
    BY <2>2, <2>3
<1>10. ASSUME NEW s \in 1..n, Same(x, items[s]), x.kind # "deepen"
       PROVE  x.kind = "calibrate" /\ "deferred" \in {x.outcome, items[s].outcome}
  <2>1. CASE phase \in {1, 2, 4}
    <3>1. ~Same(items[s], item)
      BY <1>1, <1>4, <1>7, <2>1 DEF RecordedOnce
    <3>2. QED
      BY <1>2, <1>10, <3>1 DEF Same
  <2>2. CASE phase = 3
    <3>1. x.kind = "calibrate" /\ items[s].kind = "calibrate" /\ items[s].model = x.model
      BY <1>1, <1>2, <1>10, <2>2 DEF Same, Phases
    <3>2. items[s].outcome # "deferred" => items[s].model \in calibrated
      BY <1>4, <3>1 DEF RecordedOnce
    <3>3. QED
      BY <3>1, <3>2
  <2>3. phase # 5
    BY <1>1, <1>2, <1>10 DEF Phases
  <2>4. QED
    BY <1>1, <2>1, <2>2, <2>3
<1>11. ASSUME NEW r \in 1..m, NEW s \in 1..m, r # s, Same(items'[r], items'[s])
       PROVE  \/ items'[r].kind = "deepen"
              \/ (items'[r].kind = "calibrate"
                    /\ "deferred" \in {items'[r].outcome, items'[s].outcome})
  <2>1. items'[r].kind = items'[s].kind
    BY <1>11 DEF Same
  <2>2. CASE Postponed(items'[r]) \/ Postponed(items'[s])
    BY <2>1, <2>2 DEF Postponed
  <2>3. CASE r \in 1..n /\ items'[r] = items[r] /\ s \in 1..n /\ items'[s] = items[s]
    BY <1>4, <1>11, <2>3 DEF RecordedOnce
  <2>4. CASE r \in 1..n /\ items'[r] = items[r] /\ s = n + 1 /\ items'[s] = x
    <3>1. Same(x, items[r])
      BY <1>11, <2>4 DEF Same
    <3>2. QED
      BY <1>10, <2>1, <2>4, <3>1
  <2>5. CASE s \in 1..n /\ items'[s] = items[s] /\ r = n + 1 /\ items'[r] = x
    <3>1. Same(x, items[s])
      BY <1>11, <2>5
    <3>2. QED
      BY <1>10, <2>1, <2>5, <3>1
  <2>6. QED
    BY <1>3, <1>11, <2>2, <2>3, <2>4, <2>5
<1>12. ASSUME NEW r \in 1..m
       PROVE  /\ items'[r].kind = "calibrate" /\ items'[r].outcome # "deferred" =>
                    items'[r].model \in calibrated'
              /\ items'[r].kind = "retune" => phase >= 4
  <2>1. CASE r \in 1..n /\ items'[r] = items[r]
    <3>1. /\ items[r].kind = "calibrate" /\ items[r].outcome # "deferred" =>
                items[r].model \in calibrated
          /\ items[r].kind = "retune" => phase >= 4
      BY <1>4, <2>1 DEF RecordedOnce
    <3>2. QED
      BY <2>1, <3>1
  <2>2. CASE items'[r] = x
    <3>1. x.kind = "retune" => phase = 4
      BY <1>1, <1>2 DEF Phases
    <3>2. phase = 4 => phase >= 4
      OBVIOUS
    <3>3. QED
      BY <2>2, <3>1, <3>2
  <2>3. CASE Postponed(items'[r])
    BY <2>3 DEF Postponed
  <2>4. QED
    BY <1>3, <2>1, <2>2, <2>3
<1>13. RecordedOnce'
  BY <1>4, <1>9, <1>11, <1>12 DEF RecordedOnce, Same
<1>14. QED
  BY <1>8, <1>13

(* What is twice among the calibrations stays as it is when the queue does. *)
LEMMA DoublesSame ==
    ASSUME Inv, DoublesInv, UNCHANGED <<phase, world, sessions>>,
           queue'["calibrate"] = queue["calibrate"], queue'["tune"] = queue["tune"],
           records' \in {records, Registry(sessions)},
           \A k : Reached(2, k) => Reached(2, k)'
    PROVE  DoublesInv'
<1>1. \A m : Siblings(m)' = Siblings(m)
  BY DEF Siblings
<1>2. (DOMAIN Registry(sessions))' = DOMAIN Registry(sessions)
  BY DEF Registry, Evidence, Done
<1>3. ASSUME NEW d, d \notin DOMAIN records, d \notin DOMAIN Registry(sessions)
      PROVE  d \notin DOMAIN records'
  BY <1>3
<1>4. QED
  BY <1>1, <1>2, <1>3 DEF DoublesInv

(* A record that comes with nothing else.                                  *)
LEMMA AloneKeeps ==
    ASSUME Inv, Covered, RecordedOnce, RetunesInv, CalibratedInv, DoublesInv,
           pc \in Busy, pc' = "loop",
           UNCHANGED <<phase, pos, queue, calibrated, world, sessions>>,
           records' \in {records, Registry(sessions)}, phase = 3 => records' = records,
           NEW x, Same(x, item), NEW n \in Nat, NEW m \in Nat, Recording(x, n, m),
           x.kind # "calibrate" \/ x.outcome = "deferred"
    PROVE  Covered' /\ RecordedOnce' /\ RetunesInv' /\ CalibratedInv' /\ DoublesInv'
<1>1. Growing
  BY DEF Growing
<1>2. Covered' /\ RecordedOnce'
  BY <1>1, RecordKept
<1>3. RetunesInv'
  BY DEF RetunesInv
<1>4. \A i, k : Reached(i, k) => Reached(i, k)'
  BY DEF Reached, Busy
<1>5. CalibratedInv'
  BY <1>4 DEF CalibratedInv
<1>6. DoublesInv'
  BY <1>4, DoublesSame
<1>7. QED
  BY <1>2, <1>3, <1>5, <1>6

(* One more record, as a recording.                                        *)
LEMMA OneRecord ==
    ASSUME Inv, NEW o \in Outcomes, pc \in Busy, items' = Append(items, Record(item, o))
    PROVE  /\ Len(items) \in Nat /\ Len(items) + 1 \in Nat
           /\ Recording(Record(item, o), Len(items), Len(items) + 1)
           /\ Same(Record(item, o), item) /\ Record(item, o).kind = item.kind
           /\ Record(item, o).outcome = o /\ Record(item, o).model = item.model
<1>1. item \in Items /\ item.kind \in Kinds /\ items \in Seq(Recorded)
  BY NightFacts
<1> DEFINE x == Record(item, o)
           n == Len(items)
<1>2. x \in Recorded /\ x.kind = item.kind /\ x.model = item.model /\ x.outcome = o
  BY <1>1, RecordedFacts
<1>3. x.session = item.session
  BY DEF Record
<1> HIDE DEF x
<1>4. /\ n \in Nat /\ DOMAIN items = 1..n /\ DOMAIN items' = 1..(n + 1) /\ items'[n + 1] = x
      /\ \A k \in 1..n : items'[k] = items[k]
  BY <1>1, <1>2, Appended DEF x
<1> HIDE DEF n
<1>5. n + 1 \in Nat /\ n < n + 1 /\ \A k \in 1..(n + 1) : k <= n + 1
  BY <1>4
<1>6. Recording(x, n, n + 1)
  BY <1>4, <1>5 DEF Recording
<1>7. QED
  BY <1>2, <1>3, <1>4, <1>5, <1>6 DEF x, n, Same

(* A deferred item, a deepening, and a failure.                            *)
LEMMA DeferKeeps ==
    ASSUME Inv, Covered, RecordedOnce, RetunesInv, CalibratedInv, DoublesInv, Defer
    PROVE  Covered' /\ RecordedOnce' /\ RetunesInv' /\ CalibratedInv' /\ DoublesInv'
<1>1. /\ pc \in Busy /\ pc' = "loop" /\ "deferred" \in Outcomes
      /\ UNCHANGED <<phase, pos, queue, calibrated, world, sessions, records>>
      /\ items' = Append(items, Record(item, "deferred"))
  BY DEF Defer, Busy, Trying, Outcomes, disk, place, flags
<1>2. QED
  BY <1>1, OneRecord, AloneKeeps

LEMMA DeepenedKeeps ==
    ASSUME Inv, Covered, RecordedOnce, RetunesInv, CalibratedInv, DoublesInv, JudgeDeepened
    PROVE  Covered' /\ RecordedOnce' /\ RetunesInv' /\ CalibratedInv' /\ DoublesInv'
<1>1. /\ pc \in Busy /\ pc' = "loop" /\ Judged \in Outcomes /\ item.kind = "deepen"
      /\ UNCHANGED <<phase, pos, queue, calibrated, world, sessions, records>>
      /\ items' = Append(items, Record(item, Judged))
  BY JudgedFacts DEF JudgeDeepened, Busy, Trying, disk, place
<1>2. QED
  BY <1>1, OneRecord, AloneKeeps

LEMMA FailedKeeps ==
    ASSUME Inv, Covered, RecordedOnce, RetunesInv, CalibratedInv, DoublesInv, JudgeFailed
    PROVE  Covered' /\ RecordedOnce' /\ RetunesInv' /\ CalibratedInv' /\ DoublesInv'
<1>1. /\ pc \in Busy /\ pc' = "loop" /\ "failed" \in Outcomes /\ item.kind \in TuneClass
      /\ UNCHANGED <<phase, pos, queue, calibrated, world, sessions, records>>
  BY DEF JudgeFailed, Busy, Trying, Outcomes, disk, place, Inv, ItemInv
<1>2. /\ item \in Items /\ item.kind \in Kinds /\ items \in Seq(Recorded) /\ world \in Worlds
      /\ item.model \in Models
  BY <1>1, NightFacts DEF Items
<1> DEFINE x == Record(item, "failed")
           r == IF item.kind = "tune"
                THEN Deferred({s \in Siblings(item.model) : s \notin DOMAIN records})
                ELSE <<>>
           y == Append(items, x)
           n == Len(items)
           m == n + 1 + Len(r)
<1>3. x \in Recorded /\ x.kind = item.kind /\ x.model = item.model /\ x.session = item.session
  BY <1>1, <1>2, RecordedFacts DEF Record
<1>4. r \in Seq(Recorded) /\ \A k \in DOMAIN r : Postponed(r[k])
  <2> DEFINE S == {s \in Siblings(item.model) : s \notin DOMAIN records}
  <2>1. S \in SUBSET Models
    BY <1>2, WorldFacts DEF Siblings
  <2> HIDE DEF S
  <2>2. Deferred(S) \in Seq(Recorded) /\ \A k \in DOMAIN Deferred(S) : Postponed(Deferred(S)[k])
    BY <1>2, <2>1, DeferredFacts DEF Postponed
  <2>3. QED
    BY <2>2 DEF S
<1>5. items' = items \o <<x>> \o r
  BY DEF JudgeFailed
<1> HIDE DEF r, x
<1>6. items \o <<x>> = y
  BY <1>2, <1>3
<1>7. /\ y \in Seq(Recorded) /\ n \in Nat /\ DOMAIN items = 1..n /\ DOMAIN y = 1..(n + 1)
      /\ y[n + 1] = x /\ \A k \in 1..n : y[k] = items[k]
  BY <1>2, <1>3
<1>8. Len(y) = n + 1 /\ n + 1 \in Nat
  BY <1>7
<1>9. items' = y \o r
  BY <1>5, <1>6
<1> HIDE DEF y, n
<1>10. /\ Len(r) \in Nat /\ DOMAIN (y \o r) = 1..(n + 1 + Len(r))
       /\ \A k \in 1..(n + 1) : (y \o r)[k] = y[k]
       /\ \A k \in 1..(n + 1 + Len(r)) : k <= n + 1 \/ \E l \in DOMAIN r : (y \o r)[k] = r[l]
  <2>1. /\ Len(r) \in Nat /\ DOMAIN (y \o r) = 1..(Len(y) + Len(r))
        /\ \A k \in 1..Len(y) : (y \o r)[k] = y[k]
        /\ \A k \in 1..(Len(y) + Len(r)) : k <= Len(y) \/ \E l \in DOMAIN r : (y \o r)[k] = r[l]
    BY <1>4, <1>7, Joined
  <2>2. QED
    BY <1>8, <2>1
<1>11. m \in Nat /\ n < m /\ n + 1 \in 1..(n + 1) /\ \A k \in 1..n : k \in 1..(n + 1)
  BY <1>7, <1>10
<1> HIDE DEF m
<1>12. Recording(x, n, m)
  <2>1. DOMAIN items' = 1..m /\ \A k \in 1..m : k <= n + 1 \/ \E l \in DOMAIN r : items'[k] = r[l]
    BY <1>9, <1>10 DEF m
  <2>2. \A k \in 1..m : k <= n + 1 \/ Postponed(items'[k])
    BY <1>4, <2>1
  <2>3. items'[n + 1] = x /\ \A k \in 1..n : items'[k] = items[k]
    BY <1>7, <1>9, <1>10, <1>11
  <2>4. QED
    BY <1>7, <1>11, <2>1, <2>2, <2>3 DEF Recording
<1>13. Same(x, item) /\ x.kind # "calibrate"
  BY <1>1, <1>3 DEF Same, TuneClass
<1>14. QED
  BY <1>1, <1>7, <1>11, <1>12, <1>13, AloneKeeps

(* A calibration, and what it puts up for tuning again.                    *)
LEMMA EndKeeps ==
    ASSUME Inv, Covered, RecordedOnce, RetunesInv, CalibratedInv, DoublesInv,
           NEW v \in {"consistent", "drift", "error"}, EndCalibration(v)
    PROVE  Covered' /\ RecordedOnce' /\ RetunesInv' /\ CalibratedInv' /\ DoublesInv'
<1>1. /\ pc = "calibrating" /\ pc \in Busy /\ pc' = "loop" /\ v \in Outcomes
      /\ item.kind = "calibrate" /\ UNCHANGED <<phase, pos, world, sessions, records>>
      /\ calibrated' = calibrated \cup {item.model}
      /\ items' = Append(items, Record(item, v))
  BY DEF EndCalibration, Busy, Trying, Outcomes, disk, Inv, ItemInv
<1>2. item.model \notin calibrated /\ item.ref \in DOMAIN records
  BY <1>1 DEF CalibratedInv
<1>3. phase = 3 /\ pos \in DOMAIN queue["calibrate"] /\ item = queue["calibrate"][pos]
  <2>1. /\ phase \in 1..5 /\ Phases[phase] = "calibrate"
        /\ pos \in DOMAIN queue[Phases[phase]] /\ item = queue[Phases[phase]][pos]
    BY <1>1, NightFacts
  <2>2. QED
    BY <2>1 DEF Phases
<1> DEFINE it == Item("retune", item.model, 0, 1)
           q == queue["retune"]
           n == Len(q)
<1>4. /\ q \in Seq(Items) /\ n \in Nat /\ DOMAIN q = 1..n /\ DOMAIN queue = PhaseNames
  <2>1. Phases[4] = "retune" /\ 4 \in 1..5
    BY DEF Phases
  <2>2. QED
    BY <2>1, NightFacts DEF QueueShape
<1>5. it \in Items /\ it.kind = "retune" /\ it.model = item.model
  BY NightFacts, WorldFacts DEF Item, Items, Kinds, TuneClass
<1>6. /\ \A p \in PhaseNames \ {"retune"} : queue'[p] = queue[p]
      /\ queue'["retune"] = q \/ queue'["retune"] = Append(q, it)
  BY <1>4 DEF EndCalibration, PhaseNames
<1> HIDE DEF it
<1>7. /\ \A k \in 1..n : k \in DOMAIN queue'["retune"] /\ queue'["retune"][k] = q[k]
      /\ \A k \in DOMAIN queue'["retune"] : k \in 1..n \/ (k = n + 1 /\ queue'["retune"][k] = it)
  <2>1. CASE queue'["retune"] = q
    BY <1>4, <2>1
  <2>2. CASE queue'["retune"] = Append(q, it)
    <3>1. /\ DOMAIN Append(q, it) = 1..(n + 1) /\ Append(q, it)[n + 1] = it
          /\ \A k \in 1..n : Append(q, it)[k] = q[k]
      BY <1>4, <1>5
    <3>2. \A k \in 1..(n + 1) : k \in 1..n \/ k = n + 1
      BY <1>4
    <3>3. \A k \in 1..n : k \in 1..(n + 1)
      BY <1>4
    <3>4. QED
      BY <2>2, <3>1, <3>2, <3>3
  <2>3. QED
    BY <1>6, <2>1, <2>2
<1> HIDE DEF n
<1>8. Growing
  <2>1. ASSUME NEW i \in 1..4, i # 4
        PROVE  queue'[Phases[i]] = queue[Phases[i]]
    BY <1>6, <2>1 DEF Phases, PhaseNames
  <2>2. Phases[4] = "retune"
    BY DEF Phases
  <2>3. \A k \in DOMAIN queue'["retune"] :
            k \in DOMAIN q \/ (phase < 4 /\ queue'["retune"][k].kind = "retune")
    BY <1>3, <1>4, <1>5, <1>7
  <2>4. \A k \in DOMAIN q : k \in DOMAIN queue'["retune"] /\ queue'["retune"][k] = q[k]
    BY <1>4, <1>7
  <2>5. QED
    BY <2>1, <2>2, <2>3, <2>4 DEF Growing
<1>9. Covered' /\ RecordedOnce'
  <2> DEFINE x == Record(item, v)
             l == Len(items)
  <2>1. /\ l \in Nat /\ l + 1 \in Nat /\ Recording(x, l, l + 1)
        /\ Same(x, item) /\ x.model = item.model
    BY <1>1, OneRecord
  <2>2. x.model \in calibrated' \ calibrated /\ calibrated \subseteq calibrated'
    BY <1>1, <1>2, <2>1
  <2> HIDE DEF x, l
  <2>3. QED
    BY <1>1, <1>8, <2>1, <2>2, RecordKept
<1>10. RetunesInv'
  <2>1. \A k \in 1..n : /\ q[k].model \in calibrated
                        /\ \A l \in 1..n : q[l].model = q[k].model => l = k
    BY <1>4 DEF RetunesInv
  <2>2. \A k \in DOMAIN queue'["retune"] :
            \/ k \in 1..n /\ queue'["retune"][k].model = q[k].model
            \/ k = n + 1 /\ queue'["retune"][k].model = item.model
    BY <1>5, <1>7
  <2>3. \A k \in 1..n : q[k].model # item.model
    BY <1>2, <2>1
  <2>4. ASSUME NEW k \in DOMAIN queue'["retune"]
        PROVE  /\ queue'["retune"][k].model \in calibrated'
               /\ \A l \in DOMAIN queue'["retune"] :
                    queue'["retune"][l].model = queue'["retune"][k].model => l = k
    BY <1>1, <2>1, <2>2, <2>3
  <2>5. QED
    BY <2>4 DEF RetunesInv
<1>11. \A i, k : Reached(i, k) => Reached(i, k)'
  BY <1>1 DEF Reached, Busy
<1>12. CalibratedInv'
  <2>1. queue'["calibrate"] = queue["calibrate"]
    BY <1>6 DEF PhaseNames
  <2>2. Reached(3, pos)'
    BY <1>1, <1>3 DEF Reached, Busy
  <2>3. ASSUME NEW m \in calibrated
        PROVE  \E k \in DOMAIN queue["calibrate"] :
                    /\ Reached(3, k)'
                    /\ queue["calibrate"][k].model = m
                    /\ queue["calibrate"][k].ref \in DOMAIN records
    BY <1>3, <1>11 DEF CalibratedInv
  <2>4. \A m \in calibrated' :
            \E k \in DOMAIN queue["calibrate"] :
                /\ Reached(3, k)'
                /\ queue["calibrate"][k].model = m
                /\ queue["calibrate"][k].ref \in DOMAIN records
    BY <1>1, <1>2, <1>3, <2>2, <2>3
  <2>5. QED
    BY <1>1, <1>3, <2>1, <2>4 DEF CalibratedInv
<1>13. DoublesInv'
  <2>1. queue'["calibrate"] = queue["calibrate"] /\ queue'["tune"] = queue["tune"]
    BY <1>6 DEF PhaseNames
  <2>2. QED
    BY <1>1, <1>11, <2>1, DoublesSame
<1>14. QED
  BY <1>9, <1>10, <1>12, <1>13

(* A success or an interruption, and the calibrations that a tune brings.  *)
LEMMA PassedKeeps ==
    ASSUME Inv, Covered, RecordedOnce, RetunesInv, CalibratedInv, DoublesInv, JudgePassed
    PROVE  Covered' /\ RecordedOnce' /\ RetunesInv' /\ CalibratedInv' /\ DoublesInv'
<1>1. /\ pc \in Busy /\ pc' = "loop" /\ Judged \in Outcomes
      /\ item.kind \in TuneClass /\ item.kind # "deepen"
      /\ UNCHANGED <<phase, pos, calibrated, world, sessions>> /\ records' = Registry(sessions)
      /\ items' = Append(items, Record(item, Judged))
  BY JudgedFacts DEF JudgePassed, Busy, Trying, disk, Inv, ItemInv
<1>2. /\ phase \in 1..5 /\ pos \in Nat /\ item.kind = Phases[phase]
      /\ pos \in DOMAIN queue[Phases[phase]] /\ item = queue[Phases[phase]][pos]
      /\ world \in Worlds /\ item.model \in Models /\ DOMAIN queue = PhaseNames
  BY <1>1, NightFacts DEF Items, QueueShape
<1>3. phase # 3
  BY <1>1, <1>2 DEF Phases, TuneClass
<1> DEFINE x == Record(item, Judged)
           n == Len(items)
<1>4. n \in Nat /\ n + 1 \in Nat /\ Recording(x, n, n + 1) /\ Same(x, item) /\ x.kind # "calibrate"
  <2>1. item.kind # "calibrate"
    BY <1>1 DEF TuneClass
  <2>2. QED
    BY <1>1, <2>1, OneRecord
<1> HIDE DEF x, n
<1>5. CASE queue' = queue
  BY <1>1, <1>3, <1>4, <1>5, AloneKeeps
<1>6. CASE queue' # queue
  <2> DEFINE S == {s \in Siblings(item.model) : s \notin DOMAIN records' \cup calibrated}
             a == Ascending(S)
             j == Cardinality(S)
             r == [k \in DOMAIN a |-> Item("calibrate", a[k], 0, item.model)]
             c == queue["calibrate"]
             l == Len(c)
  <2>1. item.kind = "tune" /\ queue' = [queue EXCEPT !["calibrate"] = c \o r]
    BY <1>6 DEF JudgePassed
  <2>2. phase = 2 /\ pos \in DOMAIN queue["tune"] /\ item = queue["tune"][pos]
    <3>1. phase = 2
      BY <1>2, <2>1 DEF Phases
    <3>2. QED
      BY <1>2, <2>1, <3>1 DEF Phases
  <2>3. S \in SUBSET (1..NumModels) /\ NumModels \in Nat
    BY <1>2, WorldFacts DEF Models, Siblings
  <2>4. j \in Nat /\ DOMAIN a = 1..j /\ \A k \in 1..j : a[k] \in S
    BY <2>3, Ordered
  <2>5. ASSUME NEW k \in 1..j, NEW i \in 1..j, a[k] = a[i]
        PROVE  k = i
    BY <2>3, <2>4, <2>5, Ordered
  <2>6. QueueOK(r, "calibrate", sessions)
    <3>1. S \in SUBSET Models
      BY <2>3 DEF Models
    <3>2. QED
      BY <1>2, <3>1, SiblingsQueue
  <2>7. r \in Seq(Items) /\ DOMAIN r = 1..j
    BY <2>4, <2>6 DEF QueueOK
  <2>8. ASSUME NEW k \in 1..j
        PROVE  /\ r[k].kind = "calibrate" /\ r[k].model = a[k] /\ r[k].ref = item.model
               /\ a[k] \in Siblings(item.model) /\ a[k] \notin DOMAIN records'
               /\ world.rep[a[k]] = item.model /\ world.rep[a[k]] # a[k]
    BY <2>4 DEF Item, Siblings
  <2>9. c \in Seq(Items) /\ l \in Nat /\ DOMAIN c = 1..l
    <3>1. Phases[3] = "calibrate" /\ 3 \in 1..5
      BY DEF Phases
    <3>2. QED
      BY <3>1, NightFacts
  <2>10. /\ \A p \in PhaseNames \ {"calibrate"} : queue'[p] = queue[p]
         /\ queue'["calibrate"] = c \o r
    BY <1>2, <2>1 DEF PhaseNames
  <2> HIDE DEF r, c, S
  <2>11. Len(r) = j
    BY <2>4, <2>7
  <2> HIDE DEF a, j
  <2>12. /\ DOMAIN (c \o r) = 1..(l + j)
         /\ \A k \in 1..(l + j) : (c \o r)[k] = IF k <= l THEN c[k] ELSE r[k - l]
    BY <2>7, <2>9, <2>11
  <2> HIDE DEF l
  <2> DEFINE d == queue'["calibrate"]
  <2>13. /\ DOMAIN d = 1..(l + j) /\ \A k \in 1..l : k \in DOMAIN d /\ d[k] = c[k]
         /\ \A k \in DOMAIN d : \/ k \in 1..l /\ d[k] = c[k]
                                \/ k - l \in 1..j /\ d[k] = r[k - l] /\ ~(k <= l) /\ k \in Nat
    <3>1. d = c \o r
      BY <2>10
    <3> HIDE DEF d
    <3>2. \A k \in 1..l : k \in 1..(l + j) /\ k <= l
      BY <2>4, <2>9
    <3>3. ASSUME NEW k \in 1..(l + j)
          PROVE  (k \in 1..l /\ k <= l) \/ (k - l \in 1..j /\ ~(k <= l) /\ k \in Nat)
      <4>1. j \in Nat /\ l \in Nat
        BY <2>4, <2>9
      <4>2. QED
        BY <4>1
    <3>4. QED
      BY <2>12, <3>1, <3>2, <3>3
  <2> HIDE DEF d
  <2>14. Growing
    <3>1. ASSUME NEW i \in 1..4, i # 3
          PROVE  queue'[Phases[i]] = queue[Phases[i]]
      BY <2>10, <3>1 DEF Phases, PhaseNames
    <3>2. Phases[3] = "calibrate"
      BY DEF Phases
    <3>3. \A k \in DOMAIN d : k \in DOMAIN c \/ (phase < 3 /\ d[k].kind = "calibrate")
      BY <2>2, <2>8, <2>9, <2>13
    <3>4. \A k \in DOMAIN c : k \in DOMAIN d /\ d[k] = c[k]
      BY <2>9, <2>13
    <3>5. QED
      BY <3>1, <3>2, <3>3, <3>4 DEF Growing, d, c
  <2>15. Covered' /\ RecordedOnce'
    BY <1>1, <1>4, <2>14, RecordKept
  <2>16. RetunesInv' /\ CalibratedInv'
    <3>1. queue'["retune"] = queue["retune"] /\ phase' = 2
      BY <1>1, <2>2, <2>10 DEF PhaseNames
    <3>2. RetunesInv'
      BY <1>1, <3>1 DEF RetunesInv
    <3>3. CalibratedInv'
      BY <1>1, <2>2, <3>1 DEF CalibratedInv
    <3>4. QED
      BY <3>2, <3>3
  <2>17. /\ \A k \in 1..l : \A i \in 1..l : k < i /\ c[k].model = c[i].model =>
                /\ c[k].ref = c[k].model /\ world.rep[c[k].model] # c[k].model
                /\ c[k].model \notin DOMAIN Registry(sessions)
         /\ \A k \in 1..l : c[k].ref = c[k].model \/ c[k].model \in Siblings(c[k].ref)
         /\ \A k \in 1..l : c[k].ref # item.model
         /\ \A k \in DOMAIN queue["tune"] :
                /\ world.rep[queue["tune"][k].model] = queue["tune"][k].model
                /\ ~Reached(2, k) => \A i \in 1..l : c[i].ref # queue["tune"][k].model
    <3>1. ~Reached(2, pos)
      BY <1>1, <1>2, <2>2 DEF Reached
    <3>2. QED
      BY <2>2, <2>9, <3>1 DEF DoublesInv, c
  <2>18. ASSUME NEW k \in DOMAIN d, NEW i \in DOMAIN d, k < i, d[k].model = d[i].model
         PROVE  /\ d[k].ref = d[k].model /\ world.rep[d[k].model] # d[k].model
                /\ d[k].model \notin DOMAIN Registry(sessions)
    <3>1. CASE k \in 1..l /\ d[k] = c[k] /\ i \in 1..l /\ d[i] = c[i]
      BY <2>17, <2>18, <3>1
    <3>2. CASE k \in 1..l /\ d[k] = c[k] /\ i - l \in 1..j /\ d[i] = r[i - l]
      <4>1. /\ d[k].model = a[i - l] /\ a[i - l] \notin DOMAIN Registry(sessions)
            /\ world.rep[a[i - l]] = item.model /\ world.rep[a[i - l]] # a[i - l]
        BY <1>1, <2>8, <2>18, <3>2
      <4>2. c[k].ref # item.model
        BY <2>17, <3>2
      <4>3. c[k].ref = c[k].model
        <5>1. c[k].model \in Siblings(c[k].ref) => world.rep[c[k].model] = c[k].ref
          BY DEF Siblings
        <5>2. QED
          BY <2>17, <3>2, <4>1, <4>2, <5>1
      <4>4. QED
        BY <3>2, <4>1, <4>3
    <3>3. CASE k - l \in 1..j /\ d[k] = r[k - l] /\ i - l \in 1..j /\ d[i] = r[i - l]
      <4>1. a[k - l] = a[i - l]
        BY <2>8, <2>18, <3>3
      <4>2. k - l = i - l
        BY <2>5, <3>3, <4>1
      <4>3. k \in Nat /\ i \in Nat /\ l \in Nat
        BY <2>4, <2>9, <2>13
      <4>4. QED
        BY <2>18, <4>2, <4>3
    <3>4. CASE k - l \in 1..j /\ ~(k <= l) /\ i \in 1..l
      <4>1. k \in Nat /\ i \in Nat /\ l \in Nat /\ i <= l
        BY <2>4, <2>9, <2>13, <3>4
      <4>2. QED
        BY <2>18, <3>4, <4>1
    <3>5. QED
      BY <2>13, <3>1, <3>2, <3>3, <3>4
  <2>19. ASSUME NEW k \in DOMAIN d
         PROVE  d[k].ref = d[k].model \/ d[k].model \in Siblings(d[k].ref)
    BY <2>8, <2>13, <2>17
  <2>20. ASSUME NEW k \in DOMAIN queue["tune"], ~Reached(2, k)', NEW i \in DOMAIN d
         PROVE  d[i].ref # queue["tune"][k].model
    <3>1. ~Reached(2, k) /\ k # pos
      BY <1>1, <2>2, <2>20 DEF Reached, Busy
    <3>2. queue["tune"][k].model # item.model
      <4>1. TunesLeft
        BY <1>1, NightFacts DEF Busy
      <4>2. QED
        BY <2>2, <3>1, <4>1 DEF TunesLeft
    <3>3. QED
      BY <2>8, <2>13, <2>17, <3>1, <3>2
  <2>21. DoublesInv'
    <3>1. /\ \A m : Siblings(m)' = Siblings(m)
          /\ (DOMAIN Registry(sessions))' = DOMAIN Registry(sessions)
      BY <1>1 DEF Siblings, Registry, Evidence, Done
    <3>2. queue'["tune"] = queue["tune"] /\ phase' = 2 /\ world' = world
          /\ DOMAIN records' = DOMAIN Registry(sessions)
      BY <1>1, <2>2, <2>10 DEF PhaseNames
    <3>3. \A k \in DOMAIN queue["tune"] : world.rep[queue["tune"][k].model] = queue["tune"][k].model
      BY <2>17
    <3>4. QED
      BY <2>18, <2>19, <2>20, <3>1, <3>2, <3>3 DEF DoublesInv, d
  <2>22. QED
    BY <2>15, <2>16, <2>21
<1>7. QED
  BY <1>5, <1>6

(* Every step of a night that nobody stops leaves nothing out.             *)
LEMMA LeftInductive == Inv /\ LeftInv /\ [Next]_vars => LeftInv'
<1> SUFFICES ASSUME Inv, LeftInv, [Next]_vars, pc' \in Present, ~stop'
             PROVE  Covered' /\ RecordedOnce' /\ RetunesInv' /\ CalibratedInv' /\ DoublesInv'
  BY DEF LeftInv
<1>1. CASE StartNight
  BY <1>1, StartKeeps
<1>2. CASE Quiet
  <2>1. Touched /\ world' = world
    BY DiskSteps, WorldStays DEF Inv
  <2>2. Prepare => pc = "preparing"
    BY DEF Prepare
  <2>3. QED
    BY <1>2, <2>1, <2>2, QuietKeeps
<1>3. ASSUME pc \in Trying, stop => stop'
      PROVE  Covered /\ RecordedOnce /\ RetunesInv /\ CalibratedInv /\ DoublesInv /\ ~stop
  BY <1>3 DEF LeftInv, Present
<1>4. CASE Pick \/ NextPhase \/ EnterDeepening \/ LeaveLoop
  <2>1. pc \in Trying /\ (stop => stop')
    BY <1>4 DEF Pick, NextPhase, EnterDeepening, LeaveLoop, Trying, flags
  <2>2. QED
    BY <1>3, <1>4, <2>1, LoopKeeps
<1>5. CASE StartCalibration
  <2>1. pc \in Trying /\ (stop => stop')
    BY <1>5 DEF StartCalibration, Trying, flags
  <2>2. QED
    BY <1>3, <1>5, <2>1, CalibrationKeeps
<1>6. CASE Defer
  <2>1. pc \in Trying /\ (stop => stop')
    BY <1>6 DEF Defer, Trying, flags
  <2>2. QED
    BY <1>3, <1>6, <2>1, DeferKeeps
<1>7. CASE \E v \in {"consistent", "drift", "error"} : EndCalibration(v)
  <2>1. PICK v \in {"consistent", "drift", "error"} : EndCalibration(v)
    BY <1>7
  <2>2. pc \in Trying /\ (stop => stop')
    BY <2>1 DEF EndCalibration, Trying
  <2>3. QED
    BY <1>3, <2>1, <2>2, EndKeeps
<1>8. CASE JudgeFailed
  <2>1. pc \in Trying /\ (stop => stop')
    BY <1>8 DEF JudgeFailed, Trying
  <2>2. QED
    BY <1>3, <1>8, <2>1, FailedKeeps
<1>9. CASE JudgePassed
  <2>1. pc \in Trying /\ (stop => stop')
    BY <1>9 DEF JudgePassed, Trying
  <2>2. QED
    BY <1>3, <1>9, <2>1, PassedKeeps
<1>10. CASE JudgeDeepened
  <2>1. pc \in Trying /\ (stop => stop')
    BY <1>10 DEF JudgeDeepened, Trying
  <2>2. QED
    BY <1>3, <1>10, <2>1, DeepenedKeeps
<1>11. QED
  BY <1>1, <1>2, <1>4, <1>5, <1>6, <1>7, <1>8, <1>9, <1>10, QuietSteps

(* At the end all of the queues was reached, so nothing is left out.       *)
LEMMA LeftFollows == Inv /\ LeftInv => NothingLeftOut
<1> SUFFICES ASSUME Inv, LeftInv, pc = "ended", ~stop,
                    NEW i \in 1..4, NEW j \in DOMAIN queue[Phases[i]]
             PROVE  LET e == queue[Phases[i]][j]
                        done == {k \in Of(e.kind, e.model) : items[k].session = e.session}
                    IN  /\ done # {}
                        /\ \A k, l \in done : k # l =>
                               e.kind = "calibrate"
                               /\ "deferred" \in {items[k].outcome, items[l].outcome}
  BY DEF NothingLeftOut
<1>1. Covered /\ RecordedOnce
  BY DEF LeftInv, Present
<1>2. /\ phase \in 1..5 /\ pos \in Nat /\ i \in 1..5
      /\ j \in 1..Len(queue[Phases[i]]) /\ Len(queue[Phases[i]]) \in Nat
      /\ queue[Phases[i]][j].kind = Phases[i]
  <2>1. i \in 1..5
    OBVIOUS
  <2>2. /\ DOMAIN queue[Phases[i]] = 1..Len(queue[Phases[i]]) /\ Len(queue[Phases[i]]) \in Nat
        /\ queue[Phases[i]][j].kind = Phases[i]
    BY <2>1, NightFacts
  <2>3. QED
    BY <2>1, <2>2, NightFacts
<1>3. Reached(i, j)
  <2>1. phase > 4 \/ (phase = 4 /\ pos = Len(queue[Phases[4]]))
    BY <1>1 DEF Covered, AllReached, Queue
  <2>2. pc \notin Busy
    BY DEF Busy, Trying
  <2>3. CASE phase > 4 \/ i # 4
    <3>1. phase > i
      BY <1>2, <2>1, <2>3
    <3>2. QED
      BY <3>1 DEF Reached
  <2>4. CASE ~(phase > 4) /\ i = 4
    <3>1. phase = i /\ (j < pos \/ j = pos)
      BY <1>2, <2>1, <2>4
    <3>2. QED
      BY <2>2, <3>1 DEF Reached
  <2>5. QED
    BY <2>3, <2>4
<1> DEFINE e == queue[Phases[i]][j]
           done == {k \in Of(e.kind, e.model) : items[k].session = e.session}
<1>4. \A k \in DOMAIN items : k \in done <=> Same(items[k], e)
  BY DEF Of, Same
<1>5. e.kind # "deepen"
  BY <1>2 DEF Phases
<1>6. done # {}
  BY <1>1, <1>3, <1>4 DEF Covered
<1>7. ASSUME NEW k \in done, NEW l \in done, k # l
      PROVE  e.kind = "calibrate" /\ "deferred" \in {items[k].outcome, items[l].outcome}
  <2>1. k \in DOMAIN items /\ l \in DOMAIN items
    BY DEF Of
  <2>2. Same(items[k], e) /\ Same(items[l], e)
    BY <1>4, <2>1
  <2>3. Same(items[k], items[l]) /\ items[k].kind = e.kind
    BY <2>2 DEF Same
  <2> HIDE DEF e, done
  <2>4. QED
    BY <1>1, <1>5, <1>7, <2>1, <2>3 DEF RecordedOnce
<1>8. QED
  BY <1>6, <1>7

(* A night that nobody and nothing stopped has a record for every piece of *)
(* work of its queues, of those it added on the way as well, and two only  *)
(* for a calibration of which one was deferred, whatever failed, was       *)
(* skipped or ran out of time in between.                                  *)
THEOREM NothingIsLeftOut == Spec => []NothingLeftOut
<1>1. Init => LeftInv
  BY DEF Init, LeftInv, Present, Trying
<1>2. Inv /\ LeftInv /\ [Next]_vars => LeftInv'
  BY LeftInductive
<1>3. Inv /\ LeftInv => NothingLeftOut
  BY LeftFollows
<1>4. QED
  BY <1>1, <1>2, <1>3, Inductive, PTL DEF Spec

----------------------------------------------------------------------------
(* Every step lowers the height of the nights, in an order that has no     *)
(* infinite descent.  What a phase adds to the night goes to a later one.  *)

\* Nights to come.
NightsLeft == world.nights - night

\* A night that is not over, and the signals to come.
Life == IF pc \in Over THEN 0 ELSE 1 + (world.signals - signals)

\* The phase at hand and those after it.
PhasesLeft == IF pc \in Trying THEN 6 - phase ELSE 0

\* What its queue has after the position.
ItemsLeft == IF pc \in Trying THEN Len(Queue) - pos ELSE 0

\* What becomes of the item at hand.
Turn ==
    CASE pc = "picked" -> 5 [] pc = "preparing" -> 4 [] pc = "tuning" -> 3 [] pc = "tuned" -> 2
      [] pc = "calibrating" -> 1 [] OTHER -> 0

Height == <<NightsLeft, Life, PhasesLeft, ItemsLeft, Turn>>

\* The order of the dictionary.
Descent == LexProductOrdering(OpToRel(<, Nat), Nat, 5)

HeightOK ==
    NightsLeft \in Nat /\ Life \in Nat /\ PhasesLeft \in Nat /\ ItemsLeft \in Nat /\ Turn \in Nat

\* Some part of the height falls, and those before it stay.
FallsInNight ==
    \/ PhasesLeft' < PhasesLeft
    \/ PhasesLeft' = PhasesLeft /\ ItemsLeft' < ItemsLeft
    \/ PhasesLeft' = PhasesLeft /\ ItemsLeft' = ItemsLeft /\ Turn' < Turn

Falls ==
    \/ NightsLeft' < NightsLeft
    \/ NightsLeft' = NightsLeft /\ Life' < Life
    \/ NightsLeft' = NightsLeft /\ Life' = Life /\ FallsInNight

Descends == <<Height', Height>> \in Descent

(* The order has no infinite descent.                                      *)
THEOREM DescentEnds == IsWellFoundedOn(Descent, [1..5 -> Nat])
<1>1. IsWellFoundedOn(OpToRel(<, Nat), Nat)
  BY NatLessThanWellFounded
<1>2. 5 \in Nat
  OBVIOUS
<1>3. QED
  BY <1>1, <1>2, WFLexProductOrdering DEF Descent

(* What falls first, falls in the order.                                   *)
LEMMA FallsInOrder ==
    ASSUME HeightOK, HeightOK', Falls
    PROVE  Descends
<1>1. PICK g, h : g = Height /\ h = Height'
  OBVIOUS
<1>2. /\ g \in [1..5 -> Nat] /\ h \in [1..5 -> Nat]
      /\ g[1] = NightsLeft /\ g[2] = Life /\ g[3] = PhasesLeft /\ g[4] = ItemsLeft /\ g[5] = Turn
      /\ h[1] = NightsLeft' /\ h[2] = Life' /\ h[3] = PhasesLeft' /\ h[4] = ItemsLeft'
      /\ h[5] = Turn'
  BY <1>1 DEF Height, HeightOK
<1>3. /\ \A i \in 1..(1 - 1) : FALSE
      /\ \A i \in 1..(2 - 1) : i = 1
      /\ \A i \in 1..(3 - 1) : i \in {1, 2}
      /\ \A i \in 1..(4 - 1) : i \in {1, 2, 3}
      /\ \A i \in 1..(5 - 1) : i \in {1, 2, 3, 4}
  OBVIOUS
<1>4. \E j \in 1..5 : h[j] < g[j] /\ \A i \in 1..(j - 1) : h[i] = g[i]
  <2>1. CASE h[1] < g[1]
    BY <1>3, <2>1
  <2>2. CASE h[1] = g[1] /\ h[2] < g[2]
    BY <1>3, <2>2
  <2>3. CASE h[1] = g[1] /\ h[2] = g[2] /\ h[3] < g[3]
    BY <1>3, <2>3
  <2>4. CASE h[1] = g[1] /\ h[2] = g[2] /\ h[3] = g[3] /\ h[4] < g[4]
    BY <1>3, <2>4
  <2>5. CASE h[1] = g[1] /\ h[2] = g[2] /\ h[3] = g[3] /\ h[4] = g[4] /\ h[5] < g[5]
    BY <1>3, <2>5
  <2>6. QED
    BY <1>2, <2>1, <2>2, <2>3, <2>4, <2>5 DEF Falls, FallsInNight
<1>5. PICK j \in 1..5 : h[j] < g[j] /\ \A i \in 1..(j - 1) : h[i] = g[i]
  BY <1>4
<1>6. <<h[j], g[j]>> \in OpToRel(<, Nat)
  BY <1>2, <1>5 DEF OpToRel
<1>7. <<h, g>> \in Descent
  BY <1>2, <1>5, <1>6 DEF Descent, LexProductOrdering
<1>8. QED
  BY <1>1, <1>7 DEF Descends

(* Where the night is in its queues.                                       *)
LEMMA QueueFacts ==
    ASSUME TypeOK
    PROVE  /\ phase \in 1..5 /\ Phases[phase] \in PhaseNames /\ Queue \in Seq(Items)
           /\ pos \in Nat /\ Len(Queue) \in Nat /\ pos <= Len(Queue)
<1>1. phase \in 1..5 /\ queue \in [PhaseNames -> Seq(Items)] /\ pos \in 0..Len(Queue)
  BY DEF TypeOK
<1>2. Phases[phase] \in PhaseNames
  BY <1>1 DEF Phases, PhaseNames
<1>3. Queue \in Seq(Items)
  BY <1>1, <1>2 DEF Queue
<1>4. QED
  BY <1>1, <1>2, <1>3

(* A height is five numbers.                                               *)
LEMMA HeightIsNat ==
    ASSUME TypeOK
    PROVE  HeightOK
<1>1. /\ night \in 0..world.nights /\ signals \in 0..world.signals
      /\ world.nights \in Nat /\ world.signals \in Nat /\ phase \in 1..5
  BY WorldFacts DEF TypeOK
<1>2. pos \in Nat /\ Len(Queue) \in Nat /\ pos <= Len(Queue)
  BY QueueFacts
<1>3. NightsLeft \in Nat /\ Life \in Nat
  BY <1>1 DEF NightsLeft, Life
<1>4. PhasesLeft \in Nat /\ ItemsLeft \in Nat /\ Turn \in Nat
  BY <1>1, <1>2 DEF PhasesLeft, ItemsLeft, Turn
<1>5. QED
  BY <1>3, <1>4 DEF HeightOK

(* The item at hand is of the phase at hand.                               *)
LEMMA ItemOfPhase ==
    ASSUME TypeOK, QueueInv, ItemInv, pc \in Busy
    PROVE  item.kind = Phases[phase] /\ Phases[phase] \in PhaseNames /\ phase \in 1..5
<1>1. Phases[phase] \in PhaseNames /\ phase \in 1..5
  BY QueueFacts
<1>2. Queue \in Seq(Items) /\ pos \in 1..Len(Queue) /\ item = Queue[pos]
  BY QueueFacts DEF ItemInv
<1>3. QED
  BY <1>1, <1>2 DEF QueueInv, QueueOK, Queue

(* Within an item nothing is added to the queue it was taken from.         *)
LEMMA TurnFalls ==
    ASSUME pc \in Trying, pc' \in Trying, UNCHANGED <<phase, pos>>, Queue' = Queue, Turn' < Turn
    PROVE  FallsInNight
BY DEF PhasesLeft, ItemsLeft, FallsInNight

LEMMA LoopFalls ==
    ASSUME TypeOK, TypeOK',
           Pick \/ NextPhase \/ EnterDeepening \/ LeaveLoop
    PROVE  FallsInNight
<1>1. phase \in 1..5 /\ pos \in Nat /\ Len(Queue) \in Nat /\ pc = "loop"
  BY QueueFacts DEF Pick, NextPhase, EnterDeepening, LeaveLoop
<1>2. CASE pc' = "finalizing"
  BY <1>1, <1>2 DEF FallsInNight, PhasesLeft, Trying
<1>3. CASE Pick /\ pc' # "finalizing"
  <2>1. UNCHANGED <<phase, queue>> /\ pos' = pos + 1 /\ pc' = "picked"
    BY <1>3 DEF Pick
  <2>2. Queue' = Queue
    BY <2>1 DEF Queue
  <2>3. PhasesLeft' = PhasesLeft
    BY <1>1, <2>1 DEF PhasesLeft, Trying
  <2>4. ItemsLeft = Len(Queue) - pos /\ ItemsLeft' = Len(Queue) - (pos + 1)
    BY <1>1, <2>1, <2>2 DEF ItemsLeft, Trying
  <2>5. QED
    BY <1>1, <2>3, <2>4 DEF FallsInNight
<1>4. CASE NextPhase \/ EnterDeepening
  <2>1. phase' = phase + 1 /\ pc' = pc
    BY <1>4 DEF NextPhase, EnterDeepening
  <2>2. QED
    BY <1>1, <2>1 DEF PhasesLeft, Trying, FallsInNight
<1>5. QED
  BY <1>2, <1>3, <1>4 DEF LeaveLoop

LEMMA ItemFalls ==
    ASSUME TypeOK, QueueInv, ItemInv, pc' \notin Over,
           \/ Defer \/ StartCalibration
           \/ \E v \in {"consistent", "drift", "error"} : EndCalibration(v)
           \/ StartTuning \/ Prepare \/ PrepareFails \/ ChildFinishes \/ ChildFails \/ ChildRaises
           \/ JudgeFailed \/ JudgePassed \/ JudgeDeepened
    PROVE  FallsInNight
<1>1. pc \in Busy /\ pc' \in Trying /\ Turn' < Turn
  <2>1. CASE Defer \/ StartCalibration \/ StartTuning
    BY <2>1 DEF Defer, StartCalibration, StartTuning, Busy, Trying, Turn, Over
  <2>2. CASE \E v \in {"consistent", "drift", "error"} : EndCalibration(v)
    BY <2>2 DEF EndCalibration, Busy, Trying, Turn
  <2>3. CASE Prepare \/ PrepareFails
    BY <2>3 DEF Prepare, PrepareFails, Busy, Trying, Turn
  <2>4. CASE ChildFinishes \/ ChildFails \/ ChildRaises
    <3>1. pc = "tuning" /\ pc' = "tuned"
      BY <2>4 DEF ChildFinishes, ChildFails, ChildRaises, Leaves
    <3>2. QED
      BY <3>1 DEF Busy, Trying, Turn
  <2>5. CASE JudgeFailed \/ JudgePassed \/ JudgeDeepened
    <3>1. pc = "tuned" /\ pc' = "loop"
      BY <2>5 DEF JudgeFailed, JudgePassed, JudgeDeepened
    <3>2. QED
      BY <3>1 DEF Busy, Trying, Turn
  <2>6. QED
    BY <2>1, <2>2, <2>3, <2>4, <2>5
<1>2. UNCHANGED <<phase, pos>>
  BY DEF Defer, StartCalibration, EndCalibration, StartTuning, Prepare, PrepareFails,
         ChildFinishes, ChildFails, ChildRaises, Leaves, JudgeFailed, JudgePassed, JudgeDeepened,
         place
<1>3. item.kind = Phases[phase] /\ Phases[phase] \in PhaseNames
  BY <1>1, ItemOfPhase
<1>4. Queue' = Queue
  <2>1. CASE queue' = queue
    BY <1>2, <2>1 DEF Queue
  <2>2. CASE \E v \in {"consistent", "drift", "error"} : EndCalibration(v)
    <3>1. item.kind = "calibrate"
      BY <2>2 DEF EndCalibration, ItemInv
    <3>2. queue'[Phases[phase]] = queue[Phases[phase]]
      BY <1>3, <2>2, <3>1 DEF EndCalibration, TypeOK
    <3>3. QED
      BY <1>2, <3>2 DEF Queue
  <2>3. CASE JudgePassed /\ queue' # queue
    <3>1. item.kind = "tune"
      BY <2>3 DEF JudgePassed
    <3>2. queue'["tune"] = queue["tune"]
      BY <2>3 DEF JudgePassed, TypeOK, PhaseNames
    <3>3. QED
      BY <1>2, <1>3, <3>1, <3>2 DEF Queue
  <2>4. QED
    BY <2>1, <2>2, <2>3 DEF Defer, StartCalibration, StartTuning, Prepare, PrepareFails,
       ChildFinishes, ChildFails, ChildRaises, Leaves, JudgeFailed, JudgeDeepened, place
<1>5. QED
  BY <1>1, <1>2, <1>4, TurnFalls DEF Busy

(***************************************************************************)
(* A night comes to its end, and so do the nights: every step, of the      *)
(* scheduler, of a child, of a user or of a crash, lowers the height, and  *)
(* there is no infinite descent from any height.  The queues that grow     *)
(* while the night works (calibrations after a tune, retunes after a       *)
(* drift) are those of later phases.                                       *)
(***************************************************************************)
THEOREM NightsDescend == Spec => [][Descends]_vars
<1>1. ASSUME Inv, Inv', StartNight
      PROVE  Falls
  <2>1. night' = night + 1 /\ world' = world
    BY <1>1 DEF StartNight
  <2>2. night \in Nat /\ world.nights \in Nat
    BY <1>1, WorldFacts DEF Inv, TypeOK
  <2>3. QED
    BY <2>1, <2>2 DEF NightsLeft, Falls
<1>2. ASSUME Inv, Inv', Next, ~StartNight, ~Rest
      PROVE  pc \notin Over /\ UNCHANGED <<world, night>>
  BY <1>2 DEF Next, Over, Trying, disk, Pick, NextPhase, EnterDeepening, LeaveLoop, Defer,
     StartCalibration, EndCalibration, StartTuning, Prepare, PrepareFails, ChildFinishes,
     ChildFails, ChildRaises, Leaves, JudgeFailed, JudgePassed, JudgeDeepened, SignalToChild,
     SignalToNight, Finalize, Crash
<1>3. ASSUME Inv, Inv', Next, ~StartNight, ~Rest
      PROVE  signals' = signals \/ (signals' = signals + 1 /\ (SignalToChild \/ SignalToNight))
  BY <1>3 DEF Next, Pick, NextPhase, EnterDeepening, LeaveLoop, Defer,
     StartCalibration, EndCalibration, StartTuning, Prepare, PrepareFails, ChildFinishes,
     ChildFails, ChildRaises, Leaves, JudgeFailed, JudgePassed, JudgeDeepened, SignalToChild,
     SignalToNight, Finalize, Crash
<1>4. ASSUME Inv, Inv', Next, ~StartNight, ~Rest
      PROVE  Falls
  <2>1. pc \notin Over /\ UNCHANGED <<world, night>>
    BY <1>2, <1>4
  <2>2. /\ signals \in Nat /\ world.signals \in Nat /\ signals <= world.signals
        /\ signals' \in Nat /\ signals' <= world.signals
    <3>1. signals \in 0..world.signals /\ signals' \in 0..world'.signals /\ world.signals \in Nat
      BY <1>4, WorldFacts DEF Inv, TypeOK
    <3>2. QED
      BY <2>1, <3>1
  <2>3. NightsLeft' = NightsLeft
    BY <2>1 DEF NightsLeft
  <2>4. CASE pc' \in Over
    <3>1. Life' < Life
      BY <2>1, <2>2, <2>4 DEF Life
    <3>2. QED
      BY <2>3, <3>1 DEF Falls
  <2>5. CASE pc' \notin Over /\ signals' = signals + 1
    <3>1. Life' < Life
      BY <2>1, <2>2, <2>5 DEF Life
    <3>2. QED
      BY <2>3, <3>1 DEF Falls
  <2>6. CASE pc' \notin Over /\ signals' = signals
    <3>1. Life' = Life
      BY <2>1, <2>6 DEF Life
    <3>2. ~SignalToChild /\ ~SignalToNight
      <4>1. SignalToChild \/ SignalToNight => signals' = signals + 1
        BY DEF SignalToChild, SignalToNight
      <4>2. QED
        BY <2>2, <2>6, <4>1
    <3>3. ~Finalize /\ ~Crash
      BY <2>6 DEF Finalize, Crash, Over
    <3>4. FallsInNight
      BY <1>4, <3>2, <3>3, <2>6, LoopFalls, ItemFalls DEF Inv, Next
    <3>5. QED
      BY <2>3, <3>1, <3>4 DEF Falls
  <2>7. QED
    BY <1>3, <1>4, <2>4, <2>5, <2>6
<1>5. Inv => HeightOK
  BY HeightIsNat DEF Inv
<1>6. Inv /\ Inv' /\ HeightOK /\ HeightOK' /\ [Next]_vars => [Descends]_vars
  <2>1. Rest => UNCHANGED vars
    BY DEF Rest
  <2>2. QED
    BY <1>1, <1>4, <2>1, FallsInOrder
<1>7. QED
  BY <1>5, <1>6, Inductive, PTL DEF Spec
=============================================================================
