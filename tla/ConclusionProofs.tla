-------------------------- MODULE ConclusionProofs --------------------------
(***************************************************************************)
(* What the runs of Conclusion check on a few small machines, for every    *)
(* machine, command line, budget, number of crashes, resumes and           *)
(* revalidations, and whatever the benchmark answers.                      *)
(***************************************************************************)
EXTENDS Conclusion, TLAPS, FiniteSetTheorems, WellFoundedInduction

\* A sequence, whatever its elements.
IsSeq(s) == s \in Seq(Range(s))

\* A configuration the engine can be at.
ConfigOK(cfg) ==
    /\ cfg = [f \in Fields |-> cfg[f]]
    /\ cfg.moe_cpu_layers \in Nat
    /\ Valid(cfg)

\* The journal has a trial of it, or nothing better was found than the default.
ScoredOK(b) ==
    /\ ConfigOK(b.cfg) /\ b.score \in Nat
    /\ b.cfg = setting.default \/ Measured(b.cfg)

\* A mutation that only touches what cannot break a valid configuration.
Unchecked == {"split", "thread", "cross", "climb", "ot"}

Harmless(m) ==
    /\ DOMAIN m.set \subseteq {"placement", "threads", "threads_batch", "ot_spec", "moe_cpu_layers"}
    /\ "threads" \in DOMAIN m.set => m.set.threads \in 1..setting.cores.logical
    /\ "moe_cpu_layers" \in DOMAIN m.set => m.set.moe_cpu_layers = 0
    /\ m.shift # 0 => IsMoe

MutationOK(m) ==
    /\ m.shift \in Int
    /\ "moe_cpu_layers" \in DOMAIN m.set => m.set.moe_cpu_layers \in Nat
    /\ pc \in Unchecked => Harmless(m)

\* What a stage has still to try.
TodoInv ==
    /\ IsSeq(todo)
    /\ \A i \in DOMAIN todo : MutationOK(todo[i])

\* What the journal may have of a trial.
TrialOK(o) ==
    /\ o.status \in {"ok", "oom", "crash", "pruned"} /\ o.score \in Nat
    /\ o.status # "ok" => o.score = 0

\* The journal.
JournalInv ==
    /\ \A c \in DOMAIN trials : TrialOK(trials[c])
    /\ \A k \in DOMAIN probes : probes[k] \in {"ok", "oom", "crash", "pruned"}

\* The candidate being judged is the one the stage is at.
HeardInv ==
    heard # None =>
        /\ pc \in SearchStages \cup {"down"} /\ todo # <<>> /\ heard.cfg = Candidate
        /\ ConfigOK(heard.cfg) /\ Measured(heard.cfg)
        /\ DOMAIN heard = {"cfg", "score", "ok", "checked", "allowed"}
        /\ heard.score = trials[heard.cfg].score
        /\ heard.ok = (trials[heard.cfg].status = "ok")
        /\ heard.checked \in BOOLEAN /\ heard.allowed \in BOOLEAN

\* The hill climb; only a model with experts climbs.
ClimbInv ==
    /\ climb = [direction |-> climb.direction, step |-> climb.step, misses |-> climb.misses,
                started |-> climb.started, before |-> climb.before, visited |-> climb.visited]
    /\ climb.direction \in Int /\ climb.step \in DOMAIN ClimbSteps /\ climb.misses \in 0..2
    /\ climb.before \in Nat /\ climb.started \in Nat
    /\ pc = "climb" /\ todo # <<>> => climb.misses < 2
    /\ pc = "climb" => IsMoe

\* The pass and the dimension.
PlaceInv ==
    /\ at = [pass |-> at.pass, dim |-> at.dim, gauge |-> at.gauge, moe |-> at.moe]
    /\ at.pass \in 1..MaxPasses /\ at.dim \in DOMAIN Dimensions
    /\ at.gauge \in Nat /\ at.moe \in Nat /\ (~IsMoe => at.moe = 0)
    /\ tried \in Nat

\* Work of the process that no budget is asked for, still to do.
Owed ==
    IF pc \in {"ended", "down", "envelope", "lossless", "publish"} THEN 0
    ELSE IF pc = "gate" THEN Len(left) ELSE Ungated

\* What all processes so far may have journaled.
Allowance == setting.budget + Ungated * (resumes + 1) + setting.runs * revalidated

\* The work of all processes, and what is left of what they may do.
CountInv ==
    /\ journaled \in Nat /\ executed \in Nat /\ children \in Nat
    /\ lost \in Nat /\ resumes \in Nat /\ revalidated \in Nat
    /\ children <= journaled + lost
    /\ pc \in Live => executed = journaled
    /\ pc = "gate" => Len(left) <= Ungated
    /\ journaled + Owed <= Allowance

(* A non-empty set of numbers has a least one.                             *)
LEMMA SmallestOf ==
    ASSUME NEW B \in SUBSET Nat, B # {}
    PROVE  \E m \in B : \A x \in B : m <= x
<1>1. PICK m \in B : \A x \in B : ~(<<x, m>> \in OpToRel(<, Nat))
  BY NatLessThanWellFounded, WFMin
<1>2. ASSUME NEW x \in B
      PROVE  m <= x
  <2>1. x \in Nat /\ m \in Nat /\ ~(<<x, m>> \in OpToRel(<, Nat))
    BY <1>1
  <2>2. ~(x < m)
    BY <2>1 DEF OpToRel
  <2>3. x \in Nat /\ m \in Nat => x < m \/ m <= x
    OBVIOUS
  <2>4. QED
    BY <2>1, <2>2, <2>3
<1>3. QED
  BY <1>2


----------------------------------------------------------------------------
(* Sequences.                                                              *)
LEMMA SeqIsSeq ==
    ASSUME NEW S, NEW s \in Seq(S)
    PROVE  IsSeq(s)
<1>1. s \in [1..Len(s) -> S] /\ Len(s) \in Nat /\ DOMAIN s = 1..Len(s)
  OBVIOUS
<1>2. s \in [1..Len(s) -> Range(s)]
  BY <1>1 DEF Range
<1> DEFINE n == Len(s)
<1>3. n \in Nat /\ s \in [1..n -> Range(s)]
  BY <1>1, <1>2
<1> HIDE DEF n
<1>4. s \in Seq(Range(s))
  BY <1>3
<1>5. QED
  BY <1>4 DEF IsSeq

(* Length and domain of a sequence, and its head and tail.                 *)
LEMMA SeqFacts ==
    ASSUME NEW s, IsSeq(s)
    PROVE  /\ Len(s) \in Nat /\ DOMAIN s = 1..Len(s)
           /\ s = <<>> <=> Len(s) = 0
           /\ s # <<>> =>
                 /\ IsSeq(Tail(s)) /\ Len(Tail(s)) = Len(s) - 1
                 /\ \A i \in 1..(Len(s) - 1) : Tail(s)[i] = s[i + 1]
                 /\ Head(s) = s[1]
<1>1. s \in Seq(Range(s))
  BY DEF IsSeq
<1>2. /\ Len(s) \in Nat /\ DOMAIN s = 1..Len(s)
      /\ s = <<>> <=> Len(s) = 0
  BY <1>1
<1>3. ASSUME s # <<>>
      PROVE  /\ Tail(s) \in Seq(Range(s)) /\ Len(Tail(s)) = Len(s) - 1
             /\ \A i \in 1..(Len(s) - 1) : Tail(s)[i] = s[i + 1]
             /\ Head(s) = s[1]
  BY <1>1, <1>3
<1>4. s # <<>> => IsSeq(Tail(s))
  BY <1>3, SeqIsSeq
<1>5. QED
  BY <1>2, <1>3, <1>4

(* A function over 1 to n is a sequence.                                   *)
LEMMA Tabulated ==
    ASSUME NEW n \in Nat, NEW s, s = [i \in 1..n |-> s[i]]
    PROVE  IsSeq(s) /\ Len(s) = n
<1>1. s \in [1..n -> Range(s)]
  <2>1. DOMAIN s = 1..n
    BY Zenon
  <2>2. \A i \in 1..n : s[i] \in Range(s)
    BY <2>1 DEF Range
  <2>3. QED
    BY <2>2
<1>2. s \in Seq(Range(s)) /\ Len(s) = n
  BY <1>1
<1>3. QED
  BY <1>2, SeqIsSeq

(* The sequences of no, one and two elements.                              *)
LEMMA SmallSeqs ==
    /\ IsSeq(<<>>) /\ Len(<<>>) = 0
    /\ \A x : IsSeq(<<x>>) /\ Len(<<x>>) = 1
    /\ \A x, y : IsSeq(<<x, y>>) /\ Len(<<x, y>>) = 2
<1>1. <<>> \in Seq({}) /\ Len(<<>>) = 0
  OBVIOUS
<1>2. ASSUME NEW x
      PROVE  <<x>> \in Seq({x}) /\ Len(<<x>>) = 1
  OBVIOUS
<1>3. ASSUME NEW x, NEW y
      PROVE  <<x, y>> \in Seq({x, y}) /\ Len(<<x, y>>) = 2
  OBVIOUS
<1>4. QED
  BY <1>1, <1>2, <1>3, SeqIsSeq

(* Concatenation.                                                          *)
LEMMA Joined ==
    ASSUME NEW s, NEW t, IsSeq(s), IsSeq(t)
    PROVE  /\ IsSeq(s \o t) /\ Len(s \o t) = Len(s) + Len(t)
           /\ \A i \in 1..(Len(s) + Len(t)) :
                 (s \o t)[i] = IF i <= Len(s) THEN s[i] ELSE t[i - Len(s)]
<1> DEFINE S == Range(s) \cup Range(t)
<1>1. s \in Seq(Range(s)) /\ t \in Seq(Range(t))
  BY DEF IsSeq
<1>2. s \in Seq(S) /\ t \in Seq(S)
  <2>1. \A A, B, q : q \in Seq(A) => q \in Seq(A \cup B) /\ q \in Seq(B \cup A)
    OBVIOUS
  <2>2. QED
    BY <1>1, <2>1
<1> HIDE DEF S
<1>3. s \o t \in Seq(S) /\ Len(s \o t) = Len(s) + Len(t)
      /\ \A i \in 1..(Len(s) + Len(t)) :
                 (s \o t)[i] = IF i <= Len(s) THEN s[i] ELSE t[i - Len(s)]
  BY <1>2
<1>4. QED
  BY <1>3, SeqIsSeq

(* Append.                                                                 *)
LEMMA Appended ==
    ASSUME NEW s, NEW x, IsSeq(s)
    PROVE  /\ IsSeq(Append(s, x)) /\ Len(Append(s, x)) = Len(s) + 1
           /\ Append(s, x)[Len(s) + 1] = x
           /\ \A i \in 1..Len(s) : Append(s, x)[i] = s[i]
<1> DEFINE S == Range(s) \cup {x}
<1>1. s \in Seq(S)
  <2>1. \A A, B, q : q \in Seq(A) => q \in Seq(A \cup B)
    OBVIOUS
  <2>2. QED
    BY <2>1 DEF IsSeq
<1>2. x \in S
  OBVIOUS
<1> HIDE DEF S
<1>3. /\ Append(s, x) \in Seq(S) /\ Len(Append(s, x)) = Len(s) + 1
      /\ Append(s, x)[Len(s) + 1] = x
      /\ \A i \in 1..Len(s) : Append(s, x)[i] = s[i]
  BY <1>1, <1>2
<1>4. QED
  BY <1>3, SeqIsSeq

(* Numbers are counted off by their rank.                                  *)
LEMMA AscendingIsSeq ==
    ASSUME NEW S, IsFiniteSet(S)
    PROVE  IsSeq(Ascending(S)) /\ Len(Ascending(S)) = Cardinality(S)
<1>1. Cardinality(S) \in Nat
  BY FS_CardinalityType
<1> DEFINE n == Cardinality(S)
           q == [i \in 1..n |-> CHOOSE m \in S : Cardinality({k \in S : k <= m}) = i]
<1>2. Ascending(S) = q
  BY DEF Ascending
<1>3. q = [i \in 1..n |-> q[i]]
  BY SMTT(30)
<1> HIDE DEF q, n
<1>4. n \in Nat
  BY <1>1 DEF n
<1>5. IsSeq(q) /\ Len(q) = n
  BY <1>3, <1>4, Tabulated
<1>6. QED
  BY <1>2, <1>5 DEF n

(* dict.fromkeys, and a sequence without one element, are sequences.       *)
LEMMA DistinctIsSeq ==
    ASSUME NEW s, IsSeq(s)
    PROVE  IsSeq(Distinct(s))
<1> DEFINE S == {i \in DOMAIN s : \A j \in 1..(i - 1) : s[j] # s[i]}
           order == Ascending(S)
           q == [k \in DOMAIN order |-> s[order[k]]]
<1>1. IsFiniteSet(S)
  <2>1. IsFiniteSet(DOMAIN s)
    BY SeqFacts, FS_Interval
  <2>2. S \subseteq DOMAIN s
    OBVIOUS
  <2>3. QED
    BY <2>1, <2>2, FS_Subset
<1>2. Distinct(s) = q
  BY DEF Distinct
<1> HIDE DEF S
<1>3. IsSeq(order)
  BY <1>1, AscendingIsSeq
<1> HIDE DEF order
<1>4. Len(order) \in Nat /\ DOMAIN order = 1..Len(order)
  BY <1>3, SeqFacts
<1>5. q = [k \in 1..Len(order) |-> q[k]]
  BY <1>4
<1> HIDE DEF q
<1>6. IsSeq(q)
  BY <1>4, <1>5, Tabulated
<1>7. QED
  BY <1>2, <1>6

----------------------------------------------------------------------------
(* Sequences of sequences.                                                 *)
\* The recursive function of FlattenSeq, over the first n of them.
Flattens(f, ss, n) ==
    f = [i \in 1..n |-> IF i = 1 THEN ss[i] ELSE f[i - 1] \o ss[i]]

(* The sequence of sums that FlattenSeq picks exists.                      *)
LEMMA FlattenExists == \A ss : \A n \in Nat : \E f : Flattens(f, ss, n)
<1> TAKE ss
<1> DEFINE Bad == {n \in Nat : ~\E f : Flattens(f, ss, n)}
<1> SUFFICES ASSUME Bad # {}
             PROVE  FALSE
  OBVIOUS
<1>1. PICK n \in Bad : \A m \in Bad : n <= m
  <2>1. Bad \in SUBSET Nat
    OBVIOUS
  <2> HIDE DEF Bad
  <2>2. QED
    BY <2>1, SmallestOf
<1>2. n \in Nat /\ \A f : ~Flattens(f, ss, n)
  BY <1>1
<1>3. CASE n = 0
  <2> DEFINE g == [i \in 1..0 |-> ss]
  <2>1. \A i \in 1..0 : g[i] = IF i = 1 THEN ss[i] ELSE g[i - 1] \o ss[i]
    OBVIOUS
  <2>2. g = [i \in 1..0 |-> IF i = 1 THEN ss[i] ELSE g[i - 1] \o ss[i]]
    BY <2>1
  <2> HIDE DEF g
  <2>3. Flattens(g, ss, 0)
    BY <2>2 DEF Flattens
  <2>4. QED
    BY <1>2, <1>3, <2>3
<1>4. CASE n # 0
  <2>1. n - 1 \in Nat /\ n - 1 \notin Bad
    <3>1. n - 1 \in Nat /\ ~(n <= n - 1)
      BY <1>2, <1>4
    <3> HIDE DEF Bad
    <3>2. QED
      BY <1>1, <3>1
  <2>2. PICK f : Flattens(f, ss, n - 1)
    BY <2>1
  <2> DEFINE g == [i \in 1..n |-> IF i = 1 THEN ss[i] ELSE f[i - 1] \o ss[i]]
  <2>3. ASSUME NEW i \in 1..n
        PROVE  g[i] = IF i = 1 THEN ss[i] ELSE g[i - 1] \o ss[i]
    <3>1. CASE i = 1
      BY <3>1
    <3>2. CASE i # 1
      <4>1. i - 1 \in 1..(n - 1) /\ i - 1 \in 1..n
        BY <1>2, <3>2
      <4>2. f[i - 1] = IF i - 1 = 1 THEN ss[i - 1] ELSE f[(i - 1) - 1] \o ss[i - 1]
        BY <2>2, <4>1 DEF Flattens
      <4>3. g[i - 1] = IF i - 1 = 1 THEN ss[i - 1] ELSE f[(i - 1) - 1] \o ss[i - 1]
        BY <4>1
      <4>4. g[i] = f[i - 1] \o ss[i]
        BY <3>2
      <4>5. QED
        BY <3>2, <4>2, <4>3, <4>4, Zenon
    <3>3. QED
      BY <3>1, <3>2
  <2>4. g = [i \in 1..n |-> IF i = 1 THEN ss[i] ELSE g[i - 1] \o ss[i]]
    <3>1. g = [i \in 1..n |-> g[i]]
      OBVIOUS
    <3> HIDE DEF g
    <3>2. QED
      BY <2>3, <3>1, Zenon
  <2> HIDE DEF g
  <2>5. Flattens(g, ss, n)
    BY <2>4, Zenon DEF Flattens
  <2>6. QED
    BY <1>2, <2>5
<1>5. QED
  BY <1>3, <1>4

(* What comes after a part of the result is what is in the next.           *)
LEMMA FlattenIsSeq ==
    ASSUME NEW ss, IsSeq(ss), \A i \in DOMAIN ss : IsSeq(ss[i])
    PROVE  IsSeq(FlattenSeq(ss))
<1> DEFINE n == Len(ss)
           f == CHOOSE f : Flattens(f, ss, n)
<1>1. n \in Nat /\ DOMAIN ss = 1..n
  BY SeqFacts
<1>2. CASE n = 0
  BY <1>2 DEF FlattenSeq
<1>3. CASE n # 0
  <2>1. FlattenSeq(ss) = f[n]
    BY <1>3 DEF FlattenSeq, Flattens
  <2>2. Flattens(f, ss, n)
    <3>1. \E h : Flattens(h, ss, n)
      BY <1>1, FlattenExists
    <3>2. QED
      BY <3>1, Zenon
  <2> HIDE DEF f, n
  <2>3. \A i \in 1..n : f[i] = IF i = 1 THEN ss[i] ELSE f[i - 1] \o ss[i]
    BY <2>2 DEF Flattens
  <2> DEFINE Bad == {i \in 1..n : ~IsSeq(f[i])}
  <2>4. Bad = {}
    <3> SUFFICES ASSUME Bad # {}
                 PROVE  FALSE
      OBVIOUS
    <3>1. Bad \in SUBSET Nat
      OBVIOUS
    <3>2. PICK i \in Bad : \A j \in Bad : i <= j
      <4> HIDE DEF Bad
      <4>1. QED
        BY <3>1, SmallestOf
    <3>3. i \in 1..n /\ ~IsSeq(f[i])
      BY <3>2
    <3>4. i # 1
      <4>1. 1 \in 1..n /\ IsSeq(ss[1])
        BY <1>1, <1>3
      <4>2. f[1] = ss[1]
        BY <2>3, <4>1
      <4>3. QED
        BY <3>3, <4>1, <4>2
    <3>5. i - 1 \in 1..n /\ ~(i <= i - 1)
      BY <1>1, <3>3, <3>4
    <3>6. i - 1 \notin Bad
      <4> HIDE DEF Bad
      <4>1. QED
        BY <3>2, <3>5
    <3>7. IsSeq(f[i - 1])
      BY <3>5, <3>6
    <3>8. f[i] = f[i - 1] \o ss[i]
      BY <2>3, <3>3, <3>4
    <3>9. IsSeq(ss[i])
      BY <1>1, <3>3
    <3>10. QED
      BY <3>3, <3>7, <3>8, <3>9, Joined, Zenon
  <2>5. n \in 1..n
    BY <1>1, <1>3
  <2>6. QED
    BY <2>1, <2>4, <2>5
<1>4. QED
  BY <1>2, <1>3

(* Leaving an element out of a sequence gives a sequence.                  *)
LEMMA WithoutIsSeq ==
    ASSUME NEW s, NEW x, IsSeq(s)
    PROVE  IsSeq(Without(s, x))
<1> DEFINE ss == [i \in DOMAIN s |-> IF s[i] = x THEN <<>> ELSE <<s[i]>>]
<1>1. Len(s) \in Nat /\ DOMAIN s = 1..Len(s)
  BY SeqFacts
<1>2. DOMAIN ss = DOMAIN s /\ \A i \in DOMAIN s : IsSeq(ss[i])
  BY SmallSeqs
<1>3. ss = [i \in 1..Len(s) |-> ss[i]]
  BY <1>1
<1>4. Without(s, x) = FlattenSeq(ss)
  BY DEF Without
<1> HIDE DEF ss
<1>5. IsSeq(ss)
  BY <1>1, <1>3, Tabulated
<1>6. QED
  BY <1>2, <1>4, <1>5, FlattenIsSeq

----------------------------------------------------------------------------
(* Settings.                                                               *)
LEMMA SettingFacts ==
    ASSUME setting \in Settings
    PROVE  /\ setting.budget \in Nat /\ setting.reserve \in 0..setting.budget
           /\ setting.runs \in Nat
           /\ setting.layers \in Nat /\ setting.experts \in Nat
           /\ setting.cores.physical \in Nat /\ setting.cores.logical \in Nat
           /\ setting.cores.fast \in Nat
           /\ setting.vram \in Seq(Nat)
           /\ setting.ctx \in Nat /\ setting.ladder \in Seq(Nat) /\ setting.depths \in Seq(Nat)
           /\ setting.boundaries \in Seq([moe : Nat, max_ok : Nat])
BY SettingsAssumption, LadderAssumption

(* What no budget is asked for is at least the llama-cli check.            *)
LEMMA UngatedFacts == Ungated \in Nat /\ (AsksCli => Ungated >= 1)
BY DEF Ungated

(* An allowance for one more process, or one more revalidation.            *)
LEMMA Allowing ==
    ASSUME NEW a \in Nat, NEW n \in Nat
    PROVE  a * n \in Nat /\ a * (n + 1) = a * n + a /\ a * (n + 1) \in Nat
OBVIOUS

(* The allowance has room for the budget and one process.                  *)
LEMMA AllowanceFacts ==
    ASSUME setting \in Settings, resumes \in Nat, revalidated \in Nat
    PROVE  /\ Allowance \in Nat
           /\ setting.budget + Ungated <= Allowance
<1>1. /\ setting.budget \in Nat /\ setting.runs \in Nat
  BY SettingFacts
<1>2. Ungated * (resumes + 1) = Ungated * resumes + Ungated /\ Ungated * resumes \in Nat
  BY UngatedFacts, Allowing
<1>3. setting.runs * revalidated \in Nat
  BY <1>1, Allowing
<1>4. QED
  BY <1>1, <1>2, <1>3, UngatedFacts DEF Allowance

----------------------------------------------------------------------------
(* What a step of the search does to the counters.                         *)
Searching == pc \in SearchStages \cup {"discovered"}

(* A step of the search keeps the counters, or asks the budget for a child.*)
LEMMA SearchWork ==
    ASSUME Begin \/ SearchStep
    PROVE  /\ UNCHANGED <<setting, lost, resumes>>
           /\ Searching
           /\ pc' \in SearchStages \cup {"searched", "exhausted"}
           /\ \/ UNCHANGED <<journaled, executed, children>>
              \/ CanExecute /\ Ran
<1> USE DEF Searching, SearchStages, journal, counts, history
<1>1. CASE Begin
  BY <1>1 DEF Begin, BeginSearch, Enter
<1>2. CASE Skip
  BY <1>2 DEF Skip, Trying
<1>3. CASE PruneCandidate
  BY <1>3 DEF PruneCandidate, Trying
<1>4. CASE RecallTrial
  BY <1>4 DEF RecallTrial, Trying
<1>5. CASE RunTrial
  BY <1>5 DEF RunTrial, MayRun, Trying, Ran
<1>6. CASE PairCheck
  BY <1>6 DEF PairCheck, NeedsPair, Ran
<1>7. CASE RefusePair
  BY <1>7 DEF RefusePair, NeedsPair
<1>8. CASE RecallProbe
  BY <1>8 DEF RecallProbe, NeedsProbe
<1>9. CASE PruneProbe
  BY <1>9 DEF PruneProbe, NeedsProbe
<1>10. CASE RunProbe
  BY <1>10 DEF RunProbe, NeedsProbe, Probe, Ran
<1>11. CASE Judge
  BY <1>11 DEF Judge
<1>12. CASE NextStage
  BY <1>12 DEF NextStage, AfterStage, Enter, NextDimension, Refine, AfterPairs, Leave, BeginClimb,
       Promote
<1>13. CASE GiveUpStage
  BY <1>13 DEF GiveUpStage, Trying, AfterPairs, Enter, Leave
<1>14. CASE Exhaust
  BY <1>14 DEF Exhaust, Trying, NeedsProbe, Leave
<1>15. QED
  BY <1>1, <1>2, <1>3, <1>4, <1>5, <1>6, <1>7, <1>8, <1>9, <1>10, <1>11, <1>12, <1>13, <1>14
     DEF SearchStep

(* The elements of a sequence over a set.                                  *)
LEMMA ElementOfSeq ==
    ASSUME NEW S, NEW s \in Seq(S)
    PROVE  \A i \in DOMAIN s : s[i] \in S
OBVIOUS

----------------------------------------------------------------------------
(* What the conclusion works off are sequences.                            *)
LEMMA ContextCandidatesAreSeq ==
    ASSUME setting \in Settings, NEW cfg
    PROVE  IsSeq(ContextCandidates(cfg))
<1> DEFINE bs == setting.boundaries
           place(b) == [i \in 1..(b.max_ok + 1) |->
                           [cfg EXCEPT !.gpu_layers = b.max_ok + 1 - i, !.moe_cpu_layers = b.moe]]
           others(b) == Without(place(b), cfg)
           ss == [i \in DOMAIN bs |-> others(bs[i])]
<1>1. /\ Len(bs) \in Nat /\ DOMAIN bs = 1..Len(bs)
      /\ \A i \in DOMAIN bs : bs[i].max_ok \in Nat
  <2>1. bs \in Seq([moe : Nat, max_ok : Nat])
    BY SettingFacts
  <2> HIDE DEF bs
  <2>2. Len(bs) \in Nat /\ DOMAIN bs = 1..Len(bs)
    BY <2>1
  <2>3. \A i \in DOMAIN bs : bs[i] \in [moe : Nat, max_ok : Nat]
    <3> DEFINE S == [moe : Nat, max_ok : Nat]
    <3>1. bs \in Seq(S)
      BY <2>1
    <3> HIDE DEF S
    <3>2. \A i \in DOMAIN bs : bs[i] \in S
      BY <3>1, ElementOfSeq
    <3>3. QED
      BY <3>2 DEF S
  <2>4. QED
    BY <2>2, <2>3
<1>2. ASSUME NEW i \in DOMAIN bs
      PROVE  IsSeq(others(bs[i]))
  <2> DEFINE n == bs[i].max_ok + 1
             q == place(bs[i])
  <2>1. n \in Nat
    BY <1>1
  <2>2. q = [k \in 1..n |-> q[k]]
    OBVIOUS
  <2> HIDE DEF q, n
  <2>3. IsSeq(q)
    BY <2>1, <2>2, Tabulated
  <2>4. QED
    BY <2>3, WithoutIsSeq DEF q
<1>3. ContextCandidates(cfg) = <<cfg>> \o FlattenSeq(ss)
  BY DEF ContextCandidates
<1>4. IsSeq(ss) /\ \A i \in DOMAIN ss : IsSeq(ss[i])
  <2>1. DOMAIN ss = DOMAIN bs /\ \A i \in DOMAIN bs : ss[i] = others(bs[i])
    OBVIOUS
  <2>2. ss = [i \in 1..Len(bs) |-> ss[i]]
    BY <1>1
  <2> HIDE DEF ss, bs, others
  <2>3. QED
    BY <1>1, <1>2, <2>1, <2>2, Tabulated
<1> HIDE DEF ss
<1>5. QED
  BY <1>3, <1>4, FlattenIsSeq, SmallSeqs, Joined

(* The cache-type variants of a placement.                                 *)
LEMMA VariantsAreSeq ==
    ASSUME NEW cfg
    PROVE  IsSeq(Variants(cfg))
<1> DEFINE lowersK(t) == "ctk" \in setting.caps /\ Rank(t) > Rank(cfg.cache_type_k)
           lowersV(t) ==
               "ctv" \in setting.caps /\ cfg.flash_attn /\ Rank(t) > Rank(cfg.cache_type_v)
           inK(t) == IF lowersK(t) THEN [cfg EXCEPT !.cache_type_k = t] ELSE cfg
           k(t) == IF lowersK(t) THEN <<inK(t)>> ELSE <<>>
           v(t) == IF lowersV(t) THEN <<[inK(t) EXCEPT !.cache_type_v = t]>> ELSE <<>>
<1>1. ASSUME NEW t
      PROVE  IsSeq(k(t) \o v(t))
  <2>1. IsSeq(k(t)) /\ IsSeq(v(t))
    BY SmallSeqs
  <2> HIDE DEF k, v
  <2>2. QED
    BY <2>1, Joined
<1>2. Variants(cfg) = IF setting.lossy
                      THEN <<cfg>> \o (k(Tiers[1]) \o v(Tiers[1])) \o (k(Tiers[2]) \o v(Tiers[2]))
                      ELSE <<cfg>>
  BY DEF Variants
<1> HIDE DEF k, v
<1>3. IsSeq(<<cfg>>)
  BY SmallSeqs
<1>4. IsSeq(<<cfg>> \o (k(Tiers[1]) \o v(Tiers[1])))
  BY <1>1, <1>3, Joined
<1>5. IsSeq(<<cfg>> \o (k(Tiers[1]) \o v(Tiers[1])) \o (k(Tiers[2]) \o v(Tiers[2])))
  BY <1>1, <1>4, Joined
<1>6. QED
  BY <1>2, <1>3, <1>5

(* The candidates of a rung of the envelope.                               *)
LEMMA EnvelopeCandidatesAreSeq ==
    ASSUME setting \in Settings, NEW cfg
    PROVE  IsSeq(EnvelopeCandidates(cfg))
<1> DEFINE ps == ContextCandidates(cfg)
           ss == [i \in DOMAIN ps |-> Variants(ps[i])]
<1>1. EnvelopeCandidates(cfg) = FlattenSeq(ss)
  BY DEF EnvelopeCandidates
<1>2. Len(ps) \in Nat /\ DOMAIN ps = 1..Len(ps)
  BY ContextCandidatesAreSeq, SeqFacts
<1> HIDE DEF ps
<1>3. IsSeq(ss) /\ \A i \in DOMAIN ss : IsSeq(ss[i])
  <2>1. DOMAIN ss = DOMAIN ps /\ \A i \in DOMAIN ps : ss[i] = Variants(ps[i])
    OBVIOUS
  <2>2. ss = [i \in 1..Len(ps) |-> ss[i]]
    BY <1>2
  <2> HIDE DEF ss
  <2>3. QED
    BY <1>2, <2>1, <2>2, Tabulated, VariantsAreSeq
<1> HIDE DEF ss
<1>4. QED
  BY <1>1, <1>3, FlattenIsSeq

(* The quality gate runs twice or not at all.                              *)
LEMMA GateRunsAreSeq ==
    /\ IsSeq(GateRuns) /\ Len(GateRuns) \in {0, 2}
    /\ Len(GateRuns) = 2 => setting.corpus
BY SmallSeqs DEF GateRuns

(* The contexts the lossless companion is asked at.                        *)
LEMMA LosslessTargetsAreSeq == IsSeq(LosslessTargets)
BY SmallSeqs, DistinctIsSeq DEF LosslessTargets

----------------------------------------------------------------------------
(* The counters.                                                           *)
WorkInv ==
    /\ setting \in Settings /\ pc \in Live \cup {"ended", "down"}
    /\ IsSeq(left)
    /\ CountInv

(* Adding nothing.                                                         *)
LEMMA PlusNone == \A a \in Nat : \A n : n = 0 => a + n = a
OBVIOUS

(* What a process owes is a number, and all or nothing out of the gate.    *)
LEMMA OwedFacts ==
    ASSUME IsSeq(left)
    PROVE  Owed \in Nat /\ (pc # "gate" => Owed \in {0, Ungated})
BY SeqFacts, UngatedFacts DEF Owed

(* A step that runs n children, owed already or within the budget.         *)
LEMMA CountStep ==
    ASSUME WorkInv, NEW n \in Nat,
           UNCHANGED <<setting, lost, resumes, revalidated>>,
           pc \in Live,
           journaled' = journaled + n, executed' = executed + n, children' = children + n,
           Owed' \in Nat,
           \/ Owed' + n <= Owed
           \/ Owed' <= Ungated /\ executed + n <= setting.budget,
           pc' = "gate" => Len(left') <= Ungated
    PROVE  CountInv'
<1>1. /\ journaled \in Nat /\ executed \in Nat /\ children \in Nat
      /\ lost \in Nat /\ resumes \in Nat /\ revalidated \in Nat
      /\ children <= journaled + lost /\ executed = journaled
      /\ journaled + Owed <= Allowance
  BY DEF WorkInv, CountInv
<1>2. Ungated' = Ungated /\ Allowance' = Allowance
  BY DEF Ungated, AsksCli, Allowance
<1>3. /\ setting.budget \in Nat /\ Allowance \in Nat /\ Ungated \in Nat
      /\ setting.budget + Ungated <= Allowance
  BY <1>1, SettingFacts, AllowanceFacts, UngatedFacts DEF WorkInv
<1>4. Owed \in Nat
  BY OwedFacts DEF WorkInv
<1>5. journaled' + Owed' <= Allowance
  <2> DEFINE owes == Owed
             owed == Owed'
             all == Allowance
             free == Ungated
  <2>1. /\ owes \in Nat /\ owed \in Nat /\ all \in Nat /\ free \in Nat
        /\ journaled + owes <= all /\ setting.budget + free <= all
        /\ owed + n <= owes \/ (owed <= free /\ executed + n <= setting.budget)
    BY <1>1, <1>3, <1>4
  <2> HIDE DEF owes, owed, all, free
  <2>2. journaled + n + owed <= all
    BY <1>1, <1>3, <2>1
  <2>3. QED
    BY <2>2 DEF owed, all
<1>6. /\ journaled' \in Nat /\ executed' \in Nat /\ children' \in Nat
      /\ children' <= journaled' + lost' /\ executed' = journaled'
  BY <1>1
<1>7. QED
  BY <1>1, <1>2, <1>5, <1>6 DEF CountInv

(* Where a step leads that is not of the gate.                             *)
LEMMA OwedAfter ==
    ASSUME UNCHANGED setting, pc' \in Live \ {"gate"}
    PROVE  /\ Owed' \in {0, Ungated} /\ Owed' \in Nat /\ Owed' <= Ungated
           /\ pc' \in {"envelope", "lossless", "publish"} => Owed' = 0
<1>1. Ungated' = Ungated
  BY DEF Ungated, AsksCli
<1>2. QED
  BY <1>1, UngatedFacts DEF Owed, Live, SearchStages, FinalStages

(* The search keeps the counters.                                          *)
LEMMA CountSearch ==
    ASSUME WorkInv, Begin \/ SearchStep, UNCHANGED <<finalMemory, revalidated>>
    PROVE  WorkInv'
<1>1. /\ UNCHANGED <<setting, lost, resumes>>
      /\ Searching
      /\ pc' \in SearchStages \cup {"searched", "exhausted"}
      /\ \/ UNCHANGED <<journaled, executed, children>>
         \/ CanExecute /\ Ran
  BY SearchWork
<1>2. pc \in Live /\ pc' \in Live \ {"gate"} /\ Owed = Ungated
  BY <1>1 DEF Searching, Live, SearchStages, FinalStages, Owed
<1>3. /\ setting.budget \in Nat /\ setting.reserve \in 0..setting.budget /\ executed \in Nat
      /\ journaled \in Nat /\ children \in Nat
  BY SettingFacts DEF WorkInv, CountInv
<1>4. /\ Owed' \in Nat /\ Owed' <= Ungated /\ Ungated \in Nat
  BY <1>1, <1>2, OwedAfter, UngatedFacts
<1>5. \E n \in {0, 1} :
        /\ journaled' = journaled + n /\ executed' = executed + n /\ children' = children + n
        /\ n = 0 \/ executed + n <= setting.budget
  BY <1>1, <1>3 DEF CanExecute, Ran
<1>6. CountInv'
  <2>1. PICK n \in {0, 1} :
        /\ journaled' = journaled + n /\ executed' = executed + n /\ children' = children + n
        /\ n = 0 \/ executed + n <= setting.budget
    BY <1>5
  <2>2. n \in Nat /\ (Owed' + n <= Owed \/ (Owed' <= Ungated /\ executed + n <= setting.budget))
    <3>1. n = 0 => Owed' + n = Owed'
      BY <1>4, PlusNone
    <3>2. n \in Nat
      BY <2>1
    <3>3. n = 0 \/ executed + n <= setting.budget
      BY <2>1
    <3>4. Owed' <= Owed
      BY <1>2, <1>4
    <3>5. QED
      BY <1>4, <3>1, <3>2, <3>3, <3>4
  <2>3. QED
    BY <1>1, <1>2, <1>4, <2>1, <2>2, CountStep
<1>7. QED
  BY <1>1, <1>2, <1>6 DEF WorkInv, finalMemory

----------------------------------------------------------------------------
(* What a step of the conclusion does to the counters.                     *)
Ranging(n) ==
    /\ journaled' = journaled + n /\ executed' = executed + n /\ children' = children + n
    /\ n = 0 \/ executed + n <= setting.budget

(* The conclusion runs nothing, or what the budget allows.                 *)
LEMMA FinalWork ==
    ASSUME FinalStep, pc \notin {"cli", "gate", "publish"},
           setting.runs \in Nat, setting.budget \in Nat,
           journaled \in Nat, executed \in Nat, children \in Nat
    PROVE  /\ UNCHANGED <<setting, lost, resumes>>
           /\ pc \in Live /\ pc' \in Live
           /\ IF pc \in {"envelope", "lossless"} THEN pc' \in {"envelope", "lossless", "publish"}
              ELSE pc' \notin {"envelope", "lossless", "publish", "gate"}
           /\ \E n \in Nat : Ranging(n)
<1> DEFINE Kept == UNCHANGED machineUse
           Sound == /\ UNCHANGED <<setting, lost, resumes>>
                    /\ pc \in Live /\ pc' \in Live
                    /\ IF pc \in {"envelope", "lossless"}
                       THEN pc' \in {"envelope", "lossless", "publish"}
                       ELSE pc' \notin {"envelope", "lossless", "publish", "gate"}
<1>1. Kept => \E n \in Nat : Ranging(n)
  <2>1. Kept => Ranging(0)
    BY DEF machineUse, Ranging
  <2>2. QED
    BY <2>1
<1>2. MayExecute /\ Ran => \E n \in Nat : Ranging(n)
  <2>1. MayExecute /\ Ran => Ranging(1)
    BY DEF MayExecute, Ran, Ranging
  <2>2. QED
    BY <2>1
<1>3. \A c, x, s : Probe(c, x, s) => Ran
  BY DEF Probe
<1> USE DEF Live, FinalStages, SearchStages, ascent, EnvelopeFrame, InRung, InFallbacks,
            MayAskPrimary, MayAskFallback, AfterConfirm
<1>4. CASE EndSearch
  BY <1>1, <1>4 DEF EndSearch
<1>5. CASE Validate
  BY <1>1, <1>2, <1>3, <1>5 DEF Validate, machineUse
<1>6. CASE RefuseConfirmation \/ RecallConfirmation
  BY <1>1, <1>6 DEF RefuseConfirmation, RecallConfirmation
<1>7. CASE Confirm
  <2>1. Ranging(setting.runs)
    BY <1>7 DEF Confirm, Refused, Ranging
  <2>2. QED
    BY <1>7, <2>1 DEF Confirm
<1>8. CASE DepthRun
  BY <1>1, <1>2, <1>8 DEF DepthRun
<1>9. CASE DepthDone
  BY <1>1, <1>9 DEF DepthDone
<1>10. CASE SkipRung \/ RecallPrimary \/ ExhaustPrimary \/ RecallFallback \/ CloseWithoutFallback
  BY <1>1, <1>10 DEF SkipRung, RecallPrimary, ExhaustPrimary, RecallFallback, CloseWithoutFallback
<1>11. CASE ProbePrimary
  BY <1>2, <1>3, <1>11 DEF ProbePrimary
<1>12. CASE PrunePrimary
  <2>1. Ranging(0)
    BY <1>12 DEF PrunePrimary, Ranging
  <2>2. QED
    BY <1>12, <2>1 DEF PrunePrimary
<1>13. CASE ProbeFallback
  BY <1>2, <1>3, <1>13 DEF ProbeFallback
<1>14. CASE EndEnvelope \/ LosslessDone
  BY <1>1, <1>14 DEF EndEnvelope, LosslessDone
<1>15. CASE LosslessProbe
  BY <1>1, <1>2, <1>3, <1>15 DEF LosslessProbe
<1>16. QED
  BY <1>4, <1>5, <1>6, <1>7, <1>8, <1>9, <1>10, <1>11, <1>12, <1>13, <1>14, <1>15
     DEF FinalStep, ValidateWithCli, GateRun, GateDone, Publish

(* What the conclusion has left to do stays a sequence.                    *)
LEMMA LeftKept ==
    ASSUME FinalStep, setting \in Settings, IsSeq(left)
    PROVE  IsSeq(left')
<1>1. IsSeq(Tail(left)) \/ left = <<>>
  BY SeqFacts
<1>2. IsSeq(setting.depths) /\ IsSeq(<<>>) /\ IsSeq(GateRuns) /\ IsSeq(LosslessTargets)
  BY SettingFacts, SeqIsSeq, SmallSeqs, GateRunsAreSeq, LosslessTargetsAreSeq
<1>3. \A cfg, x : IsSeq(Without(EnvelopeCandidates(cfg), x))
  BY EnvelopeCandidatesAreSeq, WithoutIsSeq
<1>4. CASE EndSearch \/ Validate \/ GateDone \/ LosslessDone \/ Publish
  BY <1>4 DEF EndSearch, Validate, GateDone, LosslessDone, Publish, finalMemory
<1>5. CASE RefuseConfirmation \/ RecallConfirmation \/ Confirm \/ DepthDone
  BY <1>2, <1>5 DEF RefuseConfirmation, RecallConfirmation, Confirm, DepthDone, AfterConfirm
<1>6. CASE DepthRun \/ GateRun \/ LosslessProbe
  BY <1>1, <1>6 DEF DepthRun, GateRun, LosslessProbe
<1>7. CASE ValidateWithCli \/ EndEnvelope
  BY <1>2, <1>7 DEF ValidateWithCli, EndEnvelope
<1>8. CASE SkipRung \/ ExhaustPrimary \/ CloseWithoutFallback
  BY <1>2, <1>8 DEF SkipRung, ExhaustPrimary, CloseWithoutFallback, CloseRung
<1>9. CASE RecallPrimary \/ ProbePrimary \/ PrunePrimary
  <2>1. left' = <<>> \/ left' = Without(EnvelopeCandidates(FallbackBase), rec.cfg)
    BY <1>9 DEF RecallPrimary, ProbePrimary, PrunePrimary, PrimaryHeard, CloseRung, LookForFallback
  <2>2. QED
    BY <1>2, <1>3, <2>1
<1>10. CASE RecallFallback \/ ProbeFallback
  <2>1. left' = <<>> \/ (left # <<>> /\ left' = Tail(left))
    BY <1>10 DEF RecallFallback, ProbeFallback, FallbackHeard, CloseRung, MayAskFallback
  <2>2. QED
    BY <1>1, <1>2, <2>1
<1>11. QED
  BY <1>4, <1>5, <1>6, <1>7, <1>8, <1>9, <1>10 DEF FinalStep

(* The conclusion keeps the counters.                                      *)
LEMMA CountFinal ==
    ASSUME WorkInv, FinalStep, UNCHANGED revalidated
    PROVE  WorkInv'
<1> USE DEF Live, FinalStages, SearchStages
<1>1. /\ setting.budget \in Nat /\ setting.runs \in Nat
      /\ executed \in Nat /\ journaled \in Nat /\ children \in Nat
      /\ Owed \in Nat /\ Ungated \in Nat
  BY SettingFacts, OwedFacts, UngatedFacts DEF WorkInv, CountInv
<1>2. IsSeq(left')
  BY LeftKept DEF WorkInv
<1>3. CASE pc \notin {"cli", "gate", "publish"}
  <2>1. /\ UNCHANGED <<setting, lost, resumes>>
        /\ pc \in Live /\ pc' \in Live
        /\ IF pc \in {"envelope", "lossless"} THEN pc' \in {"envelope", "lossless", "publish"}
           ELSE pc' \notin {"envelope", "lossless", "publish", "gate"}
        /\ \E n \in Nat : Ranging(n)
    BY <1>1, <1>3, FinalWork
  <2>2. PICK n \in Nat : Ranging(n)
    BY <2>1
  <2>3. pc' # "gate" /\ Owed' \in Nat /\ Owed' <= Ungated /\ Owed' <= Owed
    BY <1>1, <1>3, <2>1, OwedAfter DEF Owed
  <2>4. Owed' + n <= Owed \/ (Owed' <= Ungated /\ executed + n <= setting.budget)
    <3>1. n = 0 => Owed' + n = Owed'
      BY <2>3, PlusNone
    <3>2. n = 0 \/ executed + n <= setting.budget
      BY <2>2 DEF Ranging
    <3>3. QED
      BY <2>3, <3>1, <3>2
  <2>5. CountInv'
    BY <2>1, <2>2, <2>3, <2>4, CountStep DEF Ranging
  <2>6. QED
    BY <1>2, <2>1, <2>5 DEF WorkInv
<1>4. CASE pc = "cli"
  <2>1. ValidateWithCli
    BY <1>4 DEF FinalStep, EndSearch, Validate, RefuseConfirmation, RecallConfirmation, Confirm,
         DepthRun, DepthDone, GateRun, GateDone, SkipRung, RecallPrimary, ProbePrimary,
         ExhaustPrimary, PrunePrimary, RecallFallback, ProbeFallback, CloseWithoutFallback,
         EndEnvelope, LosslessProbe, LosslessDone, Publish, InRung, InFallbacks, MayAskPrimary,
         MayAskFallback
  <2> DEFINE n == IF AsksCli THEN 1 ELSE 0
  <2>2. /\ UNCHANGED <<setting, lost, resumes>>
        /\ pc' = "gate" /\ left' = GateRuns /\ n \in Nat
        /\ journaled' = journaled + n /\ executed' = executed + n /\ children' = children + n
    BY <1>1, <2>1 DEF ValidateWithCli, Ran, ascent, machineUse
  <2>3. Len(left') \in Nat /\ n + Len(left') <= Ungated
    <3>1. Len(left') \in {0, 2} /\ (Len(left') = 2 => setting.corpus)
      BY <2>2, GateRunsAreSeq
    <3>2. Ungated = n + (IF setting.corpus THEN 2 ELSE 0)
      BY DEF Ungated
    <3>3. n \in Nat
      BY <2>2
    <3> HIDE DEF n
    <3>4. QED
      BY <3>1, <3>2, <3>3
  <2>4. Owed = Ungated /\ Owed' = Len(left')
    BY <1>4, <2>2 DEF Owed
  <2>5. CountInv'
    <3> DEFINE l == Len(left')
    <3>1. l \in Nat /\ n + l <= Ungated
      BY <2>3
    <3> HIDE DEF l
    <3>2. l + n <= Ungated /\ l <= Ungated
      BY <1>1, <3>1
    <3> HIDE DEF n
    <3>3. QED
      BY <1>4, <2>2, <2>4, <3>1, <3>2, CountStep DEF l
  <2>6. QED
    BY <1>2, <2>2, <2>5 DEF WorkInv
<1>5. CASE pc = "gate"
  <2>1. GateRun \/ GateDone
    BY <1>5 DEF FinalStep, EndSearch, Validate, RefuseConfirmation, RecallConfirmation, Confirm,
         DepthRun, DepthDone, ValidateWithCli, SkipRung, RecallPrimary, ProbePrimary,
         ExhaustPrimary, PrunePrimary, RecallFallback, ProbeFallback, CloseWithoutFallback,
         EndEnvelope, LosslessProbe, LosslessDone, Publish, InRung, InFallbacks, MayAskPrimary,
         MayAskFallback
  <2>2. Len(left) \in Nat /\ Owed = Len(left) /\ Len(left) <= Ungated
    BY <1>5, SeqFacts DEF WorkInv, CountInv, Owed
  <2>3. CASE GateRun
    <3>1. /\ UNCHANGED <<setting, lost, resumes>>
          /\ pc' = "gate" /\ left # <<>> /\ left' = Tail(left)
          /\ journaled' = journaled + 1 /\ executed' = executed + 1 /\ children' = children + 1
      BY <1>5, <2>3 DEF GateRun, Ran, ascent
    <3>2. Len(left') = Len(left) - 1 /\ Len(left') \in Nat
      BY <1>2, <3>1, SeqFacts DEF WorkInv
    <3>3. Owed' = Len(left')
      BY <3>1 DEF Owed
    <3>4. CountInv'
      BY <1>1, <1>5, <2>2, <3>1, <3>2, <3>3, CountStep
    <3>5. QED
      BY <1>2, <3>1, <3>4 DEF WorkInv
  <2>4. CASE GateDone
    <3>1. /\ UNCHANGED <<setting, lost, resumes>>
          /\ pc' \in {"envelope", "publish"}
          /\ journaled' = journaled /\ executed' = executed /\ children' = children
      BY <1>5, <2>4 DEF GateDone, ascent, machineUse
    <3>2. Owed' = 0
      BY <3>1 DEF Owed
    <3>3. CountInv'
      BY <1>1, <1>5, <2>2, <3>1, <3>2, CountStep
    <3>4. QED
      BY <1>2, <3>1, <3>3 DEF WorkInv
  <2>5. QED
    BY <2>1, <2>3, <2>4
<1>6. CASE pc = "publish"
  <2>1. Publish
    BY <1>6 DEF FinalStep, EndSearch, Validate, RefuseConfirmation, RecallConfirmation, Confirm,
         DepthRun, DepthDone, ValidateWithCli, GateRun, GateDone, SkipRung, RecallPrimary,
         ProbePrimary, ExhaustPrimary, PrunePrimary, RecallFallback, ProbeFallback,
         CloseWithoutFallback, EndEnvelope, LosslessProbe, LosslessDone, InRung, InFallbacks,
         MayAskPrimary, MayAskFallback
  <2>2. /\ UNCHANGED <<setting, lost, resumes>>
        /\ pc' = "ended"
        /\ journaled' = journaled /\ executed' = executed /\ children' = children
    BY <2>1 DEF Publish, ascent, machineUse
  <2>3. Owed' = 0 /\ Owed = 0
    BY <1>6, <2>2 DEF Owed
  <2>4. CountInv'
    BY <1>1, <1>6, <2>2, <2>3, CountStep
  <2>5. QED
    BY <1>2, <2>2, <2>4 DEF WorkInv
<1>7. QED
  BY <1>3, <1>4, <1>5, <1>6

(* Nothing has run when the search begins.                                 *)
LEMMA InitCount ==
    ASSUME Init
    PROVE  CountInv
<1>1. /\ setting \in Settings /\ journaled = 0 /\ executed = 0 /\ children = 0
      /\ lost = 0 /\ resumes = 0 /\ revalidated = 0 /\ pc = "discovered"
  BY DEF Init, SearchInit
<1>2. setting.budget \in Nat /\ setting.budget + Ungated <= Allowance /\ Allowance \in Nat
  BY <1>1, AllowanceFacts, SettingFacts
<1>3. Owed = Ungated /\ Ungated \in Nat
  BY <1>1, UngatedFacts DEF Owed
<1>4. QED
  BY <1>1, <1>2, <1>3 DEF CountInv

(* A process that dies loses the count of one child.                       *)
LEMMA CountDown ==
    ASSUME WorkInv, Crash
    PROVE  WorkInv'
<1>1. /\ UNCHANGED <<setting, journaled, executed, resumes, revalidated, left>>
      /\ pc \in Live /\ pc' = "down" /\ lost' = lost + 1
      /\ children' = children \/ children' = children + 1
  <2>1. \E n \in {0, 1} : children' = children + n
    BY DEF Crash
  <2>2. children \in Nat
    BY DEF WorkInv, CountInv
  <2>3. QED
    BY <2>1, <2>2 DEF Crash, journal, finalMemory
<1>2. Allowance' = Allowance /\ Owed' = 0 /\ Owed \in Nat /\ Allowance \in Nat
  BY <1>1, OwedFacts, AllowanceFacts DEF Allowance, Ungated, AsksCli, Owed, WorkInv, CountInv
<1>3. CountInv'
  <2>1. journaled' + Owed' <= Allowance'
    BY <1>1, <1>2 DEF WorkInv, CountInv
  <2>2. /\ journaled' \in Nat /\ executed' \in Nat /\ children' \in Nat
        /\ lost' \in Nat /\ resumes' \in Nat /\ revalidated' \in Nat
        /\ children' <= journaled' + lost'
    BY <1>1 DEF WorkInv, CountInv
  <2>3. pc' \notin Live
    BY <1>1 DEF Live, SearchStages, FinalStages
  <2>4. QED
    BY <1>1, <2>1, <2>2, <2>3 DEF CountInv
<1>4. QED
  BY <1>1, <1>3 DEF WorkInv

(* A later process reads the count in the journal.                         *)
LEMMA CountAgain ==
    ASSUME WorkInv, Resume
    PROVE  WorkInv'
<1>1. /\ UNCHANGED <<setting, journaled, children, lost, revalidated>>
      /\ executed' = journaled /\ pc' = "discovered" /\ left' = <<>>
      /\ pc \in {"ended", "down"} /\ resumes' = resumes + 1
  BY DEF Resume, SearchRestart, FreshFinal, journal
<1>2. Ungated' = Ungated /\ Ungated \in Nat
  BY <1>1, UngatedFacts DEF Ungated, AsksCli
<1>3. Allowance' = Allowance + Ungated /\ Allowance \in Nat
  <2>1. /\ setting.budget \in Nat /\ setting.runs * revalidated \in Nat
        /\ resumes \in Nat
    BY SettingFacts, Allowing DEF WorkInv, CountInv
  <2>2. /\ Ungated * (resumes + 1) \in Nat
        /\ Ungated * (resumes + 1 + 1) = Ungated * (resumes + 1) + Ungated
    BY <1>2, <2>1, Allowing
  <2>3. QED
    BY <1>1, <1>2, <2>1, <2>2, AllowanceFacts DEF Allowance, WorkInv, CountInv
<1>4. Owed = 0 /\ Owed' = Ungated
  BY <1>1, <1>2 DEF Owed
<1>5. CountInv'
  <2>1. journaled' + Owed' <= Allowance'
    BY <1>1, <1>2, <1>3, <1>4 DEF WorkInv, CountInv
  <2>2. QED
    BY <1>1, <2>1 DEF WorkInv, CountInv
<1>6. QED
  BY <1>1, <1>5, SmallSeqs DEF WorkInv, Live

(* A revalidation runs the confirmation, whatever the budget.              *)
LEMMA CountRevalidated ==
    ASSUME WorkInv, Revalidate
    PROVE  WorkInv'
<1>1. PICK n \in 0..setting.runs, d \in {0, 1} :
        /\ children' = children + n + d /\ journaled' = journaled + n /\ lost' = lost + d
  BY DEF Revalidate
<1>2. /\ UNCHANGED <<setting, pc, executed, resumes, left>>
      /\ pc \in {"ended", "down"} /\ revalidated' = revalidated + 1
  BY DEF Revalidate, stage, finalMemory
<1>3. setting.runs \in Nat /\ n \in Nat /\ n <= setting.runs /\ d \in Nat
  BY SettingFacts DEF WorkInv
<1>4. Allowance' = Allowance + setting.runs /\ Allowance \in Nat
  <2>1. /\ setting.budget \in Nat /\ Ungated * (resumes + 1) \in Nat
        /\ setting.runs * (revalidated + 1) = setting.runs * revalidated + setting.runs
        /\ setting.runs * revalidated \in Nat /\ Ungated' = Ungated
    BY <1>2, <1>3, SettingFacts, UngatedFacts, Allowing DEF WorkInv, CountInv, Ungated, AsksCli
  <2>2. QED
    BY <1>2, <1>3, <2>1, AllowanceFacts DEF Allowance, WorkInv, CountInv
<1>5. Owed = 0 /\ Owed' = 0 /\ pc \notin Live
  BY <1>2 DEF Owed, Live, SearchStages, FinalStages
<1>6. CountInv'
  <2>1. journaled' + Owed' <= Allowance'
    BY <1>1, <1>3, <1>4, <1>5 DEF WorkInv, CountInv
  <2>2. /\ journaled' \in Nat /\ children' \in Nat /\ lost' \in Nat
        /\ children' <= journaled' + lost'
    BY <1>1, <1>3 DEF WorkInv, CountInv
  <2>3. QED
    <3>1. executed' \in Nat /\ resumes' \in Nat /\ revalidated' \in Nat
      BY <1>2 DEF WorkInv, CountInv
    <3>2. pc' \notin Live /\ pc' # "gate"
      BY <1>2, <1>5
    <3>3. QED
      BY <2>1, <2>2, <3>1, <3>2 DEF CountInv
<1>7. QED
  BY <1>2, <1>6 DEF WorkInv

(* What leaves the counters alone keeps them.                              *)
LEMMA CountSteady ==
    ASSUME WorkInv, UNCHANGED <<setting, pc, journaled, executed, children, lost, resumes,
                                revalidated, left>>
    PROVE  WorkInv'
BY DEF WorkInv, CountInv, Owed, Allowance, Ungated, AsksCli, Live

(***************************************************************************)
(* The budget bounds the work of all processes of a session together: a    *)
(* resume starts from the journaled count, a process that dies loses the   *)
(* count of one child, and only llama-cli, the perplexity runs and a       *)
(* revalidation go without asking.                                         *)
(***************************************************************************)
THEOREM WorkHolds == Spec => []WorkBounded
<1>1. Init => WorkInv
  BY InitCount, SmallSeqs DEF WorkInv, Init, SearchInit, Live
<1>2. WorkInv /\ [Next]_vars => WorkInv'
  <2> SUFFICES ASSUME WorkInv, [Next]_vars
               PROVE  WorkInv'
    OBVIOUS
  <2>1. CASE Step
    BY <2>1, CountSearch, CountFinal DEF Step
  <2>2. CASE Interrupt \/ Expire
    BY <2>2, CountSteady DEF Interrupt, Expire, journal, stage, counts, finalMemory
  <2>3. CASE Crash
    BY <2>3, CountDown
  <2>4. CASE Resume
    BY <2>4, CountAgain
  <2>5. CASE Revalidate
    BY <2>5, CountRevalidated
  <2>6. CASE UNCHANGED vars
    BY <2>6, CountSteady DEF vars, searchVars, journal, stage, counts, finalMemory
  <2>7. QED
    BY <2>1, <2>2, <2>3, <2>4, <2>5, <2>6 DEF Next, Finished
<1>3. WorkInv => WorkBounded
  <2> SUFFICES ASSUME WorkInv
               PROVE  WorkBounded
    OBVIOUS
  <2>1. /\ children \in Nat /\ journaled \in Nat /\ lost \in Nat /\ children <= journaled + lost
        /\ journaled + Owed <= Allowance /\ Owed \in Nat /\ Allowance \in Nat
    BY OwedFacts, AllowanceFacts DEF WorkInv, CountInv
  <2>2. /\ setting.budget \in Nat /\ Ungated * (resumes + 1) \in Nat
        /\ setting.runs * revalidated \in Nat
    BY SettingFacts, UngatedFacts, Allowing DEF WorkInv, CountInv
  <2>3. children <= Allowance + lost
    BY <2>1
  <2>4. QED
    BY <2>1, <2>2, <2>3 DEF WorkBounded, Allowance
<1>4. QED
  BY <1>1, <1>2, <1>3, PTL DEF Spec

----------------------------------------------------------------------------
(* Applying a mutation.                                                    *)
LEMMA ClampIn ==
    ASSUME NEW n \in Int, NEW low \in Int, NEW high \in Int, low <= high
    PROVE  Clamp(n, low, high) \in low..high
BY DEF Clamp, Smaller, Larger

Shape(m) ==
    /\ m.shift \in Int
    /\ "moe_cpu_layers" \in DOMAIN m.set => m.set.moe_cpu_layers \in Nat

(* What a mutation sets, what it shifts, and what it leaves alone.         *)
LEMMA AppliedFields ==
    ASSUME NEW cfg, cfg = [f \in Fields |-> cfg[f]], NEW m
    PROVE  LET c == Applied(m, cfg)
           IN  /\ c = [f \in Fields |-> c[f]]
               /\ \A f \in Fields \ {"moe_cpu_layers"} :
                     c[f] = IF f \in DOMAIN m.set THEN m.set[f] ELSE cfg[f]
               /\ c.moe_cpu_layers =
                     LET n == IF "moe_cpu_layers" \in DOMAIN m.set THEN m.set.moe_cpu_layers
                              ELSE cfg.moe_cpu_layers
                     IN  IF m.shift = 0 THEN n ELSE Clamp(n + m.shift, 0, setting.experts)
<1> DEFINE changed == [f \in DOMAIN cfg |-> IF f \in DOMAIN m.set THEN m.set[f] ELSE cfg[f]]
           c == Applied(m, cfg)
<1>1. DOMAIN cfg = Fields
  BY Zenon
<1>2. c = [changed EXCEPT !.moe_cpu_layers =
            IF m.shift = 0 THEN changed.moe_cpu_layers
            ELSE Clamp(changed.moe_cpu_layers + m.shift, 0, setting.experts)]
  BY DEF Applied
<1>3. "moe_cpu_layers" \in Fields
  BY DEF Fields
<1> DEFINE moe == IF m.shift = 0 THEN changed.moe_cpu_layers
                  ELSE Clamp(changed.moe_cpu_layers + m.shift, 0, setting.experts)
<1> HIDE DEF c, moe
<1>4. c = [changed EXCEPT !.moe_cpu_layers = moe]
  BY <1>2 DEF moe
<1>5. /\ DOMAIN changed = Fields
      /\ \A f \in Fields : changed[f] = IF f \in DOMAIN m.set THEN m.set[f] ELSE cfg[f]
  BY <1>1
<1> HIDE DEF changed
<1>6. /\ c = [f \in Fields |-> c[f]]
      /\ \A f \in Fields \ {"moe_cpu_layers"} : c[f] = changed[f]
      /\ c.moe_cpu_layers = moe
  BY <1>3, <1>4, <1>5
<1>7. QED
  BY <1>3, <1>5, <1>6 DEF c, moe

(* A harmless mutation, or one that was checked, leaves a valid            *)
(* configuration.                                                          *)
LEMMA AppliedIsConfig ==
    ASSUME setting \in Settings, NEW cfg, ConfigOK(cfg), NEW m, Shape(m),
           Harmless(m) \/ Valid(Applied(m, cfg))
    PROVE  ConfigOK(Applied(m, cfg))
<1> DEFINE c == Applied(m, cfg)
           n == IF "moe_cpu_layers" \in DOMAIN m.set THEN m.set.moe_cpu_layers
                ELSE cfg.moe_cpu_layers
<1>1. /\ c = [f \in Fields |-> c[f]]
      /\ \A f \in Fields \ {"moe_cpu_layers"} :
            c[f] = IF f \in DOMAIN m.set THEN m.set[f] ELSE cfg[f]
      /\ c.moe_cpu_layers = IF m.shift = 0 THEN n ELSE Clamp(n + m.shift, 0, setting.experts)
  BY AppliedFields DEF ConfigOK
<1>2. n \in Nat /\ setting.experts \in Nat /\ m.shift \in Int
  BY SettingFacts DEF ConfigOK, Shape
<1>3. Clamp(n + m.shift, 0, setting.experts) \in 0..setting.experts
  <2> DEFINE experts == setting.experts
             sum == n + m.shift
  <2>1. sum \in Int /\ experts \in Int /\ 0 <= experts
    BY <1>2
  <2> HIDE DEF sum, experts
  <2>2. Clamp(sum, 0, experts) \in 0..experts
    BY <2>1, ClampIn
  <2>3. QED
    BY <2>2 DEF sum, experts
<1>4. c.moe_cpu_layers \in Nat
  BY <1>1, <1>2, <1>3
<1>5. ASSUME Harmless(m)
      PROVE  Valid(c)
  <2>1. /\ c.gpu_layers = cfg.gpu_layers /\ c.ubatch = cfg.ubatch /\ c.batch = cfg.batch
        /\ c.cache_type_v = cfg.cache_type_v /\ c.flash_attn = cfg.flash_attn
    BY <1>1, <1>5 DEF Harmless, Fields
  <2>2. c.threads \in 1..setting.cores.logical
    BY <1>1, <1>5 DEF Harmless, Fields, ConfigOK, Valid, ValidFor
  <2>3. IF setting.experts > 0 THEN c.moe_cpu_layers <= setting.experts ELSE c.moe_cpu_layers = 0
    <3>1. CASE m.shift # 0
      BY <1>1, <1>2, <1>3, <1>5, <3>1 DEF Harmless, IsMoe
    <3>2. CASE m.shift = 0
      <4>1. c.moe_cpu_layers = 0 \/ c.moe_cpu_layers = cfg.moe_cpu_layers
        BY <1>1, <1>5, <3>2 DEF Harmless
      <4>2. QED
        BY <1>2, <4>1 DEF ConfigOK, Valid, ValidFor
    <3>3. QED
      BY <3>1, <3>2
  <2>4. QED
    BY <2>1, <2>2, <2>3 DEF ConfigOK, Valid, ValidFor
<1>6. QED
  BY <1>1, <1>4, <1>5 DEF ConfigOK

----------------------------------------------------------------------------
(* What each stage proposes.                                               *)
Proposable(q, unchecked) ==
    /\ IsSeq(q)
    /\ \A i \in DOMAIN q : Shape(q[i]) /\ (unchecked => Harmless(q[i]))

(* The candidate an index of a cross product stands for.                   *)
LEMMA CrossIndex ==
    ASSUME NEW a \in Nat, NEW b \in Nat
    PROVE  /\ a * b \in Nat
           /\ \A k \in 1..(a * b) : ((k - 1) \div b) + 1 \in 1..a /\ ((k - 1) % b) + 1 \in 1..b
<1>1. a * b \in Nat
  OBVIOUS
<1>2. ASSUME NEW k \in 1..(a * b)
      PROVE  ((k - 1) \div b) + 1 \in 1..a /\ ((k - 1) % b) + 1 \in 1..b
  <2>1. b > 0 /\ k - 1 \in Nat /\ k - 1 < a * b
    <3>1. b = 0 => a * b = 0
      OBVIOUS
    <3>2. k \in Nat /\ 1 <= k /\ k <= a * b
      BY <1>1
    <3>3. QED
      BY <1>1, <3>1, <3>2
  <2> DEFINE q == (k - 1) \div b
             r == (k - 1) % b
  <2>2. q \in Nat /\ r \in 0..(b - 1) /\ k - 1 = b * q + r
    BY <2>1
  <2> HIDE DEF q, r
  <2>3. q < a
    <3>1. SUFFICES ASSUME q >= a
                   PROVE  FALSE
      BY <2>2
    <3>2. PICK e \in Nat : q = a + e
      <4>1. q - a \in Nat /\ q = a + (q - a)
        BY <2>2, <3>1
      <4>2. QED
        BY <4>1
    <3>3. b * q = a * b + b * e /\ b * e \in Nat /\ b * q \in Nat
      BY <3>2
    <3>4. QED
      BY <1>1, <2>1, <2>2, <3>3
  <2>4. q + 1 \in 1..a /\ r + 1 \in 1..b
    BY <2>2, <2>3
  <2>5. QED
    BY <2>4 DEF q, r
<1>3. QED
  BY <1>1, <1>2

(* The neighbours of a value are candidates.                               *)
LEMMA NeighboursIn ==
    ASSUME NEW values \in SUBSET Nat, NEW value \in Nat
    PROVE  /\ IsSeq(Below(values, value)) /\ IsSeq(Above(values, value))
           /\ \A i \in DOMAIN Below(values, value) :
                Below(values, value)[i] \in values /\ Below(values, value)[i] < value
           /\ \A i \in DOMAIN Above(values, value) :
                Above(values, value)[i] \in values /\ Above(values, value)[i] > value
<1> DEFINE less == {v \in values : v < value}
           more == {v \in values : v > value}
           low == CHOOSE v \in less : \A u \in less : u <= v
           high == CHOOSE v \in more : \A u \in more : v <= u
<1>1. less # {} => low \in less
  <2> SUFFICES ASSUME less # {}
               PROVE  \E v \in less : \A u \in less : u <= v
    OBVIOUS
  <2> DEFINE gaps == {value - v : v \in less}
  <2>1. gaps \in SUBSET Nat /\ gaps # {}
    <3>1. \A v \in less : value - v \in Nat
      OBVIOUS
    <3> HIDE DEF less
    <3>2. QED
      BY <3>1
  <2>2. PICK g \in gaps : \A x \in gaps : g <= x
    <3> HIDE DEF gaps
    <3>1. QED
      BY <2>1, SmallestOf
  <2>3. PICK v \in less : g = value - v
    BY <2>2
  <2>4. \A u \in less : value - v <= value - u
    BY <2>2, <2>3
  <2>5. QED
    BY <2>3, <2>4
<1>2. more # {} => high \in more
  <2>1. more \in SUBSET Nat
    OBVIOUS
  <2> HIDE DEF more
  <2>2. QED
    BY <2>1, SmallestOf
<1>3. Below(values, value) = IF less = {} THEN <<>> ELSE <<low>>
  BY DEF Below
<1>4. Above(values, value) = IF more = {} THEN <<>> ELSE <<high>>
  BY DEF Above
<1> HIDE DEF low, high
<1>5. QED
  BY <1>1, <1>2, <1>3, <1>4, SmallSeqs

(* Below and Above are of none or one, whatever the value.                 *)
LEMMA NeighboursAreSeq ==
    \A values, value : IsSeq(Below(values, value)) /\ IsSeq(Above(values, value))
BY SmallSeqs DEF Below, Above

(* Thread counts are at least one and at most the logical cores.           *)
LEMMA ThreadsInRange ==
    ASSUME setting \in Settings, setting.cores.logical >= 1
    PROVE  /\ ThreadCandidates \in SUBSET (1..setting.cores.logical)
           /\ IsFiniteSet(ThreadCandidates)
<1> DEFINE physical == setting.cores.physical
           logical == setting.cores.logical
           half == Larger(1, HalfRounded(physical))
           fast == IF setting.cores.fast > 0 THEN {setting.cores.fast} ELSE {}
           raw == {physical, half, logical, HalfRounded(half + physical),
                   HalfRounded(physical + logical)} \cup fast
<1>1. physical \in Nat /\ logical \in Nat /\ logical >= 1 /\ setting.cores.fast \in Nat
  BY SettingFacts
<1>2. \A n \in Nat : HalfRounded(n) \in Nat
  BY DEF HalfRounded
<1>3. half \in Nat
  BY <1>1, <1>2 DEF Larger
<1>4. raw \in SUBSET Nat
  <2> HIDE DEF half, physical, logical
  <2>1. HalfRounded(half + physical) \in Nat /\ HalfRounded(physical + logical) \in Nat
    BY <1>1, <1>2, <1>3
  <2>2. QED
    BY <1>1, <1>3, <2>1
<1>5. IsFiniteSet(raw)
  <2>1. \A a, b, c, d, e : IsFiniteSet({a, b, c, d, e})
    <3> TAKE a, b, c, d, e
    <3>1. IsFiniteSet({} \cup {a}) /\ {} \cup {a} = {a}
      BY FS_EmptySet, FS_AddElement
    <3>2. IsFiniteSet({a} \cup {b}) /\ {a} \cup {b} = {a, b}
      BY <3>1, FS_AddElement
    <3>3. IsFiniteSet({a, b} \cup {c}) /\ {a, b} \cup {c} = {a, b, c}
      BY <3>2, FS_AddElement
    <3>4. IsFiniteSet({a, b, c} \cup {d}) /\ {a, b, c} \cup {d} = {a, b, c, d}
      BY <3>3, FS_AddElement
    <3>5. IsFiniteSet({a, b, c, d} \cup {e}) /\ {a, b, c, d} \cup {e} = {a, b, c, d, e}
      BY <3>4, FS_AddElement
    <3>6. QED
      BY <3>5
  <2>2. IsFiniteSet(fast)
    BY FS_EmptySet, FS_Singleton
  <2>3. QED
    BY <2>1, <2>2, FS_Union
<1>6. ThreadCandidates = {Clamp(n, 1, logical) : n \in raw}
  BY DEF ThreadCandidates
<1> HIDE DEF raw, logical
<1>7. \A n \in raw : Clamp(n, 1, logical) \in 1..logical
  <2>1. logical \in Int /\ 1 \in Int /\ 1 <= logical /\ \A n \in raw : n \in Int
    BY <1>1, <1>4
  <2>2. QED
    BY <2>1, ClampIn
<1>8. IsFiniteSet({Clamp(n, 1, logical) : n \in raw})
  <2> DEFINE f == [n \in raw |-> Clamp(n, 1, logical)]
             image == {Clamp(n, 1, logical) : n \in raw}
  <2>1. f \in Surjection(raw, image)
    BY DEF Surjection
  <2> HIDE DEF f, image
  <2>2. IsFiniteSet(image)
    BY <1>5, <2>1, FS_Surjection
  <2>3. QED
    BY <2>2 DEF image
<1>9. QED
  BY <1>6, <1>7, <1>8 DEF logical

(* One mutation for every value of a dimension.                            *)
LEMMA ProposedFacts ==
    ASSUME NEW dim, NEW vs, IsSeq(vs)
    PROVE  /\ IsSeq(Proposed(dim, vs)) /\ Len(Proposed(dim, vs)) = Len(vs)
           /\ DOMAIN Proposed(dim, vs) = DOMAIN vs
           /\ \A i \in DOMAIN vs : /\ DOMAIN Proposed(dim, vs)[i].set = {dim}
                                   /\ Proposed(dim, vs)[i].set[dim] = vs[i]
                                   /\ Proposed(dim, vs)[i].shift = 0
<1> DEFINE q == Proposed(dim, vs)
<1>1. q = [i \in DOMAIN vs |-> [set |-> [f \in {dim} |-> vs[i]], shift |-> 0]]
  BY DEF Proposed, Setting, Mutation
<1>2. Len(vs) \in Nat /\ DOMAIN vs = 1..Len(vs)
  BY SeqFacts
<1>3. DOMAIN q = DOMAIN vs
  BY <1>1
<1>4. q = [i \in 1..Len(vs) |-> q[i]]
  BY <1>1, <1>2
<1>5. \A i \in DOMAIN q : /\ DOMAIN q[i].set = {dim} /\ q[i].set[dim] = vs[i]
                           /\ q[i].shift = 0
  BY <1>1
<1> HIDE DEF q
<1>6. IsSeq(q) /\ Len(q) = Len(vs)
  BY <1>2, <1>4, Tabulated
<1>7. QED
  BY <1>3, <1>5, <1>6 DEF q

(* The placements of a machine are a sequence.                             *)
LEMMA PlacementsAreSeq ==
    ASSUME setting \in Settings
    PROVE  IsSeq(Placements)
<1> DEFINE n == Len(setting.vram)
           one(d) == [i \in 1..n |-> IF i = d THEN 1 ELSE 0]
           even == [i \in 1..n |-> 1]
           singles == [d \in 1..n |-> one(d)]
           splits == Distinct(<<setting.vram, even>> \o singles)
           modes == <<"layer", "row">>
           q == [k \in 1..(Len(splits) * Len(modes)) |->
                    <<splits[((k - 1) \div Len(modes)) + 1], modes[((k - 1) % Len(modes)) + 1]>>]
<1>1. n \in Nat
  BY SettingFacts
<1>2. IsSeq(singles)
  <2>1. singles = [d \in 1..n |-> singles[d]]
    OBVIOUS
  <2> HIDE DEF singles, n
  <2>2. QED
    BY <1>1, <2>1, Tabulated
<1>3. IsSeq(splits)
  <2>1. IsSeq(<<setting.vram, even>> \o singles)
    <3> HIDE DEF even, singles
    <3>1. QED
      BY <1>2, SmallSeqs, Joined
  <2>2. QED
    BY <2>1, DistinctIsSeq
<1>4. IsSeq(modes)
  BY SmallSeqs
<1>5. Placements = IF n < 2 THEN <<>> ELSE q
  BY DEF Placements, Crossed
<1>6. IsSeq(q)
  <2>1. Len(splits) * Len(modes) \in Nat
    <3> HIDE DEF splits, modes
    <3>1. QED
      BY <1>3, <1>4, SeqFacts, CrossIndex
  <2> DEFINE size == Len(splits) * Len(modes)
  <2>2. q = [k \in 1..size |-> q[k]] /\ size \in Nat
    BY <2>1
  <2> HIDE DEF q, size
  <2>3. QED
    BY <2>2, Tabulated
<1> HIDE DEF q
<1>7. QED
  BY <1>5, <1>6, SmallSeqs

(* What a dimension may be set to is a sequence.                           *)
LEMMA CandidatesAreSeq ==
    ASSUME setting \in Settings, setting.cores.logical >= 1, NEW dim, NEW cfg
    PROVE  IsSeq(Candidates(dim, cfg))
<1>1. IsSeq(Ascending(ThreadCandidates))
  BY ThreadsInRange, AscendingIsSeq
<1>2. IsSeq(UbatchCandidates) /\ IsSeq(BatchCandidates)
  BY BoundsAssumption, SeqIsSeq
<1>3. IsSeq(<<TRUE, FALSE>>) /\ IsSeq(<<FALSE, TRUE>>) /\ IsSeq(<<>>)
  BY SmallSeqs
<1>4. IsSeq(CacheTypes)
  <2>1. CacheTypes = <<"f16", "q8_0">> \o <<"q4_0">>
    BY DEF CacheTypes
  <2>2. QED
    BY <2>1, SmallSeqs, Joined
<1>5. QED
  BY <1>1, <1>2, <1>3, <1>4 DEF Candidates

(* Placements cannot break a valid configuration.                          *)
LEMMA SplitProposable ==
    ASSUME setting \in Settings, NEW dim, NEW cfg
    PROVE  Proposable(Mutations("split", dim, cfg), TRUE)
<1>1. Mutations("split", dim, cfg) = Proposed("placement", Placements)
  BY DEF Mutations
<1> DEFINE q == Proposed("placement", Placements)
<1>2. IsSeq(q) /\ \A i \in DOMAIN q : DOMAIN q[i].set = {"placement"} /\ q[i].shift = 0
  BY PlacementsAreSeq, ProposedFacts
<1> HIDE DEF q
<1>3. Proposable(q, TRUE)
  BY <1>2 DEF Proposable, Shape, Harmless
<1>4. QED
  BY <1>1, <1>3 DEF q

(* A sweep leaves the CPU MoE layers alone.                                *)
LEMMA SweepProposable ==
    ASSUME setting \in Settings, setting.cores.logical >= 1,
           NEW dim, dim # "moe_cpu_layers", NEW cfg
    PROVE  Proposable(Mutations("sweep", dim, cfg), FALSE)
<1>1. Mutations("sweep", dim, cfg) = Proposed(dim, Candidates(dim, cfg))
  BY DEF Mutations
<1> DEFINE q == Proposed(dim, Candidates(dim, cfg))
<1>2. IsSeq(q) /\ \A i \in DOMAIN q : DOMAIN q[i].set = {dim} /\ q[i].shift = 0
  BY CandidatesAreSeq, ProposedFacts
<1> HIDE DEF q
<1>3. Proposable(q, FALSE)
  BY <1>2 DEF Proposable, Shape
<1>4. QED
  BY <1>1, <1>3 DEF q

(* Middles between numbers of threads are numbers of threads.              *)
LEMMA ThreadProposable ==
    ASSUME setting \in Settings, NEW dim \in ThreadDims, NEW cfg, ConfigOK(cfg)
    PROVE  Proposable(Mutations("thread", dim, cfg), TRUE)
<1> DEFINE value == cfg[dim]
           values == ThreadValues(dim, cfg)
           sides == Below(values, value) \o Above(values, value)
           middles == [i \in DOMAIN sides |-> (sides[i] + value) \div 2]
<1>1. Mutations("thread", dim, cfg) = IF value = None THEN <<>> ELSE Proposed(dim, middles)
  BY DEF Mutations, Refinements
<1>2. IsSeq(Below(values, value)) /\ IsSeq(Above(values, value))
  BY NeighboursAreSeq
<1>3. IsSeq(sides)
  BY <1>2, Joined
<1>4. IsSeq(middles) /\ DOMAIN middles = DOMAIN sides
  <2>1. middles = [i \in 1..Len(sides) |-> middles[i]] /\ Len(sides) \in Nat
    BY <1>3, SeqFacts
  <2>2. DOMAIN middles = DOMAIN sides
    OBVIOUS
  <2> HIDE DEF middles, sides
  <2>3. QED
    BY <2>1, <2>2, Tabulated
<1>5. ASSUME dim = "threads"
      PROVE  \A i \in DOMAIN middles : middles[i] \in 1..setting.cores.logical
  <2> DEFINE logical == setting.cores.logical
             below == Below(values, value)
             above == Above(values, value)
  <2>1. logical \in Nat /\ value \in 1..logical
    BY <1>5, SettingFacts DEF ConfigOK, Valid, ValidFor
  <2>2. values \in SUBSET (1..logical) /\ values \in SUBSET Nat
    BY <2>1, ThreadsInRange DEF ThreadValues
  <2>3. /\ \A i \in DOMAIN below : below[i] \in values
        /\ \A i \in DOMAIN above : above[i] \in values
    BY <2>1, <2>2, NeighboursIn
  <2>4. \A i \in DOMAIN sides : sides[i] \in values
    <3>1. /\ IsSeq(below) /\ IsSeq(above) /\ sides = below \o above
      BY <1>2
    <3> HIDE DEF below, above, sides
    <3>2. QED
      BY <2>3, <3>1, Joined, SeqFacts
  <2>5. \A i \in DOMAIN middles : middles[i] = (sides[i] + value) \div 2
    BY <1>4
  <2> HIDE DEF middles, sides, value, values, logical
  <2>6. \A a, b \in 1..logical : (a + b) \div 2 \in 1..logical
    BY <2>1
  <2>8. \A i \in DOMAIN middles : middles[i] \in 1..logical
    BY <1>4, <2>1, <2>2, <2>4, <2>5, <2>6
  <2>9. QED
    BY <2>8 DEF logical
<1> HIDE DEF middles, value
<1>6. Proposable(Proposed(dim, middles), TRUE)
  <2> DEFINE q == Proposed(dim, middles)
  <2>1. IsSeq(q) /\ DOMAIN q = DOMAIN middles
        /\ \A i \in DOMAIN q : /\ DOMAIN q[i].set = {dim} /\ q[i].set[dim] = middles[i]
                                /\ q[i].shift = 0
    BY <1>4, ProposedFacts
  <2> HIDE DEF q
  <2>3. dim = "threads" \/ dim = "threads_batch"
    BY DEF ThreadDims
  <2>4. Proposable(q, TRUE)
    BY <1>5, <2>1, <2>3 DEF Proposable, Shape, Harmless
  <2>5. QED
    BY <2>4 DEF q
<1>7. Proposable(<<>>, TRUE)
  BY SmallSeqs DEF Proposable
<1>8. QED
  BY <1>1, <1>6, <1>7

(* Pairs of batch sizes leave the CPU MoE layers alone.                    *)
LEMMA PairwiseProposable ==
    ASSUME setting \in Settings, NEW dim, NEW cfg
    PROVE  Proposable(Mutations("pairwise", dim, cfg), FALSE)
<1> DEFINE us == Neighbors(Range(UbatchCandidates), cfg.ubatch)
           bs == Neighbors(Range(BatchCandidates), cfg.batch)
           size == Len(us) * Len(bs)
           q == [k \in 1..size |->
                    Setting([ubatch |-> us[((k - 1) \div Len(bs)) + 1],
                             batch |-> bs[((k - 1) % Len(bs)) + 1]])]
<1>1. Mutations("pairwise", dim, cfg) = q
  BY DEF Mutations, PairwiseMutations, Crossed
<1>2. \A values, value : IsSeq(Neighbors(values, value))
  BY NeighboursAreSeq, SmallSeqs, Joined DEF Neighbors
<1>3. size \in Nat
  <2>1. IsSeq(us) /\ IsSeq(bs)
    BY <1>2
  <2> HIDE DEF us, bs
  <2>2. QED
    BY <2>1, SeqFacts, CrossIndex
<1>4. /\ q = [k \in 1..size |-> q[k]]
      /\ DOMAIN q = 1..size
      /\ \A k \in 1..size : q[k].shift = 0 /\ DOMAIN q[k].set = {"ubatch", "batch"}
  BY DEF Setting, Mutation
<1> HIDE DEF q, size
<1>5. QED
  BY <1>1, <1>3, <1>4, Tabulated DEF Proposable, Shape

(* Neighbouring numbers of threads, with a layer more or less.             *)
LEMMA CrossProposable ==
    ASSUME setting \in Settings, NEW dim, NEW cfg, ConfigOK(cfg)
    PROVE  Proposable(Mutations("cross", dim, cfg), TRUE)
<1> DEFINE values == ThreadValues("threads", cfg)
           below == Below(values, cfg.threads)
           above == Above(values, cfg.threads)
           ts == below \o above
           ds == <<-1, 1>>
           size == Len(ts) * Len(ds)
           q == [k \in 1..size |->
                    Mutation([threads |-> ts[((k - 1) \div Len(ds)) + 1]],
                             ds[((k - 1) % Len(ds)) + 1])]
<1>1. Mutations("cross", dim, cfg) = IF cfg.moe_cpu_layers = 0 THEN <<>> ELSE q
  BY DEF Mutations, CrossMutations, Crossed
<1>2. cfg.threads \in 1..setting.cores.logical /\ setting.cores.logical \in Nat
  BY SettingFacts DEF ConfigOK, Valid, ValidFor
<1>3. values \in SUBSET (1..setting.cores.logical) /\ values \in SUBSET Nat
  BY <1>2, ThreadsInRange DEF ThreadValues
<1>4. /\ IsSeq(below) /\ IsSeq(above)
      /\ \A i \in DOMAIN below : below[i] \in values
      /\ \A i \in DOMAIN above : above[i] \in values
  <2> DEFINE value == cfg.threads
  <2>1. value \in Nat
    BY <1>2
  <2> HIDE DEF values, value
  <2>2. QED
    BY <1>3, <2>1, NeighboursIn DEF value
<1>5. IsSeq(ts) /\ \A i \in DOMAIN ts : ts[i] \in values
  <2> HIDE DEF below, above
  <2>1. QED
    BY <1>4, Joined, SeqFacts
<1>6. Len(ts) \in Nat /\ DOMAIN ts = 1..Len(ts) /\ Len(ds) = 2
  <2> HIDE DEF ts
  <2>1. QED
    BY <1>5, SeqFacts, SmallSeqs
<1>7. /\ size \in Nat
      /\ \A k \in 1..size : /\ ((k - 1) \div Len(ds)) + 1 \in DOMAIN ts
                            /\ ((k - 1) % Len(ds)) + 1 \in 1..2
  <2> HIDE DEF ts, ds
  <2>1. QED
    BY <1>6, CrossIndex
<1>8. /\ q = [k \in 1..size |-> q[k]]
      /\ DOMAIN q = 1..size
      /\ \A k \in 1..size :
            /\ q[k].set = [threads |-> ts[((k - 1) \div Len(ds)) + 1]]
            /\ q[k].shift = ds[((k - 1) % Len(ds)) + 1]
  <2> HIDE DEF ts, ds, size
  <2>1. QED
    BY DEF Mutation
<1>9. \A k \in 1..2 : ds[k] \in Int
  OBVIOUS
<1> DEFINE thread(k) == ts[((k - 1) \div Len(ds)) + 1]
           delta(k) == ds[((k - 1) % Len(ds)) + 1]
<1>14. \A k \in 1..size : thread(k) \in values /\ delta(k) \in Int
  <2> HIDE DEF ts, ds, size
  <2>1. QED
    BY <1>5, <1>7, <1>9
<1>15. \A k \in 1..size : /\ q[k].set = [threads |-> thread(k)]
                           /\ q[k].shift = delta(k)
  BY <1>8
<1>16. \A k \in 1..size : DOMAIN q[k].set = {"threads"} /\ q[k].set.threads = thread(k)
  BY <1>15
<1> HIDE DEF q, size, thread, delta
<1>10. cfg.moe_cpu_layers # 0 => IsMoe
  BY SettingFacts DEF ConfigOK, Valid, ValidFor, IsMoe
<1>11. cfg.moe_cpu_layers # 0 => Proposable(q, TRUE)
  <2>1. IsSeq(q)
    BY <1>7, <1>8, Tabulated
  <2>2. \A k \in 1..size : q[k].set.threads \in 1..setting.cores.logical /\ q[k].shift \in Int
    BY <1>3, <1>14, <1>15, <1>16
  <2>3. \A k \in 1..size : DOMAIN q[k].set = {"threads"}
    BY <1>16
  <2>4. QED
    BY <1>8, <1>10, <2>1, <2>2, <2>3 DEF Proposable, Shape, Harmless
<1>12. Proposable(<<>>, TRUE)
  BY SmallSeqs DEF Proposable
<1>13. QED
  BY <1>1, <1>11, <1>12

(* Joint refinements move both kinds of layers.                            *)
LEMMA JointProposable ==
    ASSUME setting \in Settings, NEW dim, NEW cfg, ConfigOK(cfg)
    PROVE  Proposable(Mutations("joint", dim, cfg), FALSE)
<1> DEFINE place(dc, dg) ==
               Setting([gpu_layers |-> Clamp(cfg.gpu_layers + dg, 0, setting.layers),
                        moe_cpu_layers |-> Clamp(cfg.moe_cpu_layers + dc, 0, setting.experts)])
           offsets == <<-2, -1, 1, 2>>
           shifted == [i \in DOMAIN offsets |-> place(offsets[i], 0)]
           moved == [i \in DOMAIN offsets |-> place(0, offsets[i])]
           experts == IF IsMoe /\ "ncmoe" \in setting.caps /\ setting.layers > 0
                      THEN shifted ELSE <<>>
<1>1. Mutations("joint", dim, cfg) = experts \o moved
  BY DEF Mutations, JointMutations
<1>2. DOMAIN offsets = 1..4 /\ \A i \in 1..4 : offsets[i] \in Int
  OBVIOUS
<1>3. \A dc \in Int : \A dg : Shape(place(dc, dg))
  <2>1. \A dc \in Int : Clamp(cfg.moe_cpu_layers + dc, 0, setting.experts) \in Nat
    <3>1. /\ cfg.moe_cpu_layers \in Nat /\ setting.experts \in Int /\ 0 <= setting.experts
          /\ 0..setting.experts \subseteq Nat
      BY SettingFacts DEF ConfigOK
    <3>2. \A n \in Int : Clamp(n, 0, setting.experts) \in 0..setting.experts
      <4> DEFINE most == setting.experts
      <4>1. most \in Int /\ 0 <= most
        BY <3>1
      <4> HIDE DEF most
      <4>2. \A n \in Int : Clamp(n, 0, most) \in 0..most
        BY <4>1, ClampIn
      <4>3. QED
        BY <4>2 DEF most
    <3>3. QED
      BY <3>1, <3>2
  <2>2. QED
    BY <2>1 DEF Shape, Setting, Mutation
<1> HIDE DEF place, offsets
<1>4. IsSeq(shifted) /\ \A i \in DOMAIN shifted : Shape(shifted[i])
  <2>1. shifted = [i \in 1..4 |-> shifted[i]] /\ \A i \in DOMAIN shifted : Shape(shifted[i])
    BY <1>2, <1>3
  <2> HIDE DEF shifted
  <2>2. QED
    BY <2>1, Tabulated
<1>5. IsSeq(moved) /\ \A i \in DOMAIN moved : Shape(moved[i])
  <2>1. moved = [i \in 1..4 |-> moved[i]] /\ \A i \in DOMAIN moved : Shape(moved[i])
    BY <1>2, <1>3
  <2> HIDE DEF moved
  <2>2. QED
    BY <2>1, Tabulated
<1> HIDE DEF shifted, moved
<1>6. IsSeq(experts) /\ \A i \in DOMAIN experts : Shape(experts[i])
  BY <1>4, SmallSeqs
<1> HIDE DEF experts
<1>7. IsSeq(experts \o moved) /\ \A i \in DOMAIN (experts \o moved) : Shape((experts \o moved)[i])
  BY <1>5, <1>6, Joined, SeqFacts
<1>8. QED
  BY <1>1, <1>7 DEF Proposable

(* Tensor overrides keep no layer of experts on the CPU.                   *)
LEMMA OverrideProposable ==
    ASSUME setting \in Settings, NEW dim, NEW cfg
    PROVE  Proposable(Mutations("ot", dim, cfg), TRUE)
<1> DEFINE specs == OverrideSpecs(cfg.moe_cpu_layers)
           q == [i \in DOMAIN specs |-> Setting([ot_spec |-> specs[i], moe_cpu_layers |-> 0])]
<1>1. Mutations("ot", dim, cfg) \in {q, <<>>}
  BY DEF Mutations, OverrideMutations
<1>2. IsSeq(specs)
  <2>1. \A a, b, c, d : IsSeq(<<a, b, c, d>>)
    <3> SUFFICES ASSUME NEW a, NEW b, NEW c, NEW d
                 PROVE  IsSeq(<<a, b, c, d>>)
      OBVIOUS
    <3>1. <<a, b, c, d>> \in Seq({a, b, c, d})
      OBVIOUS
    <3>2. QED
      BY <3>1, SeqIsSeq
  <2>2. QED
    BY <2>1, DistinctIsSeq DEF OverrideSpecs
<1>3. Len(specs) \in Nat /\ DOMAIN specs = 1..Len(specs)
  <2> HIDE DEF specs
  <2>1. QED
    BY <1>2, SeqFacts
<1>4. /\ q = [i \in 1..Len(specs) |-> q[i]]
      /\ \A i \in DOMAIN q : /\ q[i].shift = 0 /\ q[i].set.moe_cpu_layers = 0
                             /\ DOMAIN q[i].set = {"ot_spec", "moe_cpu_layers"}
  <2> HIDE DEF specs
  <2>1. QED
    BY <1>3 DEF Setting, Mutation
<1> HIDE DEF q, specs
<1>5. IsSeq(q)
  BY <1>3, <1>4, Tabulated
<1>6. Proposable(q, TRUE)
  BY <1>4, <1>5 DEF Proposable, Shape, Harmless
<1>7. Proposable(<<>>, TRUE)
  BY SmallSeqs DEF Proposable
<1>8. QED
  BY <1>1, <1>6, <1>7

(* What a stage proposes is a sequence of mutations it may apply.          *)
LEMMA MutationsProposable ==
    ASSUME setting \in Settings, NEW cfg, ConfigOK(cfg),
           NEW name \in SearchStages \ {"climb"}, NEW d \in DOMAIN Dimensions,
           name = "thread" => Dimensions[d] \in ThreadDims
    PROVE  Proposable(Mutations(name, Dimensions[d], cfg), name \in Unchecked)
<1>1. setting.cores.logical >= 1
  BY SettingFacts DEF ConfigOK, Valid, ValidFor
<1>2. Dimensions[d] # "moe_cpu_layers"
  BY DEF Dimensions
<1>3. QED
  BY <1>1, <1>2, SplitProposable, SweepProposable, ThreadProposable, PairwiseProposable,
     CrossProposable, JointProposable, OverrideProposable DEF SearchStages, Unchecked, Proposable

----------------------------------------------------------------------------
(* The search.                                                             *)
SearchInv ==
    /\ setting \in Settings /\ pc \in Live \cup {"ended", "down"} /\ executed \in Nat
    /\ ScoredOK(incumbent) /\ ScoredOK(best)
    /\ TodoInv /\ JournalInv /\ HeardInv /\ ClimbInv /\ PlaceInv

\* One more trial, one more probe in the journal.
AddsTrial(cfg, o) == trials' = With(trials, cfg, o)
AddsProbe(key, status) == probes' = With(probes, key, status)

(* A stage begins with what it proposes for the incumbent.                 *)
LEMMA Entering ==
    ASSUME setting \in Settings, UNCHANGED setting,
           ConfigOK(incumbent'.cfg),
           NEW name \in SearchStages \ {"climb"}, NEW pass \in 1..MaxPasses,
           NEW dim \in DOMAIN Dimensions, NEW gauge \in Nat,
           name = "thread" => Dimensions[dim] \in ThreadDims,
           pc' = name,
           at' = [pass |-> pass, dim |-> dim, gauge |-> gauge, moe |-> incumbent'.cfg.moe_cpu_layers],
           todo' = Mutations(name, Dimensions[dim], incumbent'.cfg),
           tried' = 0, best' = incumbent', climb' = NoClimb
    PROVE  TodoInv' /\ ClimbInv' /\ PlaceInv'
<1>1. Proposable(todo', name \in Unchecked)
  BY MutationsProposable
<1>2. TodoInv'
  BY <1>1 DEF TodoInv, MutationOK, Proposable, Shape, Harmless, IsMoe, IsSeq
<1>3. ClimbInv'
  BY DEF ClimbInv, NoClimb, ClimbSteps
<1>4. PlaceInv'
  BY SettingFacts DEF PlaceInv, ConfigOK, Valid, ValidFor, IsMoe
<1>5. QED
  BY <1>2, <1>3, <1>4

(* The search is left.                                                     *)
LEMMA Leaving ==
    ASSUME UNCHANGED <<setting, at>>, PlaceInv,
           pc' \in {"searched", "exhausted"}, todo' = <<>>, tried' = 0, climb' = NoClimb
    PROVE  TodoInv' /\ ClimbInv' /\ PlaceInv'
<1>1. TodoInv'
  BY SmallSeqs DEF TodoInv, IsSeq
<1>2. ClimbInv'
  BY DEF ClimbInv, NoClimb, ClimbSteps
<1>3. PlaceInv'
  BY DEF PlaceInv, IsMoe
<1>4. QED
  BY <1>1, <1>2, <1>3

(* The step a climb takes.                                                 *)
LEMMA Climbing ==
    ASSUME IsMoe, NEW c, c.direction \in Int, c.step \in DOMAIN ClimbSteps, NEW cfg
    PROVE  /\ Proposable(ClimbMutation(c, cfg), TRUE)
           /\ ClimbMutation(c, cfg) # <<>> => c.misses < 2
<1> DEFINE m == Mutation([f \in {} |-> None], c.direction * ClimbSteps[c.step])
<1>1. ClimbMutation(c, cfg) = <<>> \/ (ClimbMutation(c, cfg) = <<m>> /\ c.misses < 2)
  BY DEF ClimbMutation
<1>2. Shape(m) /\ Harmless(m)
  <2>1. m.set = [f \in {} |-> None] /\ m.shift = c.direction * ClimbSteps[c.step]
    BY DEF Mutation
  <2>2. ClimbSteps[c.step] \in Int
    BY DEF ClimbSteps
  <2>3. DOMAIN m.set = {}
    BY <2>1
  <2> HIDE DEF m
  <2>4. m.shift \in Int
    BY <2>1, <2>2
  <2>5. QED
    BY <2>3, <2>4 DEF Shape, Harmless
<1> HIDE DEF m
<1>3. Proposable(<<>>, TRUE)
  BY SmallSeqs DEF Proposable
<1>4. Proposable(<<m>>, TRUE)
  BY <1>2, SmallSeqs DEF Proposable
<1>5. QED
  BY <1>1, <1>3, <1>4

(* What is left of what a stage proposes.                                  *)
LEMMA TailKept ==
    ASSUME TodoInv, todo # <<>>, UNCHANGED <<setting, pc>>, todo' = Tail(todo)
    PROVE  TodoInv'
<1>1. /\ IsSeq(todo) /\ IsSeq(Tail(todo)) /\ Len(Tail(todo)) = Len(todo) - 1
      /\ Len(todo) \in Nat /\ DOMAIN todo = 1..Len(todo)
      /\ DOMAIN Tail(todo) = 1..Len(Tail(todo))
      /\ \A i \in 1..(Len(todo) - 1) : Tail(todo)[i] = todo[i + 1]
  BY SeqFacts DEF TodoInv
<1>2. \A i \in DOMAIN Tail(todo) : i + 1 \in DOMAIN todo /\ Tail(todo)[i] = todo[i + 1]
  BY <1>1
<1>3. \A i \in DOMAIN todo' : MutationOK(todo[i + 1]) /\ todo'[i] = todo[i + 1]
  BY <1>2 DEF TodoInv
<1>4. QED
  BY <1>1, <1>3 DEF TodoInv, MutationOK, Harmless, IsMoe, IsSeq

(* The candidate at hand is one the engine can be at.                      *)
LEMMA CandidateOK ==
    ASSUME SearchInv, Trying, ~Skipped(Candidate)
    PROVE  ConfigOK(Candidate)
<1>1. /\ IsSeq(todo) /\ todo # <<>> /\ 1 \in DOMAIN todo /\ Head(todo) = todo[1]
  BY SeqFacts DEF SearchInv, TodoInv, Trying
<1>2. MutationOK(Head(todo))
  BY <1>1 DEF SearchInv, TodoInv
<1>3. Shape(Head(todo)) /\ (Harmless(Head(todo)) \/ Valid(Candidate))
  BY <1>2 DEF MutationOK, Shape, Trying, Skipped, SearchStages, Unchecked
<1>4. QED
  BY <1>3, AppliedIsConfig DEF SearchInv, ScoredOK, Candidate

(* What leaves a part of the memory alone keeps what is said of it.        *)
LEMMA ScoredKept ==
    ASSUME SearchInv, UNCHANGED <<setting, incumbent, best>>, DOMAIN trials \subseteq DOMAIN trials'
    PROVE  ScoredOK(incumbent)' /\ ScoredOK(best)'
BY DEF SearchInv, ScoredOK, ConfigOK, Valid, Measured

(* The place of the search and its climb stay as they are.                 *)
LEMMA PlaceKept ==
    ASSUME SearchInv, UNCHANGED <<setting, pc, at, climb>>, tried' \in Nat,
           todo' # <<>> => todo # <<>>
    PROVE  ClimbInv' /\ PlaceInv'
BY DEF SearchInv, ClimbInv, PlaceInv, IsMoe

(* What is left to try stays as it is.                                     *)
LEMMA TodoKept ==
    ASSUME SearchInv, UNCHANGED <<setting, pc, todo>>
    PROVE  TodoInv'
BY DEF SearchInv, TodoInv, MutationOK, Harmless, IsMoe, IsSeq

(* The journal stays as it is.                                             *)
LEMMA JournalKept ==
    ASSUME SearchInv, UNCHANGED <<trials, probes>>
    PROVE  JournalInv'
BY DEF SearchInv, JournalInv

(* The candidate being judged stays what it is while it is checked.        *)
LEMMA HeardKept ==
    ASSUME SearchInv, heard # None, UNCHANGED <<setting, pc, todo, incumbent, trials>>,
           NEW a \in BOOLEAN, NEW b \in BOOLEAN,
           heard' = [heard EXCEPT !.checked = a, !.allowed = b]
    PROVE  HeardInv'
<1>1. /\ pc \in SearchStages \cup {"down"} /\ todo # <<>> /\ heard.cfg = Candidate
      /\ ConfigOK(heard.cfg) /\ Measured(heard.cfg)
      /\ DOMAIN heard = {"cfg", "score", "ok", "checked", "allowed"}
      /\ heard.score = trials[heard.cfg].score
      /\ heard.ok = (trials[heard.cfg].status = "ok")
  BY DEF SearchInv, HeardInv
<1>2. /\ DOMAIN heard' = {"cfg", "score", "ok", "checked", "allowed"}
      /\ heard'.cfg = heard.cfg /\ heard'.score = heard.score /\ heard'.ok = heard.ok
      /\ heard'.checked = a /\ heard'.allowed = b
  BY <1>1
<1>3. Candidate' = Candidate
  BY DEF Candidate, Applied
<1>4. QED
  BY <1>1, <1>2, <1>3 DEF HeardInv, ConfigOK, Valid, Measured

(* A candidate is heard with what the journal has of it.                   *)
LEMMA HeardFirst ==
    ASSUME SearchInv, Trying, ConfigOK(Candidate), Candidate \in DOMAIN trials',
           UNCHANGED <<setting, pc, todo, incumbent>>,
           heard' = Judging(Candidate, trials'[Candidate])
    PROVE  HeardInv'
<1>1. Candidate' = Candidate
  BY DEF Candidate, Applied
<1>2. /\ heard'.cfg = Candidate /\ heard'.checked = FALSE /\ heard'.allowed = TRUE
      /\ DOMAIN heard' = {"cfg", "score", "ok", "checked", "allowed"}
      /\ heard'.score = trials'[Candidate].score
      /\ heard'.ok = (trials'[Candidate].status = "ok")
  BY DEF Judging
<1>3. QED
  BY <1>1, <1>2 DEF HeardInv, Trying, ConfigOK, Valid, Measured

(* One more trial in the journal.                                          *)
LEMMA TrialAdded ==
    ASSUME SearchInv, UNCHANGED probes, NEW cfg, NEW o, TrialOK(o), AddsTrial(cfg, o)
    PROVE  JournalInv' /\ DOMAIN trials' = DOMAIN trials \cup {cfg} /\ trials'[cfg] = o
<1>1. /\ DOMAIN trials' = DOMAIN trials \cup {cfg}
      /\ trials'[cfg] = o
      /\ \A y \in DOMAIN trials : y # cfg => trials'[y] = trials[y]
  BY DEF With, AddsTrial
<1>2. QED
  BY <1>1 DEF SearchInv, JournalInv, TrialOK

(* One more probe in the journal.                                          *)
LEMMA ProbeAdded ==
    ASSUME SearchInv, UNCHANGED trials, NEW key, NEW status \in {"ok", "oom", "crash", "pruned"},
           AddsProbe(key, status)
    PROVE  JournalInv' /\ DOMAIN probes' = DOMAIN probes \cup {key} /\ probes'[key] = status
<1>1. /\ DOMAIN probes' = DOMAIN probes \cup {key}
      /\ probes'[key] = status
      /\ \A y \in DOMAIN probes : y # key => probes'[y] = probes[y]
  BY DEF With, AddsProbe
<1>2. QED
  BY <1>1 DEF SearchInv, JournalInv

(* Stepping over a candidate.                                              *)
LEMMA SkipKeeps ==
    ASSUME SearchInv, Skip
    PROVE  SearchInv'
<1>1. /\ todo # <<>> /\ todo' = Tail(todo) /\ heard' = None
      /\ UNCHANGED <<setting, pc, executed, trials, probes, incumbent, best, at, climb, tried>>
  BY DEF Skip, Trying, journal
<1>2. TodoInv'
  BY <1>1, TailKept DEF SearchInv
<1>3. ScoredOK(incumbent)' /\ ScoredOK(best)' /\ JournalInv'
  BY <1>1, ScoredKept, JournalKept
<1>4. ClimbInv' /\ PlaceInv'
  BY <1>1, PlaceKept DEF SearchInv, PlaceInv
<1>5. QED
  BY <1>1, <1>2, <1>3, <1>4 DEF SearchInv, HeardInv

(* A candidate an OOM rules out is journaled with no score.                *)
LEMMA PruneKeeps ==
    ASSUME SearchInv, PruneCandidate
    PROVE  SearchInv'
<1>1. /\ todo # <<>> /\ todo' = Tail(todo) /\ heard' = None
      /\ AddsTrial(Candidate, Outcome("pruned", 0))
      /\ UNCHANGED <<setting, pc, executed, probes, incumbent, best, at, climb, tried>>
  BY DEF PruneCandidate, Trying, AddsTrial
<1>2. TodoInv'
  BY <1>1, TailKept DEF SearchInv
<1>3. JournalInv' /\ DOMAIN trials' = DOMAIN trials \cup {Candidate}
  <2> DEFINE o == Outcome("pruned", 0)
  <2>1. o.status = "pruned" /\ o.score = 0
    BY DEF Outcome
  <2>2. AddsTrial(Candidate, o)
    BY <1>1
  <2> HIDE DEF o
  <2>3. TrialOK(o)
    BY <2>1 DEF TrialOK
  <2>4. PICK cfg : cfg = Candidate
    OBVIOUS
  <2>5. AddsTrial(cfg, o)
    BY <2>2, <2>4 DEF AddsTrial
  <2>6. JournalInv' /\ DOMAIN trials' = DOMAIN trials \cup {cfg}
    BY <1>1, <2>3, <2>5, TrialAdded
  <2>7. QED
    BY <2>4, <2>6
<1>4. ScoredOK(incumbent)' /\ ScoredOK(best)'
  BY <1>1, <1>3, ScoredKept
<1>5. ClimbInv' /\ PlaceInv'
  BY <1>1, PlaceKept DEF SearchInv, PlaceInv
<1>6. QED
  BY <1>1, <1>2, <1>3, <1>4, <1>5 DEF SearchInv, HeardInv

(* A candidate found in the journal is heard.                              *)
LEMMA RecallKeeps ==
    ASSUME SearchInv, RecallTrial
    PROVE  SearchInv'
<1>1. /\ Trying /\ ~Skipped(Candidate) /\ Measured(Candidate)
      /\ heard' = Judging(Candidate, trials[Candidate])
      /\ UNCHANGED <<setting, pc, executed, trials, probes, incumbent, best, at, climb, tried, todo>>
  BY DEF RecallTrial, journal
<1>2. ScoredOK(incumbent)' /\ ScoredOK(best)' /\ JournalInv' /\ TodoInv'
  BY <1>1, ScoredKept, JournalKept, TodoKept
<1>3. ClimbInv' /\ PlaceInv'
  BY <1>1, PlaceKept DEF SearchInv, PlaceInv
<1>4. HeardInv'
  BY <1>1, CandidateOK, HeardFirst DEF Measured
<1>5. QED
  BY <1>1, <1>2, <1>3, <1>4 DEF SearchInv

(* A candidate that was run is journaled and heard.                        *)
LEMMA RunTrialKeeps ==
    ASSUME SearchInv, RunTrial
    PROVE  SearchInv'
<1>1. PICK outcome \in Measurements(Candidate) :
          /\ AddsTrial(Candidate, outcome)
          /\ heard' = Judging(Candidate, outcome)
  BY DEF RunTrial, AddsTrial
<1>2. /\ Trying /\ ~Skipped(Candidate) /\ executed' = executed + 1
      /\ UNCHANGED <<setting, pc, probes, incumbent, best, at, climb, tried, todo>>
  BY DEF RunTrial, MayRun, Ran
<1>3. /\ JournalInv' /\ DOMAIN trials' = DOMAIN trials \cup {Candidate}
      /\ trials'[Candidate] = outcome
  <2>1. TrialOK(outcome)
    BY DEF Measurements, TrialOK
  <2>2. PICK cfg : cfg = Candidate
    OBVIOUS
  <2>3. AddsTrial(cfg, outcome)
    BY <1>1, <2>2 DEF AddsTrial
  <2>4. JournalInv' /\ DOMAIN trials' = DOMAIN trials \cup {cfg} /\ trials'[cfg] = outcome
    BY <1>2, <2>1, <2>3, TrialAdded
  <2>5. QED
    BY <2>2, <2>4
<1>4. ScoredOK(incumbent)' /\ ScoredOK(best)' /\ TodoInv'
  BY <1>2, <1>3, ScoredKept, TodoKept
<1>5. ClimbInv' /\ PlaceInv'
  BY <1>2, PlaceKept DEF SearchInv, PlaceInv
<1>6. HeardInv'
  BY <1>1, <1>2, <1>3, CandidateOK, HeardFirst
<1>7. QED
  BY <1>2, <1>3, <1>4, <1>5, <1>6 DEF SearchInv

(* Checking the candidate that is being judged.                            *)
LEMMA CheckKeeps ==
    ASSUME SearchInv, PairCheck \/ RefusePair \/ RecallProbe \/ PruneProbe \/ RunProbe
    PROVE  SearchInv'
<1>1. /\ heard # None
      /\ UNCHANGED <<setting, pc, trials, incumbent, best, at, climb, tried, todo>>
      /\ executed' \in {executed, executed + 1}
  BY DEF PairCheck, RefusePair, RecallProbe, PruneProbe, RunProbe, Probe, Ran, journal
<1>2. \E a, b \in BOOLEAN : heard' = [heard EXCEPT !.checked = a, !.allowed = b]
  BY DEF PairCheck, RefusePair, RecallProbe, PruneProbe, RunProbe, Checked
<1>3. HeardInv'
  BY <1>1, <1>2, HeardKept
<1>4. JournalInv'
  <2>1. CASE UNCHANGED probes
    BY <1>1, <2>1, JournalKept
  <2>2. CASE PruneProbe
    BY <1>1, <2>2, ProbeAdded DEF PruneProbe, AddsProbe
  <2>3. CASE RunProbe
    BY <1>1, <2>3, ProbeAdded DEF RunProbe, Probe, ProbeStatuses, AddsProbe
  <2>4. QED
    BY <2>1, <2>2, <2>3 DEF PairCheck, RefusePair, RecallProbe, journal
<1>5. ScoredOK(incumbent)' /\ ScoredOK(best)' /\ TodoInv'
  BY <1>1, ScoredKept, TodoKept
<1>6. ClimbInv' /\ PlaceInv'
  BY <1>1, PlaceKept DEF SearchInv, PlaceInv
<1>7. QED
  BY <1>1, <1>3, <1>4, <1>5, <1>6 DEF SearchInv

(* A verdict: the incumbent, or the best of the sweep, is the candidate.   *)
LEMMA JudgeKeeps ==
    ASSUME SearchInv, Judge
    PROVE  SearchInv'
<1>1. /\ pc \in SearchStages /\ heard # None /\ heard' = None
      /\ UNCHANGED <<setting, pc, trials, probes, at>> /\ executed' = executed
      /\ incumbent' = incumbent \/ incumbent' = [cfg |-> heard.cfg, score |-> heard.score]
      /\ best' = best \/ best' = [cfg |-> heard.cfg, score |-> heard.score]
      /\ tried' \in {tried, tried + 1}
  BY DEF Judge, Promote, journal
<1>2. /\ todo # <<>> /\ ConfigOK(heard.cfg) /\ Measured(heard.cfg)
      /\ heard.score = trials[heard.cfg].score
  BY <1>1 DEF SearchInv, HeardInv
<1>3. heard.score \in Nat
  BY <1>2 DEF SearchInv, JournalInv, TrialOK, Measured
<1>4. ScoredOK(incumbent)' /\ ScoredOK(best)'
  <2>1. \A b \in {incumbent, best, [cfg |-> heard.cfg, score |-> heard.score]} :
            ConfigOK(b.cfg) /\ b.score \in Nat /\ (b.cfg = setting.default \/ Measured(b.cfg))
    BY <1>2, <1>3 DEF SearchInv, ScoredOK
  <2>2. /\ incumbent' \in {incumbent, best, [cfg |-> heard.cfg, score |-> heard.score]}
        /\ best' \in {incumbent, best, [cfg |-> heard.cfg, score |-> heard.score]}
    BY <1>1
  <2>3. QED
    BY <1>1, <2>1, <2>2 DEF ScoredOK, ConfigOK, Valid, Measured
<1>5. JournalInv' /\ PlaceInv' /\ HeardInv'
  BY <1>1, JournalKept DEF SearchInv, PlaceInv, IsMoe, HeardInv
<1>6. CASE pc # "climb"
  <2>1. todo' = Tail(todo) /\ climb' = climb
    BY <1>6 DEF Judge
  <2>2. TodoInv' /\ ClimbInv'
    BY <1>1, <1>2, <1>6, <2>1, TailKept DEF SearchInv, ClimbInv, IsMoe
  <2>3. QED
    BY <1>1, <1>4, <1>5, <2>2 DEF SearchInv
<1>7. CASE pc = "climb"
  <2>1. PICK won \in BOOLEAN : climb' = Climbed(won)
    BY <1>7 DEF Judge
  <2>2. todo' = ClimbMutation(climb', incumbent'.cfg)
    BY <1>7 DEF Judge
  <2>3. /\ IsMoe /\ climb.misses \in 0..2 /\ climb.misses < 2
        /\ climb.direction \in Int /\ climb.step \in 1..4 /\ climb.started \in Nat
        /\ climb = [direction |-> climb.direction, step |-> climb.step, misses |-> climb.misses,
                    started |-> climb.started, before |-> climb.before, visited |-> climb.visited]
    BY <1>2, <1>7 DEF SearchInv, ClimbInv, ClimbSteps
  <2> DEFINE misses == IF won THEN 0
                       ELSE IF executed > climb.before THEN climb.misses + 1 ELSE climb.misses
             step == IF won THEN Smaller(climb.step + 1, Len(ClimbSteps)) ELSE 1
             visited == climb.visited \cup {heard.cfg}
  <2>4. misses \in 0..2 /\ step \in 1..4
    BY <2>3 DEF Smaller, ClimbSteps
  <2>5. climb' = [direction |-> climb.direction, step |-> step, misses |-> misses,
                  started |-> climb.started, before |-> executed, visited |-> visited]
    BY <2>1, <2>3 DEF Climbed
  <2> HIDE DEF misses, step, visited
  <2>6. climb'.direction \in Int /\ climb'.step \in DOMAIN ClimbSteps /\ IsMoe'
    BY <1>1, <2>3, <2>4, <2>5 DEF ClimbSteps, IsMoe
  <2>7. /\ Proposable(todo', TRUE)
        /\ todo' # <<>> => climb'.misses < 2
    BY <2>2, <2>3, <2>6, Climbing
  <2>8. TodoInv'
    BY <1>1, <2>7 DEF TodoInv, MutationOK, Proposable, Shape, Harmless, IsMoe, IsSeq
  <2>9. ClimbInv'
    BY <1>7, <2>3, <2>4, <2>5, <2>6, <2>7 DEF ClimbInv, SearchInv
  <2>10. QED
    BY <1>1, <1>4, <1>5, <2>8, <2>9 DEF SearchInv
<1>8. QED
  BY <1>6, <1>7

(* A climb begins after a joint stage that moved the experts.              *)
LEMMA ClimbBegins ==
    ASSUME SearchInv, UNCHANGED setting, pc = "joint", incumbent.cfg.moe_cpu_layers # at.moe,
           BeginClimb
    PROVE  TodoInv' /\ ClimbInv' /\ PlaceInv'
<1> DEFINE c == [NoClimb EXCEPT
                    !.direction = IF incumbent.cfg.moe_cpu_layers > at.moe THEN 1 ELSE -1,
                    !.started = executed, !.before = executed]
<1>1. /\ pc' = "climb" /\ climb' = c /\ todo' = ClimbMutation(c, incumbent.cfg)
      /\ tried' = 0 /\ UNCHANGED <<at, best>>
  BY DEF BeginClimb
<1>2. IsMoe
  BY SettingFacts DEF SearchInv, PlaceInv, ScoredOK, ConfigOK, Valid, ValidFor, IsMoe
<1>3. /\ c = [direction |-> c.direction, step |-> 1, misses |-> 0, started |-> executed,
              before |-> executed, visited |-> {}]
      /\ c.direction \in Int /\ c.step = 1
  <2> DEFINE d == IF incumbent.cfg.moe_cpu_layers > at.moe THEN 1 ELSE -1
  <2>1. d \in Int
    OBVIOUS
  <2> HIDE DEF d
  <2>2. /\ DOMAIN c = {"direction", "step", "misses", "started", "before", "visited"}
        /\ c.direction = d /\ c.step = 1 /\ c.misses = 0 /\ c.started = executed
        /\ c.before = executed /\ c.visited = {} /\ c = [f \in DOMAIN c |-> c[f]]
    BY DEF NoClimb, d
  <2> HIDE DEF c
  <2>3. QED
    BY <2>1, <2>2
<1> HIDE DEF c
<1>4. c.step \in DOMAIN ClimbSteps
  BY <1>3 DEF ClimbSteps
<1>5. Proposable(todo', TRUE)
  BY <1>1, <1>2, <1>3, <1>4, Climbing
<1>6. TodoInv'
  BY <1>5 DEF TodoInv, MutationOK, Proposable, Shape, Harmless, IsMoe, IsSeq
<1>7. climb'.misses = 0 /\ climb' = c
  BY <1>1, <1>3
<1>8. ClimbInv'
  BY <1>1, <1>2, <1>3, <1>4, <1>7 DEF ClimbInv, SearchInv, IsMoe
<1>9. PlaceInv'
  BY <1>1 DEF SearchInv, PlaceInv, IsMoe
<1>10. QED
  BY <1>6, <1>8, <1>9

(* Where a stage goes when it has tried everything.                        *)
LEMMA StageKeeps ==
    ASSUME SearchInv, UNCHANGED setting, pc \in SearchStages,
           ConfigOK(incumbent'.cfg), incumbent'.score \in Nat,
           pc = "joint" => UNCHANGED incumbent,
           AfterStage
    PROVE  /\ TodoInv' /\ ClimbInv' /\ PlaceInv'
           /\ pc' \in (SearchStages \cup {"searched"})
           /\ best' = incumbent' \/ best' = best
<1> DEFINE Good == TodoInv' /\ ClimbInv' /\ PlaceInv' /\ pc' \in (SearchStages \cup {"searched"})
                   /\ (best' = incumbent' \/ best' = best)
<1>1. /\ at.pass \in 1..3 /\ at.dim \in 1..9 /\ at.gauge \in Nat /\ setting \in Settings
      /\ MaxPasses = 3 /\ DOMAIN Dimensions = 1..9 /\ Len(Dimensions) = 9
  BY DEF SearchInv, PlaceInv, MaxPasses, Dimensions
<1>2. ASSUME NEW name \in SearchStages \ {"climb", "thread"}, NEW pass \in 1..3, NEW dim \in 1..9,
             NEW gauge \in Nat, Enter(name, pass, dim, gauge)
      PROVE  Good
  BY <1>1, <1>2, Entering DEF Enter
<1>3. CASE pc = "split"
  <2>1. Enter("sweep", 1, 1, incumbent'.score)
    BY <1>3 DEF AfterStage
  <2>2. QED
    BY <1>2, <2>1 DEF SearchStages
<1>4. ASSUME NextDimension
      PROVE  Good
  <2>1. \/ at.dim < 9 /\ Enter("sweep", at.pass, at.dim + 1, at.gauge)
        \/ Enter("pairwise", at.pass, at.dim, at.gauge)
        \/ at.pass # 3 /\ Enter("sweep", at.pass + 1, 1, incumbent'.score)
    BY <1>1, <1>4 DEF NextDimension, PassGauge, Refine
  <2>2. /\ at.dim < 9 => at.dim + 1 \in 1..9
        /\ at.pass # 3 => at.pass + 1 \in 1..3
    BY <1>1
  <2>3. QED
    BY <1>1, <1>2, <2>1, <2>2 DEF SearchStages
<1>5. CASE pc = "sweep" \/ pc = "thread"
  <2>1. NextDimension \/ (Dim \in ThreadDims /\ Enter("thread", at.pass, at.dim, at.gauge))
    BY <1>5 DEF AfterStage
  <2>2. CASE Dim \in ThreadDims /\ Enter("thread", at.pass, at.dim, at.gauge)
    BY <1>1, <2>2, Entering DEF Enter, Dim, SearchStages
  <2>3. QED
    BY <1>4, <2>1, <2>2
<1>6. CASE pc = "pairwise"
  <2>1. Enter("cross", at.pass, at.dim, at.gauge)
    BY <1>6 DEF AfterStage
  <2>2. QED
    BY <1>1, <1>2, <2>1 DEF SearchStages
<1>7. ASSUME Leave("searched")
      PROVE  Good
  BY <1>7, Leaving DEF Leave, SearchInv
<1>8. CASE pc = "cross"
  <2>1. Enter("joint", at.pass, at.dim, at.gauge) \/ Leave("searched")
    BY <1>8 DEF AfterStage, AfterPairs
  <2>2. QED
    BY <1>1, <1>2, <1>7, <2>1 DEF SearchStages
<1>9. CASE pc = "joint"
  <2>1. \/ incumbent.cfg.moe_cpu_layers # at.moe /\ BeginClimb
        \/ Enter("ot", at.pass, at.dim, at.gauge)
    BY <1>9 DEF AfterStage
  <2>2. CASE incumbent.cfg.moe_cpu_layers # at.moe /\ BeginClimb
    BY <1>9, <2>2, ClimbBegins DEF BeginClimb, SearchStages
  <2>3. QED
    BY <1>1, <1>2, <2>1, <2>2 DEF SearchStages
<1>10. CASE pc = "climb"
  <2>1. Enter("ot", at.pass, at.dim, at.gauge)
    BY <1>10 DEF AfterStage
  <2>2. QED
    BY <1>1, <1>2, <2>1 DEF SearchStages
<1>11. CASE pc = "ot"
  <2>1. Leave("searched")
    BY <1>11 DEF AfterStage
  <2>2. QED
    BY <1>7, <2>1
<1>12. QED
  BY <1>3, <1>5, <1>6, <1>8, <1>9, <1>10, <1>11 DEF SearchStages

(* A stage ends, a sweep with its best candidate promoted.                 *)
LEMMA NextStageKeeps ==
    ASSUME SearchInv, NextStage
    PROVE  SearchInv'
<1>1. /\ pc \in SearchStages /\ heard = None /\ heard' = None /\ executed' = executed
      /\ UNCHANGED <<setting, trials, probes>> /\ AfterStage
      /\ UNCHANGED incumbent
           \/ (pc = "sweep" /\ incumbent' = [cfg |-> best.cfg, score |-> best.score])
  BY DEF NextStage, Promote, journal
<1>2. ConfigOK(incumbent'.cfg) /\ incumbent'.score \in Nat
  BY <1>1 DEF SearchInv, ScoredOK
<1>3. /\ TodoInv' /\ ClimbInv' /\ PlaceInv'
      /\ pc' \in (SearchStages \cup {"searched"})
      /\ best' = incumbent' \/ best' = best
  BY <1>1, <1>2, StageKeeps
<1>4. /\ incumbent'.cfg \in {incumbent.cfg, best.cfg}
      /\ best'.cfg \in {incumbent.cfg, best.cfg} /\ best'.score \in Nat
  BY <1>1, <1>2, <1>3 DEF SearchInv, ScoredOK
<1>5. ScoredOK(incumbent)' /\ ScoredOK(best)'
  BY <1>1, <1>2, <1>4 DEF SearchInv, ScoredOK, ConfigOK, Valid, Measured
<1>6. JournalInv'
  BY <1>1, JournalKept
<1>7. QED
  BY <1>1, <1>3, <1>5, <1>6 DEF SearchInv, HeardInv, Live, FinalStages

(* Ending a stage that may not go on, or the whole search.                 *)
LEMMA GiveUpKeeps ==
    ASSUME SearchInv, GiveUpStage
    PROVE  SearchInv'
<1>1. /\ pc \in SearchStages /\ heard' = None /\ executed' = executed
      /\ UNCHANGED <<setting, trials, probes, incumbent>>
      /\ IF pc = "pairwise" THEN AfterPairs
         ELSE todo' = <<>> /\ UNCHANGED <<pc, at, tried, best, climb>>
  BY DEF GiveUpStage, Trying, journal
<1>2. JournalInv'
  BY <1>1, JournalKept
<1>3. CASE pc # "pairwise"
  <2>1. TodoInv' /\ ClimbInv' /\ PlaceInv'
    BY <1>1, <1>3, SmallSeqs DEF SearchInv, TodoInv, ClimbInv, PlaceInv, IsMoe, IsSeq
  <2>2. ScoredOK(incumbent)' /\ ScoredOK(best)'
    BY <1>1, <1>3, ScoredKept
  <2>3. QED
    BY <1>1, <1>2, <1>3, <2>1, <2>2 DEF SearchInv, HeardInv
<1>4. CASE pc = "pairwise"
  <2>1. AfterPairs /\ ConfigOK(incumbent'.cfg)
    BY <1>1, <1>4 DEF SearchInv, ScoredOK
  <2>2. /\ TodoInv' /\ ClimbInv' /\ PlaceInv'
        /\ pc' \in {"joint", "searched"} /\ best' = incumbent'
    <3>1. CASE setting.gpu
      <4>1. Enter("joint", at.pass, at.dim, at.gauge)
        BY <2>1, <3>1 DEF AfterPairs
      <4>2. QED
        BY <1>1, <2>1, <4>1, Entering DEF Enter, SearchInv, PlaceInv, SearchStages
    <3>2. CASE ~setting.gpu
      <4>1. Leave("searched")
        BY <2>1, <3>2 DEF AfterPairs
      <4>2. QED
        BY <1>1, <4>1, Leaving DEF Leave, SearchInv
    <3>3. QED
      BY <3>1, <3>2
  <2>3. ScoredOK(incumbent)' /\ ScoredOK(best)'
    BY <1>1, <2>2 DEF SearchInv, ScoredOK, ConfigOK, Valid, Measured
  <2>4. QED
    BY <1>1, <1>2, <2>2, <2>3 DEF SearchInv, HeardInv, Live, FinalStages, SearchStages
<1>5. QED
  BY <1>3, <1>4

(* The budget ends the search.                                             *)
LEMMA ExhaustKeeps ==
    ASSUME SearchInv, Exhaust
    PROVE  SearchInv'
<1>1. /\ heard' = None /\ executed' = executed
      /\ UNCHANGED <<setting, trials, probes, incumbent>>
      /\ Leave("exhausted")
  BY DEF Exhaust, journal
<1>2. /\ TodoInv' /\ ClimbInv' /\ PlaceInv' /\ pc' = "exhausted" /\ best' = incumbent'
  BY <1>1, Leaving DEF Leave, SearchInv
<1>3. ScoredOK(incumbent)' /\ ScoredOK(best)' /\ JournalInv'
  BY <1>1, <1>2, JournalKept DEF SearchInv, ScoredOK, ConfigOK, Valid, Measured
<1>4. QED
  BY <1>1, <1>2, <1>3 DEF SearchInv, HeardInv, Live, FinalStages

(* The search begins.                                                      *)
LEMMA BeginKeeps ==
    ASSUME SearchInv, Begin
    PROVE  SearchInv'
<1>1. /\ heard' = heard /\ executed' = executed /\ pc = "discovered"
      /\ UNCHANGED <<setting, trials, probes, incumbent>>
      /\ \E name \in {"split", "sweep"} : Enter(name, 1, 1, incumbent'.score)
  BY DEF Begin, BeginSearch, journal
<1>2. ConfigOK(incumbent'.cfg) /\ incumbent'.score \in Nat /\ heard = None
  BY <1>1 DEF SearchInv, ScoredOK, HeardInv, SearchStages
<1>3. /\ TodoInv' /\ ClimbInv' /\ PlaceInv' /\ pc' \in {"split", "sweep"} /\ best' = incumbent'
  <2>1. 1 \in 1..MaxPasses /\ 1 \in DOMAIN Dimensions
    BY DEF MaxPasses, Dimensions
  <2>2. QED
    BY <1>1, <1>2, <2>1, Entering DEF Enter, SearchInv, SearchStages
<1>4. ScoredOK(incumbent)' /\ ScoredOK(best)' /\ JournalInv'
  BY <1>1, <1>3, JournalKept DEF SearchInv, ScoredOK, ConfigOK, Valid, Measured
<1>5. QED
  BY <1>1, <1>2, <1>3, <1>4 DEF SearchInv, HeardInv, Live, SearchStages

(* Every step of the search keeps what is said of its memory.              *)
LEMMA SearchKeeps ==
    ASSUME SearchInv, Begin \/ SearchStep
    PROVE  SearchInv'
BY BeginKeeps, SkipKeeps, PruneKeeps, RecallKeeps, RunTrialKeeps, CheckKeeps, JudgeKeeps,
   NextStageKeeps, GiveUpKeeps, ExhaustKeeps DEF SearchStep

----------------------------------------------------------------------------
(* The rest of a session keeps what is said of the search.                 *)

(* What leaves the search alone, but for the journal of probes.            *)
LEMMA SearchSteady ==
    ASSUME SearchInv,
           UNCHANGED <<setting, trials, at, todo, tried, heard, best, climb, incumbent>>,
           executed' \in Nat, JournalInv',
           \/ UNCHANGED pc
           \/ pc \in Live /\ pc' = "down"
           \/ pc \in FinalStages /\ pc' \in FinalStages \cup {"ended"}
    PROVE  SearchInv'
<1>1. ScoredOK(incumbent)' /\ ScoredOK(best)'
  BY ScoredKept
<1>2. pc' = pc \/ pc' \notin SearchStages
  BY DEF SearchStages, FinalStages, Live
<1>3. TodoInv'
  BY <1>2 DEF SearchInv, TodoInv, MutationOK, Harmless, IsMoe, IsSeq, SearchStages, Unchecked
<1>4. ClimbInv' /\ PlaceInv'
  BY <1>2 DEF SearchInv, ClimbInv, PlaceInv, IsMoe, SearchStages
<1>5. HeardInv'
  <2>1. heard # None => pc' \in SearchStages \cup {"down"}
    BY DEF SearchInv, HeardInv, FinalStages, SearchStages
  <2>2. Candidate' = Candidate
    BY DEF Candidate, Applied
  <2>3. QED
    BY <2>1, <2>2 DEF SearchInv, HeardInv, ConfigOK, Valid, Measured
<1>6. pc' \in Live \cup {"ended", "down"}
  BY DEF SearchInv, Live
<1>7. QED
  BY <1>1, <1>3, <1>4, <1>5, <1>6 DEF SearchInv

(* The conclusion only adds probes to what the search has.                 *)
LEMMA FinalFrame ==
    ASSUME FinalStep
    PROVE  /\ UNCHANGED ascent
           /\ pc \in FinalStages /\ pc' \in FinalStages \cup {"ended"}
<1> USE DEF FinalStages, EnvelopeFrame, InRung, InFallbacks, MayAskPrimary, MayAskFallback,
            AfterConfirm
<1>1. CASE EndSearch \/ Validate \/ RefuseConfirmation \/ RecallConfirmation \/ Confirm
  BY <1>1 DEF EndSearch, Validate, RefuseConfirmation, RecallConfirmation, Confirm
<1>2. CASE DepthRun \/ DepthDone \/ ValidateWithCli \/ GateRun \/ GateDone
  BY <1>2 DEF DepthRun, DepthDone, ValidateWithCli, GateRun, GateDone
<1>3. CASE SkipRung \/ RecallPrimary \/ ProbePrimary \/ ExhaustPrimary \/ PrunePrimary
  BY <1>3 DEF SkipRung, RecallPrimary, ProbePrimary, ExhaustPrimary, PrunePrimary
<1>4. CASE RecallFallback \/ ProbeFallback \/ CloseWithoutFallback
  BY <1>4 DEF RecallFallback, ProbeFallback, CloseWithoutFallback
<1>5. CASE EndEnvelope \/ LosslessProbe \/ LosslessDone \/ Publish
  BY <1>5 DEF EndEnvelope, LosslessProbe, LosslessDone, Publish
<1>6. QED
  BY <1>1, <1>2, <1>3, <1>4, <1>5 DEF FinalStep

Statuses == {"ok", "oom", "crash", "pruned"}

(* A step of the conclusion adds one probe that was not there, or none.    *)
LEMMA FinalProbes ==
    ASSUME FinalStep
    PROVE  \/ UNCHANGED probes
           \/ \E key : \E status \in Statuses :
                 key \notin DOMAIN probes /\ AddsProbe(key, status)
<1> DEFINE Added == \E key : \E status \in Statuses :
                       key \notin DOMAIN probes /\ AddsProbe(key, status)
<1>1. \A cfg, ctx, status : status \in ProbeStatuses(cfg, ctx) /\ Probe(cfg, ctx, status) => Added
  BY DEF Probe, ProbeStatuses, Statuses, AddsProbe
<1>2. CASE Validate
  BY <1>1, <1>2 DEF Validate, machineUse
<1>3. CASE ProbePrimary
  BY <1>1, <1>3 DEF ProbePrimary
<1>4. CASE ProbeFallback
  BY <1>1, <1>4 DEF ProbeFallback
<1>5. CASE LosslessProbe
  BY <1>1, <1>5 DEF LosslessProbe, machineUse
<1>6. CASE PrunePrimary
  BY <1>6 DEF PrunePrimary, Statuses, AddsProbe
<1> HIDE DEF Added
<1>7. CASE EndSearch \/ RefuseConfirmation \/ RecallConfirmation \/ Confirm \/ Publish
  BY <1>7 DEF EndSearch, RefuseConfirmation, RecallConfirmation, Confirm, Publish, machineUse
<1>8. CASE DepthRun \/ DepthDone \/ ValidateWithCli \/ GateRun \/ GateDone
  BY <1>8 DEF DepthRun, DepthDone, ValidateWithCli, GateRun, GateDone, machineUse
<1>9. CASE SkipRung \/ RecallPrimary \/ ExhaustPrimary \/ RecallFallback \/ CloseWithoutFallback
  BY <1>9 DEF SkipRung, RecallPrimary, ExhaustPrimary, RecallFallback, CloseWithoutFallback, machineUse
<1>10. CASE EndEnvelope \/ LosslessDone
  BY <1>10 DEF EndEnvelope, LosslessDone, machineUse
<1>11. QED
  BY <1>2, <1>3, <1>4, <1>5, <1>6, <1>7, <1>8, <1>9, <1>10 DEF FinalStep, Added

(* The conclusion leaves what the search found alone.                      *)
LEMMA FinalSearch ==
    ASSUME SearchInv, FinalStep, executed' \in Nat
    PROVE  SearchInv'
<1>1. /\ UNCHANGED <<setting, trials, at, todo, tried, heard, best, climb, incumbent>>
      /\ pc \in FinalStages /\ pc' \in FinalStages \cup {"ended"}
  BY FinalFrame DEF ascent
<1>2. JournalInv'
  <2>1. CASE UNCHANGED probes
    BY <1>1, <2>1, JournalKept
  <2>2. CASE ~UNCHANGED probes
    BY <1>1, <2>2, FinalProbes, ProbeAdded DEF Statuses
  <2>3. QED
    BY <2>1, <2>2
<1>3. QED
  BY <1>1, <1>2, SearchSteady

(* A session begins, again.                                                *)
LEMMA StartAgain ==
    ASSUME setting \in Settings, UNCHANGED setting, executed' \in Nat,
           ScoredOK(setting.start)', JournalInv',
           pc' = "discovered", todo' = <<>>, tried' = 0, heard' = None,
           at' = [pass |-> 1, dim |-> 1, gauge |-> 0, moe |-> 0],
           best' = setting.start, incumbent' = setting.start, climb' = NoClimb
    PROVE  SearchInv'
<1>1. TodoInv' /\ HeardInv'
  BY SmallSeqs DEF TodoInv, HeardInv, IsSeq
<1>2. ClimbInv' /\ PlaceInv'
  BY DEF ClimbInv, PlaceInv, NoClimb, ClimbSteps, MaxPasses, Dimensions
<1>3. ScoredOK(incumbent)' /\ ScoredOK(best)'
  BY DEF ScoredOK, ConfigOK, Valid, Measured
<1>4. QED
  BY <1>1, <1>2, <1>3 DEF SearchInv, Live

(* The journal of trials only grows.                                       *)
LEMMA TrialsGrow ==
    ASSUME Begin \/ SearchStep
    PROVE  UNCHANGED setting /\ DOMAIN trials \subseteq DOMAIN trials'
<1>1. UNCHANGED setting
  BY SearchWork
<1>2. CASE PruneCandidate \/ RunTrial
  <2>1. \E o : trials' = With(trials, Candidate, o)
    BY <1>2 DEF PruneCandidate, RunTrial
  <2>2. QED
    BY <1>1, <2>1 DEF With
<1>3. CASE ~(PruneCandidate \/ RunTrial)
  BY <1>3 DEF SearchStep, Begin, Skip, RecallTrial, PairCheck, RefusePair, RecallProbe, PruneProbe,
     RunProbe, Judge, NextStage, GiveUpStage, Exhaust, journal
<1>4. QED
  BY <1>1, <1>2, <1>3

(* The configuration joint discovery leaves is one the search can be at.   *)
LEMMA StartOK ==
    ASSUME setting \in Settings, setting.measured => Measured(setting.start.cfg)
    PROVE  ScoredOK(setting.start)
BY SettingsAssumption DEF ScoredOK, ConfigOK, Valid

----------------------------------------------------------------------------
(* The memory of the conclusion.                                           *)
StageInv ==
    /\ IsSeq(rows) /\ Len(rows) <= Len(setting.ladder) + 1
    /\ env = [f \in DOMAIN NoRung |-> env[f]]
    /\ env.searching \in BOOLEAN
    /\ env.searching => Len(rows) <= Len(setting.ladder)
    /\ valid \in BOOLEAN /\ rec.confirmed \in BOOLEAN
    /\ confirmed \subseteq DOMAIN trials
    /\ rec.confirmed => rec.cfg \in confirmed

(* Nothing else of a session touches it.                                   *)
LEMMA StageSteady ==
    ASSUME StageInv, UNCHANGED <<setting, rows, env, valid, rec, confirmed>>,
           DOMAIN trials \subseteq DOMAIN trials'
    PROVE  StageInv'
BY DEF StageInv, IsSeq, NoRung

(* A rung is closed.                                                       *)
LEMMA RungClosed ==
    ASSUME StageInv, setting \in Settings, UNCHANGED <<setting, trials, valid, rec, confirmed>>,
           Len(rows) <= Len(setting.ladder),
           NEW row, rows' = Append(rows, row),
           env' = [f \in DOMAIN NoRung |-> env'[f]], env'.searching = FALSE
    PROVE  StageInv'
<1>1. IsSeq(rows') /\ Len(rows') = Len(rows) + 1 /\ Len(rows) \in Nat
  BY Appended, SeqFacts DEF StageInv
<1>2. Len(setting.ladder) \in Nat
  BY SettingFacts
<1>3. Len(rows') <= Len(setting'.ladder) + 1
  BY <1>1, <1>2
<1>4. /\ valid' \in BOOLEAN /\ rec'.confirmed \in BOOLEAN
      /\ confirmed' \subseteq DOMAIN trials'
      /\ rec'.confirmed => rec'.cfg \in confirmed'
  BY DEF StageInv
<1>5. QED
  BY <1>1, <1>3, <1>4 DEF StageInv, IsSeq, NoRung

(* No row is written past the ladder, and only evidence confirms.          *)
LEMMA StageKept ==
    ASSUME SearchInv, StageInv, FinalStep
    PROVE  StageInv'
<1>1. UNCHANGED <<setting, trials, incumbent>> /\ setting \in Settings
  BY FinalFrame DEF ascent, SearchInv
<1>2. CASE EndSearch \/ DepthRun \/ DepthDone \/ ValidateWithCli \/ GateRun
  BY <1>1, <1>2, StageSteady DEF EndSearch, DepthRun, DepthDone, ValidateWithCli, GateRun, evidence,
     finalMemory
<1>3. CASE EndEnvelope \/ LosslessProbe \/ LosslessDone \/ Publish
  BY <1>1, <1>3, StageSteady DEF EndEnvelope, LosslessProbe, LosslessDone, Publish, evidence,
     finalMemory
<1>4. CASE Validate
  <2>1. valid' \in BOOLEAN
    BY <1>4 DEF Validate, StageInv
  <2>2. QED
    BY <1>1, <1>4, <2>1 DEF Validate, StageInv, IsSeq, NoRung, evidence
<1>5. CASE RefuseConfirmation \/ RecallConfirmation \/ Confirm
  <2>1. /\ UNCHANGED <<rows, env, valid>>
        /\ confirmed \subseteq confirmed'
        /\ \/ UNCHANGED confirmed
           \/ incumbent.cfg # setting.default /\ confirmed' = confirmed \cup {incumbent.cfg}
        /\ \/ Defaults
           \/ Winner(incumbent.cfg) /\ incumbent.cfg \in confirmed'
    BY <1>5 DEF RefuseConfirmation, RecallConfirmation, Confirm, Refused, evidence
  <2>2. confirmed' \subseteq DOMAIN trials
    BY <2>1 DEF StageInv, SearchInv, ScoredOK, Measured
  <2>3. rec'.confirmed \in BOOLEAN /\ (rec'.confirmed => rec'.cfg \in confirmed')
    <3>1. CASE Defaults
      BY <3>1 DEF Defaults
    <3>2. CASE Winner(incumbent.cfg) /\ incumbent.cfg \in confirmed'
      BY <3>2 DEF Winner, StageInv
    <3>3. QED
      BY <2>1, <3>1, <3>2
  <2>4. QED
    BY <1>1, <2>1, <2>2, <2>3 DEF StageInv, IsSeq, NoRung
<1>6. CASE GateDone
  <2>1. CASE UNCHANGED <<rows, env>>
    BY <1>1, <1>6, <2>1, StageSteady DEF GateDone, evidence
  <2>2. CASE ~UNCHANGED <<rows, env>>
    <3>1. /\ rows' = <<Row(setting.ctx, "ok", <<>>)>> /\ env' = [NoRung EXCEPT !.total = executed]
          /\ UNCHANGED <<valid, rec, confirmed>>
      BY <1>6, <2>2 DEF GateDone, evidence
    <3>2. IsSeq(rows') /\ Len(rows') = 1 /\ Len(setting.ladder) \in Nat
      BY <1>1, <3>1, SmallSeqs, SettingFacts
    <3>3. env' = [f \in DOMAIN NoRung |-> env'[f]] /\ env'.searching = FALSE
      BY <3>1 DEF NoRung
    <3>4. QED
      BY <1>1, <3>1, <3>2, <3>3 DEF StageInv, IsSeq, NoRung
  <2>3. QED
    BY <2>1, <2>2
<1>7. ASSUME InRung \/ InFallbacks
      PROVE  Len(rows) <= Len(setting.ladder)
  <2>1. Len(rows) \in Nat /\ Len(setting.ladder) \in Nat
    BY <1>1, SettingFacts, SeqFacts DEF StageInv
  <2>2. QED
    BY <1>7, <2>1 DEF InRung, InFallbacks, EnvelopeOver, StageInv
<1>8. ASSUME UNCHANGED <<valid, rec, confirmed>>, InRung \/ InFallbacks,
             \/ UNCHANGED <<rows, env>>
             \/ /\ \E status, fallback : rows' = Append(rows, Row(Rung, status, fallback))
                /\ env' = [f \in DOMAIN NoRung |-> env'[f]] /\ env'.searching = FALSE
             \/ /\ UNCHANGED rows
                /\ env' = [f \in DOMAIN NoRung |-> env'[f]] /\ env'.searching = TRUE
      PROVE  StageInv'
  <2>1. Len(rows) <= Len(setting.ladder)
    BY <1>7, <1>8
  <2>2. CASE UNCHANGED <<rows, env>>
    BY <1>1, <1>8, <2>2, StageSteady
  <2>3. CASE \E status, fallback : rows' = Append(rows, Row(Rung, status, fallback))
             /\ env' = [f \in DOMAIN NoRung |-> env'[f]] /\ env'.searching = FALSE
    BY <1>1, <1>8, <2>1, <2>3, RungClosed
  <2>4. CASE UNCHANGED rows /\ env' = [f \in DOMAIN NoRung |-> env'[f]] /\ env'.searching = TRUE
    BY <1>1, <1>8, <2>1, <2>4 DEF StageInv, IsSeq, NoRung
  <2>5. QED
    BY <1>8, <2>2, <2>3, <2>4
<1>9. env = [f \in DOMAIN NoRung |-> env[f]] /\ env.searching \in BOOLEAN
      /\ DOMAIN NoRung = {"searching", "status", "failed", "fallback", "start", "total",
                          "truncated", "exhausted"}
  BY DEF StageInv, NoRung
<1> USE DEF EnvelopeFrame, evidence
<1>10. CASE SkipRung \/ ExhaustPrimary
  <2>1. InRung /\ UNCHANGED <<valid, rec, confirmed>>
        /\ rows' = Append(rows, Row(Rung, "skipped", <<>>))
        /\ \/ env' = [env EXCEPT !.truncated = TRUE]
           \/ env' = [env EXCEPT !.truncated = TRUE, !.exhausted = TRUE]
    BY <1>10 DEF SkipRung, ExhaustPrimary, CloseRung, MayAskPrimary
  <2>2. env' = [f \in DOMAIN NoRung |-> env'[f]] /\ env'.searching = FALSE
    BY <1>9, <2>1 DEF InRung
  <2>3. QED
    BY <1>8, <2>1, <2>2
<1>11. ASSUME NEW status, LookForFallback(status)
       PROVE  /\ UNCHANGED rows
              /\ env' = [f \in DOMAIN NoRung |-> env'[f]] /\ env'.searching = TRUE
  BY <1>9, <1>11 DEF LookForFallback
<1>12. ASSUME NEW status, PrimaryHeard(status), InRung
       PROVE  \/ rows' = Append(rows, Row(Rung, "ok", <<>>)) /\ env' = env /\ env'.searching = FALSE
              \/ UNCHANGED rows /\ env' = [f \in DOMAIN NoRung |-> env'[f]] /\ env'.searching = TRUE
  BY <1>9, <1>11, <1>12 DEF PrimaryHeard, CloseRung, InRung
<1>13. CASE RecallPrimary \/ ProbePrimary
  <2>1. InRung /\ UNCHANGED <<valid, rec, confirmed>> /\ \E status : PrimaryHeard(status)
    BY <1>13 DEF RecallPrimary, ProbePrimary, MayAskPrimary
  <2>2. QED
    BY <1>8, <1>9, <1>12, <2>1
<1>14. CASE PrunePrimary
  <2>1. InRung /\ UNCHANGED <<valid, rec, confirmed>> /\ LookForFallback("pruned")
    BY <1>14 DEF PrunePrimary
  <2>2. QED
    BY <1>8, <1>11, <2>1
<1>15. CASE RecallFallback \/ ProbeFallback
  <2>1. InFallbacks /\ UNCHANGED <<valid, rec, confirmed>> /\ \E status : FallbackHeard(status)
    BY <1>15 DEF RecallFallback, ProbeFallback, MayAskFallback
  <2>2. \/ UNCHANGED <<rows, env>>
        \/ /\ rows' = Append(rows, Row(Rung, env.status, <<Head(left)>>))
           /\ env' = [env EXCEPT !.searching = FALSE, !.fallback = <<Head(left)>>]
    BY <2>1 DEF FallbackHeard, CloseRung
  <2>3. env' = [env EXCEPT !.searching = FALSE, !.fallback = <<Head(left)>>] =>
            env' = [f \in DOMAIN NoRung |-> env'[f]] /\ env'.searching = FALSE
    BY <1>9
  <2>4. QED
    BY <1>8, <2>1, <2>2, <2>3
<1>16. CASE CloseWithoutFallback
  <2>1. /\ InFallbacks /\ UNCHANGED <<valid, rec, confirmed>>
        /\ rows' = Append(rows, Row(Rung, env.status, <<>>))
        /\ \E t, x : env' = [env EXCEPT !.searching = FALSE, !.truncated = t, !.exhausted = x]
    BY <1>16 DEF CloseWithoutFallback, CloseRung
  <2>2. env' = [f \in DOMAIN NoRung |-> env'[f]] /\ env'.searching = FALSE
    BY <1>9, <2>1
  <2>3. QED
    BY <1>8, <2>1, <2>2
<1>17. QED
  BY <1>2, <1>3, <1>4, <1>5, <1>6, <1>10, <1>13, <1>14, <1>15, <1>16 DEF FinalStep

----------------------------------------------------------------------------
(* A whole session.                                                        *)
SessionInv ==
    /\ WorkInv /\ SearchInv /\ StageInv
    /\ setting.measured => Measured(setting.start.cfg)

(* A session as joint discovery leaves it.                                 *)
LEMMA InitSession ==
    ASSUME Init
    PROVE  SessionInv
<1>1. /\ setting \in Settings
      /\ trials = IF setting.measured
                  THEN With([x \in {} |-> None], setting.start.cfg, Outcome("ok", setting.start.score))
                  ELSE [x \in {} |-> None]
      /\ probes = [x \in {} |-> None]
      /\ executed = 0 /\ pc = "discovered"
      /\ at = [pass |-> 1, dim |-> 1, gauge |-> 0, moe |-> 0]
      /\ todo = <<>> /\ tried = 0 /\ heard = None
      /\ best = setting.start /\ climb = NoClimb /\ incumbent = setting.start
      /\ confirmed = {} /\ valid = FALSE /\ rec = NoRec /\ left = <<>> /\ rows = <<>> /\ env = NoRung
  BY DEF Init, SearchInit
<1>2. WorkInv
  BY <1>1, InitCount, SmallSeqs DEF WorkInv, Live
<1>3. JournalInv /\ (setting.measured => Measured(setting.start.cfg))
  <2> DEFINE o == Outcome("ok", setting.start.score)
             none == [x \in {} |-> None]
             one == With(none, setting.start.cfg, o)
  <2>1. o.status = "ok" /\ o.score \in Nat
    BY <1>1, SettingsAssumption DEF Outcome
  <2>2. DOMAIN none = {}
    OBVIOUS
  <2> HIDE DEF none, o
  <2>3. /\ DOMAIN one = {setting.start.cfg} /\ one[setting.start.cfg] = o
    BY <2>2 DEF With
  <2> HIDE DEF one
  <2>4. probes = none /\ trials = IF setting.measured THEN one ELSE none
    BY <1>1 DEF none, one, o
  <2>5. QED
    BY <2>1, <2>2, <2>3, <2>4 DEF JournalInv, TrialOK, Measured
<1>4. SearchInv
  <2>1. TodoInv /\ HeardInv
    BY <1>1, SmallSeqs DEF TodoInv, HeardInv
  <2>2. ClimbInv /\ PlaceInv
    BY <1>1 DEF ClimbInv, PlaceInv, NoClimb, ClimbSteps, MaxPasses, Dimensions
  <2>3. QED
    BY <1>1, <1>3, <2>1, <2>2, StartOK DEF SearchInv, Live
<1>5. StageInv
  <2>1. Len(setting.ladder) \in Nat /\ IsSeq(rows) /\ Len(rows) <= Len(setting.ladder) + 1
    <3>1. IsSeq(rows) /\ Len(rows) = 0 /\ Len(setting.ladder) \in Nat
      BY <1>1, SmallSeqs, SettingFacts
    <3>2. QED
      BY <3>1
  <2>2. env = [f \in DOMAIN NoRung |-> env[f]] /\ env.searching = FALSE
    BY <1>1 DEF NoRung
  <2>3. /\ valid \in BOOLEAN /\ rec.confirmed = FALSE /\ confirmed \subseteq DOMAIN trials
    BY <1>1 DEF NoRec
  <2>4. QED
    BY <2>1, <2>2, <2>3 DEF StageInv
<1>6. QED
  BY <1>2, <1>3, <1>4, <1>5 DEF SessionInv

(* Every step keeps what is said of a session.                             *)
LEMMA SessionKept ==
    ASSUME SessionInv, [Next]_vars
    PROVE  SessionInv'
<1> DEFINE MeasuredInv == setting.measured => Measured(setting.start.cfg)
<1>1. ASSUME UNCHANGED setting, DOMAIN trials \subseteq DOMAIN trials'
      PROVE  MeasuredInv'
  BY <1>1 DEF SessionInv, Measured
<1>2. ASSUME Begin \/ SearchStep, UNCHANGED <<disk, evidence, finalMemory, revalidated>>
      PROVE  SessionInv'
  <2>1. UNCHANGED setting /\ DOMAIN trials \subseteq DOMAIN trials'
    BY <1>2, TrialsGrow
  <2>2. WorkInv' /\ SearchInv'
    BY <1>2, CountSearch, SearchKeeps DEF SessionInv
  <2>3. StageInv'
    BY <1>2, <2>1, StageSteady DEF SessionInv, evidence, finalMemory
  <2>4. QED
    BY <1>1, <2>1, <2>2, <2>3 DEF SessionInv
<1>3. ASSUME FinalStep, UNCHANGED revalidated
      PROVE  SessionInv'
  <2>1. WorkInv' /\ executed' \in Nat
    BY <1>3, CountFinal DEF SessionInv, WorkInv, CountInv
  <2>2. SearchInv' /\ StageInv'
    BY <1>3, <2>1, FinalSearch, StageKept DEF SessionInv
  <2>3. UNCHANGED <<setting, trials>>
    BY <1>3, FinalFrame DEF ascent
  <2>4. QED
    BY <1>1, <2>1, <2>2, <2>3 DEF SessionInv
<1>4. ASSUME UNCHANGED <<setting, trials, probes, at, todo, tried, heard, best, climb, incumbent,
                         executed, finalMemory, confirmed>>,
             WorkInv', UNCHANGED pc \/ (pc \in Live /\ pc' = "down")
      PROVE  SessionInv'
  <2>1. SearchInv'
    BY <1>4, JournalKept, SearchSteady DEF SessionInv, SearchInv
  <2>2. StageInv'
    BY <1>4, StageSteady DEF SessionInv, finalMemory
  <2>3. QED
    BY <1>1, <1>4, <2>1, <2>2 DEF SessionInv
<1>5. CASE Interrupt \/ Expire
  <2>1. WorkInv'
    BY <1>5, CountSteady DEF SessionInv, Interrupt, Expire, journal, stage, counts, finalMemory
  <2>2. QED
    BY <1>4, <1>5, <2>1 DEF Interrupt, Expire, journal, stage, counts, evidence
<1>6. CASE Crash
  BY <1>4, <1>6, CountDown DEF SessionInv, Crash, journal, evidence
<1>7. CASE Resume
  <2>1. /\ UNCHANGED <<setting, trials, probes, confirmed>> /\ SearchRestart /\ FreshFinal
        /\ executed' = journaled
    BY <1>7 DEF Resume, SearchRestart, journal, evidence
  <2>2. WorkInv' /\ executed' \in Nat /\ setting \in Settings
    BY <1>7, CountAgain DEF SessionInv, WorkInv, CountInv
  <2>3. ScoredOK(setting.start)'
    <3>1. ScoredOK(setting.start)
      BY <2>2, StartOK DEF SessionInv
    <3>2. QED
      BY <2>1, <3>1 DEF ScoredOK, ConfigOK, Valid, Measured
  <2>4. SearchInv'
    BY <2>1, <2>2, <2>3, JournalKept, StartAgain DEF SessionInv, SearchRestart
  <2>5. StageInv'
    <3>5. Len(setting.ladder) \in Nat /\ IsSeq(rows') /\ Len(rows') = 0
      BY <2>1, <2>2, SmallSeqs, SettingFacts DEF FreshFinal
    <3>1. IsSeq(rows') /\ Len(rows') <= Len(setting'.ladder) + 1
      BY <2>1, <3>5
    <3>2. env' = [f \in DOMAIN NoRung |-> env'[f]] /\ env'.searching = FALSE
      BY <2>1 DEF FreshFinal, NoRung
    <3>3. valid' = FALSE /\ rec'.confirmed = FALSE /\ confirmed' \subseteq DOMAIN trials'
      BY <2>1 DEF FreshFinal, NoRec, SessionInv, StageInv
    <3>4. QED
      BY <2>1, <3>1, <3>2, <3>3 DEF StageInv, IsSeq, NoRung
  <2>6. QED
    BY <1>1, <2>1, <2>2, <2>4, <2>5 DEF SessionInv
<1>8. CASE Revalidate
  BY <1>4, <1>8, CountRevalidated DEF SessionInv, Revalidate, stage, evidence
<1>9. CASE UNCHANGED vars
  <2>1. WorkInv'
    BY <1>9, CountSteady DEF SessionInv, vars, searchVars, journal, stage, counts, finalMemory
  <2>2. QED
    BY <1>4, <1>9, <2>1 DEF vars, searchVars, journal, stage, evidence
<1>10. QED
  BY <1>2, <1>3, <1>5, <1>6, <1>7, <1>8, <1>9 DEF Next, Step, Finished

(***************************************************************************)
(* What is said of a session holds in every state of every process.        *)
(***************************************************************************)
THEOREM Inductive == Spec => []SessionInv
<1>1. Init => SessionInv
  BY InitSession
<1>2. SessionInv /\ [Next]_vars => SessionInv'
  BY SessionKept
<1>3. QED
  BY <1>1, <1>2, PTL DEF Spec

(***************************************************************************)
(* Every variable keeps its type; in particular no stage, not even one     *)
(* that does not ask is_valid_config, promotes an invalid configuration,   *)
(* and what is confirmed has been measured.                                *)
(***************************************************************************)
THEOREM TypeCorrect == Spec => []TypeOK
<1>1. SessionInv => TypeOK
  <2> SUFFICES ASSUME SessionInv
               PROVE  TypeOK
    OBVIOUS
  <2>1. /\ setting \in Settings
        /\ \A c \in DOMAIN trials :
              trials[c].status \in {"ok", "oom", "crash", "pruned"} /\ trials[c].score \in Nat
        /\ \A k \in DOMAIN probes : probes[k] \in {"ok", "oom", "crash", "pruned"}
    BY DEF SessionInv, SearchInv, JournalInv, TrialOK
  <2>2. /\ journaled \in Nat /\ executed \in Nat
        /\ pc \in Live => journaled <= executed
    BY DEF SessionInv, WorkInv, CountInv
  <2>3. /\ pc \in Live \cup {"ended", "down"}
        /\ at.pass \in 1..MaxPasses /\ at.dim \in DOMAIN Dimensions
        /\ Valid(incumbent.cfg) /\ incumbent.score \in Nat
        /\ climb.step \in DOMAIN ClimbSteps /\ climb.misses \in 0..2
    BY DEF SessionInv, SearchInv, ScoredOK, ConfigOK, PlaceInv, ClimbInv
  <2>4. /\ confirmed \subseteq DOMAIN trials
        /\ rec.confirmed => rec.cfg \in confirmed
        /\ Len(rows) <= Len(setting.ladder) + 1
    BY DEF SessionInv, StageInv
  <2>5. QED
    BY <2>1, <2>2, <2>3, <2>4 DEF TypeOK
<1>2. QED
  BY <1>1, Inductive, PTL

----------------------------------------------------------------------------
(* The neighbourhood of the incumbent.                                     *)
\* A one-dimension change of the incumbent.
Change(d, v) == [incumbent.cfg EXCEPT ![d] = v]

\* It failed the probe its dimension asks for.
Spoiled(d, cfg) ==
    /\ d \in ProbedDims
    /\ <<cfg, setting.ctx>> \in DOMAIN probes
    /\ probes[<<cfg, setting.ctx>>] # "ok"

\* It is not better by more than the noise, unless it failed its probe.
Fair(d, cfg) ==
    Valid(cfg) /\ cfg # incumbent.cfg =>
        /\ Measured(cfg)
        /\ Beats(trials[cfg].score, incumbent.score) /\ d # "mmap" => Spoiled(d, cfg)

Explored(d) == \A v \in Range(Candidates(d, incumbent.cfg)) : Fair(d, Change(d, v))

\* The best of the sweep so far is as good, or it failed its check.
HeardOf(d, cfg) ==
    Valid(cfg) /\ cfg # incumbent.cfg =>
        /\ Measured(cfg)
        /\ trials[cfg].score <= best.score \/ d = "mmap" \/ Spoiled(d, cfg)

\* What a sweep goes through, and how much of it is behind.
Values == Candidates(Dim, incumbent.cfg)
Gone == Len(Values) - Len(todo)

SweepInv ==
    pc = "sweep" =>
        /\ best.score >= incumbent.score
        /\ Gone \in Nat
        /\ \A i \in DOMAIN todo : /\ todo[i].shift = 0 /\ DOMAIN todo[i].set = {Dim}
                                  /\ todo[i].set[Dim] = Values[Gone + i]
        /\ \A i \in 1..Gone : HeardOf(Dim, Change(Dim, Values[i]))

\* A sweep refuses what failed the check of its dimension.
CheckedInv ==
    pc = "sweep" /\ heard # None /\ ~heard.allowed => Dim = "mmap" \/ Spoiled(Dim, heard.cfg)

\* The dimensions a pass has been through.
InPass == pc \in {"sweep", "thread"} \/ (pc = "pairwise" /\ tried = 0 /\ heard = None)
Behind == CASE pc = "sweep" -> at.dim - 1 [] pc = "thread" -> at.dim [] OTHER -> Len(Dimensions)

\* A pass that gained nothing has explored them around the incumbent.
PassInv ==
    InPass => /\ at.gauge <= incumbent.score
              /\ Converged => \A i \in 1..Behind : Explored(Dimensions[i])

LocalInv == SweepInv /\ CheckedInv /\ PassInv

\* An outcome is journaled once.
JournalGrows ==
    /\ \A c \in DOMAIN trials : c \in DOMAIN trials' /\ trials'[c] = trials[c]
    /\ \A k \in DOMAIN probes : k \in DOMAIN probes' /\ probes'[k] = probes[k]

(* An outcome is journaled once.                                           *)
LEMMA SearchGrows ==
    ASSUME Begin \/ SearchStep
    PROVE  JournalGrows /\ UNCHANGED setting
<1>1. UNCHANGED setting
  BY SearchWork
<1>2. CASE PruneCandidate \/ RunTrial
  <2>1. /\ \E o : trials' = With(trials, Candidate, o)
        /\ ~Measured(Candidate) /\ UNCHANGED probes
    BY <1>2 DEF PruneCandidate, RunTrial, MayRun
  <2>2. PICK c : c = Candidate
    OBVIOUS
  <2>3. c \notin DOMAIN trials /\ \E o : trials' = With(trials, c, o)
    BY <2>1, <2>2 DEF Measured
  <2>4. QED
    BY <1>1, <2>1, <2>3 DEF JournalGrows, With
<1>3. CASE PruneProbe \/ RunProbe
  <2>1. /\ \E s : probes' = With(probes, ProbeKey, s)
        /\ ProbeKey \notin DOMAIN probes /\ UNCHANGED trials
    BY <1>3 DEF PruneProbe, RunProbe, Probe, ProbeKey
  <2>2. PICK k : k = ProbeKey
    OBVIOUS
  <2>3. k \notin DOMAIN probes /\ \E s : probes' = With(probes, k, s)
    BY <2>1, <2>2
  <2>4. QED
    BY <1>1, <2>1, <2>3 DEF JournalGrows, With
<1>4. CASE ~(PruneCandidate \/ RunTrial \/ PruneProbe \/ RunProbe)
  <2>1. UNCHANGED <<trials, probes>>
    BY <1>4 DEF SearchStep, Begin, Skip, RecallTrial, PairCheck, RefusePair, RecallProbe, Judge,
       NextStage, GiveUpStage, Exhaust, journal
  <2>2. QED
    BY <1>1, <2>1 DEF JournalGrows
<1>5. QED
  BY <1>2, <1>3, <1>4

(* What was explored stays so.                                             *)
LEMMA ExploredGrows ==
    ASSUME JournalGrows, UNCHANGED <<setting, incumbent>>
    PROVE  \A d : Explored(d) => Explored(d)'
<1>1. \A d, c : Candidates(d, c)' = Candidates(d, c)
  BY DEF Candidates, Applicable, ThreadCandidates
<1>2. ASSUME NEW d, NEW cfg, Fair(d, cfg)
      PROVE  Fair(d, cfg)'
  BY <1>2 DEF Fair, Valid, Measured, Spoiled, JournalGrows, Beats
<1>3. ASSUME NEW d, Explored(d), NEW v \in Range(Candidates(d, incumbent.cfg))'
      PROVE  Fair(d, Change(d, v))'
  <2>1. v \in Range(Candidates(d, incumbent.cfg))
    BY <1>1, <1>3
  <2>2. PICK cfg : cfg = Change(d, v)
    OBVIOUS
  <2>3. Fair(d, cfg)
    BY <1>3, <2>1, <2>2 DEF Explored
  <2>4. Fair(d, cfg)' /\ cfg = Change(d, v)'
    BY <1>2, <2>2, <2>3 DEF Change
  <2>5. QED
    BY <2>4
<1>4. QED
  BY <1>3 DEF Explored

(* What was heard stays so, as the best of the sweep gets better.          *)
LEMMA HeardGrows ==
    ASSUME JournalGrows, JournalInv, UNCHANGED <<setting, incumbent>>,
           best.score \in Nat, best'.score \in Nat, best'.score >= best.score
    PROVE  \A d, cfg : HeardOf(d, cfg) => HeardOf(d, cfg)'
<1> SUFFICES ASSUME NEW d, NEW cfg, HeardOf(d, cfg)
             PROVE  HeardOf(d, cfg)'
  OBVIOUS
<1>1. CASE ~(Valid(cfg) /\ cfg # incumbent.cfg)
  BY <1>1 DEF HeardOf, Valid
<1>2. CASE Valid(cfg) /\ cfg # incumbent.cfg
  <2>1. cfg \in DOMAIN trials /\ (trials[cfg].score <= best.score \/ d = "mmap" \/ Spoiled(d, cfg))
    BY <1>2 DEF HeardOf, Measured
  <2>2. trials[cfg].score \in Nat
    BY <2>1 DEF JournalInv, TrialOK
  <2>3. cfg \in DOMAIN trials' /\ trials'[cfg] = trials[cfg]
    BY <2>1 DEF JournalGrows
  <2>4. Spoiled(d, cfg) => Spoiled(d, cfg)'
    BY DEF Spoiled, JournalGrows
  <2>5. trials[cfg].score <= best.score => trials'[cfg].score <= best'.score
    BY <2>2, <2>3
  <2>6. QED
    BY <2>1, <2>3, <2>4, <2>5 DEF HeardOf, Measured
<1>3. QED
  BY <1>1, <1>2

(* A gain of more than the noise, and what is no such gain.                *)
LEMMA GainFacts ==
    ASSUME NEW score \in Nat, NEW other \in Nat, NEW gauge \in Nat, gauge <= other
    PROVE  /\ Beats(score, other) =>
                ~(score * 100 < gauge * (100 + Noise)) /\ gauge <= score
           /\ \A less \in Nat : less <= score /\ ~Beats(score, other) => ~Beats(less, other)
<1> DEFINE n == 100 + Noise
<1>1. n \in Nat /\ n >= 100
  BY BoundsAssumption
<1>2. gauge * n <= other * n /\ gauge * n \in Nat /\ other * n \in Nat
  <2>1. PICK e \in Nat : other = gauge + e
    <3>1. other - gauge \in Nat /\ other = gauge + (other - gauge)
      OBVIOUS
    <3>2. QED
      BY <3>1
  <2> HIDE DEF n
  <2>2. other * n = gauge * n + e * n /\ e * n \in Nat /\ gauge * n \in Nat
    BY <1>1, <2>1
  <2>3. QED
    BY <2>2
<1>3. other * 100 <= other * n
  <2>1. PICK e \in Nat : n = 100 + e
    <3>1. n - 100 \in Nat /\ n = 100 + (n - 100)
      BY <1>1
    <3>2. QED
      BY <3>1
  <2> HIDE DEF n
  <2>2. other * n = other * 100 + other * e /\ other * e \in Nat
    BY <2>1
  <2>3. QED
    BY <2>2
<1>4. Beats(score, other) <=> score * 100 > other * n
  BY DEF Beats
<1>5. \A less \in Nat : Beats(less, other) <=> less * 100 > other * n
  BY DEF Beats
<1>6. score * 100 < gauge * (100 + Noise) <=> score * 100 < gauge * n
  OBVIOUS
<1> HIDE DEF n
<1>7. QED
  BY <1>1, <1>2, <1>3, <1>4, <1>5, <1>6

(* What a dimension may be set to depends on the command line only.        *)
LEMMA CandidatesSame ==
    ASSUME UNCHANGED setting
    PROVE  \A d, c : Candidates(d, c)' = Candidates(d, c)
BY DEF Candidates, Applicable, ThreadCandidates

(* A sweep changes a field of its own.                                     *)
LEMMA DimFacts ==
    ASSUME PlaceInv
    PROVE  Dim \in Fields \ {"moe_cpu_layers"}
<1>1. at.dim \in 1..9
  BY DEF PlaceInv, Dimensions
<1>2. QED
  BY <1>1, SMTT(30) DEF Dim, Dimensions, Fields

(* The candidate of a sweep changes the incumbent in one dimension.        *)
LEMMA SweptCandidate ==
    ASSUME SearchInv, SweepInv, pc = "sweep", todo # <<>>
    PROVE  /\ Gone + 1 \in 1..Len(Values) /\ Candidate = Change(Dim, Values[Gone + 1])
           /\ Gone \in Nat /\ Len(Values) = Gone + Len(todo) /\ Len(todo) \in Nat
<1>1. /\ IsSeq(todo) /\ Len(todo) \in Nat /\ DOMAIN todo = 1..Len(todo) /\ Len(todo) # 0
      /\ Head(todo) = todo[1]
  BY SeqFacts DEF SearchInv, TodoInv
<1>2. /\ Gone \in Nat /\ todo[1].shift = 0 /\ DOMAIN todo[1].set = {Dim}
      /\ todo[1].set[Dim] = Values[Gone + 1]
  BY <1>1 DEF SweepInv
<1>3. Len(Values) = Gone + Len(todo)
  <2>1. IsSeq(Values)
    <3>1. setting \in Settings /\ setting.cores.logical >= 1
      <4>1. setting \in Settings /\ incumbent.cfg.threads \in 1..setting.cores.logical
        BY DEF SearchInv, ScoredOK, ConfigOK, Valid, ValidFor
      <4>2. QED
        BY <4>1, SettingFacts
    <3>2. QED
      BY <3>1, CandidatesAreSeq DEF Values
  <2>2. Len(Values) \in Nat
    BY <2>1, SeqFacts
  <2>3. QED
    BY <1>1, <2>2 DEF Gone
<1>4. Candidate = Change(Dim, Values[Gone + 1])
  <2>1. /\ Dim \in Fields \ {"moe_cpu_layers"}
        /\ incumbent.cfg = [f \in Fields |-> incumbent.cfg[f]]
    BY DimFacts DEF SearchInv, ScoredOK, ConfigOK
  <2>2. PICK c : c = Candidate
    OBVIOUS
  <2>3. PICK m : m = todo[1]
    OBVIOUS
  <2>4. c = Applied(m, incumbent.cfg)
    BY <1>1, <2>2, <2>3 DEF Candidate
  <2>5. /\ c = [f \in Fields |-> c[f]]
        /\ \A f \in Fields \ {"moe_cpu_layers"} :
              c[f] = IF f \in DOMAIN m.set THEN m.set[f] ELSE incumbent.cfg[f]
        /\ c.moe_cpu_layers =
              LET n == IF "moe_cpu_layers" \in DOMAIN m.set THEN m.set.moe_cpu_layers
                       ELSE incumbent.cfg.moe_cpu_layers
              IN  IF m.shift = 0 THEN n ELSE Clamp(n + m.shift, 0, setting.experts)
    BY <2>1, <2>4, AppliedFields
  <2>6. PICK v : v = Values[Gone + 1]
    OBVIOUS
  <2>7. DOMAIN m.set = {Dim} /\ m.set[Dim] = v /\ m.shift = 0
    BY <1>2, <2>3, <2>6
  <2>8. PICK d : d = Dim
    OBVIOUS
  <2>9. \A f \in Fields : c[f] = IF f = d THEN v ELSE incumbent.cfg[f]
    BY <2>1, <2>5, <2>7, <2>8
  <2>10. PICK e : e = Change(d, v)
    OBVIOUS
  <2>11. e = [f \in Fields |-> IF f = d THEN v ELSE incumbent.cfg[f]]
    BY <2>1, <2>8, <2>10 DEF Change
  <2>12. c = e
    BY <2>5, <2>9, <2>11
  <2>13. QED
    BY <2>2, <2>6, <2>8, <2>10, <2>12
<1>5. QED
  BY <1>1, <1>2, <1>3, <1>4

(* A sweep begins with all of its candidates.                              *)
LEMMA SweepBegins ==
    ASSUME setting \in Settings, UNCHANGED setting, ConfigOK(incumbent'.cfg),
           incumbent'.score \in Nat, best' = incumbent',
           PlaceInv', todo' = Mutations("sweep", Dim', incumbent'.cfg)
    PROVE  SweepInv'
<1> DEFINE vs == Candidates(Dim', incumbent'.cfg)
<1>1. Values' = vs
  BY CandidatesSame DEF Values
<1>2. setting.cores.logical >= 1
  <2>1. incumbent'.cfg.threads \in 1..setting.cores.logical
    BY DEF ConfigOK, Valid, ValidFor
  <2>2. QED
    BY <2>1, SettingFacts
<1>3. IsSeq(vs)
  BY <1>2, CandidatesAreSeq
<1>4. todo' = Proposed(Dim', vs)
  BY DEF Mutations
<1> HIDE DEF vs
<1>5. PICK d : d = Dim'
  OBVIOUS
<1>6. /\ Len(todo') = Len(vs) /\ DOMAIN todo' = DOMAIN vs /\ Len(vs) \in Nat
      /\ \A i \in DOMAIN vs : /\ DOMAIN todo'[i].set = {d} /\ todo'[i].set[d] = vs[i]
                              /\ todo'[i].shift = 0
  BY <1>3, <1>4, <1>5, ProposedFacts, SeqFacts
<1>7. Gone' = 0
  BY <1>1, <1>6 DEF Gone
<1>8. DOMAIN vs = 1..Len(vs)
  BY <1>3, SeqFacts
<1>9. \A i \in DOMAIN todo' : /\ todo'[i].shift = 0 /\ DOMAIN todo'[i].set = {Dim'}
                              /\ todo'[i].set[Dim'] = Values'[Gone' + i]
  BY <1>1, <1>5, <1>6, <1>7, <1>8
<1>10. QED
  BY <1>7, <1>9 DEF SweepInv

(* Hearing about a candidate leaves the sweep where it is.                 *)
LEMMA SweepKept ==
    ASSUME SearchInv, SweepInv, JournalGrows,
           UNCHANGED <<setting, pc, at, incumbent, todo, best>>
    PROVE  SweepInv'
<1>1. CASE pc # "sweep"
  BY <1>1 DEF SweepInv
<1>2. CASE pc = "sweep"
  <2>1. Values' = Values /\ Dim' = Dim /\ Gone' = Gone
    BY CandidatesSame DEF Values, Dim, Gone
  <2>2. \A d, cfg : HeardOf(d, cfg) => HeardOf(d, cfg)'
    BY HeardGrows DEF SearchInv, ScoredOK
  <2>3. \A d, v : Change(d, v)' = Change(d, v)
    BY DEF Change
  <2>4. \A i \in 1..Gone : HeardOf(Dim, Change(Dim, Values[i]))'
    <3> SUFFICES ASSUME NEW i \in 1..Gone
                 PROVE  HeardOf(Dim, Change(Dim, Values[i]))'
      OBVIOUS
    <3>1. PICK cfg : cfg = Change(Dim, Values[i])
      OBVIOUS
    <3>2. PICK d : d = Dim
      OBVIOUS
    <3>3. HeardOf(d, cfg)
      BY <1>2, <3>1, <3>2 DEF SweepInv
    <3>4. HeardOf(d, cfg)' /\ d = Dim' /\ cfg = Change(Dim, Values[i])'
      BY <2>1, <2>2, <2>3, <3>1, <3>2, <3>3
    <3>5. QED
      BY <3>4
  <2>5. QED
    BY <1>2, <2>1, <2>4 DEF SweepInv
<1>3. QED
  BY <1>1, <1>2

(* A sweep is done with a candidate.                                       *)
LEMMA SweepTail ==
    ASSUME SearchInv, SweepInv, JournalGrows, todo # <<>>,
           UNCHANGED <<setting, pc, at, incumbent>>, todo' = Tail(todo),
           best'.score \in Nat, best'.score >= best.score,
           NEW told, told = Candidate, NEW dim, dim = Dim,
           pc = "sweep" => HeardOf(dim, told)'
    PROVE  SweepInv'
<1>1. CASE pc # "sweep"
  BY <1>1 DEF SweepInv
<1>2. CASE pc = "sweep"
  <2>1. Values' = Values /\ Dim' = Dim
    BY CandidatesSame DEF Values, Dim
  <2>2. \A d, cfg : HeardOf(d, cfg) => HeardOf(d, cfg)'
    BY HeardGrows DEF SearchInv, ScoredOK
  <2>3. \A d, v : Change(d, v)' = Change(d, v)
    BY DEF Change
  <2>4. /\ Gone + 1 \in 1..Len(Values) /\ Candidate = Change(Dim, Values[Gone + 1])
        /\ Gone \in Nat /\ Len(Values) = Gone + Len(todo) /\ Len(todo) \in Nat
    BY <1>2, SweptCandidate
  <2>5. /\ Len(todo') = Len(todo) - 1 /\ DOMAIN todo = 1..Len(todo) /\ DOMAIN todo' = 1..Len(todo')
        /\ \A i \in 1..(Len(todo) - 1) : todo'[i] = todo[i + 1]
    BY SeqFacts DEF SearchInv, TodoInv
  <2>6. Gone' = Gone + 1
    BY <2>1, <2>4, <2>5 DEF Gone
  <2>7. \A i \in DOMAIN todo' : /\ todo'[i].shift = 0 /\ DOMAIN todo'[i].set = {Dim}
                                /\ todo'[i].set[Dim] = Values[Gone + 1 + i]
    <3> SUFFICES ASSUME NEW i \in 1..(Len(todo) - 1)
                 PROVE  /\ todo'[i].shift = 0 /\ DOMAIN todo'[i].set = {Dim}
                        /\ todo'[i].set[Dim] = Values[Gone + 1 + i]
      BY <2>5
    <3>1. i + 1 \in DOMAIN todo /\ Gone + (i + 1) = Gone + 1 + i
      BY <2>4, <2>5
    <3>2. /\ todo[i + 1].shift = 0 /\ DOMAIN todo[i + 1].set = {Dim}
          /\ todo[i + 1].set[Dim] = Values[Gone + (i + 1)]
      BY <1>2, <3>1 DEF SweepInv
    <3>3. QED
      BY <2>5, <3>1, <3>2
  <2>8. \A i \in 1..(Gone + 1) : HeardOf(Dim, Change(Dim, Values[i]))'
    <3> SUFFICES ASSUME NEW i \in 1..(Gone + 1)
                 PROVE  HeardOf(Dim, Change(Dim, Values[i]))'
      OBVIOUS
    <3>1. PICK cfg : cfg = Change(Dim, Values[i])
      OBVIOUS
    <3>2. PICK d : d = Dim
      OBVIOUS
    <3>3. d = Dim' /\ cfg = Change(Dim, Values[i])'
      BY <2>1, <2>3, <3>1, <3>2
    <3>4. HeardOf(d, cfg)'
      <4>1. CASE i = Gone + 1
        <5>1. cfg = told /\ d = dim
          BY <2>4, <3>1, <3>2, <4>1
        <5>2. QED
          BY <1>2, <5>1
      <4>2. CASE i \in 1..Gone
        <5>1. HeardOf(d, cfg)
          BY <1>2, <3>1, <3>2, <4>2 DEF SweepInv
        <5>2. QED
          BY <2>2, <5>1
      <4>3. QED
        BY <2>4, <4>1, <4>2
    <3>5. QED
      BY <3>3, <3>4
  <2>9. best'.score >= incumbent'.score
    BY <1>2 DEF SweepInv, SearchInv, ScoredOK
  <2>10. QED
    BY <1>2, <2>1, <2>4, <2>6, <2>7, <2>8, <2>9 DEF SweepInv
<1>3. QED
  BY <1>1, <1>2

(* A pass goes on at the incumbent it is at.                               *)
LEMMA PassKept ==
    ASSUME PassInv, JournalGrows, UNCHANGED <<setting, pc, at, incumbent>>, InPass' => InPass
    PROVE  PassInv'
<1>1. \A d : Explored(d) => Explored(d)'
  BY ExploredGrows
<1>2. Behind' = Behind /\ (Converged' <=> Converged)
  BY DEF Behind, Converged
<1>3. QED
  BY <1>1, <1>2 DEF PassInv

(* Nothing is said of the other stages.                                    *)
LEMMA LocalElsewhere ==
    ASSUME pc' \notin {"sweep", "thread"}, pc' = "pairwise" => tried' # 0 \/ heard' # None
    PROVE  LocalInv'
BY DEF LocalInv, SweepInv, CheckedInv, PassInv, InPass

(* What a sweep passes over needs no measurement.                          *)
LEMMA SkipLocal ==
    ASSUME SearchInv, LocalInv, Skip
    PROVE  LocalInv'
<1>1. /\ todo # <<>> /\ heard = None /\ todo' = Tail(todo) /\ Skipped(Candidate)
      /\ UNCHANGED <<setting, trials, probes, pc, at, tried, heard, best, incumbent>>
  BY DEF Skip, Trying, journal
<1>2. JournalGrows
  BY <1>1 DEF JournalGrows
<1>3. SweepInv'
  <2>1. PICK told, dim : told = Candidate /\ dim = Dim
    OBVIOUS
  <2>2. Skipped(told)
    BY <1>1, <2>1
  <2>3. pc = "sweep" => HeardOf(dim, told)'
    BY <1>1, <2>2 DEF HeardOf, Skipped, SkipsKnown, Valid
  <2>4. best'.score \in Nat /\ best'.score >= best.score
    BY <1>1 DEF SearchInv, ScoredOK
  <2>5. QED
    BY <1>1, <1>2, <2>1, <2>3, <2>4, SweepTail DEF LocalInv
<1>4. PassInv'
  BY <1>1, <1>2, PassKept DEF LocalInv, InPass
<1>5. QED
  BY <1>1, <1>3, <1>4 DEF LocalInv, CheckedInv

(* What an OOM rules out of a sweep has an outcome too.                    *)
LEMMA PruneLocal ==
    ASSUME SearchInv, LocalInv, PruneCandidate, JournalGrows
    PROVE  LocalInv'
<1>1. /\ todo # <<>> /\ heard = None /\ todo' = Tail(todo) /\ pc = "sweep"
      /\ trials' = With(trials, Candidate, Outcome("pruned", 0))
      /\ UNCHANGED <<setting, probes, pc, at, tried, heard, best, incumbent>>
  BY DEF PruneCandidate, Trying
<1>2. SweepInv'
  <2>1. PICK told, dim : told = Candidate /\ dim = Dim
    OBVIOUS
  <2>2. trials' = With(trials, told, Outcome("pruned", 0))
    BY <1>1, <2>1
  <2>3. told \in DOMAIN trials' /\ trials'[told] = Outcome("pruned", 0)
    BY <2>2 DEF With
  <2>4. trials'[told].score = 0
    BY <2>3 DEF Outcome
  <2>5. best'.score \in Nat /\ best'.score >= best.score
    BY <1>1 DEF SearchInv, ScoredOK
  <2>6. HeardOf(dim, told)'
    BY <2>3, <2>4, <2>5 DEF HeardOf, Measured
  <2>7. QED
    BY <1>1, <2>1, <2>5, <2>6, SweepTail DEF LocalInv
<1>3. PassInv'
  BY <1>1, PassKept DEF LocalInv, InPass
<1>4. QED
  BY <1>1, <1>2, <1>3 DEF LocalInv, CheckedInv

(* A measurement is heard before it is judged.                             *)
LEMMA HearLocal ==
    ASSUME SearchInv, LocalInv, RecallTrial \/ RunTrial, JournalGrows
    PROVE  LocalInv'
<1>1. /\ heard = None /\ heard'.allowed
      /\ UNCHANGED <<setting, pc, at, todo, tried, best, incumbent>>
  BY DEF RecallTrial, RunTrial, MayRun, Trying, Judging
<1>2. SweepInv'
  BY <1>1, SweepKept DEF LocalInv
<1>3. PassInv'
  BY <1>1, PassKept DEF LocalInv, InPass
<1>4. QED
  BY <1>1, <1>2, <1>3 DEF LocalInv, CheckedInv

(* What a check refuses is not better, or failed the probe it needed.      *)
LEMMA CheckLocal ==
    ASSUME SearchInv, LocalInv, JournalGrows,
           PairCheck \/ RefusePair \/ RecallProbe \/ PruneProbe \/ RunProbe
    PROVE  LocalInv'
<1>1. /\ heard # None /\ (NeedsPair(heard) \/ NeedsProbe(heard))
      /\ UNCHANGED <<setting, pc, at, todo, tried, best, incumbent>>
  BY DEF PairCheck, RefusePair, RecallProbe, PruneProbe, RunProbe
<1>2. SweepInv'
  BY <1>1, SweepKept DEF LocalInv
<1>3. PassInv'
  <2>1. InPass' => InPass
    BY <1>1 DEF InPass, NeedsPair, NeedsProbe
  <2>2. QED
    BY <1>1, <2>1, PassKept DEF LocalInv
<1>4. CheckedInv'
  <2> SUFFICES ASSUME pc = "sweep", ~heard'.allowed
               PROVE  (Dim = "mmap" \/ Spoiled(Dim, heard.cfg))'
    BY <1>1 DEF CheckedInv
  <2>1. DOMAIN heard = {"cfg", "score", "ok", "checked", "allowed"}
    BY <1>1 DEF SearchInv, HeardInv
  <2>2. CASE PairCheck \/ RefusePair
    <3>1. Dim = "mmap"
      BY <2>2 DEF PairCheck, RefusePair, NeedsPair
    <3>2. QED
      BY <1>1, <3>1 DEF Dim
  <2>3. CASE RecallProbe \/ PruneProbe \/ RunProbe
    <3>1. Dim \in ProbedDims
      BY <2>3 DEF RecallProbe, PruneProbe, RunProbe, NeedsProbe
    <3>2. PICK key : key = ProbeKey
      OBVIOUS
    <3>3. PICK status : /\ heard' = [heard EXCEPT !.checked = TRUE, !.allowed = (status = "ok")]
                        /\ key \in DOMAIN probes' /\ probes'[key] = status
      <4>1. CASE RecallProbe
        BY <3>2, <4>1 DEF RecallProbe, Checked, journal
      <4>2. CASE PruneProbe
        <5>1. probes' = With(probes, key, "pruned") /\ Checked("pruned")
          BY <3>2, <4>2 DEF PruneProbe
        <5>2. QED
          BY <5>1 DEF With, Checked
      <4>3. CASE RunProbe
        <5>1. PICK status : probes' = With(probes, key, status) /\ Checked(status)
          BY <3>2, <4>3 DEF RunProbe, Probe, ProbeKey
        <5>2. QED
          BY <5>1 DEF With, Checked
      <4>4. QED
        BY <2>3, <4>1, <4>2, <4>3
    <3>4. heard'.allowed = (status = "ok") /\ heard'.cfg = heard.cfg
      BY <2>1, <3>3
    <3>5. key = <<heard'.cfg, setting'.ctx>>
      BY <1>1, <3>2, <3>4 DEF ProbeKey
    <3>6. status # "ok"
      BY <3>4
    <3>7. QED
      BY <1>1, <3>1, <3>3, <3>5, <3>6 DEF Spoiled, Dim
  <2>4. QED
    BY <2>2, <2>3
<1>5. QED
  BY <1>2, <1>3, <1>4 DEF LocalInv

(* A verdict raises the best of the sweep, or the candidate is not better. *)
LEMMA JudgeLocal ==
    ASSUME SearchInv, LocalInv, Judge
    PROVE  LocalInv'
<1>1. /\ pc \in SearchStages /\ heard # None /\ heard' = None
      /\ UNCHANGED <<setting, pc, trials, probes, at>>
  BY DEF Judge, journal
<1>2. /\ todo # <<>> /\ heard.cfg = Candidate /\ Measured(heard.cfg)
      /\ heard.score = trials[heard.cfg].score /\ heard.ok = (trials[heard.cfg].status = "ok")
      /\ TrialOK(trials[heard.cfg])
  BY <1>1 DEF SearchInv, HeardInv, JournalInv, Measured
<1>3. JournalGrows /\ CheckedInv'
  BY <1>1 DEF JournalGrows, CheckedInv
<1>4. best.score \in Nat /\ incumbent.score \in Nat /\ heard.score \in Nat
  BY <1>2 DEF SearchInv, ScoredOK, TrialOK
<1>5. CASE pc = "sweep"
  <2>1. UNCHANGED incumbent /\ todo' = Tail(todo)
    BY <1>5 DEF Judge
  <2>2. PICK told, dim : told = Candidate /\ dim = Dim
    OBVIOUS
  <2>3. /\ told \in DOMAIN trials' /\ trials'[told].score = heard.score
        /\ Spoiled(dim, told) => Spoiled(dim, told)'
    BY <1>1, <1>2, <2>2 DEF Measured, Spoiled
  <2>4. CASE heard.ok /\ heard.allowed /\ heard.score > best.score
    <3>1. best'.score = heard.score
      BY <1>5, <2>4 DEF Judge, Improves
    <3>2. HeardOf(dim, told)'
      BY <1>4, <2>3, <3>1 DEF HeardOf, Measured
    <3>3. QED
      BY <1>1, <1>2, <1>3, <1>4, <1>5, <2>1, <2>2, <2>4, <3>1, <3>2, SweepTail, PassKept
         DEF LocalInv, InPass
  <2>5. CASE ~(heard.ok /\ heard.allowed /\ heard.score > best.score)
    <3>1. best' = best
      BY <1>5, <2>5 DEF Judge, Improves
    <3>2. \/ heard.score <= best.score
          \/ dim = "mmap" \/ Spoiled(dim, told)
      <4>1. ~heard.ok => heard.score = 0
        BY <1>2 DEF TrialOK
      <4>2. ~heard.allowed => dim = "mmap" \/ Spoiled(dim, told)
        BY <1>1, <1>2, <1>5, <2>2 DEF LocalInv, CheckedInv
      <4>3. QED
        BY <1>4, <2>5, <4>1, <4>2
    <3>3. HeardOf(dim, told)'
      BY <2>3, <3>1, <3>2 DEF HeardOf, Measured
    <3>4. best'.score \in Nat /\ best'.score >= best.score
      BY <1>4, <3>1
    <3>5. QED
      BY <1>1, <1>2, <1>3, <1>5, <2>1, <2>2, <3>3, <3>4, SweepTail, PassKept
         DEF LocalInv, InPass
  <2>6. QED
    BY <2>4, <2>5
<1>6. CASE pc = "thread"
  <2>1. CASE UNCHANGED incumbent
    BY <1>1, <1>3, <1>6, <2>1, PassKept DEF LocalInv, InPass, SweepInv
  <2>2. CASE ~UNCHANGED incumbent
    <3>1. incumbent'.score = heard.score /\ Beats(heard.score, incumbent.score)
      BY <1>6, <2>2 DEF Judge, Promote, Improves
    <3>2. at.gauge \in Nat /\ at.gauge <= incumbent.score
      <4>1. InPass
        BY <1>6 DEF InPass
      <4>2. QED
        <5>1. at.gauge <= incumbent.score
          BY <4>1 DEF LocalInv, PassInv
        <5>2. QED
          BY <5>1 DEF SearchInv, PlaceInv
    <3>3. ~(heard.score * 100 < at.gauge * (100 + Noise)) /\ at.gauge <= heard.score
      BY <1>4, <3>1, <3>2, GainFacts
    <3>4. ~Converged' /\ at'.gauge <= incumbent'.score
      BY <1>1, <3>1, <3>3 DEF Converged
    <3>5. QED
      BY <1>1, <1>3, <1>6, <3>4 DEF LocalInv, PassInv, SweepInv
  <2>3. QED
    BY <2>1, <2>2
<1>7. CASE pc = "pairwise"
  <2>1. tried' = tried + 1 /\ tried \in Nat
    BY <1>7 DEF Judge, SearchInv, PlaceInv
  <2>2. tried' # 0
    BY <2>1
  <2>3. QED
    BY <1>1, <1>7, <2>2, LocalElsewhere
<1>8. CASE pc \notin {"sweep", "thread", "pairwise"}
  BY <1>1, <1>8, LocalElsewhere
<1>9. QED
  BY <1>5, <1>6, <1>7, <1>8

(* Nothing is better than itself.                                          *)
LEMMA NoGain ==
    ASSUME NEW score \in Nat
    PROVE  ~Beats(score, score)
<1>1. PICK n \in Nat : n = Noise /\ score * (100 + n) = score * 100 + score * n
  BY BoundsAssumption
<1>2. score * n \in Nat
  OBVIOUS
<1>3. QED
  BY <1>1, <1>2 DEF Beats

(* A sweep that promotes nothing has explored its dimension.               *)
LEMMA SweptAll ==
    ASSUME SearchInv, SweepInv, pc = "sweep", todo = <<>>, ~Beats(best.score, incumbent.score)
    PROVE  Explored(Dim)
<1>1. best.score \in Nat /\ incumbent.score \in Nat /\ setting \in Settings
      /\ incumbent.cfg.threads \in 1..setting.cores.logical
  BY DEF SearchInv, ScoredOK, ConfigOK, Valid, ValidFor
<1>2. setting.cores.logical >= 1
  BY <1>1, SettingFacts
<1>3. IsSeq(Values) /\ DOMAIN Values = 1..Len(Values) /\ Len(Values) \in Nat
  <2>1. IsSeq(Values)
    BY <1>1, <1>2, CandidatesAreSeq DEF Values
  <2>2. QED
    BY <2>1, SeqFacts
<1>4. Gone = Len(Values)
  BY <1>3, SeqFacts DEF Gone, SearchInv, TodoInv
<1>5. \A i \in 1..Len(Values) : HeardOf(Dim, Change(Dim, Values[i]))
  BY <1>4 DEF SweepInv
<1> SUFFICES ASSUME NEW v \in Range(Candidates(Dim, incumbent.cfg))
             PROVE  Fair(Dim, Change(Dim, v))
  BY DEF Explored
<1>6. PICK i \in 1..Len(Values) : v = Values[i]
  BY <1>3 DEF Values, Range
<1>7. PICK cfg : cfg = Change(Dim, v)
  OBVIOUS
<1>8. HeardOf(Dim, cfg)
  BY <1>5, <1>6, <1>7
<1>9. SUFFICES ASSUME Valid(cfg) /\ cfg # incumbent.cfg
               PROVE  /\ Measured(cfg)
                      /\ Beats(trials[cfg].score, incumbent.score) /\ Dim # "mmap" => Spoiled(Dim, cfg)
  BY <1>7 DEF Fair
<1>10. Measured(cfg) /\ (trials[cfg].score <= best.score \/ Dim = "mmap" \/ Spoiled(Dim, cfg))
  BY <1>8, <1>9 DEF HeardOf
<1>11. trials[cfg].score \in Nat
  BY <1>10 DEF SearchInv, JournalInv, TrialOK, Measured
<1>12. trials[cfg].score <= best.score => ~Beats(trials[cfg].score, incumbent.score)
  <2>1. best.score >= incumbent.score
    BY DEF SweepInv
  <2>2. incumbent.score <= incumbent.score
    BY <1>1
  <2>3. \A less \in Nat : less <= best.score /\ ~Beats(best.score, incumbent.score)
                            => ~Beats(less, incumbent.score)
    BY <1>1, <2>2, GainFacts
  <2>4. QED
    BY <1>11, <2>3
<1>13. QED
  BY <1>10, <1>12

(* A stage of the pass begins.                                             *)
LEMMA PassGoesOn ==
    ASSUME PlaceInv', heard' = None, tried' = 0,
           pc' \in {"sweep", "thread", "pairwise"},
           pc' = "sweep" => SweepInv',
           at'.gauge <= incumbent'.score,
           Converged' => \A i \in 1..Behind' : Explored(Dimensions[i])'
    PROVE  LocalInv'
BY DEF LocalInv, SweepInv, CheckedInv, PassInv

(* A pass with a dimension behind it goes to the next, to another pass, or *)
(* to the pairs.                                                           *)
LEMMA NextDimensionLocal ==
    ASSUME SearchInv, SearchInv', UNCHANGED setting, heard' = None, incumbent'.score \in Nat,
           ConfigOK(incumbent'.cfg), NextDimension,
           at.gauge <= incumbent'.score,
           incumbent'.score * 100 < at.gauge * (100 + Noise) =>
               \A i \in 1..at.dim : Explored(Dimensions[i])'
    PROVE  LocalInv'
<1>1. at.dim \in 1..9 /\ at.pass \in 1..3 /\ Len(Dimensions) = 9 /\ setting \in Settings
  BY DEF SearchInv, PlaceInv, Dimensions, MaxPasses
<1>2. PlaceInv' /\ incumbent'.score <= incumbent'.score
  BY DEF SearchInv
<1>3. ASSUME NEW pass, NEW dim, NEW gauge, Enter("sweep", pass, dim, gauge)
      PROVE  SweepInv' /\ pc' = "sweep" /\ tried' = 0 /\ at'.gauge = gauge /\ at'.dim = dim
  <2>1. /\ pc' = "sweep" /\ tried' = 0 /\ at'.gauge = gauge /\ at'.dim = dim
        /\ best' = incumbent' /\ todo' = Mutations("sweep", Dimensions[dim], incumbent'.cfg)
    BY <1>3 DEF Enter
  <2>2. todo' = Mutations("sweep", Dim', incumbent'.cfg)
    BY <2>1 DEF Dim
  <2>3. QED
    BY <1>1, <1>2, <2>1, <2>2, SweepBegins
<1>4. CASE at.dim < 9
  <2>1. Enter("sweep", at.pass, at.dim + 1, at.gauge)
    BY <1>1, <1>4 DEF NextDimension, PassGauge
  <2>2. SweepInv' /\ pc' = "sweep" /\ tried' = 0 /\ at'.gauge = at.gauge /\ at'.dim = at.dim + 1
    BY <1>3, <2>1
  <2>3. Behind' = at.dim
    BY <1>1, <2>2 DEF Behind
  <2>4. Converged' => \A i \in 1..Behind' : Explored(Dimensions[i])'
    BY <2>2, <2>3 DEF Converged
  <2>5. QED
    BY <1>2, <2>2, <2>4, PassGoesOn
<1>5. CASE ~(at.dim < 9) /\ Refine
  <2>1. pc' = "pairwise" /\ tried' = 0 /\ at'.gauge = at.gauge
    BY <1>5 DEF Refine, Enter
  <2>2. at.dim = 9 /\ Behind' = 9
    BY <1>1, <1>5, <2>1 DEF Behind
  <2>3. Converged' => \A i \in 1..Behind' : Explored(Dimensions[i])'
    BY <2>1, <2>2 DEF Converged
  <2>4. QED
    BY <1>2, <2>1, <2>3, PassGoesOn
<1>6. CASE ~(at.dim < 9) /\ ~Refine
  <2>1. Enter("sweep", at.pass + 1, 1, incumbent'.score)
    BY <1>1, <1>6 DEF NextDimension
  <2>2. SweepInv' /\ pc' = "sweep" /\ tried' = 0 /\ at'.gauge = incumbent'.score /\ at'.dim = 1
    BY <1>3, <2>1
  <2>3. Behind' = 0
    BY <2>2 DEF Behind
  <2>4. QED
    BY <1>2, <2>2, <2>3, PassGoesOn
<1>7. QED
  BY <1>4, <1>5, <1>6

(* A stage that has tried everything.                                      *)
LEMMA NextStageLocal ==
    ASSUME SearchInv, SearchInv', LocalInv, NextStage
    PROVE  LocalInv'
<1>1. /\ pc \in SearchStages /\ heard = None /\ heard' = None /\ todo = <<>>
      /\ UNCHANGED <<setting, trials, probes>> /\ AfterStage
  BY DEF NextStage, journal
<1>2. /\ ConfigOK(incumbent'.cfg) /\ incumbent'.score \in Nat /\ incumbent.score \in Nat
      /\ best.score \in Nat /\ setting \in Settings /\ PlaceInv' /\ at.gauge \in Nat
      /\ at.dim \in 1..9
  <2>1. ScoredOK(incumbent)' /\ PlaceInv'
    BY DEF SearchInv
  <2>2. ConfigOK(incumbent'.cfg) /\ incumbent'.score \in Nat
    BY <1>1, <2>1 DEF ScoredOK, ConfigOK, Valid
  <2>3. QED
    BY <2>1, <2>2 DEF SearchInv, ScoredOK, PlaceInv, Dimensions
<1>3. JournalGrows
  BY <1>1 DEF JournalGrows
<1>4. CASE pc = "split"
  <2>1. Enter("sweep", 1, 1, incumbent'.score)
    BY <1>1, <1>4 DEF AfterStage
  <2>2. /\ pc' = "sweep" /\ tried' = 0 /\ at'.gauge = incumbent'.score /\ at'.dim = 1
        /\ best' = incumbent' /\ todo' = Mutations("sweep", Dimensions[1], incumbent'.cfg)
    BY <2>1 DEF Enter
  <2>3. todo' = Mutations("sweep", Dim', incumbent'.cfg)
    BY <2>2 DEF Dim
  <2>4. SweepInv'
    BY <1>1, <1>2, <2>2, <2>3, SweepBegins
  <2>5. Behind' = 0 /\ incumbent'.score <= incumbent'.score
    BY <1>2, <2>2 DEF Behind
  <2>6. QED
    BY <1>1, <1>2, <2>2, <2>4, <2>5, PassGoesOn
<1>5. CASE pc = "sweep" \/ pc = "thread"
  <2>1. /\ at.gauge <= incumbent.score
        /\ Converged => \A i \in 1..Behind : Explored(Dimensions[i])
    <3>1. InPass
      BY <1>5 DEF InPass
    <3>2. QED
      BY <3>1 DEF LocalInv, PassInv
  <2>2. /\ at.gauge <= incumbent'.score
        /\ incumbent'.score * 100 < at.gauge * (100 + Noise) =>
              \A i \in 1..at.dim : Explored(Dimensions[i])'
    <3>1. CASE UNCHANGED incumbent
      <4>1. \A d : Explored(d) => Explored(d)'
        BY <1>1, <1>3, <3>1, ExploredGrows
      <4>2. Converged => \A i \in 1..at.dim : Explored(Dimensions[i])
        <5>1. CASE pc = "thread"
          BY <2>1, <5>1 DEF Behind
        <5>2. CASE pc = "sweep"
          <6>1. Behind = at.dim - 1
            BY <5>2 DEF Behind
          <6>2. ~Beats(best.score, incumbent.score) => Explored(Dimensions[at.dim])
            BY <1>1, <5>2, SweptAll DEF LocalInv, Dim
          <6>3. ~Beats(best.score, incumbent.score)
            <7>1. SUFFICES ASSUME Beats(best.score, incumbent.score)
                           PROVE  FALSE
              OBVIOUS
            <7>2. incumbent'.score = best.score
              BY <5>2, <7>1 DEF NextStage, Promote
            <7>3. ~Beats(incumbent.score, incumbent.score)
              BY <1>2, NoGain
            <7>4. QED
              BY <3>1, <7>1, <7>2, <7>3
          <6>4. QED
            BY <1>2, <2>1, <6>1, <6>2, <6>3
        <5>3. QED
          BY <1>5, <5>1, <5>2
      <4>3. QED
        BY <2>1, <3>1, <4>1, <4>2 DEF Converged
    <3>2. CASE ~UNCHANGED incumbent
      <4>1. incumbent'.score = best.score /\ Beats(best.score, incumbent.score)
        BY <3>2 DEF NextStage, Promote
      <4>2. ~(best.score * 100 < at.gauge * (100 + Noise)) /\ at.gauge <= best.score
        BY <1>2, <2>1, <4>1, GainFacts
      <4>3. QED
        BY <4>1, <4>2
    <3>3. QED
      BY <3>1, <3>2
  <2>3. CASE NextDimension
    BY <1>1, <1>2, <2>2, <2>3, NextDimensionLocal
  <2>4. CASE ~NextDimension
    <3>1. pc = "sweep" /\ Enter("thread", at.pass, at.dim, at.gauge)
      BY <1>1, <1>5, <2>4 DEF AfterStage
    <3>2. pc' = "thread" /\ tried' = 0 /\ at'.gauge = at.gauge /\ at'.dim = at.dim
      BY <3>1 DEF Enter
    <3>3. Behind' = at.dim
      BY <3>2 DEF Behind
    <3>4. Converged' => \A i \in 1..Behind' : Explored(Dimensions[i])'
      BY <2>2, <3>2, <3>3 DEF Converged
    <3>5. QED
      BY <1>1, <1>2, <2>2, <3>2, <3>4, PassGoesOn
  <2>5. QED
    BY <2>3, <2>4
<1>6. CASE pc \notin {"split", "sweep", "thread"}
  <2>1. pc' \in {"cross", "joint", "searched", "climb", "ot"}
    BY <1>1, <1>6 DEF AfterStage, AfterPairs, Enter, Leave, BeginClimb, SearchStages
  <2>2. QED
    BY <2>1, LocalElsewhere
<1>7. QED
  BY <1>4, <1>5, <1>6

(* The search begins at the first dimension, or at the placements.         *)
LEMMA BeginLocal ==
    ASSUME SearchInv, SearchInv', Begin
    PROVE  LocalInv'
<1>1. /\ UNCHANGED <<setting, incumbent, heard>> /\ setting \in Settings
      /\ \/ Enter("split", 1, 1, incumbent'.score)
         \/ Enter("sweep", 1, 1, incumbent'.score)
  BY DEF Begin, BeginSearch, SearchInv
<1>2. CASE Enter("split", 1, 1, incumbent'.score)
  BY <1>2, LocalElsewhere DEF Enter
<1>3. CASE Enter("sweep", 1, 1, incumbent'.score)
  <2>1. heard = None
    <3>1. pc = "discovered"
      BY DEF Begin
    <3>2. QED
      BY <3>1 DEF SearchInv, HeardInv, SearchStages
  <2>2. /\ pc' = "sweep" /\ tried' = 0 /\ at'.gauge = incumbent'.score /\ at'.dim = 1
        /\ best' = incumbent' /\ todo' = Mutations("sweep", Dimensions[1], incumbent'.cfg)
    BY <1>3 DEF Enter
  <2>3. todo' = Mutations("sweep", Dim', incumbent'.cfg)
    BY <2>2 DEF Dim
  <2>4. PlaceInv' /\ ConfigOK(incumbent'.cfg) /\ incumbent'.score \in Nat
    BY <1>1 DEF SearchInv, ScoredOK
  <2>5. SweepInv'
    BY <1>1, <2>2, <2>3, <2>4, SweepBegins
  <2>6. Behind' = 0 /\ incumbent'.score <= incumbent'.score
    BY <2>2, <2>4 DEF Behind
  <2>7. QED
    BY <1>1, <2>1, <2>2, <2>4, <2>5, <2>6, PassGoesOn
<1>4. QED
  BY <1>1, <1>2, <1>3

(* A stage that may not go on, and the end of a search without budget.     *)
LEMMA GiveUpLocal ==
    ASSUME SearchInv, LocalInv, GiveUpStage \/ Exhaust
    PROVE  LocalInv'
<1>1. CASE Exhaust
  BY <1>1, LocalElsewhere DEF Exhaust, Leave
<1>2. CASE GiveUpStage /\ pc = "pairwise"
  <2>1. pc' \in {"joint", "searched"}
    BY <1>2 DEF GiveUpStage, AfterPairs, Enter, Leave
  <2>2. QED
    BY <2>1, LocalElsewhere
<1>3. CASE GiveUpStage /\ pc # "pairwise"
  <2>1. /\ pc \in AskingStages /\ pc \notin {"sweep", "pairwise"}
        /\ UNCHANGED <<setting, trials, probes, pc, at, tried, heard, incumbent>>
    BY <1>3 DEF GiveUpStage, AskingStages, journal
  <2>2. JournalGrows
    BY <2>1 DEF JournalGrows
  <2>3. PassInv'
    BY <2>1, <2>2, PassKept DEF LocalInv, InPass
  <2>4. QED
    BY <2>1, <2>3 DEF LocalInv, SweepInv, CheckedInv
<1>4. QED
  BY <1>1, <1>2, <1>3

(* The neighbourhood is kept by every step of the search.                  *)
LEMMA SearchLocal ==
    ASSUME SearchInv, SearchInv', LocalInv, Begin \/ SearchStep
    PROVE  LocalInv'
<1>1. JournalGrows
  BY SearchGrows
<1>2. QED
  BY <1>1, SkipLocal, PruneLocal, HearLocal, CheckLocal, JudgeLocal, NextStageLocal, BeginLocal,
     GiveUpLocal DEF SearchStep

(* And by everything else.                                                 *)
LEMMA LocalKept ==
    ASSUME SessionInv, LocalInv, [Next]_vars
    PROVE  LocalInv'
<1>1. SearchInv /\ SearchInv'
  BY SessionKept DEF SessionInv
<1>2. CASE Begin \/ SearchStep
  BY <1>1, <1>2, SearchLocal
<1>3. CASE FinalStep
  <2>1. pc' \in FinalStages \cup {"ended"}
    BY <1>3, FinalFrame
  <2>2. QED
    BY <2>1, LocalElsewhere DEF FinalStages
<1>4. CASE Crash \/ Resume \/ Revalidate
  <2>1. pc' \notin SearchStages
    BY <1>4 DEF Crash, Resume, SearchRestart, Revalidate, SearchStages, stage
  <2>2. QED
    BY <2>1, LocalElsewhere DEF SearchStages
<1>5. CASE Interrupt \/ Expire \/ UNCHANGED vars
  <2>1. UNCHANGED <<setting, trials, probes, stage, incumbent>>
    BY <1>5 DEF Interrupt, Expire, vars, searchVars, journal
  <2>2. JournalGrows
    BY <2>1 DEF JournalGrows
  <2>3. UNCHANGED <<setting, pc, at, todo, tried, heard, best, incumbent>>
    BY <2>1 DEF stage
  <2>4. SweepInv'
    BY <1>1, <2>2, <2>3, SweepKept DEF LocalInv
  <2>5. PassInv'
    BY <2>2, <2>3, PassKept DEF LocalInv, InPass
  <2>6. CheckedInv'
    BY <2>1, <2>3 DEF LocalInv, CheckedInv, Spoiled, Dim
  <2>7. QED
    BY <2>4, <2>5, <2>6 DEF LocalInv
<1>6. QED
  BY <1>2, <1>3, <1>4, <1>5 DEF Next, Step, Finished

(***************************************************************************)
(* Passes that end for lack of gain end at a local optimum: the invariant  *)
(* that says so of a pass still under way, of a sweep, and of the          *)
(* candidate a sweep has just heard of.                                    *)
(***************************************************************************)
THEOREM ConvergedHolds == Spec => []ConvergedIsLocal
<1>1. Init => LocalInv
  BY DEF Init, SearchInit, LocalInv, SweepInv, CheckedInv, PassInv, InPass
<1>2. SessionInv /\ LocalInv /\ [Next]_vars => LocalInv'
  BY LocalKept
<1>3. LocalInv => ConvergedIsLocal
  <2> SUFFICES ASSUME LocalInv, pc = "pairwise" /\ tried = 0 /\ heard = None /\ Converged,
                      NEW i \in DOMAIN Dimensions,
                      NEW v \in Range(Candidates(Dimensions[i], incumbent.cfg))
               PROVE  LET cfg == [incumbent.cfg EXCEPT ![Dimensions[i]] = v]
                      IN  Valid(cfg) /\ cfg # incumbent.cfg =>
                            /\ Measured(cfg)
                            /\ Beats(trials[cfg].score, incumbent.score) /\ Dimensions[i] # "mmap" =>
                                  /\ Dimensions[i] \in ProbedDims
                                  /\ <<cfg, setting.ctx>> \in DOMAIN probes
                                  /\ probes[<<cfg, setting.ctx>>] # "ok"
    BY DEF ConvergedIsLocal
  <2>1. i \in 1..9 /\ Behind = 9 /\ InPass
    BY DEF Behind, InPass, Dimensions
  <2>2. Explored(Dimensions[i])
    BY <2>1 DEF LocalInv, PassInv
  <2>3. PICK cfg : cfg = Change(Dimensions[i], v)
    OBVIOUS
  <2>4. Fair(Dimensions[i], cfg)
    BY <2>2, <2>3 DEF Explored
  <2>5. cfg = [incumbent.cfg EXCEPT ![Dimensions[i]] = v]
    BY <2>3 DEF Change
  <2>6. QED
    BY <2>4, <2>5 DEF Fair, Spoiled
<1>4. QED
  BY <1>1, <1>2, <1>3, Inductive, PTL DEF Spec

----------------------------------------------------------------------------
(* The envelope.                                                           *)
\* The stages of the envelope, and what went before.
EnvelopeStages == {"envelope", "lossless", "publish"}
Before == SearchStages \cup {"discovered", "searched", "exhausted", "validate"}

\* Who passed the required context has the probe.
ValidInv ==
    /\ valid => pc \notin Before /\ Passed(incumbent.cfg, setting.ctx)
    /\ rec.confirmed /\ setting.ctx # NoCtx => Passed(rec.cfg, setting.ctx)

\* Why a rung may be skipped: the mark is made when the envelope is done.
Cut == IF pc = "envelope" THEN env.truncated ELSE "envelope_truncated" \in marks

\* What the candidates of row r are placements of.
BaseOf(cfg, envelope, r) ==
    LET before == {q \in 1..(r - 1) : envelope[q].fallback # <<>>}
    IN  IF before = {} THEN cfg
        ELSE Head(envelope[CHOOSE q \in before : \A p \in before : p <= q].fallback)

\* The rungs done are those of the ladder, and true, the configuration's own
\* successes first.
RowsInv ==
    /\ pc \in Live \ EnvelopeStages => rows = <<>>
    /\ pc \in EnvelopeStages =>
          \A r \in DOMAIN rows :
              /\ rows[r].ctx = IF r = 1 THEN setting.ctx ELSE setting.ladder[r - 1]
              /\ RowIsTrue(rec.cfg, rows, r, Cut)
              /\ rows[r].status = "ok" => \A q \in 1..(r - 1) : rows[q].status = "ok"

\* Its candidates that have failed, and those that are left.
Behindhand(order, n) ==
    /\ Len(left) = Len(order) - n
    /\ \A i \in 1..Len(left) : left[i] = order[n + i]
    /\ \A j \in 1..n : Failed(order[j], Rung)

Done(status) == \E r \in DOMAIN rows : rows[r].status = status

\* A rung looked for follows the rungs done.
SearchedInv ==
    env.searching =>
        /\ env.failed /\ ~env.exhausted /\ ~Done("skipped")
        /\ env.status \in {"failed", "pruned"}
        /\ IF env.status = "pruned" THEN Done("failed") ELSE Failed(rec.cfg, Rung)
        /\ LET order == RowCandidates(rec.cfg, rows, Len(rows) + 1)
           IN  \E n \in 0..Len(order) : Behindhand(order, n)

WalkInv ==
    pc = "envelope" =>
        /\ Len(rows) >= 1
        /\ FallbackBase = BaseOf(rec.cfg, rows, Len(rows) + 1)
        /\ \A r \in DOMAIN rows : rows[r].status \in {"ok", "skipped", "failed", "pruned"}
        /\ ~env.failed => ~Done("failed") /\ ~Done("pruned")
        /\ env.failed => Done("failed") \/ (env.searching /\ env.status = "failed")
        /\ Done("skipped") => env.exhausted \/ TotalSpent
        /\ SearchedInv

\* What is said of an envelope.
EnvInv == ValidInv /\ RowsInv /\ WalkInv /\ EnvelopeIsTrue

\* A probe is journaled once, too.
ProbesGrow == \A k \in DOMAIN probes : k \in DOMAIN probes' /\ probes'[k] = probes[k]

(* A non-empty set of indices has a largest one.                           *)
LEMMA LargestOf ==
    ASSUME NEW n \in Nat, NEW S \in SUBSET (1..n), S # {}
    PROVE  \E m \in S : \A p \in S : p <= m
<1> DEFINE T == {n - p : p \in S}
<1>1. T \in SUBSET Nat /\ T # {}
  <2>1. \A p \in S : n - p \in Nat
    OBVIOUS
  <2>2. QED
    BY <2>1
<1>2. PICK k \in T : \A x \in T : k <= x
  BY <1>1, SmallestOf
<1>3. PICK m \in S : k = n - m
  BY <1>2
<1>4. \A p \in S : n - m <= n - p
  BY <1>2, <1>3
<1>5. QED
  BY <1>4

(* The candidates of a row follow from its base.                           *)
LEMMA CandidatesOfBase ==
    \A cfg, envelope, r :
        RowCandidates(cfg, envelope, r) = Without(EnvelopeCandidates(BaseOf(cfg, envelope, r)), cfg)
BY DEF RowCandidates, BaseOf

(* A row does not change what precedes it, and its fallback is the base of *)
(* the next one.                                                           *)
LEMMA BaseAppended ==
    ASSUME NEW s, IsSeq(s), NEW row, NEW cfg
    PROVE  /\ \A r \in 1..(Len(s) + 1) : BaseOf(cfg, Append(s, row), r) = BaseOf(cfg, s, r)
           /\ row.fallback = <<>> =>
                BaseOf(cfg, Append(s, row), Len(s) + 2) = BaseOf(cfg, s, Len(s) + 1)
           /\ \A c : row.fallback = <<c>> => BaseOf(cfg, Append(s, row), Len(s) + 2) = c
<1>1. /\ Len(s) \in Nat /\ Append(s, row)[Len(s) + 1] = row
      /\ \A i \in 1..Len(s) : Append(s, row)[i] = s[i]
  BY SeqFacts, Appended
<1> DEFINE B(e, r) == {q \in 1..(r - 1) : e[q].fallback # <<>>}
           top(S) == CHOOSE q \in S : \A p \in S : p <= q
<1>2. PICK t : t = Append(s, row)
  OBVIOUS
<1>0. \A e, r, q : q \in B(e, r) <=> q \in 1..(r - 1) /\ e[q].fallback # <<>>
  OBVIOUS
<1>3. PICK n \in Nat : n = Len(s)
  BY <1>1
<1>4. t[n + 1] = row /\ \A i \in 1..n : t[i] = s[i]
  BY <1>1, <1>2, <1>3
<1>5. ASSUME NEW e, NEW r \in Nat \ {0}, B(e, r) # {}
      PROVE  top(B(e, r)) \in B(e, r) /\ \A p \in B(e, r) : p <= top(B(e, r))
  <2>1. r - 1 \in Nat /\ B(e, r) \in SUBSET (1..(r - 1))
    OBVIOUS
  <2> DEFINE S == B(e, r)
  <2>2. S # {} /\ S \in SUBSET (1..(r - 1))
    BY <1>5, <2>1
  <2> HIDE DEF S
  <2>3. \E m \in S : \A p \in S : p <= m
    BY <2>1, <2>2, LargestOf
  <2>4. top(S) \in S /\ \A p \in S : p <= top(S)
    BY <2>3
  <2>5. QED
    BY <2>4 DEF S
<1>6. \A e, r : BaseOf(cfg, e, r) = IF B(e, r) = {} THEN cfg ELSE Head(e[top(B(e, r))].fallback)
  BY DEF BaseOf
<1> HIDE DEF B, top
<1>7. ASSUME NEW r \in 1..(n + 1)
      PROVE  BaseOf(cfg, t, r) = BaseOf(cfg, s, r)
  <2>1. B(t, r) = B(s, r)
    <3>1. \A q : q \in 1..(r - 1) => t[q] = s[q]
      BY <1>4
    <3>2. \A q : q \in B(t, r) <=> q \in B(s, r)
      BY <1>0, <3>1
    <3>3. QED
      BY <1>0, <3>2 DEF B
  <2>2. CASE B(s, r) = {}
    BY <1>6, <2>1, <2>2
  <2>3. CASE B(s, r) # {}
    <3>1. top(B(s, r)) \in 1..n
      BY <1>0, <1>5, <2>3
    <3>2. t[top(B(s, r))] = s[top(B(s, r))]
      BY <1>4, <3>1
    <3>3. QED
      BY <1>6, <2>1, <3>2
  <2>4. QED
    BY <2>2, <2>3
<1>8. ASSUME row.fallback = <<>>
      PROVE  BaseOf(cfg, t, n + 2) = BaseOf(cfg, s, n + 1)
  <2>1. B(t, n + 2) = B(s, n + 1)
    <3>1. \A q : q \in 1..n => t[q] = s[q]
      BY <1>4
    <3>2. \A q : q \in 1..((n + 2) - 1) <=> q \in 1..n \/ q = n + 1
      OBVIOUS
    <3>3. \A q : q \in 1..((n + 1) - 1) <=> q \in 1..n
      OBVIOUS
    <3>4. ~(t[n + 1].fallback # <<>>)
      BY <1>4, <1>8
    <3>5. \A q : q \in B(t, n + 2) <=> q \in B(s, n + 1)
      BY <1>0, <3>1, <3>2, <3>3, <3>4
    <3>6. QED
      BY <3>5 DEF B
  <2>2. CASE B(s, n + 1) = {}
    BY <1>6, <2>1, <2>2
  <2>3. CASE B(s, n + 1) # {}
    <3>1. top(B(s, n + 1)) \in 1..n
      <4>1. top(B(s, n + 1)) \in B(s, n + 1)
        BY <1>5, <2>3
      <4>2. QED
        BY <1>0, <4>1
    <3>2. t[top(B(s, n + 1))] = s[top(B(s, n + 1))]
      BY <1>4, <3>1
    <3>3. QED
      BY <1>6, <2>1, <3>2
  <2>4. QED
    BY <2>2, <2>3
<1>9. ASSUME NEW c, row.fallback = <<c>>
      PROVE  BaseOf(cfg, t, n + 2) = c
  <2>1. n + 1 \in B(t, n + 2)
    <3>1. n + 1 \in 1..((n + 2) - 1) /\ row.fallback # <<>>
      BY <1>9
    <3>2. QED
      BY <1>0, <1>4, <3>1
  <2>2. top(B(t, n + 2)) \in 1..(n + 1) /\ n + 1 <= top(B(t, n + 2))
    <3>1. top(B(t, n + 2)) \in B(t, n + 2) /\ n + 1 <= top(B(t, n + 2))
      BY <1>5, <2>1
    <3>2. QED
      BY <1>0, <3>1
  <2>3. top(B(t, n + 2)) = n + 1
    BY <2>2
  <2>4. BaseOf(cfg, t, n + 2) = Head(t[n + 1].fallback)
    BY <1>6, <2>1, <2>3
  <2>5. QED
    BY <1>4, <1>9, <2>4
<1>10. QED
  BY <1>2, <1>3, <1>7, <1>8, <1>9

(* A probe keeps its answer.                                               *)
LEMMA ProbesKept ==
    ASSUME ProbesGrow, UNCHANGED setting
    PROVE  /\ \A cfg, ctx : /\ Passed(cfg, ctx) => Passed(cfg, ctx)'
                            /\ Failed(cfg, ctx) => Failed(cfg, ctx)'
           /\ \A cfg, s, r : RowCandidates(cfg, s, r)' = RowCandidates(cfg, s, r)
           /\ \A cfg, s, r, cut, after :
                 RowIsTrue(cfg, s, r, cut) /\ (cut => after) => RowIsTrue(cfg, s, r, after)'
<1>1. \A cfg, ctx : /\ Passed(cfg, ctx) => Passed(cfg, ctx)'
                    /\ Failed(cfg, ctx) => Failed(cfg, ctx)'
  BY DEF ProbesGrow, Passed, Failed
<1>2. \A cfg : EnvelopeCandidates(cfg)' = EnvelopeCandidates(cfg)
  BY DEF EnvelopeCandidates, ContextCandidates, Variants
<1>3. \A cfg, s, r : RowCandidates(cfg, s, r)' = RowCandidates(cfg, s, r)
  BY <1>2 DEF RowCandidates
<1>4. ASSUME NEW cfg, NEW s, NEW r, NEW cut, NEW after,
             RowIsTrue(cfg, s, r, cut), cut => after
      PROVE  RowIsTrue(cfg, s, r, after)'
  <2>1. PICK order : order = RowCandidates(cfg, s, r) /\ order = RowCandidates(cfg, s, r)'
    BY <1>3
  <2>2. PICK row : row = s[r]
    OBVIOUS
  <2>3. \/ row.status = "ok" /\ row.fallback = <<>> /\ Passed(cfg, row.ctx)
        \/ row.status = "skipped" /\ cut
        \/ /\ row.status \notin {"ok", "skipped"}
           /\ IF row.status = "pruned" THEN \E q \in 1..(r - 1) : s[q].status = "failed"
              ELSE Failed(cfg, row.ctx)
           /\ IF row.fallback = <<>> THEN cut \/ \A i \in DOMAIN order : Failed(order[i], row.ctx)
              ELSE \E i \in DOMAIN order :
                      /\ row.fallback = <<order[i]>> /\ Passed(order[i], row.ctx)
                      /\ \A j \in 1..(i - 1) : Failed(order[j], row.ctx)
    BY <1>4, <2>1, <2>2 DEF RowIsTrue
  <2>4. \/ row.status = "ok" /\ row.fallback = <<>> /\ Passed(cfg, row.ctx)'
        \/ row.status = "skipped" /\ after
        \/ /\ row.status \notin {"ok", "skipped"}
           /\ IF row.status = "pruned" THEN \E q \in 1..(r - 1) : s[q].status = "failed"
              ELSE Failed(cfg, row.ctx)'
           /\ IF row.fallback = <<>> THEN after \/ \A i \in DOMAIN order : Failed(order[i], row.ctx)'
              ELSE \E i \in DOMAIN order :
                      /\ row.fallback = <<order[i]>> /\ Passed(order[i], row.ctx)'
                      /\ \A j \in 1..(i - 1) : Failed(order[j], row.ctx)'
    BY <1>1, <1>4, <2>3
  <2>5. QED
    BY <2>1, <2>2, <2>4 DEF RowIsTrue
<1>5. QED
  BY <1>1, <1>3, <1>4

(* Nor does a row change its own candidates.                               *)
LEMMA CandidatesAppended ==
    ASSUME NEW s, IsSeq(s), NEW row, NEW cfg
    PROVE  RowCandidates(cfg, Append(s, row), Len(s) + 1) = RowCandidates(cfg, s, Len(s) + 1)
<1>1. \A q \in 1..(Len(s) + 1) : BaseOf(cfg, Append(s, row), q) = BaseOf(cfg, s, q)
  BY BaseAppended
<1>2. Len(s) + 1 \in 1..(Len(s) + 1)
  BY SeqFacts
<1>3. QED
  BY <1>1, <1>2, CandidatesOfBase

(* A row stays true as others follow it.                                   *)
LEMMA RowAppended ==
    ASSUME NEW s, IsSeq(s), NEW row, NEW cfg, NEW cut, NEW r \in 1..Len(s),
           RowIsTrue(cfg, s, r, cut)
    PROVE  RowIsTrue(cfg, Append(s, row), r, cut)
<1>1. /\ Len(s) \in Nat /\ \A i \in 1..Len(s) : Append(s, row)[i] = s[i]
  BY SeqFacts, Appended
<1>2. PICK t : t = Append(s, row)
  OBVIOUS
<1>3. BaseOf(cfg, t, r) = BaseOf(cfg, s, r)
  <2>1. \A q \in 1..(Len(s) + 1) : BaseOf(cfg, Append(s, row), q) = BaseOf(cfg, s, q)
    BY BaseAppended
  <2>2. r \in 1..(Len(s) + 1)
    BY <1>1
  <2>3. BaseOf(cfg, Append(s, row), r) = BaseOf(cfg, s, r)
    BY <2>1, <2>2
  <2>4. QED
    BY <1>2, <2>3
<1>4. RowCandidates(cfg, t, r) = RowCandidates(cfg, s, r)
  BY <1>3, CandidatesOfBase
<1>5. t[r] = s[r] /\ \A q \in 1..(r - 1) : t[q] = s[q]
  BY <1>1, <1>2
<1>6. PICK order : order = RowCandidates(cfg, s, r)
  OBVIOUS
<1>7. RowIsTrue(cfg, t, r, cut)
  BY <1>4, <1>5, <1>6 DEF RowIsTrue
<1>8. QED
  BY <1>2, <1>7

(* What was written stays true.                                            *)
LEMMA WrittenKept ==
    ASSUME EnvelopeIsTrue, ProbesGrow, UNCHANGED <<setting, analysis, registry>>, marks \subseteq marks'
    PROVE  EnvelopeIsTrue'
<1>1. PICK cut, after : cut = ("envelope_truncated" \in marks) /\ after = ("envelope_truncated" \in marks')
  OBVIOUS
<1>2. cut => after
  BY <1>1
<1>3. PICK a : a = analysis
  OBVIOUS
<1>4. ASSUME a # None, NEW r \in DOMAIN a.rows
      PROVE  RowIsTrue(a.cfg, a.rows, r, after)'
  <2>1. RowIsTrue(a.cfg, a.rows, r, cut)
    BY <1>1, <1>3, <1>4 DEF EnvelopeIsTrue
  <2>2. QED
    BY <1>2, <2>1, ProbesKept
<1>5. ASSUME NEW record \in registry, record.ctx # NoCtx,
             NEW ctx \in {setting.ctx} \cup Range(setting.ladder), ctx <= record.ctx
      PROVE  Passed(record.cfg, ctx)'
  <2>1. Passed(record.cfg, ctx)
    BY <1>5 DEF EnvelopeIsTrue
  <2>2. QED
    BY <2>1, ProbesKept
<1>6. a = analysis' /\ after = ("envelope_truncated" \in marks)'
  BY <1>1, <1>3
<1>7. QED
  BY <1>4, <1>5, <1>6 DEF EnvelopeIsTrue

(* No step of a session takes a probe back.                                *)
LEMMA SessionGrows ==
    ASSUME [Next]_vars
    PROVE  ProbesGrow /\ UNCHANGED setting
<1>1. CASE Begin \/ SearchStep
  BY <1>1, SearchGrows DEF ProbesGrow, JournalGrows
<1>2. CASE FinalStep
  <2>1. UNCHANGED setting
    BY <1>2, FinalFrame DEF ascent
  <2>2. CASE UNCHANGED probes
    BY <2>1, <2>2 DEF ProbesGrow
  <2>3. CASE ~UNCHANGED probes
    <3>1. PICK key, status : key \notin DOMAIN probes /\ AddsProbe(key, status)
      BY <1>2, <2>3, FinalProbes
    <3>2. QED
      BY <2>1, <3>1 DEF ProbesGrow, AddsProbe, With
  <2>4. QED
    BY <2>2, <2>3
<1>3. CASE Interrupt \/ Expire \/ Crash \/ Resume \/ Revalidate \/ UNCHANGED vars
  <2>1. UNCHANGED <<setting, probes>>
    BY <1>3 DEF Interrupt, Expire, Crash, Resume, Revalidate, SearchRestart, vars, searchVars, journal
  <2>2. QED
    BY <2>1 DEF ProbesGrow
<1>4. QED
  BY <1>1, <1>2, <1>3 DEF Next, Step, Finished

(* What passed the required context has the probe.                         *)
LEMMA ValidKept ==
    ASSUME SessionInv, ValidInv, [Next]_vars
    PROVE  ValidInv'
<1>1. ProbesGrow /\ UNCHANGED setting
  BY SessionGrows
<1>2. \A cfg : Passed(cfg, setting.ctx) => Passed(cfg, setting.ctx)'
  BY <1>1 DEF ProbesGrow, Passed
<1>3. ASSUME UNCHANGED <<valid, rec>>,
             ~valid \/ (UNCHANGED incumbent /\ pc' \notin Before)
      PROVE  ValidInv'
  <2>1. rec.confirmed /\ setting.ctx # NoCtx => Passed(rec.cfg, setting.ctx)'
    BY <1>1, <1>3 DEF ValidInv, ProbesGrow, Passed
  <2>2. valid => Passed(incumbent.cfg, setting.ctx)' /\ UNCHANGED incumbent /\ pc' \notin Before
    BY <1>2, <1>3 DEF ValidInv
  <2>3. QED
    BY <1>1, <1>3, <2>1, <2>2 DEF ValidInv, Passed
<1>4. CASE (Begin \/ SearchStep) /\ UNCHANGED finalMemory
  <2>1. pc \in Before
    BY <1>4, SearchWork DEF Searching, Before
  <2>2. ~valid /\ UNCHANGED <<valid, rec>>
    BY <1>4, <2>1 DEF ValidInv, finalMemory
  <2>3. QED
    BY <1>3, <2>2
<1>5. CASE EndSearch
  <2>1. ~valid /\ UNCHANGED <<valid, rec>>
    BY <1>5 DEF EndSearch, ValidInv, Before, finalMemory
  <2>2. QED
    BY <1>3, <2>1
<1>6. CASE Validate
  <2>1. /\ UNCHANGED <<rec, incumbent>> /\ pc' = "confirm" /\ pc = "validate"
        /\ \/ Context \in DOMAIN probes /\ valid' = (probes[Context] = "ok") /\ UNCHANGED probes
           \/ \E status : /\ probes' = With(probes, Context, status)
                          /\ valid' = (status = "ok")
           \/ UNCHANGED valid
    BY <1>6 DEF Validate, Probe, Context, ascent, machineUse
  <2>2. ~valid
    BY <2>1 DEF ValidInv, Before
  <2>3. valid' => Context \in DOMAIN probes' /\ probes'[Context] = "ok"
    <3>1. PICK key : key = Context
      OBVIOUS
    <3>2. \/ key \in DOMAIN probes /\ valid' = (probes[key] = "ok") /\ UNCHANGED probes
          \/ \E status : probes' = With(probes, key, status) /\ valid' = (status = "ok")
          \/ UNCHANGED valid
      BY <2>1, <3>1
    <3>3. valid' => key \in DOMAIN probes' /\ probes'[key] = "ok"
      BY <2>2, <3>2 DEF With
    <3>4. QED
      BY <3>1, <3>3
  <2>4. valid' => Passed(incumbent.cfg, setting.ctx)'
    BY <1>1, <2>1, <2>3 DEF Passed, Context
  <2>5. rec.confirmed /\ setting.ctx # NoCtx => Passed(rec.cfg, setting.ctx)'
    BY <1>1, <2>1 DEF ValidInv, ProbesGrow, Passed
  <2>6. pc' \notin Before
    BY <2>1 DEF Before, SearchStages
  <2>7. QED
    BY <1>1, <2>1, <2>4, <2>5, <2>6 DEF ValidInv, Passed
<1>7. CASE RefuseConfirmation \/ RecallConfirmation \/ Confirm
  <2>1. /\ UNCHANGED <<valid, incumbent>> /\ pc' \in {"depth", "cli"}
        /\ Defaults \/ Winner(incumbent.cfg)
    BY <1>7 DEF RefuseConfirmation, RecallConfirmation, Confirm, AfterConfirm, ascent
  <2>2. valid => Passed(incumbent.cfg, setting.ctx)'
    BY <1>1, <2>1 DEF ValidInv, ProbesGrow, Passed
  <2>3. rec'.confirmed /\ setting.ctx # NoCtx => valid /\ rec'.cfg = incumbent.cfg
    <3>1. CASE Defaults
      BY <3>1 DEF Defaults
    <3>2. CASE Winner(incumbent.cfg)
      BY <3>2 DEF Winner
    <3>3. QED
      BY <2>1, <3>1, <3>2
  <2>4. pc' \notin Before
    BY <2>1 DEF Before, SearchStages
  <2>5. QED
    BY <1>1, <2>1, <2>2, <2>3, <2>4 DEF ValidInv, Passed
<1>8. CASE FinalStep /\ ~(EndSearch \/ Validate \/ RefuseConfirmation \/ RecallConfirmation \/ Confirm)
  <2>1. UNCHANGED <<valid, rec, incumbent>>
    BY <1>8, FinalFrame DEF FinalStep, DepthRun, DepthDone, ValidateWithCli, GateRun, GateDone,
       SkipRung, RecallPrimary, ProbePrimary, ExhaustPrimary, PrunePrimary, RecallFallback,
       ProbeFallback, CloseWithoutFallback, EndEnvelope, LosslessProbe, LosslessDone, Publish,
       EnvelopeFrame, ascent, finalMemory
  <2>2. pc' \notin Before
    BY <1>8 DEF FinalStep, DepthRun, DepthDone, ValidateWithCli, GateRun, GateDone,
       SkipRung, RecallPrimary, ProbePrimary, ExhaustPrimary, PrunePrimary, RecallFallback,
       ProbeFallback, CloseWithoutFallback, EndEnvelope, LosslessProbe, LosslessDone, Publish,
       EnvelopeFrame, InRung, InFallbacks, MayAskPrimary, MayAskFallback, Before, SearchStages
  <2>3. QED
    BY <1>3, <2>1, <2>2
<1>9. CASE Interrupt \/ Expire \/ Revalidate \/ UNCHANGED vars
  <2>1. UNCHANGED <<valid, rec, incumbent, pc>>
    BY <1>9 DEF Interrupt, Expire, Revalidate, stage, vars, searchVars, finalMemory
  <2>2. QED
    BY <1>3, <2>1 DEF ValidInv
<1>10. CASE Crash
  <2>1. UNCHANGED <<valid, rec, incumbent>> /\ pc' \notin Before
    BY <1>10 DEF Crash, finalMemory, Before, SearchStages
  <2>2. QED
    BY <1>3, <2>1
<1>11. CASE Resume
  BY <1>11 DEF Resume, FreshFinal, NoRec, ValidInv
<1>12. QED
  BY <1>4, <1>5, <1>6, <1>7, <1>8, <1>9, <1>10, <1>11 DEF Next, Step, Finished, finalMemory

(* The rungs stay true while they are not touched.                         *)
LEMMA RowsKept ==
    ASSUME RowsInv, ProbesGrow, UNCHANGED <<setting, rows, rec>>,
           \/ pc' \notin Live
           \/ pc \in Live \ EnvelopeStages /\ pc' \in Live \ EnvelopeStages
           \/ pc \in EnvelopeStages /\ pc' \in EnvelopeStages /\ (Cut => Cut')
    PROVE  RowsInv'
<1>1. CASE pc' \notin Live
  <2>1. EnvelopeStages \subseteq Live
    BY DEF EnvelopeStages, Live, FinalStages
  <2>2. QED
    BY <1>1, <2>1 DEF RowsInv
<1>2. CASE pc \in Live \ EnvelopeStages /\ pc' \in Live \ EnvelopeStages
  BY <1>2 DEF RowsInv
<1>3. CASE pc \in EnvelopeStages /\ pc' \in EnvelopeStages /\ (Cut => Cut')
  <2>1. PICK cfg, s, cut, after : cfg = rec.cfg /\ s = rows /\ cut = Cut /\ after = Cut'
    OBVIOUS
  <2>2. ASSUME NEW r \in DOMAIN s
        PROVE  RowIsTrue(cfg, s, r, after)'
    <3>1. RowIsTrue(cfg, s, r, cut) /\ (cut => after)
      BY <1>3, <2>1, <2>2 DEF RowsInv
    <3>2. QED
      BY <3>1, ProbesKept
  <2>3. \A r \in DOMAIN s :
            /\ s[r].ctx = IF r = 1 THEN setting'.ctx ELSE setting'.ladder[r - 1]
            /\ s[r].status = "ok" => \A q \in 1..(r - 1) : s[q].status = "ok"
    BY <1>3, <2>1 DEF RowsInv
  <2>4. cfg = rec'.cfg /\ s = rows' /\ after = Cut'
    BY <2>1
  <2>5. QED
    BY <1>3, <2>2, <2>3, <2>4 DEF RowsInv
<1>4. QED
  BY <1>1, <1>2, <1>3

\* The rung ctx of cfg, with its candidates, may be closed so.
Closable(cfg, ctx, order, status, fallback) ==
    /\ status = "ok" =>
          fallback = <<>> /\ Passed(cfg, ctx)' /\ \A r \in DOMAIN rows : rows[r].status = "ok"
    /\ status = "skipped" => fallback = <<>> /\ env'.truncated /\ (env'.exhausted \/ TotalSpent')
    /\ status \in {"failed", "pruned"} =>
          /\ env.failed
          /\ IF status = "pruned" THEN Done("failed") ELSE Failed(cfg, ctx)'
          /\ IF fallback = <<>> THEN env'.truncated \/ \A i \in DOMAIN order : Failed(order[i], ctx)'
             ELSE \E i \in DOMAIN order :
                     /\ fallback = <<order[i]>> /\ Passed(order[i], ctx)'
                     /\ \A j \in 1..(i - 1) : Failed(order[j], ctx)'

(* A rung that is closed so is true, and the walk goes on.                 *)
LEMMA Closed ==
    ASSUME StageInv, setting \in Settings, RowsInv, WalkInv, pc = "envelope",
           UNCHANGED <<setting, pc, rec>>, ProbesGrow,
           NEW status \in {"ok", "skipped", "failed", "pruned"}, NEW fallback,
           NEW cfg, NEW ctx, NEW order, cfg = rec.cfg, ctx = Rung,
           order = RowCandidates(cfg, rows, Len(rows) + 1),
           Closable(cfg, ctx, order, status, fallback),
           rows' = Append(rows, Row(ctx, status, fallback)),
           env'.searching = FALSE, env'.failed = env.failed, env.truncated => env'.truncated,
           env'.fallback = IF fallback = <<>> THEN env.fallback ELSE fallback,
           env.failed => Done("failed") \/ status = "failed",
           Done("skipped") => env'.exhausted \/ TotalSpent'
    PROVE  RowsInv' /\ WalkInv'
<1>1. PICK s, n : s = rows /\ n = Len(rows) /\ order = RowCandidates(cfg, s, n + 1)
  OBVIOUS
<1>2. PICK row, t : row = Row(ctx, status, fallback) /\ t = Append(s, row)
  OBVIOUS
<1>3. IsSeq(s) /\ n \in Nat /\ n >= 1 /\ DOMAIN s = 1..n
  BY <1>1, SeqFacts DEF StageInv, WalkInv
<1>4. /\ IsSeq(t) /\ Len(t) = n + 1 /\ DOMAIN t = 1..(n + 1)
      /\ t[n + 1] = row /\ \A i \in 1..n : t[i] = s[i]
  <2>1. /\ IsSeq(t) /\ Len(t) = n + 1
        /\ t[n + 1] = row /\ \A i \in 1..n : t[i] = s[i]
    BY <1>1, <1>2, <1>3, Appended
  <2>2. QED
    BY <2>1, SeqFacts
<1>5. rows' = t /\ rec'.cfg = cfg /\ row.ctx = ctx /\ row.status = status /\ row.fallback = fallback
  BY <1>1, <1>2 DEF Row
<1>6. PICK cut, after : cut = Cut /\ after = Cut'
  OBVIOUS
<1>7. cut = env.truncated /\ after = env'.truncated /\ (cut => after)
  BY <1>6 DEF Cut
<1>8. ASSUME NEW r \in 1..n
      PROVE  RowIsTrue(cfg, t, r, after)'
  <2>1. RowIsTrue(cfg, s, r, cut)
    BY <1>1, <1>3, <1>6, <1>8 DEF RowsInv, EnvelopeStages
  <2>2. RowIsTrue(cfg, t, r, cut)
    BY <1>1, <1>2, <1>3, <2>1, RowAppended
  <2>3. QED
    BY <1>7, <2>2, ProbesKept
<1>9. RowIsTrue(cfg, t, n + 1, after)'
  <2>1. RowCandidates(cfg, t, n + 1)' = order
    <3>1. RowCandidates(cfg, Append(s, row), Len(s) + 1) = RowCandidates(cfg, s, Len(s) + 1)
      BY <1>3, CandidatesAppended
    <3>2. RowCandidates(cfg, t, n + 1) = order
      BY <1>1, <1>2, <3>1
    <3>3. QED
      BY <3>2, ProbesKept
  <2>2. \/ status = "ok" /\ fallback = <<>> /\ Passed(cfg, ctx)'
        \/ status = "skipped" /\ after
        \/ /\ status \in {"failed", "pruned"}
           /\ IF status = "pruned" THEN \E q \in 1..((n + 1) - 1) : t[q].status = "failed"
              ELSE Failed(cfg, ctx)'
           /\ IF fallback = <<>> THEN after \/ \A i \in DOMAIN order : Failed(order[i], ctx)'
              ELSE \E i \in DOMAIN order :
                      /\ fallback = <<order[i]>> /\ Passed(order[i], ctx)'
                      /\ \A j \in 1..(i - 1) : Failed(order[j], ctx)'
    <3>1. CASE status = "ok"
      BY <1>1, <1>5, <3>1 DEF Closable, Passed
    <3>2. CASE status = "skipped"
      BY <1>7, <3>2 DEF Closable
    <3>3. CASE status \in {"failed", "pruned"}
      <4>1. IF status = "pruned" THEN \E q \in 1..((n + 1) - 1) : t[q].status = "failed"
            ELSE Failed(cfg, ctx)'
        <5>1. CASE status = "pruned"
          <6>1. PICK q \in DOMAIN s : s[q].status = "failed"
            BY <1>1, <3>3, <5>1 DEF Closable, Done
          <6>2. q \in 1..((n + 1) - 1) /\ t[q] = s[q]
            BY <1>3, <1>4, <6>1
          <6>3. QED
            BY <5>1, <6>1, <6>2
        <5>2. CASE status # "pruned"
          BY <1>1, <1>5, <3>3, <5>2 DEF Closable, Failed
        <5>3. QED
          BY <5>1, <5>2
      <4>2. QED
        BY <1>1, <1>7, <3>3, <4>1 DEF Closable
    <3>4. QED
      BY <3>1, <3>2, <3>3
  <2>3. t[n + 1] = row /\ row.ctx = ctx /\ row.status = status /\ row.fallback = fallback
    BY <1>4, <1>5
  <2>4. QED
    BY <2>1, <2>2, <2>3 DEF RowIsTrue
<1>10. RowsInv'
  <2>1. \A r \in 1..(n + 1) : RowIsTrue(cfg, t, r, after)'
    BY <1>3, <1>8, <1>9
  <2>2. \A r \in 1..(n + 1) : t[r].ctx = IF r = 1 THEN setting'.ctx ELSE setting'.ladder[r - 1]
    <3>1. \A r \in 1..n : s[r].ctx = IF r = 1 THEN setting.ctx ELSE setting.ladder[r - 1]
      BY <1>1, <1>3 DEF RowsInv, EnvelopeStages
    <3>2. ctx = setting.ladder[n]
      BY <1>1 DEF Rung
    <3>3. t[n + 1].ctx = setting.ladder[(n + 1) - 1] /\ n + 1 # 1
      BY <1>3, <1>4, <1>5, <3>2
    <3>4. \A r \in 1..n : t[r].ctx = IF r = 1 THEN setting.ctx ELSE setting.ladder[r - 1]
      BY <1>4, <3>1
    <3>5. \A r \in 1..(n + 1) : r \in 1..n \/ r = n + 1
      BY <1>3
    <3>6. QED
      BY <3>3, <3>4, <3>5
  <2>3. \A r \in 1..(n + 1) : t[r].status = "ok" => \A q \in 1..(r - 1) : t[q].status = "ok"
    <3>1. \A r \in 1..n : s[r].status = "ok" => \A q \in 1..(r - 1) : s[q].status = "ok"
      BY <1>1, <1>3 DEF RowsInv, EnvelopeStages
    <3>2. status = "ok" => \A q \in 1..n : s[q].status = "ok"
      BY <1>1, <1>3 DEF Closable
    <3>3. t[n + 1].status = status
      BY <1>4, <1>5
    <3>4. QED
      BY <1>3, <1>4, <3>1, <3>2, <3>3
  <2>4. rows' = t /\ rec'.cfg = cfg /\ after = Cut' /\ pc' \in EnvelopeStages /\ DOMAIN t = 1..(n + 1)
    BY <1>4, <1>5, <1>6 DEF EnvelopeStages
  <2>5. pc' \notin Live \ EnvelopeStages
    BY <2>4
  <2>6. QED
    BY <2>1, <2>2, <2>3, <2>4, <2>5 DEF RowsInv
<1>11. \A x : Done(x)' <=> Done(x) \/ status = x
  <2>1. \A x : Done(x)' <=> \E r \in 1..(n + 1) : t[r].status = x
    BY <1>4, <1>5 DEF Done
  <2>2. \A x : Done(x) <=> \E r \in 1..n : s[r].status = x
    BY <1>1, <1>3 DEF Done
  <2>3. t[n + 1].status = status /\ \A r \in 1..n : t[r].status = s[r].status
    BY <1>4, <1>5
  <2>4. \A x : (\E r \in 1..(n + 1) : t[r].status = x) <=> (\E r \in 1..n : s[r].status = x) \/ status = x
    <3>1. \A r : r \in 1..(n + 1) <=> r \in 1..n \/ r = n + 1
      BY <1>3
    <3>2. QED
      BY <2>3, <3>1
  <2>5. QED
    BY <2>1, <2>2, <2>4
<1>12. FallbackBase' = BaseOf(rec.cfg, rows, Len(rows) + 1)'
  <2>1. FallbackBase = BaseOf(cfg, s, n + 1)
    BY <1>1 DEF WalkInv
  <2>2. CASE fallback = <<>>
    <3>1. BaseOf(cfg, t, Len(s) + 2) = BaseOf(cfg, s, Len(s) + 1)
      BY <1>2, <1>3, <1>5, <2>2, BaseAppended
    <3>2. FallbackBase' = FallbackBase
      BY <1>5, <2>2 DEF FallbackBase
    <3>3. Len(t) + 1 = Len(s) + 2
      BY <1>1, <1>3, <1>4
    <3>4. BaseOf(rec.cfg, rows, Len(rows) + 1)' = BaseOf(cfg, t, Len(t) + 1)
      BY <1>5
    <3>5. QED
      BY <1>1, <2>1, <3>1, <3>2, <3>3, <3>4
  <2>3. CASE fallback # <<>>
    <3>1. PICK c : fallback = <<c>>
      BY <2>3 DEF Closable
    <3>2. BaseOf(cfg, t, Len(s) + 2) = c
      BY <1>2, <1>3, <1>5, <3>1, BaseAppended
    <3>3. FallbackBase' = c
      BY <2>3, <3>1 DEF FallbackBase
    <3>4. Len(t) + 1 = Len(s) + 2
      BY <1>1, <1>3, <1>4
    <3>5. BaseOf(rec.cfg, rows, Len(rows) + 1)' = BaseOf(cfg, t, Len(t) + 1)
      BY <1>5
    <3>6. QED
      BY <3>2, <3>3, <3>4, <3>5
  <2>4. QED
    BY <2>2, <2>3
<1>13. WalkInv'
  <2>1. Len(rows') >= 1
    BY <1>3, <1>4, <1>5
  <2>2. \A r \in DOMAIN rows' : rows'[r].status \in {"ok", "skipped", "failed", "pruned"}
    <3>1. \A r \in 1..n : s[r].status \in {"ok", "skipped", "failed", "pruned"}
      BY <1>1, <1>3 DEF WalkInv
    <3>2. QED
      BY <1>3, <1>4, <1>5, <3>1
  <2>3. env.failed = env'.failed /\ (~env.failed => ~Done("failed") /\ ~Done("pruned"))
    BY DEF WalkInv
  <2>4. ~env.failed => status \notin {"failed", "pruned"}
    BY DEF Closable
  <2>5. status = "skipped" => env'.exhausted \/ TotalSpent'
    BY DEF Closable
  <2>6. SearchedInv'
    BY DEF SearchedInv
  <2>7. QED
    BY <1>11, <1>12, <2>1, <2>2, <2>3, <2>4, <2>5, <2>6 DEF WalkInv
<1>14. QED
  BY <1>10, <1>13

(* The candidates of the rung under way.                                   *)
LEMMA CandidatesOfRung ==
    ASSUME WalkInv, pc = "envelope", setting \in Settings
    PROVE  /\ RowCandidates(rec.cfg, rows, Len(rows) + 1)
                = Without(EnvelopeCandidates(FallbackBase), rec.cfg)
           /\ IsSeq(RowCandidates(rec.cfg, rows, Len(rows) + 1))
<1>1. FallbackBase = BaseOf(rec.cfg, rows, Len(rows) + 1)
  BY DEF WalkInv
<1>2. PICK cfg, s, r, base : cfg = rec.cfg /\ s = rows /\ r = Len(rows) + 1 /\ base = FallbackBase
  OBVIOUS
<1>3. RowCandidates(cfg, s, r) = Without(EnvelopeCandidates(base), cfg)
  BY <1>1, <1>2, CandidatesOfBase
<1>4. IsSeq(Without(EnvelopeCandidates(base), cfg))
  BY EnvelopeCandidatesAreSeq, WithoutIsSeq
<1>5. QED
  BY <1>2, <1>3, <1>4

(* A rung that failed, or was ruled out, has all its candidates to ask.    *)
LEMMA Looked ==
    ASSUME StageInv, setting \in Settings, RowsInv, WalkInv, UNCHANGED <<setting, pc, rec>>, ProbesGrow,
           InRung, ~env.exhausted, ~TotalSpent,
           NEW status \in {"failed", "pruned"}, LookForFallback(status),
           NEW cfg, NEW ctx, cfg = rec.cfg, ctx = Rung,
           IF status = "pruned" THEN env.failed ELSE Failed(cfg, ctx)'
    PROVE  RowsInv' /\ WalkInv'
<1>1. pc = "envelope" /\ ~env.searching
  BY DEF InRung
<1>2. UNCHANGED rows /\ left' = Without(EnvelopeCandidates(FallbackBase), rec.cfg)
  BY DEF LookForFallback
<1>3. /\ env'.searching /\ env'.status = status /\ env'.failed
      /\ env'.fallback = env.fallback /\ env'.truncated = env.truncated
      /\ env'.exhausted = env.exhausted
  <2>1. DOMAIN env = DOMAIN NoRung
    BY DEF StageInv
  <2>2. DOMAIN env = {"searching", "status", "failed", "fallback", "start", "total", "truncated",
                      "exhausted"}
    BY <2>1 DEF NoRung
  <2>3. QED
    BY <2>2 DEF LookForFallback
<1>4. RowsInv'
  <2>1. pc \in EnvelopeStages /\ pc' \in EnvelopeStages /\ (Cut => Cut')
    BY <1>1, <1>3 DEF Cut, EnvelopeStages
  <2>2. QED
    BY <1>2, <2>1, RowsKept
<1>5. ~Done("skipped") /\ (status = "pruned" => Done("failed"))
  BY <1>1 DEF WalkInv
<1>6. SearchedInv'
  <2>1. PICK s, r, order : s = rows /\ r = Len(rows) + 1 /\ order = RowCandidates(cfg, s, r)
    OBVIOUS
  <2>2. left' = order /\ IsSeq(order)
    BY <1>1, <1>2, <2>1, CandidatesOfRung
  <2>3. RowCandidates(rec.cfg, rows, Len(rows) + 1)' = order
    <3>1. RowCandidates(cfg, s, r)' = order
      BY <2>1, ProbesKept
    <3>2. cfg = rec'.cfg /\ s = rows' /\ r = Len(rows') + 1
      BY <1>2, <2>1
    <3>3. QED
      BY <3>1, <3>2
  <2>4. Behindhand(order, 0)' /\ 0 \in 0..Len(order)
    <3>1. Len(order) \in Nat
      BY <2>2, SeqFacts
    <3>2. /\ Len(left') = Len(order) - 0 /\ \A i \in 1..Len(left') : left'[i] = order[0 + i]
      BY <2>2, <3>1
    <3>3. QED
      BY <3>1, <3>2 DEF Behindhand
  <2>5. IF status = "pruned" THEN Done("failed")' ELSE Failed(rec.cfg, Rung)'
    <3>1. cfg = rec'.cfg /\ ctx = Rung'
      BY <1>2 DEF Rung
    <3>2. Done("failed") => Done("failed")'
      BY <1>2 DEF Done
    <3>3. QED
      BY <1>5, <3>1, <3>2 DEF Failed
  <2>6. ~Done("skipped")'
    BY <1>2, <1>5 DEF Done
  <2>7. QED
    BY <1>3, <2>3, <2>4, <2>5, <2>6 DEF SearchedInv
<1>7. WalkInv'
  <2>1. /\ Len(rows') >= 1
        /\ \A r \in DOMAIN rows' : rows'[r].status \in {"ok", "skipped", "failed", "pruned"}
    BY <1>1, <1>2 DEF WalkInv
  <2>2. FallbackBase' = BaseOf(rec.cfg, rows, Len(rows) + 1)'
    BY <1>1, <1>2, <1>3 DEF WalkInv, FallbackBase, BaseOf
  <2>3. Done("skipped")' <=> Done("skipped")
    BY <1>2 DEF Done
  <2>4. Done("failed") => Done("failed")'
    BY <1>2 DEF Done
  <2>5. QED
    BY <1>3, <1>5, <1>6, <2>1, <2>2, <2>3, <2>4 DEF WalkInv
<1>8. QED
  BY <1>4, <1>7

(* A candidate that failed is behind.                                      *)
LEMMA CandidateFailed ==
    ASSUME StageInv, setting \in Settings, IsSeq(left), RowsInv, WalkInv,
           UNCHANGED <<setting, pc, rec, rows, env>>, ProbesGrow,
           InFallbacks, left # <<>>, left' = Tail(left),
           NEW c, NEW ctx, c = Head(left), ctx = Rung, Failed(c, ctx)'
    PROVE  RowsInv' /\ WalkInv'
<1>1. pc = "envelope" /\ env.searching
  BY DEF InFallbacks
<1>2. RowsInv'
  <2>1. pc \in EnvelopeStages /\ pc' \in EnvelopeStages /\ (Cut => Cut')
    BY <1>1 DEF Cut, EnvelopeStages
  <2>2. QED
    BY <2>1, RowsKept
<1>3. SearchedInv
  BY <1>1 DEF WalkInv
<1>4. SearchedInv'
  <2>1. PICK cfg, s, r, order : /\ cfg = rec.cfg /\ s = rows /\ r = Len(rows) + 1
                                /\ order = RowCandidates(cfg, s, r)
    OBVIOUS
  <2>2. IsSeq(order) /\ Len(order) \in Nat
    BY <1>1, <2>1, CandidatesOfRung, SeqFacts
  <2>3. PICK n \in 0..Len(order) : Behindhand(order, n)
    BY <1>1, <1>3, <2>1 DEF SearchedInv
  <2>4. /\ Len(left) = Len(order) - n /\ \A i \in 1..Len(left) : left[i] = order[n + i]
        /\ \A j \in 1..n : Failed(order[j], ctx)
    BY <2>3 DEF Behindhand
  <2>5. /\ Len(left) \in Nat /\ Len(left) # 0 /\ Len(left') = Len(left) - 1
        /\ \A i \in 1..(Len(left) - 1) : left'[i] = left[i + 1]
        /\ c = left[1]
    BY SeqFacts
  <2>6. n + 1 \in 0..Len(order) /\ Len(left') = Len(order) - (n + 1)
    BY <2>2, <2>4, <2>5
  <2>7. \A i \in 1..Len(left') : left'[i] = order[(n + 1) + i]
    <3> TAKE i \in 1..Len(left')
    <3>1. i \in 1..(Len(left) - 1) /\ i + 1 \in 1..Len(left)
      BY <2>5
    <3>2. left'[i] = order[n + (i + 1)]
      BY <2>4, <2>5, <3>1
    <3>3. n + (i + 1) = (n + 1) + i
      BY <2>2, <2>5
    <3>4. QED
      BY <3>2, <3>3
  <2>8. \A j \in 1..(n + 1) : Failed(order[j], ctx)'
    <3> TAKE j \in 1..(n + 1)
    <3>1. CASE j = n + 1
      <4>1. order[n + 1] = c
        BY <2>4, <2>5
      <4>2. QED
        BY <3>1, <4>1
    <3>2. CASE j # n + 1
      <4>1. Failed(order[j], ctx)
        BY <2>2, <2>4, <3>2
      <4>2. QED
        BY <4>1, ProbesKept
    <3>3. QED
      BY <3>1, <3>2
  <2>9. ctx = Rung'
    BY DEF Rung
  <2>10. Behindhand(order, n + 1)'
    BY <2>6, <2>7, <2>8, <2>9 DEF Behindhand
  <2>11. RowCandidates(rec.cfg, rows, Len(rows) + 1)' = order
    <3>1. RowCandidates(cfg, s, r)' = order
      BY <2>1, ProbesKept
    <3>2. cfg = rec'.cfg /\ s = rows' /\ r = Len(rows') + 1
      BY <2>1
    <3>3. QED
      BY <3>1, <3>2
  <2>12. Failed(cfg, ctx) => Failed(rec.cfg, Rung)'
    <3>1. Failed(cfg, ctx) => Failed(cfg, ctx)'
      BY ProbesKept
    <3>2. cfg = rec'.cfg
      BY <2>1
    <3>3. QED
      BY <2>9, <3>1, <3>2
  <2>13. \A x : Done(x)' <=> Done(x)
    BY DEF Done
  <2>14. /\ env'.failed /\ ~env'.exhausted /\ ~Done("skipped")
         /\ env'.status \in {"failed", "pruned"}
         /\ IF env'.status = "pruned" THEN Done("failed") ELSE Failed(cfg, ctx)
    BY <1>1, <1>3, <2>1 DEF SearchedInv
  <2>15. QED
    BY <2>6, <2>10, <2>11, <2>12, <2>13, <2>14 DEF SearchedInv
<1>5. WalkInv'
  <2>1. FallbackBase' = BaseOf(rec.cfg, rows, Len(rows) + 1)'
    BY <1>1 DEF WalkInv, FallbackBase, BaseOf
  <2>2. \A x : Done(x)' <=> Done(x)
    BY DEF Done
  <2>3. ~Done("skipped")
    BY <1>1, <1>3 DEF SearchedInv
  <2>4. QED
    BY <1>1, <1>4, <2>1, <2>2, <2>3 DEF WalkInv
<1>6. QED
  BY <1>2, <1>5

(* A rung that is skipped, or that the configuration passed.               *)
LEMMA RungKept ==
    ASSUME SessionInv, RowsInv, WalkInv, ProbesGrow, UNCHANGED <<setting, pc, rec>>, InRung,
           \/ SkipRung
           \/ ExhaustPrimary
           \/ /\ MayAskPrimary /\ CloseRung("ok", <<>>) /\ UNCHANGED env
              /\ \E cfg, ctx : cfg = rec.cfg /\ ctx = Rung /\ Passed(cfg, ctx)'
    PROVE  RowsInv' /\ WalkInv'
<1>1. StageInv /\ setting \in Settings /\ pc = "envelope" /\ ~env.searching
  BY DEF SessionInv, SearchInv, InRung
<1>2. DOMAIN env = {"searching", "status", "failed", "fallback", "start", "total", "truncated",
                    "exhausted"}
  BY <1>1 DEF StageInv, NoRung
<1>3. PICK cfg, ctx, order : /\ cfg = rec.cfg /\ ctx = Rung
                             /\ order = RowCandidates(cfg, rows, Len(rows) + 1)
  OBVIOUS
<1>4. env.failed => Done("failed")
  BY <1>1 DEF WalkInv
<1>5. CASE SkipRung \/ ExhaustPrimary
  <2>1. /\ rows' = Append(rows, Row(ctx, "skipped", <<>>)) /\ UNCHANGED executed
        /\ \/ env' = [env EXCEPT !.truncated = TRUE] /\ (env.exhausted \/ TotalSpent)
           \/ env' = [env EXCEPT !.truncated = TRUE, !.exhausted = TRUE]
    BY <1>3, <1>5 DEF SkipRung, ExhaustPrimary, CloseRung, machineUse
  <2>2. /\ env'.searching = env.searching /\ env'.failed = env.failed /\ env'.truncated
        /\ env'.fallback = env.fallback /\ env'.total = env.total
        /\ env.exhausted => env'.exhausted
        /\ env'.exhausted \/ TotalSpent
    BY <1>2, <2>1
  <2>3. TotalSpent' = TotalSpent
    BY <2>1, <2>2 DEF TotalSpent
  <2>4. Done("skipped") => env'.exhausted \/ TotalSpent'
    BY <1>1, <2>2, <2>3 DEF WalkInv
  <2>5. Closable(cfg, ctx, order, "skipped", <<>>)
    BY <2>2, <2>3 DEF Closable
  <2>6. env'.searching = FALSE
    BY <1>1, <2>2 DEF StageInv
  <2>7. QED
    BY <1>1, <1>3, <1>4, <2>1, <2>2, <2>4, <2>5, <2>6, Closed
<1>6. CASE /\ MayAskPrimary /\ CloseRung("ok", <<>>) /\ UNCHANGED env
           /\ \E c, x : c = rec.cfg /\ x = Rung /\ Passed(c, x)'
  <2>1. rows' = Append(rows, Row(ctx, "ok", <<>>)) /\ Passed(cfg, ctx)'
    BY <1>3, <1>6 DEF CloseRung
  <2>2. ~env.exhausted /\ ~TotalSpent /\ ~env.failed
    BY <1>6 DEF MayAskPrimary
  <2>3. \A r \in DOMAIN rows : rows[r].status = "ok"
    <3>1. ~Done("skipped") /\ ~Done("failed") /\ ~Done("pruned")
      BY <1>1, <2>2 DEF WalkInv
    <3>2. \A r \in DOMAIN rows : rows[r].status \in {"ok", "skipped", "failed", "pruned"}
      BY <1>1 DEF WalkInv
    <3>3. QED
      BY <3>1, <3>2 DEF Done
  <2>4. Closable(cfg, ctx, order, "ok", <<>>)
    BY <2>1, <2>3 DEF Closable
  <2>5. ~Done("skipped")
    BY <2>3 DEF Done
  <2>6. env'.searching = FALSE
    BY <1>1, <1>6 DEF StageInv
  <2>7. QED
    BY <1>1, <1>3, <1>4, <1>6, <2>1, <2>4, <2>5, <2>6, Closed
<1>7. QED
  BY <1>5, <1>6

(* A rung that failed, and ends with a fallback or without.                *)
LEMMA FallbackKept ==
    ASSUME SessionInv, RowsInv, WalkInv, ProbesGrow, UNCHANGED <<setting, pc, rec>>, InFallbacks,
           \/ CloseWithoutFallback
           \/ /\ left # <<>> /\ CloseRung(env.status, <<Head(left)>>)
              /\ env' = [env EXCEPT !.searching = FALSE, !.fallback = <<Head(left)>>]
              /\ \E c, ctx : c = Head(left) /\ ctx = Rung /\ Passed(c, ctx)'
    PROVE  RowsInv' /\ WalkInv'
<1>1. /\ StageInv /\ setting \in Settings /\ IsSeq(left)
      /\ pc = "envelope" /\ env.searching /\ SearchedInv
  BY DEF SessionInv, SearchInv, WorkInv, InFallbacks, WalkInv
<1>2. DOMAIN env = {"searching", "status", "failed", "fallback", "start", "total", "truncated",
                    "exhausted"}
  BY <1>1 DEF StageInv, NoRung
<1>3. PICK cfg, ctx, order, status :
        /\ cfg = rec.cfg /\ ctx = Rung /\ order = RowCandidates(cfg, rows, Len(rows) + 1)
        /\ status = env.status
  OBVIOUS
<1>4. /\ env.failed /\ ~env.exhausted /\ ~Done("skipped") /\ status \in {"failed", "pruned"}
      /\ IF status = "pruned" THEN Done("failed") ELSE Failed(cfg, ctx)
  BY <1>1, <1>3 DEF SearchedInv
<1>5. IF status = "pruned" THEN Done("failed") ELSE Failed(cfg, ctx)'
  <2>1. Failed(cfg, ctx) => Failed(cfg, ctx)'
    BY ProbesKept
  <2>2. QED
    BY <1>4, <2>1
<1>6. Done("failed") \/ status = "failed"
  BY <1>1, <1>3, <1>4 DEF WalkInv
<1>7. PICK n \in 0..Len(order) : Behindhand(order, n)
  BY <1>1, <1>3 DEF SearchedInv
<1>8. /\ Len(left) = Len(order) - n /\ \A i \in 1..Len(left) : left[i] = order[n + i]
      /\ \A j \in 1..n : Failed(order[j], ctx)'
  <2>1. /\ Len(left) = Len(order) - n /\ \A i \in 1..Len(left) : left[i] = order[n + i]
        /\ \A j \in 1..n : Failed(order[j], ctx)
    BY <1>3, <1>7 DEF Behindhand
  <2>2. \A c : Failed(c, ctx) => Failed(c, ctx)'
    BY ProbesKept
  <2>3. QED
    BY <2>1, <2>2
<1>9. /\ Len(order) \in Nat /\ DOMAIN order = 1..Len(order)
      /\ left = <<>> <=> Len(left) = 0
      /\ left # <<>> => Head(left) = left[1] /\ Len(left) \in Nat
  BY <1>1, <1>3, CandidatesOfRung, SeqFacts
<1>10. CASE CloseWithoutFallback
  <2>1. /\ rows' = Append(rows, Row(ctx, status, <<>>))
        /\ \E t, x : /\ env' = [env EXCEPT !.searching = FALSE, !.truncated = t, !.exhausted = x]
                     /\ env.truncated => t
                     /\ left # <<>> => t
    <3>1. \E x : env' = [env EXCEPT !.searching = FALSE, !.truncated = @ \/ left # <<>>, !.exhausted = x]
      BY <1>10 DEF CloseWithoutFallback
    <3>2. rows' = Append(rows, Row(ctx, status, <<>>))
      BY <1>3, <1>10 DEF CloseWithoutFallback, CloseRung
    <3>3. QED
      BY <3>1, <3>2
  <2>2. /\ env'.searching = FALSE /\ env'.failed = env.failed /\ env'.fallback = env.fallback
        /\ env.truncated => env'.truncated
        /\ left # <<>> => env'.truncated
    BY <1>2, <2>1
  <2>3. env'.truncated \/ \A i \in DOMAIN order : Failed(order[i], ctx)'
    <3>1. CASE left # <<>>
      BY <2>2, <3>1
    <3>2. CASE left = <<>>
      <4>1. n = Len(order)
        BY <1>8, <1>9, <3>2
      <4>2. QED
        BY <1>8, <1>9, <4>1
    <3>3. QED
      BY <3>1, <3>2
  <2>4. Closable(cfg, ctx, order, status, <<>>)
    BY <1>4, <1>5, <2>3 DEF Closable
  <2>5. PICK fallback : fallback = <<>>
    OBVIOUS
  <2>6. /\ rows' = Append(rows, Row(ctx, status, fallback))
        /\ Closable(cfg, ctx, order, status, fallback)
        /\ env'.fallback = IF fallback = <<>> THEN env.fallback ELSE fallback
    BY <2>1, <2>2, <2>4, <2>5
  <2>7. QED
    BY <1>1, <1>3, <1>4, <1>6, <2>2, <2>6, Closed
<1>11. CASE /\ left # <<>> /\ CloseRung(env.status, <<Head(left)>>)
            /\ env' = [env EXCEPT !.searching = FALSE, !.fallback = <<Head(left)>>]
            /\ \E c, x : c = Head(left) /\ x = Rung /\ Passed(c, x)'
  <2>1. PICK c : c = Head(left) /\ Passed(c, ctx)'
    BY <1>3, <1>11
  <2>2. PICK fallback : fallback = <<c>>
    OBVIOUS
  <2>3. rows' = Append(rows, Row(ctx, status, fallback))
    BY <1>3, <1>11, <2>1, <2>2 DEF CloseRung
  <2>4. /\ env'.searching = FALSE /\ env'.failed = env.failed /\ env'.fallback = fallback
        /\ env'.truncated = env.truncated
    BY <1>2, <1>11, <2>1, <2>2
  <2>5. n + 1 \in DOMAIN order /\ order[n + 1] = c /\ \A j \in 1..((n + 1) - 1) : Failed(order[j], ctx)'
    <3>1. Len(left) \in Nat /\ Len(left) # 0 /\ c = left[1]
      BY <1>9, <1>11, <2>1
    <3>2. n + 1 \in DOMAIN order /\ 1 \in 1..Len(left)
      BY <1>8, <1>9, <3>1
    <3>3. order[n + 1] = c
      BY <1>8, <3>1, <3>2
    <3>4. QED
      BY <1>8, <3>2, <3>3
  <2>6. fallback # <<>>
    BY <2>2
  <2>7. \E i \in DOMAIN order :
           /\ fallback = <<order[i]>> /\ Passed(order[i], ctx)'
           /\ \A j \in 1..(i - 1) : Failed(order[j], ctx)'
    <3>1. Passed(order[n + 1], ctx)'
      BY <2>1, <2>5
    <3>2. QED
      BY <2>2, <2>5, <3>1
  <2>8. Closable(cfg, ctx, order, status, fallback)
    BY <1>4, <1>5, <2>6, <2>7 DEF Closable
  <2>9. QED
    BY <1>1, <1>3, <1>4, <1>6, <2>3, <2>4, <2>6, <2>8, Closed
<1>12. QED
  BY <1>10, <1>11

(* The steps of the envelope.                                              *)
LEMMA WalkKept ==
    ASSUME SessionInv, RowsInv, WalkInv, ProbesGrow,
           \/ SkipRung \/ RecallPrimary \/ ProbePrimary \/ ExhaustPrimary \/ PrunePrimary
           \/ RecallFallback \/ ProbeFallback \/ CloseWithoutFallback
    PROVE  RowsInv' /\ WalkInv'
<1>1. UNCHANGED <<setting, pc, rec>>
  BY DEF SkipRung, RecallPrimary, ProbePrimary, ExhaustPrimary, PrunePrimary, RecallFallback,
         ProbeFallback, CloseWithoutFallback, EnvelopeFrame, ascent
<1>2. StageInv /\ setting \in Settings /\ IsSeq(left) /\ JournalInv
  BY DEF SessionInv, SearchInv, WorkInv
<1>3. PICK cfg, ctx : cfg = rec.cfg /\ ctx = Rung
  OBVIOUS
<1>4. CASE SkipRung \/ ExhaustPrimary
  BY <1>1, <1>4, RungKept DEF SkipRung, ExhaustPrimary, MayAskPrimary
<1>5. CASE RecallPrimary \/ ProbePrimary
  <2>1. MayAskPrimary /\ \E status : /\ PrimaryHeard(status)
                                     /\ <<cfg, ctx>> \in DOMAIN probes'
                                     /\ probes'[<<cfg, ctx>>] = status
    <3>1. PICK key : key = <<cfg, ctx>> /\ key = Primary
      BY <1>3 DEF Primary
    <3>2. CASE RecallPrimary
      <4>1. MayAskPrimary /\ key \in DOMAIN probes /\ PrimaryHeard(probes[key])
        BY <3>1, <3>2 DEF RecallPrimary
      <4>2. key \in DOMAIN probes' /\ probes'[key] = probes[key]
        BY <4>1 DEF ProbesGrow
      <4>3. QED
        BY <3>1, <4>1, <4>2
    <3>3. CASE ProbePrimary
      <4>1. MayAskPrimary /\ \E status : PrimaryHeard(status) /\ probes' = With(probes, key, status)
        BY <1>3, <3>1, <3>3 DEF ProbePrimary, Probe
      <4>2. QED
        BY <3>1, <4>1 DEF With
    <3>4. QED
      BY <1>5, <3>2, <3>3
  <2>2. PICK status : /\ PrimaryHeard(status)
                      /\ <<cfg, ctx>> \in DOMAIN probes' /\ probes'[<<cfg, ctx>>] = status
    BY <2>1
  <2>3. InRung /\ ~env.exhausted /\ ~TotalSpent
    BY <2>1 DEF MayAskPrimary
  <2>4. CASE status = "ok"
    <3>1. Passed(cfg, ctx)'
      BY <2>2, <2>4 DEF Passed
    <3>2. CloseRung("ok", <<>>) /\ UNCHANGED env
      BY <2>2, <2>4 DEF PrimaryHeard
    <3>3. QED
      BY <1>1, <1>3, <2>1, <2>3, <3>1, <3>2, RungKept
  <2>5. CASE status # "ok"
    <3>1. Failed(cfg, ctx)'
      BY <2>2, <2>5 DEF Failed
    <3>2. LookForFallback("failed")
      BY <2>2, <2>5 DEF PrimaryHeard
    <3>3. PICK failed \in {"failed", "pruned"} : failed = "failed"
      OBVIOUS
    <3>4. LookForFallback(failed) /\ (IF failed = "pruned" THEN env.failed ELSE Failed(cfg, ctx)')
      BY <3>1, <3>2, <3>3
    <3>5. QED
      BY <1>1, <1>2, <1>3, <2>3, <3>4, Looked
  <2>6. QED
    BY <2>4, <2>5
<1>6. CASE PrunePrimary
  <2>1. InRung /\ ~env.exhausted /\ ~TotalSpent /\ env.failed /\ LookForFallback("pruned")
    BY <1>6 DEF PrunePrimary
  <2>2. PICK pruned \in {"failed", "pruned"} : pruned = "pruned"
    OBVIOUS
  <2>3. LookForFallback(pruned) /\ (IF pruned = "pruned" THEN env.failed ELSE Failed(cfg, ctx)')
    BY <2>1, <2>2
  <2>4. QED
    BY <1>1, <1>2, <1>3, <2>1, <2>3, Looked
<1>7. CASE RecallFallback \/ ProbeFallback
  <2>1. PICK c : c = Head(left)
    OBVIOUS
  <2>2. MayAskFallback /\ \E status : /\ FallbackHeard(status)
                                      /\ <<c, ctx>> \in DOMAIN probes'
                                      /\ probes'[<<c, ctx>>] = status
    <3>1. PICK key : key = <<c, ctx>> /\ key = Fallback
      BY <1>3, <2>1 DEF Fallback
    <3>2. CASE RecallFallback
      <4>1. MayAskFallback /\ key \in DOMAIN probes /\ FallbackHeard(probes[key])
        BY <3>1, <3>2 DEF RecallFallback
      <4>2. key \in DOMAIN probes' /\ probes'[key] = probes[key]
        BY <4>1 DEF ProbesGrow
      <4>3. QED
        BY <3>1, <4>1, <4>2
    <3>3. CASE ProbeFallback
      <4>1. MayAskFallback /\ \E status : FallbackHeard(status) /\ probes' = With(probes, key, status)
        BY <1>3, <2>1, <3>1, <3>3 DEF ProbeFallback, Probe
      <4>2. QED
        BY <3>1, <4>1 DEF With
    <3>4. QED
      BY <1>7, <3>2, <3>3
  <2>3. PICK status : /\ FallbackHeard(status)
                      /\ <<c, ctx>> \in DOMAIN probes' /\ probes'[<<c, ctx>>] = status
    BY <2>2
  <2>4. InFallbacks /\ left # <<>>
    BY <2>2 DEF MayAskFallback
  <2>5. CASE status = "ok"
    <3>1. Passed(c, ctx)'
      BY <2>3, <2>5 DEF Passed
    <3>2. /\ CloseRung(env.status, <<Head(left)>>)
          /\ env' = [env EXCEPT !.searching = FALSE, !.fallback = <<Head(left)>>]
      BY <2>3, <2>5 DEF FallbackHeard
    <3>3. QED
      BY <1>1, <1>3, <2>1, <2>4, <3>1, <3>2, FallbackKept
  <2>6. CASE status # "ok"
    <3>1. Failed(c, ctx)'
      BY <2>3, <2>6 DEF Failed
    <3>2. left' = Tail(left) /\ UNCHANGED <<rows, env>>
      BY <2>3, <2>6 DEF FallbackHeard
    <3>3. QED
      BY <1>1, <1>2, <1>3, <2>1, <2>4, <3>1, <3>2, CandidateFailed
  <2>7. QED
    BY <2>5, <2>6
<1>8. CASE CloseWithoutFallback
  <2>1. InFallbacks
    BY <1>8 DEF CloseWithoutFallback
  <2>2. QED
    BY <1>1, <1>8, <2>1, FallbackKept
<1>9. QED
  BY <1>4, <1>5, <1>6, <1>7, <1>8

(* The required context is the first row.                                  *)
LEMMA EnvelopeBegins ==
    ASSUME SessionInv, ValidInv, RowsInv, ProbesGrow, GateDone
    PROVE  RowsInv' /\ WalkInv'
<1>1. UNCHANGED <<setting, rec, marks, executed>> /\ pc = "gate" /\ rows = <<>>
  <2>1. pc \in Live \ EnvelopeStages
    BY DEF GateDone, Live, FinalStages, EnvelopeStages
  <2>2. QED
    BY <2>1 DEF GateDone, RowsInv, ascent, evidence, machineUse
<1>2. CASE pc' = "publish" /\ UNCHANGED <<rows, env>>
  <2>1. DOMAIN rows' = {} /\ pc' \in EnvelopeStages /\ pc' # "envelope"
    BY <1>1, <1>2 DEF EnvelopeStages
  <2>2. QED
    BY <2>1 DEF RowsInv, WalkInv
<1>3. CASE ~(pc' = "publish" /\ UNCHANGED <<rows, env>>)
  <2>1. /\ rec.confirmed /\ setting.ctx # NoCtx
        /\ pc' = "envelope"
        /\ rows' = <<Row(setting.ctx, "ok", <<>>)>>
        /\ env' = [NoRung EXCEPT !.total = executed]
    BY <1>3 DEF GateDone
  <2>2. PICK cfg, ctx, row, t : /\ cfg = rec.cfg /\ ctx = setting.ctx
                                /\ row = Row(ctx, "ok", <<>>) /\ t = <<row>>
    OBVIOUS
  <2>3. /\ rows' = t /\ DOMAIN t = {1} /\ Len(t) = 1 /\ t[1] = row
        /\ row.ctx = ctx /\ row.status = "ok" /\ row.fallback = <<>>
    BY <2>1, <2>2 DEF Row
  <2>4. ~env'.searching /\ ~env'.failed /\ env'.fallback = <<>> /\ ~env'.truncated
    BY <2>1 DEF NoRung
  <2>5. Passed(cfg, ctx)'
    <3>1. Passed(cfg, ctx)
      BY <2>1, <2>2 DEF ValidInv
    <3>2. QED
      BY <1>1, <3>1, ProbesKept
  <2>6. PICK after : after = Cut'
    OBVIOUS
  <2>7. RowIsTrue(cfg, t, 1, after)'
    BY <2>3, <2>5 DEF RowIsTrue
  <2>8. RowsInv'
    <3>1. pc' \in EnvelopeStages /\ pc' \notin Live \ EnvelopeStages
      BY <2>1 DEF EnvelopeStages
    <3>2. cfg = rec'.cfg /\ ctx = setting'.ctx
      BY <1>1, <2>2
    <3>3. QED
      BY <2>3, <2>6, <2>7, <3>1, <3>2 DEF RowsInv
  <2>9. FallbackBase' = BaseOf(rec.cfg, rows, Len(rows) + 1)'
    <3>1. {q \in 1..((1 + 1) - 1) : t[q].fallback # <<>>} = {}
      BY <2>3
    <3>2. BaseOf(cfg, t, 1 + 1) = cfg
      BY <3>1 DEF BaseOf
    <3>3. cfg = rec'.cfg /\ t = rows' /\ Len(rows') + 1 = 1 + 1
      BY <1>1, <2>2, <2>3
    <3>4. BaseOf(rec.cfg, rows, Len(rows) + 1)' = cfg
      BY <3>2, <3>3 DEF BaseOf
    <3>5. QED
      BY <1>1, <2>2, <2>4, <3>4 DEF FallbackBase
  <2>10. WalkInv'
    <3>1. \A x : Done(x)' <=> x = "ok"
      BY <2>3 DEF Done
    <3>2. SearchedInv'
      BY <2>4 DEF SearchedInv
    <3>3. /\ Len(rows') >= 1
          /\ \A r \in DOMAIN rows' : rows'[r].status \in {"ok", "skipped", "failed", "pruned"}
      BY <2>3
    <3>4. ~Done("skipped")' /\ ~Done("failed")' /\ ~Done("pruned")'
      BY <3>1
    <3>5. QED
      BY <2>4, <2>9, <3>2, <3>3, <3>4 DEF WalkInv
  <2>11. QED
    BY <2>8, <2>10
<1>4. QED
  BY <1>2, <1>3

(* The rungs ascend.                                                       *)
LEMMA RungFacts ==
    ASSUME StageInv, setting \in Settings, RowsInv, pc \in EnvelopeStages
    PROVE  /\ DOMAIN rows = 1..Len(rows) /\ Len(rows) \in Nat
           /\ \A r \in DOMAIN rows : rows[r].ctx \in Nat /\ setting.ctx <= rows[r].ctx
           /\ \A p, r \in DOMAIN rows : p <= r => rows[p].ctx <= rows[r].ctx
           /\ \A i \in DOMAIN setting.ladder, r \in DOMAIN rows :
                 /\ setting.ctx < setting.ladder[i] /\ setting.ladder[i] \in Nat
                 /\ setting.ladder[i] <= rows[r].ctx =>
                       i + 1 \in DOMAIN rows /\ i + 1 <= r /\ rows[i + 1].ctx = setting.ladder[i]
<1>1. PICK s, n, l, m, c : /\ s = rows /\ n = Len(rows)
                           /\ l = setting.ladder /\ m = Len(setting.ladder) /\ c = setting.ctx
  OBVIOUS
<1>2. /\ n \in Nat /\ DOMAIN s = 1..n /\ n <= m + 1
  BY <1>1, SeqFacts DEF StageInv
<1>3. /\ m \in Nat /\ DOMAIN l = 1..m /\ c \in Nat
      /\ \A i \in 1..m : l[i] \in Nat
  <2>1. l \in Seq(Nat) /\ c \in Nat
    BY <1>1, SettingFacts
  <2>2. m \in Nat /\ DOMAIN l = 1..m /\ \A i \in 1..m : l[i] \in Nat
    BY <1>1, <2>1
  <2>3. QED
    BY <2>1, <2>2
<1>4. \A i \in 1..m : c < l[i] /\ \A j \in 1..(i - 1) : l[j] < l[i]
  <2>1. \A i \in DOMAIN l : c < l[i] /\ \A j \in 1..(i - 1) : l[j] < l[i]
    BY <1>1, LadderAssumption
  <2>2. QED
    BY <1>3, <2>1
<1>5. \A r \in 1..n : s[r].ctx = IF r = 1 THEN c ELSE l[r - 1]
  BY <1>1, <1>2 DEF RowsInv
<1>6. \A r \in 1..n : s[r].ctx \in Nat /\ c <= s[r].ctx
  <2> TAKE r \in 1..n
  <2>1. CASE r = 1
    BY <1>3, <1>5, <2>1
  <2>2. CASE r # 1
    <3>1. r - 1 \in 1..m
      BY <1>2, <1>3, <2>2
    <3>2. l[r - 1] \in Nat /\ c < l[r - 1]
      BY <1>3, <1>4, <3>1
    <3>3. QED
      BY <1>3, <1>5, <2>2, <3>2
  <2>3. QED
    BY <2>1, <2>2
<1>7. \A p, r \in 1..n : p <= r => s[p].ctx <= s[r].ctx
  <2> SUFFICES ASSUME NEW p \in 1..n, NEW r \in 1..n, p <= r
               PROVE  s[p].ctx <= s[r].ctx
    OBVIOUS
  <2>1. CASE p = r
    BY <1>6, <2>1
  <2>2. CASE p = 1
    BY <1>5, <1>6, <2>2
  <2>3. CASE p # r /\ p # 1
    <3>1. r - 1 \in 1..m /\ p - 1 \in 1..((r - 1) - 1)
      BY <1>2, <1>3, <2>3
    <3>2. l[p - 1] < l[r - 1]
      BY <1>4, <3>1
    <3>3. s[p].ctx = l[p - 1] /\ s[r].ctx = l[r - 1]
      BY <1>2, <1>5, <2>3
    <3>4. QED
      BY <1>6, <3>2, <3>3
  <2>4. QED
    BY <2>1, <2>2, <2>3
<1>8. ASSUME NEW i \in 1..m, NEW r \in 1..n, l[i] <= s[r].ctx
      PROVE  i + 1 \in 1..n /\ i + 1 <= r /\ s[i + 1].ctx = l[i]
  <2>1. r # 1
    BY <1>3, <1>4, <1>5, <1>8
  <2>2. s[r].ctx = l[r - 1] /\ r - 1 \in 1..m
    BY <1>2, <1>3, <1>5, <2>1
  <2>3. i <= r - 1
    <3>1. SUFFICES ASSUME ~(i <= r - 1)
                   PROVE  FALSE
      OBVIOUS
    <3>2. r - 1 \in 1..(i - 1)
      BY <1>3, <2>2, <3>1
    <3>3. l[r - 1] < l[i] /\ l[r - 1] \in Nat /\ l[i] \in Nat
      BY <1>3, <1>4, <2>2, <3>2
    <3>4. QED
      BY <1>8, <2>2, <3>3
  <2>4. i + 1 \in 1..n /\ i + 1 <= r
    BY <1>2, <1>3, <2>2, <2>3
  <2>5. s[i + 1].ctx = l[(i + 1) - 1]
    BY <1>3, <1>5, <2>4
  <2>6. QED
    BY <1>3, <2>4, <2>5
<1>9. QED
  BY <1>1, <1>2, <1>3, <1>4, <1>6, <1>7, <1>8

(* The largest context the configuration itself passed, and every smaller  *)
(* rung.                                                                   *)
LEMMA MaxIsValidated ==
    ASSUME StageInv, setting \in Settings, ValidInv, RowsInv, pc \in EnvelopeStages,
           rec.confirmed, setting.ctx # NoCtx,
           NEW ctx \in {setting.ctx} \cup Range(setting.ladder), ctx <= MaxValidated
    PROVE  Passed(rec.cfg, ctx)
<1> DEFINE ok == {q \in DOMAIN rows : rows[q].status = "ok"}
           all == {rows[r].ctx : r \in ok} \cup {setting.ctx}
<1>1. MaxValidated = CHOOSE c \in all : \A d \in all : d <= c
  BY DEF MaxValidated
<1>2. /\ DOMAIN rows = 1..Len(rows) /\ Len(rows) \in Nat
      /\ \A r \in DOMAIN rows : rows[r].ctx \in Nat /\ setting.ctx <= rows[r].ctx
      /\ \A p, r \in DOMAIN rows : p <= r => rows[p].ctx <= rows[r].ctx
  BY RungFacts
<1>3. setting.ctx \in Nat /\ ok \in SUBSET (1..Len(rows))
  BY <1>2, SettingFacts
<1>4. \A d : d \in all <=> d = setting.ctx \/ \E r \in ok : d = rows[r].ctx
  OBVIOUS
<1>5. \A r : r \in ok <=> r \in DOMAIN rows /\ rows[r].status = "ok"
  OBVIOUS
<1> HIDE DEF ok, all
<1>6. \E c \in all : \A d \in all : d <= c
  <2>1. CASE ok = {}
    BY <1>3, <1>4, <2>1
  <2>2. CASE ok # {}
    <3>1. PICK m \in ok : \A p \in ok : p <= m
      <4>1. PICK n \in Nat : n = Len(rows)
        BY <1>2
      <4>2. ok \in SUBSET (1..n)
        BY <1>3, <4>1
      <4>3. QED
        BY <2>2, <4>2, LargestOf
    <3>2. rows[m].ctx \in all /\ setting.ctx <= rows[m].ctx /\ \A p \in ok : rows[p].ctx <= rows[m].ctx
      BY <1>2, <1>4, <1>5, <3>1
    <3>3. QED
      BY <1>4, <3>2
  <2>3. QED
    BY <2>1, <2>2
<1>7. MaxValidated \in all
  BY <1>1, <1>6
<1>8. CASE ctx = setting.ctx
  BY <1>8 DEF ValidInv
<1>9. CASE ctx # setting.ctx
  <2>1. PICK i \in DOMAIN setting.ladder : ctx = setting.ladder[i]
    BY <1>9 DEF Range
  <2>2. setting.ctx < ctx /\ ctx \in Nat
    BY <1>3, <2>1, LadderAssumption, SettingFacts, ElementOfSeq
  <2>3. PICK r \in ok : MaxValidated = rows[r].ctx
    BY <1>3, <1>4, <1>7, <2>2
  <2>4. r \in DOMAIN rows /\ rows[r].status = "ok"
    BY <1>5, <2>3
  <2>5. i + 1 \in DOMAIN rows /\ i + 1 <= r /\ rows[i + 1].ctx = ctx
    BY <2>1, <2>3, <2>4, RungFacts
  <2>6. rows[i + 1].status = "ok"
    <3>1. CASE i + 1 = r
      BY <2>4, <3>1
    <3>2. CASE i + 1 # r
      <4>1. i + 1 \in 1..(r - 1)
        BY <1>2, <2>4, <2>5, <3>2
      <4>2. QED
        BY <2>4, <4>1 DEF RowsInv
    <3>3. QED
      BY <3>1, <3>2
  <2>7. PICK q, cfg, s, cut : q = i + 1 /\ cfg = rec.cfg /\ s = rows /\ cut = Cut
    OBVIOUS
  <2>8. RowIsTrue(cfg, s, q, cut) /\ s[q].status = "ok" /\ s[q].ctx = ctx
    BY <2>5, <2>6, <2>7 DEF RowsInv
  <2>9. QED
    BY <2>7, <2>8 DEF RowIsTrue
<1>10. QED
  BY <1>8, <1>9

(* What is published is what was asked.                                    *)
LEMMA PublishedKept ==
    ASSUME SessionInv, ValidInv, RowsInv, EnvelopeIsTrue, ProbesGrow, Publish
    PROVE  EnvelopeIsTrue'
<1>1. /\ StageInv /\ setting \in Settings /\ pc = "publish" /\ pc \in EnvelopeStages
      /\ UNCHANGED <<setting, marks>>
  BY DEF SessionInv, SearchInv, Publish, EnvelopeStages, ascent, evidence
<1>2. PICK cfg, s, cut, c : /\ cfg = rec.cfg /\ s = rows /\ cut = ("envelope_truncated" \in marks)
                            /\ c = MaxValidated
  OBVIOUS
<1>3. ASSUME NEW r \in DOMAIN s
      PROVE  RowIsTrue(cfg, s, r, cut)'
  <2>1. RowIsTrue(cfg, s, r, cut)
    BY <1>1, <1>2, <1>3 DEF RowsInv, Cut
  <2>2. QED
    BY <1>1, <2>1, ProbesKept
<1>4. analysis'.cfg = cfg /\ analysis'.rows = s /\ cut = ("envelope_truncated" \in marks)'
  BY <1>1, <1>2 DEF Publish
<1>5. ASSUME NEW record \in registry', record.ctx # NoCtx,
             NEW ctx \in {setting.ctx} \cup Range(setting.ladder), ctx <= record.ctx
      PROVE  Passed(record.cfg, ctx)'
  <2>1. Passed(record.cfg, ctx)
    <3>1. CASE record \in registry
      BY <1>5, <3>1 DEF EnvelopeIsTrue
    <3>2. CASE record \notin registry
      <4>1. rec.confirmed /\ record = [cfg |-> cfg, ctx |-> c]
        BY <1>2, <1>5, <3>2 DEF Publish
      <4>2. setting.ctx # NoCtx
        BY <1>2, <1>5, <4>1 DEF MaxValidated
      <4>3. Passed(rec.cfg, ctx)
        BY <1>1, <1>2, <1>5, <4>1, <4>2, MaxIsValidated
      <4>4. QED
        BY <1>2, <4>1, <4>3
    <3>3. QED
      BY <3>1, <3>2
  <2>2. QED
    BY <1>1, <2>1, ProbesKept
<1>6. QED
  BY <1>1, <1>3, <1>4, <1>5 DEF EnvelopeIsTrue

(* The rungs of an envelope are kept by every step.                        *)
LEMMA RungsKept ==
    ASSUME SessionInv, ValidInv, RowsInv, WalkInv, [Next]_vars
    PROVE  RowsInv' /\ WalkInv'
<1>1. ProbesGrow /\ UNCHANGED setting
  BY SessionGrows
<1> USE DEF FinalStages
<1>2. ASSUME UNCHANGED <<rows, rec>>, pc' # "envelope",
             \/ pc' \notin Live
             \/ pc \in Live \ EnvelopeStages /\ pc' \in Live \ EnvelopeStages
             \/ pc \in EnvelopeStages /\ pc' \in EnvelopeStages /\ (Cut => Cut')
      PROVE  RowsInv' /\ WalkInv'
  BY <1>1, <1>2, RowsKept DEF WalkInv
<1>3. CASE (Begin \/ SearchStep) /\ UNCHANGED finalMemory
  <2>1. pc \in Live \ EnvelopeStages /\ pc' \in Live \ EnvelopeStages
    BY <1>3, SearchWork DEF Searching, SearchStages, EnvelopeStages, Live
  <2>2. pc' # "envelope"
    BY <2>1 DEF EnvelopeStages
  <2>3. QED
    BY <1>2, <1>3, <2>1, <2>2 DEF finalMemory
<1>4. CASE \/ EndSearch \/ Validate \/ RefuseConfirmation \/ RecallConfirmation \/ Confirm
           \/ DepthRun \/ DepthDone \/ ValidateWithCli
  <2>1. /\ pc \in Live \ EnvelopeStages /\ pc' \in Live \ EnvelopeStages /\ pc' # "envelope"
        /\ UNCHANGED rows
    BY <1>4 DEF EndSearch, Validate, RefuseConfirmation, RecallConfirmation, Confirm, DepthRun,
       DepthDone, ValidateWithCli, AfterConfirm, finalMemory, EnvelopeStages, Live
  <2>2. PICK s : s = rows /\ s = rows'
    BY <2>1
  <2>3. s = <<>>
    BY <2>1, <2>2 DEF RowsInv
  <2>4. QED
    BY <2>1, <2>2, <2>3 DEF RowsInv, WalkInv
<1>5. CASE GateRun
  <2>1. /\ pc \in Live \ EnvelopeStages /\ pc' \in Live \ EnvelopeStages /\ pc' # "envelope"
        /\ UNCHANGED <<rows, rec>>
    BY <1>5 DEF GateRun, EnvelopeStages, Live
  <2>2. QED
    BY <1>2, <2>1
<1>6. CASE GateDone
  BY <1>1, <1>6, EnvelopeBegins
<1>7. CASE \/ SkipRung \/ RecallPrimary \/ ProbePrimary \/ ExhaustPrimary \/ PrunePrimary
           \/ RecallFallback \/ ProbeFallback \/ CloseWithoutFallback
  BY <1>1, <1>7, WalkKept
<1>8. CASE EndEnvelope
  <2>1. /\ pc = "envelope" /\ pc' = "lossless" /\ UNCHANGED <<rows, rec>>
        /\ env.truncated => "envelope_truncated" \in marks'
    BY <1>8 DEF EndEnvelope
  <2>2. Cut => Cut'
    BY <2>1 DEF Cut
  <2>3. QED
    BY <1>2, <2>1, <2>2 DEF EnvelopeStages
<1>9. CASE LosslessProbe \/ LosslessDone
  <2>1. /\ pc = "lossless" /\ pc' \in {"lossless", "publish"} /\ UNCHANGED <<rows, rec, marks>>
    BY <1>9 DEF LosslessProbe, LosslessDone, finalMemory, evidence
  <2>2. Cut => Cut'
    BY <2>1 DEF Cut
  <2>3. QED
    BY <1>2, <2>1, <2>2 DEF EnvelopeStages
<1>10. CASE Publish \/ Crash
  <2>1. UNCHANGED <<rows, rec>> /\ pc' \in {"ended", "down"}
    BY <1>10 DEF Publish, Crash, finalMemory
  <2>2. pc' \notin Live
    BY <2>1 DEF Live, SearchStages
  <2>3. QED
    BY <1>2, <2>1, <2>2
<1>11. CASE Resume
  <2>1. rows' = <<>> /\ pc' = "discovered"
    BY <1>11 DEF Resume, SearchRestart, FreshFinal
  <2>2. pc' \notin EnvelopeStages /\ pc' # "envelope"
    BY <2>1 DEF EnvelopeStages
  <2>3. QED
    BY <2>1, <2>2 DEF RowsInv, WalkInv
<1>12. CASE Revalidate
  <2>1. UNCHANGED <<rows, rec>> /\ pc' \in {"ended", "down"}
    BY <1>12 DEF Revalidate, finalMemory, stage
  <2>2. pc' \notin Live
    BY <2>1 DEF Live, SearchStages
  <2>3. QED
    BY <1>2, <2>1, <2>2
<1>13. CASE Interrupt \/ Expire \/ UNCHANGED vars
  <2>1. UNCHANGED <<setting, pc, rows, rec, env, left, executed, marks, probes>>
    BY <1>13 DEF Interrupt, Expire, stage, journal, evidence, finalMemory, vars, searchVars
  <2>2. RowsInv'
    <3>1. Cut => Cut'
      BY <2>1 DEF Cut
    <3>2. CASE pc \notin Live
      BY <1>1, <2>1, <3>2, RowsKept
    <3>3. CASE pc \in Live
      BY <1>1, <2>1, <3>1, <3>3, RowsKept
    <3>4. QED
      BY <3>2, <3>3
  <2>3. WalkInv'
    <3>1. FallbackBase' = FallbackBase /\ (TotalSpent' = TotalSpent) /\ Rung' = Rung
      BY <2>1 DEF FallbackBase, TotalSpent, Rung
    <3>2. \A x : Done(x)' <=> Done(x)
      BY <2>1 DEF Done
    <3>3. PICK cfg, s, r, order, ctx :
              /\ cfg = rec.cfg /\ s = rows /\ r = Len(rows) + 1 /\ order = RowCandidates(cfg, s, r)
              /\ ctx = Rung
      OBVIOUS
    <3>4. RowCandidates(rec.cfg, rows, Len(rows) + 1)' = order
      <4>1. RowCandidates(cfg, s, r)' = order
        BY <1>1, <3>3, ProbesKept
      <4>2. cfg = rec'.cfg /\ s = rows' /\ r = Len(rows') + 1
        BY <2>1, <3>3
      <4>3. QED
        BY <4>1, <4>2
    <3>5. \A c : Failed(c, ctx)' <=> Failed(c, ctx)
      BY <2>1 DEF Failed
    <3>6. Failed(rec.cfg, Rung)' <=> Failed(cfg, ctx)
      BY <2>1, <3>1, <3>3 DEF Failed
    <3>7. \A n : Behindhand(order, n)' <=> Behindhand(order, n)
      <4>1. Rung' = ctx /\ left' = left
        BY <2>1, <3>1, <3>3
      <4>2. \A n : Behindhand(order, n)' <=>
                      /\ Len(left) = Len(order) - n
                      /\ \A i \in 1..Len(left) : left[i] = order[n + i]
                      /\ \A j \in 1..n : Failed(order[j], ctx)
        BY <3>5, <4>1 DEF Behindhand
      <4>3. \A n : Behindhand(order, n) <=>
                      /\ Len(left) = Len(order) - n
                      /\ \A i \in 1..Len(left) : left[i] = order[n + i]
                      /\ \A j \in 1..n : Failed(order[j], ctx)
        BY <3>3 DEF Behindhand
      <4>4. QED
        BY <4>2, <4>3
    <3>8. SearchedInv => SearchedInv'
      BY <2>1, <3>2, <3>3, <3>4, <3>6, <3>7 DEF SearchedInv
    <3>9. BaseOf(rec.cfg, rows, Len(rows) + 1)' = BaseOf(rec.cfg, rows, Len(rows) + 1)
      BY <2>1 DEF BaseOf
    <3>10. QED
      BY <2>1, <3>1, <3>2, <3>8, <3>9 DEF WalkInv
  <2>4. QED
    BY <2>2, <2>3
<1>14. QED
  BY <1>3, <1>4, <1>5, <1>6, <1>7, <1>8, <1>9, <1>10, <1>11, <1>12, <1>13
     DEF Next, Step, FinalStep, Finished, finalMemory

(* So is what has been written.                                            *)
LEMMA EnvelopeKept ==
    ASSUME SessionInv, EnvInv, [Next]_vars
    PROVE  EnvInv'
<1>1. ProbesGrow /\ UNCHANGED setting
  BY SessionGrows
<1>2. ValidInv' /\ RowsInv' /\ WalkInv'
  BY ValidKept, RungsKept DEF EnvInv
<1>3. CASE Publish
  BY <1>1, <1>2, <1>3, PublishedKept DEF EnvInv
<1>4. CASE ~Publish
  <2>1. UNCHANGED <<analysis, registry>> /\ marks \subseteq marks'
    <3>1. CASE (Begin \/ SearchStep) /\ UNCHANGED <<disk, evidence>>
      BY <3>1 DEF disk, evidence
    <3>2. CASE FinalStep
      BY <1>4, <3>2 DEF FinalStep, EndSearch, Validate, RefuseConfirmation, RecallConfirmation,
         Confirm, DepthRun, DepthDone, ValidateWithCli, GateRun, GateDone, SkipRung, RecallPrimary,
         ProbePrimary, ExhaustPrimary, PrunePrimary, RecallFallback, ProbeFallback,
         CloseWithoutFallback, EndEnvelope, LosslessProbe, LosslessDone, EnvelopeFrame, disk, evidence
    <3>3. CASE Interrupt \/ Expire \/ Crash \/ Resume \/ Revalidate \/ UNCHANGED vars
      BY <3>3 DEF Interrupt, Expire, Crash, Resume, Revalidate, vars, disk, evidence
    <3>4. QED
      BY <3>1, <3>2, <3>3 DEF Next, Step, Finished
  <2>2. QED
    BY <1>1, <1>2, <2>1, WrittenKept DEF EnvInv
<1>5. QED
  BY <1>3, <1>4

(***************************************************************************)
(* The written envelope is evidence, whatever machine it was walked on,    *)
(* and so is the context of a registry record: the invariant that says so  *)
(* of an envelope still under way, of the candidates behind and ahead of   *)
(* the rung it is at, and of the configuration recommended.                *)
(***************************************************************************)
THEOREM EnvelopeHolds == Spec => []EnvelopeIsTrue
<1>1. Init => EnvInv
  <2> SUFFICES ASSUME Init
               PROVE  EnvInv
    OBVIOUS
  <2>1. /\ analysis = None /\ registry = {} /\ ~valid /\ ~rec.confirmed /\ rows = <<>>
        /\ pc = "discovered"
    BY DEF Init, SearchInit, NoRec
  <2>2. QED
    BY <2>1 DEF EnvInv, ValidInv, RowsInv, WalkInv, EnvelopeIsTrue, EnvelopeStages
<1>2. SessionInv /\ EnvInv /\ [Next]_vars => EnvInv'
  BY EnvelopeKept
<1>3. EnvInv => EnvelopeIsTrue
  BY DEF EnvInv
<1>4. QED
  BY <1>1, <1>2, <1>3, Inductive, PTL DEF Spec

----------------------------------------------------------------------------
(* What a later process hears again.                                       *)
(*                                                                         *)
(* As long as nothing but placements and sweeps promotes anything, a stage *)
(* leads to the next one as the journal says: the stages a process went    *)
(* through are a trace that any later process of the session follows, and  *)
(* the best incumbent of a trace is never lost.                            *)

Replayed == {"split", "sweep", "thread"}

\* A stage: what is still to try, and what there is to beat.
Entered(name, pass, dim, gauge, inc) ==
    [pc |-> name,
     at |-> [pass |-> pass, dim |-> dim, gauge |-> gauge, moe |-> inc.cfg.moe_cpu_layers],
     todo |-> Mutations(name, Dimensions[dim], inc.cfg), best |-> inc, incumbent |-> inc]

StartStage == Entered(IF setting.gpu THEN "split" ELSE "sweep", 1, 1, setting.start.score,
                      setting.start)

CurrentStage == [pc |-> pc, at |-> at, todo |-> todo, best |-> best, incumbent |-> incumbent]

NextOf(s) == Applied(Head(s.todo), s.incumbent.cfg)
DimOf(s) == Dimensions[s.at.dim]

\* A sweep has nothing to hear of it.
PassedOver(s, cfg) == s.pc = "sweep" /\ (cfg = s.incumbent.cfg \/ ~Valid(cfg))

\* The journal says all there is to know of it.
Answered(s, cfg) ==
    /\ Measured(cfg)
    /\ s.pc = "sweep" /\ trials[cfg].status = "ok" =>
          /\ DimOf(s) # "mmap"
          /\ DimOf(s) \in ProbedDims => <<cfg, setting.ctx>> \in DOMAIN probes

Ready(s) ==
    /\ s.pc \in Replayed
    /\ s.todo # <<>> => \/ PassedOver(s, NextOf(s)) \/ Answered(s, NextOf(s))
                        \/ s.pc = "thread" /\ NextOf(s) = s.incumbent.cfg

\* It is better than what the stage has, and passed what its dimension asks for.
Wins(s, cfg) ==
    /\ s.pc \in {"split", "sweep"} /\ ~PassedOver(s, cfg)
    /\ trials[cfg].status = "ok"
    /\ trials[cfg].score > IF s.pc = "split" THEN s.incumbent.score ELSE s.best.score
    /\ s.pc = "sweep" /\ DimOf(s) \in ProbedDims => probes[<<cfg, setting.ctx>>] = "ok"

\* One candidate heard.
Heard(s) ==
    LET won == [cfg |-> NextOf(s), score |-> trials[NextOf(s)].score]
    IN  [pc |-> s.pc, at |-> s.at, todo |-> Tail(s.todo),
         best |-> IF s.pc = "sweep" /\ Wins(s, NextOf(s)) THEN won ELSE s.best,
         incumbent |-> IF s.pc = "split" /\ Wins(s, NextOf(s)) THEN won ELSE s.incumbent]

\* The incumbent a stage leaves.
Gain(s) ==
    IF s.pc = "sweep" /\ Beats(s.best.score, s.incumbent.score)
    THEN [cfg |-> s.best.cfg, score |-> s.best.score] ELSE s.incumbent

Onward(s, inc) ==
    IF s.at.dim < Len(Dimensions) THEN Entered("sweep", s.at.pass, s.at.dim + 1, s.at.gauge, inc)
    ELSE IF s.at.pass = MaxPasses \/ inc.score * 100 < s.at.gauge * (100 + Noise)
         THEN Entered("pairwise", s.at.pass, s.at.dim, s.at.gauge, inc)
         ELSE Entered("sweep", s.at.pass + 1, 1, inc.score, inc)

Closing(s) ==
    CASE s.pc = "split" -> Entered("sweep", 1, 1, Gain(s).score, Gain(s))
      [] s.pc = "sweep" /\ DimOf(s) \in ThreadDims ->
            Entered("thread", s.at.pass, s.at.dim, s.at.gauge, Gain(s))
      [] OTHER -> Onward(s, Gain(s))

After(s) == IF s.todo # <<>> THEN Heard(s) ELSE Closing(s)

\* n stages, each the one the journal leads to.
Trace(T, n) ==
    /\ T[0] = StartStage
    /\ \A j \in 0..(n - 1) : Ready(T[j]) /\ T[j + 1] = After(T[j])

\* What is being judged is new to the sweep, and was checked as its dimension asks.
Consistent ==
    heard # None =>
        /\ pc \in {"sweep", "thread"} => heard.cfg # incumbent.cfg
        /\ IF heard.checked
           THEN /\ pc = "sweep" /\ Dim \in ProbedDims
                /\ <<heard.cfg, setting.ctx>> \in DOMAIN probes
                /\ heard.allowed = (probes[<<heard.cfg, setting.ctx>>] = "ok")
           ELSE heard.allowed

Matches(s) == s = CurrentStage /\ Consistent


(* What a stage proposes depends on the command line only.                 *)
LEMMA MutationsSame ==
    ASSUME UNCHANGED setting
    PROVE  \A name \in Replayed \cup {"pairwise"} : \A d, c :
              Mutations(name, d, c)' = Mutations(name, d, c)
<1>1. Placements' = Placements
  BY DEF Placements, Crossed
<1>2. \A d, c : Candidates(d, c)' = Candidates(d, c)
  BY CandidatesSame
<1>3. \A d, c : Refinements(d, c)' = Refinements(d, c)
  BY DEF Refinements, ThreadValues, Applicable, ThreadCandidates
<1>4. SUFFICES ASSUME NEW name \in Replayed \cup {"pairwise"}, NEW d, NEW c
               PROVE  Mutations(name, d, c)' = Mutations(name, d, c)
  OBVIOUS
<1>5. CASE name = "split"
  BY <1>1, <1>5 DEF Mutations
<1>6. CASE name = "sweep"
  BY <1>2, <1>6 DEF Mutations
<1>7. CASE name = "thread"
  BY <1>3, <1>7 DEF Mutations
<1>8. CASE name = "pairwise"
  BY <1>8 DEF Mutations, PairwiseMutations, Crossed
<1>9. QED
  BY <1>4, <1>5, <1>6, <1>7, <1>8 DEF Replayed

(* A stage begins the same in every process.                               *)
LEMMA EnteredSame ==
    ASSUME UNCHANGED setting
    PROVE  \A name \in Replayed \cup {"pairwise"} : \A pass, dim, gauge, inc :
              Entered(name, pass, dim, gauge, inc)' = Entered(name, pass, dim, gauge, inc)
<1>1. SUFFICES ASSUME NEW name \in Replayed \cup {"pairwise"},
                      NEW pass, NEW dim, NEW gauge, NEW inc
               PROVE  Entered(name, pass, dim, gauge, inc)' = Entered(name, pass, dim, gauge, inc)
  OBVIOUS
<1>2. \A d, c : Mutations(name, d, c)' = Mutations(name, d, c)
  BY MutationsSame
<1>3. QED
  BY <1>2 DEF Entered

(* What the journal says once, it says again.                              *)
LEMMA StagesSame ==
    ASSUME JournalGrows, UNCHANGED setting
    PROVE  /\ StartStage' = StartStage
           /\ \A s : Ready(s) => Ready(s)' /\ After(s)' = After(s)
<1>1. StartStage' = StartStage
  BY EnteredSame DEF StartStage, Replayed
<1>2. SUFFICES ASSUME NEW s, Ready(s)
               PROVE  Ready(s)' /\ After(s)' = After(s)
  BY <1>1
<1>3. \A cfg : Valid(cfg)' = Valid(cfg)
  BY DEF Valid
<1>4. \A cfg : PassedOver(s, cfg)' = PassedOver(s, cfg)
  BY <1>3 DEF PassedOver
<1>5. ASSUME NEW cfg, Measured(cfg)
      PROVE  Measured(cfg)' /\ trials'[cfg] = trials[cfg]
  BY <1>5 DEF Measured, JournalGrows
<1>6. ASSUME NEW cfg, Answered(s, cfg)
      PROVE  Answered(s, cfg)' /\ Wins(s, cfg)' = Wins(s, cfg)
  <2>1. Measured(cfg) /\ Measured(cfg)' /\ trials'[cfg] = trials[cfg]
    BY <1>5, <1>6 DEF Answered
  <2>2. PICK k : k = <<cfg, setting.ctx>>
    OBVIOUS
  <2>3. k \in DOMAIN probes => k \in DOMAIN probes' /\ probes'[k] = probes[k]
    BY DEF JournalGrows
  <2>4. Answered(s, cfg)'
    BY <1>6, <2>1, <2>2, <2>3 DEF Answered, DimOf
  <2>5. Wins(s, cfg)' = Wins(s, cfg)
    BY <1>4, <1>6, <2>1, <2>2, <2>3 DEF Answered, Wins, DimOf
  <2>6. QED
    BY <2>4, <2>5
<1>7. \A m, cfg : Applied(m, cfg)' = Applied(m, cfg)
  BY DEF Applied
<1>8. PICK c : c = NextOf(s) /\ c = NextOf(s)'
  BY <1>7 DEF NextOf
<1>9. CASE s.todo # <<>>
  <2>1. \/ PassedOver(s, c) \/ Answered(s, c)
        \/ s.pc = "thread" /\ c = s.incumbent.cfg
    BY <1>2, <1>8, <1>9 DEF Ready
  <2>2. Ready(s)'
    BY <1>2, <1>4, <1>6, <1>8, <2>1 DEF Ready
  <2>3. Wins(s, c)' = Wins(s, c) /\ (Wins(s, c) => trials'[c] = trials[c])
    <3>1. CASE Answered(s, c)
      BY <1>5, <1>6, <3>1 DEF Answered
    <3>2. CASE ~Answered(s, c)
      <4>1. ~Wins(s, c) /\ ~Wins(s, c)'
        BY <1>4, <2>1, <3>2 DEF Wins
      <4>2. QED
        BY <4>1, <1>4 DEF Wins
    <3>3. QED
      BY <3>1, <3>2
  <2>4. Heard(s)' = Heard(s)
    BY <1>8, <2>3 DEF Heard
  <2>5. QED
    BY <1>9, <2>2, <2>4 DEF After
<1>10. CASE s.todo = <<>>
  <2>1. Gain(s)' = Gain(s)
    BY DEF Gain, Beats
  <2>2. Closing(s)' = Closing(s)
    BY <2>1, EnteredSame DEF Closing, Onward, Replayed, DimOf
  <2>3. QED
    BY <1>2, <1>10, <2>2 DEF After, Ready
<1>11. QED
  BY <1>9, <1>10

(* A trace stays one.                                                      *)
LEMMA TraceStays ==
    ASSUME JournalGrows, UNCHANGED setting, NEW T, NEW n \in Nat, Trace(T, n)
    PROVE  Trace(T, n)'
<1>1. \A j \in 0..(n - 1) : Ready(T[j])' /\ T[j + 1] = After(T[j])'
  BY StagesSame DEF Trace
<1>2. QED
  BY <1>1, StagesSame DEF Trace

(* The stage after the last one of a trace extends it.                     *)
LEMMA TraceExtends ==
    ASSUME JournalGrows, UNCHANGED setting,
           NEW T, NEW n \in Nat, Trace(T, n), Ready(T[n])', NEW t, t = After(T[n])'
    PROVE  \E U : Trace(U, n + 1)' /\ U[n + 1] = t
<1> DEFINE U == [j \in 0..(n + 1) |-> IF j <= n THEN T[j] ELSE t]
<1>1. U[0] = T[0] /\ U[n + 1] = t /\ \A j \in 0..n : U[j] = T[j]
  OBVIOUS
<1> HIDE DEF U
<1>2. T[0] = StartStage'
  BY StagesSame DEF Trace
<1>3. ASSUME NEW j \in 0..n
      PROVE  Ready(U[j])' /\ U[j + 1] = After(U[j])'
  <2>1. CASE j = n
    BY <1>1, <2>1
  <2>2. CASE j # n
    <3>1. j \in 0..(n - 1) /\ j + 1 \in 0..n
      BY <2>2
    <3>2. Ready(T[j])' /\ T[j + 1] = After(T[j])'
      BY <3>1, StagesSame DEF Trace
    <3>3. U[j] = T[j] /\ U[j + 1] = T[j + 1]
      BY <1>1, <3>1
    <3>4. QED
      BY <3>2, <3>3
  <2>3. QED
    BY <2>1, <2>2
<1>4. (n + 1) - 1 = n
  OBVIOUS
<1>5. Trace(U, n + 1)'
  BY <1>1, <1>2, <1>3, <1>4 DEF Trace
<1>6. QED
  BY <1>1, <1>5


\* A step leaves the stage as it is, or ends as the journal says, or makes a
\* promotion that no later process has to make.
Stays(s) ==
    /\ Matches(s)' /\ UNCHANGED <<incumbent, history>>
    /\ pc = "thread" => ~Ready(s)
Moves(s) == Ready(s)' /\ CurrentStage' = After(s)' /\ heard' = None
Breaks(s) == ~replayable' /\ (Ready(s) => pc = "thread" /\ heard # None)
Follows(s) == Stays(s) \/ Moves(s) \/ Breaks(s)

LEMMA CurrentIs ==
    ASSUME NEW s, Matches(s)
    PROVE  /\ s.pc = pc /\ s.at = at /\ s.todo = todo /\ s.best = best /\ s.incumbent = incumbent
           /\ NextOf(s) = Candidate /\ DimOf(s) = Dim
           /\ s = [pc |-> pc, at |-> at, todo |-> todo, best |-> best, incumbent |-> incumbent]
<1>1. s = [pc |-> pc, at |-> at, todo |-> todo, best |-> best, incumbent |-> incumbent]
  BY DEF Matches, CurrentStage
<1>2. s.pc = pc /\ s.at = at /\ s.todo = todo /\ s.best = best /\ s.incumbent = incumbent
  BY <1>1
<1>3. QED
  BY <1>1, <1>2 DEF NextOf, Candidate, DimOf, Dim

(* A candidate that wins nothing is taken off the list.                    *)
LEMMA TakenOff ==
    ASSUME NEW s, Matches(s), ~Wins(s, NextOf(s)), todo # <<>>
    PROVE  After(s) = [pc |-> pc, at |-> at, todo |-> Tail(todo), best |-> best,
                       incumbent |-> incumbent]
<1>1. s = [pc |-> pc, at |-> at, todo |-> todo, best |-> best, incumbent |-> incumbent]
  BY DEF Matches, CurrentStage
<1>2. s.todo = todo
  BY <1>1
<1>3. QED
  BY <1>1, <1>2 DEF After, Heard

(* What the journal already decides.                                       *)
LEMMA MovesOn ==
    ASSUME NEW s, Ready(s), JournalGrows, UNCHANGED setting,
           CurrentStage' = After(s), heard' = None
    PROVE  Moves(s)
BY StagesSame DEF Moves

(* A candidate is passed over.                                             *)
LEMMA SkipFollows ==
    ASSUME SearchInv, NEW s, Matches(s), pc \in Replayed, Skip
    PROVE  Follows(s)
<1>1. /\ heard = None /\ todo # <<>> /\ Skipped(Candidate)
      /\ todo' = Tail(todo)
      /\ UNCHANGED <<setting, trials, probes, pc, at, heard, best, incumbent>>
  BY DEF Skip, Trying, journal
<1>2. /\ s.pc = pc /\ s.todo = todo /\ s.incumbent = incumbent /\ NextOf(s) = Candidate
  BY CurrentIs
<1>3. \/ PassedOver(s, NextOf(s))
      \/ pc = "thread" /\ (Measured(NextOf(s)) \/ NextOf(s) = incumbent.cfg)
  BY <1>1, <1>2 DEF Skipped, PassedOver, SkipsKnown, Replayed
<1>4. Ready(s) /\ ~Wins(s, NextOf(s))
  BY <1>2, <1>3 DEF Ready, Answered, Wins
<1>5. CurrentStage' = After(s)
  <2>1. After(s) = [pc |-> pc, at |-> at, todo |-> Tail(todo), best |-> best,
                    incumbent |-> incumbent]
    BY <1>1, <1>4, TakenOff, Zenon
  <2>2. QED
    BY <1>1, <2>1 DEF CurrentStage
<1>6. JournalGrows
  BY <1>1 DEF JournalGrows
<1>7. QED
  BY <1>1, <1>4, <1>5, <1>6, MovesOn DEF Follows

(* A candidate is ruled out.                                               *)
LEMMA PruneFollows ==
    ASSUME SearchInv, NEW s, Matches(s), pc \in Replayed, PruneCandidate
    PROVE  Follows(s)
<1>1. /\ heard = None /\ todo # <<>> /\ pc = "sweep"
      /\ trials' = With(trials, Candidate, Outcome("pruned", 0))
      /\ todo' = Tail(todo)
      /\ UNCHANGED <<setting, probes, pc, at, heard, best, incumbent>>
  BY DEF PruneCandidate, Trying
<1>2. /\ s.pc = pc /\ s.todo = todo /\ s.incumbent = incumbent /\ NextOf(s) = Candidate
  BY CurrentIs
<1>3. PICK c : c = Candidate
  OBVIOUS
<1>4. NextOf(s)' = c
  BY <1>1, <1>2, <1>3 DEF NextOf, Applied
<1>5. c \in DOMAIN trials' /\ trials'[c].status = "pruned"
  BY <1>1, <1>3 DEF With, Outcome
<1>6. Ready(s)' /\ ~Wins(s, NextOf(s))'
  BY <1>1, <1>2, <1>4, <1>5 DEF Ready, Answered, Measured, Wins, Replayed
<1>7. After(s)' = CurrentStage'
  <2>1. s.at = at /\ s.best = best
    BY CurrentIs
  <2>2. QED
    BY <1>1, <1>2, <1>6, <2>1 DEF After, Heard, CurrentStage
<1>8. QED
  BY <1>1, <1>6, <1>7 DEF Follows, Moves

(* A candidate is heard, from the journal or from the benchmark.           *)
LEMMA HearFollows ==
    ASSUME SearchInv, NEW s, Matches(s), pc \in Replayed, RecallTrial \/ RunTrial
    PROVE  Follows(s)
<1>1. /\ heard = None /\ todo # <<>> /\ ~Skipped(Candidate)
      /\ \E o : heard' = Judging(Candidate, o)
      /\ UNCHANGED <<setting, probes, pc, at, todo, best, incumbent, history>>
      /\ pc = "thread" => ~Measured(Candidate)
  BY DEF RecallTrial, RunTrial, MayRun, Trying, journal, Skipped, SkipsKnown
<1>2. /\ s.pc = pc /\ s.todo = todo /\ s.incumbent = incumbent /\ NextOf(s) = Candidate
  BY CurrentIs
<1>3. heard'.cfg = Candidate /\ heard'.checked = FALSE /\ heard'.allowed = TRUE
  BY <1>1 DEF Judging
<1>4. pc \in {"sweep", "thread"} => Candidate # incumbent.cfg
  BY <1>1 DEF Skipped
<1>5. Matches(s)'
  BY <1>1, <1>3, <1>4 DEF Matches, CurrentStage, Consistent
<1>6. pc = "thread" => ~Ready(s)
  BY <1>1, <1>2, <1>4 DEF Ready, PassedOver, Answered
<1>7. QED
  BY <1>1, <1>5, <1>6 DEF Follows, Stays

(* Only a sweep asks for checks.                                           *)
LEMMA CheckFollows ==
    ASSUME SearchInv, NEW s, Matches(s), pc \in Replayed, CanExecute,
           PairCheck \/ RefusePair \/ RecallProbe \/ PruneProbe \/ RunProbe
    PROVE  Follows(s)
<1>1. /\ heard # None /\ pc = "sweep" /\ heard.ok
      /\ UNCHANGED <<setting, trials, pc, at, todo, best, incumbent>>
  BY DEF PairCheck, RefusePair, RecallProbe, PruneProbe, RunProbe, NeedsPair, NeedsProbe, journal,
     Replayed
<1>2. /\ s.pc = pc /\ s.todo = todo /\ s.incumbent = incumbent /\ NextOf(s) = Candidate
      /\ DimOf(s) = Dim
  BY CurrentIs
<1>3. /\ heard.cfg = Candidate /\ Valid(heard.cfg) /\ trials[heard.cfg].status = "ok"
      /\ heard.cfg # incumbent.cfg /\ todo # <<>>
  BY <1>1 DEF SearchInv, HeardInv, ConfigOK, Matches, Consistent
<1>4. CASE PairCheck
  <2>1. ~replayable' /\ Dim = "mmap"
    BY <1>4 DEF PairCheck, NeedsPair
  <2>2. ~Ready(s)
    BY <1>1, <1>2, <1>3, <2>1 DEF Ready, PassedOver, Answered
  <2>3. QED
    BY <2>1, <2>2 DEF Follows, Breaks
<1>5. CASE RefusePair
  BY <1>5 DEF RefusePair
<1>6. CASE RecallProbe \/ PruneProbe \/ RunProbe
  <2>1. /\ Dim \in ProbedDims /\ UNCHANGED history
        /\ \E v : /\ heard' = [heard EXCEPT !.checked = TRUE, !.allowed = v = "ok"]
                  /\ \/ ProbeKey \in DOMAIN probes /\ probes[ProbeKey] = v /\ probes' = probes
                     \/ probes' = With(probes, ProbeKey, v)
    BY <1>1, <1>6 DEF RecallProbe, PruneProbe, RunProbe, NeedsProbe, Checked, Probe, ProbeKey, journal
  <2>2. PICK k : k = ProbeKey
    OBVIOUS
  <2>3. PICK v : /\ heard' = [heard EXCEPT !.checked = TRUE, !.allowed = v = "ok"]
                 /\ k \in DOMAIN probes' /\ probes'[k] = v
    BY <2>1, <2>2 DEF With
  <2>4. DOMAIN heard = {"cfg", "score", "ok", "checked", "allowed"}
    BY <1>1 DEF SearchInv, HeardInv
  <2>5. heard'.cfg = heard.cfg /\ heard'.checked = TRUE /\ heard'.allowed = (v = "ok")
    BY <2>3, <2>4
  <2>6. k = <<heard'.cfg, setting'.ctx>>
    BY <1>1, <2>2, <2>5 DEF ProbeKey
  <2>7. Consistent'
    BY <1>1, <1>3, <2>1, <2>3, <2>5, <2>6 DEF Consistent, Dim
  <2>8. Matches(s)'
    BY <1>1, <2>7 DEF Matches, CurrentStage
  <2>9. QED
    BY <1>1, <2>1, <2>8 DEF Follows, Stays
<1>7. QED
  BY <1>4, <1>5, <1>6


(* A candidate is judged.                                                  *)
LEMMA JudgeFollows ==
    ASSUME SearchInv, NEW s, Matches(s), pc \in Replayed, Judge
    PROVE  Follows(s)
<1> DEFINE won == heard.ok /\ heard.allowed /\ Improves(heard)
           what == [cfg |-> heard.cfg, score |-> heard.score]
<1>1. /\ heard # None /\ ~NeedsPair(heard) /\ ~NeedsProbe(heard)
      /\ todo' = Tail(todo) /\ heard' = None
      /\ UNCHANGED <<setting, trials, probes, pc, at>>
      /\ best' = IF won /\ pc = "sweep" THEN what ELSE best
      /\ incumbent' = IF won /\ pc # "sweep" THEN what ELSE incumbent
      /\ won /\ pc = "thread" => ~replayable'
  BY DEF Judge, Promote, journal, Replayed
<1>2. /\ s.pc = pc /\ s.todo = todo /\ s.incumbent = incumbent /\ s.best = best
      /\ NextOf(s) = Candidate /\ DimOf(s) = Dim
      /\ s.at = at
  BY CurrentIs
<1>3. /\ heard.cfg = NextOf(s) /\ Measured(heard.cfg) /\ Valid(heard.cfg) /\ todo # <<>>
      /\ heard.score = trials[heard.cfg].score
      /\ heard.ok = (trials[heard.cfg].status = "ok")
      /\ heard.checked \in BOOLEAN /\ heard.allowed \in BOOLEAN
      /\ pc = "sweep" => heard.cfg # incumbent.cfg
  BY <1>1, <1>2 DEF SearchInv, HeardInv, ConfigOK, Matches, Consistent, SearchStages
<1>4. PICK c : c = heard.cfg
  OBVIOUS
<1>5. ~PassedOver(s, c)
  BY <1>2, <1>3, <1>4 DEF PassedOver
<1>6. Answered(s, c) /\ Ready(s)
  <2>1. CASE pc = "sweep" /\ heard.ok
    <3>1. CASE heard.checked
      <4>1. Dim \in ProbedDims /\ <<c, setting.ctx>> \in DOMAIN probes
        BY <1>1, <1>4, <3>1 DEF Matches, Consistent
      <4>2. QED
        BY <1>2, <1>3, <1>4, <2>1, <4>1 DEF Answered, ProbedDims, Ready, Replayed
    <3>2. CASE ~heard.checked
      <4>1. Dim # "mmap" /\ Dim \notin ProbedDims
        BY <1>1, <2>1, <3>2 DEF NeedsPair, NeedsProbe
      <4>2. QED
        BY <1>2, <1>3, <1>4, <2>1, <4>1 DEF Answered, Ready, Replayed
    <3>3. QED
      BY <1>3, <3>1, <3>2
  <2>2. CASE ~(pc = "sweep" /\ heard.ok)
    BY <1>2, <1>3, <1>4, <2>2 DEF Answered, Ready
  <2>3. QED
    BY <2>1, <2>2
<1>7. JournalGrows
  BY <1>1 DEF JournalGrows
<1>8. CASE pc = "thread"
  <2>1. CASE won
    BY <1>1, <1>8, <2>1 DEF Follows, Breaks
  <2>2. CASE ~won
    <3>1. ~Wins(s, NextOf(s))
      BY <1>2, <1>8 DEF Wins
    <3>2. After(s) = [pc |-> pc, at |-> at, todo |-> Tail(todo), best |-> best,
                      incumbent |-> incumbent]
      BY <1>3, <3>1, TakenOff
    <3>3. CurrentStage' = After(s)
      BY <1>1, <1>8, <2>2, <3>2 DEF CurrentStage
    <3>4. QED
      BY <1>1, <1>6, <1>7, <3>3, MovesOn DEF Follows
  <2>3. QED
    BY <2>1, <2>2
<1>9. CASE pc \in {"split", "sweep"}
  <2>1. won <=> Wins(s, c)
    <3>1. heard.ok => (heard.allowed <=> (pc = "sweep" /\ Dim \in ProbedDims =>
                                             probes[<<c, setting.ctx>>] = "ok"))
      <4>1. CASE heard.checked
        BY <1>1, <1>4, <4>1 DEF Matches, Consistent
      <4>2. CASE ~heard.checked
        <5>1. heard.allowed
          BY <1>1, <4>2 DEF Matches, Consistent
        <5>2. pc = "sweep" /\ heard.ok => Dim \notin ProbedDims
          BY <1>1, <4>2 DEF NeedsProbe
        <5>3. QED
          BY <5>1, <5>2
      <4>3. QED
        BY <1>3, <4>1, <4>2
    <3>2. Improves(heard) <=> trials[c].score > IF pc = "split" THEN incumbent.score ELSE best.score
      BY <1>3, <1>4, <1>9 DEF Improves
    <3>3. QED
      BY <1>2, <1>3, <1>4, <1>5, <1>9, <3>1, <3>2 DEF Wins
  <2>2. what = [cfg |-> NextOf(s), score |-> trials[NextOf(s)].score]
    BY <1>3
  <2> HIDE DEF won, what
  <2>3. After(s) = [pc |-> pc, at |-> at, todo |-> Tail(todo),
                    best |-> IF pc = "sweep" /\ won THEN what ELSE best,
                    incumbent |-> IF pc = "split" /\ won THEN what ELSE incumbent]
    BY <1>2, <1>3, <1>4, <2>1, <2>2 DEF After, Heard
  <2>4. CurrentStage' = After(s)
    BY <1>1, <1>9, <2>3 DEF CurrentStage
  <2>5. QED
    BY <1>1, <1>6, <1>7, <2>4, MovesOn DEF Follows
<1>10. QED
  BY <1>8, <1>9 DEF Replayed

(* A stage is entered as the trace has it.                                 *)
LEMMA EnterIs ==
    ASSUME NEW name, NEW pass, NEW dim, NEW gauge, Enter(name, pass, dim, gauge),
           name \in Replayed \cup {"pairwise"}, UNCHANGED setting
    PROVE  CurrentStage' = Entered(name, pass, dim, gauge, incumbent')
<1>1. PICK inc : inc = incumbent'
  OBVIOUS
<1>2. /\ pc' = name /\ best' = inc
      /\ at' = [pass |-> pass, dim |-> dim, gauge |-> gauge, moe |-> inc.cfg.moe_cpu_layers]
  BY <1>1 DEF Enter
<1>3. todo' = Mutations(name, Dimensions[dim], inc.cfg)
  BY <1>1 DEF Enter
<1>4. QED
  BY <1>1, <1>2, <1>3 DEF CurrentStage, Entered

(* A stage that has heard everything ends.                                 *)
LEMMA NextStageFollows ==
    ASSUME SearchInv, NEW s, Matches(s), pc \in Replayed, NextStage
    PROVE  Follows(s)
<1>1. /\ heard = None /\ heard' = None /\ todo = <<>> /\ AfterStage
      /\ UNCHANGED <<setting, trials, probes>>
      /\ incumbent' = IF pc = "sweep" /\ Beats(best.score, incumbent.score)
                      THEN [cfg |-> best.cfg, score |-> best.score] ELSE incumbent
  BY DEF NextStage, Promote, journal
<1>2. /\ s.pc = pc /\ s.todo = todo /\ s.incumbent = incumbent /\ s.best = best
      /\ s.at = at /\ DimOf(s) = Dim
  BY CurrentIs
<1>3. incumbent' = Gain(s)
  BY <1>1, <1>2 DEF Gain
<1>4. Ready(s) /\ JournalGrows /\ After(s) = Closing(s)
  BY <1>1, <1>2 DEF Ready, JournalGrows, After
<1>5. CurrentStage' = Closing(s)
  <2>1. CASE pc = "split"
    BY <1>1, <1>2, <1>3, <2>1, EnterIs DEF AfterStage, Closing, Replayed
  <2>2. CASE pc = "sweep" /\ Dim \in ThreadDims
    BY <1>1, <1>2, <1>3, <2>2, EnterIs DEF AfterStage, Closing, Replayed
  <2>3. CASE pc = "thread" \/ (pc = "sweep" /\ Dim \notin ThreadDims)
    <3>1. NextDimension
      BY <1>1, <2>3 DEF AfterStage
    <3>2. CurrentStage' = Onward(s, Gain(s))
      <4>1. CASE at.dim < Len(Dimensions)
        BY <1>1, <1>2, <1>3, <3>1, <4>1, EnterIs DEF NextDimension, PassGauge, Onward, Replayed
      <4>2. CASE ~(at.dim < Len(Dimensions)) /\
                 (at.pass = MaxPasses \/ incumbent'.score * 100 < at.gauge * (100 + Noise))
        BY <1>1, <1>2, <1>3, <3>1, <4>2, EnterIs DEF NextDimension, Refine, Onward, Replayed
      <4>3. CASE ~(at.dim < Len(Dimensions)) /\
                 ~(at.pass = MaxPasses \/ incumbent'.score * 100 < at.gauge * (100 + Noise))
        BY <1>1, <1>2, <1>3, <3>1, <4>3, EnterIs DEF NextDimension, Onward, Replayed
      <4>4. QED
        BY <4>1, <4>2, <4>3
    <3>3. QED
      BY <1>2, <2>3, <3>2 DEF Closing
  <2>4. QED
    BY <2>1, <2>2, <2>3 DEF Replayed
<1>6. QED
  BY <1>1, <1>4, <1>5, MovesOn DEF Follows

(* Every step of a replayed stage that may execute.                        *)
LEMMA StepFollows ==
    ASSUME SearchInv, NEW s, Matches(s), pc \in Replayed, CanExecute, SearchStep
    PROVE  Follows(s)
<1>1. CASE GiveUpStage
  BY <1>1 DEF GiveUpStage, Replayed
<1>2. CASE Exhaust
  BY <1>2 DEF Exhaust
<1>3. QED
  BY <1>1, <1>2, SkipFollows, PruneFollows, HearFollows, CheckFollows, JudgeFollows,
     NextStageFollows DEF SearchStep


(* The search never goes back from its refinements.                        *)
LEMMA StagesPass ==
    ASSUME SearchStep, pc' \in Replayed
    PROVE  pc \in Replayed
<1> USE DEF Replayed
<1>1. CASE NextStage
  BY <1>1 DEF NextStage, SearchStages, AfterStage, AfterPairs, BeginClimb, Enter, Leave
<1>2. CASE GiveUpStage
  BY <1>2 DEF GiveUpStage, AfterPairs, Enter, Leave
<1>3. CASE Exhaust
  BY <1>3 DEF Exhaust, Leave
<1>4. CASE ~(NextStage \/ GiveUpStage \/ Exhaust)
  BY <1>4 DEF SearchStep, Skip, PruneCandidate, RecallTrial, RunTrial, PairCheck, RefusePair,
     RecallProbe, PruneProbe, RunProbe, Judge
<1>5. QED
  BY <1>1, <1>2, <1>3, <1>4

(* The incumbent only gets better, and what is settled is an incumbent.    *)
LEMMA ScoreRises ==
    ASSUME SearchInv, replayable \in BOOLEAN, SearchStep
    PROVE  /\ incumbent.score \in Nat /\ incumbent'.score \in Nat
           /\ incumbent'.score >= incumbent.score
           /\ replayable' \in BOOLEAN /\ (replayable' => replayable)
           /\ \/ settled' = settled
              \/ /\ settled' = incumbent'.score /\ replayable' /\ CanExecute
                 /\ pc \in Replayed
<1>1. incumbent.score \in Nat /\ best.score \in Nat
  BY DEF SearchInv, ScoredOK
<1>2. ASSUME NEW score \in Nat, Beats(score, incumbent.score)
      PROVE  score >= incumbent.score
  <2>1. incumbent.score <= incumbent.score
    BY <1>1
  <2>2. incumbent.score <= score
    BY <1>1, <1>2, <2>1, GainFacts
  <2>3. QED
    BY <1>1, <2>2
<1>3. CASE UNCHANGED <<incumbent, settled>> /\ (UNCHANGED replayable \/ replayable' = FALSE)
  <2>1. incumbent'.score \in Nat /\ incumbent'.score >= incumbent.score
    BY <1>1, <1>3
  <2>2. replayable' \in BOOLEAN /\ (replayable' => replayable)
    <3>1. CASE UNCHANGED replayable
      BY <3>1
    <3>2. CASE replayable' = FALSE
      BY <3>2
    <3>3. QED
      BY <1>3, <3>1, <3>2
  <2>3. QED
    BY <1>1, <1>3, <2>1, <2>2
<1>4. ASSUME NEW cfg, NEW score \in Nat, NEW again \in BOOLEAN, Promote(cfg, score, again),
             score >= incumbent.score, again => pc \in Replayed
      PROVE  /\ incumbent'.score = score
             /\ replayable' \in BOOLEAN /\ (replayable' => replayable /\ again)
             /\ settled' = settled \/ (settled' = score /\ replayable' /\ CanExecute)
  BY <1>4 DEF Promote, Larger
<1>5. CASE Judge
  <2>1. CASE UNCHANGED <<incumbent, history>>
    BY <1>3, <2>1 DEF history
  <2>2. CASE ~UNCHANGED <<incumbent, history>>
    <3>1. /\ heard # None /\ Improves(heard) /\ pc # "sweep"
          /\ Promote(heard.cfg, heard.score, pc = "split")
      BY <1>5, <2>2 DEF Judge
    <3>2. heard.score \in Nat
      BY <3>1 DEF SearchInv, HeardInv, JournalInv, TrialOK, Measured
    <3>3. heard.score >= incumbent.score
      BY <1>1, <1>2, <3>1, <3>2 DEF Improves
    <3>4. (pc = "split") \in BOOLEAN /\ (pc = "split" => pc \in Replayed)
      BY DEF Replayed
    <3>5. QED
      BY <1>1, <1>4, <3>1, <3>2, <3>3, <3>4
  <2>3. QED
    BY <2>1, <2>2
<1>6. CASE NextStage
  <2>1. CASE UNCHANGED <<incumbent, history>>
    BY <1>3, <2>1 DEF history
  <2>2. CASE ~UNCHANGED <<incumbent, history>>
    <3>1. /\ Beats(best.score, incumbent.score) /\ pc = "sweep"
          /\ Promote(best.cfg, best.score, TRUE)
      BY <1>6, <2>2 DEF NextStage
    <3>2. best.score >= incumbent.score
      BY <1>1, <1>2, <3>1
    <3>3. QED
      BY <1>1, <1>4, <3>1, <3>2 DEF Replayed
  <2>3. QED
    BY <2>1, <2>2
<1>7. CASE ~(Judge \/ NextStage)
  <2>1. UNCHANGED <<incumbent, settled>> /\ (UNCHANGED replayable \/ replayable' = FALSE)
    BY <1>7 DEF SearchStep, Skip, PruneCandidate, RecallTrial, RunTrial, PairCheck, RefusePair,
       RecallProbe, PruneProbe, RunProbe, GiveUpStage, Exhaust, history
  <2>2. QED
    BY <1>3, <2>1
<1>8. QED
  BY <1>5, <1>6, <1>7

(* A process that may execute could all along.                             *)
LEMMA CouldExecute ==
    ASSUME SearchInv, Begin \/ SearchStep, CanExecute'
    PROVE  CanExecute
<1>1. UNCHANGED <<setting, signals>>
  BY DEF SearchStep, Begin, Skip, PruneCandidate, RecallTrial, RunTrial, PairCheck, RefusePair,
     RecallProbe, PruneProbe, RunProbe, Judge, NextStage, GiveUpStage, Exhaust, signals
<1>2. executed \in Nat /\ setting.budget \in Nat /\ setting.reserve \in Nat
  <2>1. setting \in Settings /\ executed \in Nat
    BY DEF SearchInv
  <2>2. setting.budget \in Nat /\ setting.reserve \in 0..setting.budget
    BY <2>1, SettingsAssumption, Zenon
  <2>3. QED
    BY <2>1, <2>2
<1>3. executed' = executed \/ executed' = executed + 1
  BY SearchWork DEF Ran
<1>4. QED
  BY <1>1, <1>2, <1>3 DEF CanExecute, signals


\* Before the search, the incumbent is what joint discovery handed over.
HistoryInv ==
    /\ replayable \in BOOLEAN /\ settled \in Nat
    /\ pc = "discovered" => incumbent = setting.start

\* A process that has promoted nothing else is at the end of a trace.
FollowedInv ==
    replayable /\ CanExecute /\ pc \in Replayed =>
        \E n \in Nat : \E T : Trace(T, n) /\ Matches(T[n])

\* What is settled is the incumbent of a trace, or less.
SettledInv == \E n \in Nat : \E T : Trace(T, n) /\ T[n].incumbent.score >= settled

\* Until a process has it again, it is on the trace that leads there.
Regaining ==
    /\ pc \in Replayed /\ (pc = "thread" => heard = None)
    /\ \E n \in Nat : \E k \in 0..(n - 1) : \E T :
          Trace(T, n) /\ T[n].incumbent.score >= settled /\ Matches(T[k])

RegainedInv ==
    CanExecute /\ pc \in SearchStages \cup {"searched"} =>
        incumbent.score >= settled \/ Regaining

GainsInv == HistoryInv /\ FollowedInv /\ SettledInv /\ RegainedInv

(* The process of a replayed stage stays on its trace.                     *)
LEMMA TraceFollowed ==
    ASSUME SearchInv, SearchStep, CanExecute, pc \in Replayed,
           NEW n \in Nat, NEW T, Trace(T, n), Matches(T[n]), replayable'
    PROVE  \/ Matches(T[n])' /\ Trace(T, n)' /\ UNCHANGED <<incumbent, history>>
           \/ \E U : /\ Trace(U, n + 1)' /\ Matches(U[n + 1])'
                     /\ U[n + 1].incumbent = incumbent'
<1>1. JournalGrows /\ UNCHANGED setting
  BY SearchGrows
<1>2. Follows(T[n])
  BY StepFollows
<1>3. CASE Stays(T[n])
  BY <1>1, <1>3, TraceStays DEF Stays
<1>4. CASE Moves(T[n])
  <2>1. PICK t : t = After(T[n])'
    OBVIOUS
  <2>2. Ready(T[n])' /\ CurrentStage' = t /\ heard' = None
    BY <1>4, <2>1 DEF Moves
  <2>3. PICK U : Trace(U, n + 1)' /\ U[n + 1] = t
    BY <1>1, <2>1, <2>2, TraceExtends
  <2>4. Consistent'
    BY <2>2 DEF Consistent
  <2>5. Matches(U[n + 1])'
    BY <2>2, <2>3, <2>4 DEF Matches
  <2>6. U[n + 1].incumbent = incumbent'
    BY <2>2, <2>3 DEF CurrentStage
  <2>7. QED
    BY <2>3, <2>5, <2>6
<1>5. CASE Breaks(T[n])
  BY <1>5 DEF Breaks
<1>6. QED
  BY <1>2, <1>3, <1>4, <1>5 DEF Follows

LEMMA FollowedKept ==
    ASSUME SearchInv, GainsInv, SearchStep
    PROVE  FollowedInv'
<1> SUFFICES ASSUME replayable', CanExecute', pc' \in Replayed
             PROVE  \E n \in Nat : \E T : Trace(T, n)' /\ Matches(T[n])'
  BY DEF FollowedInv
<1>1. replayable /\ CanExecute /\ pc \in Replayed
  BY ScoreRises, CouldExecute, StagesPass DEF GainsInv, HistoryInv
<1>2. PICK n \in Nat : \E T : Trace(T, n) /\ Matches(T[n])
  BY <1>1 DEF GainsInv, FollowedInv
<1>3. PICK T : Trace(T, n) /\ Matches(T[n])
  BY <1>2
<1>4. n + 1 \in Nat
  OBVIOUS
<1>5. QED
  BY <1>1, <1>3, <1>4, TraceFollowed

LEMMA SettledKept ==
    ASSUME SearchInv, GainsInv, SearchStep
    PROVE  SettledInv'
<1>1. JournalGrows /\ UNCHANGED setting
  BY SearchGrows
<1>2. CASE settled' = settled
  BY <1>1, <1>2, TraceStays DEF GainsInv, SettledInv
<1>3. CASE settled' # settled
  <2>1. /\ settled' = incumbent'.score /\ replayable' /\ CanExecute /\ pc \in Replayed /\ replayable
        /\ incumbent'.score \in Nat
    BY <1>3, ScoreRises DEF GainsInv, HistoryInv
  <2>2. PICK n \in Nat : \E T : Trace(T, n) /\ Matches(T[n])
    BY <2>1 DEF GainsInv, FollowedInv
  <2>3. PICK T : Trace(T, n) /\ Matches(T[n])
    BY <2>2
  <2>4. PICK U : Trace(U, n + 1)' /\ U[n + 1].incumbent = incumbent'
    BY <1>3, <2>1, <2>3, TraceFollowed DEF history
  <2>5. n + 1 \in Nat /\ U[n + 1].incumbent.score >= settled'
    BY <2>1, <2>4
  <2>6. QED
    BY <2>4, <2>5 DEF SettledInv
<1>4. QED
  BY <1>2, <1>3

(* A process on its way does not leave the trace before it is there.       *)
LEMMA RegainingKept ==
    ASSUME SearchInv, SearchStep, CanExecute, Regaining, UNCHANGED settled
    PROVE  incumbent'.score >= settled' \/ Regaining'
<1>1. JournalGrows /\ UNCHANGED setting
  BY SearchGrows
<1>2. PICK n \in Nat : \E k \in 0..(n - 1) : \E T :
          Trace(T, n) /\ T[n].incumbent.score >= settled /\ Matches(T[k])
  BY DEF Regaining
<1>3. PICK k \in 0..(n - 1) : \E T :
          Trace(T, n) /\ T[n].incumbent.score >= settled /\ Matches(T[k])
  BY <1>2
<1>4. PICK T : Trace(T, n) /\ T[n].incumbent.score >= settled /\ Matches(T[k])
  BY <1>3
<1>5. pc \in Replayed /\ (pc = "thread" => heard = None)
  BY DEF Regaining
<1>6. Ready(T[k]) /\ T[k + 1] = After(T[k])
  BY <1>4 DEF Trace
<1>7. Trace(T, n)'
  BY <1>1, <1>4, TraceStays
<1>8. Follows(T[k])
  BY <1>4, <1>5, StepFollows
<1>9. CASE Stays(T[k])
  <2>1. Matches(T[k])' /\ pc # "thread"
    BY <1>6, <1>9 DEF Stays
  <2>2. pc' = pc
    BY <1>4, <2>1 DEF Matches, CurrentStage
  <2>3. QED
    BY <1>4, <1>5, <1>7, <2>1, <2>2 DEF Regaining
<1>10. CASE Moves(T[k])
  <2>1. CurrentStage' = T[k + 1] /\ heard' = None
    BY <1>1, <1>6, <1>10, StagesSame DEF Moves
  <2>2. CASE k + 1 = n
    BY <1>4, <2>1, <2>2 DEF CurrentStage
  <2>3. CASE k + 1 # n
    <3>1. k + 1 \in 0..(n - 1)
      BY <2>3
    <3>2. Ready(T[k + 1])
      BY <1>4, <3>1 DEF Trace
    <3>3. pc' \in Replayed
      BY <2>1, <3>2 DEF Ready, CurrentStage
    <3>4. Matches(T[k + 1])'
      BY <2>1 DEF Matches, Consistent
    <3>5. QED
      BY <1>4, <1>7, <2>1, <3>1, <3>3, <3>4 DEF Regaining
  <2>4. QED
    BY <2>2, <2>3
<1>11. CASE Breaks(T[k])
  BY <1>5, <1>6, <1>11 DEF Breaks
<1>12. QED
  BY <1>8, <1>9, <1>10, <1>11 DEF Follows

LEMMA RegainedKept ==
    ASSUME SearchInv, GainsInv, SearchStep
    PROVE  RegainedInv'
<1> SUFFICES ASSUME CanExecute', pc' \in SearchStages \cup {"searched"}
             PROVE  incumbent'.score >= settled' \/ Regaining'
  BY DEF RegainedInv
<1>1. CanExecute /\ pc \in SearchStages
  <2>1. pc # "discovered"
    BY DEF SearchStep, Skip, PruneCandidate, RecallTrial, RunTrial, MayRun, Trying, PairCheck,
       RefusePair, RecallProbe, PruneProbe, RunProbe, NeedsPair, NeedsProbe, Judge, NextStage,
       GiveUpStage, Exhaust, SearchStages
  <2>2. QED
    BY <2>1, CouldExecute, SearchWork DEF Searching
<1>2. /\ incumbent.score \in Nat /\ incumbent'.score \in Nat /\ incumbent'.score >= incumbent.score
      /\ settled' = settled \/ settled' = incumbent'.score
      /\ settled \in Nat
  BY ScoreRises DEF GainsInv, HistoryInv
<1>3. CASE settled' # settled
  BY <1>2, <1>3
<1>4. CASE settled' = settled /\ incumbent.score >= settled
  BY <1>2, <1>4
<1>5. CASE settled' = settled /\ Regaining
  BY <1>1, <1>5, RegainingKept
<1>6. QED
  BY <1>1, <1>3, <1>4, <1>5 DEF GainsInv, RegainedInv


(* The search begins where every trace does.                               *)
LEMMA BeginGains ==
    ASSUME SearchInv, GainsInv, Begin
    PROVE  GainsInv'
<1>1. /\ JournalGrows /\ UNCHANGED setting
      /\ pc = "discovered" /\ UNCHANGED <<incumbent, history>> /\ UNCHANGED heard
  BY SearchGrows DEF Begin
<1>2. heard' = None /\ incumbent = setting.start
  BY <1>1 DEF SearchInv, HeardInv, SearchStages, GainsInv, HistoryInv
<1>3. CurrentStage' = StartStage /\ pc' \in {"split", "sweep"}
  <2>1. CASE setting.gpu
    <3>1. Enter("split", 1, 1, incumbent'.score)
      BY <1>1, <2>1 DEF Begin, BeginSearch
    <3>2. CurrentStage' = Entered("split", 1, 1, incumbent'.score, incumbent')
      BY <1>1, <3>1, EnterIs DEF Replayed
    <3>3. QED
      BY <1>1, <1>2, <2>1, <3>1, <3>2 DEF StartStage, Enter
  <2>2. CASE ~setting.gpu
    <3>1. Enter("sweep", 1, 1, incumbent'.score)
      BY <1>1, <2>2 DEF Begin, BeginSearch
    <3>2. CurrentStage' = Entered("sweep", 1, 1, incumbent'.score, incumbent')
      BY <1>1, <3>1, EnterIs DEF Replayed
    <3>3. QED
      BY <1>1, <1>2, <2>2, <3>1, <3>2 DEF StartStage, Enter
  <2>3. QED
    BY <2>1, <2>2
<1>4. PICK s : s = StartStage /\ s = StartStage' /\ s = CurrentStage'
  BY <1>1, <1>3, StagesSame
<1>5. Matches(s)'
  BY <1>2, <1>4 DEF Matches, Consistent
<1>6. HistoryInv'
  BY <1>1, <1>3 DEF GainsInv, HistoryInv, history
<1>7. FollowedInv'
  <2> DEFINE T == [j \in {0} |-> s]
  <2>1. T[0] = s
    OBVIOUS
  <2> HIDE DEF T
  <2>2. Trace(T, 0)' /\ Matches(T[0])'
    <3>1. Matches(T[0])' /\ T[0] = StartStage'
      BY <1>4, <1>5, <2>1
    <3>2. ~\E j : j \in 0..(0 - 1)
      OBVIOUS
    <3>3. QED
      BY <3>1, <3>2 DEF Trace
  <2>3. QED
    BY <2>2 DEF FollowedInv
<1>8. PICK n \in Nat : \E T : Trace(T, n) /\ T[n].incumbent.score >= settled
  BY DEF GainsInv, SettledInv
<1>9. PICK T : Trace(T, n) /\ T[n].incumbent.score >= settled
  BY <1>8
<1>10. Trace(T, n)' /\ T[0] = StartStage /\ settled' = settled
  BY <1>1, <1>9, TraceStays DEF Trace, history
<1>11. SettledInv'
  BY <1>9, <1>10 DEF SettledInv
<1>12. RegainedInv'
  <2>1. CASE n = 0
    <3>1. T[n].incumbent = incumbent'
      BY <1>1, <1>2, <1>10, <2>1 DEF StartStage, Entered
    <3>2. QED
      BY <1>9, <1>10, <3>1 DEF RegainedInv
  <2>2. CASE n # 0
    <3>1. 0 \in 0..(n - 1)
      BY <2>2
    <3>2. Matches(T[0])'
      BY <1>4, <1>10, <1>5
    <3>3. Regaining'
      BY <1>2, <1>3, <1>9, <1>10, <3>1, <3>2 DEF Regaining, Replayed
    <3>4. QED
      BY <3>3 DEF RegainedInv
  <2>3. QED
    BY <2>1, <2>2
<1>13. QED
  BY <1>6, <1>7, <1>11, <1>12 DEF GainsInv

(* Nothing else has to be said where no process searches.                  *)
LEMMA GainsElsewhere ==
    ASSUME GainsInv, JournalGrows, UNCHANGED <<setting, settled>>,
           replayable' \in BOOLEAN, pc' = "discovered" => incumbent' = setting.start,
           CanExecute' => pc' \notin SearchStages \cup {"searched"}
    PROVE  GainsInv'
<1>1. HistoryInv'
  BY DEF GainsInv, HistoryInv
<1>2. FollowedInv' /\ RegainedInv'
  BY DEF FollowedInv, RegainedInv, Replayed, SearchStages
<1>3. SettledInv'
  BY TraceStays DEF GainsInv, SettledInv
<1>4. QED
  BY <1>1, <1>2, <1>3 DEF GainsInv

LEMMA GainsSteady ==
    ASSUME GainsInv, UNCHANGED vars
    PROVE  GainsInv'
<1>1. /\ UNCHANGED <<setting, trials, probes, executed, stop, expired, pc, at, todo, heard, best,
                     incumbent, settled, replayable>>
  BY DEF vars, searchVars, journal, signals, stage, history
<1>2. JournalGrows
  BY <1>1 DEF JournalGrows
<1>3. ASSUME NEW s, Matches(s)
      PROVE  Matches(s)'
  BY <1>1, <1>3 DEF Matches, CurrentStage, Consistent, Dim
<1>4. \A T : \A n \in Nat : Trace(T, n) => Trace(T, n)'
  BY <1>1, <1>2, TraceStays
<1>5. CanExecute' = CanExecute
  BY <1>1 DEF CanExecute
<1>6. HistoryInv' /\ FollowedInv' /\ SettledInv'
  BY <1>1, <1>3, <1>4, <1>5 DEF GainsInv, HistoryInv, FollowedInv, SettledInv
<1>7. Regaining => Regaining'
  BY <1>1, <1>3, <1>4 DEF Regaining
<1>8. RegainedInv'
  BY <1>1, <1>5, <1>7 DEF GainsInv, RegainedInv
<1>9. QED
  BY <1>6, <1>8 DEF GainsInv

(* The conclusion never searches again.                                    *)
LEMMA NeverSearched ==
    ASSUME FinalStep
    PROVE  pc' # "searched"
<1> USE DEF EnvelopeFrame, InRung, InFallbacks, MayAskPrimary, MayAskFallback, AfterConfirm
<1>1. CASE EndSearch \/ Validate \/ RefuseConfirmation \/ RecallConfirmation \/ Confirm
  BY <1>1 DEF EndSearch, Validate, RefuseConfirmation, RecallConfirmation, Confirm
<1>2. CASE DepthRun \/ DepthDone \/ ValidateWithCli \/ GateRun \/ GateDone
  BY <1>2 DEF DepthRun, DepthDone, ValidateWithCli, GateRun, GateDone
<1>3. CASE SkipRung \/ RecallPrimary \/ ProbePrimary \/ ExhaustPrimary \/ PrunePrimary
  BY <1>3 DEF SkipRung, RecallPrimary, ProbePrimary, ExhaustPrimary, PrunePrimary
<1>4. CASE RecallFallback \/ ProbeFallback \/ CloseWithoutFallback
  BY <1>4 DEF RecallFallback, ProbeFallback, CloseWithoutFallback
<1>5. CASE EndEnvelope \/ LosslessProbe \/ LosslessDone \/ Publish
  BY <1>5 DEF EndEnvelope, LosslessProbe, LosslessDone, Publish
<1>6. QED
  BY <1>1, <1>2, <1>3, <1>4, <1>5 DEF FinalStep

LEMMA GainsKept ==
    ASSUME SessionInv, GainsInv, [Next]_vars
    PROVE  GainsInv'
<1>1. SearchInv
  BY DEF SessionInv
<1>2. CASE Begin
  BY <1>1, <1>2, BeginGains
<1>3. CASE SearchStep
  <2>1. FollowedInv' /\ SettledInv' /\ RegainedInv'
    BY <1>1, <1>3, FollowedKept, SettledKept, RegainedKept
  <2>2. replayable' \in BOOLEAN /\ settled' \in Nat
    BY <1>1, <1>3, ScoreRises DEF GainsInv, HistoryInv
  <2>3. pc' # "discovered"
    BY <1>3, SearchWork DEF SearchStages
  <2>4. QED
    BY <2>1, <2>2, <2>3 DEF GainsInv, HistoryInv
<1>4. CASE FinalStep
  <2>1. /\ UNCHANGED <<setting, trials, settled, replayable>>
        /\ pc' \notin SearchStages \cup {"searched", "discovered"}
    BY <1>4, FinalFrame, NeverSearched DEF ascent, history, FinalStages, SearchStages
  <2>2. JournalGrows
    BY <1>4, <2>1, SessionGrows DEF Next, Step, ProbesGrow, JournalGrows
  <2>3. QED
    BY <2>1, <2>2, GainsElsewhere DEF GainsInv, HistoryInv
<1>5. CASE Interrupt \/ Expire
  <2>1. /\ UNCHANGED <<setting, trials, probes, settled, replayable, pc, incumbent>>
        /\ ~CanExecute'
    BY <1>5 DEF Interrupt, Expire, journal, history, stage, CanExecute
  <2>2. JournalGrows
    BY <2>1 DEF JournalGrows
  <2>3. QED
    BY <2>1, <2>2, GainsElsewhere DEF GainsInv, HistoryInv
<1>6. CASE Crash \/ Revalidate
  <2>1. /\ UNCHANGED <<setting, trials, probes, settled, replayable>> /\ pc' \in {"down", "ended"}
    BY <1>6 DEF Crash, Revalidate, journal, history, stage
  <2>2. JournalGrows
    BY <2>1 DEF JournalGrows
  <2>3. QED
    BY <2>1, <2>2, GainsElsewhere DEF GainsInv, HistoryInv, SearchStages
<1>7. CASE Resume
  <2>1. /\ UNCHANGED <<setting, trials, probes, settled>> /\ replayable' = TRUE
        /\ pc' = "discovered" /\ incumbent' = setting.start
    BY <1>7 DEF Resume, SearchRestart, journal
  <2>2. JournalGrows
    BY <2>1 DEF JournalGrows
  <2>3. QED
    BY <2>1, <2>2, GainsElsewhere DEF SearchStages
<1>8. CASE UNCHANGED vars
  BY <1>8, GainsSteady
<1>9. QED
  BY <1>2, <1>3, <1>4, <1>5, <1>6, <1>7, <1>8 DEF Next, Step, Finished

(***************************************************************************)
(* A later process that may still execute at the end of its search has an  *)
(* incumbent as good as any that placements and sweeps alone had reached:  *)
(* it goes through the stages that led there, each the one the journal     *)
(* leads to, and promotes nothing else before it has.                      *)
(***************************************************************************)
THEOREM GainsSurvive == Spec => []SweptGainsSurvive
<1>1. Init => GainsInv
  <2> SUFFICES ASSUME Init
               PROVE  GainsInv
    OBVIOUS
  <2>1. /\ pc = "discovered" /\ incumbent = setting.start /\ replayable = TRUE
        /\ settled = setting.start.score /\ setting \in Settings
    BY DEF Init, SearchInit
  <2>2. setting.start.score \in Nat
    BY <2>1, SettingsAssumption
  <2>3. HistoryInv /\ FollowedInv /\ RegainedInv
    BY <2>1, <2>2 DEF HistoryInv, FollowedInv, RegainedInv, Replayed, SearchStages
  <2>4. SettledInv
    <3> DEFINE T == [j \in {0} |-> StartStage]
    <3>1. T[0] = StartStage
      OBVIOUS
    <3> HIDE DEF T
    <3>2. T[0].incumbent = setting.start
      BY <3>1 DEF StartStage, Entered
    <3>3. Trace(T, 0) /\ T[0].incumbent.score >= settled
      BY <2>1, <2>2, <3>1, <3>2 DEF Trace
    <3>4. QED
      BY <3>3 DEF SettledInv
  <2>5. QED
    BY <2>3, <2>4 DEF GainsInv
<1>2. SessionInv /\ GainsInv /\ [Next]_vars => GainsInv'
  BY GainsKept
<1>3. GainsInv => SweptGainsSurvive
  BY DEF GainsInv, RegainedInv, Regaining, SweptGainsSurvive, Replayed
<1>4. QED
  BY <1>1, <1>2, <1>3, Inductive, PTL DEF Spec

----------------------------------------------------------------------------
(* That every process ends is a liveness property.  What makes it true is  *)
(* not: each step of a process lowers its height, in an order that has no  *)
(* infinite descent.                                                       *)

\* Stages only follow one another downwards; sweeps and threads alternate.
Phase ==
    CASE pc = "discovered" -> 17 [] pc = "split" -> 16 [] pc \in {"sweep", "thread"} -> 15
      [] pc = "pairwise" -> 14 [] pc = "cross" -> 13 [] pc = "joint" -> 12 [] pc = "climb" -> 11
      [] pc = "ot" -> 10 [] pc \in {"searched", "exhausted"} -> 9 [] pc = "validate" -> 8
      [] pc = "confirm" -> 7 [] pc = "depth" -> 6 [] pc = "cli" -> 5 [] pc = "gate" -> 4
      [] pc = "envelope" -> 3 [] pc = "lossless" -> 2 [] pc = "publish" -> 1 [] OTHER -> 0

\* The incumbent with another number of experts on the CPU.
MovedTo(cfg, m) == [f \in Fields |-> IF f = "moe_cpu_layers" THEN m ELSE cfg[f]]

\* Where a climb may still go.
Unvisited == {m \in 0..setting.experts : MovedTo(incumbent.cfg, m) \notin climb.visited}

\* Dimensions a pass has before it, twice for their threads; places of a climb;
\* rungs of the envelope.
Round ==
    CASE pc \in {"sweep", "thread"} ->
            ((MaxPasses - at.pass) * 9 + (9 - at.dim)) * 2 + (IF pc = "sweep" THEN 1 ELSE 0)
      [] pc = "climb" -> Cardinality(Unvisited)
      [] pc = "envelope" -> Len(setting.ladder) + 1 - Len(rows)
      [] OTHER -> 0

\* What a stage has still to try; a rung asks for its fallbacks last.
Items ==
    CASE pc \in SearchStages -> Len(todo)
      [] pc \in {"depth", "gate", "lossless"} -> Len(left)
      [] pc = "envelope" -> IF env.searching THEN 0 ELSE 1
      [] OTHER -> 0

\* A candidate is heard, checked and judged; fallbacks are asked one by one.
Looks ==
    CASE pc \in SearchStages -> IF heard = None THEN 2 ELSE IF heard.checked THEN 0 ELSE 1
      [] pc = "envelope" -> IF env.searching THEN Len(left) ELSE 0
      [] OTHER -> 0

Height ==
    [i \in 1..4 |-> IF i = 1 THEN Phase ELSE IF i = 2 THEN Round ELSE IF i = 3 THEN Items ELSE Looks]

\* The order of the dictionary.
Descent == LexProductOrdering(OpToRel(<, Nat), Nat, 4)

\* Where a climb is about to go it has not been.
TargetInv ==
    pc = "climb" /\ todo # <<>> =>
        \E m \in 0..setting.experts :
            Candidate = MovedTo(incumbent.cfg, m) /\ Candidate \notin climb.visited

HeightOK == Phase \in Nat /\ Round \in Nat /\ Items \in Nat /\ Looks \in Nat

Falls ==
    \/ Phase' < Phase
    \/ Phase' = Phase /\ Round' < Round
    \/ Phase' = Phase /\ Round' = Round /\ Items' < Items
    \/ Phase' = Phase /\ Round' = Round /\ Items' = Items /\ Looks' < Looks

(* The order has no infinite descent.                                      *)
THEOREM DescentEnds == IsWellFoundedOn(Descent, [1..4 -> Nat])
<1>1. IsWellFoundedOn(OpToRel(<, Nat), Nat)
  BY NatLessThanWellFounded
<1>2. 4 \in Nat
  OBVIOUS
<1>3. QED
  BY <1>1, <1>2, WFLexProductOrdering DEF Descent

(* What falls first, falls in the order.                                   *)
LEMMA FallsInOrder ==
    ASSUME HeightOK, HeightOK', Falls
    PROVE  <<Height', Height>> \in Descent
<1>1. PICK a, b, c, d, w, x, y, z :
          /\ a = Phase /\ b = Round /\ c = Items /\ d = Looks
          /\ w = Phase' /\ x = Round' /\ y = Items' /\ z = Looks'
  OBVIOUS
<1> DEFINE g == [i \in 1..4 |-> IF i = 1 THEN a ELSE IF i = 2 THEN b ELSE IF i = 3 THEN c ELSE d]
           h == [i \in 1..4 |-> IF i = 1 THEN w ELSE IF i = 2 THEN x ELSE IF i = 3 THEN y ELSE z]
<1>2. Height = g /\ Height' = h
  BY <1>1 DEF Height
<1>3. /\ a \in Nat /\ b \in Nat /\ c \in Nat /\ d \in Nat
      /\ w \in Nat /\ x \in Nat /\ y \in Nat /\ z \in Nat
      /\ \/ w < a
         \/ w = a /\ x < b
         \/ w = a /\ x = b /\ y < c
         \/ w = a /\ x = b /\ y = c /\ z < d
  BY <1>1 DEF HeightOK, Falls
<1>4. /\ g \in [1..4 -> Nat] /\ h \in [1..4 -> Nat]
      /\ g[1] = a /\ g[2] = b /\ g[3] = c /\ g[4] = d
      /\ h[1] = w /\ h[2] = x /\ h[3] = y /\ h[4] = z
  BY <1>3
<1> HIDE DEF g, h
<1>5. \E j \in 1..4 : h[j] < g[j] /\ \A i \in 1..(j - 1) : h[i] = g[i]
  <2>1. CASE w < a
    <3>1. \A i \in 1..(1 - 1) : h[i] = g[i]
      OBVIOUS
    <3>2. QED
      BY <1>4, <2>1, <3>1
  <2>2. CASE w = a /\ x < b
    <3>1. \A i \in 1..(2 - 1) : i = 1
      OBVIOUS
    <3>2. QED
      BY <1>4, <2>2, <3>1
  <2>3. CASE w = a /\ x = b /\ y < c
    <3>1. \A i \in 1..(3 - 1) : i = 1 \/ i = 2
      OBVIOUS
    <3>2. QED
      BY <1>4, <2>3, <3>1
  <2>4. CASE w = a /\ x = b /\ y = c /\ z < d
    <3>1. \A i \in 1..(4 - 1) : i = 1 \/ i = 2 \/ i = 3
      OBVIOUS
    <3>2. QED
      BY <1>4, <2>4, <3>1
  <2>5. QED
    BY <1>3, <2>1, <2>2, <2>3, <2>4
<1>6. PICK j \in 1..4 : h[j] < g[j] /\ \A i \in 1..(j - 1) : h[i] = g[i]
  BY <1>5
<1>7. <<h[j], g[j]>> \in OpToRel(<, Nat)
  BY <1>4, <1>6 DEF OpToRel
<1>8. <<h, g>> \in Descent
  BY <1>4, <1>6, <1>7 DEF Descent, LexProductOrdering
<1>9. QED
  BY <1>2, <1>8

(* The places of a climb are finitely many.                                *)
LEMMA UnvisitedFacts ==
    ASSUME setting \in Settings
    PROVE  IsFiniteSet(Unvisited) /\ Cardinality(Unvisited) \in Nat
<1>1. setting.experts \in Nat
  BY SettingFacts
<1>2. IsFiniteSet(0..setting.experts)
  BY <1>1, FS_Interval
<1>3. Unvisited \subseteq 0..setting.experts
  BY DEF Unvisited
<1>4. IsFiniteSet(Unvisited)
  BY <1>2, <1>3, FS_Subset
<1>5. QED
  BY <1>4, FS_CardinalityType

(* The rounds of the sweeps and of the envelope.                           *)
LEMMA RoundFacts ==
    ASSUME SessionInv
    PROVE  /\ at.pass \in 1..3 /\ at.dim \in 1..9 /\ MaxPasses = 3 /\ Len(Dimensions) = 9
           /\ Len(setting.ladder) \in Nat /\ Len(rows) \in Nat
           /\ Len(rows) <= Len(setting.ladder) + 1
<1>1. at.pass \in 1..3 /\ at.dim \in 1..9
  BY DEF SessionInv, SearchInv, PlaceInv, MaxPasses, Dimensions
<1>2. Len(setting.ladder) \in Nat
  BY SettingFacts DEF SessionInv, SearchInv
<1>3. Len(rows) \in Nat /\ Len(rows) <= Len(setting.ladder) + 1
  BY SeqFacts DEF SessionInv, StageInv
<1>4. QED
  BY <1>1, <1>2, <1>3 DEF MaxPasses, Dimensions

(* A height is four numbers.                                               *)
LEMMA HeightIsNat ==
    ASSUME SessionInv
    PROVE  HeightOK
<1>1. Phase \in Nat
  BY DEF Phase
<1>2. Round \in Nat
  <2>1. PICK p, d, n, l, r : /\ p = at.pass /\ d = at.dim /\ n = Cardinality(Unvisited)
                             /\ l = Len(setting.ladder) /\ r = Len(rows)
    OBVIOUS
  <2>2. n \in Nat
    BY <2>1, UnvisitedFacts DEF SessionInv, SearchInv
  <2>3. p \in 1..3 /\ d \in 1..9 /\ l \in Nat /\ r \in Nat /\ r <= l + 1
    BY <2>1, RoundFacts
  <2>4. /\ ((3 - p) * 9 + (9 - d)) * 2 + 1 \in Nat /\ ((3 - p) * 9 + (9 - d)) * 2 + 0 \in Nat
        /\ l + 1 - r \in Nat
    BY <2>3
  <2>5. QED
    BY <2>1, <2>2, <2>4 DEF Round, MaxPasses
<1>3. Len(todo) \in Nat /\ Len(left) \in Nat
  BY SeqFacts DEF SessionInv, SearchInv, TodoInv, WorkInv
<1>4. Items \in Nat
  BY <1>3 DEF Items
<1>5. Looks \in Nat
  BY <1>3 DEF Looks
<1>6. QED
  BY <1>1, <1>2, <1>4, <1>5 DEF HeightOK

(* The step of a climb moves the experts to where it has not been.         *)
LEMMA ClimbTargets ==
    ASSUME setting \in Settings, NEW c, c.direction \in Int, c.step \in DOMAIN ClimbSteps,
           NEW cfg, ConfigOK(cfg), ClimbMutation(c, cfg) # <<>>
    PROVE  LET target == Applied(Head(ClimbMutation(c, cfg)), cfg)
           IN  /\ \E m \in 0..setting.experts : target = MovedTo(cfg, m)
               /\ target \notin c.visited
<1> DEFINE m == Mutation([f \in {} |-> None], c.direction * ClimbSteps[c.step])
           target == Applied(m, cfg)
<1>1. ClimbMutation(c, cfg) = <<m>> /\ target # cfg /\ target \notin c.visited
  BY DEF ClimbMutation
<1>2. DOMAIN m.set = {} /\ m.shift = c.direction * ClimbSteps[c.step]
  BY DEF Mutation
<1>3. m.shift \in Int
  <2>1. ClimbSteps[c.step] \in Int
    BY DEF ClimbSteps
  <2>2. QED
    BY <1>2, <2>1
<1> HIDE DEF m
<1>4. /\ target = [f \in Fields |-> target[f]] /\ cfg = [f \in Fields |-> cfg[f]]
      /\ \A f \in Fields \ {"moe_cpu_layers"} : target[f] = cfg[f]
      /\ target.moe_cpu_layers = IF m.shift = 0 THEN cfg.moe_cpu_layers
                                 ELSE Clamp(cfg.moe_cpu_layers + m.shift, 0, setting.experts)
  <2>1. cfg = [f \in Fields |-> cfg[f]]
    BY DEF ConfigOK
  <2>2. /\ target = [f \in Fields |-> target[f]]
        /\ \A f \in Fields \ {"moe_cpu_layers"} :
              target[f] = IF f \in DOMAIN m.set THEN m.set[f] ELSE cfg[f]
        /\ target.moe_cpu_layers =
              LET n == IF "moe_cpu_layers" \in DOMAIN m.set THEN m.set.moe_cpu_layers
                       ELSE cfg.moe_cpu_layers
              IN  IF m.shift = 0 THEN n ELSE Clamp(n + m.shift, 0, setting.experts)
    BY <2>1, AppliedFields
  <2> HIDE DEF target
  <2>3. QED
    BY <1>2, <2>1, <2>2
<1> HIDE DEF target
<1>5. target = MovedTo(cfg, target.moe_cpu_layers)
  BY <1>4 DEF MovedTo
<1>6. target.moe_cpu_layers \in 0..setting.experts
  <2>1. CASE m.shift = 0
    <3>1. \A f \in Fields : target[f] = cfg[f]
      BY <1>4, <2>1
    <3>2. target = cfg
      BY <1>4, <3>1
    <3>3. QED
      BY <1>1, <3>2
  <2>2. CASE m.shift # 0
    <3>1. PICK n, k : n = cfg.moe_cpu_layers + m.shift /\ k = setting.experts
      OBVIOUS
    <3>2. n \in Int /\ k \in Int /\ 0 <= k
      BY <1>3, <3>1, SettingFacts DEF ConfigOK
    <3>3. Clamp(n, 0, k) \in 0..k
      BY <3>2, ClampIn
    <3>4. QED
      BY <1>4, <2>2, <3>1, <3>3
  <2>3. QED
    BY <2>1, <2>2
<1>7. Head(ClimbMutation(c, cfg)) = m
  BY <1>1
<1>8. QED
  BY <1>1, <1>5, <1>6, <1>7 DEF target

(* Elsewhere nothing of a climb moves.                                     *)
LEMMA TargetSteady ==
    ASSUME TargetInv, UNCHANGED <<setting, incumbent, climb>>,
           pc' = "climb" => pc = "climb" /\ (todo' = todo \/ todo' = <<>>)
    PROVE  TargetInv'
BY DEF TargetInv, Candidate, Applied

(* A climb judges a place it has not been to, and goes on to another.      *)
LEMMA JudgedClimb ==
    ASSUME SearchInv, TargetInv, Judge, pc = "climb"
    PROVE  /\ climb'.visited = climb.visited \cup {heard.cfg}
           /\ incumbent'.cfg \in {incumbent.cfg, heard.cfg}
           /\ climb'.direction \in Int /\ climb'.step \in DOMAIN ClimbSteps
           /\ todo' = ClimbMutation(climb', incumbent'.cfg)
           /\ \E m \in 0..setting.experts :
                 heard.cfg = MovedTo(incumbent.cfg, m) /\ heard.cfg \notin climb.visited
<1>1. PICK won \in BOOLEAN : climb' = Climbed(won)
  BY DEF Judge
<1>2. /\ todo' = ClimbMutation(climb', incumbent'.cfg) /\ heard # None
      /\ incumbent' = incumbent \/ incumbent' = [cfg |-> heard.cfg, score |-> heard.score]
  BY DEF Judge, Promote
<1>3. /\ climb.direction \in Int /\ climb.step \in 1..4
      /\ climb = [direction |-> climb.direction, step |-> climb.step, misses |-> climb.misses,
                  started |-> climb.started, before |-> climb.before, visited |-> climb.visited]
  BY DEF SearchInv, ClimbInv, ClimbSteps
<1> DEFINE misses == IF won THEN 0
                     ELSE IF executed > climb.before THEN climb.misses + 1 ELSE climb.misses
           step == IF won THEN Smaller(climb.step + 1, Len(ClimbSteps)) ELSE 1
           visited == climb.visited \cup {heard.cfg}
<1>4. step \in 1..4
  BY <1>3 DEF Smaller, ClimbSteps
<1>5. climb' = [direction |-> climb.direction, step |-> step, misses |-> misses,
                started |-> climb.started, before |-> executed, visited |-> visited]
  BY <1>1, <1>3 DEF Climbed
<1> HIDE DEF misses, step
<1>6. climb'.visited = visited /\ climb'.direction \in Int /\ climb'.step \in DOMAIN ClimbSteps
  BY <1>3, <1>4, <1>5 DEF ClimbSteps
<1>7. todo # <<>> /\ heard.cfg = Candidate
  BY <1>2 DEF SearchInv, HeardInv
<1>8. QED
  BY <1>2, <1>6, <1>7 DEF TargetInv

(* A step of the search keeps a climb going where it has not been.         *)
LEMMA TargetKept ==
    ASSUME SessionInv, SessionInv', TargetInv, SearchStep
    PROVE  TargetInv'
<1>1. /\ setting' = setting /\ setting \in Settings /\ SearchInv /\ ConfigOK(incumbent'.cfg)
      /\ pc \in SearchStages
  <2>1. ConfigOK(incumbent.cfg)' /\ setting \in Settings /\ SearchInv
    BY DEF SessionInv, SearchInv, ScoredOK
  <2>2. setting' = setting /\ pc \in SearchStages
    BY DEF SearchStep, Skip, PruneCandidate, RecallTrial, RunTrial, PairCheck, RefusePair,
       RecallProbe, PruneProbe, RunProbe, Judge, NextStage, GiveUpStage, Exhaust, MayRun, Trying,
       NeedsPair, NeedsProbe, SearchStages
  <2>3. QED
    BY <2>1, <2>2 DEF ConfigOK, Valid
<1>2. ASSUME NEW c, climb' = c, c.direction \in Int, c.step \in DOMAIN ClimbSteps,
             todo' = ClimbMutation(c, incumbent'.cfg)
      PROVE  TargetInv'
  <2>1. PICK inc : inc = incumbent'.cfg
    OBVIOUS
  <2>2. PICK q : q = ClimbMutation(c, inc)
    OBVIOUS
  <2>3. q # <<>> =>
            /\ \E m \in 0..setting.experts : Applied(Head(q), inc) = MovedTo(inc, m)
            /\ Applied(Head(q), inc) \notin c.visited
    BY <1>1, <1>2, <2>1, <2>2, ClimbTargets
  <2>4. Candidate' = Applied(Head(q), inc)
    BY <1>1, <1>2, <2>1, <2>2 DEF Candidate, Applied
  <2>5. QED
    BY <1>1, <1>2, <2>1, <2>2, <2>3, <2>4 DEF TargetInv
<1>3. CASE Skip
  <2>1. pc # "climb" /\ UNCHANGED <<incumbent, climb, pc>>
    BY <1>3 DEF Skip, Skipped, SkipsKnown
  <2>2. QED
    BY <1>1, <2>1, TargetSteady
<1>4. CASE \/ PruneCandidate \/ RecallTrial \/ RunTrial \/ PairCheck \/ RefusePair
           \/ RecallProbe \/ PruneProbe \/ RunProbe
  <2>1. UNCHANGED <<incumbent, climb, pc>> /\ (pc = "climb" => todo' = todo)
    BY <1>4 DEF PruneCandidate, RecallTrial, RunTrial, PairCheck, RefusePair, RecallProbe,
       PruneProbe, RunProbe
  <2>2. QED
    BY <1>1, <2>1, TargetSteady
<1>5. CASE Judge
  <2>1. CASE pc = "climb"
    <3>1. PICK c : c = climb'
      OBVIOUS
    <3>2. c.direction \in Int /\ c.step \in DOMAIN ClimbSteps
          /\ todo' = ClimbMutation(c, incumbent'.cfg)
      BY <1>1, <1>5, <2>1, <3>1, JudgedClimb
    <3>3. QED
      BY <1>2, <3>1, <3>2
  <2>2. CASE pc # "climb"
    BY <1>5, <2>2 DEF Judge, TargetInv
  <2>3. QED
    BY <2>1, <2>2
<1>6. CASE NextStage
  <2>1. CASE pc = "joint" /\ incumbent.cfg.moe_cpu_layers # at.moe
    <3>1. BeginClimb /\ incumbent' = incumbent
      BY <1>6, <2>1 DEF NextStage, AfterStage
    <3> DEFINE c == [NoClimb EXCEPT
                       !.direction = IF incumbent.cfg.moe_cpu_layers > at.moe THEN 1 ELSE -1,
                       !.started = executed, !.before = executed]
               d == IF incumbent.cfg.moe_cpu_layers > at.moe THEN 1 ELSE -1
    <3>2. climb' = c /\ todo' = ClimbMutation(c, incumbent'.cfg)
      BY <3>1 DEF BeginClimb
    <3>3. d \in Int
      OBVIOUS
    <3>4. c.direction = d /\ c.step = 1
      BY DEF NoClimb
    <3> HIDE DEF c, d
    <3>5. c.direction \in Int /\ c.step \in DOMAIN ClimbSteps
      BY <3>3, <3>4 DEF ClimbSteps
    <3>6. QED
      BY <1>2, <3>2, <3>5
  <2>2. CASE ~(pc = "joint" /\ incumbent.cfg.moe_cpu_layers # at.moe)
    <3>1. pc' # "climb"
      BY <1>1, <1>6, <2>2 DEF NextStage, AfterStage, Enter, Leave, NextDimension, Refine, AfterPairs,
         SearchStages
    <3>2. QED
      BY <3>1 DEF TargetInv
  <2>3. QED
    BY <2>1, <2>2
<1>7. CASE GiveUpStage
  <2>1. CASE pc = "pairwise"
    <3>1. pc' # "climb"
      BY <1>7, <2>1 DEF GiveUpStage, AfterPairs, Enter, Leave
    <3>2. QED
      BY <3>1 DEF TargetInv
  <2>2. CASE pc # "pairwise"
    BY <1>7, <2>2 DEF GiveUpStage, TargetInv
  <2>3. QED
    BY <2>1, <2>2
<1>8. CASE Exhaust
  BY <1>8 DEF Exhaust, Leave, TargetInv
<1>9. QED
  BY <1>3, <1>4, <1>5, <1>6, <1>7, <1>8 DEF SearchStep

----------------------------------------------------------------------------
(* A step that stays where the search is, with less to try.                *)
LEMMA FewerItems ==
    ASSUME SessionInv, pc \in SearchStages \ {"climb"}, UNCHANGED <<setting, pc, at>>,
           todo # <<>>, todo' = Tail(todo)
    PROVE  Falls
<1>1. Phase' = Phase
  BY DEF Phase
<1>2. Round' = Round
  BY DEF Round, SearchStages
<1>3. Len(todo) \in Nat /\ Len(todo') = Len(todo) - 1
  BY SeqFacts DEF SessionInv, SearchInv, TodoInv
<1>4. Items = Len(todo) /\ Items' = Len(todo')
  BY DEF Items, SearchStages
<1>5. Items' < Items
  BY <1>3, <1>4
<1>6. QED
  BY <1>1, <1>2, <1>5 DEF Falls

(* What the places of a climb depend on.                                   *)
LEMMA RoundSame ==
    ASSUME UNCHANGED <<setting, pc, at, climb, incumbent>>, pc \in SearchStages
    PROVE  Phase' = Phase /\ Round' = Round
<1>1. Phase' = Phase
  BY DEF Phase
<1>2. Unvisited' = Unvisited
  BY DEF Unvisited, MovedTo
<1>3. QED
  BY <1>1, <1>2 DEF Round, SearchStages

LEMMA SkipFalls ==
    ASSUME SessionInv, Skip \/ PruneCandidate
    PROVE  Falls
<1>1. /\ pc \in SearchStages \ {"climb"} /\ UNCHANGED <<setting, pc, at>>
      /\ todo # <<>> /\ todo' = Tail(todo)
  BY DEF Skip, PruneCandidate, Trying, Skipped, SkipsKnown, SearchStages
<1>2. QED
  BY <1>1, FewerItems

(* A candidate is heard.                                                   *)
LEMMA HearFalls ==
    ASSUME DOMAIN None # {"cfg", "score", "ok", "checked", "allowed"},
           RecallTrial \/ RunTrial
    PROVE  Falls
<1>1. /\ pc \in SearchStages /\ UNCHANGED <<setting, pc, at, todo, climb, incumbent>>
      /\ heard = None /\ \E cfg, outcome : heard' = Judging(cfg, outcome)
  BY DEF RecallTrial, RunTrial, MayRun, Trying
<1>2. PICK cfg, outcome : heard' = Judging(cfg, outcome)
  BY <1>1
<1>3. heard' # None /\ ~heard'.checked
  <2>1. DOMAIN heard' = {"cfg", "score", "ok", "checked", "allowed"} /\ heard'.checked = FALSE
    BY <1>2 DEF Judging
  <2>2. QED
    BY <2>1
<1>4. Phase' = Phase /\ Round' = Round
  BY <1>1, RoundSame
<1>5. Items' = Items
  BY <1>1 DEF Items
<1>6. Looks = 2 /\ Looks' = 1
  BY <1>1, <1>3 DEF Looks, SearchStages
<1>7. QED
  BY <1>4, <1>5, <1>6 DEF Falls

(* A check is made.                                                        *)
LEMMA CheckFalls ==
    ASSUME DOMAIN None # {"cfg", "score", "ok", "checked", "allowed"}, SessionInv,
           PairCheck \/ RefusePair \/ RecallProbe \/ PruneProbe \/ RunProbe
    PROVE  Falls
<1>1. /\ pc \in SearchStages /\ UNCHANGED <<setting, pc, at, todo, climb, incumbent>>
      /\ heard # None /\ ~heard.checked
      /\ \E allowed : heard' = [heard EXCEPT !.checked = TRUE, !.allowed = allowed]
  BY DEF PairCheck, RefusePair, RecallProbe, PruneProbe, RunProbe, NeedsPair, NeedsProbe, Checked,
     SearchStages
<1>2. PICK allowed : heard' = [heard EXCEPT !.checked = TRUE, !.allowed = allowed]
  BY <1>1
<1>3. DOMAIN heard = {"cfg", "score", "ok", "checked", "allowed"}
  BY <1>1 DEF SessionInv, SearchInv, HeardInv
<1>4. heard' # None /\ heard'.checked
  <2>1. DOMAIN heard' = DOMAIN heard /\ heard'.checked = TRUE
    BY <1>2, <1>3
  <2>2. QED
    BY <1>3, <2>1
<1>5. Phase' = Phase /\ Round' = Round
  BY <1>1, RoundSame
<1>6. Items' = Items
  BY <1>1 DEF Items
<1>7. Looks = 1 /\ Looks' = 0
  BY <1>1, <1>4 DEF Looks, SearchStages
<1>8. QED
  BY <1>5, <1>6, <1>7 DEF Falls

(* A candidate is judged: there is one less, or one place less to climb to.*)
LEMMA JudgeFalls ==
    ASSUME SessionInv, TargetInv, Judge
    PROVE  Falls
<1>1. /\ pc \in SearchStages /\ UNCHANGED <<setting, pc, at>> /\ heard # None
  BY DEF Judge
<1>2. CASE pc # "climb"
  <2>1. todo # <<>> /\ todo' = Tail(todo)
    BY <1>1, <1>2 DEF Judge, SessionInv, SearchInv, HeardInv
  <2>2. QED
    BY <1>1, <1>2, <2>1, FewerItems
<1>3. CASE pc = "climb"
  <2>1. PICK m \in 0..setting.experts :
            heard.cfg = MovedTo(incumbent.cfg, m) /\ heard.cfg \notin climb.visited
    BY <1>3, JudgedClimb DEF SessionInv
  <2>2. /\ climb'.visited = climb.visited \cup {heard.cfg}
        /\ incumbent'.cfg \in {incumbent.cfg, heard.cfg}
    BY <1>3, JudgedClimb DEF SessionInv
  <2>3. \A k : MovedTo(incumbent'.cfg, k) = MovedTo(incumbent.cfg, k)
    <3>1. PICK a, b : a = incumbent.cfg /\ b = incumbent'.cfg
      OBVIOUS
    <3>2. ASSUME NEW k
          PROVE  MovedTo(MovedTo(a, m), k) = MovedTo(a, k)
      BY DEF MovedTo
    <3>3. b = a \/ b = MovedTo(a, m)
      BY <2>1, <2>2, <3>1
    <3>4. QED
      BY <3>1, <3>2, <3>3
  <2>4. Unvisited' \subseteq Unvisited \ {m} /\ m \in Unvisited
    <3>1. m \in Unvisited
      BY <2>1 DEF Unvisited
    <3>2. ASSUME NEW k \in Unvisited'
          PROVE  k \in Unvisited /\ k # m
      <4>1. k \in 0..setting.experts /\ MovedTo(incumbent.cfg, k) \notin climb.visited \cup {heard.cfg}
        BY <1>1, <2>2, <2>3 DEF Unvisited
      <4>2. QED
        BY <2>1, <4>1 DEF Unvisited
    <3>3. QED
      BY <3>1, <3>2
  <2>5. Cardinality(Unvisited') < Cardinality(Unvisited)
    <3>1. PICK S, T : S = Unvisited /\ T = Unvisited'
      OBVIOUS
    <3>2. IsFiniteSet(S) /\ Cardinality(S) \in Nat
      BY <3>1, UnvisitedFacts DEF SessionInv, SearchInv
    <3>3. IsFiniteSet(S \ {m}) /\ Cardinality(S \ {m}) = Cardinality(S) - 1
      BY <2>4, <3>1, <3>2, FS_RemoveElement
    <3>4. T \in SUBSET (S \ {m})
      BY <2>4, <3>1
    <3>5. Cardinality(T) <= Cardinality(S \ {m}) /\ IsFiniteSet(T)
      BY <3>3, <3>4, FS_Subset
    <3>6. Cardinality(T) \in Nat
      BY <3>5, FS_CardinalityType
    <3>7. Cardinality(T) < Cardinality(S)
      BY <3>2, <3>3, <3>5, <3>6
    <3>8. QED
      BY <3>1, <3>7
  <2>6. Round = Cardinality(Unvisited) /\ Round' = Cardinality(Unvisited')
    BY <1>1, <1>3 DEF Round
  <2>7. Phase' = Phase
    BY <1>1 DEF Phase
  <2>8. QED
    BY <2>5, <2>6, <2>7 DEF Falls
<1>4. QED
  BY <1>2, <1>3

(* A pass goes on: to the threads of its dimension, to the next dimension, *)
(* or to another pass.                                                     *)
LEMMA PassFalls ==
    ASSUME SessionInv, UNCHANGED setting,
           \/ /\ pc = "sweep" /\ pc' = "thread"
              /\ at'.pass = at.pass /\ at'.dim = at.dim
           \/ /\ pc \in {"sweep", "thread"} /\ pc' = "sweep" /\ at.dim < 9
              /\ at'.pass = at.pass /\ at'.dim = at.dim + 1
           \/ /\ pc \in {"sweep", "thread"} /\ pc' = "sweep" /\ at.dim = 9
              /\ at'.pass = at.pass + 1 /\ at'.dim = 1
    PROVE  Falls
<1>1. PICK p, d, q, e, x, y :
          /\ p = at.pass /\ d = at.dim /\ q = at'.pass /\ e = at'.dim
          /\ x = (IF pc = "sweep" THEN 1 ELSE 0) /\ y = (IF pc' = "sweep" THEN 1 ELSE 0)
  OBVIOUS
<1>2. /\ p \in 1..3 /\ d \in 1..9 /\ x \in {0, 1} /\ y \in {0, 1}
      /\ \/ x = 1 /\ y = 0 /\ q = p /\ e = d
         \/ y = 1 /\ q = p /\ e = d + 1
         \/ y = 1 /\ d = 9 /\ q = p + 1 /\ e = 1
  BY <1>1, RoundFacts
<1>3. ((3 - q) * 9 + (9 - e)) * 2 + y < ((3 - p) * 9 + (9 - d)) * 2 + x
  BY <1>2
<1>4. /\ Round = ((3 - p) * 9 + (9 - d)) * 2 + x
      /\ Round' = ((3 - q) * 9 + (9 - e)) * 2 + y
  BY <1>1 DEF Round, MaxPasses
<1>5. Phase' = Phase
  BY DEF Phase
<1>6. Round' < Round
  BY <1>3, <1>4
<1>7. QED
  BY <1>5, <1>6 DEF Falls

(* Every other stage is followed by a later one.                           *)
LEMMA PhaseFalls ==
    ASSUME \/ pc = "discovered" /\ pc' \in {"split", "sweep"}
           \/ pc = "split" /\ pc' = "sweep"
           \/ pc \in {"sweep", "thread"} /\ pc' = "pairwise"
           \/ pc = "pairwise" /\ pc' \in {"cross", "joint", "searched"}
           \/ pc = "cross" /\ pc' \in {"joint", "searched"}
           \/ pc = "joint" /\ pc' \in {"climb", "ot"}
           \/ pc = "climb" /\ pc' = "ot"
           \/ pc = "ot" /\ pc' = "searched"
           \/ pc \in SearchStages /\ pc' = "exhausted"
    PROVE  Falls
<1>1. Phase' < Phase
  BY DEF Phase, SearchStages
<1>2. QED
  BY <1>1 DEF Falls

(* A stage ends.                                                           *)
LEMMA NextStageFalls ==
    ASSUME SessionInv, NextStage
    PROVE  Falls
<1>1. /\ AfterStage /\ UNCHANGED setting /\ pc \in SearchStages
  BY DEF NextStage
<1>2. /\ at.pass \in 1..3 /\ at.dim \in 1..9 /\ Len(Dimensions) = 9
  BY RoundFacts
<1>3. CASE pc = "split"
  BY <1>1, <1>3, PhaseFalls DEF AfterStage, Enter
<1>4. CASE pc = "sweep" /\ Dim \in ThreadDims
  <2>1. pc' = "thread" /\ at'.pass = at.pass /\ at'.dim = at.dim
    BY <1>1, <1>4 DEF AfterStage, Enter
  <2>2. QED
    BY <1>1, <1>4, <2>1, PassFalls
<1>5. CASE pc = "thread" \/ (pc = "sweep" /\ Dim \notin ThreadDims)
  <2>1. NextDimension
    BY <1>1, <1>5 DEF AfterStage
  <2>2. CASE at.dim < 9
    <3>1. pc' = "sweep" /\ at'.pass = at.pass /\ at'.dim = at.dim + 1
      BY <1>2, <2>1, <2>2 DEF NextDimension, Enter
    <3>2. QED
      BY <1>1, <1>5, <2>2, <3>1, PassFalls
  <2>3. CASE at.dim = 9
    <3>1. \/ pc' = "pairwise"
          \/ pc' = "sweep" /\ at'.pass = at.pass + 1 /\ at'.dim = 1
      BY <1>2, <2>1, <2>3 DEF NextDimension, Refine, Enter
    <3>2. QED
      BY <1>1, <1>5, <2>3, <3>1, PassFalls, PhaseFalls
  <2>4. QED
    BY <1>2, <2>2, <2>3
<1>6. CASE pc \notin {"split", "sweep", "thread"}
  <2>1. \/ pc = "pairwise" /\ pc' = "cross"
        \/ pc = "cross" /\ pc' \in {"joint", "searched"}
        \/ pc = "joint" /\ pc' \in {"climb", "ot"}
        \/ pc = "climb" /\ pc' = "ot"
        \/ pc = "ot" /\ pc' = "searched"
    BY <1>1, <1>6 DEF AfterStage, AfterPairs, BeginClimb, Enter, Leave, SearchStages
  <2>2. QED
    BY <2>1, PhaseFalls
<1>7. QED
  BY <1>3, <1>4, <1>5, <1>6

(* A stage gives up.                                                       *)
LEMMA GiveUpFalls ==
    ASSUME SessionInv, GiveUpStage
    PROVE  Falls
<1>1. CASE pc = "pairwise"
  <2>1. pc' \in {"joint", "searched"}
    BY <1>1 DEF GiveUpStage, AfterPairs, Enter, Leave
  <2>2. QED
    BY <1>1, <2>1, PhaseFalls
<1>2. CASE pc # "pairwise"
  <2>1. /\ todo # <<>> /\ todo' = <<>> /\ pc \in SearchStages
        /\ UNCHANGED <<setting, pc, at, climb, incumbent>>
    BY <1>2 DEF GiveUpStage, Trying
  <2>2. Len(todo) \in Nat /\ Len(todo) # 0 /\ Len(todo') = 0
    BY <2>1, SeqFacts, SmallSeqs DEF SessionInv, SearchInv, TodoInv
  <2>3. Items = Len(todo) /\ Items' = Len(todo')
    BY <2>1 DEF Items, SearchStages
  <2>4. Items' < Items
    BY <2>2, <2>3
  <2>5. QED
    BY <2>1, <2>4, RoundSame DEF Falls
<1>3. QED
  BY <1>1, <1>2

(* Every step of the search lowers the height.                             *)
LEMMA SearchFalls ==
    ASSUME DOMAIN None # {"cfg", "score", "ok", "checked", "allowed"},
           SessionInv, TargetInv, Begin \/ SearchStep
    PROVE  Falls
<1>1. CASE Begin
  BY <1>1, PhaseFalls DEF Begin, BeginSearch, Enter
<1>2. CASE Exhaust
  <2>1. pc \in SearchStages /\ pc' = "exhausted"
    BY <1>2 DEF Exhaust, Leave, Trying, NeedsProbe, SearchStages
  <2>2. QED
    BY <2>1, PhaseFalls
<1>3. QED
  BY <1>1, <1>2, SkipFalls, HearFalls, CheckFalls, JudgeFalls, NextStageFalls, GiveUpFalls
     DEF SearchStep

----------------------------------------------------------------------------
(* The conclusion goes from stage to stage.                                *)
LEMMA FinalPhaseFalls ==
    ASSUME FinalStep, pc' # pc
    PROVE  Falls
<1>1. \/ pc \in {"searched", "exhausted"} /\ pc' \in {"confirm", "validate"}
      \/ pc = "validate" /\ pc' = "confirm"
      \/ pc = "confirm" /\ pc' \in {"depth", "cli"}
      \/ pc = "depth" /\ pc' = "cli"
      \/ pc = "cli" /\ pc' = "gate"
      \/ pc = "gate" /\ pc' \in {"envelope", "publish"}
      \/ pc = "envelope" /\ pc' = "lossless"
      \/ pc = "lossless" /\ pc' = "publish"
      \/ pc = "publish" /\ pc' = "ended"
  <2>1. CASE EndSearch \/ Validate \/ RefuseConfirmation \/ RecallConfirmation \/ Confirm
    BY <2>1 DEF EndSearch, Validate, RefuseConfirmation, RecallConfirmation, Confirm, AfterConfirm
  <2>2. CASE DepthRun \/ DepthDone \/ ValidateWithCli \/ GateRun \/ GateDone
    BY <2>2 DEF DepthRun, DepthDone, ValidateWithCli, GateRun, GateDone
  <2>3. CASE SkipRung \/ RecallPrimary \/ ProbePrimary \/ ExhaustPrimary \/ PrunePrimary
             \/ RecallFallback \/ ProbeFallback \/ CloseWithoutFallback
    BY <2>3 DEF SkipRung, RecallPrimary, ProbePrimary, ExhaustPrimary, PrunePrimary,
       RecallFallback, ProbeFallback, CloseWithoutFallback, EnvelopeFrame
  <2>4. CASE EndEnvelope \/ LosslessProbe \/ LosslessDone \/ Publish
    BY <2>4 DEF EndEnvelope, LosslessProbe, LosslessDone, Publish
  <2>5. QED
    BY <2>1, <2>2, <2>3, <2>4 DEF FinalStep
<1>2. Phase' < Phase
  BY <1>1 DEF Phase
<1>3. QED
  BY <1>2 DEF Falls

(* One thing less is left to do.                                           *)
LEMMA LeftFalls ==
    ASSUME SessionInv, DepthRun \/ GateRun \/ LosslessProbe
    PROVE  Falls
<1>1. /\ pc \in {"depth", "gate", "lossless"} /\ pc' = pc
      /\ left # <<>> /\ left' = Tail(left)
  BY DEF DepthRun, GateRun, LosslessProbe
<1>2. Len(left) \in Nat /\ Len(left') = Len(left) - 1
  BY <1>1, SeqFacts DEF SessionInv, WorkInv
<1>3. Phase' = Phase /\ Round' = Round
  BY <1>1 DEF Phase, Round
<1>4. Items = Len(left) /\ Items' = Len(left')
  BY <1>1 DEF Items, SearchStages
<1>5. Items' < Items
  BY <1>2, <1>4
<1>6. QED
  BY <1>3, <1>5 DEF Falls

(* A rung is closed.                                                       *)
LEMMA RungFalls ==
    ASSUME SessionInv, UNCHANGED <<setting, pc>>, pc = "envelope",
           NEW row, rows' = Append(rows, row)
    PROVE  Falls
<1>1. Len(rows) \in Nat /\ Len(rows') = Len(rows) + 1 /\ Len(setting.ladder) \in Nat
  BY Appended, RoundFacts DEF SessionInv, StageInv
<1>2. Round = Len(setting.ladder) + 1 - Len(rows) /\ Round' = Len(setting.ladder) + 1 - Len(rows')
  BY DEF Round
<1>3. Round' < Round
  <2>1. PICK l, m, n : l = Len(setting.ladder) /\ m = Len(rows) /\ n = Len(rows')
    OBVIOUS
  <2>2. l \in Nat /\ m \in Nat /\ n = m + 1 /\ Round = l + 1 - m /\ Round' = l + 1 - n
    BY <1>1, <1>2, <2>1
  <2>3. l + 1 - n < l + 1 - m
    BY <2>2
  <2>4. QED
    BY <2>2, <2>3
<1>4. Phase' = Phase
  BY DEF Phase
<1>5. QED
  BY <1>3, <1>4 DEF Falls

(* The fallbacks of a rung are looked for, once.                           *)
LEMMA SearchingFalls ==
    ASSUME SessionInv, UNCHANGED <<setting, pc, rows>>, pc = "envelope", ~env.searching,
           NEW status, LookForFallback(status)
    PROVE  Falls
<1>1. env'.searching = TRUE
  <2>1. env = [f \in DOMAIN NoRung |-> env[f]] /\ "searching" \in DOMAIN NoRung
    BY DEF SessionInv, StageInv, NoRung
  <2>2. QED
    BY <2>1 DEF LookForFallback, NoRung
<1>2. Phase' = Phase /\ Round' = Round
  BY DEF Phase, Round
<1>3. Items = 1 /\ Items' = 0
  BY <1>1 DEF Items, SearchStages
<1>4. QED
  BY <1>2, <1>3 DEF Falls

(* Every step of the envelope closes its rung, looks for fallbacks, or     *)
(* asks one of them.                                                       *)
LEMMA EnvelopeFalls ==
    ASSUME SessionInv,
           \/ SkipRung \/ RecallPrimary \/ ProbePrimary \/ ExhaustPrimary \/ PrunePrimary
           \/ RecallFallback \/ ProbeFallback \/ CloseWithoutFallback
    PROVE  Falls
<1>1. /\ pc = "envelope" /\ UNCHANGED <<setting, pc>>
  BY DEF SkipRung, RecallPrimary, ProbePrimary, ExhaustPrimary, PrunePrimary, RecallFallback,
     ProbeFallback, CloseWithoutFallback, MayAskPrimary, MayAskFallback, InRung, InFallbacks,
     EnvelopeFrame, ascent
<1>2. CASE SkipRung \/ ExhaustPrimary \/ CloseWithoutFallback
  <2>1. \E row : rows' = Append(rows, row)
    BY <1>2 DEF SkipRung, ExhaustPrimary, CloseWithoutFallback, CloseRung
  <2>2. QED
    BY <1>1, <2>1, RungFalls
<1>3. ASSUME NEW status, PrimaryHeard(status), ~env.searching
      PROVE  Falls
  <2>1. CASE status = "ok"
    <3>1. \E row : rows' = Append(rows, row)
      BY <1>3, <2>1 DEF PrimaryHeard, CloseRung
    <3>2. QED
      BY <1>1, <3>1, RungFalls
  <2>2. CASE status # "ok"
    <3>1. LookForFallback("failed") /\ rows' = rows
      BY <1>3, <2>2 DEF PrimaryHeard, LookForFallback
    <3>2. QED
      BY <1>1, <1>3, <3>1, SearchingFalls
  <2>3. QED
    BY <2>1, <2>2
<1>4. CASE RecallPrimary \/ ProbePrimary
  <2>1. ~env.searching /\ \E status : PrimaryHeard(status)
    BY <1>4 DEF RecallPrimary, ProbePrimary, MayAskPrimary, InRung
  <2>2. QED
    BY <1>3, <2>1
<1>5. CASE PrunePrimary
  <2>1. ~env.searching /\ LookForFallback("pruned") /\ rows' = rows
    BY <1>5 DEF PrunePrimary, InRung, LookForFallback
  <2>2. QED
    BY <1>1, <2>1, SearchingFalls
<1>6. CASE RecallFallback \/ ProbeFallback
  <2>1. env.searching /\ left # <<>> /\ \E status : FallbackHeard(status)
    BY <1>6 DEF RecallFallback, ProbeFallback, MayAskFallback, InFallbacks
  <2>2. CASE \E row : rows' = Append(rows, row)
    BY <1>1, <2>2, RungFalls
  <2>3. CASE ~\E row : rows' = Append(rows, row)
    <3>1. left' = Tail(left) /\ UNCHANGED <<rows, env>>
      BY <2>1, <2>3 DEF FallbackHeard, CloseRung
    <3>2. Len(left) \in Nat /\ Len(left') = Len(left) - 1
      BY <2>1, <3>1, SeqFacts DEF SessionInv, WorkInv
    <3>3. Phase' = Phase /\ Round' = Round /\ Items' = Items
      BY <1>1, <3>1 DEF Phase, Round, Items, SearchStages
    <3>4. Looks = Len(left) /\ Looks' = Len(left')
      BY <1>1, <2>1, <3>1 DEF Looks, SearchStages
    <3>5. Looks' < Looks
      BY <3>2, <3>4
    <3>6. QED
      BY <3>3, <3>5 DEF Falls
  <2>4. QED
    BY <2>2, <2>3
<1>7. QED
  BY <1>2, <1>4, <1>5, <1>6

(* Every step of the conclusion lowers the height.                         *)
LEMMA FinalFalls ==
    ASSUME SessionInv, FinalStep
    PROVE  Falls
<1>1. CASE pc' # pc
  BY <1>1, FinalPhaseFalls
<1>2. CASE pc' = pc
  <2>1. ~(EndSearch \/ Validate \/ RefuseConfirmation \/ RecallConfirmation \/ Confirm)
    BY <1>2 DEF EndSearch, Validate, RefuseConfirmation, RecallConfirmation, Confirm, AfterConfirm
  <2>2. ~(DepthDone \/ ValidateWithCli \/ GateDone \/ EndEnvelope \/ LosslessDone \/ Publish)
    BY <1>2 DEF DepthDone, ValidateWithCli, GateDone, EndEnvelope, LosslessDone, Publish
  <2>3. QED
    BY <2>1, <2>2, LeftFalls, EnvelopeFalls DEF FinalStep
<1>3. QED
  BY <1>1, <1>2

----------------------------------------------------------------------------
(* A height that depends on nothing that moves.                            *)
LEMMA HeightSame ==
    ASSUME UNCHANGED <<setting, pc, at, todo, heard, climb, incumbent, left, rows, env>>
    PROVE  Height' = Height
<1>1. Unvisited' = Unvisited
  BY DEF Unvisited, MovedTo
<1>2. Phase' = Phase /\ Items' = Items /\ Looks' = Looks
  BY DEF Phase, Items, Looks
<1>3. Round' = Round
  BY <1>1 DEF Round
<1>4. QED
  BY <1>2, <1>3 DEF Height

(***************************************************************************)
(* A process ends: every step of it lowers its height, in an order without *)
(* infinite descent; an interrupt, the deadline and a revalidation leave   *)
(* it, a crash lowers it to the ground, and only a resume, of which there  *)
(* are MaxResumes, begins another process.  None is no judgement.          *)
(***************************************************************************)
THEOREM ProcessDescends ==
    ASSUME DOMAIN None # {"cfg", "score", "ok", "checked", "allowed"}
    PROVE  Spec => [][ /\ Step => <<Height', Height>> \in Descent
                       /\ Height' = Height \/ <<Height', Height>> \in Descent \/ Resume ]_vars
<1>1. Init => TargetInv
  BY DEF Init, SearchInit, TargetInv
<1>2. ASSUME SessionInv, SessionInv', TargetInv, [Next]_vars
      PROVE  TargetInv'
  <2>1. CASE (Begin \/ SearchStep) /\ UNCHANGED <<disk, evidence, finalMemory, revalidated>>
    <3>1. CASE Begin
      BY <3>1 DEF Begin, BeginSearch, Enter, TargetInv
    <3>2. QED
      BY <1>2, <2>1, <3>1, TargetKept
  <2>2. CASE FinalStep
    <3>1. UNCHANGED <<setting, incumbent, climb, todo>>
      BY <2>2, FinalFrame DEF ascent
    <3>2. pc' # "climb"
      BY <2>2, FinalFrame DEF FinalStages, SearchStages
    <3>3. QED
      BY <3>2 DEF TargetInv
  <2>3. CASE Interrupt \/ Expire \/ Revalidate \/ Finished \/ UNCHANGED vars
    <3>1. UNCHANGED <<setting, incumbent, climb, todo, pc>>
      BY <2>3 DEF Interrupt, Expire, Revalidate, Finished, vars, searchVars, stage
    <3>2. QED
      BY <1>2, <3>1, TargetSteady
  <2>4. CASE Crash \/ Resume
    BY <2>4 DEF Crash, Resume, SearchRestart, TargetInv
  <2>5. QED
    BY <1>2, <2>1, <2>2, <2>3, <2>4 DEF Next, Step
<1>3. ASSUME SessionInv, TargetInv, HeightOK, HeightOK', Step
      PROVE  <<Height', Height>> \in Descent
  <2>1. Falls
    BY <1>3, SearchFalls, FinalFalls DEF Step
  <2>2. QED
    BY <1>3, <2>1, FallsInOrder
<1>4. ASSUME HeightOK, HeightOK', Crash
      PROVE  <<Height', Height>> \in Descent
  <2>1. pc \in Live /\ pc' = "down"
    BY <1>4 DEF Crash
  <2>2. Phase' = 0 /\ Phase > 0
    BY <2>1 DEF Phase, Live, SearchStages, FinalStages
  <2>3. QED
    BY <1>4, <2>2, FallsInOrder DEF Falls
<1>5. ASSUME Interrupt \/ Expire \/ Revalidate \/ Finished \/ UNCHANGED vars
      PROVE  Height' = Height
  <2>1. UNCHANGED <<setting, pc, at, todo, heard, climb, incumbent, left, rows, env>>
    BY <1>5 DEF Interrupt, Expire, Revalidate, Finished, vars, searchVars, stage, finalMemory
  <2>2. QED
    BY <2>1, HeightSame
<1>6. SessionInv => HeightOK
  BY HeightIsNat
<1>7. SessionInv /\ TargetInv /\ HeightOK /\ HeightOK' /\ [Next]_vars =>
          [ /\ Step => <<Height', Height>> \in Descent
            /\ Height' = Height \/ <<Height', Height>> \in Descent \/ Resume ]_vars
  BY <1>3, <1>4, <1>5 DEF Next
<1>8. QED
  BY <1>1, <1>2, <1>6, <1>7, Inductive, PTL DEF Spec
=============================================================================
