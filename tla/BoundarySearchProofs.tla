------------------------ MODULE BoundarySearchProofs ------------------------
(***************************************************************************)
(* What BoundarySearch's run checks on a model of six GPU layers and eight *)
(* MoE layers, for models of every size, every command line and any number *)
(* of crashes: the boundaries joint discovery records are final and the    *)
(* true ones, the spill it finds is minimal, the budget holds, and a       *)
(* resumed process records the boundaries the ones before it did.          *)
(***************************************************************************)
EXTENDS BoundarySearch, TLAPS, FiniteSetTheorems, WellFoundedInduction

InRung == pc \in {"first", "zero", "bracket", "neighbours"}
Spilling == pc \in {"spill", "frontier"}

\* A neighbour of the boundary is still to measure, or measured.
NeighboursInv ==
    pc = "neighbours" /\ rung.low # None =>
        \A g \in Neighbours : g \in todo \/ At(rung.moe, g) \in DOMAIN known

\* A process has counted all that is journaled, and keeps to the limit.
CountInv ==
    /\ IsFiniteSet(DOMAIN probes) /\ IsFiniteSet(DOMAIN known)
    /\ executed = JournaledExecutions
    /\ executed <= options.limit
    /\ children <= executed + crashes

\* The bracket is what the phase says: nothing asked, a failure above zero, or
\* a failure at zero or a fit with a failure above it.
BracketInv ==
    /\ InRung => rung.cap <= HardCap
    /\ pc = "first" => rung.low = None /\ rung.failed = None /\ rung.used = 0
    /\ pc = "zero" =>
          rung.low = None /\ rung.failed \in 1..rung.cap /\ rung.used = 1
    /\ pc \in {"bracket", "neighbours"} =>
          IF rung.low = None THEN rung.failed = 0
          ELSE /\ rung.low <= rung.cap
               /\ rung.failed # None => rung.failed \in (rung.low + 1)..rung.cap

Size == IF NglAll > 1 THEN NglAll ELSE 1

\* The probes a rung has spent: growth doubles the fit, bisection halves what is
\* between fit and failure.
FuseInv ==
    pc = "bracket" /\ rung.low # None =>
        /\ rung.failed = None /\ rung.low < rung.cap => rung.used <= BitLength(rung.low) + 1
        /\ rung.failed # None =>
              rung.used + BitLength(rung.failed - rung.low - 1) <= 2 * BitLength(Size) + 2

\* Nothing fits, everything fits, or the fit and the failure are neighbours.
Closed ==
    \/ rung.low = None
    \/ rung.failed = None /\ rung.low = rung.cap
    \/ rung.failed = rung.low + 1

Tight(b) ==
    \/ ~HasFit(b)
    \/ b.max_ok = b.cap /\ b.min_fail = None
    \/ b.min_fail = b.max_ok + 1

TightInv ==
    /\ pc = "neighbours" => Closed
    /\ found \subseteq recorded
    /\ \A b \in recorded : Tight(b)

\* Rungs come in descending order, the hinted one first and from the hard cap.
OrderInv ==
    /\ pc = "ladder" /\ options.initial_moe \in rungs => warm = None /\ found = {}
    /\ InRung =>
          /\ rung.moe \in rungs
          /\ options.initial_moe \in rungs => rung.moe = options.initial_moe
          /\ (\E m \in rungs : m > rung.moe) =>
                rung.moe = options.initial_moe /\ rung.cap = HardCap /\ found = {}

\* What the machine said is what it always says.
AnswersTrue ==
    /\ \A c \in DOMAIN probes : probes[c] = "ok" <=> Fits(c)
    /\ \A c \in DOMAIN known : known[c].status = "oom" => ~Fits(c)
    /\ \A c \in ooms : ~Fits(c)

\* A fit was asked for, unless it is the measured default of the lowest rung.
BracketTrue ==
    InRung =>
        /\ rung.low # None => Fits(At(rung.moe, rung.low)) \/ (rung.moe = 0 /\ ~ConsistentBaseline)
        /\ rung.failed # None => ~Fits(At(rung.moe, rung.failed))

Full(b) == HasFit(b) /\ b.max_ok = HardCap
Partial(b) == HasFit(b) /\ b.max_ok < HardCap

\* Not every layer fits with m MoE layers on the CPU.
Short(m) == ~Fits(At(m, HardCap))

\* Under a cap below the hard one no rung can be full, or none found so far is.
CapExplained == (\A m \in rungs : Short(m)) \/ \A b \in found : ~Full(b)

\* No rung above n is full, nor will be one still to come.
NothingAbove(n) == (\A f \in found : Full(f) => f.moe <= n) /\ \A m \in rungs : m <= n

\* A full boundary is one; a partial one may only be capped, but then no rung
\* above it is full.
FoundTrue ==
    pc = "ladder" \/ InRung =>
        /\ \A b \in found : Full(b) => b.moe = 0 \/ ~Short(b.moe)
        /\ \A b \in found : Partial(b) => Short(b.moe) \/ NothingAbove(b.moe)
        /\ pc = "ladder" /\ warm # None => warm = HardCap \/ CapExplained
        /\ InRung => rung.cap = HardCap \/ CapExplained

SpillTrue == Spilling => Fits(At(spill.high, HardCap)) /\ Short(spill.low)

\* Everything that fits on rung m has at most n layers.
AtMost(m, n) == \A g \in 0..HardCap : Fits(At(m, g)) => g <= n

Descending == options.initial_moe = None /\ ConsistentBaseline

Exact(b) == \A g \in 0..HardCap : Fits(At(b.moe, g)) <=> HasFit(b) /\ g <= b.max_ok

\* Going down the ladder, a warm cap hides nothing.
MaximalInv ==
    Descending =>
        /\ pc = "ladder" /\ warm # None => \A m \in rungs : AtMost(m, warm)
        /\ InRung => AtMost(rung.moe, rung.cap)
        /\ \A b \in recorded : Exact(b)

TruthInv == Monotone => AnswersTrue /\ BracketTrue /\ FoundTrue /\ SpillTrue /\ MaximalInv

Inv ==
    /\ TypeOK
    /\ NeighboursInv
    /\ CountInv
    /\ BracketInv
    /\ FuseInv
    /\ TightInv
    /\ OrderInv
    /\ TruthInv

----------------------------------------------------------------------------
(* Numbers.                                                                *)

(* A non-empty set of numbers has a least one.                             *)
LEMMA SmallestOf ==
    ASSUME NEW B \in SUBSET Nat, B # {}
    PROVE  \E m \in B : \A x \in B : m <= x
<1>1. PICK m \in B : \A x \in B : ~(<<x, m>> \in OpToRel(<, Nat))
  BY NatLessThanWellFounded, WFMin
<1>2. ASSUME NEW x \in B
      PROVE  m <= x
  <2>1. x \in Nat /\ m \in Nat /\ ~(<<x, m>> \in OpToRel(<, Nat))
    BY <1>1
  <2>2. ~(x < m)
    BY <2>1 DEF OpToRel
  <2>3. x \in Nat /\ m \in Nat => x < m \/ m <= x
    OBVIOUS
  <2>4. QED
    BY <2>1, <2>2, <2>3
<1>3. QED
  BY <1>2

(* A non-empty set of numbers up to n has a largest one.                   *)
LEMMA LargestOf ==
    ASSUME NEW n \in Nat, NEW S \in SUBSET (0..n), S # {}
    PROVE  \E m \in S : \A x \in S : x <= m
<1> DEFINE B == {n - x : x \in S}
<1>1. B \in SUBSET Nat /\ B # {}
  <2>1. \A x \in S : n - x \in Nat
    OBVIOUS
  <2>2. QED
    BY <2>1
<1>2. PICK m \in B : \A x \in B : m <= x
  <2> HIDE DEF B
  <2>1. QED
    BY <1>1, SmallestOf
<1>3. PICK k \in S : m = n - k
  BY <1>2
<1>4. ASSUME NEW x \in S
      PROVE  x <= k
  <2>1. n - x \in B
    OBVIOUS
  <2>2. n - k <= n - x
    BY <1>2, <1>3, <2>1
  <2>3. QED
    BY <2>2
<1>5. QED
  BY <1>4

\* What can be halved down to nothing in k <= n steps.
Halved(n) == \E k \in 0..n : \E h \in [0..k -> 0..n] : Halving(h, n, k)

(* What halves half of n halves n with one more step.                      *)
LEMMA OneMoreHalving ==
    ASSUME NEW n \in Nat \ {0}, NEW k \in Nat, NEW h \in [0..k -> 0..(n \div 2)],
           Halving(h, n \div 2, k)
    PROVE  \E g \in [0..(k + 1) -> 0..n] : Halving(g, n, k + 1)
<1> DEFINE g == [i \in 0..(k + 1) |-> IF i = 0 THEN n ELSE h[i - 1]]
<1>1. \A i \in 0..(k + 1) : i # 0 => i - 1 \in 0..k
  OBVIOUS
<1>2. n \div 2 \in 0..n
  OBVIOUS
<1>3. \A i \in 0..k : h[i] \in 0..n
  BY <1>2
<1>4. g \in [0..(k + 1) -> 0..n]
  BY <1>1, <1>3
<1>5. g[0] = n /\ g[k + 1] = 0
  <2>1. g[k + 1] = h[k]
    OBVIOUS
  <2>2. QED
    BY <2>1 DEF Halving
<1>6. ASSUME NEW i \in 0..k
      PROVE  g[i] > 0 /\ g[i + 1] = g[i] \div 2
  <2>1. g[i + 1] = h[i]
    OBVIOUS
  <2>2. CASE i = 0
    BY <2>1, <2>2 DEF Halving
  <2>3. CASE i # 0
    <3>1. i - 1 \in 0..(k - 1) /\ g[i] = h[i - 1]
      BY <2>3
    <3>2. h[i - 1] > 0 /\ h[(i - 1) + 1] = h[i - 1] \div 2
      BY <3>1 DEF Halving
    <3>3. (i - 1) + 1 = i
      OBVIOUS
    <3>4. QED
      BY <2>1, <3>1, <3>2, <3>3
  <2>4. QED
    BY <2>2, <2>3
<1> HIDE DEF g
<1>7. Halving(g, n, k + 1)
  <2>1. (k + 1) - 1 = k
    OBVIOUS
  <2>2. QED
    BY <1>5, <1>6, <2>1 DEF Halving
<1>8. QED
  BY <1>4, <1>7

(* Every number can be halved down to nothing, by the smallest that could  *)
(* not.                                                                    *)
LEMMA AllHalve == \A n \in Nat : Halved(n)
<1> SUFFICES ASSUME {n \in Nat : ~Halved(n)} # {}
             PROVE  FALSE
  OBVIOUS
<1>1. PICK n \in Nat : ~Halved(n) /\ \A m \in Nat : ~Halved(m) => n <= m
  <2>1. {n \in Nat : ~Halved(n)} \in SUBSET Nat
    OBVIOUS
  <2>2. PICK n \in {n \in Nat : ~Halved(n)} : \A x \in {m \in Nat : ~Halved(m)} : n <= x
    BY <2>1, SmallestOf
  <2>3. QED
    BY <2>2
<1>2. CASE n = 0
  <2> DEFINE h == [i \in 0..0 |-> 0]
  <2>1. h \in [0..0 -> 0..0] /\ h[0] = 0
    OBVIOUS
  <2>2. Halving(h, 0, 0)
    <3>1. 0..(0 - 1) = {}
      OBVIOUS
    <3>2. QED
      BY <2>1, <3>1 DEF Halving
  <2>3. QED
    BY <1>1, <1>2, <2>1, <2>2 DEF Halved
<1>3. CASE n # 0
  <2>1. n \div 2 \in Nat /\ n \div 2 < n
    BY <1>3
  <2>2. Halved(n \div 2)
    BY <1>1, <2>1
  <2>3. PICK k \in 0..(n \div 2) : \E h \in [0..k -> 0..(n \div 2)] : Halving(h, n \div 2, k)
    BY <2>2 DEF Halved
  <2>4. \E g \in [0..(k + 1) -> 0..n] : Halving(g, n, k + 1)
    <3>1. PICK h \in [0..k -> 0..(n \div 2)] : Halving(h, n \div 2, k)
      BY <2>3
    <3>2. n \in Nat \ {0} /\ k \in Nat
      BY <1>3
    <3>3. QED
      BY <3>1, <3>2, OneMoreHalving
  <2>5. k + 1 \in 0..n
    BY <2>1, <2>3
  <2>6. QED
    BY <1>1, <2>4, <2>5 DEF Halved
<1>4. QED
  BY <1>2, <1>3

\* n takes the same number of halvings however they are written down.
HalvesAlike(n) ==
    \A k, l \in Nat : \A g \in [0..k -> Nat] : \A h \in [0..l -> Nat] :
        Halving(g, n, k) /\ Halving(h, n, l) => k = l

(* The halvings of n but the first are halvings of its half.               *)
LEMMA OneLessHalving ==
    ASSUME NEW n \in Nat \ {0}, NEW k \in Nat, NEW h \in [0..k -> Nat], Halving(h, n, k)
    PROVE  /\ k # 0
           /\ \E g \in [0..(k - 1) -> Nat] : Halving(g, n \div 2, k - 1)
<1>1. k # 0
  BY DEF Halving
<1> DEFINE g == [i \in 0..(k - 1) |-> h[i + 1]]
<1>2. \A i \in 0..(k - 1) : i + 1 \in 0..k
  BY <1>1
<1>3. g \in [0..(k - 1) -> Nat]
  BY <1>2
<1>4. g[0] = n \div 2
  <2>1. 0 \in 0..(k - 1) /\ 0 + 1 = 1
    BY <1>1
  <2>2. h[0 + 1] = h[0] \div 2
    BY <2>1 DEF Halving
  <2>3. QED
    BY <2>1, <2>2 DEF Halving
<1>5. g[k - 1] = 0
  <2>1. k - 1 \in 0..(k - 1) /\ (k - 1) + 1 = k
    BY <1>1
  <2>2. QED
    BY <2>1 DEF Halving
<1>6. ASSUME NEW i \in 0..((k - 1) - 1)
      PROVE  g[i] > 0 /\ g[i + 1] = g[i] \div 2
  <2>1. i + 1 \in 0..(k - 1) /\ i \in 0..(k - 1)
    OBVIOUS
  <2>2. h[i + 1] > 0 /\ h[(i + 1) + 1] = h[i + 1] \div 2
    BY <2>1 DEF Halving
  <2>3. QED
    BY <2>1, <2>2
<1> HIDE DEF g
<1>7. Halving(g, n \div 2, k - 1)
  BY <1>4, <1>5, <1>6 DEF Halving
<1>8. QED
  BY <1>1, <1>3, <1>7

(* How many halvings a number takes is up to the number, by the smallest   *)
(* for which it were not.                                                  *)
LEMMA AllHalveAlike == \A n \in Nat : HalvesAlike(n)
<1> SUFFICES ASSUME {n \in Nat : ~HalvesAlike(n)} # {}
             PROVE  FALSE
  OBVIOUS
<1>1. PICK n \in Nat : ~HalvesAlike(n) /\ \A m \in Nat : ~HalvesAlike(m) => n <= m
  <2>1. {n \in Nat : ~HalvesAlike(n)} \in SUBSET Nat
    OBVIOUS
  <2>2. PICK n \in {n \in Nat : ~HalvesAlike(n)} : \A x \in {m \in Nat : ~HalvesAlike(m)} : n <= x
    BY <2>1, SmallestOf
  <2>3. QED
    BY <2>2
<1>2. PICK k \in Nat, l \in Nat :
          /\ k # l
          /\ \E g \in [0..k -> Nat] : Halving(g, n, k)
          /\ \E h \in [0..l -> Nat] : Halving(h, n, l)
  BY <1>1 DEF HalvesAlike
<1>3. CASE n = 0
  <2>1. ASSUME NEW j \in Nat, NEW f \in [0..j -> Nat], Halving(f, 0, j)
        PROVE  j = 0
    <3>1. j # 0 => 0 \in 0..(j - 1)
      OBVIOUS
    <3>2. j # 0 => f[0] > 0 /\ f[0] = 0
      BY <2>1, <3>1 DEF Halving
    <3>3. QED
      BY <3>2
  <2>2. QED
    BY <1>2, <1>3, <2>1
<1>4. CASE n # 0
  <2>1. n \div 2 \in Nat /\ n \div 2 < n
    BY <1>4
  <2>2. HalvesAlike(n \div 2)
    BY <1>1, <2>1
  <2>3. k # 0 /\ \E f \in [0..(k - 1) -> Nat] : Halving(f, n \div 2, k - 1)
    BY <1>2, <1>4, OneLessHalving
  <2>4. l # 0 /\ \E f \in [0..(l - 1) -> Nat] : Halving(f, n \div 2, l - 1)
    BY <1>2, <1>4, OneLessHalving
  <2>5. k - 1 \in Nat /\ l - 1 \in Nat
    BY <2>3, <2>4
  <2>6. k - 1 = l - 1
    BY <2>2, <2>3, <2>4, <2>5 DEF HalvesAlike
  <2>7. QED
    BY <1>2, <2>6
<1>5. QED
  BY <1>3, <1>4

(* The chain that BitLength chooses.                                      *)
LEMMA BitLengthHalves ==
    ASSUME NEW n \in Nat
    PROVE  /\ BitLength(n) \in 0..n
           /\ \E h \in [0..BitLength(n) -> 0..n] : Halving(h, n, BitLength(n))
BY AllHalve DEF Halved, BitLength

(* A number is as long as any chain of halvings it has.                    *)
LEMMA BitLengthIs ==
    ASSUME NEW n \in Nat, NEW k \in Nat, NEW g \in [0..k -> Nat], Halving(g, n, k)
    PROVE  BitLength(n) = k
<1>1. PICK h \in [0..BitLength(n) -> 0..n] : Halving(h, n, BitLength(n))
  BY BitLengthHalves
<1>2. BitLength(n) \in Nat /\ h \in [0..BitLength(n) -> Nat]
  BY <1>1, BitLengthHalves
<1>3. QED
  BY <1>1, <1>2, AllHalveAlike DEF HalvesAlike

(* What int.bit_length does: nothing for 0, and one more than for the      *)
(* half.                                                                   *)
LEMMA BitLengthFacts ==
    /\ BitLength(0) = 0
    /\ \A n \in Nat : BitLength(n) \in Nat
    /\ \A n \in Nat \ {0} : BitLength(n) = BitLength(n \div 2) + 1
<1>1. \A n \in Nat : BitLength(n) \in 0..n
  BY BitLengthHalves
<1>2. BitLength(0) = 0
  BY <1>1
<1>3. ASSUME NEW n \in Nat \ {0}
      PROVE  BitLength(n) = BitLength(n \div 2) + 1
  <2>1. n \in Nat /\ n \div 2 \in Nat
    OBVIOUS
  <2>2. BitLength(n) \in Nat
    BY <1>1, <2>1
  <2>3. PICK h \in [0..BitLength(n) -> 0..n] : Halving(h, n, BitLength(n))
    BY <2>1, BitLengthHalves
  <2>4. h \in [0..BitLength(n) -> Nat]
    BY <2>3
  <2>5. PICK g \in [0..(BitLength(n) - 1) -> Nat] : Halving(g, n \div 2, BitLength(n) - 1)
    BY <2>2, <2>3, <2>4, OneLessHalving
  <2>6. BitLength(n) - 1 \in Nat
    BY <2>2, <2>3, <2>4, OneLessHalving
  <2>7. BitLength(n \div 2) = BitLength(n) - 1
    BY <2>1, <2>5, <2>6, BitLengthIs
  <2>8. QED
    BY <2>2, <2>7
<1>4. QED
  BY <1>1, <1>2, <1>3

\* Nothing below n is longer.
LongEnough(n) == \A m \in 0..n : BitLength(m) <= BitLength(n)

(* A larger number is no shorter, by the smallest number that were.        *)
LEMMA BitLengthGrows == \A n \in Nat : LongEnough(n)
<1> SUFFICES ASSUME {n \in Nat : ~LongEnough(n)} # {}
             PROVE  FALSE
  OBVIOUS
<1>1. PICK n \in Nat : ~LongEnough(n) /\ \A m \in Nat : ~LongEnough(m) => n <= m
  <2>1. {n \in Nat : ~LongEnough(n)} \in SUBSET Nat
    OBVIOUS
  <2>2. PICK n \in {n \in Nat : ~LongEnough(n)} : \A x \in {m \in Nat : ~LongEnough(m)} : n <= x
    BY <2>1, SmallestOf
  <2>3. QED
    BY <2>2
<1>2. PICK m \in 0..n : ~(BitLength(m) <= BitLength(n))
  BY <1>1 DEF LongEnough
<1>3. m # 0
  <2>1. m = 0 => BitLength(m) = 0 /\ BitLength(n) \in Nat
    BY BitLengthFacts
  <2>2. QED
    BY <1>2, <2>1
<1>4. n \in Nat \ {0} /\ m \in Nat \ {0} /\ n \div 2 \in Nat /\ n \div 2 < n
      /\ m \div 2 \in 0..(n \div 2)
  BY <1>2, <1>3
<1>5. BitLength(m \div 2) <= BitLength(n \div 2)
  BY <1>1, <1>4 DEF LongEnough
<1>6. BitLength(m) = BitLength(m \div 2) + 1 /\ BitLength(n) = BitLength(n \div 2) + 1
  BY <1>4, BitLengthFacts
<1>7. BitLength(m \div 2) \in Nat /\ BitLength(n \div 2) \in Nat
  <2>1. m \div 2 \in Nat
    BY <1>4
  <2>2. QED
    BY <1>4, <2>1, BitLengthFacts
<1>8. QED
  BY <1>2, <1>5, <1>6, <1>7

----------------------------------------------------------------------------
(* Types.                                                                  *)

Phases ==
    {"ladder", "first", "zero", "bracket", "neighbours", "spill", "frontier", "done", "stopped",
     "down"}

JournalOK ==
    /\ DOMAIN probes \subseteq Config
    /\ \A c \in DOMAIN probes : probes[c] \in ProbeAnswers
    /\ DOMAIN known \subseteq Config
    /\ \A c \in DOMAIN known : known[c] \in [status : Status, score : Nat]
    /\ ooms \subseteq Config
    /\ executed \in Nat /\ children \in Nat /\ crashes \in Nat

RungType ==
    [moe : 0..NLayer, cap : Layers, low : Layers \cup {None}, failed : Layers \cup {None},
     used : Nat]

SearchOK ==
    /\ pc \in Phases
    /\ rungs \subseteq 0..NLayer
    /\ rung \in RungType
    /\ todo \subseteq Layers
    /\ warm \in Layers \cup {None}
    /\ recorded \subseteq BoundaryRecord
    /\ found \subseteq BoundaryRecord
    /\ spill \in [low : 0..NLayer, high : 0..NLayer]
    /\ incumbent \in [cfg : Config, score : Nat]

MachineOK == options \in OptionSets /\ answers \in AnswerSets /\ scoring \in Scorings

(* TypeOK, part by part.                                                   *)
LEMMA TypeParts == TypeOK <=> MachineOK /\ JournalOK /\ SearchOK
BY DEF TypeOK, MachineOK, JournalOK, SearchOK, Phases, RungType

(* What the assumptions say of the command line and the machine.           *)
LEMMA MachineFacts ==
    ASSUME MachineOK
    PROVE  /\ options \in Options /\ HardCap \in 0..NglAll
           /\ answers \in [Config -> SUBSET Status]
           /\ scoring \in [Config -> Nat]
           /\ options.default \in Config /\ options.default.moe = 0
           /\ options.limit \in Nat
<1>1. options \in Options
  BY MachineAssumption DEF MachineOK
<1>2. answers \in [Config -> SUBSET Status] /\ scoring \in [Config -> Nat]
  BY MachineAssumption DEF MachineOK
<1>3. options.default \in [moe : {0}, ngl : 0..NglAll]
  BY <1>1 DEF Options
<1>4. options.default \in Config /\ options.default.moe = 0
  BY <1>3, SizesAssumption DEF Config
<1>5. HardCap \in 0..NglAll /\ options.limit \in Nat
  BY <1>1 DEF Options, HardCap
<1>6. QED
  BY <1>1, <1>2, <1>4, <1>5

(* A rung keeps no more MoE layers on the CPU than there are.              *)
LEMMA LadderType ==
    ASSUME MachineOK
    PROVE  Ladder \subseteq 0..NLayer
<1>1. ASSUME NEW k \in 0..4
      PROVE  Quarter(k) \in 0..NLayer
  <2>1. NLayer \in Nat
    BY SizesAssumption
  <2>2. k = 0 \/ k = 1 \/ k = 2 \/ k = 3 \/ k = 4
    OBVIOUS
  <2>3. Quarter(0) \in 0..NLayer
    BY <2>1 DEF Quarter
  <2>4. Quarter(1) \in 0..NLayer
    BY <2>1 DEF Quarter
  <2>5. Quarter(2) \in 0..NLayer
    BY <2>1 DEF Quarter
  <2>6. Quarter(3) \in 0..NLayer
    BY <2>1 DEF Quarter
  <2>7. Quarter(4) \in 0..NLayer
    BY <2>1 DEF Quarter
  <2>8. QED
    BY <2>2, <2>3, <2>4, <2>5, <2>6, <2>7
<1>2. options.initial_moe \in Nat \cup {None}
  BY MachineFacts DEF Options
<1>3. ASSUME options.initial_moe # None
      PROVE  (IF options.initial_moe < NLayer THEN options.initial_moe ELSE NLayer) \in 0..NLayer
  BY <1>2, <1>3, SizesAssumption
<1>4. 0 \in 0..NLayer
  BY SizesAssumption
<1>5. QED
  BY <1>1, <1>3, <1>4 DEF Ladder

(* The hinted rung comes first, then the largest that is left.             *)
LEMMA NextRungIs ==
    ASSUME SearchOK, rungs # {}
    PROVE  /\ NextRung \in rungs
           /\ options.initial_moe \in rungs => NextRung = options.initial_moe
           /\ options.initial_moe \notin rungs => \A m \in rungs : m <= NextRung
<1>1. \E m \in rungs : \A n \in rungs : n <= m
  BY SizesAssumption, LargestOf DEF SearchOK
<1>2. QED
  BY <1>1 DEF NextRung

(* What a phase asks lies inside its bracket.                              *)
LEMMA GuessIs ==
    ASSUME MachineOK, SearchOK, BracketInv, Asking
    PROVE  /\ Guess \in 0..rung.cap
           /\ pc = "zero" => Guess = 0
           /\ pc = "bracket" => rung.low \in 0..rung.cap /\ rung.low < Guess
           /\ pc = "bracket" /\ rung.failed # None => Guess < rung.failed
<1>1. rung \in RungType /\ options.initial_ngl \in Nat \cup {None} /\ NglAll \in Nat
      /\ None \notin Int
  BY MachineFacts, SizesAssumption DEF SearchOK, Options
<1>2. rung.cap \in Nat /\ rung.low \in Nat \cup {None} /\ rung.failed \in Nat \cup {None}
  BY <1>1 DEF RungType, Layers
<1>3. CASE pc = "first"
  <2>1. FirstGuess \in 0..rung.cap
    BY <1>1, <1>2 DEF FirstGuess, Lesser
  <2>2. Guess = FirstGuess
    BY <1>3 DEF Guess
  <2>3. QED
    BY <1>3, <2>1, <2>2
<1>4. CASE pc = "zero"
  BY <1>2, <1>4 DEF Guess
<1>5. CASE pc = "bracket" /\ CanGrow
  <2>1. rung.low \in Nat /\ rung.low < rung.cap /\ rung.failed = None
    BY <1>2, <1>5 DEF CanGrow
  <2>2. Guess = Lesser(rung.cap, Greater(rung.low + 1, 2 * rung.low))
    BY <1>5 DEF Guess
  <2>3. Guess \in 0..rung.cap /\ rung.low < Guess
    BY <1>2, <2>1, <2>2 DEF Lesser, Greater
  <2>4. QED
    BY <1>2, <1>5, <2>1, <2>3
<1>6. CASE pc = "bracket" /\ CanBisect
  <2>1. rung.low \in Nat /\ rung.failed \in Nat /\ rung.failed - rung.low > 1 /\ rung.failed # None
    BY <1>2, <1>6 DEF CanBisect
  <2>2. rung.low <= rung.cap /\ rung.failed <= rung.cap
    BY <1>1, <1>2, <1>6, <2>1 DEF BracketInv
  <2>3. Guess = (rung.low + rung.failed) \div 2
    BY <1>6, <2>1 DEF Guess, CanGrow
  <2>4. Guess \in 0..rung.cap /\ rung.low < Guess /\ Guess < rung.failed
    BY <1>2, <2>1, <2>2, <2>3
  <2>5. QED
    BY <1>2, <1>6, <2>1, <2>2, <2>4
<1>7. QED
  BY <1>3, <1>4, <1>5, <1>6 DEF Asking

(* So it is a configuration within --max-gpu-layers.                       *)
LEMMA AskedConfig ==
    ASSUME MachineOK, SearchOK, BracketInv, Asking
    PROVE  At(rung.moe, Guess) \in Config /\ Guess \in Layers /\ Guess <= HardCap
<1>1. rung \in RungType /\ HardCap \in 0..NglAll /\ NglAll \in Nat
  BY MachineFacts, SizesAssumption DEF SearchOK
<1>2. rung.cap \in 0..NglAll /\ rung.moe \in 0..NLayer
  BY <1>1 DEF RungType, Layers
<1>3. rung.cap <= HardCap
  BY DEF BracketInv, InRung, Asking
<1>4. Guess \in 0..rung.cap
  BY GuessIs
<1>5. QED
  BY <1>1, <1>2, <1>3, <1>4 DEF At, Config, Layers

(* A neighbour to measure is a configuration of the rung.                  *)
LEMMA NeighbourConfig ==
    ASSUME SearchOK, pc = "neighbours", todo # {}
    PROVE  NextNeighbour \in Config /\ NextNeighbour.ngl \in todo /\ NextNeighbour.moe = rung.moe
<1>1. \E g \in todo : \A h \in todo : h <= g
  BY SizesAssumption, LargestOf DEF SearchOK, Layers
<1>2. rung.moe \in 0..NLayer /\ todo \subseteq 0..NglAll
  BY DEF SearchOK, RungType, Layers
<1>3. QED
  BY <1>1, <1>2 DEF NextNeighbour, At, Config

(* The spill bisection asks strictly between its ends.                     *)
LEMMA MiddleIs ==
    ASSUME SearchOK, spill.high - spill.low > 1
    PROVE  MidSpill \in 0..NLayer /\ spill.low < MidSpill /\ MidSpill < spill.high
<1>1. spill.low \in 0..NLayer /\ spill.high \in 0..NLayer /\ NLayer \in Nat
  BY SizesAssumption DEF SearchOK
<1>2. QED
  BY <1>1 DEF MidSpill

(* What it asks for has every allowed layer on the GPU.                    *)
LEMMA SpillConfig ==
    ASSUME MachineOK, SearchOK, SpillOpen
    PROVE  At(MidSpill, HardCap) \in Config /\ At(MidSpill, HardCap).ngl = HardCap
BY MachineFacts, MiddleIs DEF SpillOpen, At, Config

(* So has the frontier.                                                    *)
LEMMA FrontierConfig ==
    ASSUME MachineOK, SearchOK
    PROVE  Frontier \in Config
<1>1. spill.high \in 0..NLayer
  BY DEF SearchOK
<1>2. QED
  BY <1>1, MachineFacts DEF Frontier, At, Config

(* With adds or replaces one entry.                                        *)
LEMMA WithDomain ==
    ASSUME NEW f, NEW c, NEW v
    PROVE  /\ DOMAIN With(f, c, v) = DOMAIN f \cup {c}
           /\ With(f, c, v)[c] = v
           /\ \A d \in DOMAIN f : d # c => With(f, c, v)[d] = f[d]
BY DEF With

(* What an answer does to the journal and the memory of the process.       *)
LEMMA ProbeEffect ==
    ASSUME MachineOK, NEW c \in Config, NEW status, Probe(c, status)
    PROVE  /\ UNCHANGED <<known, recorded, crashes>>
           /\ \/ c \in DOMAIN probes /\ status = probes[c]
                 /\ UNCHANGED <<probes, ooms, executed, children>>
              \/ /\ c \notin DOMAIN probes /\ Pruned(c) /\ status = "pruned"
                 /\ probes' = With(probes, c, status) /\ UNCHANGED <<ooms, executed, children>>
              \/ /\ c \notin DOMAIN probes /\ CanExecute
                 /\ status \in answers[c] /\ status \in Status
                 /\ probes' = With(probes, c, status)
                 /\ executed' = executed + 1 /\ children' = children + 1
                 /\ ooms' = IF status = "oom" THEN ooms \cup {c} ELSE ooms
<1>1. answers[c] \subseteq Status
  BY MachineFacts
<1>2. QED
  BY <1>1 DEF Probe, Asked, journal, counters

(* A probe keeps the types.                                                *)
LEMMA ProbeTypes ==
    ASSUME MachineOK, JournalOK, NEW c \in Config, NEW status, Probe(c, status)
    PROVE  JournalOK'
<1>1. UNCHANGED <<known, crashes>>
  BY ProbeEffect
<1>2. CASE UNCHANGED <<probes, ooms, executed, children>>
  BY <1>1, <1>2 DEF JournalOK
<1>3. ASSUME status \in ProbeAnswers, probes' = With(probes, c, status)
      PROVE  DOMAIN probes' \subseteq Config
             /\ \A d \in DOMAIN probes' : probes'[d] \in ProbeAnswers
  BY <1>3 DEF With, JournalOK
<1>4. CASE /\ status = "pruned"
           /\ probes' = With(probes, c, status) /\ UNCHANGED <<ooms, executed, children>>
  <2>1. status \in ProbeAnswers
    BY <1>4 DEF ProbeAnswers
  <2>2. QED
    BY <1>1, <1>3, <1>4, <2>1 DEF JournalOK
<1>5. CASE /\ status \in Status
           /\ probes' = With(probes, c, status)
           /\ executed' = executed + 1 /\ children' = children + 1
           /\ ooms' = IF status = "oom" THEN ooms \cup {c} ELSE ooms
  <2>1. status \in ProbeAnswers
    BY <1>5 DEF ProbeAnswers
  <2>2. QED
    BY <1>1, <1>3, <1>5, <2>1 DEF JournalOK
<1>6. QED
  BY <1>2, <1>4, <1>5, ProbeEffect

(* What a measurement does to the journal and the memory of the process.   *)
LEMMA EvaluateEffect ==
    ASSUME MachineOK, JournalOK, NEW c \in Config, NEW trial, Evaluate(c, trial)
    PROVE  /\ UNCHANGED <<probes, recorded, crashes>>
           /\ trial \in [status : Status, score : Nat]
           /\ \/ c \in DOMAIN known /\ trial = known[c] /\ UNCHANGED <<known, ooms, executed,
                children>>
              \/ /\ c \notin DOMAIN known /\ CanExecute /\ trial.status \in answers[c]
                 /\ known' = With(known, c, trial)
                 /\ executed' = executed + 1 /\ children' = children + 1
                 /\ ooms' = IF trial.status = "oom" THEN ooms \cup {c} ELSE ooms
<1>1. answers[c] \subseteq Status /\ scoring[c] \in Nat
  BY MachineFacts
<1>2. CASE c \in DOMAIN known /\ trial = known[c] /\ UNCHANGED <<journal, ooms, counters>>
  BY <1>2 DEF JournalOK, journal, counters
<1>3. CASE c \notin DOMAIN known
  <2>1. PICK status \in answers[c] :
           /\ trial = [status |-> status, score |-> IF status = "ok" THEN scoring[c] ELSE 0]
           /\ ooms' = IF status = "oom" THEN ooms \cup {c} ELSE ooms
    BY <1>3 DEF Evaluate
  <2>2. trial.status = status /\ trial \in [status : Status, score : Nat]
    BY <1>1, <2>1
  <2>3. QED
    BY <1>3, <2>1, <2>2 DEF Evaluate
<1>4. QED
  BY <1>2, <1>3 DEF Evaluate

(* A measurement keeps the types.                                          *)
LEMMA EvaluateTypes ==
    ASSUME MachineOK, JournalOK, NEW c \in Config, NEW trial, Evaluate(c, trial)
    PROVE  JournalOK'
<1>1. UNCHANGED <<probes, crashes>> /\ trial \in [status : Status, score : Nat]
  BY EvaluateEffect
<1>2. CASE UNCHANGED <<known, ooms, executed, children>>
  BY <1>1, <1>2 DEF JournalOK
<1>3. CASE /\ known' = With(known, c, trial)
           /\ executed' = executed + 1 /\ children' = children + 1
           /\ ooms' = IF trial.status = "oom" THEN ooms \cup {c} ELSE ooms
  <2>1. DOMAIN known' \subseteq Config
        /\ \A d \in DOMAIN known' : known'[d] \in [status : Status, score : Nat]
    BY <1>1, <1>3 DEF With, JournalOK
  <2>2. QED
    BY <1>1, <1>3, <2>1 DEF JournalOK
<1>4. QED
  BY <1>2, <1>3, EvaluateEffect

(* The incumbent stays a configuration with a score.                       *)
LEMMA PromotedType ==
    ASSUME SearchOK, NEW c \in Config, NEW trial \in [status : Status, score : Nat]
    PROVE  Promoted(c, trial) \in [cfg : Config, score : Nat]
BY DEF SearchOK, Promoted

(* The boundary and the neighbours below it are configurations of the      *)
(* rung.                                                                   *)
LEMMA NeighbourFacts ==
    ASSUME SearchOK, rung.low # None
    PROVE  /\ Neighbours \subseteq Layers
           /\ \A g \in Neighbours : g <= rung.low
           /\ \A g \in Neighbours : At(rung.moe, g) \in Config
<1>1. rung.low \in 0..NglAll /\ rung.moe \in 0..NLayer /\ NglAll \in Nat
  BY SizesAssumption DEF SearchOK, RungType, Layers
<1>2. ASSUME NEW d \in 0..2
      PROVE  Greater(0, rung.low - d) \in 0..NglAll /\ Greater(0, rung.low - d) <= rung.low
  BY <1>1 DEF Greater
<1>3. QED
  BY <1>1, <1>2 DEF Neighbours, Layers, At, Config

(* The best neighbour exists: three scores have a largest, and those who   *)
(* have it one with the most layers.                                       *)
LEMMA BestIsCompliant ==
    ASSUME SearchOK, JournalOK, NeighboursInv, pc = "neighbours", todo = {}, Compliant # {}
    PROVE  BestCompliant \in DOMAIN known
<1>1. rung.low # None
  BY DEF Compliant
<1>2. Neighbours \subseteq 0..NglAll /\ NglAll \in Nat
  BY <1>1, NeighbourFacts, SizesAssumption DEF Layers
<1>3. \A c \in Compliant : c \in DOMAIN known /\ c.ngl \in 0..NglAll /\ known[c].score \in Nat
  <2>1. ASSUME NEW c \in Compliant
        PROVE  c \in DOMAIN known /\ c.ngl \in 0..NglAll
    <3>1. PICK g \in Neighbours : c = At(rung.moe, g)
      BY <1>1 DEF Compliant
    <3>2. c \in DOMAIN known
      BY <1>1, <3>1 DEF NeighboursInv
    <3>3. QED
      BY <1>2, <3>1, <3>2 DEF At
  <2>2. QED
    BY <2>1 DEF JournalOK
<1> DEFINE Score(d) == known[At(rung.moe, Greater(0, rung.low - d))].score
           Bound == Score(0) + Score(1) + Score(2)
           Scores == {known[c].score : c \in Compliant}
<1>4. \A d \in 0..2 : Score(d) \in Nat
  <2>1. \A d \in 0..2 : Greater(0, rung.low - d) \in Neighbours
    BY DEF Neighbours
  <2>2. \A d \in 0..2 : At(rung.moe, Greater(0, rung.low - d)) \in DOMAIN known
    BY <1>1, <2>1 DEF NeighboursInv
  <2>3. QED
    BY <2>2 DEF JournalOK
<1>5. \A c \in Compliant : \E d \in 0..2 : known[c].score = Score(d)
  BY <1>1 DEF Compliant, Neighbours
<1> HIDE DEF Score
<1>6. Bound \in Nat /\ \A d \in 0..2 : Score(d) <= Bound
  <2>1. Score(0) \in Nat /\ Score(1) \in Nat /\ Score(2) \in Nat
    BY <1>4
  <2>2. \A d \in 0..2 : d = 0 \/ d = 1 \/ d = 2
    OBVIOUS
  <2>3. QED
    BY <2>1, <2>2
<1> HIDE DEF Bound
<1>7. Scores \subseteq 0..Bound /\ Scores # {}
  <2>1. ASSUME NEW c \in Compliant
        PROVE  known[c].score \in 0..Bound
    <3>1. PICK d \in 0..2 : known[c].score = Score(d)
      BY <1>5
    <3>2. QED
      BY <1>3, <1>6, <3>1
  <2>2. QED
    BY <2>1
<1>8. PICK m \in Scores : \A x \in Scores : x <= m
  BY <1>6, <1>7, LargestOf
<1> DEFINE Tops == {c.ngl : c \in {d \in Compliant : known[d].score = m}}
<1>9. Tops \subseteq 0..NglAll /\ Tops # {}
  BY <1>3, <1>8
<1>10. PICK g \in Tops : \A x \in Tops : x <= g
  BY <1>2, <1>9, LargestOf
<1>11. PICK c \in Compliant : known[c].score = m /\ c.ngl = g
  BY <1>10
<1>12. ASSUME NEW d \in Compliant
       PROVE  \/ known[d].score < known[c].score
              \/ known[d].score = known[c].score /\ d.ngl <= c.ngl
  <2>1. known[d].score <= m /\ known[d].score \in Nat /\ m \in Nat
    BY <1>3, <1>8
  <2>2. known[d].score = m => d.ngl <= g
    BY <1>10
  <2>3. QED
    BY <1>11, <2>1, <2>2
<1>13. BestCompliant \in Compliant
  BY <1>11, <1>12 DEF BestCompliant
<1>14. QED
  BY <1>3, <1>13

(* The boundary of a rung is a boundary record.                            *)
LEMMA BoundaryType ==
    ASSUME SearchOK
    PROVE  Boundary \in BoundaryRecord /\ Boundary.max_ok \in Layers
<1>1. rung \in RungType /\ NglAll \in Nat
  BY SizesAssumption DEF SearchOK
<1>2. 0 \in Layers
  BY <1>1 DEF Layers
<1>3. QED
  BY <1>1, <1>2 DEF Boundary, BoundaryRecord, RungType

(* The spill bisection starts between a full rung and a partial one below  *)
(* it.                                                                     *)
LEMMA SpillBounds ==
    ASSUME SearchOK, SpillWanted
    PROVE  /\ SmallestFull \in FullRungs /\ \A m \in FullRungs : SmallestFull <= m
           /\ LET low == CHOOSE m \in PartialBelow : \A n \in PartialBelow : n <= m
              IN  low \in PartialBelow
           /\ FullRungs \subseteq 0..NLayer /\ PartialBelow \subseteq 0..NLayer
<1>1. \A b \in found : b.moe \in 0..NLayer
  BY DEF SearchOK, BoundaryRecord
<1>2. FullRungs \subseteq 0..NLayer /\ PartialBelow \subseteq 0..NLayer /\ NLayer \in Nat
  BY <1>1, SizesAssumption DEF FullRungs, PartialBelow
<1>3. FullRungs # {} /\ PartialBelow # {}
  BY DEF SpillWanted
<1>4. \E m \in FullRungs : \A n \in FullRungs : m <= n
  <2>1. FullRungs \in SUBSET Nat
    BY <1>2
  <2>2. QED
    BY <1>3, <2>1, SmallestOf
<1>5. \E m \in PartialBelow : \A n \in PartialBelow : n <= m
  BY <1>2, <1>3, LargestOf
<1>6. QED
  BY <1>2, <1>4, <1>5 DEF SmallestFull

(* An answer replaces one end of the bracket.                              *)
LEMMA NarrowedIs ==
    ASSUME rung \in RungType, Guess \in Layers, NEW status
    PROVE  /\ Narrowed(status) \in RungType
           /\ Narrowed(status).moe = rung.moe /\ Narrowed(status).cap = rung.cap
           /\ Narrowed(status).used = rung.used + 1
           /\ status = "ok" => Narrowed(status).low = Guess /\ Narrowed(status).failed = rung.failed
           /\ status # "ok" => Narrowed(status).low = rung.low /\ Narrowed(status).failed = Guess
<1>1. /\ rung.moe \in 0..NLayer /\ rung.cap \in Layers /\ rung.low \in Layers \cup {None}
      /\ rung.failed \in Layers \cup {None} /\ rung.used \in Nat
  BY DEF RungType
<1> DEFINE used == rung.used + 1
<1>2. used \in Nat /\ Guess \in Layers \cup {None}
  BY <1>1
<1>3. Narrowed(status) = IF status = "ok" THEN [rung EXCEPT !.used = used, !.low = Guess]
                                          ELSE [rung EXCEPT !.used = used, !.failed = Guess]
  BY DEF Narrowed
<1>4. used = rung.used + 1
  OBVIOUS
<1> HIDE DEF used
<1>5. CASE status = "ok"
  <2>1. [rung EXCEPT !.used = used, !.low = Guess] \in RungType
    BY <1>2 DEF RungType
  <2>2. QED
    BY <1>1, <1>3, <1>4, <1>5, <2>1 DEF RungType
<1>6. CASE status # "ok"
  <2>1. [rung EXCEPT !.used = used, !.failed = Guess] \in RungType
    BY <1>2 DEF RungType
  <2>2. QED
    BY <1>1, <1>3, <1>4, <1>6, <2>1 DEF RungType
<1>7. QED
  BY <1>5, <1>6

(* Every step keeps the types.                                             *)
LEMMA TypesKept ==
    ASSUME MachineOK, JournalOK, SearchOK, NeighboursInv, BracketInv, CountInv, Next
    PROVE  MachineOK' /\ JournalOK' /\ SearchOK'
<1>a. MachineOK'
  <2>1. UNCHANGED machine
    BY DEF Next, EnterRung, AskBoundary, CloseBracket, MeasureNeighbour, LeaveRung, SkipSpill,
         StartSpill, AskSpill, CloseSpill, MeasureFrontier, ExhaustBudget, Crash, Resume, Finished,
         vars
  <2>2. QED
    BY <2>1 DEF machine, MachineOK
<1>b. ASSUME UNCHANGED <<journal, ooms, counters>>
      PROVE  JournalOK' /\ recorded' = recorded
  BY <1>b DEF JournalOK, journal, counters
<1>c. NLayer \in Nat /\ NglAll \in Nat /\ HardCap \in 0..NglAll
  BY SizesAssumption, MachineFacts
<1>1. CASE EnterRung
  <2>1. UNCHANGED <<journal, ooms, counters>>
    BY <1>1 DEF EnterRung
  <2>2. NextRung \in 0..NLayer
    BY <1>1, NextRungIs DEF EnterRung, SearchOK
  <2> DEFINE cap == IF warm = None THEN HardCap ELSE Lesser(HardCap, warm)
  <2>3. cap \in Layers
    BY <1>c DEF SearchOK, Layers, Lesser
  <2> HIDE DEF cap
  <2>4. /\ rung' \in [moe : {NextRung}, cap : {cap}, failed : {None}, used : {0},
                      low : {options.default.ngl, None}]
        /\ pc' \in {"bracket", "first"}
    BY <1>1 DEF EnterRung, cap
  <2>5. options.default.ngl \in Layers
    BY MachineFacts DEF Config, Layers
  <2>6. rung' \in RungType /\ pc' \in Phases
    BY <2>2, <2>3, <2>4, <2>5 DEF RungType, Phases
  <2>7. UNCHANGED <<rungs, todo, warm, found, spill, incumbent>>
    BY <1>1 DEF EnterRung
  <2>8. QED
    BY <1>a, <1>b, <2>1, <2>6, <2>7 DEF SearchOK
<1>2. CASE AskBoundary
  <2>1. At(rung.moe, Guess) \in Config /\ Guess \in Layers
    BY <1>2, AskedConfig DEF AskBoundary
  <2>2. PICK status \in ProbeAnswers : Probe(At(rung.moe, Guess), status)
             /\ rung' = Narrowed(status)
    BY <1>2 DEF AskBoundary
  <2>3. JournalOK' /\ recorded' = recorded
    BY <2>1, <2>2, ProbeTypes, ProbeEffect
  <2>4. rung' \in RungType
    BY <2>1, <2>2, NarrowedIs DEF SearchOK
  <2>5. pc' \in Phases
    BY <1>2 DEF AskBoundary, Phases
  <2>6. QED
    BY <1>a, <1>2, <2>3, <2>4, <2>5 DEF SearchOK, AskBoundary
<1>3. CASE CloseBracket
  <2>1. UNCHANGED <<journal, ooms, counters>>
    BY <1>3 DEF CloseBracket
  <2>2. todo' \subseteq Layers
    BY <1>3, NeighbourFacts DEF CloseBracket
  <2>3. pc' \in Phases
    BY <1>3 DEF CloseBracket, Phases
  <2>4. QED
    BY <1>a, <1>b, <1>3, <2>1, <2>2, <2>3 DEF SearchOK, CloseBracket
<1>4. CASE MeasureNeighbour
  <2>1. NextNeighbour \in Config
    BY <1>4, NeighbourConfig DEF MeasureNeighbour
  <2>2. PICK trial \in Trials : /\ Evaluate(NextNeighbour, trial)
                                /\ incumbent' = Promoted(NextNeighbour, trial)
    BY <1>4 DEF MeasureNeighbour
  <2>3. JournalOK' /\ recorded' = recorded /\ trial \in [status : Status, score : Nat]
    BY <2>1, <2>2, EvaluateTypes, EvaluateEffect
  <2>4. incumbent' \in [cfg : Config, score : Nat]
    BY <2>1, <2>2, <2>3, PromotedType
  <2>5. QED
    BY <1>a, <1>4, <2>3, <2>4 DEF SearchOK, MeasureNeighbour
<1>5. CASE LeaveRung
  <2>1. UNCHANGED <<probes, known, ooms, counters>>
    BY <1>5 DEF LeaveRung
  <2>2. JournalOK'
    BY <2>1 DEF JournalOK, counters
  <2>3. incumbent' \in [cfg : Config, score : Nat]
    <3>1. CASE incumbent' = incumbent
      BY <3>1 DEF SearchOK
    <3>2. CASE Compliant # {} /\ incumbent' = [cfg |-> BestCompliant,
          score |-> known[BestCompliant].score]
      <4>1. BestCompliant \in DOMAIN known
        BY <1>5, <3>2, BestIsCompliant DEF LeaveRung
      <4>2. BestCompliant \in Config /\ known[BestCompliant].score \in Nat
        BY <4>1 DEF JournalOK
      <4>3. QED
        BY <3>2, <4>2
    <3>3. QED
      BY <1>5, <3>1, <3>2 DEF LeaveRung
  <2>4. Boundary \in BoundaryRecord /\ Boundary.max_ok \in Layers
    BY BoundaryType
  <2>5. recorded' \subseteq BoundaryRecord /\ found' \subseteq BoundaryRecord
    BY <1>5, <2>4 DEF LeaveRung, SearchOK
  <2>6. warm' \in Layers \cup {None} /\ rungs' \subseteq 0..NLayer /\ pc' \in Phases
    BY <1>5, <2>4 DEF LeaveRung, SearchOK, Phases
  <2>7. UNCHANGED <<rung, todo, spill>>
    BY <1>5 DEF LeaveRung
  <2>8. QED
    BY <1>a, <2>2, <2>3, <2>5, <2>6, <2>7 DEF SearchOK
<1>6. CASE SkipSpill
  <2>1. UNCHANGED <<journal, ooms, counters>>
    BY <1>6 DEF SkipSpill
  <2>2. pc' \in Phases
    BY <1>6 DEF SkipSpill, Phases
  <2>3. QED
    BY <1>a, <1>b, <1>6, <2>1, <2>2 DEF SearchOK, SkipSpill
<1>7. CASE StartSpill
  <2>1. UNCHANGED <<journal, ooms, counters>>
    BY <1>7 DEF StartSpill
  <2>2. SpillWanted
    BY <1>7 DEF StartSpill
  <2>3. spill' \in [low : 0..NLayer, high : 0..NLayer]
    BY <1>7, <2>2, SpillBounds DEF StartSpill
  <2>4. pc' \in Phases
    BY <1>7 DEF StartSpill, Phases
  <2>5. QED
    BY <1>a, <1>b, <1>7, <2>1, <2>3, <2>4 DEF SearchOK, StartSpill
<1>8. CASE AskSpill
  <2>1. At(MidSpill, HardCap) \in Config /\ MidSpill \in 0..NLayer
    BY <1>8, SpillConfig, MiddleIs DEF AskSpill, SpillOpen
  <2>2. PICK status \in ProbeAnswers :
           /\ Probe(At(MidSpill, HardCap), status)
           /\ spill' = IF status = "ok" THEN [spill EXCEPT !.high = MidSpill]
                                        ELSE [spill EXCEPT !.low = MidSpill]
    BY <1>8 DEF AskSpill
  <2>3. JournalOK' /\ recorded' = recorded
    BY <2>1, <2>2, ProbeTypes, ProbeEffect
  <2>4. spill' \in [low : 0..NLayer, high : 0..NLayer]
    BY <2>1, <2>2 DEF SearchOK
  <2>5. QED
    BY <1>a, <1>8, <2>3, <2>4 DEF SearchOK, AskSpill
<1>9. CASE CloseSpill
  <2>1. JournalOK'
    BY <1>9 DEF CloseSpill, JournalOK, counters
  <2>2. SpillBoundary \in BoundaryRecord
    BY <1>c DEF SpillBoundary, BoundaryRecord, SearchOK, Layers
  <2>3. recorded' \subseteq BoundaryRecord /\ found' \subseteq BoundaryRecord /\ pc' \in Phases
    BY <1>9, <2>2 DEF CloseSpill, SearchOK, Phases
  <2>4. QED
    BY <1>a, <1>9, <2>1, <2>3 DEF SearchOK, CloseSpill
<1>10. CASE MeasureFrontier
  <2>1. PICK trial \in Trials : Evaluate(Frontier, trial) /\ incumbent' = Promoted(Frontier, trial)
    BY <1>10 DEF MeasureFrontier
  <2>2. Frontier \in Config
    BY FrontierConfig
  <2>3. JournalOK' /\ recorded' = recorded /\ trial \in [status : Status, score : Nat]
    BY <2>1, <2>2, EvaluateTypes, EvaluateEffect
  <2>4. incumbent' \in [cfg : Config, score : Nat] /\ pc' \in Phases
    BY <1>10, <2>1, <2>2, <2>3, PromotedType DEF MeasureFrontier, Phases
  <2>5. QED
    BY <1>a, <1>10, <2>3, <2>4 DEF SearchOK, MeasureFrontier
<1>11. CASE ExhaustBudget
  <2>1. UNCHANGED <<journal, ooms, counters>>
    BY <1>11 DEF ExhaustBudget
  <2>2. pc' \in Phases
    BY <1>11 DEF ExhaustBudget, Phases
  <2>3. QED
    BY <1>a, <1>b, <1>11, <2>1, <2>2 DEF SearchOK, ExhaustBudget
<1>12. CASE Crash
  <2>1. JournalOK'
    BY <1>12 DEF Crash, JournalOK, journal
  <2>2. recorded' = recorded /\ pc' \in Phases
    BY <1>12 DEF Crash, journal, Phases
  <2>3. QED
    BY <1>a, <1>12, <2>1, <2>2 DEF SearchOK, Crash
<1>13. CASE Resume
  <2>1. executed' = executed
    BY <1>13 DEF Resume, CountInv
  <2>2. ooms' \subseteq Config
    BY <1>13 DEF Resume, JournalOK
  <2>3. JournalOK' /\ recorded' = recorded
    BY <1>13, <2>1, <2>2 DEF Resume, JournalOK, journal
  <2>4. rungs' \subseteq 0..NLayer
    BY <1>13, LadderType DEF Resume
  <2>5. NoRung \in RungType /\ NoSpill \in [low : 0..NLayer, high : 0..NLayer]
    BY <1>c DEF NoRung, RungType, Layers, NoSpill
  <2>6. [cfg |-> options.default, score |-> 1] \in [cfg : Config, score : Nat]
    BY MachineFacts
  <2>7. QED
    BY <1>a, <1>13, <2>3, <2>4, <2>5, <2>6 DEF SearchOK, Resume, Phases
<1>14. CASE Finished
  <2>1. UNCHANGED <<journal, ooms, counters, search>>
    BY <1>14 DEF Finished, vars
  <2>2. QED
    BY <1>a, <1>b, <2>1 DEF SearchOK, search
<1>15. QED
  BY <1>1, <1>2, <1>3, <1>4, <1>5, <1>6, <1>7, <1>8, <1>9, <1>10, <1>11, <1>12, <1>13, <1>14 DEF
       Next

(* A fresh search has them.                                                *)
LEMMA InitTypes == Init => MachineOK /\ JournalOK /\ SearchOK
<1> SUFFICES ASSUME Init
             PROVE  MachineOK /\ JournalOK /\ SearchOK
  OBVIOUS
<1>1. MachineOK
  BY DEF Init, MachineOK
<1>2. JournalOK
  BY DEF Init, JournalOK
<1>3. NLayer \in Nat /\ NglAll \in Nat
  BY SizesAssumption
<1>4. NoRung \in RungType /\ NoSpill \in [low : 0..NLayer, high : 0..NLayer]
  BY <1>3 DEF NoRung, RungType, Layers, NoSpill
<1>5. rungs \subseteq 0..NLayer
  BY <1>1, LadderType DEF Init, Start
<1>6. incumbent \in [cfg : Config, score : Nat]
  BY <1>1, MachineFacts DEF Init, Start
<1>7. SearchOK
  BY <1>4, <1>5, <1>6 DEF Init, Start, SearchOK, Phases
<1>8. QED
  BY <1>1, <1>2, <1>7

----------------------------------------------------------------------------
(* The budget.                                                             *)

Ran == {c \in DOMAIN probes : probes[c] # "pruned"}

(* What the journal makes a process count, in two parts.                   *)
LEMMA JournaledTypes ==
    ASSUME IsFiniteSet(DOMAIN probes), IsFiniteSet(DOMAIN known)
    PROVE  /\ IsFiniteSet(Ran) /\ Cardinality(Ran) \in Nat /\ Cardinality(DOMAIN known) \in Nat
           /\ JournaledExecutions = Cardinality(Ran) + Cardinality(DOMAIN known)
<1>1. Ran \in SUBSET DOMAIN probes
  BY DEF Ran
<1>2. IsFiniteSet(Ran)
  BY <1>1, FS_Subset
<1>3. QED
  BY <1>2, FS_CardinalityType DEF JournaledExecutions, Ran

(* A new probe is counted unless it was pruned.                            *)
LEMMA JournaledProbe ==
    ASSUME IsFiniteSet(DOMAIN probes), IsFiniteSet(DOMAIN known),
           NEW c, c \notin DOMAIN probes, NEW status, probes' = With(probes, c, status),
           known' = known
    PROVE  /\ IsFiniteSet(DOMAIN probes')
           /\ status # "pruned" => JournaledExecutions' = JournaledExecutions + 1
           /\ status = "pruned" => JournaledExecutions' = JournaledExecutions
<1>1. DOMAIN probes' = DOMAIN probes \cup {c} /\ probes'[c] = status
      /\ \A d \in DOMAIN probes : probes'[d] = probes[d]
  BY DEF With
<1>2. IsFiniteSet(DOMAIN probes')
  BY <1>1, FS_AddElement
<1>3. Ran' = IF status = "pruned" THEN Ran ELSE Ran \cup {c}
  BY <1>1 DEF Ran
<1>4. c \notin Ran
  BY DEF Ran
<1>5. JournaledExecutions' = Cardinality(Ran') + Cardinality(DOMAIN known)
  BY DEF JournaledExecutions, Ran
<1>6. IsFiniteSet(Ran) /\ Cardinality(Ran) \in Nat /\ Cardinality(DOMAIN known) \in Nat
      /\ JournaledExecutions = Cardinality(Ran) + Cardinality(DOMAIN known)
  BY JournaledTypes
<1>7. Cardinality(Ran \cup {c}) = Cardinality(Ran) + 1
  BY <1>4, <1>6, FS_AddElement
<1>8. QED
  BY <1>2, <1>3, <1>5, <1>6, <1>7

(* A new trial is counted.                                                 *)
LEMMA JournaledTrial ==
    ASSUME IsFiniteSet(DOMAIN probes), IsFiniteSet(DOMAIN known),
           NEW c, c \notin DOMAIN known, NEW trial, known' = With(known, c, trial),
           probes' = probes
    PROVE  IsFiniteSet(DOMAIN known') /\ JournaledExecutions' = JournaledExecutions + 1
<1>1. DOMAIN known' = DOMAIN known \cup {c}
  BY WithDomain
<1>2. IsFiniteSet(DOMAIN known') /\ Cardinality(DOMAIN known') = Cardinality(DOMAIN known) + 1
  BY <1>1, FS_AddElement
<1>3. JournaledExecutions' = Cardinality(Ran) + Cardinality(DOMAIN known')
  BY DEF JournaledExecutions, Ran
<1>4. QED
  BY <1>2, <1>3, JournaledTypes

(* A probe keeps the count and the limit.                                  *)
LEMMA ProbeCounts ==
    ASSUME MachineOK, JournalOK, CountInv, UNCHANGED machine,
           NEW c \in Config, NEW status, Probe(c, status)
    PROVE  CountInv'
<1>1. UNCHANGED <<known, crashes, options>>
  BY ProbeEffect DEF machine
<1>2. options.limit \in Nat /\ executed \in Nat /\ children \in Nat /\ crashes \in Nat
  BY MachineFacts DEF JournalOK
<1>3. CASE UNCHANGED <<probes, ooms, executed, children>>
  BY <1>1, <1>3 DEF CountInv, JournaledExecutions
<1>4. CASE /\ c \notin DOMAIN probes /\ status = "pruned"
           /\ probes' = With(probes, c, status) /\ UNCHANGED <<ooms, executed, children>>
  <2>1. IsFiniteSet(DOMAIN probes') /\ JournaledExecutions' = JournaledExecutions
    BY <1>1, <1>4, JournaledProbe DEF CountInv
  <2>2. QED
    BY <1>1, <1>4, <2>1 DEF CountInv
<1>5. CASE /\ c \notin DOMAIN probes /\ CanExecute /\ status \in Status
           /\ probes' = With(probes, c, status)
           /\ executed' = executed + 1 /\ children' = children + 1
  <2>0. status # "pruned"
    BY <1>5 DEF Status
  <2>1. IsFiniteSet(DOMAIN probes') /\ JournaledExecutions' = JournaledExecutions + 1
    BY <1>1, <1>5, <2>0, JournaledProbe DEF CountInv
  <2>2. executed' <= options.limit /\ children' <= executed' + crashes
    BY <1>2, <1>5 DEF CountInv, CanExecute
  <2>3. QED
    BY <1>1, <1>5, <2>1, <2>2 DEF CountInv
<1>6. QED
  BY <1>3, <1>4, <1>5, ProbeEffect

(* So does a measurement.                                                  *)
LEMMA EvaluateCounts ==
    ASSUME MachineOK, JournalOK, CountInv, UNCHANGED machine,
           NEW c \in Config, NEW trial, Evaluate(c, trial)
    PROVE  CountInv'
<1>1. UNCHANGED <<probes, crashes, options>>
  BY EvaluateEffect DEF machine
<1>2. options.limit \in Nat /\ executed \in Nat /\ children \in Nat /\ crashes \in Nat
  BY MachineFacts DEF JournalOK
<1>3. CASE UNCHANGED <<known, ooms, executed, children>>
  BY <1>1, <1>3 DEF CountInv, JournaledExecutions
<1>4. CASE /\ c \notin DOMAIN known /\ CanExecute
           /\ known' = With(known, c, trial)
           /\ executed' = executed + 1 /\ children' = children + 1
  <2>1. IsFiniteSet(DOMAIN known') /\ JournaledExecutions' = JournaledExecutions + 1
    BY <1>1, <1>4, JournaledTrial DEF CountInv
  <2>2. executed' <= options.limit /\ children' <= executed' + crashes
    BY <1>2, <1>4 DEF CountInv, CanExecute
  <2>3. QED
    BY <1>1, <1>4, <2>1, <2>2 DEF CountInv
<1>5. QED
  BY <1>3, <1>4, EvaluateEffect

(* Neither command line nor machine ever changes.                          *)
LEMMA SameMachine == Next => UNCHANGED machine
BY DEF Next, EnterRung, AskBoundary, CloseBracket, MeasureNeighbour, LeaveRung, SkipSpill,
     StartSpill, AskSpill, CloseSpill, MeasureFrontier, ExhaustBudget, Crash, Resume, Finished,
     vars

(* Every step keeps the count: a crash may cost one child, a resume counts *)
(* what is journaled.                                                      *)
LEMMA CountKept ==
    ASSUME MachineOK, JournalOK, SearchOK, BracketInv, CountInv, Next
    PROVE  CountInv'
<1>a. UNCHANGED machine
  BY SameMachine
<1>b. ASSUME UNCHANGED <<probes, known, executed, children, crashes>>
      PROVE  CountInv'
  BY <1>a, <1>b DEF CountInv, JournaledExecutions, machine
<1>1. CASE EnterRung
  <2>1. UNCHANGED <<probes, known, executed, children, crashes>>
    BY <1>1 DEF EnterRung, journal, counters, vars
  <2>2. QED
    BY <1>b, <2>1
<1>2. CASE AskBoundary
  <2>1. At(rung.moe, Guess) \in Config
    BY <1>2, AskedConfig DEF AskBoundary
  <2>2. PICK status \in ProbeAnswers : Probe(At(rung.moe, Guess), status)
    BY <1>2 DEF AskBoundary
  <2>3. QED
    BY <1>a, <2>1, <2>2, ProbeCounts
<1>3. CASE CloseBracket
  <2>1. UNCHANGED <<probes, known, executed, children, crashes>>
    BY <1>3 DEF CloseBracket, journal, counters, vars
  <2>2. QED
    BY <1>b, <2>1
<1>4. CASE MeasureNeighbour
  <2>1. NextNeighbour \in Config
    BY <1>4, NeighbourConfig DEF MeasureNeighbour
  <2>2. PICK trial \in Trials : Evaluate(NextNeighbour, trial)
    BY <1>4 DEF MeasureNeighbour
  <2>3. QED
    BY <1>a, <2>1, <2>2, EvaluateCounts
<1>5. CASE LeaveRung
  <2>1. UNCHANGED <<probes, known, executed, children, crashes>>
    BY <1>5 DEF LeaveRung, journal, counters, vars
  <2>2. QED
    BY <1>b, <2>1
<1>6. CASE SkipSpill
  <2>1. UNCHANGED <<probes, known, executed, children, crashes>>
    BY <1>6 DEF SkipSpill, journal, counters, vars
  <2>2. QED
    BY <1>b, <2>1
<1>7. CASE StartSpill
  <2>1. UNCHANGED <<probes, known, executed, children, crashes>>
    BY <1>7 DEF StartSpill, journal, counters, vars
  <2>2. QED
    BY <1>b, <2>1
<1>8. CASE AskSpill
  <2>1. At(MidSpill, HardCap) \in Config
    BY <1>8, SpillConfig DEF AskSpill
  <2>2. PICK status \in ProbeAnswers : Probe(At(MidSpill, HardCap), status)
    BY <1>8 DEF AskSpill
  <2>3. QED
    BY <1>a, <2>1, <2>2, ProbeCounts
<1>9. CASE CloseSpill
  <2>1. UNCHANGED <<probes, known, executed, children, crashes>>
    BY <1>9 DEF CloseSpill, journal, counters, vars
  <2>2. QED
    BY <1>b, <2>1
<1>10. CASE MeasureFrontier
  <2>1. Frontier \in Config
    BY FrontierConfig
  <2>2. PICK trial \in Trials : Evaluate(Frontier, trial)
    BY <1>10 DEF MeasureFrontier
  <2>3. QED
    BY <1>a, <2>1, <2>2, EvaluateCounts
<1>11. CASE ExhaustBudget
  <2>1. UNCHANGED <<probes, known, executed, children, crashes>>
    BY <1>11 DEF ExhaustBudget, journal, counters, vars
  <2>2. QED
    BY <1>b, <2>1
<1>12. CASE Crash
  <2>1. UNCHANGED <<probes, known, executed>> /\ crashes' = crashes + 1
        /\ (children' = children \/ children' = children + 1)
    BY <1>12 DEF Crash, journal
  <2>2. executed \in Nat /\ children \in Nat /\ crashes \in Nat
    BY DEF JournalOK
  <2>3. children <= executed + crashes
    BY DEF CountInv
  <2>4. children' <= executed' + crashes'
    BY <2>1, <2>2, <2>3
  <2>5. QED
    BY <1>a, <2>1, <2>4 DEF CountInv, JournaledExecutions, machine
<1>13. CASE Resume
  <2>1. executed' = executed /\ UNCHANGED <<probes, known, children, crashes>>
    BY <1>13 DEF Resume, CountInv, journal
  <2>2. QED
    BY <1>b, <2>1
<1>14. CASE Finished
  <2>1. UNCHANGED <<probes, known, executed, children, crashes>>
    BY <1>14 DEF Finished, journal, counters, vars
  <2>2. QED
    BY <1>b, <2>1
<1>15. QED
  BY <1>1, <1>2, <1>3, <1>4, <1>5, <1>6, <1>7, <1>8, <1>9, <1>10, <1>11, <1>12, <1>13, <1>14 DEF
       Next

----------------------------------------------------------------------------
(* Brackets.                                                               *)

(* No neighbour of a boundary is left out.                                 *)
LEMMA NeighboursKept ==
    ASSUME MachineOK, JournalOK, SearchOK, NeighboursInv, Next
    PROVE  NeighboursInv'
<1>a. ASSUME pc' # "neighbours"
      PROVE  NeighboursInv'
  BY <1>a DEF NeighboursInv
<1>1. CASE EnterRung
  <2>1. pc' # "neighbours"
    BY <1>1 DEF EnterRung
  <2>2. QED
    BY <1>a, <2>1
<1>2. CASE AskBoundary
  <2>1. pc' # "neighbours"
    BY <1>2 DEF AskBoundary
  <2>2. QED
    BY <1>a, <2>1
<1>3. CASE CloseBracket
  <2>1. UNCHANGED <<rung, known>> /\ todo' = IF rung.low = None THEN {} ELSE Neighbours
    BY <1>3 DEF CloseBracket, journal
  <2>2. Neighbours' = Neighbours
    BY <2>1 DEF Neighbours
  <2>3. QED
    BY <2>1, <2>2 DEF NeighboursInv
<1>4. CASE MeasureNeighbour
  <2>1. NextNeighbour \in Config /\ NextNeighbour = At(rung.moe, NextNeighbour.ngl)
    BY <1>4, NeighbourConfig DEF MeasureNeighbour, NextNeighbour, At
  <2>2. PICK trial \in Trials : Evaluate(NextNeighbour, trial)
    BY <1>4 DEF MeasureNeighbour
  <2>3. DOMAIN known' = DOMAIN known \cup {NextNeighbour}
    <3>1. CASE NextNeighbour \in DOMAIN known /\ known' = known
      BY <3>1
    <3>2. CASE known' = With(known, NextNeighbour, trial)
      BY <3>2, WithDomain
    <3>3. QED
      BY <2>1, <2>2, <3>1, <3>2, EvaluateEffect
  <2>4. UNCHANGED <<rung, pc>> /\ todo' = todo \ {NextNeighbour.ngl} /\ Neighbours' = Neighbours
    BY <1>4 DEF MeasureNeighbour, Neighbours
  <2>5. QED
    BY <2>1, <2>3, <2>4 DEF NeighboursInv
<1>5. CASE LeaveRung
  <2>1. pc' # "neighbours"
    BY <1>5 DEF LeaveRung
  <2>2. QED
    BY <1>a, <2>1
<1>6. CASE SkipSpill
  <2>1. pc' # "neighbours"
    BY <1>6 DEF SkipSpill
  <2>2. QED
    BY <1>a, <2>1
<1>7. CASE StartSpill
  <2>1. pc' # "neighbours"
    BY <1>7 DEF StartSpill
  <2>2. QED
    BY <1>a, <2>1
<1>8. CASE AskSpill
  <2>1. pc' # "neighbours"
    BY <1>8 DEF AskSpill, SpillOpen
  <2>2. QED
    BY <1>a, <2>1
<1>9. CASE CloseSpill
  <2>1. pc' # "neighbours"
    BY <1>9 DEF CloseSpill
  <2>2. QED
    BY <1>a, <2>1
<1>10. CASE MeasureFrontier
  <2>1. pc' # "neighbours"
    BY <1>10 DEF MeasureFrontier
  <2>2. QED
    BY <1>a, <2>1
<1>11. CASE ExhaustBudget
  <2>1. pc' # "neighbours"
    BY <1>11 DEF ExhaustBudget
  <2>2. QED
    BY <1>a, <2>1
<1>12. CASE Crash
  <2>1. pc' # "neighbours"
    BY <1>12 DEF Crash
  <2>2. QED
    BY <1>a, <2>1
<1>13. CASE Resume
  <2>1. pc' # "neighbours"
    BY <1>13 DEF Resume
  <2>2. QED
    BY <1>a, <2>1
<1>14. CASE Finished
  <2>1. pc' # "neighbours"
    BY <1>14 DEF Finished, vars, search
  <2>2. QED
    BY <1>a, <2>1
<1>15. QED
  BY <1>1, <1>2, <1>3, <1>4, <1>5, <1>6, <1>7, <1>8, <1>9, <1>10, <1>11, <1>12, <1>13, <1>14 DEF
       Next

(* A rung starts with an empty bracket, or with the measured default as    *)
(* its fit.                                                                *)
LEMMA EnterIs ==
    ASSUME MachineOK, SearchOK, EnterRung
    PROVE  /\ rung'.moe = NextRung /\ rung'.failed = None /\ rung'.used = 0
           /\ rung'.cap = IF warm = None THEN HardCap ELSE Lesser(HardCap, warm)
           /\ rung'.cap <= HardCap
           /\ \/ /\ pc' = "bracket" /\ rung'.low = options.default.ngl /\ rung'.low <= rung'.cap
                 /\ options.verified /\ options.default.moe = NextRung
              \/ pc' = "first" /\ rung'.low = None
<1>1. warm \in 0..NglAll \cup {None} /\ HardCap \in 0..NglAll /\ NglAll \in Nat
  BY MachineFacts, SizesAssumption DEF SearchOK, Layers
<1> DEFINE cap == IF warm = None THEN HardCap ELSE Lesser(HardCap, warm)
           measured == /\ options.verified
                       /\ At(NextRung, incumbent.cfg.ngl) = options.default
                       /\ options.default.ngl <= cap
<1>2. cap <= HardCap
  BY <1>1 DEF Lesser
<1>3. measured => options.default.moe = NextRung
  BY DEF At
<1>4. /\ rung' = [moe |-> NextRung, cap |-> cap, failed |-> None, used |-> 0,
                  low |-> IF measured THEN options.default.ngl ELSE None]
      /\ pc' = IF measured THEN "bracket" ELSE "first"
  BY DEF EnterRung
<1>5. measured => options.verified /\ options.default.ngl <= cap
  OBVIOUS
<1> HIDE DEF measured
<1>6. QED
  BY <1>2, <1>3, <1>4, <1>5

(* An answer moves one end of the bracket; only a first failure above zero *)
(* asks for zero.                                                          *)
LEMMA AskIs ==
    ASSUME MachineOK, SearchOK, BracketInv, AskBoundary
    PROVE  \E status \in ProbeAnswers :
              /\ Probe(At(rung.moe, Guess), status)
              /\ rung'.moe = rung.moe /\ rung'.cap = rung.cap /\ rung'.used = rung.used + 1
              /\ status = "ok" => rung'.low = Guess /\ rung'.failed = rung.failed
              /\ status # "ok" => rung'.low = rung.low /\ rung'.failed = Guess
              /\ pc' = IF pc = "first" /\ status # "ok" /\ Guess > 0 THEN "zero" ELSE "bracket"
<1>1. PICK status \in ProbeAnswers :
         /\ Probe(At(rung.moe, Guess), status) /\ rung' = Narrowed(status)
         /\ pc' = IF pc = "first" /\ status # "ok" /\ Guess > 0 THEN "zero" ELSE "bracket"
  BY DEF AskBoundary
<1>2. rung \in RungType /\ Guess \in Layers
  BY AskedConfig DEF SearchOK, AskBoundary
<1>3. QED
  BY <1>1, <1>2, NarrowedIs

(* The bracket stays what its phase says.                                  *)
LEMMA BracketKept ==
    ASSUME MachineOK, SearchOK, BracketInv, Next
    PROVE  BracketInv'
<1>a. HardCap' = HardCap
  BY SameMachine DEF HardCap, machine
<1>b. ASSUME ~InRung'
      PROVE  BracketInv'
  BY <1>b DEF BracketInv, InRung
<1>c. /\ rung.cap \in Nat /\ rung.low \in Nat \cup {None} /\ rung.failed \in Nat \cup {None}
      /\ rung.used \in Nat /\ None \notin Int /\ HardCap \in Nat /\ options.default.ngl \in Nat
  BY MachineFacts, SizesAssumption DEF SearchOK, RungType, Layers, Config
<1>1. CASE EnterRung
  <2>1. rung'.cap <= HardCap /\ rung'.failed = None /\ rung'.used = 0
    BY <1>1, EnterIs
  <2>2. CASE pc' = "bracket" /\ rung'.low = options.default.ngl /\ rung'.low <= rung'.cap
    BY <1>a, <1>c, <2>1, <2>2 DEF BracketInv
  <2>3. CASE pc' = "first" /\ rung'.low = None
    BY <1>a, <2>1, <2>3 DEF BracketInv
  <2>4. QED
    BY <1>1, <2>2, <2>3, EnterIs
<1>2. CASE AskBoundary
  <2>1. PICK status \in ProbeAnswers :
              /\ rung'.moe = rung.moe /\ rung'.cap = rung.cap /\ rung'.used = rung.used + 1
              /\ status = "ok" => rung'.low = Guess /\ rung'.failed = rung.failed
              /\ status # "ok" => rung'.low = rung.low /\ rung'.failed = Guess
              /\ pc' = IF pc = "first" /\ status # "ok" /\ Guess > 0 THEN "zero" ELSE "bracket"
    BY <1>2, AskIs
  <2>2. /\ Guess \in 0..rung.cap
        /\ pc = "zero" => Guess = 0
        /\ pc = "bracket" => rung.low \in 0..rung.cap /\ rung.low < Guess
        /\ pc = "bracket" /\ rung.failed # None => Guess < rung.failed
    BY <1>2, GuessIs DEF AskBoundary
  <2>3. pc \in {"first", "zero", "bracket"} /\ rung.cap <= HardCap
    BY <1>2 DEF AskBoundary, Asking, BracketInv, InRung
  <2>4. CASE pc = "first"
    <3>1. rung.low = None /\ rung.failed = None /\ rung.used = 0
      BY <2>4 DEF BracketInv
    <3>2. QED
      BY <1>a, <1>c, <2>1, <2>2, <2>3, <2>4, <3>1 DEF BracketInv
  <2>5. CASE pc = "zero"
    <3>1. rung.low = None /\ rung.failed \in 1..rung.cap
      BY <2>5 DEF BracketInv
    <3>2. QED
      BY <1>a, <1>c, <2>1, <2>2, <2>3, <2>5, <3>1 DEF BracketInv
  <2>6. CASE pc = "bracket"
    <3>1. rung.low # None /\ rung.low <= rung.cap
          /\ (rung.failed # None => rung.failed \in (rung.low + 1)..rung.cap)
      BY <1>c, <2>2, <2>6 DEF BracketInv
    <3>2. QED
      BY <1>a, <1>c, <2>1, <2>2, <2>3, <2>6, <3>1 DEF BracketInv
  <2>7. QED
    BY <2>3, <2>4, <2>5, <2>6
<1>3. CASE CloseBracket
  <2>1. UNCHANGED rung /\ pc \in {"bracket", "neighbours"} /\ pc' \in {"bracket", "neighbours"}
    BY <1>3 DEF CloseBracket
  <2>2. QED
    BY <1>a, <2>1 DEF BracketInv, InRung
<1>4. CASE MeasureNeighbour
  <2>1. UNCHANGED rung /\ pc \in {"bracket", "neighbours"} /\ pc' \in {"bracket", "neighbours"}
    BY <1>4 DEF MeasureNeighbour
  <2>2. QED
    BY <1>a, <2>1 DEF BracketInv, InRung
<1>5. CASE LeaveRung
  <2>1. ~InRung'
    BY <1>5 DEF LeaveRung, InRung, vars, search, SpillOpen
  <2>2. QED
    BY <1>b, <2>1
<1>6. CASE SkipSpill
  <2>1. ~InRung'
    BY <1>6 DEF SkipSpill, InRung, vars, search, SpillOpen
  <2>2. QED
    BY <1>b, <2>1
<1>7. CASE StartSpill
  <2>1. ~InRung'
    BY <1>7 DEF StartSpill, InRung, vars, search, SpillOpen
  <2>2. QED
    BY <1>b, <2>1
<1>8. CASE AskSpill
  <2>1. ~InRung'
    BY <1>8 DEF AskSpill, InRung, vars, search, SpillOpen
  <2>2. QED
    BY <1>b, <2>1
<1>9. CASE CloseSpill
  <2>1. ~InRung'
    BY <1>9 DEF CloseSpill, InRung, vars, search, SpillOpen
  <2>2. QED
    BY <1>b, <2>1
<1>10. CASE MeasureFrontier
  <2>1. ~InRung'
    BY <1>10 DEF MeasureFrontier, InRung, vars, search, SpillOpen
  <2>2. QED
    BY <1>b, <2>1
<1>11. CASE ExhaustBudget
  <2>1. ~InRung'
    BY <1>11 DEF ExhaustBudget, InRung, vars, search, SpillOpen
  <2>2. QED
    BY <1>b, <2>1
<1>12. CASE Crash
  <2>1. ~InRung'
    BY <1>12 DEF Crash, InRung, vars, search, SpillOpen
  <2>2. QED
    BY <1>b, <2>1
<1>13. CASE Resume
  <2>1. ~InRung'
    BY <1>13 DEF Resume, InRung, vars, search, SpillOpen
  <2>2. QED
    BY <1>b, <2>1
<1>14. CASE Finished
  <2>1. ~InRung'
    BY <1>14 DEF Finished, InRung, vars, search, SpillOpen
  <2>2. QED
    BY <1>b, <2>1
<1>15. QED
  BY <1>1, <1>2, <1>3, <1>4, <1>5, <1>6, <1>7, <1>8, <1>9, <1>10, <1>11, <1>12, <1>13, <1>14 DEF
       Next

(* No number of layers is longer than the number the fuse is made of.      *)
LEMMA SizeIs ==
    /\ Size \in Nat /\ NglAll <= Size /\ BitLength(Size) \in Nat
    /\ \A n \in 0..Size : BitLength(n) \in Nat /\ BitLength(n) <= BitLength(Size)
    /\ ProbeFuse = 2 * BitLength(Size) + 4
<1>1. Size \in Nat /\ NglAll <= Size
  BY SizesAssumption DEF Size
<1>2. BitLength(Size) \in Nat
  BY <1>1, BitLengthFacts
<1>3. \A n \in 0..Size : BitLength(n) \in Nat
  BY <1>1, BitLengthFacts
<1>4. \A n \in 0..Size : BitLength(n) <= BitLength(Size)
  BY <1>1, BitLengthGrows DEF LongEnough
<1>5. ProbeFuse = 2 * BitLength(Size) + 4
  BY DEF ProbeFuse, Size
<1>6. QED
  BY <1>1, <1>2, <1>3, <1>4, <1>5

(* Bisection leaves at most half of what was between the ends.             *)
LEMMA Halves ==
    ASSUME NEW low \in Nat, NEW failed \in Nat, failed - low > 1
    PROVE  LET mid == (low + failed) \div 2
               width == failed - low - 1
           IN  /\ failed - mid - 1 \in 0..(width \div 2) /\ mid - low - 1 \in 0..(width \div 2)
               /\ width \in Nat \ {0} /\ width \div 2 \in Nat
OBVIOUS

(* So it is shorter by one.                                                *)
LEMMA BisectionSpends ==
    ASSUME NEW low \in Nat, NEW failed \in Nat, failed - low > 1
    PROVE  LET mid == (low + failed) \div 2
           IN  /\ BitLength(failed - mid - 1) \in Nat /\ BitLength(mid - low - 1) \in Nat
               /\ BitLength(failed - mid - 1) + 1 <= BitLength(failed - low - 1)
               /\ BitLength(mid - low - 1) + 1 <= BitLength(failed - low - 1)
<1> DEFINE mid == (low + failed) \div 2
           width == failed - low - 1
<1>1. /\ failed - mid - 1 \in 0..(width \div 2) /\ mid - low - 1 \in 0..(width \div 2)
      /\ width \in Nat \ {0} /\ width \div 2 \in Nat
  BY Halves
<1> HIDE DEF mid, width
<1>2. BitLength(width) = BitLength(width \div 2) + 1 /\ BitLength(width \div 2) \in Nat
  BY <1>1, BitLengthFacts
<1>3. BitLength(failed - mid - 1) <= BitLength(width \div 2)
      /\ BitLength(mid - low - 1) <= BitLength(width \div 2)
  BY <1>1, BitLengthGrows DEF LongEnough
<1>4. failed - mid - 1 \in Nat /\ mid - low - 1 \in Nat
  BY <1>1
<1>5. BitLength(failed - mid - 1) \in Nat /\ BitLength(mid - low - 1) \in Nat
  BY <1>4, BitLengthFacts
<1>6. BitLength(failed - mid - 1) + 1 <= BitLength(width)
      /\ BitLength(mid - low - 1) + 1 <= BitLength(width)
  BY <1>2, <1>3, <1>5
<1>7. QED
  BY <1>5, <1>6 DEF mid, width

(* Growth makes the fit longer by one; when it fails, what is between is   *)
(* no longer than the fit.                                                 *)
LEMMA GrowthDoubles ==
    ASSUME NEW low \in Nat, NEW cap \in Nat, low < cap, cap <= Size
    PROVE  LET guess == Lesser(cap, Greater(low + 1, 2 * low))
           IN  /\ guess \in Nat /\ guess - low - 1 \in Nat
               /\ guess < cap => BitLength(guess) = BitLength(low) + 1
               /\ BitLength(guess - low - 1) \in Nat
               /\ BitLength(guess - low - 1) <= BitLength(low)
               /\ BitLength(low) \in Nat /\ BitLength(low) <= BitLength(Size)
<1> DEFINE guess == Lesser(cap, Greater(low + 1, 2 * low))
<1>1. /\ guess \in Nat \ {0} /\ guess - low - 1 \in 0..low
      /\ guess < cap => guess = IF low = 0 THEN 1 ELSE 2 * low
  BY DEF Lesser, Greater
<1> HIDE DEF guess
<1>2. Size \in Nat /\ low \in 0..Size
  BY SizeIs
<1>3. BitLength(low) \in Nat /\ BitLength(low) <= BitLength(Size)
  BY <1>2, SizeIs
<1>4. guess < cap => guess \div 2 = low
  <2>1. 1 \div 2 = 0 /\ (2 * low) \div 2 = low
    OBVIOUS
  <2>2. QED
    BY <1>1, <2>1
<1>5. BitLength(guess) = BitLength(guess \div 2) + 1
  BY <1>1, BitLengthFacts
<1>6. guess - low - 1 \in Nat /\ guess \in Nat
  BY <1>1
<1>7. BitLength(guess - low - 1) \in Nat
  BY <1>6, BitLengthFacts
<1>8. BitLength(guess - low - 1) <= BitLength(low)
  BY <1>1, BitLengthGrows DEF LongEnough
<1>9. QED
  BY <1>3, <1>4, <1>5, <1>6, <1>7, <1>8 DEF guess

(* The probes of a rung stay within what its bracket accounts for.         *)
LEMMA FuseKept ==
    ASSUME MachineOK, SearchOK, BracketInv, FuseInv, Next
    PROVE  FuseInv'
<1>a. ASSUME pc' # "bracket"
      PROVE  FuseInv'
  BY <1>a DEF FuseInv
<1>b. Size \in Nat /\ BitLength(Size) \in Nat /\ NglAll <= Size /\ NglAll \in Nat /\ None \notin Int
  BY SizeIs, SizesAssumption
<1>c. /\ rung.cap \in 0..NglAll /\ rung.low \in Nat \cup {None} /\ rung.failed \in Nat \cup {None}
      /\ rung.used \in Nat
  BY <1>b DEF SearchOK, RungType, Layers
<1>d. rung.cap \in Nat /\ rung.cap <= Size
  BY <1>b, <1>c
<1>1. CASE EnterRung
  <2>1. rung'.failed = None /\ rung'.used = 0
    BY <1>1, EnterIs
  <2>2. CASE pc' = "bracket" /\ rung'.low = options.default.ngl
    <3>1. options.default.ngl \in Nat
      BY MachineFacts DEF Config
    <3>2. BitLength(rung'.low) \in Nat
      BY <2>2, <3>1, BitLengthFacts
    <3>3. QED
      BY <2>1, <2>2, <3>2 DEF FuseInv
  <2>3. QED
    BY <1>1, <1>a, <2>2, EnterIs
<1>2. CASE AskBoundary
  <2>1. PICK status \in ProbeAnswers :
              /\ rung'.moe = rung.moe /\ rung'.cap = rung.cap /\ rung'.used = rung.used + 1
              /\ status = "ok" => rung'.low = Guess /\ rung'.failed = rung.failed
              /\ status # "ok" => rung'.low = rung.low /\ rung'.failed = Guess
              /\ pc' = IF pc = "first" /\ status # "ok" /\ Guess > 0 THEN "zero" ELSE "bracket"
    BY <1>2, AskIs
  <2>2. Guess \in 0..rung.cap /\ (pc = "zero" => Guess = 0)
    BY <1>2, GuessIs DEF AskBoundary
  <2>3. pc \in {"first", "zero", "bracket"}
    BY <1>2 DEF AskBoundary, Asking
  <2>4. CASE pc = "first"
    <3>1. rung.low = None /\ rung.failed = None /\ rung.used = 0
      BY <2>4 DEF BracketInv
    <3>2. CASE status # "ok"
      BY <2>1, <3>1, <3>2 DEF FuseInv
    <3>3. CASE status = "ok"
      <4>1. rung'.low = Guess /\ rung'.failed = None /\ rung'.used = 1
        BY <2>1, <3>1, <3>3
      <4>2. BitLength(Guess) \in Nat
        BY <1>d, <2>2, BitLengthFacts
      <4>3. QED
        BY <4>1, <4>2 DEF FuseInv
    <3>4. QED
      BY <3>2, <3>3
  <2>5. CASE pc = "zero"
    <3>1. rung.low = None /\ rung.failed \in 1..rung.cap /\ rung.used = 1
      BY <2>5 DEF BracketInv
    <3>2. CASE status # "ok"
      BY <2>1, <3>1, <3>2 DEF FuseInv
    <3>3. CASE status = "ok"
      <4>1. rung'.low = 0 /\ rung'.failed = rung.failed /\ rung'.used = 2
        BY <2>1, <2>2, <2>5, <3>1, <3>3
      <4>2. rung.failed - 0 - 1 \in 0..Size /\ rung.failed # None
        BY <1>b, <1>d, <3>1
      <4>3. BitLength(rung.failed - 0 - 1) \in Nat
            /\ BitLength(rung.failed - 0 - 1) <= BitLength(Size)
        BY <4>2, SizeIs
      <4>4. 2 + BitLength(rung.failed - 0 - 1) <= 2 * BitLength(Size) + 2
        BY <1>b, <4>3
      <4>5. QED
        BY <4>1, <4>2, <4>4 DEF FuseInv
    <3>4. QED
      BY <3>2, <3>3
  <2>6. CASE pc = "bracket" /\ CanGrow
    <3>1. rung.low \in Nat /\ rung.low < rung.cap /\ rung.failed = None /\ rung.low # None
      BY <1>b, <1>c, <2>6 DEF CanGrow
    <3>2. Guess = Lesser(rung.cap, Greater(rung.low + 1, 2 * rung.low))
      BY <2>6 DEF Guess
    <3>3. rung.used <= BitLength(rung.low) + 1
      BY <2>6, <3>1 DEF FuseInv
    <3>4. /\ Guess \in Nat
          /\ Guess < rung.cap => BitLength(Guess) = BitLength(rung.low) + 1
          /\ BitLength(Guess - rung.low - 1) \in Nat
          /\ BitLength(Guess - rung.low - 1) <= BitLength(rung.low)
          /\ BitLength(rung.low) \in Nat /\ BitLength(rung.low) <= BitLength(Size)
      BY <1>d, <3>1, <3>2, GrowthDoubles
    <3>5. CASE status = "ok"
      <4>1. rung'.low = Guess /\ rung'.failed = None /\ rung'.used = rung.used + 1
            /\ rung'.cap = rung.cap
        BY <2>1, <3>1, <3>5
      <4>2. Guess < rung.cap => rung.used + 1 <= BitLength(Guess) + 1
        BY <1>c, <3>3, <3>4
      <4>3. QED
        BY <4>1, <4>2 DEF FuseInv
    <3>6. CASE status # "ok"
      <4>1. rung'.low = rung.low /\ rung'.failed = Guess /\ rung'.used = rung.used + 1
        BY <2>1, <3>6
      <4>2. Guess # None
        BY <1>b, <3>4
      <4>3. rung.used + 1 + BitLength(Guess - rung.low - 1) <= 2 * BitLength(Size) + 2
        BY <1>b, <1>c, <3>3, <3>4
      <4>4. QED
        BY <4>1, <4>2, <4>3 DEF FuseInv
    <3>7. QED
      BY <3>5, <3>6
  <2>7. CASE pc = "bracket" /\ CanBisect
    <3>1. rung.low \in Nat /\ rung.failed \in Nat /\ rung.failed - rung.low > 1 /\ rung.low # None
          /\ rung.failed # None
      BY <1>b, <1>c, <2>7 DEF CanBisect
    <3>2. Guess = (rung.low + rung.failed) \div 2 /\ Guess \in Nat
      BY <1>d, <2>2, <2>7, <3>1 DEF Guess, CanGrow
    <3>3. rung.used + BitLength(rung.failed - rung.low - 1) <= 2 * BitLength(Size) + 2
      BY <2>7, <3>1 DEF FuseInv
    <3>4. /\ BitLength(rung.failed - Guess - 1) \in Nat /\ BitLength(Guess - rung.low - 1) \in Nat
          /\ BitLength(rung.failed - Guess - 1) + 1 <= BitLength(rung.failed - rung.low - 1)
          /\ BitLength(Guess - rung.low - 1) + 1 <= BitLength(rung.failed - rung.low - 1)
      BY <3>1, <3>2, BisectionSpends
    <3>5. BitLength(rung.failed - rung.low - 1) \in Nat
      <4>1. rung.failed - rung.low - 1 \in Nat
        BY <3>1
      <4>2. QED
        BY <4>1, BitLengthFacts
    <3>6. /\ rung.used + 1 + BitLength(rung.failed - Guess - 1) <= 2 * BitLength(Size) + 2
          /\ rung.used + 1 + BitLength(Guess - rung.low - 1) <= 2 * BitLength(Size) + 2
      BY <1>b, <1>c, <3>3, <3>4, <3>5
    <3>7. Guess # None
      BY <1>b, <3>2
    <3>8. CASE status = "ok"
      BY <2>1, <3>1, <3>6, <3>8 DEF FuseInv
    <3>9. CASE status # "ok"
      BY <2>1, <3>1, <3>6, <3>7, <3>9 DEF FuseInv
    <3>10. QED
      BY <3>8, <3>9
  <2>8. QED
    BY <1>2, <2>3, <2>4, <2>5, <2>6, <2>7 DEF AskBoundary, Asking
<1>3. CASE CloseBracket
  <2>1. pc' # "bracket"
    BY <1>3 DEF CloseBracket
  <2>2. QED
    BY <1>a, <2>1
<1>4. CASE MeasureNeighbour
  <2>1. pc' # "bracket"
    BY <1>4 DEF MeasureNeighbour
  <2>2. QED
    BY <1>a, <2>1
<1>5. CASE LeaveRung
  <2>1. pc' # "bracket"
    BY <1>5 DEF LeaveRung
  <2>2. QED
    BY <1>a, <2>1
<1>6. CASE SkipSpill
  <2>1. pc' # "bracket"
    BY <1>6 DEF SkipSpill
  <2>2. QED
    BY <1>a, <2>1
<1>7. CASE StartSpill
  <2>1. pc' # "bracket"
    BY <1>7 DEF StartSpill
  <2>2. QED
    BY <1>a, <2>1
<1>8. CASE AskSpill
  <2>1. pc' # "bracket"
    BY <1>8 DEF AskSpill, SpillOpen
  <2>2. QED
    BY <1>a, <2>1
<1>9. CASE CloseSpill
  <2>1. pc' # "bracket"
    BY <1>9 DEF CloseSpill
  <2>2. QED
    BY <1>a, <2>1
<1>10. CASE MeasureFrontier
  <2>1. pc' # "bracket"
    BY <1>10 DEF MeasureFrontier
  <2>2. QED
    BY <1>a, <2>1
<1>11. CASE ExhaustBudget
  <2>1. pc' # "bracket"
    BY <1>11 DEF ExhaustBudget
  <2>2. QED
    BY <1>a, <2>1
<1>12. CASE Crash
  <2>1. pc' # "bracket"
    BY <1>12 DEF Crash
  <2>2. QED
    BY <1>a, <2>1
<1>13. CASE Resume
  <2>1. pc' # "bracket"
    BY <1>13 DEF Resume
  <2>2. QED
    BY <1>a, <2>1
<1>14. CASE Finished
  <2>1. pc' # "bracket"
    BY <1>14 DEF Finished, vars, search
  <2>2. QED
    BY <1>a, <2>1
<1>15. QED
  BY <1>1, <1>2, <1>3, <1>4, <1>5, <1>6, <1>7, <1>8, <1>9, <1>10, <1>11, <1>12, <1>13, <1>14 DEF
       Next

(* A rung that stops asking does so because its bracket is closed, not     *)
(* because its fuse has burnt.                                             *)
LEMMA ClosedIs ==
    ASSUME SearchOK, BracketInv, FuseInv, CloseBracket
    PROVE  Closed
<1>1. /\ rung.cap \in Nat /\ rung.low \in Nat \cup {None} /\ rung.failed \in Nat \cup {None}
      /\ rung.used \in Nat /\ None \notin Int
  BY SizesAssumption DEF SearchOK, RungType, Layers
<1>2. pc = "bracket" /\ ~CanGrow /\ ~CanBisect
  BY DEF CloseBracket
<1>3. SUFFICES ASSUME rung.low # None
               PROVE  Closed
  BY DEF Closed
<1>4. rung.low <= rung.cap /\ (rung.failed # None => rung.failed \in (rung.low + 1)..rung.cap)
  BY <1>2, <1>3 DEF BracketInv
<1>5. CASE rung.failed = None
  <2>1. ASSUME rung.low < rung.cap
        PROVE  FALSE
    <3>1. rung.used <= BitLength(rung.low) + 1
      BY <1>2, <1>3, <1>5, <2>1 DEF FuseInv
    <3>2. rung.low \in 0..Size
      <4>1. rung.low \in 0..NglAll
        BY <1>3 DEF SearchOK, RungType, Layers
      <4>2. QED
        BY <4>1, SizeIs, SizesAssumption
    <3>3. rung.used < ProbeFuse
      BY <1>1, <3>1, <3>2, SizeIs
    <3>4. QED
      BY <1>2, <1>3, <1>5, <2>1, <3>3 DEF CanGrow
  <2>2. rung.low = rung.cap
    BY <1>1, <1>3, <1>4, <2>1
  <2>3. QED
    BY <1>5, <2>2 DEF Closed
<1>6. CASE rung.failed # None
  <2>1. ASSUME rung.failed - rung.low > 1
        PROVE  FALSE
    <3>1. rung.used + BitLength(rung.failed - rung.low - 1) <= 2 * BitLength(Size) + 2
      BY <1>2, <1>3, <1>6 DEF FuseInv
    <3>2. rung.failed - rung.low - 1 \in Nat
      BY <1>1, <1>3, <1>6, <2>1
    <3>3. BitLength(rung.failed - rung.low - 1) \in Nat
      BY <3>2, BitLengthFacts
    <3>4. rung.used < ProbeFuse
      BY <1>1, <3>1, <3>3, SizeIs
    <3>5. QED
      BY <1>2, <1>3, <1>6, <2>1, <3>4 DEF CanBisect
  <2>2. rung.failed = rung.low + 1
    BY <1>1, <1>3, <1>4, <1>6, <2>1
  <2>3. QED
    BY <2>2 DEF Closed
<1>7. QED
  BY <1>5, <1>6

(* The boundary of a closed bracket is final.                              *)
LEMMA ClosedTight ==
    ASSUME SearchOK, BracketInv, pc = "neighbours", Closed
    PROVE  Tight(Boundary)
<1>1. /\ rung.cap \in Nat /\ rung.low \in Nat \cup {None} /\ None \notin Int
  BY SizesAssumption DEF SearchOK, RungType, Layers
<1>2. CASE rung.low = None
  <2>1. rung.failed = 0
    BY <1>2 DEF BracketInv
  <2>2. QED
    BY <1>2, <2>1 DEF Tight, HasFit, Boundary
<1>3. CASE rung.low # None
  BY <1>3 DEF Closed, Tight, Boundary
<1>4. QED
  BY <1>2, <1>3

(* Every boundary that is recorded is final.                               *)
LEMMA TightKept ==
    ASSUME MachineOK, SearchOK, BracketInv, FuseInv, TightInv, Next
    PROVE  TightInv'
<1>a. ASSUME pc' # "neighbours", UNCHANGED <<recorded, found>>
      PROVE  TightInv'
  BY <1>a DEF TightInv
<1>1. CASE EnterRung
  <2>1. pc' # "neighbours" /\ UNCHANGED <<recorded, found>>
    BY <1>1 DEF EnterRung, journal, vars, search
  <2>2. QED
    BY <1>a, <2>1
<1>2. CASE AskBoundary
  <2>1. found' = found /\ pc' # "neighbours"
    BY <1>2 DEF AskBoundary, SpillOpen
  <2>2. recorded' = recorded
    BY <1>2 DEF AskBoundary, Probe, journal
  <2>3. QED
    BY <1>a, <2>1, <2>2
<1>3. CASE CloseBracket
  <2>1. Closed /\ UNCHANGED <<recorded, found, rung>>
    BY <1>3, ClosedIs DEF CloseBracket, journal
  <2>2. QED
    BY <2>1 DEF TightInv, Closed
<1>4. CASE MeasureNeighbour
  <2>1. NextNeighbour \in Config /\ UNCHANGED <<pc, rung, found>>
    BY <1>4, NeighbourConfig DEF MeasureNeighbour
  <2>2. recorded' = recorded
    BY <1>4 DEF MeasureNeighbour, Evaluate, journal
  <2>3. QED
    BY <2>1, <2>2 DEF TightInv, Closed
<1>5. CASE LeaveRung
  <2>1. pc = "neighbours" /\ pc' # "neighbours"
        /\ recorded' = recorded \cup {Boundary} /\ found' = found \cup {Boundary}
    BY <1>5 DEF LeaveRung
  <2>2. Tight(Boundary)
    BY <2>1, ClosedTight DEF TightInv
  <2>3. QED
    BY <2>1, <2>2 DEF TightInv
<1>6. CASE SkipSpill
  <2>1. pc' # "neighbours" /\ UNCHANGED <<recorded, found>>
    BY <1>6 DEF SkipSpill, journal, vars, search
  <2>2. QED
    BY <1>a, <2>1
<1>7. CASE StartSpill
  <2>1. pc' # "neighbours" /\ UNCHANGED <<recorded, found>>
    BY <1>7 DEF StartSpill, journal, vars, search
  <2>2. QED
    BY <1>a, <2>1
<1>8. CASE AskSpill
  <2>1. found' = found /\ pc' # "neighbours"
    BY <1>8 DEF AskSpill, SpillOpen
  <2>2. recorded' = recorded
    BY <1>8 DEF AskSpill, Probe, journal
  <2>3. QED
    BY <1>a, <2>1, <2>2
<1>9. CASE CloseSpill
  <2>1. pc' # "neighbours"
        /\ \/ UNCHANGED <<recorded, found>>
           \/ recorded' = recorded \cup {SpillBoundary} /\ found' = found \cup {SpillBoundary}
    BY <1>9 DEF CloseSpill
  <2>2. Tight(SpillBoundary)
    BY DEF Tight, SpillBoundary
  <2>3. QED
    BY <2>1, <2>2 DEF TightInv
<1>10. CASE MeasureFrontier
  <2>1. found' = found /\ pc' # "neighbours"
    BY <1>10 DEF MeasureFrontier
  <2>2. recorded' = recorded
    BY <1>10 DEF MeasureFrontier, Evaluate, journal
  <2>3. QED
    BY <1>a, <2>1, <2>2
<1>11. CASE ExhaustBudget
  <2>1. pc' # "neighbours" /\ UNCHANGED <<recorded, found>>
    BY <1>11 DEF ExhaustBudget, journal, vars, search
  <2>2. QED
    BY <1>a, <2>1
<1>12. CASE Crash
  <2>1. pc' # "neighbours" /\ UNCHANGED <<recorded, found>>
    BY <1>12 DEF Crash, journal, vars, search
  <2>2. QED
    BY <1>a, <2>1
<1>13. CASE Resume
  <2>1. found' = {} /\ pc' # "neighbours" /\ recorded' = recorded
    BY <1>13 DEF Resume, journal
  <2>2. QED
    BY <2>1 DEF TightInv
<1>14. CASE Finished
  <2>1. pc' # "neighbours" /\ UNCHANGED <<recorded, found>>
    BY <1>14 DEF Finished, journal, vars, search
  <2>2. QED
    BY <1>a, <2>1
<1>15. QED
  BY <1>1, <1>2, <1>3, <1>4, <1>5, <1>6, <1>7, <1>8, <1>9, <1>10, <1>11, <1>12, <1>13, <1>14 DEF
       Next

(* The ladder descends, but for a hinted rung that comes first and         *)
(* uncapped.                                                               *)
LEMMA OrderKept ==
    ASSUME MachineOK, SearchOK, OrderInv, Next
    PROVE  OrderInv'
<1>a. options' = options /\ HardCap' = HardCap
  BY SameMachine DEF HardCap, machine
<1>b. ASSUME ~InRung', pc' # "ladder"
      PROVE  OrderInv'
  BY <1>b DEF OrderInv, InRung
<1>1. CASE EnterRung
  <2>1. /\ NextRung \in rungs
        /\ options.initial_moe \in rungs => NextRung = options.initial_moe
        /\ options.initial_moe \notin rungs => \A m \in rungs : m <= NextRung
    BY <1>1, NextRungIs DEF EnterRung
  <2>2. /\ rung'.moe = NextRung /\ UNCHANGED <<rungs, found>> /\ pc = "ladder" /\ pc' # "ladder"
        /\ rung'.cap = IF warm = None THEN HardCap ELSE Lesser(HardCap, warm)
    BY <1>1, EnterIs DEF EnterRung
  <2>3. ASSUME NEW m \in rungs, m > NextRung
        PROVE  options.initial_moe \in rungs
    BY <2>1, <2>3 DEF SearchOK
  <2>4. options.initial_moe \in rungs => warm = None /\ found = {}
    BY <2>2 DEF OrderInv
  <2>5. QED
    BY <1>a, <2>1, <2>2, <2>3, <2>4 DEF OrderInv
<1>2. CASE AskBoundary
  <2>1. Asking /\ UNCHANGED <<rungs, found>> /\ pc' # "ladder"
    BY <1>2 DEF AskBoundary
  <2>2. rung'.moe = rung.moe /\ rung'.cap = rung.cap
    BY <1>2 DEF AskBoundary, Narrowed, SearchOK, RungType
  <2>3. InRung
    BY <2>1 DEF Asking, InRung
  <2>4. QED
    BY <1>a, <2>1, <2>2, <2>3 DEF OrderInv
<1>3. CASE CloseBracket
  <2>1. UNCHANGED <<rung, rungs, found>> /\ pc' # "ladder" /\ InRung
    BY <1>3 DEF CloseBracket, InRung
  <2>2. QED
    BY <1>a, <2>1 DEF OrderInv
<1>4. CASE MeasureNeighbour
  <2>1. UNCHANGED <<rung, rungs, found>> /\ pc' # "ladder" /\ InRung
    BY <1>4 DEF MeasureNeighbour, InRung
  <2>2. QED
    BY <1>a, <2>1 DEF OrderInv
<1>5. CASE LeaveRung
  <2>1. rungs' = rungs \ {rung.moe} /\ pc' = "ladder" /\ InRung
    BY <1>5 DEF LeaveRung, InRung
  <2>2. options.initial_moe \notin rungs'
    BY <2>1 DEF OrderInv
  <2>3. QED
    BY <1>a, <2>1, <2>2 DEF OrderInv, InRung
<1>6. CASE SkipSpill
  <2>1. ~InRung' /\ pc' # "ladder"
    BY <1>6 DEF SkipSpill, InRung, vars, search, SpillOpen
  <2>2. QED
    BY <1>b, <2>1
<1>7. CASE StartSpill
  <2>1. ~InRung' /\ pc' # "ladder"
    BY <1>7 DEF StartSpill, InRung, vars, search, SpillOpen
  <2>2. QED
    BY <1>b, <2>1
<1>8. CASE AskSpill
  <2>1. ~InRung' /\ pc' # "ladder"
    BY <1>8 DEF AskSpill, InRung, vars, search, SpillOpen
  <2>2. QED
    BY <1>b, <2>1
<1>9. CASE CloseSpill
  <2>1. ~InRung' /\ pc' # "ladder"
    BY <1>9 DEF CloseSpill, InRung, vars, search, SpillOpen
  <2>2. QED
    BY <1>b, <2>1
<1>10. CASE MeasureFrontier
  <2>1. ~InRung' /\ pc' # "ladder"
    BY <1>10 DEF MeasureFrontier, InRung, vars, search, SpillOpen
  <2>2. QED
    BY <1>b, <2>1
<1>11. CASE ExhaustBudget
  <2>1. ~InRung' /\ pc' # "ladder"
    BY <1>11 DEF ExhaustBudget, InRung, vars, search, SpillOpen
  <2>2. QED
    BY <1>b, <2>1
<1>12. CASE Crash
  <2>1. ~InRung' /\ pc' # "ladder"
    BY <1>12 DEF Crash, InRung, vars, search, SpillOpen
  <2>2. QED
    BY <1>b, <2>1
<1>13. CASE Resume
  <2>1. pc' = "ladder" /\ warm' = None /\ found' = {}
    BY <1>13 DEF Resume
  <2>2. QED
    BY <2>1 DEF OrderInv, InRung
<1>14. CASE Finished
  <2>1. ~InRung' /\ pc' # "ladder"
    BY <1>14 DEF Finished, InRung, vars, search, SpillOpen
  <2>2. QED
    BY <1>b, <2>1
<1>15. QED
  BY <1>1, <1>2, <1>3, <1>4, <1>5, <1>6, <1>7, <1>8, <1>9, <1>10, <1>11, <1>12, <1>13, <1>14 DEF
       Next

----------------------------------------------------------------------------
(* Truth, on a monotone machine.                                           *)

(* On a monotone machine fewer layers on the GPU fit too.                  *)
LEMMA FitsBelow ==
    ASSUME MachineOK, Monotone, NEW m \in 0..NLayer, NEW g \in 0..NglAll, Fits(At(m, g)),
           NEW h \in 0..g
    PROVE  Fits(At(m, h))
<1> DEFINE Misses == {d \in 0..g : ~Fits(At(m, g - d))}
<1>0. g \in Nat /\ h \in Nat /\ NglAll \in Nat
  BY SizesAssumption
<1>1. SUFFICES ASSUME ~Fits(At(m, h))
               PROVE  FALSE
  OBVIOUS
<1>2. Misses \in SUBSET Nat /\ Misses # {}
  <2>1. g - h \in 0..g /\ g - (g - h) = h
    BY <1>0
  <2>2. g - h \in Misses /\ Misses \subseteq 0..g
    BY <1>1, <2>1
  <2>3. 0..g \subseteq Nat
    BY <1>0
  <2> HIDE DEF Misses
  <2>4. QED
    BY <2>2, <2>3
<1>3. PICK d \in Misses : \A x \in Misses : d <= x
  <2> HIDE DEF Misses
  <2>1. QED
    BY <1>2, SmallestOf
<1>4. d \in 0..g /\ ~Fits(At(m, g - d))
  OBVIOUS
<1>5. d # 0
  <2>1. g - 0 = g
    BY <1>0
  <2>2. QED
    BY <1>4, <2>1
<1>6. d - 1 \in 0..g /\ ~(d <= d - 1)
  BY <1>0, <1>4, <1>5
<1>7. Fits(At(m, g - (d - 1)))
  BY <1>3, <1>6
<1> DEFINE c == At(m, g - (d - 1))
<1>8. c \in Config /\ c.moe = m /\ c.ngl = g - (d - 1) /\ c.ngl > 0 /\ c.ngl - 1 = g - d
  BY <1>0, <1>4, <1>5 DEF At, Config
<1>9. "ok" \in answers[c]
  BY <1>7 DEF Fits
<1> HIDE DEF c
<1>10. Fits(At(m, g - d))
  BY <1>8, <1>9 DEF Monotone, Fits
<1>11. QED
  BY <1>4, <1>10

(* So do more MoE layers on the CPU.                                       *)
LEMMA FitsAbove ==
    ASSUME MachineOK, Monotone, NEW g \in 0..NglAll, NEW n \in 0..NLayer, NEW m \in 0..n,
           Fits(At(m, g))
    PROVE  Fits(At(n, g))
<1> DEFINE Misses == {d \in 0..(n - m) : ~Fits(At(m + d, g))}
<1>0. n \in Nat /\ m \in Nat /\ NLayer \in Nat /\ n - m \in Nat
  BY SizesAssumption
<1>1. SUFFICES ASSUME ~Fits(At(n, g))
               PROVE  FALSE
  OBVIOUS
<1>2. Misses \in SUBSET Nat /\ Misses # {}
  <2>1. n - m \in 0..(n - m) /\ m + (n - m) = n
    BY <1>0
  <2>2. n - m \in Misses /\ Misses \subseteq 0..(n - m)
    BY <1>1, <2>1
  <2>3. 0..(n - m) \subseteq Nat
    BY <1>0
  <2> HIDE DEF Misses
  <2>4. QED
    BY <2>2, <2>3
<1>3. PICK d \in Misses : \A x \in Misses : d <= x
  <2> HIDE DEF Misses
  <2>1. QED
    BY <1>2, SmallestOf
<1>4. d \in 0..(n - m) /\ ~Fits(At(m + d, g))
  OBVIOUS
<1>5. d # 0
  <2>1. m + 0 = m
    BY <1>0
  <2>2. QED
    BY <1>4, <2>1
<1>6. d - 1 \in 0..(n - m) /\ ~(d <= d - 1)
  BY <1>0, <1>4, <1>5
<1>7. Fits(At(m + (d - 1), g))
  BY <1>3, <1>6
<1> DEFINE c == At(m + (d - 1), g)
<1>8. c \in Config /\ c.moe = m + (d - 1) /\ c.ngl = g /\ c.moe < NLayer /\ c.moe + 1 = m + d
  BY <1>0, <1>4, <1>5 DEF At, Config
<1>9. "ok" \in answers[c]
  BY <1>7 DEF Fits
<1> HIDE DEF c
<1>10. Fits(At(m + d, g))
  BY <1>8, <1>9 DEF Monotone, Fits
<1>11. QED
  BY <1>4, <1>10

(* A configuration is its two numbers.                                     *)
LEMMA ConfigIsAt == \A c \in Config : c = At(c.moe, c.ngl) /\ c.moe \in 0..NLayer
/\ c.ngl \in 0..NglAll
BY DEF Config, At

(* Fewer layers on the GPU and more on the CPU always fit.                 *)
LEMMA FitsSmaller ==
    ASSUME MachineOK, Monotone, NEW c \in Config, NEW d \in Config, Fits(c),
           d.ngl <= c.ngl, c.moe <= d.moe
    PROVE  Fits(d)
<1>1. c = At(c.moe, c.ngl) /\ d = At(d.moe, d.ngl) /\ c.moe \in 0..NLayer /\ c.ngl \in 0..NglAll
      /\ d.moe \in 0..NLayer /\ d.ngl \in 0..NglAll
  BY ConfigIsAt
<1>2. d.ngl \in 0..c.ngl /\ c.moe \in 0..d.moe
  BY <1>1
<1>3. Fits(At(c.moe, d.ngl))
  BY <1>1, <1>2, FitsBelow
<1>4. Fits(At(d.moe, d.ngl))
  BY <1>1, <1>2, <1>3, FitsAbove
<1>5. QED
  BY <1>1, <1>4

(* The answer of a probe is ok if and only if the configuration fits: from *)
(* the journal, from the machine, or because a smaller one ran out of      *)
(* memory.                                                                 *)
LEMMA ProbeTruth ==
    ASSUME MachineOK, JournalOK, Monotone, AnswersTrue, UNCHANGED machine,
           NEW c \in Config, c.ngl <= HardCap, NEW status, Probe(c, status)
    PROVE  AnswersTrue' /\ (status = "ok" <=> Fits(c))
<1>1. answers' = answers /\ known' = known
  BY ProbeEffect DEF machine
<1>2. CASE c \in DOMAIN probes /\ status = probes[c] /\ UNCHANGED <<probes, ooms>>
  BY <1>1, <1>2 DEF AnswersTrue, Fits
<1>3. ASSUME status = "ok" <=> Fits(c), probes' = With(probes, c, status),
             \A d \in ooms' : ~Fits(d)
      PROVE  AnswersTrue'
  <2>1. \A d \in DOMAIN probes' : probes'[d] = "ok" <=> Fits(d)
    BY <1>3 DEF With, AnswersTrue
  <2>2. QED
    BY <1>1, <1>3, <2>1 DEF AnswersTrue, Fits
<1>4. CASE /\ Pruned(c) /\ status = "pruned" /\ probes' = With(probes, c, status) /\ ooms' = ooms
  <2>1. HardCap \in Nat /\ c.ngl \in Nat
    BY MachineFacts DEF Config
  <2>2. PICK o \in ooms : c.ngl >= o.ngl /\ c.moe <= o.moe
    BY <1>4, <2>1 DEF Pruned
  <2>3. o \in Config /\ ~Fits(o)
    BY DEF JournalOK, AnswersTrue
  <2>4. ~Fits(c)
    <3>1. o.ngl \in Nat /\ o.ngl <= c.ngl
      BY <2>1, <2>2, <2>3 DEF Config
    <3>2. QED
      BY <2>2, <2>3, <3>1, FitsSmaller
  <2>5. QED
    BY <1>3, <1>4, <2>4 DEF AnswersTrue
<1>5. CASE /\ status \in answers[c] /\ status \in Status
           /\ probes' = With(probes, c, status)
           /\ ooms' = IF status = "oom" THEN ooms \cup {c} ELSE ooms
  <2>1. status = "ok" <=> Fits(c)
    BY <1>5 DEF Monotone, Fits
  <2>2. \A d \in ooms' : ~Fits(d)
    BY <1>5, <2>1 DEF AnswersTrue
  <2>3. QED
    BY <1>3, <1>5, <2>1, <2>2
<1>6. QED
  BY <1>2, <1>4, <1>5, ProbeEffect

(* A measurement that runs out of memory does not fit.                     *)
LEMMA EvaluateTruth ==
    ASSUME MachineOK, JournalOK, Monotone, AnswersTrue, UNCHANGED machine,
           NEW c \in Config, NEW trial, Evaluate(c, trial)
    PROVE  AnswersTrue'
<1>1. answers' = answers /\ probes' = probes
  BY EvaluateEffect DEF machine
<1>2. CASE UNCHANGED <<known, ooms>>
  BY <1>1, <1>2 DEF AnswersTrue, Fits
<1>3. CASE /\ trial.status \in answers[c]
           /\ known' = With(known, c, trial)
           /\ ooms' = IF trial.status = "oom" THEN ooms \cup {c} ELSE ooms
  <2>1. trial.status = "oom" => ~Fits(c)
    BY <1>3 DEF Fits
  <2>2. \A d \in DOMAIN known' : known'[d].status = "oom" => ~Fits(d)
    BY <1>3, <2>1 DEF With, AnswersTrue
  <2>3. \A d \in ooms' : ~Fits(d)
    BY <1>3, <2>1 DEF AnswersTrue
  <2>4. QED
    BY <1>1, <2>2, <2>3 DEF AnswersTrue, Fits
<1>4. QED
  BY <1>2, <1>3, EvaluateEffect

(* The bracket moves up if and only if what was asked fits.                *)
LEMMA AskTruth ==
    ASSUME MachineOK, JournalOK, SearchOK, BracketInv, Monotone, AnswersTrue, AskBoundary
    PROVE  /\ AnswersTrue'
           /\ \E ok \in BOOLEAN :
                 /\ ok <=> Fits(At(rung.moe, Guess))
                 /\ rung'.moe = rung.moe /\ rung'.cap = rung.cap
                 /\ ok => rung'.low = Guess /\ rung'.failed = rung.failed
                 /\ ~ok => rung'.low = rung.low /\ rung'.failed = Guess
<1>1. PICK status \in ProbeAnswers :
         /\ Probe(At(rung.moe, Guess), status)
         /\ rung'.moe = rung.moe /\ rung'.cap = rung.cap
         /\ status = "ok" => rung'.low = Guess /\ rung'.failed = rung.failed
         /\ status # "ok" => rung'.low = rung.low /\ rung'.failed = Guess
  BY AskIs
<1>2. At(rung.moe, Guess) \in Config /\ At(rung.moe, Guess).ngl <= HardCap
  BY AskedConfig DEF AskBoundary, At
<1>3. UNCHANGED machine
  BY DEF AskBoundary
<1>4. AnswersTrue' /\ (status = "ok" <=> Fits(At(rung.moe, Guess)))
  BY <1>1, <1>2, <1>3, ProbeTruth
<1> DEFINE ok == status = "ok"
<1>5. /\ ok <=> Fits(At(rung.moe, Guess))
      /\ rung'.moe = rung.moe /\ rung'.cap = rung.cap
      /\ ok => rung'.low = Guess /\ rung'.failed = rung.failed
      /\ ~ok => rung'.low = rung.low /\ rung'.failed = Guess
  BY <1>1, <1>4
<1>6. ok \in BOOLEAN
  OBVIOUS
<1> HIDE DEF ok
<1>7. QED
  BY <1>4, <1>5, <1>6

(* Journal and pruning stay true, a resume included.                       *)
LEMMA AnswersKept ==
    ASSUME MachineOK, JournalOK, SearchOK, BracketInv, Monotone, AnswersTrue, Next
    PROVE  AnswersTrue'
<1>a. UNCHANGED machine
  BY SameMachine
<1>b. ASSUME UNCHANGED <<probes, known, ooms>>
      PROVE  AnswersTrue'
  BY <1>a, <1>b DEF AnswersTrue, Fits, machine
<1>1. CASE EnterRung
  <2>1. UNCHANGED <<probes, known, ooms>>
    BY <1>1 DEF EnterRung, journal, vars
  <2>2. QED
    BY <1>b, <2>1
<1>2. CASE AskBoundary
  BY <1>2, AskTruth
<1>3. CASE CloseBracket
  <2>1. UNCHANGED <<probes, known, ooms>>
    BY <1>3 DEF CloseBracket, journal, vars
  <2>2. QED
    BY <1>b, <2>1
<1>4. CASE MeasureNeighbour
  <2>1. NextNeighbour \in Config
    BY <1>4, NeighbourConfig DEF MeasureNeighbour
  <2>2. PICK trial \in Trials : Evaluate(NextNeighbour, trial)
    BY <1>4 DEF MeasureNeighbour
  <2>3. QED
    BY <1>a, <2>1, <2>2, EvaluateTruth
<1>5. CASE LeaveRung
  <2>1. UNCHANGED <<probes, known, ooms>>
    BY <1>5 DEF LeaveRung, journal, vars
  <2>2. QED
    BY <1>b, <2>1
<1>6. CASE SkipSpill
  <2>1. UNCHANGED <<probes, known, ooms>>
    BY <1>6 DEF SkipSpill, journal, vars
  <2>2. QED
    BY <1>b, <2>1
<1>7. CASE StartSpill
  <2>1. UNCHANGED <<probes, known, ooms>>
    BY <1>7 DEF StartSpill, journal, vars
  <2>2. QED
    BY <1>b, <2>1
<1>8. CASE AskSpill
  <2>1. At(MidSpill, HardCap) \in Config /\ At(MidSpill, HardCap).ngl = HardCap
    BY <1>8, SpillConfig DEF AskSpill
  <2>2. PICK status \in ProbeAnswers : Probe(At(MidSpill, HardCap), status)
    BY <1>8 DEF AskSpill
  <2>3. At(MidSpill, HardCap).ngl <= HardCap
    BY <2>1, MachineFacts
  <2>4. QED
    BY <1>a, <2>1, <2>2, <2>3, ProbeTruth
<1>9. CASE CloseSpill
  <2>1. UNCHANGED <<probes, known, ooms>>
    BY <1>9 DEF CloseSpill, journal, vars
  <2>2. QED
    BY <1>b, <2>1
<1>10. CASE MeasureFrontier
  <2>1. Frontier \in Config
    BY FrontierConfig
  <2>2. PICK trial \in Trials : Evaluate(Frontier, trial)
    BY <1>10 DEF MeasureFrontier
  <2>3. QED
    BY <1>a, <2>1, <2>2, EvaluateTruth
<1>11. CASE ExhaustBudget
  <2>1. UNCHANGED <<probes, known, ooms>>
    BY <1>11 DEF ExhaustBudget, journal, vars
  <2>2. QED
    BY <1>b, <2>1
<1>12. CASE Crash
  <2>1. UNCHANGED <<probes, known, ooms>>
    BY <1>12 DEF Crash, journal, vars
  <2>2. QED
    BY <1>b, <2>1
<1>13. CASE Resume
  <2>1. UNCHANGED <<probes, known>> /\ ooms' = {c \in DOMAIN known : known[c].status = "oom"}
    BY <1>13 DEF Resume, journal
  <2>2. QED
    BY <1>a, <2>1 DEF AnswersTrue, Fits, machine
<1>14. CASE Finished
  <2>1. UNCHANGED <<probes, known, ooms>>
    BY <1>14 DEF Finished, journal, vars
  <2>2. QED
    BY <1>b, <2>1
<1>15. QED
  BY <1>1, <1>2, <1>3, <1>4, <1>5, <1>6, <1>7, <1>8, <1>9, <1>10, <1>11, <1>12, <1>13, <1>14 DEF
       Next

(* Both ends of the bracket stay true.                                     *)
LEMMA BracketTrueKept ==
    ASSUME MachineOK, JournalOK, SearchOK, BracketInv, Monotone, AnswersTrue, BracketTrue, Next
    PROVE  BracketTrue'
<1>a. UNCHANGED <<answers, options>>
  BY SameMachine DEF machine
<1>b. ASSUME ~InRung'
      PROVE  BracketTrue'
  BY <1>b DEF BracketTrue
<1>1. CASE EnterRung
  <2>1. rung'.failed = None /\ rung'.moe = NextRung
    BY <1>1, EnterIs
  <2>2. CASE pc' = "first" /\ rung'.low = None
    BY <2>1, <2>2 DEF BracketTrue
  <2>3. CASE options.verified /\ rung'.low = options.default.ngl /\ options.default.moe = NextRung
    <3>1. options.default = At(0, options.default.ngl) /\ NextRung = 0
      BY <2>3, MachineFacts, ConfigIsAt
    <3>2. Fits(At(0, options.default.ngl)) \/ ~ConsistentBaseline
      BY <2>3, <3>1 DEF ConsistentBaseline
    <3>3. QED
      BY <1>a, <2>1, <2>3, <3>1, <3>2 DEF BracketTrue, ConsistentBaseline, Fits
  <2>4. QED
    BY <1>1, <2>2, <2>3, EnterIs
<1>2. CASE AskBoundary
  <2>1. PICK ok \in BOOLEAN :
            /\ ok <=> Fits(At(rung.moe, Guess))
            /\ rung'.moe = rung.moe /\ rung'.cap = rung.cap
            /\ ok => rung'.low = Guess /\ rung'.failed = rung.failed
            /\ ~ok => rung'.low = rung.low /\ rung'.failed = Guess
    BY <1>2, AskTruth
  <2>2. InRung
    BY <1>2 DEF AskBoundary, Asking, InRung
  <2>3. /\ rung.low # None => Fits(At(rung.moe, rung.low)) \/ (rung.moe = 0 /\ ~ConsistentBaseline)
        /\ rung.failed # None => ~Fits(At(rung.moe, rung.failed))
    BY <2>2 DEF BracketTrue
  <2>4. CASE ok
    BY <1>a, <2>1, <2>3, <2>4 DEF BracketTrue, ConsistentBaseline, Fits
  <2>5. CASE ~ok
    BY <1>a, <2>1, <2>3, <2>5 DEF BracketTrue, ConsistentBaseline, Fits
  <2>6. QED
    BY <2>4, <2>5
<1>3. CASE CloseBracket
  <2>1. UNCHANGED rung /\ InRung
    BY <1>3 DEF CloseBracket, InRung
  <2>2. QED
    BY <1>a, <2>1 DEF BracketTrue, ConsistentBaseline, Fits
<1>4. CASE MeasureNeighbour
  <2>1. UNCHANGED rung /\ InRung
    BY <1>4 DEF MeasureNeighbour, InRung
  <2>2. QED
    BY <1>a, <2>1 DEF BracketTrue, ConsistentBaseline, Fits
<1>5. CASE LeaveRung
  <2>1. ~InRung'
    BY <1>5 DEF LeaveRung, InRung, vars, search, SpillOpen
  <2>2. QED
    BY <1>b, <2>1
<1>6. CASE SkipSpill
  <2>1. ~InRung'
    BY <1>6 DEF SkipSpill, InRung, vars, search, SpillOpen
  <2>2. QED
    BY <1>b, <2>1
<1>7. CASE StartSpill
  <2>1. ~InRung'
    BY <1>7 DEF StartSpill, InRung, vars, search, SpillOpen
  <2>2. QED
    BY <1>b, <2>1
<1>8. CASE AskSpill
  <2>1. ~InRung'
    BY <1>8 DEF AskSpill, InRung, vars, search, SpillOpen
  <2>2. QED
    BY <1>b, <2>1
<1>9. CASE CloseSpill
  <2>1. ~InRung'
    BY <1>9 DEF CloseSpill, InRung, vars, search, SpillOpen
  <2>2. QED
    BY <1>b, <2>1
<1>10. CASE MeasureFrontier
  <2>1. ~InRung'
    BY <1>10 DEF MeasureFrontier, InRung, vars, search, SpillOpen
  <2>2. QED
    BY <1>b, <2>1
<1>11. CASE ExhaustBudget
  <2>1. ~InRung'
    BY <1>11 DEF ExhaustBudget, InRung, vars, search, SpillOpen
  <2>2. QED
    BY <1>b, <2>1
<1>12. CASE Crash
  <2>1. ~InRung'
    BY <1>12 DEF Crash, InRung, vars, search, SpillOpen
  <2>2. QED
    BY <1>b, <2>1
<1>13. CASE Resume
  <2>1. ~InRung'
    BY <1>13 DEF Resume, InRung, vars, search, SpillOpen
  <2>2. QED
    BY <1>b, <2>1
<1>14. CASE Finished
  <2>1. ~InRung'
    BY <1>14 DEF Finished, InRung, vars, search, SpillOpen
  <2>2. QED
    BY <1>b, <2>1
<1>15. QED
  BY <1>1, <1>2, <1>3, <1>4, <1>5, <1>6, <1>7, <1>8, <1>9, <1>10, <1>11, <1>12, <1>13, <1>14 DEF
       Next

(* What a closed bracket says of its rung.                                 *)
LEMMA ClosedTrue ==
    ASSUME MachineOK, SearchOK, BracketInv, Monotone, BracketTrue, pc = "neighbours", Closed
    PROVE  /\ Boundary.moe = rung.moe /\ rung.moe \in 0..NLayer /\ rung.cap \in 0..HardCap
           /\ HardCap \in 0..NglAll
           /\ HasFit(Boundary) =>
                 /\ rung.low # None /\ Boundary.max_ok = rung.low /\ rung.low \in 0..rung.cap
                 /\ Fits(At(rung.moe, rung.low)) \/ (rung.moe = 0 /\ ~ConsistentBaseline)
                 /\ \/ rung.low = rung.cap
                    \/ \A g \in 0..HardCap : Fits(At(rung.moe, g)) => g <= rung.low
           /\ ~HasFit(Boundary) => \A g \in 0..HardCap : ~Fits(At(rung.moe, g))
<1>1. /\ rung.moe \in 0..NLayer /\ rung.cap \in 0..NglAll /\ rung.low \in 0..NglAll \cup {None}
      /\ rung.failed \in 0..NglAll \cup {None} /\ HardCap \in 0..NglAll /\ NglAll \in Nat
      /\ None \notin Int
  BY MachineFacts, SizesAssumption DEF SearchOK, RungType, Layers
<1>2. rung.cap \in 0..HardCap /\ Boundary.moe = rung.moe
  BY <1>1 DEF BracketInv, InRung, Boundary
<1>3. ASSUME NEW f \in 0..HardCap, ~Fits(At(rung.moe, f)), NEW g \in 0..HardCap, f <= g
      PROVE  ~Fits(At(rung.moe, g))
  <2>1. g \in 0..NglAll /\ f \in 0..g
    BY <1>1, <1>3
  <2>2. QED
    BY <1>1, <1>3, <2>1, FitsBelow
<1>4. CASE rung.low = None
  <2>1. rung.failed = 0
    BY <1>4 DEF BracketInv
  <2>2. ~Fits(At(rung.moe, 0))
    BY <1>1, <2>1 DEF BracketTrue, InRung
  <2>3. \A g \in 0..HardCap : ~Fits(At(rung.moe, g))
    BY <1>1, <1>3, <2>2
  <2>4. ~HasFit(Boundary)
    BY <1>4, <2>1 DEF HasFit, Boundary
  <2>5. QED
    BY <1>1, <1>2, <2>3, <2>4
<1>5. CASE rung.low # None
  <2>1. rung.low \in 0..rung.cap /\ (rung.failed # None => rung.failed \in (rung.low + 1)..rung.cap)
    BY <1>1, <1>5 DEF BracketInv
  <2>2. HasFit(Boundary) /\ Boundary.max_ok = rung.low
    BY <1>1, <1>5, <2>1 DEF HasFit, Boundary
  <2>3. Fits(At(rung.moe, rung.low)) \/ (rung.moe = 0 /\ ~ConsistentBaseline)
    BY <1>5 DEF BracketTrue, InRung
  <2>4. ASSUME rung.low # rung.cap, NEW g \in 0..HardCap, Fits(At(rung.moe, g))
        PROVE  g <= rung.low
    <3>1. rung.failed = rung.low + 1 /\ rung.failed # None
      BY <1>1, <1>5, <2>1, <2>4 DEF Closed
    <3>2. ~Fits(At(rung.moe, rung.failed)) /\ rung.failed \in 0..HardCap
      BY <1>1, <1>2, <2>1, <3>1 DEF BracketTrue, InRung
    <3>3. ~(rung.failed <= g)
      BY <1>3, <2>4, <3>2
    <3>4. QED
      BY <1>1, <2>1, <3>1, <3>3
  <2>5. QED
    BY <1>1, <1>2, <1>5, <2>1, <2>2, <2>3, <2>4
<1>6. QED
  BY <1>4, <1>5

(* What is found stays true, or capped and explained: the warm start after *)
(* a hinted rung may hide placements, but none that matters to the spill.  *)
LEMMA FoundKept ==
    ASSUME MachineOK, JournalOK, SearchOK, BracketInv, TightInv, OrderInv,
           Monotone, BracketTrue, FoundTrue, Next
    PROVE  FoundTrue'
<1>a. UNCHANGED <<answers, options>> /\ HardCap' = HardCap
  BY SameMachine DEF machine, HardCap
<1>b. ASSUME ~InRung', pc' # "ladder"
      PROVE  FoundTrue'
  BY <1>b DEF FoundTrue
<1>c. ASSUME UNCHANGED <<found, rungs>>
      PROVE  /\ \A m : Short(m)' <=> Short(m)
             /\ \A n : NothingAbove(n)' <=> NothingAbove(n)
             /\ CapExplained' <=> CapExplained
             /\ \A b : Full(b)' <=> Full(b)
             /\ \A b : Partial(b)' <=> Partial(b)
  BY <1>a, <1>c DEF Short, Fits, NothingAbove, CapExplained, Full, Partial
<1>1. CASE EnterRung
  <2>1. pc = "ladder" /\ pc' # "ladder" /\ UNCHANGED <<found, rungs>>
        /\ rung'.cap = IF warm = None THEN HardCap ELSE Lesser(HardCap, warm)
    BY <1>1, EnterIs DEF EnterRung
  <2>2. Lesser(HardCap, HardCap) = HardCap
    BY DEF Lesser
  <2>3. rung'.cap = HardCap \/ CapExplained
    BY <2>1, <2>2 DEF FoundTrue
  <2>4. /\ \A b \in found : Full(b) => b.moe = 0 \/ ~Short(b.moe)
        /\ \A b \in found : Partial(b) => Short(b.moe) \/ NothingAbove(b.moe)
    BY <2>1 DEF FoundTrue
  <2>5. QED
    BY <1>a, <1>c, <2>1, <2>3, <2>4 DEF FoundTrue
<1>2. CASE AskBoundary
  <2>1. InRung /\ UNCHANGED <<found, rungs>> /\ pc' # "ladder" /\ rung'.cap = rung.cap
    BY <1>2, AskIs DEF AskBoundary, Asking, InRung
  <2>2. /\ \A b \in found : Full(b) => b.moe = 0 \/ ~Short(b.moe)
        /\ \A b \in found : Partial(b) => Short(b.moe) \/ NothingAbove(b.moe)
        /\ rung.cap = HardCap \/ CapExplained
    BY <2>1 DEF FoundTrue
  <2>3. QED
    BY <1>a, <1>c, <2>1, <2>2 DEF FoundTrue
<1>3. CASE CloseBracket
  <2>1. InRung /\ UNCHANGED <<found, rungs>> /\ pc' # "ladder" /\ rung'.cap = rung.cap
    BY <1>3 DEF CloseBracket, InRung
  <2>2. /\ \A b \in found : Full(b) => b.moe = 0 \/ ~Short(b.moe)
        /\ \A b \in found : Partial(b) => Short(b.moe) \/ NothingAbove(b.moe)
        /\ rung.cap = HardCap \/ CapExplained
    BY <2>1 DEF FoundTrue
  <2>3. QED
    BY <1>a, <1>c, <2>1, <2>2 DEF FoundTrue
<1>4. CASE MeasureNeighbour
  <2>1. InRung /\ UNCHANGED <<found, rungs>> /\ pc' # "ladder" /\ rung'.cap = rung.cap
    BY <1>4 DEF MeasureNeighbour, InRung
  <2>2. /\ \A b \in found : Full(b) => b.moe = 0 \/ ~Short(b.moe)
        /\ \A b \in found : Partial(b) => Short(b.moe) \/ NothingAbove(b.moe)
        /\ rung.cap = HardCap \/ CapExplained
    BY <2>1 DEF FoundTrue
  <2>3. QED
    BY <1>a, <1>c, <2>1, <2>2 DEF FoundTrue
<1>5. CASE LeaveRung
  <2> DEFINE b == Boundary
  <2>1. /\ pc = "neighbours" /\ InRung /\ pc' = "ladder" /\ ~InRung'
        /\ found' = found \cup {b} /\ rungs' = rungs \ {rung.moe}
        /\ warm' = IF HasFit(b) THEN b.max_ok ELSE None
    BY <1>5 DEF LeaveRung, InRung
  <2>2. /\ b.moe = rung.moe /\ rung.moe \in 0..NLayer /\ rung.cap \in 0..HardCap
        /\ HardCap \in 0..NglAll
        /\ HasFit(b) =>
              /\ b.max_ok = rung.low /\ rung.low \in 0..rung.cap
              /\ Fits(At(rung.moe, rung.low)) \/ rung.moe = 0
              /\ rung.low = rung.cap \/ \A g \in 0..HardCap : Fits(At(rung.moe, g)) => g <= rung.low
    BY <2>1, ClosedTrue DEF TightInv
  <2>3. /\ \A f \in found : Full(f) => f.moe = 0 \/ ~Short(f.moe)
        /\ \A f \in found : Partial(f) => Short(f.moe) \/ NothingAbove(f.moe)
        /\ rung.cap = HardCap \/ CapExplained
    BY <2>1 DEF FoundTrue
  <2>4. /\ rung.moe \in rungs
        /\ (\E m \in rungs : m > rung.moe) => rung.cap = HardCap /\ found = {}
    BY <2>1 DEF OrderInv
  <2>5. \A m \in rungs : m \in 0..NLayer
    BY DEF SearchOK
  <2> HIDE DEF b
  <2>6. Full(b) => b.moe = 0 \/ ~Short(b.moe)
    BY <2>2 DEF Full, Short
  <2>7. Partial(b) => Short(b.moe) \/ (rung.cap # HardCap /\ ~Short(b.moe))
    <3>1. ASSUME HasFit(b), b.max_ok < HardCap, rung.cap = HardCap, Fits(At(rung.moe, HardCap))
          PROVE  FALSE
      <4>1. rung.low # rung.cap /\ HardCap \in 0..HardCap /\ ~(HardCap <= rung.low)
        BY <2>2, <3>1
      <4>2. QED
        BY <2>2, <3>1, <4>1
    <3>2. QED
      BY <2>2, <3>1 DEF Partial, Short
  <2>8. ~(Full(b) /\ Partial(b))
    BY <2>2 DEF Full, Partial
  <2>9. rung.cap # HardCap => \A m \in rungs : m <= rung.moe
    BY <2>2, <2>4, <2>5
  <2>10. ASSUME Partial(b), ~Short(b.moe)
         PROVE  (\A f \in found : ~Full(f)) /\ \A m \in rungs : m <= b.moe
    <3>1. rung.cap # HardCap
      BY <2>7, <2>10
    <3>2. CapExplained /\ ~\A m \in rungs : Short(m)
      BY <2>2, <2>3, <2>4, <2>10, <3>1
    <3>3. QED
      BY <2>2, <2>9, <3>1, <3>2 DEF CapExplained
  <2>11. ASSUME Partial(b), Short(b.moe)
         PROVE  (\A f \in found : ~Full(f)) \/ \A m \in rungs : Short(m)
    <3>1. CASE \E m \in rungs : m > rung.moe
      BY <2>4, <3>1
    <3>2. CASE ~\E m \in rungs : m > rung.moe
      <4>1. ASSUME NEW m \in rungs
            PROVE  Short(m)
        <5>1. m \in 0..rung.moe
          BY <2>2, <2>5, <3>2
        <5>2. ~Fits(At(rung.moe, HardCap))
          BY <2>2, <2>11 DEF Short
        <5>3. QED
          BY <2>2, <5>1, <5>2, FitsAbove DEF Short
      <4>2. QED
        BY <4>1
    <3>3. QED
      BY <3>1, <3>2
  <2>12. \A f \in found' : Full(f) => f.moe = 0 \/ ~Short(f.moe)
    BY <2>1, <2>3, <2>6
  <2>13. \A f \in found' : Partial(f) => \/ Short(f.moe)
                                       \/ /\ \A h \in found' : Full(h) => h.moe <= f.moe
                                          /\ \A m \in rungs' : m <= f.moe
    <3>1. ASSUME NEW f \in found, Partial(f), ~Short(f.moe)
          PROVE  /\ \A h \in found' : Full(h) => h.moe <= f.moe
                 /\ \A m \in rungs' : m <= f.moe
      <4>1. NothingAbove(f.moe)
        BY <2>3, <3>1
      <4>2. QED
        BY <2>1, <2>2, <2>4, <4>1 DEF NothingAbove
    <3>2. ASSUME Partial(b), ~Short(b.moe)
          PROVE  /\ \A h \in found' : Full(h) => h.moe <= b.moe
                 /\ \A m \in rungs' : m <= b.moe
      BY <2>1, <2>8, <2>10, <3>2
    <3>3. QED
      BY <2>1, <3>1, <3>2
  <2>14. ASSUME warm' # None, warm' # HardCap
         PROVE  (\A m \in rungs' : Short(m)) \/ \A f \in found' : ~Full(f)
    <3>1. Partial(b)
      BY <2>1, <2>2, <2>14 DEF Partial
    <3>2. (\A f \in found : ~Full(f)) \/ \A m \in rungs : Short(m)
      BY <2>10, <2>11, <3>1
    <3>3. QED
      BY <2>1, <2>8, <3>1, <3>2
  <2>15. /\ \A m : Short(m)' <=> Short(m)
         /\ \A f : Full(f)' <=> Full(f)
         /\ \A f : Partial(f)' <=> Partial(f)
    BY <1>a DEF Short, Fits, Full, Partial
  <2>16. \A f \in found' : Full(f)' => f.moe = 0 \/ ~Short(f.moe)'
    BY <2>12, <2>15
  <2>17. \A f \in found' : Partial(f)' => Short(f.moe)' \/ NothingAbove(f.moe)'
    BY <2>13, <2>15 DEF NothingAbove
  <2>18. warm' # None => warm' = HardCap \/ CapExplained'
    BY <2>14, <2>15 DEF CapExplained
  <2>19. QED
    BY <1>a, <2>1, <2>16, <2>17, <2>18 DEF FoundTrue
<1>6. CASE SkipSpill
  <2>1. ~InRung' /\ pc' # "ladder"
    BY <1>6 DEF SkipSpill, InRung, vars, search, SpillOpen
  <2>2. QED
    BY <1>b, <2>1
<1>7. CASE StartSpill
  <2>1. ~InRung' /\ pc' # "ladder"
    BY <1>7 DEF StartSpill, InRung, vars, search, SpillOpen
  <2>2. QED
    BY <1>b, <2>1
<1>8. CASE AskSpill
  <2>1. ~InRung' /\ pc' # "ladder"
    BY <1>8 DEF AskSpill, InRung, vars, search, SpillOpen
  <2>2. QED
    BY <1>b, <2>1
<1>9. CASE CloseSpill
  <2>1. ~InRung' /\ pc' # "ladder"
    BY <1>9 DEF CloseSpill, InRung, vars, search, SpillOpen
  <2>2. QED
    BY <1>b, <2>1
<1>10. CASE MeasureFrontier
  <2>1. ~InRung' /\ pc' # "ladder"
    BY <1>10 DEF MeasureFrontier, InRung, vars, search, SpillOpen
  <2>2. QED
    BY <1>b, <2>1
<1>11. CASE ExhaustBudget
  <2>1. ~InRung' /\ pc' # "ladder"
    BY <1>11 DEF ExhaustBudget, InRung, vars, search, SpillOpen
  <2>2. QED
    BY <1>b, <2>1
<1>12. CASE Crash
  <2>1. ~InRung' /\ pc' # "ladder"
    BY <1>12 DEF Crash, InRung, vars, search, SpillOpen
  <2>2. QED
    BY <1>b, <2>1
<1>13. CASE Resume
  <2>1. pc' = "ladder" /\ warm' = None /\ found' = {}
    BY <1>13 DEF Resume
  <2>2. QED
    BY <2>1 DEF FoundTrue, InRung
<1>14. CASE Finished
  <2>1. ~InRung' /\ pc' # "ladder"
    BY <1>14 DEF Finished, InRung, vars, search, SpillOpen
  <2>2. QED
    BY <1>b, <2>1
<1>15. QED
  BY <1>1, <1>2, <1>3, <1>4, <1>5, <1>6, <1>7, <1>8, <1>9, <1>10, <1>11, <1>12, <1>13, <1>14 DEF
       Next

(* Between the ends of the spill bisection lies the smallest spill.        *)
LEMMA SpillKept ==
    ASSUME MachineOK, JournalOK, SearchOK, Monotone, AnswersTrue, FoundTrue, SpillTrue, Next
    PROVE  SpillTrue'
<1>a. UNCHANGED <<answers, options, machine>> /\ HardCap' = HardCap
  BY SameMachine DEF machine, HardCap
<1>b. ASSUME ~Spilling'
      PROVE  SpillTrue'
  BY <1>b DEF SpillTrue
<1>1. CASE EnterRung
  <2>1. ~Spilling'
    BY <1>1 DEF EnterRung, Spilling, vars, search
  <2>2. QED
    BY <1>b, <2>1
<1>2. CASE AskBoundary
  <2>1. ~Spilling'
    BY <1>2 DEF AskBoundary, Spilling, vars, search
  <2>2. QED
    BY <1>b, <2>1
<1>3. CASE CloseBracket
  <2>1. ~Spilling'
    BY <1>3 DEF CloseBracket, Spilling, vars, search
  <2>2. QED
    BY <1>b, <2>1
<1>4. CASE MeasureNeighbour
  <2>1. ~Spilling'
    BY <1>4 DEF MeasureNeighbour, Spilling, vars, search
  <2>2. QED
    BY <1>b, <2>1
<1>5. CASE LeaveRung
  <2>1. ~Spilling'
    BY <1>5 DEF LeaveRung, Spilling, vars, search
  <2>2. QED
    BY <1>b, <2>1
<1>6. CASE SkipSpill
  <2>1. ~Spilling'
    BY <1>6 DEF SkipSpill, Spilling, vars, search
  <2>2. QED
    BY <1>b, <2>1
<1>7. CASE StartSpill
  <2>1. /\ pc = "ladder" /\ SpillWanted /\ spill'.high = SmallestFull
        /\ spill'.low = CHOOSE m \in PartialBelow : \A n \in PartialBelow : n <= m
    BY <1>7 DEF StartSpill, LadderDone
  <2>2. SmallestFull \in FullRungs /\ spill'.low \in PartialBelow
        /\ FullRungs \subseteq 0..NLayer /\ PartialBelow \subseteq 0..NLayer
    BY <2>1, SpillBounds
  <2>3. PICK f \in found : f.moe = SmallestFull /\ Full(f)
    BY <2>2 DEF FullRungs, Full
  <2>4. PICK b \in found : b.moe = spill'.low /\ Partial(b) /\ b.moe < SmallestFull
    BY <2>2 DEF PartialBelow, Partial
  <2>5. b.moe \in Nat /\ f.moe \in Nat /\ ~(f.moe <= b.moe) /\ f.moe # 0
    <3>1. b.moe \in 0..NLayer /\ f.moe \in 0..NLayer /\ b.moe < f.moe
      BY <2>2, <2>3, <2>4
    <3>2. QED
      BY <3>1
  <2>6. ~Short(f.moe) /\ Short(b.moe)
    BY <2>1, <2>3, <2>4, <2>5 DEF FoundTrue, NothingAbove
  <2>7. QED
    BY <1>a, <2>1, <2>3, <2>4, <2>6 DEF SpillTrue, Short, Fits
<1>8. CASE AskSpill
  <2>1. At(MidSpill, HardCap) \in Config /\ At(MidSpill, HardCap).ngl = HardCap /\ Spilling
    BY <1>8, SpillConfig DEF AskSpill, SpillOpen, Spilling
  <2>2. PICK status \in ProbeAnswers :
           /\ Probe(At(MidSpill, HardCap), status)
           /\ spill' = IF status = "ok" THEN [spill EXCEPT !.high = MidSpill]
                                        ELSE [spill EXCEPT !.low = MidSpill]
    BY <1>8 DEF AskSpill
  <2>3. At(MidSpill, HardCap).ngl <= HardCap
    BY <2>1, MachineFacts
  <2>4. status = "ok" <=> Fits(At(MidSpill, HardCap))
    BY <1>a, <2>1, <2>2, <2>3, ProbeTruth
  <2>5. Fits(At(spill.high, HardCap)) /\ Short(spill.low)
    BY <2>1 DEF SpillTrue
  <2>6. spill \in [low : 0..NLayer, high : 0..NLayer]
    BY DEF SearchOK
  <2>7. Fits(At(spill'.high, HardCap)) /\ Short(spill'.low)
    BY <2>2, <2>4, <2>5, <2>6 DEF Short
  <2>8. QED
    BY <1>a, <2>7 DEF SpillTrue, Short, Fits
<1>9. CASE CloseSpill
  <2>1. spill' = spill /\ Spilling
    BY <1>9 DEF CloseSpill, Spilling
  <2>2. QED
    BY <1>a, <2>1 DEF SpillTrue, Short, Fits
<1>10. CASE MeasureFrontier
  <2>1. ~Spilling'
    BY <1>10 DEF MeasureFrontier, Spilling, vars, search
  <2>2. QED
    BY <1>b, <2>1
<1>11. CASE ExhaustBudget
  <2>1. ~Spilling'
    BY <1>11 DEF ExhaustBudget, Spilling, vars, search
  <2>2. QED
    BY <1>b, <2>1
<1>12. CASE Crash
  <2>1. ~Spilling'
    BY <1>12 DEF Crash, Spilling, vars, search
  <2>2. QED
    BY <1>b, <2>1
<1>13. CASE Resume
  <2>1. ~Spilling'
    BY <1>13 DEF Resume, Spilling, vars, search
  <2>2. QED
    BY <1>b, <2>1
<1>14. CASE Finished
  <2>1. ~Spilling'
    BY <1>14 DEF Finished, Spilling, vars, search
  <2>2. QED
    BY <1>b, <2>1
<1>15. QED
  BY <1>1, <1>2, <1>3, <1>4, <1>5, <1>6, <1>7, <1>8, <1>9, <1>10, <1>11, <1>12, <1>13, <1>14 DEF
       Next

(* Down the ladder, every boundary that is recorded is the true one.       *)
LEMMA MaximalKept ==
    ASSUME MachineOK, JournalOK, SearchOK, BracketInv, TightInv, OrderInv,
           Monotone, BracketTrue, SpillTrue, MaximalInv, Next
    PROVE  MaximalInv'
<1>a. UNCHANGED <<answers, options>> /\ HardCap' = HardCap
  BY SameMachine DEF machine, HardCap
<1>b. Descending' <=> Descending
  BY <1>a DEF Descending, ConsistentBaseline, Fits
<1>c. /\ \A m, n : AtMost(m, n)' <=> AtMost(m, n)
      /\ \A b : Exact(b)' <=> Exact(b)
  BY <1>a DEF AtMost, Exact, Fits
<1>d. SUFFICES ASSUME Descending
               PROVE  /\ pc' = "ladder" /\ warm' # None => \A m \in rungs' : AtMost(m, warm')
                      /\ InRung' => AtMost(rung'.moe, rung'.cap)
                      /\ \A b \in recorded' : Exact(b)
  <2>1. ASSUME /\ pc' = "ladder" /\ warm' # None => \A m \in rungs' : AtMost(m, warm')
               /\ InRung' => AtMost(rung'.moe, rung'.cap)
               /\ \A b \in recorded' : Exact(b)
        PROVE  /\ pc' = "ladder" /\ warm' # None => \A m \in rungs' : AtMost(m, warm)'
               /\ InRung' => AtMost(rung.moe, rung.cap)'
               /\ \A b \in recorded' : Exact(b)'
    BY <1>a, <2>1 DEF AtMost, Exact, Fits
  <2>2. QED
    BY <1>b, <2>1 DEF MaximalInv
<1>e. /\ pc = "ladder" /\ warm # None => \A m \in rungs : AtMost(m, warm)
      /\ InRung => AtMost(rung.moe, rung.cap)
      /\ \A b \in recorded : Exact(b)
  BY <1>d DEF MaximalInv
<1>f. NglAll \in Nat /\ NLayer \in Nat
  BY SizesAssumption
<1>g. ASSUME ~InRung', pc' # "ladder", recorded' = recorded
      PROVE  /\ pc' = "ladder" /\ warm' # None => \A m \in rungs' : AtMost(m, warm')
             /\ InRung' => AtMost(rung'.moe, rung'.cap)
             /\ \A b \in recorded' : Exact(b)
  BY <1>e, <1>g
<1>1. CASE EnterRung
  <2>1. /\ pc = "ladder" /\ pc' # "ladder" /\ recorded' = recorded /\ rungs # {}
        /\ rung'.moe = NextRung
        /\ rung'.cap = IF warm = None THEN HardCap ELSE Lesser(HardCap, warm)
    <3>1. pc = "ladder" /\ pc' # "ladder" /\ recorded' = recorded /\ rungs # {}
      BY <1>1 DEF EnterRung, journal
    <3>2. QED
      BY <1>1, <3>1, EnterIs
  <2>2. NextRung \in rungs
    BY <2>1, NextRungIs
  <2>3. ASSUME NEW g \in 0..HardCap, Fits(At(NextRung, g))
        PROVE  g <= rung'.cap
    <3>1. warm # None => g <= warm
      BY <1>e, <2>1, <2>2, <2>3 DEF AtMost
    <3>2. warm \in 0..NglAll \cup {None} /\ HardCap \in 0..NglAll /\ NglAll \in Nat
      BY MachineFacts, SizesAssumption DEF SearchOK, Layers
    <3>3. CASE warm = None
      BY <2>1, <3>2, <3>3
    <3>4. CASE warm # None
      <4>1. rung'.cap = HardCap \/ rung'.cap = warm
        BY <2>1, <3>4 DEF Lesser
      <4>2. g <= HardCap /\ g <= warm
        BY <3>1, <3>2, <3>4
      <4>3. QED
        BY <4>1, <4>2
    <3>5. QED
      BY <3>3, <3>4
  <2>4. AtMost(rung'.moe, rung'.cap)
    BY <2>1, <2>3 DEF AtMost
  <2>5. QED
    BY <1>e, <2>1, <2>4
<1>2. CASE AskBoundary
  <2>1. InRung /\ pc' # "ladder" /\ rung'.cap = rung.cap /\ rung'.moe = rung.moe
    BY <1>2, AskIs DEF AskBoundary, Asking, InRung
  <2>2. recorded' = recorded
    BY <1>2 DEF AskBoundary, Probe, journal
  <2>3. QED
    BY <1>e, <2>1, <2>2
<1>3. CASE CloseBracket
  <2>1. InRung /\ pc' # "ladder" /\ rung' = rung
    BY <1>3 DEF CloseBracket, InRung
  <2>2. recorded' = recorded
    BY <1>3 DEF CloseBracket, Evaluate, journal
  <2>3. QED
    BY <1>e, <2>1, <2>2
<1>4. CASE MeasureNeighbour
  <2>1. InRung /\ pc' # "ladder" /\ rung' = rung
    BY <1>4 DEF MeasureNeighbour, InRung
  <2>2. recorded' = recorded
    BY <1>4 DEF MeasureNeighbour, Evaluate, journal
  <2>3. QED
    BY <1>e, <2>1, <2>2
<1>5. CASE LeaveRung
  <2> DEFINE b == Boundary
  <2>1. /\ pc = "neighbours" /\ InRung /\ pc' = "ladder" /\ ~InRung'
        /\ recorded' = recorded \cup {b} /\ rungs' = rungs \ {rung.moe}
        /\ warm' = IF HasFit(b) THEN b.max_ok ELSE None
    BY <1>5 DEF LeaveRung, InRung
  <2>2. ConsistentBaseline
    BY <1>d DEF Descending
  <2>3. /\ b.moe = rung.moe /\ rung.moe \in 0..NLayer /\ rung.cap \in 0..HardCap
        /\ HardCap \in 0..NglAll
        /\ HasFit(b) =>
              /\ b.max_ok = rung.low /\ rung.low \in 0..rung.cap
              /\ Fits(At(rung.moe, rung.low))
              /\ rung.low = rung.cap \/ \A g \in 0..HardCap : Fits(At(rung.moe, g)) => g <= rung.low
        /\ ~HasFit(b) => \A g \in 0..HardCap : ~Fits(At(rung.moe, g))
    BY <2>1, <2>2, ClosedTrue DEF TightInv
  <2>4. AtMost(rung.moe, rung.cap)
    BY <1>e, <2>1
  <2> HIDE DEF b
  <2>5. HasFit(b) => \A g \in 0..HardCap : Fits(At(rung.moe, g)) => g <= b.max_ok
    BY <2>3, <2>4 DEF AtMost
  <2>6. ASSUME HasFit(b), NEW g \in 0..HardCap, g <= b.max_ok
        PROVE  Fits(At(rung.moe, g))
    <3>1. rung.low \in 0..NglAll /\ g \in 0..rung.low
      <4>1. rung.low \in 0..rung.cap /\ rung.cap \in 0..HardCap /\ HardCap \in 0..NglAll
            /\ g <= rung.low
        BY <2>3, <2>6
      <4>2. QED
        BY <1>f, <4>1
    <3>2. QED
      BY <2>3, <2>6, <3>1, FitsBelow
  <2>7. Exact(b)
    BY <2>3, <2>5, <2>6 DEF Exact
  <2>8. \A m \in rungs : m \in 0..NLayer /\ ~(m > rung.moe)
    <3>1. options.initial_moe = None /\ None \notin Int
      BY <1>d, SizesAssumption DEF Descending
    <3>2. (\E m \in rungs : m > rung.moe) => rung.moe = options.initial_moe
      BY <2>1 DEF OrderInv
    <3>3. QED
      BY <2>3, <3>1, <3>2 DEF SearchOK
  <2>9. ASSUME HasFit(b), NEW m \in rungs
        PROVE  AtMost(m, b.max_ok)
    <3>1. ASSUME NEW g \in 0..HardCap, Fits(At(m, g))
          PROVE  g <= b.max_ok
      <4>1. m \in 0..rung.moe /\ g \in 0..NglAll
        <5>1. m \in 0..NLayer /\ rung.moe \in 0..NLayer /\ ~(m > rung.moe) /\ HardCap \in 0..NglAll
          BY <2>3, <2>8
        <5>2. QED
          BY <1>f, <5>1
      <4>2. Fits(At(rung.moe, g))
        BY <2>3, <3>1, <4>1, FitsAbove
      <4>3. QED
        BY <2>5, <2>9, <4>2
    <3>2. QED
      BY <3>1 DEF AtMost
  <2>10. warm' # None => HasFit(b) /\ warm' = b.max_ok
    BY <2>1
  <2>11. QED
    BY <1>e, <2>1, <2>7, <2>9, <2>10
<1>6. CASE SkipSpill
  <2>1. ~InRung' /\ pc' # "ladder"
    BY <1>6 DEF SkipSpill, InRung, vars, search, SpillOpen
  <2>2. recorded' = recorded
    BY <1>6 DEF SkipSpill, journal, vars, Probe, Evaluate
  <2>3. QED
    BY <1>g, <2>1, <2>2
<1>7. CASE StartSpill
  <2>1. ~InRung' /\ pc' # "ladder"
    BY <1>7 DEF StartSpill, InRung, vars, search, SpillOpen
  <2>2. recorded' = recorded
    BY <1>7 DEF StartSpill, journal, vars, Probe, Evaluate
  <2>3. QED
    BY <1>g, <2>1, <2>2
<1>8. CASE AskSpill
  <2>1. ~InRung' /\ pc' # "ladder"
    BY <1>8 DEF AskSpill, InRung, vars, search, SpillOpen
  <2>2. recorded' = recorded
    BY <1>8 DEF AskSpill, journal, vars, Probe, Evaluate
  <2>3. QED
    BY <1>g, <2>1, <2>2
<1>9. CASE CloseSpill
  <2>1. ~InRung' /\ pc' # "ladder" /\ Spilling
        /\ (recorded' = recorded \/ recorded' = recorded \cup {SpillBoundary})
    BY <1>9 DEF CloseSpill, InRung, Spilling
  <2>2. /\ SpillBoundary.moe = spill.high /\ spill.high \in 0..NLayer
             /\ SpillBoundary.max_ok = HardCap
        /\ HasFit(SpillBoundary) /\ HardCap \in 0..NglAll
    BY SizesAssumption, MachineFacts DEF SpillBoundary, HasFit, SearchOK
  <2>3. Fits(At(spill.high, HardCap))
    BY <2>1 DEF SpillTrue
  <2>4. \A g \in 0..HardCap : Fits(At(spill.high, g)) /\ g <= HardCap
    BY <2>2, <2>3, FitsBelow
  <2>5. Exact(SpillBoundary)
    BY <2>2, <2>4 DEF Exact
  <2>6. QED
    BY <1>e, <2>1, <2>5
<1>10. CASE MeasureFrontier
  <2>1. ~InRung' /\ pc' # "ladder"
    BY <1>10 DEF MeasureFrontier, InRung, vars, search, SpillOpen
  <2>2. recorded' = recorded
    BY <1>10 DEF MeasureFrontier, journal, vars, Probe, Evaluate
  <2>3. QED
    BY <1>g, <2>1, <2>2
<1>11. CASE ExhaustBudget
  <2>1. ~InRung' /\ pc' # "ladder"
    BY <1>11 DEF ExhaustBudget, InRung, vars, search, SpillOpen
  <2>2. recorded' = recorded
    BY <1>11 DEF ExhaustBudget, journal, vars, Probe, Evaluate
  <2>3. QED
    BY <1>g, <2>1, <2>2
<1>12. CASE Crash
  <2>1. ~InRung' /\ pc' # "ladder"
    BY <1>12 DEF Crash, InRung, vars, search, SpillOpen
  <2>2. recorded' = recorded
    BY <1>12 DEF Crash, journal, vars, Probe, Evaluate
  <2>3. QED
    BY <1>g, <2>1, <2>2
<1>13. CASE Resume
  <2>1. ~InRung' /\ warm' = None /\ recorded' = recorded
    BY <1>13 DEF Resume, InRung, journal
  <2>2. QED
    BY <1>e, <2>1
<1>14. CASE Finished
  <2>1. ~InRung' /\ pc' # "ladder"
    BY <1>14 DEF Finished, InRung, vars, search, SpillOpen
  <2>2. recorded' = recorded
    BY <1>14 DEF Finished, journal, vars, Probe, Evaluate
  <2>3. QED
    BY <1>g, <2>1, <2>2
<1>15. QED
  BY <1>1, <1>2, <1>3, <1>4, <1>5, <1>6, <1>7, <1>8, <1>9, <1>10, <1>11, <1>12, <1>13, <1>14 DEF
       Next

(* All that a monotone machine makes true stays true.                      *)
LEMMA TruthKept ==
    ASSUME MachineOK, JournalOK, SearchOK, BracketInv, TightInv, OrderInv, TruthInv, Next
    PROVE  TruthInv'
<1>1. Monotone' <=> Monotone
  <2>1. answers' = answers
    BY SameMachine DEF machine
  <2>2. QED
    BY <2>1 DEF Monotone
<1>2. SUFFICES ASSUME Monotone
               PROVE  (AnswersTrue /\ BracketTrue /\ FoundTrue /\ SpillTrue /\ MaximalInv)'
  BY <1>1 DEF TruthInv
<1>3. AnswersTrue /\ BracketTrue /\ FoundTrue /\ SpillTrue /\ MaximalInv
  BY <1>2 DEF TruthInv
<1>4. QED
  BY <1>2, <1>3, AnswersKept, BracketTrueKept, FoundKept, SpillKept, MaximalKept

----------------------------------------------------------------------------
(* A fresh search satisfies the invariant.                                 *)
LEMMA InitInv == Init => Inv
<1> SUFFICES ASSUME Init
             PROVE  Inv
  OBVIOUS
<1>1. MachineOK /\ JournalOK /\ SearchOK
  BY InitTypes
<1>2. TypeOK
  BY <1>1, TypeParts
<1>3. /\ pc = "ladder" /\ warm = None /\ found = {} /\ recorded = {} /\ ooms = {}
      /\ DOMAIN probes = {} /\ DOMAIN known = {} /\ executed = 0 /\ children = 0 /\ crashes = 0
  BY DEF Init, Start
<1>4. CountInv
  <2>1. IsFiniteSet(DOMAIN probes) /\ IsFiniteSet(DOMAIN known) /\ Cardinality(DOMAIN known) = 0
    BY <1>3, FS_EmptySet
  <2>2. Ran = {}
    BY <1>3 DEF Ran
  <2>3. Cardinality(Ran) = 0
    BY <2>2, FS_EmptySet
  <2>4. JournaledExecutions = 0
    BY <2>1, <2>3, JournaledTypes
  <2>5. options.limit \in Nat
    BY <1>1, MachineFacts
  <2>6. QED
    BY <1>3, <2>1, <2>4, <2>5 DEF CountInv
<1>5. NeighboursInv /\ BracketInv /\ FuseInv /\ TightInv /\ OrderInv
  BY <1>3 DEF NeighboursInv, BracketInv, FuseInv, TightInv, OrderInv, InRung
<1>6. TruthInv
  BY <1>3 DEF TruthInv, AnswersTrue, BracketTrue, FoundTrue, SpillTrue, MaximalInv, InRung, Spilling
<1>7. QED
  BY <1>2, <1>4, <1>5, <1>6 DEF Inv

(* The inductive invariant holds in every state of a search, across        *)
(* crashes and resumes.                                                    *)
THEOREM Inductive == Spec => []Inv
<1>1. ASSUME Inv, Next
      PROVE  Inv'
  <2>1. MachineOK /\ JournalOK /\ SearchOK
    BY <1>1, TypeParts DEF Inv
  <2>2. NeighboursInv /\ CountInv /\ BracketInv /\ FuseInv /\ TightInv /\ OrderInv /\ TruthInv
    BY <1>1 DEF Inv
  <2>3. TypeOK'
    <3>1. (MachineOK /\ JournalOK /\ SearchOK)'
      BY <1>1, <2>1, <2>2, TypesKept
    <3>2. QED
      BY <3>1, TypeParts, PTL
  <2>4. NeighboursInv' /\ CountInv'
    BY <1>1, <2>1, <2>2, NeighboursKept, CountKept
  <2>5. BracketInv' /\ FuseInv' /\ TightInv' /\ OrderInv'
    BY <1>1, <2>1, <2>2, BracketKept, FuseKept, TightKept, OrderKept
  <2>6. TruthInv'
    BY <1>1, <2>1, <2>2, TruthKept
  <2>7. QED
    BY <2>3, <2>4, <2>5, <2>6 DEF Inv
<1>2. ASSUME Inv, UNCHANGED vars
      PROVE  Inv'
  <2>1. TypeOK' /\ NeighboursInv' /\ CountInv'
    BY <1>2 DEF Inv, vars, machine, journal, counters, search, TypeOK, NeighboursInv, Neighbours,
         CountInv, JournaledExecutions
  <2>2. BracketInv' /\ FuseInv' /\ TightInv' /\ OrderInv'
    BY <1>2 DEF Inv, vars, machine, journal, search, BracketInv, FuseInv, TightInv, Closed,
         OrderInv, InRung, HardCap
  <2>3. TruthInv'
    <3>1. /\ UNCHANGED <<options, answers, probes, known, recorded, ooms>>
          /\ UNCHANGED <<pc, rungs, rung, warm, found, spill>>
      BY <1>2 DEF vars, machine, journal, search
    <3>2. Monotone' => Monotone
      BY <3>1 DEF Monotone
    <3>3. AnswersTrue => AnswersTrue'
      BY <3>1 DEF AnswersTrue, Fits
    <3>4. BracketTrue => BracketTrue'
      BY <3>1 DEF BracketTrue, InRung, ConsistentBaseline, Fits
    <3>5. FoundTrue => FoundTrue'
      BY <3>1 DEF FoundTrue, InRung, Full, Partial, Short, NothingAbove, CapExplained, Fits,
           HardCap, HasFit
    <3>6. SpillTrue => SpillTrue'
      BY <3>1 DEF SpillTrue, Spilling, Short, Fits, HardCap
    <3>7. MaximalInv => MaximalInv'
      BY <3>1 DEF MaximalInv, InRung, Descending, ConsistentBaseline, AtMost, Exact, Fits, HardCap
    <3>8. QED
      BY <1>2, <3>2, <3>3, <3>4, <3>5, <3>6, <3>7 DEF Inv, TruthInv
  <2>4. QED
    BY <2>1, <2>2, <2>3 DEF Inv
<1>3. QED
  BY <1>1, <1>2, InitInv, PTL DEF Spec

(* Every variable has its type in every state of a search.                 *)
THEOREM TypeCorrect == Spec => []TypeOK
<1>1. Inv => TypeOK
  BY DEF Inv
<1>2. QED
  BY <1>1, Inductive, PTL

(* Over all processes the children started stay within the limit, but for  *)
(* one per crash.                                                          *)
THEOREM BudgetIsKept == Spec => []BudgetHolds
<1>1. Inv => BudgetHolds
  <2> SUFFICES ASSUME Inv
               PROVE  BudgetHolds
    OBVIOUS
  <2>1. JournalOK /\ options.limit \in Nat
    BY TypeParts, MachineFacts DEF Inv
  <2>2. executed \in Nat /\ children \in Nat /\ crashes \in Nat
    BY <2>1 DEF JournalOK
  <2>3. executed <= options.limit /\ children <= executed + crashes
    BY DEF Inv, CountInv
  <2>4. QED
    BY <2>1, <2>2, <2>3 DEF BudgetHolds
<1>2. QED
  BY <1>1, Inductive, PTL

(* Whatever is recorded as the boundary of a rung is final, so the probe   *)
(* fuse never cuts a rung short, and on a monotone machine without a       *)
(* hinted rung it is the largest placement that fits.                      *)
THEOREM BoundariesAreRight == Spec => []BoundariesAreTrue
<1>1. Inv => BoundariesAreTight
  BY DEF Inv, TightInv, Tight, BoundariesAreTight
<1>2. Inv => BoundariesAreMaximal
  BY DEF Inv, TruthInv, MaximalInv, Descending, Exact, BoundariesAreMaximal
<1>3. Inv => BoundariesAreTrue
  BY <1>1, <1>2 DEF BoundariesAreTrue
<1>4. QED
  BY <1>3, Inductive, PTL

(* On a monotone machine the spill bisection always has a spill that fits  *)
(* above one that does not, whatever rung was hinted.                      *)
THEOREM SpillIsSmallest == Spec => []SpillIsMinimal
<1>1. Inv => SpillIsMinimal
  BY DEF Inv, TruthInv, SpillTrue, Spilling, Short, Frontier, SpillIsMinimal
<1>2. QED
  BY <1>1, Inductive, PTL

----------------------------------------------------------------------------
(* Replay.  The ladder's search is deterministic in what the journal       *)
(* answers: a process stands at the end of the trace its journal spells    *)
(* out.  A journal only grows, so a trace stays one, and of two traces     *)
(* from the same start the shorter begins the longer.  That is why no      *)
(* variable needs to remember what the processes before a crash did.       *)

Laddering == pc = "ladder" \/ InRung

\* What a process holds while it climbs the ladder.
Stage(p, rs, r, td, w, f, i) ==
    [pc |-> p, rungs |-> rs, rung |-> r, todo |-> td, warm |-> w, found |-> f, incumbent |-> i]

Current == Stage(pc, rungs, rung, todo, warm, found, incumbent)

Fresh == Stage("ladder", Ladder, NoRung, {}, None, {}, [cfg |-> options.default, score |-> 1])

\* The model's operators, of the rung r, the options O and the trials K they read.
Highest(S) == CHOOSE m \in S : \A n \in S : n <= m

NextOf(S, O) == IF O.initial_moe \in S THEN O.initial_moe ELSE Highest(S)

Grows(r) == r.low # None /\ r.low < r.cap /\ r.failed = None /\ r.used < ProbeFuse

Bisects(r) ==
    /\ r.low # None /\ r.failed # None
    /\ r.failed - r.low > 1 /\ r.used < ProbeFuse

Asks(p, r) == p \in {"first", "zero"} \/ (p = "bracket" /\ (Grows(r) \/ Bisects(r)))

GuessOf(p, r, O) ==
    CASE p = "first" -> IF O.initial_ngl = None \/ O.initial_ngl > r.cap THEN Lesser(r.cap, 1)
                        ELSE O.initial_ngl
      [] p = "zero"  -> 0
      [] OTHER       -> IF Grows(r) THEN Lesser(r.cap, Greater(r.low + 1, 2 * r.low))
                        ELSE (r.low + r.failed) \div 2

NarrowedTo(r, g, status) ==
    IF status = "ok" THEN [r EXCEPT !.used = @ + 1, !.low = g]
                     ELSE [r EXCEPT !.used = @ + 1, !.failed = g]

NeighboursOf(r) == {Greater(0, r.low - d) : d \in 0..2}

CompliantOf(r, K) ==
    IF r.low = None THEN {}
    ELSE {c \in {At(r.moe, g) : g \in NeighboursOf(r)} : K[c].status = "ok"}

BestOf(C, K) ==
    CHOOSE c \in C :
        \A d \in C :
            \/ K[d].score < K[c].score
            \/ K[d].score = K[c].score /\ d.ngl <= c.ngl

BoundaryOf(r) ==
    [moe |-> r.moe, max_ok |-> IF r.low = None THEN 0 ELSE r.low,
     min_fail |-> r.failed, used |-> r.used, cap |-> r.cap]

\* The step each phase takes, once the journal holds what it asks.
Entered(s, O) ==
    LET m == NextOf(s.rungs, O)
        cap == IF s.warm = None THEN O.max_ngl ELSE Lesser(O.max_ngl, s.warm)
        measured == O.verified /\ At(m, s.incumbent.cfg.ngl) = O.default /\ O.default.ngl <= cap
        r == [moe |-> m, cap |-> cap, failed |-> None, used |-> 0,
              low |-> IF measured THEN O.default.ngl ELSE None]
    IN  Stage(IF measured THEN "bracket" ELSE "first", s.rungs, r, s.todo, s.warm, s.found,
              s.incumbent)

Answered(s, O, status) ==
    LET g == GuessOf(s.pc, s.rung, O)
    IN  Stage(IF s.pc = "first" /\ status # "ok" /\ g > 0 THEN "zero" ELSE "bracket", s.rungs,
              NarrowedTo(s.rung, g, status), s.todo, s.warm, s.found, s.incumbent)

ClosedOf(s) ==
    Stage("neighbours", s.rungs, s.rung, IF s.rung.low = None THEN {} ELSE NeighboursOf(s.rung),
          s.warm, s.found, s.incumbent)

Measured(s, c, trial) ==
    Stage(s.pc, s.rungs, s.rung, s.todo \ {c.ngl}, s.warm, s.found,
          IF trial.status = "ok" /\ trial.score > s.incumbent.score
          THEN [cfg |-> c, score |-> trial.score] ELSE s.incumbent)

Left(s, O, K) ==
    LET C == CompliantOf(s.rung, K)
        b == BoundaryOf(s.rung)
    IN  Stage("ladder", s.rungs \ {s.rung.moe}, s.rung, s.todo,
              IF HasFit(b) THEN b.max_ok ELSE None, s.found \cup {b},
              IF s.incumbent.cfg.ngl > O.max_ngl /\ C # {}
              THEN [cfg |-> BestOf(C, K), score |-> K[BestOf(C, K)].score] ELSE s.incumbent)

\* What a stage asks of the probes and of the trials.
Question(s, O) == At(s.rung.moe, GuessOf(s.pc, s.rung, O))
Neighbour(s) == At(s.rung.moe, Highest(s.todo))

After(s, O, P, K) ==
    CASE s.pc = "ladder" -> Entered(s, O)
      [] Asks(s.pc, s.rung) -> Answered(s, O, P[Question(s, O)])
      [] s.pc = "bracket" /\ ~Asks(s.pc, s.rung) -> ClosedOf(s)
      [] s.pc = "neighbours" /\ s.todo # {} -> Measured(s, Neighbour(s), K[Neighbour(s)])
      [] OTHER -> Left(s, O, K)

Answerable(s, O, P, K) ==
    /\ s.pc \in {"ladder", "first", "zero", "bracket", "neighbours"}
    /\ Asks(s.pc, s.rung) => Question(s, O) \in DOMAIN P
    /\ s.pc = "neighbours" /\ s.todo # {} => Neighbour(s) \in DOMAIN K
    /\ s.pc = "neighbours" /\ s.todo = {} /\ s.rung.low # None =>
          \A g \in NeighboursOf(s.rung) : At(s.rung.moe, g) \in DOMAIN K
    /\ s.pc = "neighbours" /\ s.todo = {} /\ CompliantOf(s.rung, K) # {} =>
          BestOf(CompliantOf(s.rung, K), K) \in DOMAIN K

\* No rung has two boundaries.
Distinct(F) == \A a, b \in F : a.moe = b.moe => a = b

Trace(T, n, start, O, P, K) ==
    /\ T[0] = start
    /\ \A k \in Nat : k < n => Answerable(T[k], O, P, K) /\ T[k + 1] = After(T[k], O, P, K)
    /\ \A k \in Nat : k <= n => Distinct(T[k].found)
    /\ \A j, k \in Nat : j <= k /\ k <= n => T[j].found \subseteq T[k].found

\* A process that climbs the ladder is where its journal leads.
ReplayInv ==
    Laddering =>
        \E n \in Nat : \E T : Trace(T, n, Fresh, options, probes, known) /\ T[n] = Current

\* Every rung is still to visit or has its one boundary.
CoveredInv ==
    /\ pc # "down" =>
          /\ rungs \subseteq Ladder
          /\ \A b \in found : b.moe \notin rungs
          /\ \A m \in Ladder : m \in rungs \/ \E b \in found : b.moe = m
    /\ Laddering => Distinct(found)
    /\ pc = "spill" => rungs = {}

\* A record of the ladder lies on a trace; another is the frontier's.
Replayable(b) ==
    /\ b.moe \in Ladder
    /\ \E n \in Nat : \E T : Trace(T, n, Fresh, options, probes, known) /\ b \in T[n].found

OfFrontier(b) ==
    /\ b.moe \notin Ladder
    /\ b = [moe |-> b.moe, max_ok |-> HardCap, min_fail |-> None, used |-> 0, cap |-> HardCap]

RecordsInv == \A b \in recorded : Replayable(b) \/ OfFrontier(b)

Extends(P, Q) == DOMAIN P \subseteq DOMAIN Q /\ \A c \in DOMAIN P : Q[c] = P[c]

(* The best of a set is the same in two journals that agree on it.         *)
LEMMA BestAgrees ==
    ASSUME NEW C, NEW K, NEW L, \A c \in C : K[c] = L[c]
    PROVE  BestOf(C, K) = BestOf(C, L)
<1>1. ASSUME NEW c \in C
      PROVE  (\A d \in C : \/ K[d].score < K[c].score
                           \/ K[d].score = K[c].score /\ d.ngl <= c.ngl)
                <=> (\A d \in C : \/ L[d].score < L[c].score
                                  \/ L[d].score = L[c].score /\ d.ngl <= c.ngl)
  OBVIOUS
<1>2. QED
  BY <1>1, SMT DEF BestOf

(* A longer journal gives the answers the shorter gave.                    *)
LEMMA StepStays ==
    ASSUME NEW s, NEW O, NEW P, NEW K, NEW Q, NEW L, Extends(P, Q), Extends(K, L),
           Answerable(s, O, P, K)
    PROVE  Answerable(s, O, Q, L) /\ After(s, O, Q, L) = After(s, O, P, K)
<1>1. s.pc = "neighbours" /\ s.todo = {} =>
        /\ CompliantOf(s.rung, K) = CompliantOf(s.rung, L)
        /\ \A c \in CompliantOf(s.rung, K) : K[c] = L[c]
        /\ BestOf(CompliantOf(s.rung, K), K) = BestOf(CompliantOf(s.rung, L), L)
  <2> SUFFICES ASSUME s.pc = "neighbours" /\ s.todo = {}
               PROVE  /\ CompliantOf(s.rung, K) = CompliantOf(s.rung, L)
                      /\ \A c \in CompliantOf(s.rung, K) : K[c] = L[c]
                      /\ BestOf(CompliantOf(s.rung, K), K) = BestOf(CompliantOf(s.rung, L), L)
    OBVIOUS
  <2>1. CompliantOf(s.rung, K) = CompliantOf(s.rung, L)
        /\ \A c \in CompliantOf(s.rung, K) : K[c] = L[c]
    <3>1. CASE s.rung.low = None
      BY <3>1 DEF CompliantOf
    <3>2. CASE s.rung.low # None
      <4>1. \A c \in {At(s.rung.moe, g) : g \in NeighboursOf(s.rung)} : K[c] = L[c]
        BY <3>2 DEF Answerable, Extends
      <4>2. QED
        BY <3>2, <4>1 DEF CompliantOf
    <3>3. QED
      BY <3>1, <3>2
  <2>2. QED
    BY <2>1, BestAgrees
<1>2. Answerable(s, O, Q, L)
  BY <1>1 DEF Answerable, Extends
<1>a. s.pc \in {"ladder", "first", "zero", "bracket", "neighbours"}
  BY DEF Answerable
<1>3. CASE s.pc = "ladder"
  <2>1. After(s, O, Q, L) = Entered(s, O) /\ After(s, O, P, K) = Entered(s, O)
    BY <1>3 DEF After, Asks
  <2>2. QED
    BY <1>2, <2>1
<1>4. CASE s.pc # "ladder" /\ Asks(s.pc, s.rung)
  <2>1. P[Question(s, O)] = Q[Question(s, O)]
    BY <1>4 DEF Answerable, Extends
  <2>2. /\ After(s, O, Q, L) = Answered(s, O, Q[Question(s, O)])
        /\ After(s, O, P, K) = Answered(s, O, P[Question(s, O)])
    BY <1>4 DEF After, Asks
  <2>3. QED
    BY <1>2, <2>1, <2>2
<1>5. CASE s.pc = "bracket" /\ ~Asks(s.pc, s.rung)
  <2>1. After(s, O, Q, L) = ClosedOf(s) /\ After(s, O, P, K) = ClosedOf(s)
    BY <1>5 DEF After
  <2>2. QED
    BY <1>2, <2>1
<1>6. CASE s.pc = "neighbours" /\ s.todo # {}
  <2>1. ~Asks(s.pc, s.rung)
    BY <1>6 DEF Asks
  <2>2. L[Neighbour(s)] = K[Neighbour(s)]
    BY <1>6 DEF Answerable, Extends
  <2>3. /\ After(s, O, Q, L) = Measured(s, Neighbour(s), L[Neighbour(s)])
        /\ After(s, O, P, K) = Measured(s, Neighbour(s), K[Neighbour(s)])
    BY <1>6, <2>1 DEF After
  <2>4. QED
    BY <1>2, <2>2, <2>3
<1>7. CASE s.pc = "neighbours" /\ s.todo = {}
  <2>1. ~Asks(s.pc, s.rung)
    BY <1>7 DEF Asks
  <2>2. After(s, O, Q, L) = Left(s, O, L) /\ After(s, O, P, K) = Left(s, O, K)
    BY <1>7, <2>1 DEF After
  <2>3. CompliantOf(s.rung, K) # {} =>
            L[BestOf(CompliantOf(s.rung, K), K)] = K[BestOf(CompliantOf(s.rung, K), K)]
    BY <1>7 DEF Answerable, Extends
  <2>4. Left(s, O, L) = Left(s, O, K)
    BY <1>1, <1>7, <2>3 DEF Left
  <2>5. QED
    BY <1>2, <2>2, <2>4
<1>8. QED
  BY <1>a, <1>3, <1>4, <1>5, <1>6, <1>7 DEF Asks

(* So a trace stays one while the journal grows.                           *)
LEMMA TraceStays ==
    ASSUME NEW T, NEW n \in Nat, NEW start, NEW O, NEW P, NEW K, NEW Q, NEW L,
           Extends(P, Q), Extends(K, L), Trace(T, n, start, O, P, K)
    PROVE  Trace(T, n, start, O, Q, L)
<1>1. ASSUME NEW k \in Nat, k < n
      PROVE  Answerable(T[k], O, Q, L) /\ T[k + 1] = After(T[k], O, Q, L)
  <2>1. Answerable(T[k], O, P, K) /\ T[k + 1] = After(T[k], O, P, K)
    BY <1>1 DEF Trace
  <2>2. QED
    BY <2>1, StepStays
<1>2. QED
  BY <1>1 DEF Trace

(* An answered step makes a trace longer.                                  *)
LEMMA TraceExtends ==
    ASSUME NEW T, NEW n \in Nat, NEW start, NEW O, NEW P, NEW K, NEW s,
           Trace(T, n, start, O, P, K), Answerable(T[n], O, P, K),
           s = After(T[n], O, P, K), Distinct(s.found), T[n].found \subseteq s.found
    PROVE  \E m \in Nat : \E U : Trace(U, m, start, O, P, K) /\ U[m] = s
<1> DEFINE U == [k \in Nat |-> IF k <= n THEN T[k] ELSE s]
<1>1. n + 1 \in Nat /\ (\A k \in Nat : k < n + 1 <=> k <= n)
      /\ \A k \in Nat : k <= n + 1 <=> k <= n \/ k = n + 1
  OBVIOUS
<1>2. U[n + 1] = s /\ \A k \in Nat : k <= n => U[k] = T[k]
  BY <1>1
<1> HIDE DEF U
<1>3. U[0] = start
  BY <1>2 DEF Trace
<1>4. ASSUME NEW k \in Nat, k < n + 1
      PROVE  Answerable(U[k], O, P, K) /\ U[k + 1] = After(U[k], O, P, K)
  <2>1. CASE k < n
    <3>1. k <= n /\ k + 1 <= n /\ k + 1 \in Nat
      BY <2>1
    <3>2. U[k] = T[k] /\ U[k + 1] = T[k + 1]
      BY <1>2, <3>1
    <3>3. QED
      BY <2>1, <3>2 DEF Trace
  <2>2. CASE k = n
    BY <1>2, <2>2
  <2>3. QED
    BY <1>4, <2>1, <2>2
<1>5. ASSUME NEW k \in Nat, k <= n + 1
      PROVE  Distinct(U[k].found)
  <2>1. CASE k <= n
    BY <1>2, <2>1 DEF Trace
  <2>2. CASE k = n + 1
    BY <1>2, <2>2
  <2>3. QED
    BY <1>1, <1>5, <2>1, <2>2
<1>6. ASSUME NEW j \in Nat, NEW k \in Nat, j <= k, k <= n + 1
      PROVE  U[j].found \subseteq U[k].found
  <2>1. CASE k <= n
    <3>1. j <= n
      BY <1>6, <2>1
    <3>2. QED
      BY <1>2, <1>6, <2>1, <3>1 DEF Trace
  <2>2. CASE k = n + 1 /\ j <= n
    <3>1. T[j].found \subseteq T[n].found
      BY <2>2 DEF Trace
    <3>2. QED
      BY <1>2, <2>2, <3>1
  <2>3. CASE k = n + 1 /\ j = n + 1
    BY <2>3
  <2>4. j <= n \/ j = n + 1
    BY <1>6
  <2>5. QED
    BY <1>1, <1>6, <2>1, <2>2, <2>3, <2>4
<1>7. Trace(U, n + 1, start, O, P, K)
  BY <1>3, <1>4, <1>5, <1>6 DEF Trace
<1>8. QED
  BY <1>1, <1>2, <1>7

(* Two traces of one journal never part: at the smallest step where they   *)
(* did, both took the one step their common stage takes.                   *)
LEMMA TracesAgree ==
    ASSUME NEW T, NEW U, NEW n \in Nat, NEW m \in Nat, n <= m, NEW start, NEW O, NEW P, NEW K,
           Trace(T, n, start, O, P, K), Trace(U, m, start, O, P, K)
    PROVE  \A k \in Nat : k <= n => T[k] = U[k]
<1> DEFINE B == {k \in Nat : k <= n /\ T[k] # U[k]}
<1>1. SUFFICES ASSUME B # {}
               PROVE  FALSE
  OBVIOUS
<1>2. B \in SUBSET Nat
  OBVIOUS
<1>3. PICK k \in B : \A x \in B : k <= x
  <2> HIDE DEF B
  <2>1. QED
    BY <1>1, <1>2, SmallestOf
<1>4. k \in Nat /\ k <= n /\ T[k] # U[k]
  OBVIOUS
<1>5. k # 0
  BY <1>4 DEF Trace
<1>6. k - 1 \in Nat /\ (k - 1) + 1 = k /\ k - 1 < n /\ k - 1 < m /\ k - 1 <= n /\ ~(k <= k - 1)
  BY <1>4, <1>5
<1>7. k - 1 \notin B
  <2> HIDE DEF B
  <2>1. QED
    BY <1>3, <1>6
<1>8. T[k - 1] = U[k - 1]
  BY <1>6, <1>7
<1>9. T[(k - 1) + 1] = After(T[k - 1], O, P, K) /\ U[(k - 1) + 1] = After(U[k - 1], O, P, K)
  BY <1>6 DEF Trace
<1>10. QED
  BY <1>4, <1>6, <1>8, <1>9

(* So a rung has one boundary over all traces of a journal.                *)
LEMMA TracesConcur ==
    ASSUME NEW T, NEW U, NEW n \in Nat, NEW m \in Nat, NEW start, NEW O, NEW P, NEW K,
           Trace(T, n, start, O, P, K), Trace(U, m, start, O, P, K),
           NEW a, NEW b, a \in T[n].found, b \in U[m].found, a.moe = b.moe
    PROVE  a = b
<1>1. CASE n <= m
  <2>1. T[n] = U[n]
    BY <1>1, TracesAgree
  <2>2. U[n].found \subseteq U[m].found /\ Distinct(U[m].found)
    BY <1>1 DEF Trace
  <2>3. QED
    BY <2>1, <2>2 DEF Distinct
<1>2. CASE m <= n
  <2>1. T[m] = U[m]
    BY <1>2, TracesAgree
  <2>2. T[m].found \subseteq T[n].found /\ Distinct(T[n].found)
    BY <1>2 DEF Trace
  <2>3. QED
    BY <2>1, <2>2 DEF Distinct
<1>3. QED
  BY <1>1, <1>2

(* The operators, of the state.                                            *)
LEMMA OperatorsAgree ==
    /\ NextRung = NextOf(rungs, options)
    /\ CanGrow <=> Grows(rung)
    /\ CanBisect <=> Bisects(rung)
    /\ Asking <=> Asks(pc, rung)
    /\ Guess = GuessOf(pc, rung, options)
    /\ \A status : Narrowed(status) = NarrowedTo(rung, Guess, status)
    /\ Neighbours = NeighboursOf(rung)
    /\ Compliant = CompliantOf(rung, known)
    /\ BestCompliant = BestOf(Compliant, known)
    /\ Boundary = BoundaryOf(rung)
    /\ NextNeighbour = At(rung.moe, Highest(todo))
<1>1. NextRung = NextOf(rungs, options)
  BY DEF NextRung, NextOf, Highest
<1>2. (CanGrow <=> Grows(rung)) /\ (CanBisect <=> Bisects(rung))
  BY DEF CanGrow, CanBisect, Grows, Bisects
<1>3. Asking <=> Asks(pc, rung)
  BY <1>2 DEF Asking, Asks
<1>4. Guess = GuessOf(pc, rung, options)
  BY <1>2 DEF Guess, GuessOf, FirstGuess
<1>5. \A status : Narrowed(status) = NarrowedTo(rung, Guess, status)
  BY DEF Narrowed, NarrowedTo
<1>6. Neighbours = NeighboursOf(rung)
  BY DEF Neighbours, NeighboursOf
<1>7. Compliant = CompliantOf(rung, known)
  BY <1>6 DEF Compliant, CompliantOf
<1>8. BestCompliant = BestOf(Compliant, known)
  BY DEF BestCompliant, BestOf
<1>9. Boundary = BoundaryOf(rung) /\ NextNeighbour = At(rung.moe, Highest(todo))
  BY DEF Boundary, BoundaryOf, NextNeighbour, Highest
<1>10. QED
  BY <1>1, <1>2, <1>3, <1>4, <1>5, <1>6, <1>7, <1>8, <1>9

(* A stage is made of its parts.                                           *)
LEMMA CurrentIs ==
    /\ Current.pc = pc /\ Current.rungs = rungs /\ Current.rung = rung /\ Current.todo = todo
    /\ Current.warm = warm /\ Current.found = found /\ Current.incumbent = incumbent
BY DEF Current, Stage

(* A new entry leaves the others alone.                                    *)
LEMMA WithExtends ==
    ASSUME NEW f, NEW c, NEW v, c \notin DOMAIN f
    PROVE  Extends(f, With(f, c, v)) /\ c \in DOMAIN With(f, c, v) /\ With(f, c, v)[c] = v
BY DEF With, Extends

(* A probe extends the journal and holds its answer.                       *)
LEMMA ProbeExtends ==
    ASSUME MachineOK, NEW c \in Config, NEW status, Probe(c, status)
    PROVE  /\ Extends(probes, probes') /\ Extends(known, known')
           /\ c \in DOMAIN probes' /\ probes'[c] = status
<1>1. known' = known
  BY ProbeEffect
<1>2. CASE c \in DOMAIN probes /\ status = probes[c] /\ UNCHANGED probes
  BY <1>1, <1>2 DEF Extends
<1>3. CASE c \notin DOMAIN probes /\ probes' = With(probes, c, status)
  <2>1. Extends(known, known')
    BY <1>1 DEF Extends
  <2>2. QED
    BY <1>3, <2>1, WithExtends
<1>4. QED
  BY <1>2, <1>3, ProbeEffect

(* So does a measurement.                                                  *)
LEMMA EvaluateExtends ==
    ASSUME MachineOK, JournalOK, NEW c \in Config, NEW trial, Evaluate(c, trial)
    PROVE  /\ Extends(probes, probes') /\ Extends(known, known')
           /\ c \in DOMAIN known' /\ known'[c] = trial
<1>1. probes' = probes
  BY EvaluateEffect
<1>2. CASE c \in DOMAIN known /\ trial = known[c] /\ UNCHANGED known
  BY <1>1, <1>2 DEF Extends
<1>3. CASE c \notin DOMAIN known /\ known' = With(known, c, trial)
  <2>1. Extends(probes, probes')
    BY <1>1 DEF Extends
  <2>2. QED
    BY <1>3, <2>1, WithExtends
<1>4. QED
  BY <1>2, <1>3, EvaluateEffect

(* No step takes anything from the journal.                                *)
LEMMA JournalExtends ==
    ASSUME MachineOK, JournalOK, SearchOK, BracketInv, Next
    PROVE  /\ Extends(probes, probes') /\ Extends(known, known') /\ recorded \subseteq recorded'
<1>1. CASE AskBoundary
  <2>1. PICK status \in ProbeAnswers : Probe(At(rung.moe, Guess), status)
    BY <1>1 DEF AskBoundary
  <2>2. At(rung.moe, Guess) \in Config
    BY <1>1, AskedConfig DEF AskBoundary
  <2>3. recorded' = recorded
    BY <2>1, <2>2, ProbeEffect
  <2>4. QED
    BY <2>1, <2>2, <2>3, ProbeExtends
<1>2. CASE AskSpill
  <2>1. PICK status \in ProbeAnswers : Probe(At(MidSpill, HardCap), status)
    BY <1>2 DEF AskSpill
  <2>2. At(MidSpill, HardCap) \in Config
    BY <1>2, SpillConfig DEF AskSpill
  <2>3. recorded' = recorded
    BY <2>1, <2>2, ProbeEffect
  <2>4. QED
    BY <2>1, <2>2, <2>3, ProbeExtends
<1>3. CASE MeasureNeighbour
  <2>1. PICK trial \in Trials : Evaluate(NextNeighbour, trial)
    BY <1>3 DEF MeasureNeighbour
  <2>2. NextNeighbour \in Config
    BY <1>3, NeighbourConfig DEF MeasureNeighbour
  <2>3. recorded' = recorded
    BY <2>1, <2>2, EvaluateEffect
  <2>4. QED
    BY <2>1, <2>2, <2>3, EvaluateExtends
<1>4. CASE MeasureFrontier
  <2>1. PICK trial \in Trials : Evaluate(Frontier, trial)
    BY <1>4 DEF MeasureFrontier
  <2>2. Frontier \in Config
    BY FrontierConfig
  <2>3. recorded' = recorded
    BY <2>1, <2>2, EvaluateEffect
  <2>4. QED
    BY <2>1, <2>2, <2>3, EvaluateExtends
<1>5. CASE UNCHANGED <<probes, known>> /\ recorded \subseteq recorded'
  BY <1>5 DEF Extends
<1>6. CASE EnterRung \/ CloseBracket \/ LeaveRung
  BY <1>5, <1>6 DEF EnterRung, CloseBracket, LeaveRung, journal
<1>7. CASE SkipSpill \/ StartSpill \/ CloseSpill
  BY <1>5, <1>7 DEF SkipSpill, StartSpill, CloseSpill, journal
<1>8. CASE ExhaustBudget \/ Crash \/ Resume \/ Finished
  BY <1>5, <1>8 DEF ExhaustBudget, Crash, Resume, Finished, vars, journal
<1>9. QED
  BY <1>1, <1>2, <1>3, <1>4, <1>6, <1>7, <1>8 DEF Next

(* Each step of the ladder is the one After names, from what the journal   *)
(* then holds.                                                             *)
LEMMA EnterFollows ==
    ASSUME EnterRung
    PROVE  /\ Answerable(Current, options, probes', known')
           /\ Current' = After(Current, options, probes', known')
<1>1. pc = "ladder" /\ UNCHANGED <<rungs, todo, warm, found, incumbent>>
  BY DEF EnterRung
<1>2. ~Asks(Current.pc, Current.rung) /\ Answerable(Current, options, probes', known')
  BY <1>1, CurrentIs DEF Asks, Answerable
<1>3. After(Current, options, probes', known') = Entered(Current, options)
  BY <1>1, <1>2, CurrentIs DEF After
<1>4. Entered(Current, options) = Current'
  <2>1. NextRung = NextOf(Current.rungs, options)
    BY OperatorsAgree, CurrentIs
  <2>2. QED
    BY <1>1, <2>1, CurrentIs DEF Entered, EnterRung, Current, HardCap
<1>5. QED
  BY <1>2, <1>3, <1>4

LEMMA AskFollows ==
    ASSUME MachineOK, JournalOK, SearchOK, BracketInv, AskBoundary
    PROVE  /\ Answerable(Current, options, probes', known')
           /\ Current' = After(Current, options, probes', known')
<1>1. PICK status \in ProbeAnswers :
         /\ Probe(At(rung.moe, Guess), status)
         /\ rung' = Narrowed(status)
         /\ pc' = IF pc = "first" /\ status # "ok" /\ Guess > 0 THEN "zero" ELSE "bracket"
  BY DEF AskBoundary
<1>2. UNCHANGED <<rungs, todo, warm, found, incumbent>> /\ Asking
  BY DEF AskBoundary
<1>3. At(rung.moe, Guess) \in Config
  BY <1>2, AskedConfig
<1>4. At(rung.moe, Guess) \in DOMAIN probes' /\ probes'[At(rung.moe, Guess)] = status
  BY <1>1, <1>3, ProbeExtends
<1>5. Asks(Current.pc, Current.rung) /\ Question(Current, options) = At(rung.moe, Guess)
  BY <1>2, OperatorsAgree, CurrentIs DEF Question
<1>6. Current.pc \in {"first", "zero", "bracket"}
  BY <1>2, CurrentIs DEF Asking
<1>7. Answerable(Current, options, probes', known')
  BY <1>4, <1>5, <1>6 DEF Answerable
<1>8. After(Current, options, probes', known') = Answered(Current, options, status)
  BY <1>4, <1>5, <1>6 DEF After
<1>9. Answered(Current, options, status) = Current'
  <2>1. GuessOf(Current.pc, Current.rung, options) = Guess
        /\ NarrowedTo(Current.rung, Guess, status) = Narrowed(status)
    BY OperatorsAgree, CurrentIs
  <2>2. QED
    BY <1>1, <1>2, <2>1, CurrentIs DEF Answered, Current
<1>10. QED
  BY <1>7, <1>8, <1>9

LEMMA CloseFollows ==
    ASSUME CloseBracket
    PROVE  /\ Answerable(Current, options, probes', known')
           /\ Current' = After(Current, options, probes', known')
<1>1. /\ pc = "bracket" /\ ~CanGrow /\ ~CanBisect /\ pc' = "neighbours"
      /\ UNCHANGED <<rungs, rung, warm, found, incumbent>>
      /\ todo' = IF rung.low = None THEN {} ELSE Neighbours
  BY DEF CloseBracket
<1>2. ~Asks(Current.pc, Current.rung) /\ Current.pc = "bracket"
  BY <1>1, OperatorsAgree, CurrentIs DEF Asking
<1>3. Answerable(Current, options, probes', known')
  BY <1>2 DEF Answerable
<1>4. After(Current, options, probes', known') = ClosedOf(Current)
  BY <1>2 DEF After
<1>5. ClosedOf(Current) = Current'
  BY <1>1, OperatorsAgree, CurrentIs DEF ClosedOf, Current
<1>6. QED
  BY <1>3, <1>4, <1>5

LEMMA MeasureFollows ==
    ASSUME MachineOK, JournalOK, SearchOK, MeasureNeighbour
    PROVE  /\ Answerable(Current, options, probes', known')
           /\ Current' = After(Current, options, probes', known')
<1>1. PICK trial \in Trials :
         Evaluate(NextNeighbour, trial) /\ incumbent' = Promoted(NextNeighbour, trial)
  BY DEF MeasureNeighbour
<1>2. /\ pc = "neighbours" /\ todo # {} /\ todo' = todo \ {NextNeighbour.ngl}
      /\ UNCHANGED <<pc, rungs, rung, warm, found>>
  BY DEF MeasureNeighbour
<1>3. NextNeighbour \in Config
  BY <1>2, NeighbourConfig
<1>4. NextNeighbour \in DOMAIN known' /\ known'[NextNeighbour] = trial
  BY <1>1, <1>3, EvaluateExtends
<1>5. ~Asks(Current.pc, Current.rung) /\ Current.pc = "neighbours" /\ Current.todo # {}
  BY <1>2, CurrentIs DEF Asks
<1>6. Neighbour(Current) = NextNeighbour
  BY OperatorsAgree, CurrentIs DEF Neighbour
<1>7. Answerable(Current, options, probes', known')
  BY <1>4, <1>5, <1>6 DEF Answerable
<1>8. After(Current, options, probes', known') = Measured(Current, NextNeighbour, trial)
  BY <1>4, <1>5, <1>6 DEF After
<1>9. Measured(Current, NextNeighbour, trial) = Current'
  BY <1>1, <1>2, CurrentIs DEF Measured, Promoted, Current
<1>10. QED
  BY <1>7, <1>8, <1>9

LEMMA LeaveFollows ==
    ASSUME JournalOK, SearchOK, NeighboursInv, LeaveRung
    PROVE  /\ Answerable(Current, options, probes', known')
           /\ Current' = After(Current, options, probes', known')
<1>1. /\ pc = "neighbours" /\ todo = {} /\ known' = known /\ pc' = "ladder"
      /\ rungs' = rungs \ {rung.moe} /\ UNCHANGED <<rung, todo>>
      /\ warm' = IF HasFit(Boundary) THEN Boundary.max_ok ELSE None
      /\ found' = found \cup {Boundary}
      /\ incumbent' = IF incumbent.cfg.ngl > HardCap /\ Compliant # {}
                      THEN [cfg |-> BestCompliant, score |-> known[BestCompliant].score]
                      ELSE incumbent
  BY DEF LeaveRung
<1>2. ~Asks(Current.pc, Current.rung) /\ Current.pc = "neighbours" /\ Current.todo = {}
  BY <1>1, CurrentIs DEF Asks
<1>3. rung.low # None => \A g \in Neighbours : At(rung.moe, g) \in DOMAIN known
  BY <1>1 DEF NeighboursInv
<1>4. Compliant # {} => BestCompliant \in DOMAIN known
  BY <1>1, BestIsCompliant
<1>5. Answerable(Current, options, probes', known')
  BY <1>1, <1>2, <1>3, <1>4, OperatorsAgree, CurrentIs DEF Answerable
<1>6. After(Current, options, probes', known') = Left(Current, options, known)
  BY <1>1, <1>2 DEF After
<1>7. Left(Current, options, known) = Current'
  <2>1. CompliantOf(Current.rung, known) = Compliant /\ BestOf(Compliant, known) = BestCompliant
        /\ BoundaryOf(Current.rung) = Boundary
    BY OperatorsAgree, CurrentIs
  <2>2. QED
    BY <1>1, <2>1, CurrentIs DEF Left, Current, HardCap
<1>8. QED
  BY <1>5, <1>6, <1>7

(* No step outside a resume goes back up the ladder.                       *)
LEMMA LadderSteps ==
    ASSUME Next, Laddering'
    PROVE  \/ EnterRung \/ AskBoundary \/ CloseBracket \/ MeasureNeighbour \/ LeaveRung
           \/ Resume
<1>1. ASSUME SkipSpill \/ StartSpill \/ AskSpill \/ CloseSpill \/ MeasureFrontier
      PROVE  FALSE
  BY <1>1 DEF SkipSpill, StartSpill, AskSpill, SpillOpen, CloseSpill, MeasureFrontier, Laddering,
     InRung
<1>2. ASSUME ExhaustBudget \/ Crash \/ Finished
      PROVE  FALSE
  BY <1>2 DEF ExhaustBudget, Crash, Finished, vars, search, Laddering, InRung
<1>3. QED
  BY <1>1, <1>2 DEF Next

(* What the ladder has left and what it has found partition its rungs.     *)
LEMMA CoveredKept ==
    ASSUME MachineOK, SearchOK, OrderInv, CoveredInv, Next
    PROVE  CoveredInv'
<1>1. Ladder' = Ladder
  <2>1. options' = options
    BY SameMachine DEF machine
  <2>2. QED
    BY <2>1 DEF Ladder, HardCap
<1>2. CASE UNCHANGED <<rungs, found>> /\ (Laddering' => Laddering) /\ (pc' # "down" => pc # "down")
           /\ (pc' = "spill" => pc = "spill" \/ rungs = {})
  BY <1>1, <1>2 DEF CoveredInv
<1>3. CASE EnterRung \/ AskBoundary \/ CloseBracket \/ MeasureNeighbour
  BY <1>2, <1>3 DEF EnterRung, AskBoundary, Asking, CloseBracket, MeasureNeighbour, Laddering,
     InRung
<1>4. CASE SkipSpill \/ StartSpill \/ AskSpill \/ MeasureFrontier
  BY <1>2, <1>4 DEF SkipSpill, StartSpill, LadderDone, AskSpill, SpillOpen, MeasureFrontier,
     Laddering, InRung
<1>5. CASE ExhaustBudget \/ Finished
  <2>1. UNCHANGED <<rungs, found>> /\ pc' \in {"stopped", "done"} /\ pc # "down"
    BY <1>5 DEF ExhaustBudget, NeedsChild, Asking, SpillOpen, Finished, vars, search
  <2>2. QED
    BY <1>2, <2>1 DEF Laddering, InRung
<1>6. CASE Crash
  <2>1. pc' = "down"
    BY <1>6 DEF Crash
  <2>2. QED
    BY <2>1 DEF CoveredInv, Laddering, InRung
<1>7. CASE LeaveRung
  <2>1. /\ pc = "neighbours" /\ pc' = "ladder" /\ rungs' = rungs \ {rung.moe}
        /\ found' = found \cup {Boundary} /\ Boundary.moe = rung.moe
    BY <1>7 DEF LeaveRung, Boundary
  <2>2. rung.moe \in rungs
    BY <2>1 DEF OrderInv, InRung
  <2>3. /\ rungs \subseteq Ladder
        /\ \A b \in found : b.moe \notin rungs
        /\ \A m \in Ladder : m \in rungs \/ \E b \in found : b.moe = m
        /\ Distinct(found)
    BY <2>1 DEF CoveredInv, Laddering, InRung
  <2>4. rungs' \subseteq Ladder /\ \A b \in found' : b.moe \notin rungs'
    BY <2>1, <2>3
  <2>5. ASSUME NEW m \in Ladder
        PROVE  m \in rungs' \/ \E b \in found' : b.moe = m
    BY <2>1, <2>3
  <2>6. Distinct(found')
    BY <2>1, <2>2, <2>3 DEF Distinct
  <2>7. QED
    BY <1>1, <2>1, <2>4, <2>5, <2>6 DEF CoveredInv, Distinct
<1>8. CASE CloseSpill
  <2>1. /\ pc = "spill" /\ pc' = "frontier" /\ UNCHANGED rungs /\ found \subseteq found'
    BY <1>8 DEF CloseSpill
  <2>2. rungs = {} /\ rungs \subseteq Ladder /\ \A m \in Ladder : \E b \in found : b.moe = m
    BY <2>1 DEF CoveredInv
  <2>3. QED
    BY <1>1, <2>1, <2>2 DEF CoveredInv, Laddering, InRung
<1>9. CASE Resume
  <2>1. pc' = "ladder" /\ rungs' = Ladder /\ found' = {}
    BY <1>9 DEF Resume
  <2>2. QED
    BY <1>1, <2>1 DEF CoveredInv, Distinct
<1>10. QED
  BY <1>3, <1>4, <1>5, <1>6, <1>7, <1>8, <1>9 DEF Next

(* A process climbing the ladder stays where its journal leads: each step  *)
(* lengthens the trace, and a resumed process is at its start.             *)
LEMMA ReplayKept ==
    ASSUME MachineOK, JournalOK, SearchOK, NeighboursInv, BracketInv, OrderInv, CoveredInv,
           ReplayInv, Next
    PROVE  ReplayInv'
<1>1. SUFFICES ASSUME Laddering'
               PROVE  \E n \in Nat : \E T :
                         Trace(T, n, Fresh, options, probes', known') /\ T[n] = Current'
  <2>1. options' = options
    BY SameMachine DEF machine
  <2>2. Fresh' = Fresh
    BY <2>1 DEF Fresh, Ladder, HardCap
  <2>3. QED
    BY <2>1, <2>2 DEF ReplayInv
<1>2. CASE Resume
  <2>1. Current' = Fresh
    BY <1>2 DEF Resume, Current, Fresh
  <2> DEFINE T == [k \in {0} |-> Fresh]
  <2>2. T[0] = Fresh /\ Distinct(T[0].found)
    BY DEF Fresh, Stage, Distinct
  <2> HIDE DEF T
  <2>3. (\A k \in Nat : ~(k < 0)) /\ (\A k \in Nat : k <= 0 => k = 0)
    OBVIOUS
  <2>4. \A j, k \in Nat : j <= k /\ k <= 0 => j = k
    OBVIOUS
  <2>5. Trace(T, 0, Fresh, options, probes', known')
    BY <2>2, <2>3, <2>4 DEF Trace
  <2>6. QED
    BY <2>1, <2>2, <2>5
<1>3. CASE EnterRung \/ AskBoundary \/ CloseBracket \/ MeasureNeighbour \/ LeaveRung
  <2>1. Laddering
    BY <1>3 DEF EnterRung, AskBoundary, Asking, CloseBracket, MeasureNeighbour, LeaveRung,
       Laddering, InRung
  <2>2. PICK n, T : n \in Nat /\ Trace(T, n, Fresh, options, probes, known) /\ T[n] = Current
    BY <2>1 DEF ReplayInv
  <2>3. Trace(T, n, Fresh, options, probes', known')
    BY <2>2, JournalExtends, TraceStays
  <2>4. /\ Answerable(T[n], options, probes', known')
        /\ Current' = After(T[n], options, probes', known')
    BY <1>3, <2>2, EnterFollows, AskFollows, CloseFollows, MeasureFollows, LeaveFollows
  <2>5. Distinct(Current'.found)
    <3>1. Distinct(found')
      BY <1>1, CoveredKept DEF CoveredInv, Distinct
    <3>2. QED
      BY <3>1 DEF Current, Stage
  <2>6. T[n].found \subseteq Current'.found
    <3>1. found \subseteq found'
      BY <1>3 DEF EnterRung, AskBoundary, CloseBracket, MeasureNeighbour, LeaveRung
    <3>2. QED
      BY <2>2, <3>1 DEF Current, Stage
  <2>7. QED
    BY <2>2, <2>3, <2>4, <2>5, <2>6, TraceExtends
<1>4. QED
  BY <1>1, <1>2, <1>3, LadderSteps

(* What was recorded stays explained, and so is what a step records: the   *)
(* boundary of a rung is on the trace, the frontier is of no rung.         *)
LEMMA RecordsKept ==
    ASSUME MachineOK, JournalOK, SearchOK, NeighboursInv, BracketInv, OrderInv, CoveredInv,
           ReplayInv, RecordsInv, Next
    PROVE  RecordsInv'
<1>1. /\ options' = options /\ Fresh' = Fresh /\ Ladder' = Ladder /\ HardCap' = HardCap
  <2>1. options' = options
    BY SameMachine DEF machine
  <2>2. QED
    BY <2>1 DEF Fresh, Ladder, HardCap
<1>2. ASSUME NEW b \in recorded
      PROVE  (Replayable(b) \/ OfFrontier(b))'
  <2>1. CASE Replayable(b)
    <3>1. PICK n, T : n \in Nat /\ Trace(T, n, Fresh, options, probes, known) /\ b \in T[n].found
      BY <2>1 DEF Replayable
    <3>2. Trace(T, n, Fresh, options, probes', known')
      BY <3>1, JournalExtends, TraceStays
    <3>3. QED
      BY <1>1, <2>1, <3>1, <3>2 DEF Replayable
  <2>2. CASE OfFrontier(b)
    BY <1>1, <2>2 DEF OfFrontier
  <2>3. QED
    BY <2>1, <2>2 DEF RecordsInv
<1>3. CASE recorded' = recorded
  BY <1>2, <1>3 DEF RecordsInv
<1>4. CASE LeaveRung
  <2>1. pc' = "ladder" /\ Boundary \in found' /\ recorded' = recorded \cup {Boundary}
    BY <1>4 DEF LeaveRung
  <2>2. ReplayInv' /\ Laddering'
    BY <2>1, ReplayKept DEF Laddering
  <2>3. PICK n, T : n \in Nat /\ Trace(T, n, Fresh, options, probes', known') /\ T[n] = Current'
    BY <1>1, <2>2 DEF ReplayInv
  <2>4. Boundary \in T[n].found
    BY <2>1, <2>3 DEF Current, Stage
  <2>5. Boundary.moe \in Ladder
    BY <1>4 DEF LeaveRung, Boundary, OrderInv, CoveredInv, InRung
  <2>6. ASSUME NEW b \in {Boundary}
        PROVE  (Replayable(b))'
    BY <1>1, <2>3, <2>4, <2>5 DEF Replayable
  <2>7. QED
    BY <1>2, <2>1, <2>6 DEF RecordsInv
<1>5. CASE CloseSpill /\ recorded' # recorded
  <2>1. pc = "spill" /\ recorded' = recorded \cup {SpillBoundary}
        /\ ~\E b \in found : b.moe = spill.high
    BY <1>5 DEF CloseSpill
  <2>2. spill.high \notin Ladder
    BY <2>1 DEF CoveredInv
  <2>3. ASSUME NEW b \in {SpillBoundary}
        PROVE  OfFrontier(b)'
    BY <1>1, <2>2 DEF OfFrontier, SpillBoundary
  <2>4. QED
    BY <1>2, <2>1, <2>3 DEF RecordsInv
<1>6. CASE AskBoundary
  <2>1. PICK status \in ProbeAnswers : Probe(At(rung.moe, Guess), status)
    BY <1>6 DEF AskBoundary
  <2>2. recorded' = recorded
    BY <1>6, <2>1, AskedConfig, ProbeEffect DEF AskBoundary
  <2>3. QED
    BY <1>3, <2>2
<1>7. CASE AskSpill
  <2>1. PICK status \in ProbeAnswers : Probe(At(MidSpill, HardCap), status)
    BY <1>7 DEF AskSpill
  <2>2. recorded' = recorded
    BY <1>7, <2>1, SpillConfig, ProbeEffect DEF AskSpill
  <2>3. QED
    BY <1>3, <2>2
<1>8. CASE MeasureNeighbour
  <2>1. PICK trial \in Trials : Evaluate(NextNeighbour, trial)
    BY <1>8 DEF MeasureNeighbour
  <2>2. recorded' = recorded
    BY <1>8, <2>1, NeighbourConfig, EvaluateEffect DEF MeasureNeighbour
  <2>3. QED
    BY <1>3, <2>2
<1>9. CASE MeasureFrontier
  <2>1. PICK trial \in Trials : Evaluate(Frontier, trial)
    BY <1>9 DEF MeasureFrontier
  <2>2. recorded' = recorded
    BY <2>1, FrontierConfig, EvaluateEffect
  <2>3. QED
    BY <1>3, <2>2
<1>10. CASE EnterRung \/ CloseBracket \/ SkipSpill \/ StartSpill
  BY <1>3, <1>10 DEF EnterRung, CloseBracket, SkipSpill, StartSpill, journal
<1>11. CASE ExhaustBudget \/ Crash \/ Resume \/ Finished
  BY <1>3, <1>11 DEF ExhaustBudget, Crash, Resume, Finished, vars, journal
<1>12. QED
  BY <1>3, <1>4, <1>5, <1>6, <1>7, <1>8, <1>9, <1>10, <1>11 DEF Next

(* Every boundary journaled for a rung, before and after any number of     *)
(* crashes, is the same boundary: two records of a rung lie on traces of   *)
(* one journal, and the frontier is recorded only off the ladder.          *)
THEOREM ReplaysAgree == Spec => []ReplayAgrees
<1>1. ASSUME Init
      PROVE  CoveredInv /\ ReplayInv /\ RecordsInv
  <2>1. pc = "ladder" /\ rungs = Ladder /\ found = {} /\ recorded = {}
    BY <1>1 DEF Init, Start
  <2>2. CoveredInv /\ RecordsInv
    BY <2>1 DEF CoveredInv, Distinct, RecordsInv
  <2>3. Current = Fresh
    BY <1>1 DEF Init, Start, Current, Fresh
  <2> DEFINE T == [k \in {0} |-> Fresh]
  <2>4. T[0] = Fresh /\ Distinct(T[0].found)
    BY DEF Fresh, Stage, Distinct
  <2> HIDE DEF T
  <2>5. (\A k \in Nat : ~(k < 0)) /\ (\A k \in Nat : k <= 0 => k = 0)
    OBVIOUS
  <2>6. \A j, k \in Nat : j <= k /\ k <= 0 => j = k
    OBVIOUS
  <2>7. Trace(T, 0, Fresh, options, probes, known)
    BY <2>4, <2>5, <2>6 DEF Trace
  <2>8. ReplayInv
    BY <2>3, <2>4, <2>7 DEF ReplayInv
  <2>9. QED
    BY <2>2, <2>8
<1>2. ASSUME Inv, CoveredInv, ReplayInv, RecordsInv, Next
      PROVE  (CoveredInv /\ ReplayInv /\ RecordsInv)'
  <2>1. MachineOK /\ JournalOK /\ SearchOK /\ NeighboursInv /\ BracketInv /\ OrderInv
    BY <1>2, TypeParts DEF Inv
  <2>2. QED
    BY <1>2, <2>1, CoveredKept, ReplayKept, RecordsKept
<1>3. ASSUME CoveredInv, ReplayInv, RecordsInv, UNCHANGED vars
      PROVE  (CoveredInv /\ ReplayInv /\ RecordsInv)'
  <2>1. UNCHANGED <<options, probes, known, recorded, pc, rungs, rung, todo, warm, found, incumbent>>
    BY <1>3 DEF vars, machine, journal, search
  <2>2. Ladder' = Ladder /\ HardCap' = HardCap
    BY <2>1 DEF Ladder, HardCap
  <2>3. Fresh' = Fresh /\ Current' = Current
    BY <2>1, <2>2 DEF Fresh, Current
  <2>4. CoveredInv'
    BY <1>3, <2>1, <2>2 DEF CoveredInv, Laddering, InRung
  <2>5. ReplayInv'
    BY <1>3, <2>1, <2>3 DEF ReplayInv, Laddering, InRung
  <2>6. RecordsInv'
    BY <1>3, <2>1, <2>2, <2>3 DEF RecordsInv, Replayable, OfFrontier
  <2>7. QED
    BY <2>4, <2>5, <2>6
<1>4. ASSUME RecordsInv
      PROVE  ReplayAgrees
  <2> SUFFICES ASSUME NEW a \in recorded, NEW b \in recorded, a.moe = b.moe
               PROVE  a = b
    BY DEF ReplayAgrees
  <2>1. CASE OfFrontier(a) /\ OfFrontier(b)
    BY <2>1 DEF OfFrontier
  <2>2. CASE Replayable(a) /\ Replayable(b)
    <3>1. PICK n, T : n \in Nat /\ Trace(T, n, Fresh, options, probes, known) /\ a \in T[n].found
      BY <2>2 DEF Replayable
    <3>2. PICK m, U : m \in Nat /\ Trace(U, m, Fresh, options, probes, known) /\ b \in U[m].found
      BY <2>2 DEF Replayable
    <3>3. a.moe = b.moe
      OBVIOUS
    <3>4. QED
      BY <3>1, <3>2, <3>3, TracesConcur
  <2>3. ~(Replayable(a) /\ OfFrontier(b)) /\ ~(OfFrontier(a) /\ Replayable(b))
    BY DEF Replayable, OfFrontier
  <2>4. QED
    BY <1>4, <2>1, <2>2, <2>3 DEF RecordsInv
<1>5. QED
  BY <1>1, <1>2, <1>3, <1>4, Inductive, PTL DEF Spec

----------------------------------------------------------------------------
(* Every step lowers the height of joint discovery, in an order that has   *)
(* no infinite descent.                                                    *)

\* Crashes to come, and a crash a process has still to recover from.
Coming == IF crashes < MaxCrashes THEN MaxCrashes - crashes ELSE 0
Down == IF pc = "down" THEN 1 ELSE 0

\* The ladder, the bisection of the spill, the frontier.
StageLeft == CASE Laddering -> 3 [] pc = "spill" -> 2 [] pc = "frontier" -> 1 [] OTHER -> 0

RungsLeft == IF Laddering THEN Cardinality(rungs) ELSE 0

\* What becomes of the rung at hand.
Turn ==
    CASE pc = "ladder" -> 4 [] pc = "first" -> 3 [] pc = "zero" -> 2 [] pc = "bracket" -> 1
      [] OTHER -> 0

\* Probes the fuse allows, neighbours to measure, or spills to tell apart.
ToAsk ==
    CASE pc = "bracket" -> (IF rung.used < ProbeFuse THEN ProbeFuse - rung.used ELSE 0)
      [] pc = "neighbours" -> Cardinality(todo)
      [] pc = "spill" -> (IF spill.low < spill.high THEN spill.high - spill.low ELSE 0)
      [] OTHER -> 0

Height == <<Coming, Down, StageLeft, RungsLeft, Turn, ToAsk>>

\* The order of the dictionary.
Descent == LexProductOrdering(OpToRel(<, Nat), Nat, 6)

HeightOK ==
    /\ Coming \in Nat /\ Down \in Nat /\ StageLeft \in Nat /\ RungsLeft \in Nat /\ Turn \in Nat
    /\ ToAsk \in Nat

\* Some part of the height falls, and those before it stay.
FallsInRung == Turn' < Turn \/ (Turn' = Turn /\ ToAsk' < ToAsk)

FallsInStage == RungsLeft' < RungsLeft \/ (RungsLeft' = RungsLeft /\ FallsInRung)

FallsInProcess == StageLeft' < StageLeft \/ (StageLeft' = StageLeft /\ FallsInStage)

Falls ==
    \/ Coming' < Coming
    \/ Coming' = Coming /\ Down' < Down
    \/ Coming' = Coming /\ Down' = Down /\ FallsInProcess

Descends == <<Height', Height>> \in Descent

(* The order has no infinite descent.                                      *)
THEOREM DescentEnds == IsWellFoundedOn(Descent, [1..6 -> Nat])
<1>1. IsWellFoundedOn(OpToRel(<, Nat), Nat)
  BY NatLessThanWellFounded
<1>2. 6 \in Nat
  OBVIOUS
<1>3. QED
  BY <1>1, <1>2, WFLexProductOrdering DEF Descent

(* What falls first, falls in the order.                                   *)
LEMMA FallsInOrder ==
    ASSUME HeightOK, HeightOK', Falls
    PROVE  Descends
<1>1. PICK g, h : g = Height /\ h = Height'
  OBVIOUS
<1>2. /\ g \in [1..6 -> Nat] /\ h \in [1..6 -> Nat]
      /\ g[1] = Coming /\ g[2] = Down /\ g[3] = StageLeft /\ g[4] = RungsLeft /\ g[5] = Turn
      /\ g[6] = ToAsk
      /\ h[1] = Coming' /\ h[2] = Down' /\ h[3] = StageLeft' /\ h[4] = RungsLeft' /\ h[5] = Turn'
      /\ h[6] = ToAsk'
  BY <1>1 DEF Height, HeightOK
<1>3. /\ \A i \in 1..(1 - 1) : FALSE
      /\ \A i \in 1..(2 - 1) : i = 1
      /\ \A i \in 1..(3 - 1) : i \in {1, 2}
      /\ \A i \in 1..(4 - 1) : i \in {1, 2, 3}
      /\ \A i \in 1..(5 - 1) : i \in {1, 2, 3, 4}
      /\ \A i \in 1..(6 - 1) : i \in {1, 2, 3, 4, 5}
  OBVIOUS
<1>4. \E j \in 1..6 : h[j] < g[j] /\ \A i \in 1..(j - 1) : h[i] = g[i]
  <2>1. CASE h[1] < g[1]
    BY <1>3, <2>1
  <2>2. CASE h[1] = g[1] /\ h[2] < g[2]
    BY <1>3, <2>2
  <2>3. CASE h[1] = g[1] /\ h[2] = g[2] /\ h[3] < g[3]
    BY <1>3, <2>3
  <2>4. CASE h[1] = g[1] /\ h[2] = g[2] /\ h[3] = g[3] /\ h[4] < g[4]
    BY <1>3, <2>4
  <2>5. CASE h[1] = g[1] /\ h[2] = g[2] /\ h[3] = g[3] /\ h[4] = g[4] /\ h[5] < g[5]
    BY <1>3, <2>5
  <2>6. CASE /\ h[1] = g[1] /\ h[2] = g[2] /\ h[3] = g[3] /\ h[4] = g[4] /\ h[5] = g[5]
             /\ h[6] < g[6]
    BY <1>3, <2>6
  <2>7. QED
    BY <1>2, <2>1, <2>2, <2>3, <2>4, <2>5, <2>6 DEF Falls, FallsInProcess, FallsInStage, FallsInRung
<1>5. PICK j \in 1..6 : h[j] < g[j] /\ \A i \in 1..(j - 1) : h[i] = g[i]
  BY <1>4
<1>6. <<h[j], g[j]>> \in OpToRel(<, Nat)
  BY <1>2, <1>5 DEF OpToRel
<1>7. <<h, g>> \in Descent
  BY <1>2, <1>5, <1>6 DEF Descent, LexProductOrdering
<1>8. QED
  BY <1>1, <1>7 DEF Descends

(* A height is six numbers.                                                *)
LEMMA HeightIsNat ==
    ASSUME TypeOK
    PROVE  HeightOK
<1>1. crashes \in Nat /\ MaxCrashes \in Nat /\ NLayer \in Nat /\ NglAll \in Nat
  BY SizesAssumption DEF TypeOK
<1>2. Coming \in Nat /\ Down \in Nat /\ StageLeft \in Nat /\ Turn \in Nat
  BY <1>1 DEF Coming, Down, StageLeft, Turn
<1>3. IsFiniteSet(rungs) /\ IsFiniteSet(todo)
  <2>1. IsFiniteSet(0..NLayer) /\ IsFiniteSet(0..NglAll)
    BY <1>1, FS_Interval
  <2>2. rungs \subseteq 0..NLayer /\ todo \subseteq 0..NglAll
    BY DEF TypeOK, Layers
  <2>3. QED
    BY <2>1, <2>2, FS_Subset
<1>4. Cardinality(rungs) \in Nat /\ Cardinality(todo) \in Nat
  BY <1>3, FS_CardinalityType
<1>5. RungsLeft \in Nat
  BY <1>4 DEF RungsLeft
<1>6. ToAsk \in Nat
  <2>1. rung.used \in Nat /\ spill.low \in Nat /\ spill.high \in Nat
    BY <1>1 DEF TypeOK
  <2>2. PICK f \in Nat : f = ProbeFuse
    BY SizeIs
  <2>3. QED
    BY <1>4, <2>1, <2>2 DEF ToAsk
<1>7. QED
  BY <1>2, <1>5, <1>6 DEF HeightOK

(* No step but a crash is one.                                             *)
LEMMA CrashesStay ==
    ASSUME MachineOK, JournalOK, SearchOK, BracketInv, Next, ~Crash
    PROVE  crashes' = crashes
<1>1. CASE AskBoundary
  <2>1. PICK status \in ProbeAnswers : Probe(At(rung.moe, Guess), status)
    BY <1>1 DEF AskBoundary
  <2>2. QED
    BY <1>1, <2>1, AskedConfig, ProbeEffect DEF AskBoundary
<1>2. CASE AskSpill
  <2>1. PICK status \in ProbeAnswers : Probe(At(MidSpill, HardCap), status)
    BY <1>2 DEF AskSpill
  <2>2. QED
    BY <1>2, <2>1, SpillConfig, ProbeEffect DEF AskSpill
<1>3. CASE MeasureNeighbour
  <2>1. PICK trial \in Trials : Evaluate(NextNeighbour, trial)
    BY <1>3 DEF MeasureNeighbour
  <2>2. QED
    BY <1>3, <2>1, NeighbourConfig, EvaluateEffect DEF MeasureNeighbour
<1>4. CASE MeasureFrontier
  <2>1. PICK trial \in Trials : Evaluate(Frontier, trial)
    BY <1>4 DEF MeasureFrontier
  <2>2. QED
    BY <2>1, FrontierConfig, EvaluateEffect
<1>5. CASE EnterRung \/ CloseBracket \/ LeaveRung \/ SkipSpill \/ StartSpill \/ CloseSpill
           \/ ExhaustBudget \/ Resume \/ Finished
  BY <1>5 DEF EnterRung, CloseBracket, LeaveRung, SkipSpill, StartSpill, CloseSpill,
     ExhaustBudget, Resume, Finished, vars, counters
<1>6. QED
  BY <1>1, <1>2, <1>3, <1>4, <1>5 DEF Next

(* The search of one rung gets on.                                         *)
LEMMA RungFalls ==
    ASSUME TypeOK, BracketInv, OrderInv,
           EnterRung \/ AskBoundary \/ CloseBracket \/ MeasureNeighbour \/ LeaveRung
    PROVE  pc' # "down" /\ FallsInProcess
<1>a. MachineOK /\ SearchOK /\ rung.used \in Nat
  BY TypeParts DEF TypeOK
<1>1. CASE EnterRung
  <2>1. pc = "ladder" /\ pc' \in {"first", "bracket"} /\ UNCHANGED rungs
    BY <1>a, <1>1, EnterIs DEF EnterRung
  <2>2. StageLeft' = StageLeft /\ RungsLeft' = RungsLeft /\ Turn' < Turn
    BY <2>1 DEF StageLeft, RungsLeft, Turn, Laddering, InRung
  <2>3. QED
    BY <2>1, <2>2 DEF FallsInProcess, FallsInStage, FallsInRung
<1>2. CASE AskBoundary
  <2>1. pc' \in {"zero", "bracket"} /\ rung'.used = rung.used + 1 /\ UNCHANGED rungs
    BY <1>a, <1>2, AskIs DEF AskBoundary
  <2>2. pc \in {"first", "zero", "bracket"} /\ (pc' = "zero" => pc = "first")
    BY <1>2 DEF AskBoundary, Asking
  <2>3. StageLeft' = StageLeft /\ RungsLeft' = RungsLeft
    BY <2>1, <2>2 DEF StageLeft, RungsLeft, Laddering, InRung
  <2>4. CASE pc # "bracket"
    <3>1. Turn' < Turn
      BY <2>1, <2>2, <2>4 DEF Turn
    <3>2. QED
      BY <2>1, <2>3, <3>1 DEF FallsInProcess, FallsInStage, FallsInRung
  <2>5. CASE pc = "bracket"
    <3>1. pc' = "bracket" /\ rung.used < ProbeFuse
      BY <1>2, <2>1, <2>2, <2>5 DEF AskBoundary, Asking, CanGrow, CanBisect
    <3>2. PICK f \in Nat : f = ProbeFuse
      BY SizeIs
    <3>3. ProbeFuse' = ProbeFuse
      BY DEF ProbeFuse
    <3>4. ToAsk' < ToAsk
      BY <1>a, <2>1, <2>5, <3>1, <3>2, <3>3 DEF ToAsk
    <3>5. Turn' = Turn
      BY <2>5, <3>1 DEF Turn
    <3>6. QED
      BY <2>3, <3>1, <3>4, <3>5 DEF FallsInProcess, FallsInStage, FallsInRung
  <2>6. QED
    BY <2>4, <2>5
<1>3. CASE CloseBracket
  <2>1. pc = "bracket" /\ pc' = "neighbours" /\ UNCHANGED rungs
    BY <1>3 DEF CloseBracket
  <2>2. StageLeft' = StageLeft /\ RungsLeft' = RungsLeft /\ Turn' < Turn
    BY <2>1 DEF StageLeft, RungsLeft, Turn, Laddering, InRung
  <2>3. QED
    BY <2>1, <2>2 DEF FallsInProcess, FallsInStage, FallsInRung
<1>4. CASE MeasureNeighbour
  <2>1. pc = "neighbours" /\ UNCHANGED <<pc, rungs>> /\ todo' = todo \ {NextNeighbour.ngl}
    BY <1>4 DEF MeasureNeighbour
  <2>2. NextNeighbour.ngl \in todo
    <3>1. todo \subseteq 0..NglAll /\ todo # {} /\ NglAll \in Nat
      BY <1>4, SizesAssumption DEF MeasureNeighbour, TypeOK, Layers
    <3>2. \E g \in todo : \A h \in todo : h <= g
      BY <3>1, LargestOf
    <3>3. QED
      BY <3>2 DEF NextNeighbour, At
  <2>3. IsFiniteSet(todo)
    <3>1. todo \subseteq 0..NglAll /\ IsFiniteSet(0..NglAll)
      <4>1. NglAll \in Int /\ 0 \in Int
        BY SizesAssumption
      <4>2. todo \subseteq 0..NglAll
        BY DEF TypeOK, Layers
      <4>3. QED
        BY <4>1, <4>2, FS_Interval
    <3>2. QED
      BY <3>1, FS_Subset
  <2>4. Cardinality(todo') < Cardinality(todo)
    <3>1. Cardinality(todo') = Cardinality(todo) - 1 /\ Cardinality(todo) \in Nat
      BY <2>1, <2>2, <2>3, FS_RemoveElement, FS_CardinalityType
    <3>2. QED
      BY <3>1
  <2>5. StageLeft' = StageLeft /\ RungsLeft' = RungsLeft /\ Turn' = Turn
    BY <2>1 DEF StageLeft, RungsLeft, Turn, Laddering, InRung
  <2>6. ToAsk' < ToAsk
    BY <2>1, <2>4 DEF ToAsk
  <2>7. QED
    BY <2>1, <2>5, <2>6 DEF FallsInProcess, FallsInStage, FallsInRung
<1>5. CASE LeaveRung
  <2>1. pc = "neighbours" /\ pc' = "ladder" /\ rungs' = rungs \ {rung.moe}
    BY <1>5 DEF LeaveRung
  <2>2. rung.moe \in rungs
    BY <2>1 DEF OrderInv, InRung
  <2>3. IsFiniteSet(rungs)
    <3>1. rungs \subseteq 0..NLayer /\ IsFiniteSet(0..NLayer)
      <4>1. NLayer \in Int /\ 0 \in Int
        BY SizesAssumption
      <4>2. rungs \subseteq 0..NLayer
        BY DEF TypeOK
      <4>3. QED
        BY <4>1, <4>2, FS_Interval
    <3>2. QED
      BY <3>1, FS_Subset
  <2>4. Cardinality(rungs') < Cardinality(rungs)
    <3>1. Cardinality(rungs') = Cardinality(rungs) - 1 /\ Cardinality(rungs) \in Nat
      BY <2>1, <2>2, <2>3, FS_RemoveElement, FS_CardinalityType
    <3>2. QED
      BY <3>1
  <2>5. StageLeft' = StageLeft /\ RungsLeft' < RungsLeft
    BY <2>1, <2>4 DEF StageLeft, RungsLeft, Laddering, InRung
  <2>6. QED
    BY <2>1, <2>5 DEF FallsInProcess, FallsInStage
<1>6. QED
  BY <1>1, <1>2, <1>3, <1>4, <1>5

(* So does the search for the smallest spill.                              *)
LEMMA SpillFalls ==
    ASSUME TypeOK,
           SkipSpill \/ StartSpill \/ AskSpill \/ CloseSpill \/ MeasureFrontier \/ ExhaustBudget
    PROVE  pc' # "down" /\ pc # "down" /\ FallsInProcess
<1>1. CASE AskSpill
  <2>1. SearchOK /\ SpillOpen /\ UNCHANGED <<pc, rungs>> /\ pc = "spill"
    BY <1>1, TypeParts DEF AskSpill, SpillOpen
  <2>2. /\ MidSpill \in 0..NLayer /\ spill.low < MidSpill /\ MidSpill < spill.high
        /\ spill.low \in 0..NLayer /\ spill.high \in 0..NLayer /\ NLayer \in Nat
        /\ spill \in [low : 0..NLayer, high : 0..NLayer]
    BY <2>1, MiddleIs, SizesAssumption DEF SpillOpen, SearchOK
  <2>3. \/ spill'.high = MidSpill /\ spill'.low = spill.low
        \/ spill'.high = spill.high /\ spill'.low = MidSpill
    <3>1. spill' \in {[spill EXCEPT !.high = MidSpill], [spill EXCEPT !.low = MidSpill]}
      BY <1>1 DEF AskSpill
    <3>2. QED
      BY <2>2, <3>1
  <2>4. ToAsk = spill.high - spill.low /\ ToAsk' = spill'.high - spill'.low
    BY <2>1, <2>2, <2>3 DEF ToAsk
  <2>5. ToAsk' < ToAsk
    BY <2>2, <2>3, <2>4
  <2>6. StageLeft' = StageLeft /\ RungsLeft' = RungsLeft /\ Turn' = Turn
    BY <2>1 DEF StageLeft, RungsLeft, Turn, Laddering, InRung
  <2>7. QED
    BY <2>1, <2>5, <2>6 DEF FallsInProcess, FallsInStage, FallsInRung
<1>2. CASE SkipSpill \/ StartSpill \/ CloseSpill \/ MeasureFrontier
  <2>1. \/ pc = "ladder" /\ pc' \in {"done", "spill"}
        \/ pc = "spill" /\ pc' = "frontier"
        \/ pc = "frontier" /\ pc' = "done"
    BY <1>2 DEF SkipSpill, StartSpill, CloseSpill, MeasureFrontier, LadderDone
  <2>2. QED
    BY <2>1 DEF StageLeft, Laddering, InRung, FallsInProcess
<1>3. CASE ExhaustBudget
  <2>1. pc' = "stopped" /\ pc \in {"first", "zero", "bracket", "neighbours", "spill", "frontier"}
    BY <1>3 DEF ExhaustBudget, NeedsChild, Asking, SpillOpen
  <2>2. QED
    BY <2>1 DEF StageLeft, Laddering, InRung, FallsInProcess
<1>4. QED
  BY <1>1, <1>2, <1>3

(***************************************************************************)
(* Joint discovery comes to its end, however often it is started again:    *)
(* every step of it, a crash and a resume included, lowers the height, and *)
(* there is no infinite descent from any height.  Within a rung the fuse   *)
(* bounds growth and bisection (which never reach it, FuseInv), and each   *)
(* rung of the ladder is visited once by a process.                        *)
(* (_joint_discovery, _discover_boundary, _bisect_minimum_spill)           *)
(***************************************************************************)
THEOREM SearchDescends == Spec => [][Descends]_vars
<1>1. ASSUME Inv, Inv', Next, ~Finished
      PROVE  Falls
  <2>1. TypeOK /\ MachineOK /\ JournalOK /\ SearchOK /\ BracketInv /\ OrderInv
    BY <1>1, TypeParts DEF Inv
  <2>2. crashes \in Nat /\ MaxCrashes \in Nat
    BY <2>1, SizesAssumption DEF TypeOK
  <2>3. CASE Crash
    <3>1. crashes < MaxCrashes /\ crashes' = crashes + 1
      BY <2>3 DEF Crash
    <3>2. QED
      BY <2>2, <3>1 DEF Coming, Falls
  <2>4. CASE ~Crash
    <3>1. crashes' = crashes
      BY <1>1, <2>1, <2>4, CrashesStay
    <3>2. Coming' = Coming
      BY <3>1 DEF Coming
    <3>3. CASE Resume
      <4>1. Down' < Down
        BY <3>3 DEF Resume, Down
      <4>2. QED
        BY <3>2, <4>1 DEF Falls
    <3>4. CASE EnterRung \/ AskBoundary \/ CloseBracket \/ MeasureNeighbour \/ LeaveRung
      <4>1. pc' # "down" /\ FallsInProcess
        BY <2>1, <3>4, RungFalls
      <4>2. pc # "down"
        BY <3>4 DEF EnterRung, AskBoundary, CloseBracket, MeasureNeighbour, LeaveRung, Asking
      <4>3. QED
        BY <3>2, <4>1, <4>2 DEF Down, Falls
    <3>5. CASE SkipSpill \/ StartSpill \/ AskSpill \/ CloseSpill \/ MeasureFrontier \/ ExhaustBudget
      <4>1. pc' # "down" /\ pc # "down" /\ FallsInProcess
        BY <2>1, <3>5, SpillFalls
      <4>2. QED
        BY <3>2, <4>1 DEF Down, Falls
    <3>6. QED
      BY <1>1, <2>4, <3>3, <3>4, <3>5 DEF Next
  <2>5. QED
    BY <2>3, <2>4
<1>2. Inv => HeightOK
  BY HeightIsNat DEF Inv
<1>3. Inv /\ Inv' /\ HeightOK /\ HeightOK' /\ [Next]_vars => [Descends]_vars
  <2>1. Finished => UNCHANGED vars
    BY DEF Finished
  <2>2. QED
    BY <1>1, <2>1, FallsInOrder
<1>4. QED
  BY <1>2, <1>3, Inductive, PTL DEF Spec
=============================================================================
