--------------------------- MODULE BoundarySearch ---------------------------
(***************************************************************************)
(* The first stage of the tuning search, joint discovery: for each rung of *)
(* MoE layers kept on the CPU, how many layers fit on the GPU, then the    *)
(* smallest spill that fits them all.  The engine asks by running the      *)
(* benchmark; it remembers the answers in the journal, so a resumed search *)
(* replays the whole stage and only runs what it had not asked before.     *)
(*                                                                         *)
(* A configuration is a (CPU MoE layers, GPU layers) pair: joint discovery *)
(* changes no other field.  What the machine answers is up to the          *)
(* environment: answers[c] holds the statuses a run of c may come back     *)
(* with, scoring[c] the score it measures, both fixed for a behaviour.     *)
(* Context probes (a requested --ctx-size), thermal retests and stability  *)
(* reruns of a trial are left to TuneEngine.                               *)
(***************************************************************************)
EXTENDS Integers, FiniteSets

CONSTANTS
    NglAll,        \* GPU layers of the model (model.ngl_all)
    NLayer,        \* layers of an MoE model, 0 for a dense one
    OptionSets,    \* the command lines and baselines considered
    AnswerSets,    \* the machines considered: functions Config -> SUBSET Status
    Scorings,      \* the score functions considered: Config -> Nat
    MaxCrashes,    \* bound: crashes of the process
    None           \* Python's None

Config == [moe : 0..NLayer, ngl : 0..NglAll]
Status == {"ok", "oom", "crash"}

\* max_ngl: --max-gpu-layers, NglAll when absent; initial_ngl, initial_moe:
\* --initial-gpu-layers and --initial-cpu-moe; default: the placement the search
\* starts from, which keeps no MoE layer on the CPU; verified: it was measured as
\* the llama.cpp default; limit: the executions _can_execute allows this stage.
Options ==
    [max_ngl : 0..NglAll, initial_ngl : Nat \cup {None}, initial_moe : Nat \cup {None},
     default : [moe : {0}, ngl : 0..NglAll], verified : BOOLEAN, limit : Nat]

ASSUME SizesAssumption ==
    /\ NglAll \in Nat /\ NLayer \in Nat
    /\ MaxCrashes \in Nat
    /\ None \notin Int
ASSUME MachineAssumption ==
    /\ \A o \in OptionSets : o \in Options
    /\ \A f \in AnswerSets : f \in [Config -> SUBSET Status]
    /\ \A f \in Scorings : f \in [Config -> Nat]

VARIABLES
    options,           \* the command line and the baseline it led to
    answers, scoring,  \* the machine
    probes,    \* journal: status of every boundary probe, by configuration
    known,     \* journal: status and score of every trial
    recorded,  \* journal: the boundary records
    ooms,      \* memory: OOM points that prune dominated probes
    executed,  \* memory: executed_count
    children,  \* history: benchmark children ever started
    crashes,   \* history
    pc,        \* where joint discovery stands
    rungs,     \* rungs of the ladder still to visit
    rung,      \* the current rung, [moe, cap, low, failed, used]
    todo,      \* neighbours of the boundary still to measure
    warm,      \* warm_cap for the next rung
    found,     \* memory: self.boundaries
    spill,     \* bisection for the minimum spill, [low, high]
    incumbent  \* memory: [cfg, score]

machine == <<options, answers, scoring>>
journal == <<probes, known, recorded>>
counters == <<executed, children, crashes>>
search == <<pc, rungs, rung, todo, warm, found, spill, incumbent>>
vars == <<machine, journal, ooms, counters, search>>

----------------------------------------------------------------------------
HardCap == options.max_ngl

\* round(k * NLayer / 4), Python's round: halves go to the even neighbour.
Quarter(k) ==
    LET q == (k * NLayer) \div 4
        r == (k * NLayer) % 4
    IN  IF r < 2 \/ (r = 2 /\ q % 2 = 0) THEN q ELSE q + 1

Ladder ==
    IF HardCap > 0 /\ NLayer > 0
    THEN {Quarter(k) : k \in 0..4}
           \cup (IF options.initial_moe = None THEN {}
                 ELSE {IF options.initial_moe < NLayer THEN options.initial_moe ELSE NLayer})
    ELSE {0}

\* The initial rung first, the others from the most CPU layers to none.
NextRung ==
    IF options.initial_moe \in rungs THEN options.initial_moe
    ELSE CHOOSE m \in rungs : \A n \in rungs : n <= m

\* h halves n down to nothing in k steps.
Halving(h, n, k) ==
    /\ h[0] = n /\ h[k] = 0
    /\ \A i \in 0..(k - 1) : h[i] > 0 /\ h[i + 1] = h[i] \div 2

\* int.bit_length
BitLength(n) == CHOOSE k \in 0..n : \E h \in [0..k -> 0..n] : Halving(h, n, k)

\* Mutant of ProbeFuse: growth and bisection share one logarithm.
ShortFuse == BitLength(IF NglAll > 1 THEN NglAll ELSE 1)

\* A bound on the probes of one rung that no rung should reach.
ProbeFuse == 2 * BitLength(IF NglAll > 1 THEN NglAll ELSE 1) + 4

At(m, g) == [moe |-> m, ngl |-> g]

Lesser(a, b) == IF a < b THEN a ELSE b
Greater(a, b) == IF a < b THEN b ELSE a

\* Mutant of Pruned: the GPU layers compared the wrong way round.
PrunedBelow(c) ==
    \/ c.ngl > HardCap
    \/ \E o \in ooms : c.ngl <= o.ngl /\ c.moe <= o.moe

\* Monotone pruning: more on the GPU than a configuration that ran out.
Pruned(c) ==
    \/ c.ngl > HardCap
    \/ \E o \in ooms : c.ngl >= o.ngl /\ c.moe <= o.moe

\* Mutant of CanExecute: one execution too many.
CanExecuteOneMore == executed <= options.limit

CanExecute == executed < options.limit

HasFit(b) == ~(b.max_ok = 0 /\ b.min_fail = 0)

\* What the journal makes a resumed engine count as executed.
JournaledExecutions ==
    Cardinality({c \in DOMAIN probes : probes[c] # "pruned"}) + Cardinality(DOMAIN known)

With(f, c, v) == [d \in DOMAIN f \cup {c} |-> IF d = c THEN v ELSE f[d]]

----------------------------------------------------------------------------
NoRung == [moe |-> 0, cap |-> 0, low |-> None, failed |-> None, used |-> 0]
NoSpill == [low |-> 0, high |-> 0]

Start ==
    /\ pc = "ladder"
    /\ rungs = Ladder
    /\ rung = NoRung
    /\ todo = {}
    /\ warm = None
    /\ found = {}
    /\ spill = NoSpill
    /\ incumbent = [cfg |-> options.default, score |-> 1]

Init ==
    /\ options \in OptionSets
    /\ answers \in AnswerSets
    /\ scoring \in Scorings
    /\ probes = [c \in {} |-> "ok"]
    /\ known = [c \in {} |-> [status |-> "ok", score |-> 0]]
    /\ recorded = {}
    /\ ooms = {}
    /\ executed = 0 /\ children = 0 /\ crashes = 0
    /\ Start

\* Mutant of Asked: a resumed engine forgets the probes of the journal.
NeverAsked(c) == FALSE

Asked(c) == c \in DOMAIN probes

\* _probe(c): the journaled answer, a free pruning, or a child and its record.
Probe(c, status) ==
    \/ /\ Asked(c)
       /\ status = probes[c]
       /\ UNCHANGED <<journal, ooms, counters>>
    \/ /\ ~Asked(c)
       /\ Pruned(c)
       /\ status = "pruned"
       /\ probes' = With(probes, c, status)
       /\ UNCHANGED <<known, recorded, ooms, counters>>
    \/ /\ ~Asked(c)
       /\ ~Pruned(c)
       /\ CanExecute
       /\ status \in answers[c]
       /\ probes' = With(probes, c, status)
       /\ executed' = executed + 1
       /\ children' = children + 1
       /\ ooms' = IF status = "oom" THEN ooms \cup {c} ELSE ooms
       /\ UNCHANGED <<known, recorded, crashes>>

ProbeAnswers == Status \cup {"pruned"}

\* _evaluate(c): the journaled trial, or a child and its record.
Evaluate(c, trial) ==
    \/ /\ c \in DOMAIN known
       /\ trial = known[c]
       /\ UNCHANGED <<journal, ooms, counters>>
    \/ /\ c \notin DOMAIN known
       /\ CanExecute
       /\ \E status \in answers[c] :
             /\ trial = [status |-> status,
                         score |-> IF status = "ok" THEN scoring[c] ELSE 0]
             /\ ooms' = IF status = "oom" THEN ooms \cup {c} ELSE ooms
       /\ known' = With(known, c, trial)
       /\ executed' = executed + 1
       /\ children' = children + 1
       /\ UNCHANGED <<probes, recorded, crashes>>

Trials == [status : Status, score : {0} \cup {scoring[c] : c \in Config}]

Promoted(c, trial) ==
    IF trial.status = "ok" /\ trial.score > incumbent.score
    THEN [cfg |-> c, score |-> trial.score]
    ELSE incumbent

----------------------------------------------------------------------------
\* _discover_boundary enters a rung: a warm start caps it at what the rung
\* before it could place, and a measured default needs no first probe.
EnterRung ==
    /\ pc = "ladder"
    /\ rungs # {}
    /\ LET m == NextRung
           cap == IF warm = None THEN HardCap ELSE Lesser(HardCap, warm)
           measured == options.verified /\ At(m, incumbent.cfg.ngl) = options.default /\ options.default.ngl <= cap
       IN  /\ rung' = [moe |-> m, cap |-> cap, failed |-> None, used |-> 0,
                       low |-> IF measured THEN options.default.ngl ELSE None]
           /\ pc' = IF measured THEN "bracket" ELSE "first"
    /\ UNCHANGED <<machine, journal, ooms, counters, rungs, todo, warm, found,
                   spill, incumbent>>

FirstGuess ==
    IF options.initial_ngl = None \/ options.initial_ngl > rung.cap THEN Lesser(rung.cap, 1)
    ELSE options.initial_ngl

CanGrow ==
    rung.low # None /\ rung.low < rung.cap /\ rung.failed = None /\ rung.used < ProbeFuse

CanBisect ==
    /\ rung.low # None /\ rung.failed # None
    /\ rung.failed - rung.low > 1 /\ rung.used < ProbeFuse

Asking == pc \in {"first", "zero"} \/ (pc = "bracket" /\ (CanGrow \/ CanBisect))

Guess ==
    CASE pc = "first" -> FirstGuess
      [] pc = "zero"  -> 0
      [] OTHER        -> IF CanGrow
                         THEN Lesser(rung.cap, Greater(rung.low + 1, 2 * rung.low))
                         ELSE (rung.low + rung.failed) \div 2

\* The answer moves the bracket; only a first failure above zero asks for zero.
Narrowed(status) ==
    IF status = "ok" THEN [rung EXCEPT !.used = @ + 1, !.low = Guess]
                     ELSE [rung EXCEPT !.used = @ + 1, !.failed = Guess]

AskBoundary ==
    /\ Asking
    /\ \E status \in ProbeAnswers :
          /\ Probe(At(rung.moe, Guess), status)
          /\ rung' = Narrowed(status)
          /\ pc' = IF pc = "first" /\ status # "ok" /\ Guess > 0 THEN "zero" ELSE "bracket"
    /\ UNCHANGED <<machine, rungs, todo, warm, found, spill, incumbent>>

\* Mutant of Neighbours: two layers below the boundary, below zero too.
NeighboursBelowZero == {rung.low - d : d \in 0..2}

Neighbours == {Greater(0, rung.low - d) : d \in 0..2}

\* The bracket is closed: measure its lower end and two neighbours below it.
CloseBracket ==
    /\ pc = "bracket"
    /\ ~CanGrow /\ ~CanBisect
    /\ pc' = "neighbours"
    /\ todo' = IF rung.low = None THEN {} ELSE Neighbours
    /\ UNCHANGED <<machine, journal, ooms, counters, rungs, rung, warm, found,
                   spill, incumbent>>

NextNeighbour == At(rung.moe, CHOOSE g \in todo : \A h \in todo : h <= g)

MeasureNeighbour ==
    /\ pc = "neighbours"
    /\ todo # {}
    /\ \E trial \in Trials :
          /\ Evaluate(NextNeighbour, trial)
          /\ incumbent' = Promoted(NextNeighbour, trial)
    /\ todo' = todo \ {NextNeighbour.ngl}
    /\ UNCHANGED <<machine, pc, rungs, rung, warm, found, spill>>

\* Neighbours that ran, best score first and, of equals, most GPU layers first.
Compliant ==
    IF rung.low = None THEN {}
    ELSE {c \in {At(rung.moe, g) : g \in Neighbours} : known[c].status = "ok"}

BestCompliant ==
    CHOOSE c \in Compliant :
        \A d \in Compliant :
            \/ known[d].score < known[c].score
            \/ known[d].score = known[c].score /\ d.ngl <= c.ngl

Boundary ==
    [moe |-> rung.moe, max_ok |-> IF rung.low = None THEN 0 ELSE rung.low,
     min_fail |-> rung.failed, used |-> rung.used, cap |-> rung.cap]

\* An incumbent above --max-gpu-layers gives way; the boundary is journaled.
LeaveRung ==
    /\ pc = "neighbours"
    /\ todo = {}
    /\ incumbent' = IF incumbent.cfg.ngl > HardCap /\ Compliant # {}
                    THEN [cfg |-> BestCompliant, score |-> known[BestCompliant].score]
                    ELSE incumbent
    /\ recorded' = recorded \cup {Boundary}
    /\ found' = found \cup {Boundary}
    /\ warm' = IF HasFit(Boundary) THEN Boundary.max_ok ELSE None
    /\ rungs' = rungs \ {rung.moe}
    /\ pc' = "ladder"
    /\ UNCHANGED <<machine, probes, known, ooms, counters, rung, todo, spill>>

----------------------------------------------------------------------------
\* Mutant of FullRungs: a rung is full when it reaches its own cap.
CappedRungs == {b.moe : b \in {f \in found : HasFit(f) /\ f.max_ok = f.cap}}

\* _bisect_minimum_spill: between the smallest rung that placed every layer and
\* the largest smaller one that did not.
FullRungs == {b.moe : b \in {f \in found : HasFit(f) /\ f.max_ok = HardCap}}

SmallestFull == CHOOSE m \in FullRungs : \A n \in FullRungs : m <= n

PartialBelow ==
    {b.moe : b \in {f \in found : HasFit(f) /\ f.max_ok < HardCap /\ f.moe < SmallestFull}}

SpillWanted == NLayer > 0 /\ FullRungs # {} /\ PartialBelow # {}

LadderDone == pc = "ladder" /\ rungs = {}

SkipSpill ==
    /\ LadderDone
    /\ ~SpillWanted
    /\ pc' = "done"
    /\ UNCHANGED <<machine, journal, ooms, counters, rungs, rung, todo, warm, found,
                   spill, incumbent>>

StartSpill ==
    /\ LadderDone
    /\ SpillWanted
    /\ spill' = [high |-> SmallestFull,
                 low |-> CHOOSE m \in PartialBelow : \A n \in PartialBelow : n <= m]
    /\ pc' = "spill"
    /\ UNCHANGED <<machine, journal, ooms, counters, rungs, rung, todo, warm, found,
                   incumbent>>

\* The loop also ends when the budget is gone, journaled answers or not.
SpillOpen == pc = "spill" /\ spill.high - spill.low > 1 /\ CanExecute

MidSpill == (spill.low + spill.high) \div 2

AskSpill ==
    /\ SpillOpen
    /\ \E status \in ProbeAnswers :
          /\ Probe(At(MidSpill, HardCap), status)
          /\ spill' = IF status = "ok" THEN [spill EXCEPT !.high = MidSpill]
                                       ELSE [spill EXCEPT !.low = MidSpill]
    /\ UNCHANGED <<machine, pc, rungs, rung, todo, warm, found, incumbent>>

\* How many probes it took is left out; nothing depends on it.
SpillBoundary ==
    [moe |-> spill.high, max_ok |-> HardCap, min_fail |-> None, used |-> 0, cap |-> HardCap]

\* A frontier no rung of the ladder recorded is recorded too.
CloseSpill ==
    /\ pc = "spill"
    /\ ~SpillOpen
    /\ IF \E b \in found : b.moe = spill.high
       THEN UNCHANGED <<recorded, found>>
       ELSE /\ recorded' = recorded \cup {SpillBoundary}
            /\ found' = found \cup {SpillBoundary}
    /\ pc' = "frontier"
    /\ UNCHANGED <<machine, probes, known, ooms, counters, rungs, rung, todo, warm,
                   spill, incumbent>>

Frontier == At(spill.high, HardCap)

MeasureFrontier ==
    /\ pc = "frontier"
    /\ \E trial \in Trials :
          /\ Evaluate(Frontier, trial)
          /\ incumbent' = Promoted(Frontier, trial)
    /\ pc' = "done"
    /\ UNCHANGED <<machine, rungs, rung, todo, warm, found, spill>>

----------------------------------------------------------------------------
\* The next step runs a child: nothing remembers or prunes what it asks.
NeedsChild ==
    \/ /\ Asking
       /\ ~Asked(At(rung.moe, Guess))
       /\ ~Pruned(At(rung.moe, Guess))
    \/ pc = "neighbours" /\ todo # {} /\ NextNeighbour \notin DOMAIN known
    \/ /\ SpillOpen
       /\ ~Asked(At(MidSpill, HardCap))
       /\ ~Pruned(At(MidSpill, HardCap))
    \/ pc = "frontier" /\ Frontier \notin DOMAIN known

\* _BudgetExhaustedError: the search stage ends where it is.
ExhaustBudget ==
    /\ NeedsChild
    /\ ~CanExecute
    /\ pc' = "stopped"
    /\ UNCHANGED <<machine, journal, ooms, counters, rungs, rung, todo, warm, found,
                   spill, incumbent>>

\* The process dies between two steps, or after a child ran and before its
\* record is journaled: the next process does not know that child.
Crash ==
    /\ pc \notin {"down", "done", "stopped"}
    /\ crashes < MaxCrashes
    /\ crashes' = crashes + 1
    /\ \/ UNCHANGED children
       \/ NeedsChild /\ CanExecute /\ children' = children + 1
    /\ pc' = "down"
    /\ UNCHANGED <<machine, journal, ooms, executed, rungs, rung, todo, warm, found,
                   spill, incumbent>>

\* resume_tuning builds a new engine from the journal and starts over.  Only
\* trial records bring OOM points back.
Resume ==
    /\ pc = "down"
    /\ executed' = JournaledExecutions
    /\ ooms' = {c \in DOMAIN known : known[c].status = "oom"}
    /\ pc' = "ladder"
    /\ rungs' = Ladder
    /\ rung' = NoRung
    /\ todo' = {}
    /\ warm' = None
    /\ found' = {}
    /\ spill' = NoSpill
    /\ incumbent' = [cfg |-> options.default, score |-> 1]
    /\ UNCHANGED <<machine, journal, children, crashes>>

Finished == pc \in {"done", "stopped"} /\ UNCHANGED vars

Next ==
    \/ EnterRung
    \/ AskBoundary
    \/ CloseBracket
    \/ MeasureNeighbour
    \/ LeaveRung
    \/ SkipSpill
    \/ StartSpill
    \/ AskSpill
    \/ CloseSpill
    \/ MeasureFrontier
    \/ ExhaustBudget
    \/ Crash
    \/ Resume
    \/ Finished

Spec == Init /\ [][Next]_vars

----------------------------------------------------------------------------
Layers == 0..NglAll
BoundaryRecord ==
    [moe : 0..NLayer, max_ok : Layers, min_fail : Layers \cup {None}, used : Nat, cap : Layers]

TypeOK ==
    /\ options \in OptionSets /\ answers \in AnswerSets /\ scoring \in Scorings
    /\ DOMAIN probes \subseteq Config
    /\ \A c \in DOMAIN probes : probes[c] \in ProbeAnswers
    /\ DOMAIN known \subseteq Config
    /\ \A c \in DOMAIN known : known[c] \in [status : Status, score : Nat]
    /\ recorded \subseteq BoundaryRecord
    /\ ooms \subseteq Config
    /\ executed \in Nat /\ children \in Nat /\ crashes \in Nat
    /\ pc \in {"ladder", "first", "zero", "bracket", "neighbours", "spill", "frontier",
               "done", "stopped", "down"}
    /\ rungs \subseteq 0..NLayer
    /\ rung \in [moe : 0..NLayer, cap : Layers, low : Layers \cup {None},
                 failed : Layers \cup {None}, used : Nat]
    /\ todo \subseteq Layers
    /\ warm \in Layers \cup {None}
    /\ found \subseteq BoundaryRecord
    /\ spill \in [low : 0..NLayer, high : 0..NLayer]
    /\ incumbent \in [cfg : Config, score : Nat]

(***************************************************************************)
(* A recorded boundary is final: it sits at its cap, or its first failure  *)
(* is the very next layer, or nothing fits at all.  The probe fuse of      *)
(* _discover_boundary therefore never cuts a search short.                 *)
(***************************************************************************)
BoundariesAreTight ==
    \A b \in recorded :
        \/ ~HasFit(b)
        \/ b.max_ok = b.cap /\ b.min_fail = None
        \/ b.min_fail = b.max_ok + 1

\* A machine on which the largest placement that fits is well defined, and
\* spilling more experts to the CPU never makes less fit.
Monotone ==
    \A c \in Config : "ok" \in answers[c] =>
        /\ answers[c] = {"ok"}
        /\ c.ngl > 0 => answers[At(c.moe, c.ngl - 1)] = {"ok"}
        /\ c.moe < NLayer => answers[At(c.moe + 1, c.ngl)] = {"ok"}

Fits(c) == answers[c] = {"ok"}

\* A measured baseline did run, on this machine.
ConsistentBaseline == options.verified => Fits(options.default)

(***************************************************************************)
(* On a monotone machine the boundary of a rung is the true one: a warm    *)
(* start from the rung before, and pruning by earlier OOMs, never hide a   *)
(* placement that fits.  Without --initial-cpu-moe, which visits its own   *)
(* rung out of order.                                                      *)
(***************************************************************************)
BoundariesAreMaximal ==
    options.initial_moe = None /\ ConsistentBaseline /\ Monotone =>
        \A b \in recorded :
            \A g \in 0..HardCap : Fits(At(b.moe, g)) <=> HasFit(b) /\ g <= b.max_ok

\* A boundary that joint discovery records is both final and the true one.
BoundariesAreTrue == BoundariesAreTight /\ BoundariesAreMaximal

(***************************************************************************)
(* On a monotone machine a finished bisection names the smallest spill     *)
(* that still puts every allowed layer on the GPU.                         *)
(***************************************************************************)
SpillIsMinimal ==
    pc = "frontier" /\ Monotone /\ spill.high - spill.low = 1 =>
        Fits(Frontier) /\ ~Fits(At(spill.low, HardCap))

(***************************************************************************)
(* A resumed search retraces its steps: every boundary journaled for a     *)
(* rung, before and after any crash, is the same boundary.                 *)
(***************************************************************************)
ReplayAgrees == \A a, b \in recorded : a.moe = b.moe => a = b

(***************************************************************************)
(* The budget bounds what the machine is made to run, over all processes:  *)
(* a crash costs at most the one child whose record it took.               *)
(***************************************************************************)
BudgetHolds == children <= options.limit + crashes

=============================================================================
