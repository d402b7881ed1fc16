------------------------------- MODULE Ascent -------------------------------
(***************************************************************************)
(* The search that follows joint discovery: the placements of a multi-GPU  *)
(* machine, up to three passes of coordinate sweeps, then the refinements, *)
(* each stage proposing mutations of the incumbent and promoting the ones  *)
(* that measure better.  A measurement is asked of the benchmark once and  *)
(* journaled; a resumed search starts over and finds the answers there.    *)
(*                                                                         *)
(* A stage is a sequence of mutations still to try.  The machine answers   *)
(* as the operators Answers and ProbeAnswers allow.  Candidates run one by *)
(* one (--no-batched-trials) and nothing exceeds --max-gpu-layers: batches *)
(* and the cap, like thermal retests and reruns, are in TuneEngine.        *)
(***************************************************************************)
EXTENDS Integers, Sequences, FiniteSets, SequencesExt

CONSTANTS
    Settings,           \* command lines, models and machines considered
    UbatchCandidates, BatchCandidates,
    Answers(_, _),      \* outcomes a machine may give the benchmark of a configuration
    ProbeAnswers(_, _, _), \* statuses it may give a probe at a context size
    Noise,              \* the noise floor, in percent
    MaxLost,            \* bound: processes that die
    MaxResumes,         \* bound: resumes
    None                \* Python's None

\* A probe at NoCtx is one of the benchmark's own size.
NoCtx == 0
Outcome(status, score) == [status |-> status, score |-> score]

Fields ==
    {"gpu_layers", "moe_cpu_layers", "flash_attn", "ubatch", "batch", "threads", "threads_batch",
     "mmap", "no_kv_offload", "cache_type_k", "cache_type_v", "placement", "ot_spec"}

\* is_valid_config, for what a mutation can break.
ValidFor(s, cfg) ==
    /\ cfg.gpu_layers <= s.layers
    /\ IF s.experts > 0 THEN cfg.moe_cpu_layers <= s.experts ELSE cfg.moe_cpu_layers = 0
    /\ cfg.ubatch <= cfg.batch
    /\ cfg.cache_type_v # "f16" => cfg.flash_attn
    /\ cfg.threads \in 1..s.cores.logical
    /\ s.gpu \/ cfg.gpu_layers = 0

ASSUME BoundsAssumption ==
    /\ Noise \in Nat /\ MaxLost \in Nat /\ MaxResumes \in Nat
    /\ UbatchCandidates \in Seq(Nat) /\ BatchCandidates \in Seq(Nat)

\* Joint discovery hands over a valid configuration, measured or the default.
ASSUME SettingsAssumption ==
    \A s \in Settings :
        /\ s.start.cfg = [f \in Fields |-> s.start.cfg[f]] /\ s.start.score \in Nat
        /\ s.start.cfg.moe_cpu_layers \in Nat /\ ValidFor(s, s.start.cfg)
        /\ s.measured \/ s.start.cfg = s.default
        /\ s.budget \in Nat /\ s.reserve \in 0..s.budget /\ s.runs \in Nat
        /\ s.layers \in Nat /\ s.experts \in Nat
        /\ s.cores.physical \in Nat /\ s.cores.logical \in Nat /\ s.cores.fast \in Nat
        /\ s.vram \in Seq(Nat)

VARIABLES
    setting,   \* the command line, the model and the machine
    trials,    \* journal: outcome of every trial
    probes,    \* journal: status of every probe, by configuration and context
    journaled, \* journal: entries that _count_executed counts
    executed,  \* memory: executed_count
    ooms,      \* memory: oom_points
    stop,      \* memory: _stop_requested
    expired,   \* the wall-clock budget has run out
    pc,        \* the stage
    at,        \* the pass, the dimension, and where the stage began
    todo,      \* mutations the stage has still to try
    tried,     \* pairwise mutations measured
    heard,     \* the candidate being judged, or None
    best,      \* the best candidate of the sweep, [cfg, score]
    climb,     \* the hill climb, [direction, step, misses, started, before, visited]
    incumbent, \* memory: [cfg, score]
    children,  \* history: benchmark children ever started
    lost,      \* history: processes that died
    resumes,   \* history
    settled,   \* history: best incumbent that placements and sweeps alone reached
    replayable \* history: the process has only made such promotions

journal == <<trials, probes, journaled>>
signals == <<stop, expired>>
stage == <<pc, at, todo, tried, heard, best, climb>>
counts == <<children, lost, resumes>>
history == <<settled, replayable>>
searchVars == <<setting, journal, executed, ooms, signals, stage, incumbent, counts, history>>

----------------------------------------------------------------------------
Dimensions ==
    <<"flash_attn", "ubatch", "batch", "threads", "threads_batch", "mmap",
      "no_kv_offload", "cache_type_k", "cache_type_v">>
CacheTypes == <<"f16", "q8_0", "q4_0">>
MaxPasses == 3
ClimbSteps == <<1, 2, 4, 8>>
PairwiseTries == 8
ClimbRuns == 12

Dim == Dimensions[at.dim]
ThreadDims == {"threads", "threads_batch"}
ProbedDims == {"ubatch", "batch", "no_kv_offload", "cache_type_k", "cache_type_v"}

Smaller(a, b) == IF a < b THEN a ELSE b
Larger(a, b) == IF a < b THEN b ELSE a
Clamp(n, low, high) == Smaller(high, Larger(low, n))

\* round(n / 2), Python's round: halves go to the even neighbour.
HalfRounded(n) == IF n % 4 = 3 THEN (n + 1) \div 2 ELSE n \div 2

Ascending(S) ==
    [i \in 1..Cardinality(S) |-> CHOOSE n \in S : Cardinality({m \in S : m <= n}) = i]

\* half, all and logical cores, the middles between them, and the fast ones.
ThreadCandidates ==
    LET physical == setting.cores.physical
        logical == setting.cores.logical
        half == Larger(1, HalfRounded(physical))
        raw == {physical, half, logical, HalfRounded(half + physical),
                HalfRounded(physical + logical)}
                 \cup (IF setting.cores.fast > 0 THEN {setting.cores.fast} ELSE {})
    IN  {Clamp(n, 1, logical) : n \in raw}

IsMoe == setting.experts > 0

\* Which dimensions apply depends on the incumbent too.
Applicable(dim, cfg) ==
    CASE dim = "flash_attn" -> "fa" \in setting.caps
      [] dim = "threads" -> cfg.gpu_layers < setting.layers \/ ~setting.gpu
                              \/ cfg.moe_cpu_layers > 0
      [] dim = "threads_batch" -> "tb" \in setting.caps
                              /\ (cfg.gpu_layers < setting.layers \/ ~setting.gpu
                                    \/ cfg.moe_cpu_layers > 0)
      [] dim = "mmap" -> "mmp" \in setting.caps
      [] dim = "no_kv_offload" -> setting.gpu /\ "nkvo" \in setting.caps
                              /\ (setting.pressure \/ cfg.no_kv_offload)
      [] dim = "cache_type_k" -> setting.lossy /\ "ctk" \in setting.caps
      [] dim = "cache_type_v" -> setting.lossy /\ "ctv" \in setting.caps /\ cfg.flash_attn
      [] OTHER -> TRUE

Candidates(dim, cfg) ==
    IF ~Applicable(dim, cfg) THEN <<>>
    ELSE CASE dim \in ThreadDims -> Ascending(ThreadCandidates)
           [] dim = "ubatch" -> UbatchCandidates
           [] dim = "batch" -> BatchCandidates
           [] dim = "mmap" -> <<TRUE, FALSE>>
           [] dim \in {"cache_type_k", "cache_type_v"} -> CacheTypes
           [] OTHER -> <<FALSE, TRUE>>

Valid(cfg) == ValidFor(setting, cfg)

----------------------------------------------------------------------------
(* What each stage proposes: fields to set, and a change of CPU MoE layers. *)
Mutation(set, shift) == [set |-> set, shift |-> shift]
Setting(set) == Mutation(set, 0)

Applied(m, cfg) ==
    LET changed == [f \in DOMAIN cfg |-> IF f \in DOMAIN m.set THEN m.set[f] ELSE cfg[f]]
    IN  [changed EXCEPT !.moe_cpu_layers =
            IF m.shift = 0 THEN @ ELSE Clamp(@ + m.shift, 0, setting.experts)]

\* dict.fromkeys: the first occurrence of each element.
Distinct(seq) ==
    LET order == Ascending({i \in DOMAIN seq : \A j \in 1..(i - 1) : seq[j] # seq[i]})
    IN  [k \in DOMAIN order |-> seq[order[k]]]

\* Every x with every y, the x's slowest.
Crossed(xs, ys, Pair(_, _)) ==
    [k \in 1..(Len(xs) * Len(ys)) |->
        Pair(xs[((k - 1) \div Len(ys)) + 1], ys[((k - 1) % Len(ys)) + 1])]

\* Proportional to the memory, even, and everything on one device.
Placements ==
    LET n == Len(setting.vram)
        one(d) == [i \in 1..n |-> IF i = d THEN 1 ELSE 0]
        even == [i \in 1..n |-> 1]
        splits == Distinct(<<setting.vram, even>> \o [d \in 1..n |-> one(d)])
    IN  IF n < 2 THEN <<>>
        ELSE Crossed(splits, <<"layer", "row">>, LAMBDA split, mode : <<split, mode>>)

Proposed(dim, values) == [i \in DOMAIN values |-> Setting([f \in {dim} |-> values[i]])]

\* The nearest candidates on each side of a value, as sequences of one or none.
Below(values, value) ==
    LET less == {v \in values : v < value}
    IN  IF less = {} THEN <<>> ELSE <<CHOOSE v \in less : \A u \in less : u <= v>>

Above(values, value) ==
    LET more == {v \in values : v > value}
    IN  IF more = {} THEN <<>> ELSE <<CHOOSE v \in more : \A u \in more : v <= u>>

ThreadValues(dim, cfg) == IF Applicable(dim, cfg) THEN ThreadCandidates ELSE {}

\* The middles between the incumbent's value and its neighbours.
Refinements(dim, cfg) ==
    LET value == cfg[dim]
        sides == Below(ThreadValues(dim, cfg), value) \o Above(ThreadValues(dim, cfg), value)
    IN  IF value = None THEN <<>>
        ELSE Proposed(dim, [i \in DOMAIN sides |-> (sides[i] + value) \div 2])

\* _neighbor_values: the value between the one below it and the one above it.
Neighbors(values, value) == Below(values, value) \o <<value>> \o Above(values, value)

PairwiseMutations(cfg) ==
    Crossed(Neighbors(Range(UbatchCandidates), cfg.ubatch),
            Neighbors(Range(BatchCandidates), cfg.batch),
            LAMBDA u, b : Setting([ubatch |-> u, batch |-> b]))

CrossMutations(cfg) ==
    IF cfg.moe_cpu_layers = 0 THEN <<>>
    ELSE Crossed(Below(ThreadValues("threads", cfg), cfg.threads)
                   \o Above(ThreadValues("threads", cfg), cfg.threads),
                 <<-1, 1>>,
                 LAMBDA t, delta : Mutation([threads |-> t], delta))

JointMutations(cfg) ==
    LET place(dc, dg) ==
            Setting([gpu_layers |-> Clamp(cfg.gpu_layers + dg, 0, setting.layers),
                     moe_cpu_layers |-> Clamp(cfg.moe_cpu_layers + dc, 0, setting.experts)])
        offsets == <<-2, -1, 1, 2>>
        experts == IF IsMoe /\ "ncmoe" \in setting.caps /\ setting.layers > 0
                   THEN [i \in DOMAIN offsets |-> place(offsets[i], 0)] ELSE <<>>
    IN  experts \o [i \in DOMAIN offsets |-> place(0, offsets[i])]

\* Which layers keep their experts on the CPU: the first, the last, spread
\* ones, or half of the tensors of twice as many.
OverrideSpecs(count) ==
    LET n == setting.experts
        spread(k) == {l \in 0..(n - 1) : l % (n \div k) = 0 /\ l \div (n \div k) < k}
        many == Smaller(n, 2 * count)
    IN  Distinct(<<<<"exps", 0..(count - 1)>>, <<"exps", (n - count)..(n - 1)>>,
                   <<"exps", spread(count)>>, <<"up_down_exps", spread(many)>>>>)

OverrideMutations(cfg) ==
    IF setting.ot_search /\ IsMoe /\ "ot" \in setting.caps /\ cfg.moe_cpu_layers > 0
    THEN LET specs == OverrideSpecs(cfg.moe_cpu_layers)
         IN  [i \in DOMAIN specs |-> Setting([ot_spec |-> specs[i], moe_cpu_layers |-> 0])]
    ELSE <<>>

Mutations(name, dim, cfg) ==
    CASE name = "split" -> Proposed("placement", Placements)
      [] name = "sweep" -> Proposed(dim, Candidates(dim, cfg))
      [] name = "thread" -> Refinements(dim, cfg)
      [] name = "pairwise" -> PairwiseMutations(cfg)
      [] name = "cross" -> CrossMutations(cfg)
      [] name = "joint" -> JointMutations(cfg)
      [] name = "ot" -> OverrideMutations(cfg)

----------------------------------------------------------------------------
SearchStages == {"split", "sweep", "thread", "pairwise", "cross", "joint", "climb", "ot"}

\* The stages that ask _can_execute before each candidate.
AskingStages == SearchStages \ {"sweep", "joint"}

\* Mutant of SkipsKnown: sweeps skip what an earlier process measured, too.
SkipsKnownSwept == {"sweep", "thread", "pairwise", "cross"}

\* The stages that pass over a configuration the journal has a trial of.
SkipsKnown == {"thread", "pairwise", "cross"}

\* _trial_limit leaves room for the confirmation and the context probe.
CanExecute == ~stop /\ ~expired /\ executed < setting.budget - setting.reserve

\* By more than the noise floor; split and joint take any gain.
Beats(score, other) == score * 100 > other * (100 + Noise)

Improves(h) ==
    CASE pc = "sweep" -> h.score > best.score
      [] pc \in {"split", "joint"} -> h.score > incumbent.score
      [] OTHER -> Beats(h.score, incumbent.score)

\* Monotone OOM pruning: only the placement differs, and asks for as much.
Pruned(cfg) ==
    \E o \in ooms :
        /\ cfg.gpu_layers >= o.gpu_layers /\ cfg.moe_cpu_layers <= o.moe_cpu_layers
        /\ \A f \in DOMAIN cfg \ {"gpu_layers", "moe_cpu_layers"} : cfg[f] = o[f]

With(f, x, v) == [y \in DOMAIN f \cup {x} |-> IF y = x THEN v ELSE f[y]]

\* What a run of the benchmark may come back with; one that fails has no score.
Measurements(cfg) ==
    {o \in Answers(setting.machine, cfg) :
        /\ o \in [status : {"ok", "oom", "crash"}, score : Nat]
        /\ o.status # "ok" => o.score = 0}

ProbeStatuses(cfg, ctx) == ProbeAnswers(setting.machine, cfg, ctx) \cap {"ok", "oom", "crash"}

Measured(cfg) == cfg \in DOMAIN trials
Candidate == Applied(Head(todo), incumbent.cfg)
Trying == pc \in SearchStages /\ heard = None /\ todo # <<>>
Asked == pc \in AskingStages => CanExecute

Skipped(cfg) ==
    \/ pc \in {"sweep", "thread"} /\ cfg = incumbent.cfg
    \/ pc \in {"sweep", "pairwise", "joint"} /\ ~Valid(cfg)
    \/ pc \in SkipsKnown /\ Measured(cfg)
    \/ pc = "joint" /\ Pruned(cfg)

\* What a good measurement is still subject to before it may be promoted.
NeedsPair(h) == h.ok /\ ~h.checked /\ pc = "sweep" /\ Dim = "mmap"

NeedsProbe(h) ==
    /\ h.ok /\ ~h.checked
    /\ \/ pc = "sweep" /\ Dim \in ProbedDims
       \/ pc \in {"joint", "climb", "ot"} /\ setting.ctx # NoCtx /\ Improves(h)

\* Mutant of Ran: the engine forgets to count what it journals.
RanUncounted ==
    /\ executed' = executed
    /\ journaled' = journaled + 1
    /\ children' = children + 1

\* A child of the engine ran and its record is in the journal.
Ran ==
    /\ executed' = executed + 1
    /\ journaled' = journaled + 1
    /\ children' = children + 1

Judging(cfg, outcome) ==
    [cfg |-> cfg, score |-> outcome.score, ok |-> outcome.status = "ok",
     checked |-> FALSE, allowed |-> TRUE]

----------------------------------------------------------------------------
(* Where the search goes when a stage has tried everything.                *)
NoClimb == [direction |-> 0, step |-> 1, misses |-> 0, started |-> 0, before |-> 0,
            visited |-> {}]

Leave(name) ==
    /\ pc' = name
    /\ todo' = <<>> /\ tried' = 0
    /\ best' = incumbent'
    /\ climb' = NoClimb
    /\ UNCHANGED at

Enter(name, pass, dim, gauge) ==
    /\ pc' = name
    /\ at' = [pass |-> pass, dim |-> dim, gauge |-> gauge, moe |-> incumbent'.cfg.moe_cpu_layers]
    /\ todo' = Mutations(name, Dimensions[dim], incumbent'.cfg)
    /\ tried' = 0
    /\ best' = incumbent'
    /\ climb' = NoClimb

BeginSearch == IF setting.gpu THEN Enter("split", 1, 1, incumbent'.score)
               ELSE Enter("sweep", 1, 1, incumbent'.score)

\* Mutant of PassGauge: the gain is measured over the last dimension only.
PassGaugeMoves == incumbent'.score

\* The score the gain of the pass is measured from.
PassGauge == at.gauge

Refine == Enter("pairwise", at.pass, at.dim, at.gauge)

\* Another pass, unless this one gained less than the noise floor.
NextDimension ==
    IF at.dim < Len(Dimensions) THEN Enter("sweep", at.pass, at.dim + 1, PassGauge)
    ELSE IF at.pass = MaxPasses \/ incumbent'.score * 100 < at.gauge * (100 + Noise)
         THEN Refine
         ELSE Enter("sweep", at.pass + 1, 1, incumbent'.score)

AfterPairs == IF setting.gpu THEN Enter("joint", at.pass, at.dim, at.gauge) ELSE Leave("searched")

\* The step the climb takes next, if it takes one.
ClimbMutation(c, cfg) ==
    LET m == Mutation([f \in {} |-> None], c.direction * ClimbSteps[c.step])
        target == Applied(m, cfg)
    IN  IF /\ c.misses < 2
           /\ executed' - c.started < ClimbRuns
           /\ target # cfg
           /\ target \notin c.visited
        THEN <<m>> ELSE <<>>

BeginClimb ==
    LET c == [NoClimb EXCEPT
                !.direction = IF incumbent.cfg.moe_cpu_layers > at.moe THEN 1 ELSE -1,
                !.started = executed, !.before = executed]
    IN  /\ pc' = "climb"
        /\ climb' = c
        /\ todo' = ClimbMutation(c, incumbent.cfg)
        /\ tried' = 0
        /\ UNCHANGED <<at, best>>

AfterStage ==
    CASE pc = "split" -> Enter("sweep", 1, 1, incumbent'.score)
      [] pc = "sweep" -> IF Dim \in ThreadDims THEN Enter("thread", at.pass, at.dim, at.gauge)
                         ELSE NextDimension
      [] pc = "thread" -> NextDimension
      [] pc = "pairwise" -> Enter("cross", at.pass, at.dim, at.gauge)
      [] pc = "cross" -> AfterPairs
      [] pc = "joint" -> IF incumbent.cfg.moe_cpu_layers # at.moe THEN BeginClimb
                         ELSE Enter("ot", at.pass, at.dim, at.gauge)
      [] pc = "climb" -> Enter("ot", at.pass, at.dim, at.gauge)
      [] pc = "ot" -> Leave("searched")

\* Placements and sweeps hear everything again in a later process, so what they
\* promote is settled.  A refinement may pass over what an earlier process heard:
\* a measured configuration, or in a joint pass one that a later OOM rules out.
Promote(cfg, score, again) ==
    /\ incumbent' = [cfg |-> cfg, score |-> score]
    /\ replayable' = (replayable /\ again)
    /\ settled' = IF replayable' /\ CanExecute THEN Larger(settled, score) ELSE settled

\* A sweep promotes its best candidate once it has heard them all.
NextStage ==
    /\ pc \in SearchStages /\ heard = None /\ todo = <<>>
    /\ IF pc = "sweep" /\ Beats(best.score, incumbent.score)
       THEN Promote(best.cfg, best.score, TRUE)
       ELSE UNCHANGED <<incumbent, history>>
    /\ executed' = executed
    /\ AfterStage
    /\ UNCHANGED <<setting, journal, ooms, signals, heard, counts>>

\* A stage that may not run a candidate, or has tried its share, ends; ending
\* the pairwise stage so ends the cross stage with it.
GiveUpStage ==
    /\ Trying /\ pc \in AskingStages
    /\ ~CanExecute \/ (pc = "pairwise" /\ tried = PairwiseTries)
    /\ UNCHANGED incumbent
    /\ IF pc = "pairwise" THEN AfterPairs
       ELSE todo' = <<>> /\ UNCHANGED <<pc, at, tried, best, climb>>
    /\ UNCHANGED <<setting, journal, executed, ooms, signals, heard, counts, history>>

\* _BudgetExhaustedError ends the search; an asking stage meets it only when the
\* interrupt or the deadline comes between its two looks.
Exhaust ==
    /\ \/ /\ Trying /\ ~Skipped(Candidate) /\ ~Measured(Candidate)
          /\ pc \in AskingStages => stop \/ expired
       \/ /\ heard # None /\ NeedsProbe(heard)
          /\ <<heard.cfg, setting.ctx>> \notin DOMAIN probes
    /\ ~CanExecute
    /\ UNCHANGED incumbent
    /\ heard' = None
    /\ Leave("exhausted")
    /\ UNCHANGED <<setting, journal, executed, ooms, signals, counts, history>>

----------------------------------------------------------------------------
(* Hearing about one candidate.                                            *)
Skip ==
    /\ Trying /\ Asked /\ Skipped(Candidate)
    /\ todo' = Tail(todo)
    /\ UNCHANGED <<setting, journal, executed, ooms, signals, pc, at, tried, heard, best, climb,
                   incumbent, counts, history>>

\* A sweep journals the candidate an OOM rules out.
PruneCandidate ==
    /\ Trying /\ pc = "sweep"
    /\ ~Skipped(Candidate) /\ ~Measured(Candidate) /\ Pruned(Candidate)
    /\ trials' = With(trials, Candidate, Outcome("pruned", 0))
    /\ todo' = Tail(todo)
    /\ UNCHANGED <<setting, probes, journaled, executed, ooms, signals, pc, at, tried, heard,
                   best, climb, incumbent, counts, history>>

RecallTrial ==
    /\ Trying /\ Asked /\ ~Skipped(Candidate) /\ Measured(Candidate)
    /\ heard' = Judging(Candidate, trials[Candidate])
    /\ UNCHANGED <<setting, journal, executed, ooms, signals, pc, at, todo, tried, best, climb,
                   incumbent, counts, history>>

MayRun ==
    /\ Trying /\ CanExecute /\ ~Skipped(Candidate) /\ ~Measured(Candidate)
    /\ pc = "sweep" => ~Pruned(Candidate)
    /\ pc = "pairwise" => tried < PairwiseTries

RunTrial ==
    /\ MayRun
    /\ \E outcome \in Measurements(Candidate) :
          /\ trials' = With(trials, Candidate, outcome)
          /\ ooms' = ooms \cup (IF outcome.status = "oom" THEN {Candidate} ELSE {})
          /\ heard' = Judging(Candidate, outcome)
    /\ Ran
    /\ UNCHANGED <<setting, probes, signals, pc, at, todo, tried, best, climb, incumbent, lost,
                   resumes, history>>

\* The mmap candidate must also beat the incumbent measured next to it.  No
\* journal entry makes a later process skip this run.
PairCheck ==
    /\ heard # None /\ NeedsPair(heard)
    /\ CanExecute
    /\ \E outcome \in Measurements(incumbent.cfg) :
          heard' = [heard EXCEPT !.checked = TRUE,
                                 !.allowed = outcome.status = "ok"
                                               /\ Beats(heard.score, outcome.score)]
    /\ Ran
    /\ replayable' = FALSE
    /\ UNCHANGED <<setting, trials, probes, ooms, signals, pc, at, todo, tried, best, climb,
                   incumbent, lost, resumes, settled>>

RefusePair ==
    /\ heard # None /\ NeedsPair(heard)
    /\ ~CanExecute
    /\ heard' = [heard EXCEPT !.checked = TRUE, !.allowed = FALSE]
    /\ UNCHANGED <<setting, journal, executed, ooms, signals, pc, at, todo, tried, best, climb,
                   incumbent, counts, history>>

ProbeKey == <<heard.cfg, setting.ctx>>
Checked(status) == heard' = [heard EXCEPT !.checked = TRUE, !.allowed = status = "ok"]

RecallProbe ==
    /\ heard # None /\ NeedsProbe(heard)
    /\ ProbeKey \in DOMAIN probes
    /\ Checked(probes[ProbeKey])
    /\ UNCHANGED <<setting, journal, executed, ooms, signals, pc, at, todo, tried, best, climb,
                   incumbent, counts, history>>

\* Only a probe without a context size may be ruled out by an OOM.
PruneProbe ==
    /\ heard # None /\ NeedsProbe(heard)
    /\ ProbeKey \notin DOMAIN probes
    /\ setting.ctx = NoCtx /\ Pruned(heard.cfg)
    /\ probes' = With(probes, ProbeKey, "pruned")
    /\ Checked("pruned")
    /\ UNCHANGED <<setting, trials, journaled, executed, ooms, signals, pc, at, todo, tried,
                   best, climb, incumbent, counts, history>>

\* One benchmark child at a context size.
Probe(cfg, ctx, status) ==
    /\ <<cfg, ctx>> \notin DOMAIN probes
    /\ probes' = With(probes, <<cfg, ctx>>, status)
    /\ ooms' = ooms \cup (IF status = "oom" THEN {cfg} ELSE {})
    /\ Ran

RunProbe ==
    /\ heard # None /\ NeedsProbe(heard)
    /\ CanExecute
    /\ setting.ctx = NoCtx => ~Pruned(heard.cfg)
    /\ \E status \in ProbeStatuses(heard.cfg, setting.ctx) :
          Probe(heard.cfg, setting.ctx, status) /\ Checked(status)
    /\ UNCHANGED <<setting, trials, signals, pc, at, todo, tried, best, climb, incumbent, lost,
                   resumes, history>>

\* Mutant of Climbed: the targets already tried are not remembered.
ClimbedForgetful(won) ==
    [climb EXCEPT
        !.misses = IF won THEN 0 ELSE IF executed > climb.before THEN @ + 1 ELSE @,
        !.step = IF won THEN Smaller(@ + 1, Len(ClimbSteps)) ELSE 1,
        !.before = executed]

\* A climb that misses starts again with small steps; only a miss that ran
\* something counts.
Climbed(won) ==
    [climb EXCEPT
        !.visited = @ \cup {heard.cfg},
        !.misses = IF won THEN 0 ELSE IF executed > climb.before THEN @ + 1 ELSE @,
        !.step = IF won THEN Smaller(@ + 1, Len(ClimbSteps)) ELSE 1,
        !.before = executed]

Judge ==
    /\ pc \in SearchStages /\ heard # None /\ ~NeedsPair(heard) /\ ~NeedsProbe(heard)
    /\ LET won == heard.ok /\ heard.allowed /\ Improves(heard)
       IN  /\ IF won /\ pc # "sweep"
              THEN Promote(heard.cfg, heard.score, pc = "split")
              ELSE UNCHANGED <<incumbent, history>>
           /\ best' = IF won /\ pc = "sweep" THEN [cfg |-> heard.cfg, score |-> heard.score]
                      ELSE best
           /\ executed' = executed
           /\ climb' = IF pc = "climb" THEN Climbed(won) ELSE climb
           /\ todo' = IF pc = "climb" THEN ClimbMutation(climb', incumbent'.cfg) ELSE Tail(todo)
    /\ tried' = IF pc = "pairwise" THEN tried + 1 ELSE tried
    /\ heard' = None
    /\ UNCHANGED <<setting, journal, ooms, signals, pc, at, counts>>

SearchStep ==
    \/ Skip \/ PruneCandidate \/ RecallTrial \/ RunTrial
    \/ PairCheck \/ RefusePair \/ RecallProbe \/ PruneProbe \/ RunProbe
    \/ Judge \/ NextStage \/ GiveUpStage \/ Exhaust

----------------------------------------------------------------------------
\* The journal as joint discovery leaves it, and the search about to begin.
SearchInit ==
    /\ setting \in Settings
    /\ trials = IF setting.measured THEN With([x \in {} |-> None], setting.start.cfg,
                                              Outcome("ok", setting.start.score))
                ELSE [x \in {} |-> None]
    /\ probes = [x \in {} |-> None]
    /\ journaled = 0 /\ executed = 0 /\ ooms = setting.ooms
    /\ stop = FALSE /\ expired = FALSE
    /\ pc = "discovered"
    /\ at = [pass |-> 1, dim |-> 1, gauge |-> 0, moe |-> 0]
    /\ todo = <<>> /\ tried = 0 /\ heard = None
    /\ best = setting.start /\ climb = NoClimb
    /\ incumbent = setting.start
    /\ children = 0 /\ lost = 0 /\ resumes = 0
    /\ settled = setting.start.score /\ replayable = TRUE

Begin ==
    /\ pc = "discovered"
    /\ UNCHANGED incumbent
    /\ BeginSearch
    /\ UNCHANGED <<setting, journal, executed, ooms, signals, heard, counts, history>>

\* A later process: its memory is what it reads in the journal.
SearchRestart ==
    /\ executed' = journaled
    /\ ooms' = {cfg \in DOMAIN trials : trials[cfg].status = "oom"}
    /\ stop' = FALSE /\ expired' = FALSE
    /\ pc' = "discovered"
    /\ todo' = <<>> /\ tried' = 0 /\ heard' = None
    /\ at' = [pass |-> 1, dim |-> 1, gauge |-> 0, moe |-> 0]
    /\ best' = setting.start /\ climb' = NoClimb
    /\ incumbent' = setting.start
    /\ replayable' = TRUE

\* A child may be under way that nobody will have counted.
SearchChild ==
    \/ MayRun
    \/ heard # None /\ CanExecute /\ (NeedsPair(heard) \/ NeedsProbe(heard))

----------------------------------------------------------------------------
(***************************************************************************)
(* What placements and sweeps gained before anything else was promoted is  *)
(* not lost with the process: a later one that completes its search with   *)
(* budget to spare ends at an incumbent at least as good.                  *)
(***************************************************************************)
SweptGainsSurvive == pc = "searched" /\ CanExecute => incumbent.score >= settled

Converged == incumbent.score * 100 < at.gauge * (100 + Noise)

(***************************************************************************)
(* When the passes end for lack of gain, the incumbent is a local optimum  *)
(* of the whole neighbourhood: every valid one-dimension change of it has  *)
(* an outcome in the journal, and none of them that passed what its        *)
(* dimension asks for is better by more than the noise.                    *)
(***************************************************************************)
ConvergedIsLocal ==
    pc = "pairwise" /\ tried = 0 /\ heard = None /\ Converged =>
        \A i \in DOMAIN Dimensions :
            \A v \in Range(Candidates(Dimensions[i], incumbent.cfg)) :
                LET cfg == [incumbent.cfg EXCEPT ![Dimensions[i]] = v]
                IN  Valid(cfg) /\ cfg # incumbent.cfg =>
                      /\ Measured(cfg)
                      /\ Beats(trials[cfg].score, incumbent.score) /\ Dimensions[i] # "mmap" =>
                            /\ Dimensions[i] \in ProbedDims
                            /\ <<cfg, setting.ctx>> \in DOMAIN probes
                            /\ probes[<<cfg, setting.ctx>>] # "ok"
=============================================================================
