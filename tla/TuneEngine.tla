----------------------------- MODULE TuneEngine -----------------------------
(***************************************************************************)
(* One tuning session from its baseline to its registry record: the phases *)
(* of _Engine.run, the budget that all of them share, the two meanings of  *)
(* SIGINT, and the journal that lets a later process resume the session.   *)
(*                                                                         *)
(* A configuration is a model value.  What the search asks for next, and   *)
(* what the machine answers, is left open: BoundarySearch models the first *)
(* stage of the search in detail.  A measurement is the score it leads to, *)
(* None when the run failed, or Rejected when it gave its rates but on a   *)
(* throttling GPU, and so no score; the baseline scores Unit.              *)
(* The model has a GPU, no quiet gate, and the options that add work after *)
(* a confirmation (depth profile, quality gate, context ladder) are off.   *)
(***************************************************************************)
EXTENDS Integers, Sequences, FiniteSets, Functions

CONSTANTS
    Default,      \* the configuration the baseline measures
    Others,       \* the configurations the search may ask for
    Scores,       \* scores a measurement may have; the baseline has Unit
    Builds,       \* builds of llama-bench, told apart by their hash
    Threshold,    \* a confirmed mean must exceed it
    OptionSets,   \* the command lines considered
    MaxLost,      \* bound: processes that die
    MaxResumes,   \* bound: resumes
    Rejected,     \* the measurement of a throttled run
    None          \* Python's None

Unit == 1
Configs == Others \cup {Default}

\* over: configurations beyond --max-gpu-layers; fallbacks: those the boundaries
\* offer when the incumbent fails its context probe; clock: --budget-minutes;
\* batch: same-dimension candidates share one child unless --no-batched-trials;
\* warm: the GPU may throttle; builds: what a process may find installed, None
\* when the hash of the executable cannot be read.
Options ==
    [budget : Nat, runs : Nat \ {0}, ctx : BOOLEAN, clock : BOOLEAN, cli : BOOLEAN,
     batch : BOOLEAN, baseline_only : BOOLEAN, over : SUBSET Configs, fallbacks : SUBSET Configs,
     warm : BOOLEAN, builds : SUBSET (Builds \cup {None})]

ASSUME ConstantsAssumption ==
    /\ IsFiniteSet(Others) /\ Default \notin Others
    /\ None \notin Configs /\ None \notin Nat /\ None \notin {"defaults", "cpu"}
    /\ None \notin Builds /\ Rejected \notin Nat \cup {None}
    /\ Scores \subseteq Nat /\ Threshold \in Nat
    /\ MaxLost \in Nat /\ MaxResumes \in Nat
ASSUME OptionsAssumption ==
    \A o \in OptionSets :
        /\ o \in Options
        /\ o.runs <= o.budget
        /\ o.fallbacks \cap o.over = {}
        /\ o.cli => o.ctx

VARIABLES
    options,
    build,      \* the build the process runs
    baseline,   \* journal: None, or what baseline_complete says was measured
    known,      \* journal: score of every trial, or None
    contexts,   \* journal: did the context probe of a configuration pass
    confirms,   \* journal: of each confirmation run, [build, score] in order
    journaled,  \* journal: entries that _count_executed counts
    outputs,    \* disk: the recommendation written, [cfg, confirmed], or None
    registry,   \* disk: configurations registered for this session
    pc, exit,   \* where the process is, and the exit code it ended with
    executed,   \* memory: executed_count
    stop,       \* memory: _stop_requested
    expired,    \* the wall-clock budget has run out
    base,       \* memory: next baseline run, [run, cpu]
    flight,     \* memory: measurement not journaled yet, [cfg, aux], or None
    incumbent,  \* memory: [cfg, score]
    tried,      \* memory: context candidates rejected so far
    validated,  \* memory: validated_configs, empty unless context_validation is ok
    attempt,    \* memory: confirmation under way, [cfg, second, runs]
    rec,        \* memory: the recommendation, [cfg, confirmed]
    split,      \* memory: configurations of a failed batch, to be run one by one
    wasted,     \* history: failed batches, whose child nothing counts
    children,   \* history: benchmark children ever started
    lost,       \* history: processes that died with work they had not journaled
    resumes     \* history

journal == <<baseline, known, contexts, confirms, journaled>>
disk == <<outputs, registry>>
control == <<pc, exit>>
signals == <<stop, expired>>
memory == <<base, flight, incumbent, tried, validated, attempt, rec>>
history == <<lost, resumes>>
batches == <<split, wasted>>
vars == <<options, build, batches, journal, disk, control, executed, signals, memory, children, history>>

----------------------------------------------------------------------------
Live == {"baseline", "search", "trial", "validate", "reseat", "reseating", "decide",
         "confirm", "confirming", "runner_up", "fallback", "cli", "write", "register", "end"}

Finalizing == pc \in Live \ {"baseline", "search", "trial"}

\* _trial_limit: the search leaves room for one confirmation, and a context probe.
Reserve == options.runs + (IF options.ctx THEN 1 ELSE 0)
SearchLimit == options.budget - Reserve
TrialLimit == IF Finalizing THEN options.budget ELSE SearchLimit

CanExecute == ~stop /\ executed < TrialLimit /\ ~expired

OverCap(c) == c \in options.over /\ ~(c = Default /\ baseline = "cpu")

With(f, c, v) == [d \in DOMAIN f \cup {c} |-> IF d = c THEN v ELSE f[d]]

\* A child ran; its record is journaled in the same step, or later.
Ran == executed' = executed + 1 /\ children' = children + 1
RanAndJournaled == Ran /\ journaled' = journaled + 1
\* Mutant of CountExecuted: only trial entries are counted.
CountTrials == Cardinality(DOMAIN known)

\* _count_executed over the journal.
CountExecuted == journaled

NoRuns == [i \in 1..options.runs |-> None]
NoAttempt == [cfg |-> None, second |-> FALSE, runs |-> NoRuns]
NoRec == [cfg |-> None, confirmed |-> FALSE]

AfterBaseline == IF options.baseline_only THEN "fallback" ELSE "search"

\* A new engine starts from the baseline, or after a journaled one.
FreshMemory ==
    /\ pc' = IF baseline = None THEN "baseline" ELSE AfterBaseline
    /\ exit' = None
    /\ executed' = CountExecuted
    /\ stop' = FALSE /\ expired' = FALSE
    /\ base' = [run |-> 1, cpu |-> FALSE]
    /\ flight' = None
    /\ incumbent' = [cfg |-> Default, score |-> Unit]
    /\ tried' = {} /\ validated' = {}
    /\ attempt' = NoAttempt /\ rec' = NoRec
    /\ split' = {}

Init ==
    /\ options \in OptionSets /\ build \in options.builds
    /\ baseline = None /\ journaled = 0
    /\ known = [c \in {} |-> None] /\ contexts = [c \in {} |-> FALSE]
    /\ confirms = [c \in Configs |-> [i \in 1..options.runs |-> <<>>]]
    /\ outputs = None /\ registry = {}
    /\ pc = "baseline" /\ exit = None
    /\ executed = 0 /\ children = 0
    /\ stop = FALSE /\ expired = FALSE
    /\ base = [run |-> 1, cpu |-> FALSE]
    /\ flight = None
    /\ incumbent = [cfg |-> Default, score |-> Unit]
    /\ tried = {} /\ validated = {}
    /\ attempt = NoAttempt /\ rec = NoRec
    /\ split = {} /\ wasted = 0
    /\ lost = 0 /\ resumes = 0

End(code) == pc' = "ended" /\ exit' = code
Goto(p) == pc' = p /\ UNCHANGED exit

----------------------------------------------------------------------------
(* The baseline heeds neither SIGINT nor the clock, only the whole budget. *)
LastBaselineRun == options.runs + (IF base.cpu THEN 1 ELSE 0)

\* A failing default probe is journaled and the CPU fallback takes its place.
BaselineRun ==
    /\ pc = "baseline"
    /\ executed < options.budget
    /\ RanAndJournaled
    /\ \/ /\ base.run < LastBaselineRun
          /\ \E cpu \in IF base.run = 1 THEN BOOLEAN ELSE {base.cpu} :
                base' = [run |-> base.run + 1, cpu |-> cpu]
          /\ UNCHANGED <<baseline, control>>
       \/ /\ base.run = LastBaselineRun
          /\ baseline' = IF base.cpu THEN "cpu" ELSE "defaults"
          /\ Goto(AfterBaseline)
          /\ UNCHANGED base
       \/ /\ base.run > 1
          /\ End(3)
          /\ UNCHANGED <<baseline, base>>
    /\ UNCHANGED <<options, build, batches, known, contexts, confirms, disk, signals, flight,
                   incumbent,
                   tried, validated, attempt, rec, history>>

BaselineStarved ==
    /\ pc = "baseline"
    /\ executed >= options.budget
    /\ End(3)
    /\ UNCHANGED <<options, build, batches, journal, disk, executed, signals, memory,
                   children, history>>

----------------------------------------------------------------------------
\* _execute_trial: the child runs now, its record comes after any rerun of it.
StartTrial ==
    /\ pc = "search"
    /\ CanExecute
    /\ \E c \in Configs \ DOMAIN known : ~OverCap(c) /\ flight' = [cfg |-> c, aux |-> 0]
    /\ Ran
    /\ Goto("trial")
    /\ UNCHANGED <<options, build, batches, journal, disk, signals, base, incumbent, tried,
                   validated,
                   attempt, rec, history>>

\* The thermal retest of a trial, its stability rerun, and the retest of that;
\* a confirmation has the first only.  Each is counted by an entry of its own.
MaxAux == IF pc = "confirming" THEN 1 ELSE 3

RunAuxiliary ==
    /\ pc \in {"trial", "reseating", "confirming"}
    /\ CanExecute
    /\ flight.aux < MaxAux
    /\ flight' = [flight EXCEPT !.aux = @ + 1]
    /\ RanAndJournaled
    /\ UNCHANGED <<options, build, batches, baseline, known, contexts, confirms, disk,
                   control, signals,
                   base, incumbent, tried, validated, attempt, rec, history>>

Measurement == Scores \cup {None, Rejected}

\* A throttled run whose retest throttles too, or has no budget, is rejected.
Measured == IF options.warm THEN Measurement ELSE Measurement \ {Rejected}

JournalTrial ==
    /\ pc = "trial"
    /\ \E score \in Measured : known' = With(known, flight.cfg, score)
    /\ journaled' = journaled + 1
    /\ flight' = None
    /\ Goto("search")
    /\ UNCHANGED <<options, build, batches, baseline, contexts, confirms, disk, executed,
                   signals, base,
                   incumbent, tried, validated, attempt, rec, children, history>>

\* What _sweep may put in one batch: unmeasured, not the incumbent, each counted
\* against the budget.  Neither SIGINT nor the clock is asked.
Batches ==
    {S \in SUBSET (Configs \ (DOMAIN known \cup split \cup {incumbent.cfg})) :
        /\ options.batch
        /\ Cardinality(S) > 1 /\ Cardinality(S) <= SearchLimit - executed
        /\ \A c \in S : ~OverCap(c)}

Merged(f, g) == [c \in DOMAIN f \cup DOMAIN g |-> IF c \in DOMAIN g THEN g[c] ELSE f[c]]

\* _execute_batch: one child, one trial record per configuration.
RunBatch ==
    /\ pc = "search"
    /\ \E S \in Batches :
          /\ \E measured \in [S -> Scores] : known' = Merged(known, measured)
          /\ journaled' = journaled + Cardinality(S)
          /\ executed' = executed + Cardinality(S)
    /\ children' = children + 1
    /\ UNCHANGED <<options, build, batches, baseline, contexts, confirms, disk, control, signals,
                   memory, history>>

\* A batch that fails is neither journaled nor counted; its members run singly.
FailBatch ==
    /\ pc = "search"
    /\ \E S \in Batches : split' = split \cup S
    /\ wasted' = wasted + 1
    /\ children' = children + 1
    /\ UNCHANGED <<options, build, journal, disk, control, executed, signals, memory, history>>

\* A sweep makes a measured configuration the incumbent: a better one, or one
\* within --max-gpu-layers in place of a default that is not.
Promote ==
    /\ pc = "search"
    /\ \E c \in DOMAIN known :
          /\ known[c] \in Scores
          /\ known[c] > incumbent.score \/ OverCap(incumbent.cfg)
          /\ incumbent' = [cfg |-> c, score |-> known[c]]
    /\ UNCHANGED <<options, build, batches, journal, disk, control, executed, signals, base,
                   flight, tried,
                   validated, attempt, rec, children, history>>

\* A run that is not a trial: a mutation probed at the context size, a boundary
\* probe, the incumbent's side of an mmap pair check.
SearchProbe ==
    /\ pc = "search"
    /\ CanExecute
    /\ RanAndJournaled
    /\ \/ /\ options.ctx
          /\ \E c \in DOMAIN known \ DOMAIN contexts, passed \in BOOLEAN :
                contexts' = With(contexts, c, passed)
       \/ UNCHANGED contexts
    /\ UNCHANGED <<options, build, batches, baseline, known, confirms, disk, control, signals,
                   memory, history>>

\* The search converges, or _BudgetExhaustedError ends it.
EndSearch ==
    /\ pc = "search"
    /\ Goto(IF stop \/ ~options.ctx THEN "decide" ELSE "validate")
    /\ UNCHANGED <<options, build, batches, journal, disk, executed, signals, memory,
                   children, history>>

----------------------------------------------------------------------------
\* _context_candidates: the incumbent, then what the boundaries offer.
Candidates ==
    IF ~OverCap(incumbent.cfg) /\ incumbent.cfg \notin tried
    THEN {incumbent.cfg}
    ELSE options.fallbacks \ tried

\* A candidate that passes is measured before it replaces the incumbent.
Validate(c, passed) ==
    IF passed
    THEN /\ validated' = validated \cup {c}
         /\ Goto(IF c = incumbent.cfg THEN "decide" ELSE "reseat")
         /\ UNCHANGED tried
    ELSE /\ tried' = tried \cup {c}
         /\ UNCHANGED <<validated, control>>

RecallContext ==
    /\ pc = "validate"
    /\ \E c \in Candidates \cap DOMAIN contexts : Validate(c, contexts[c])
    /\ UNCHANGED <<options, build, batches, journal, disk, executed, signals, base, flight,
                   incumbent,
                   attempt, rec, children, history>>

ProbeContext ==
    /\ pc = "validate"
    /\ CanExecute
    /\ \E c \in Candidates \ DOMAIN contexts, passed \in BOOLEAN :
          /\ contexts' = With(contexts, c, passed)
          /\ Validate(c, passed)
    /\ RanAndJournaled
    /\ UNCHANGED <<options, build, batches, baseline, known, confirms, disk, signals, base, flight,
                   incumbent, attempt, rec, history>>

\* No budget for the probe, or no candidate left: nothing is validated.
GiveUpContext ==
    /\ pc = "validate"
    /\ \/ Candidates \ DOMAIN contexts # {} /\ ~CanExecute
       \/ Candidates = {}
    /\ Goto("decide")
    /\ UNCHANGED <<options, build, batches, journal, disk, executed, signals, memory,
                   children, history>>

\* Mutant of Reseated: the incumbent has the score of its trial, if any.
ReseatedUnscored(c, measured) ==
    IF measured = None THEN incumbent ELSE [cfg |-> c, score |-> measured]

\* A fallback that was measured becomes the incumbent, a rejected one with 0.
Reseated(c, measured) ==
    IF measured = None THEN incumbent
    ELSE [cfg |-> c, score |-> IF measured = Rejected THEN 0 ELSE measured]

RecallReseat ==
    /\ pc = "reseat"
    /\ \E c \in validated \cap DOMAIN known : incumbent' = Reseated(c, known[c])
    /\ Goto("decide")
    /\ UNCHANGED <<options, build, batches, journal, disk, executed, signals, base, flight, tried,
                   validated, attempt, rec, children, history>>

StartReseat ==
    /\ pc = "reseat"
    /\ CanExecute
    /\ \E c \in validated \ DOMAIN known : flight' = [cfg |-> c, aux |-> 0]
    /\ Ran
    /\ Goto("reseating")
    /\ UNCHANGED <<options, build, batches, journal, disk, signals, base, incumbent, tried,
                   validated,
                   attempt, rec, history>>

JournalReseat ==
    /\ pc = "reseating"
    /\ \E score \in Measured :
          /\ known' = With(known, flight.cfg, score)
          /\ incumbent' = Reseated(flight.cfg, score)
    /\ journaled' = journaled + 1
    /\ flight' = None
    /\ Goto("decide")
    /\ UNCHANGED <<options, build, batches, baseline, contexts, confirms, disk, executed,
                   signals, base,
                   tried, validated, attempt, rec, children, history>>

\* _BudgetExhaustedError leaves _validate_recommendation here, and _run with it:
\* the process dies of the exception, with no session_end in the journal.
Escape ==
    /\ pc = "reseat"
    /\ ~CanExecute
    /\ validated \cap DOMAIN known = {}
    /\ pc' = "escaped"
    /\ UNCHANGED <<options, build, batches, journal, disk, exit, executed, signals, memory,
                   children, history>>

----------------------------------------------------------------------------
(* _determine_winner: the incumbent, then the runner-up, then the fallback. *)
\* Mutant of Reused: the last entry, by whatever build.
ReusedOfAnyBuild(run) == {n \in DOMAIN run : n = Len(run) /\ run[n].score # None}

\* The good entry of a run that is the latest under the build of this process;
\* under a build that cannot be told from others there is none.
Reused(run) ==
    {n \in DOMAIN run :
        /\ build # None /\ run[n].build = build /\ run[n].score # None
        /\ \A m \in DOMAIN run : m > n => run[m].build # build}

\* Mutant of Reusable: journaled confirmation runs are not reused.
NothingReusable(c) == NoRuns

\* _reusable_confirmations: what earlier processes measured, run by run.
Reusable(c) ==
    [i \in 1..options.runs |->
        LET reused == Reused(confirms[c][i])
        IN  IF reused = {} THEN None ELSE confirms[c][i][CHOOSE n \in reused : TRUE].score]

Missing(runs) == {i \in 1..options.runs : runs[i] = None}

Total(scores) == FoldFunction(+, 0, scores)

\* The mean of the runs beats the threshold.
Confirmed(runs) == Missing(runs) = {} /\ Total(runs) > options.runs * Threshold

\* Mutant of AfterFailure: every failed attempt leads to another one.
AlwaysRunnerUp(second) == "runner_up"

\* An attempt that fails leads to the runner-up once.
AfterFailure(second) == IF second THEN "fallback" ELSE "runner_up"

Refuse(second) == Goto(AfterFailure(second)) /\ UNCHANGED attempt

\* _confirm asks for what is missing at once, and refuses if it cannot all run.
BeginAttempt(c, second) ==
    LET missing == Missing(Reusable(c))
    IN  IF missing # {} /\ executed + Cardinality(missing) > options.budget
        THEN Refuse(second)
        ELSE /\ attempt' = [cfg |-> c, second |-> second, runs |-> Reusable(c)]
             /\ Goto("confirm")

NothingGained == baseline = "defaults" /\ incumbent.cfg = Default

Decide ==
    /\ pc = "decide"
    /\ IF NothingGained \/ OverCap(incumbent.cfg)
       THEN Goto("fallback") /\ UNCHANGED attempt
       ELSE BeginAttempt(incumbent.cfg, FALSE)
    /\ UNCHANGED <<options, build, batches, journal, disk, executed, signals, base, flight,
                   incumbent,
                   tried, validated, rec, children, history>>

\* Measured, within --max-gpu-layers and, with --ctx-size, validated.
Eligible ==
    {c \in DOMAIN known : known[c] \in Scores /\ ~OverCap(c) /\ (options.ctx => c \in validated)}

Best(S) == {c \in S : \A d \in S : known[d] <= known[c]}

RunnerUp ==
    /\ pc = "runner_up"
    /\ LET others == Eligible \ {incumbent.cfg}
       IN  \/ /\ others = {}
              /\ Goto("fallback")
              /\ UNCHANGED attempt
           \/ \E c \in Best(others) : BeginAttempt(c, TRUE)
    /\ UNCHANGED <<options, build, batches, journal, disk, executed, signals, base, flight,
                   incumbent,
                   tried, validated, rec, children, history>>

\* A run the attempt lacks is measured; _confirm goes through them in order.
StartConfirmation ==
    /\ pc = "confirm"
    /\ Missing(attempt.runs) # {}
    /\ CanExecute
    /\ flight' = [cfg |-> attempt.cfg, aux |-> 0]
    /\ Ran
    /\ Goto("confirming")
    /\ UNCHANGED <<options, build, batches, journal, disk, signals, base, incumbent, tried,
                   validated,
                   attempt, rec, history>>

NextMissing == CHOOSE i \in Missing(attempt.runs) : \A j \in Missing(attempt.runs) : i <= j

\* One failing run fails the whole attempt, and so does a throttled one: a
\* contaminated run without a clean retest is unstable, and never counts.
JournalConfirmation ==
    /\ pc = "confirming"
    /\ \E score \in Scores \cup {None} :
          /\ confirms' = [confirms EXCEPT ![attempt.cfg][NextMissing] =
                Append(@, [build |-> build, score |-> score])]
          /\ attempt' = [attempt EXCEPT !.runs[NextMissing] = score]
          /\ Goto(IF score = None THEN AfterFailure(attempt.second) ELSE "confirm")
    /\ journaled' = journaled + 1
    /\ flight' = None
    /\ UNCHANGED <<options, build, batches, baseline, known, contexts, disk, executed,
                   signals, base,
                   incumbent, tried, validated, rec, children, history>>

RefuseConfirmation ==
    /\ pc = "confirm"
    /\ Missing(attempt.runs) # {}
    /\ ~CanExecute
    /\ Refuse(attempt.second)
    /\ UNCHANGED <<options, build, batches, journal, disk, executed, signals, base, flight,
                   incumbent,
                   tried, validated, rec, children, history>>

AfterWinner == IF options.cli THEN "cli" ELSE "write"

\* Mutant of ContextConfirmed: a winner need not have been validated.
AnyContext(c) == TRUE

ContextConfirmed(c) == options.ctx => c \in validated

\* A winner that did not pass the requested context is recommended unconfirmed.
CloseConfirmation ==
    /\ pc = "confirm"
    /\ Missing(attempt.runs) = {}
    /\ IF Confirmed(attempt.runs)
       THEN /\ rec' = [cfg |-> attempt.cfg,
                       confirmed |-> ContextConfirmed(attempt.cfg)]
            /\ Goto(AfterWinner)
       ELSE Goto(AfterFailure(attempt.second)) /\ UNCHANGED rec
    /\ UNCHANGED <<options, build, batches, journal, disk, executed, signals, base, flight,
                   incumbent,
                   tried, validated, attempt, children, history>>

\* Mutant of Recommendable: the defaults, whatever the cap.
DefaultsAlways == {Default}

\* The defaults, or the best measured configuration when the cap excludes them.
Recommendable ==
    IF ~OverCap(Default) THEN {Default}
    ELSE IF options.baseline_only THEN {} ELSE Best(Eligible)

Fallback ==
    /\ pc = "fallback"
    /\ \E c \in Recommendable : rec' = [cfg |-> c, confirmed |-> FALSE]
    /\ Goto(IF options.baseline_only THEN "write" ELSE AfterWinner)
    /\ UNCHANGED <<options, build, batches, journal, disk, executed, signals, base, flight,
                   incumbent,
                   tried, validated, attempt, children, history>>

\* _NoFeasibleConfigError: derived outputs of an earlier process are removed.
NoFeasible ==
    /\ pc = "fallback"
    /\ Recommendable = {}
    /\ outputs' = None
    /\ End(3)
    /\ UNCHANGED <<options, build, batches, journal, registry, executed, signals, memory,
                   children, history>>

\* _validate_with_cli asks neither the budget nor SIGINT, and decides nothing.
ValidateWithCli ==
    /\ pc = "cli"
    /\ RanAndJournaled
    /\ Goto("write")
    /\ UNCHANGED <<options, build, batches, baseline, known, contexts, confirms, disk,
                   signals, memory,
                   history>>

----------------------------------------------------------------------------
WriteOutputs ==
    /\ pc = "write"
    /\ outputs' = rec
    /\ Goto(IF rec.confirmed THEN "register" ELSE "end")
    /\ UNCHANGED <<options, build, batches, journal, registry, executed, signals, memory,
                   children, history>>

AppendRecord ==
    /\ pc = "register"
    /\ registry' = registry \cup {rec.cfg}
    /\ Goto("end")
    /\ UNCHANGED <<options, build, batches, journal, outputs, executed, signals, memory,
                   children, history>>

\* analysis_written and session_end.
EndSession ==
    /\ pc = "end"
    /\ End(IF rec.confirmed \/ options.baseline_only THEN 0 ELSE 1)
    /\ UNCHANGED <<options, build, batches, journal, disk, executed, signals, memory,
                   children, history>>

----------------------------------------------------------------------------
\* The first SIGINT only sets a flag.
Interrupt ==
    /\ pc \in Live
    /\ ~stop
    /\ stop' = TRUE
    /\ UNCHANGED <<options, build, batches, journal, disk, control, executed, expired, memory,
                   children, history>>

ClockExpires ==
    /\ pc \in Live
    /\ options.clock /\ ~expired
    /\ expired' = TRUE
    /\ UNCHANGED <<options, build, batches, journal, disk, control, executed, stop, memory,
                   children, history>>

\* A child may be under way when the process dies: nobody will have counted it.
ChildUnderWay ==
    \/ pc = "baseline" /\ executed < options.budget
    \/ pc \in {"search", "validate", "reseat", "confirm"} /\ CanExecute
    \/ pc \in {"trial", "reseating", "confirming"} /\ CanExecute /\ flight.aux < MaxAux
    \/ pc = "cli"
    \/ pc = "search" /\ Batches # {}

\* A process may also die between two of the records of a batch.
PartlyJournaled ==
    /\ pc = "search"
    /\ \E S \in Batches :
          \E T \in SUBSET S \ {{}} :
             /\ \E measured \in [T -> Scores] : known' = Merged(known, measured)
             /\ journaled' = journaled + Cardinality(T)
    /\ children' = children + 1
    /\ UNCHANGED <<baseline, contexts, confirms>>

Cut ==
    /\ pc \in Live
    /\ lost < MaxLost
    /\ lost' = lost + 1
    /\ \/ /\ \E n \in IF ChildUnderWay THEN {0, 1} ELSE {0} : children' = children + n
          /\ UNCHANGED journal
       \/ PartlyJournaled
    /\ UNCHANGED <<options, build, batches, disk, executed, signals, memory, resumes>>

\* The second SIGINT raises KeyboardInterrupt, wherever the process is.
Abort == stop /\ Cut /\ End(4)

\* An OSError on any write: the engine ends the session, or tries to.
IoFailure == Cut /\ End(4)

Crash == Cut /\ pc' = "down" /\ UNCHANGED exit

\* resume_tuning does not ask how the session ended.
Resume ==
    /\ pc \notin Live
    /\ resumes < MaxResumes
    /\ resumes' = resumes + 1
    /\ FreshMemory
    /\ build' \in options.builds
    /\ UNCHANGED <<options, journal, disk, children, lost, wasted>>

Finished == pc \notin Live /\ UNCHANGED vars

Step ==
    \/ BaselineRun \/ BaselineStarved
    \/ StartTrial \/ RunAuxiliary \/ JournalTrial \/ RunBatch \/ FailBatch
    \/ Promote \/ SearchProbe \/ EndSearch
    \/ RecallContext \/ ProbeContext \/ GiveUpContext
    \/ RecallReseat \/ StartReseat \/ JournalReseat \/ Escape
    \/ Decide \/ RunnerUp \/ StartConfirmation \/ JournalConfirmation \/ RefuseConfirmation
    \/ CloseConfirmation \/ Fallback \/ NoFeasible \/ ValidateWithCli
    \/ WriteOutputs \/ AppendRecord \/ EndSession

Next ==
    \/ Step
    \/ Interrupt \/ ClockExpires
    \/ Abort \/ IoFailure \/ Crash
    \/ Resume
    \/ Finished

\* The engine is one thread, and every child it waits for has a timeout.
Spec == Init /\ [][Next]_vars /\ WF_vars(Step)

----------------------------------------------------------------------------
Run == [build : Builds \cup {None}, score : Scores \cup {None}]

TypeOK ==
    /\ options \in OptionSets /\ build \in Builds \cup {None}
    /\ baseline \in {None, "defaults", "cpu"}
    /\ DOMAIN known \subseteq Configs
    /\ \A c \in DOMAIN known : known[c] \in Measurement
    /\ DOMAIN contexts \subseteq Configs
    /\ \A c \in DOMAIN contexts : contexts[c] \in BOOLEAN
    /\ confirms \in [Configs -> [1..options.runs -> Seq(Run)]]
    /\ journaled \in Nat
    /\ outputs \in {None} \cup [cfg : Configs, confirmed : BOOLEAN]
    /\ registry \subseteq Configs
    /\ pc \in Live \cup {"ended", "down", "escaped"}
    /\ exit \in {None, 0, 1, 3, 4}
    /\ executed \in Nat /\ children \in Nat
    /\ stop \in BOOLEAN /\ expired \in BOOLEAN
    /\ base \in [run : Nat, cpu : BOOLEAN]
    /\ flight \in {None} \cup [cfg : Configs, aux : 0..3]
    /\ incumbent \in [cfg : Configs, score : Nat]
    /\ tried \subseteq Configs /\ validated \subseteq Configs
    /\ attempt \in [cfg : Configs \cup {None}, second : BOOLEAN,
                    runs : [1..options.runs -> Scores \cup {None}]]
    /\ rec \in [cfg : Configs \cup {None}, confirmed : BOOLEAN]
    /\ lost \in Nat /\ resumes \in Nat
    /\ split \subseteq Configs /\ wasted \in Nat

(***************************************************************************)
(* The budget bounds the machine's work over all processes of a session: a *)
(* process that dies loses the count of at most two children, the one it   *)
(* waits for and one whose record waits for a retest; a batch that fails   *)
(* is one child nobody counts; and each process may add the llama-cli      *)
(* validation, which asks for no budget.                                   *)
(***************************************************************************)
BudgetHolds ==
    children <= options.budget + 2 * lost + wasted
                  + (IF options.cli THEN resumes + 1 ELSE 0)

(***************************************************************************)
(* Whatever interrupts, crashes, rebuilds and resumes came before, the     *)
(* registry only names configurations within the cap whose whole           *)
(* confirmation is in the journal, all runs good, beating the threshold,   *)
(* and of one build or of builds nothing tells apart, and that passed      *)
(* their context probe when one was asked.                                 *)
(***************************************************************************)
RegisteredOnEvidence ==
    \A c \in registry :
        /\ ~OverCap(c)
        /\ \E b \in options.builds, scores \in [1..options.runs -> Scores] :
              /\ \A i \in 1..options.runs :
                    \E n \in DOMAIN confirms[c][i] :
                        confirms[c][i][n] = [build |-> b, score |-> scores[i]]
              /\ Total(scores) > options.runs * Threshold
        /\ options.ctx => c \in DOMAIN contexts /\ contexts[c]

(***************************************************************************)
(* The written recommendation never exceeds --max-gpu-layers; it is the    *)
(* baseline or a configuration whose trial ran, and one the journal has a  *)
(* score for unless it is confirmed: a fallback may be confirmed whose own *)
(* trial throttled.  When it is called confirmed it is registered, or      *)
(* about to be, or the process died between the two.                       *)
(***************************************************************************)
OutputsAreHonest ==
    outputs # None =>
        /\ ~OverCap(outputs.cfg)
        /\ outputs.cfg # Default =>
            /\ outputs.cfg \in DOMAIN known /\ known[outputs.cfg] # None
            /\ known[outputs.cfg] = Rejected => outputs.confirmed
        /\ outputs.confirmed => outputs.cfg \in registry \/ pc = "register" \/ lost > 0

\* What a session tells the registry and the user is what it has evidence for.
RecommendationsAreHonest == RegisteredOnEvidence /\ OutputsAreHonest

(***************************************************************************)
(* A measurement is taken once: a journaled trial or context probe is      *)
(* never replaced, by this process or by a later one, and a confirmation   *)
(* run that was good is not repeated by the same build, if that build can  *)
(* be told from others.                                                    *)
(***************************************************************************)
MeasuredOnce ==
    [][ /\ \A c \in DOMAIN known : c \in DOMAIN known' /\ known'[c] = known[c]
        /\ \A c \in DOMAIN contexts : c \in DOMAIN contexts' /\ contexts'[c] = contexts[c]
        /\ \A c \in Configs : \A i \in 1..options.runs : \A n \in DOMAIN confirms[c][i] :
              /\ n \in DOMAIN confirms'[c][i] /\ confirms'[c][i][n] = confirms[c][i][n]
              /\ confirms[c][i][n].score # None /\ confirms[c][i][n].build # None =>
                    \A m \in DOMAIN confirms'[c][i] :
                        m > Len(confirms[c][i]) =>
                            confirms'[c][i][m].build # confirms[c][i][n].build ]_vars

(***************************************************************************)
(* A tuning process ends: no answer of the machine, interrupt or state of  *)
(* the journal keeps it searching, validating or confirming for ever.      *)
(***************************************************************************)
RunTerminates == []<>(pc \notin Live)

----------------------------------------------------------------------------
(***************************************************************************)
(* search.py: _BudgetExhaustedError is internal and jumps to confirmation. *)
(* Fails: raised by the trial of a context fallback it leaves the engine.  *)
(***************************************************************************)
ExhaustionJumpsToConfirmation == ~stop => pc # "escaped"
=============================================================================
