# A verification development of llamatune

llamatune finds a good llama.cpp configuration for a machine by running the
benchmark many times.  It runs for hours, unattended, on machines that are
switched off under it; what it must never do is lose measurements it paid for,
spend more than it was allowed, or recommend something it did not measure.
These modules state that, in TLA+, of the code in `src/llamatune`.

`PROJECT.json` ties every definition to the lines it models, and lists the runs,
mutants, findings, hazards and theorems.

## The system

| Component | State | Operations | What makes it hard | What makes it correct |
|---|---|---|---|---|
| Session journal (`session.py`) | `journal.jsonl`, the entries in memory | `create`, `append`, `load` | a crash or full disk in the middle of a line; the file is repaired and appended to again | an acknowledged record is never lost; memory equals disk; the file always loads |
| Registry (`registry.py`) | `registry.jsonl`, shared by all sessions | `append_record`, `load_all`, `build_registry`, `incomplete_sessions` | an unterminated tail is removed by writing the whole file anew | as above, unless such a rewrite is cut short; only confirmed work is registered |
| Tuning engine (`search.py`) | baseline, known trials, probes, context probes, confirmations (all journaled); counters, incumbent, stop flag (memory) | baseline, search, validate, confirm, fall back, write outputs, register, end; resume | budget shared by all phases, SIGINT with two meanings, wall clock, crashes between child, record and output | budget, honest outputs, evidence behind every registration, termination |
| Sweeps and refinements (`search.py`, `config.py`) | the incumbent, trials and probes (journaled) | `_search` and its stages, `_evaluate`, `_pair_check_mmap` | each change of the incumbent changes what is proposed next; a resumed search starts over and finds its answers in the journal | a search that stops for lack of gain is at a local optimum; what was gained is found again |
| Conclusion (`search.py`) | confirmations, depth runs, context probes, rows of the envelope, outputs | `_finalize`, `_run_context_envelope`, `revalidate_session` | some work is inside the budget and some is not; fallbacks lead from rung to rung | every written context was probed with the configuration it is written for |
| Joint discovery (`search.py`) | boundary brackets, OOM points, probe answers | `_discover_boundary`, `_bisect_minimum_spill`, `_probe` | memoised answers, pruning, warm start, replay after resume | boundaries are evidence, adjacent, maximal; the spill is minimal |
| Executor (`executor.py`) | one child process, two drain threads | `run` with and without heartbeat | process groups, timeouts, pipes held by descendants | every run ends, and ends the child |
| Night shift (`nightshift.py`) | four queues of work items and a fifth made later, stop flag, failure history, a snapshot of the registry; the session directories it finds and leaves | resume, tune, calibrate, retune, deepen | queues that grow from one another, deadlines, signals while a child session runs, circuit breaker, what an earlier night left | no item lost or done twice, no completed session touched, honest exit |
| Marathon (`marathon.py`) | rounds, champion, bracket, failure counts, journal | recon, bracket, rounds, challenge, convergence, matrix, verification; re-entry | rebuilt from a lossy journal; signals to it or to its child; exit on failure streaks | the champion won its challenge; the end tells what happened |
| Context matrix (`matrix.py`) | cells of context and depth, the placement of each | `run_matrix` | failures remembered from cell to cell | each cell has the first placement that loads |
| Quality runs (`quality.py`, `qualserver.py`) | grades in the journal, one llama-server | launch, ask, relaunch, stop, grade; resume | a server that dies or is deaf, signals anywhere, what an earlier process graded | each task graded once; one child; the server never left running |
| Results matrix, reports, statistics, hardware and model inspection, benchmark parsing, CLI | derived files, or none | pure functions and renderers | numeric detail and layout | not state machines |

The engine calls the executor for every measurement and the journal after it.
Night shift and marathon run whole tuning sessions in their own process, read
the sessions' journals and the registry, and keep a journal of their own.
Everything is one thread, except the executor's two drain threads and the
signal handlers, which run between any two steps of the main thread.

`PROJECT.json` lists the hazards of this code at their lines.

## Modules

| Module | Models | Role |
|---|---|---|
| `DurableLog` | what an evidence file promises | abstract specification |
| `EvidenceLog` | `Session.append/_read_journal`, `registry.append_record/load_all`, the quality and marathon journals | detailed specification; refines `DurableLog` |
| `EvidenceLogProofs`, `BoundarySearchProofs`, `TuneEngineProofs`, `ExecutorProofs`, `NightshiftProofs`, `MarathonProofs`, `QualityRunProofs`, `ConclusionProofs` | | theorems about the module each is named after, checked by TLAPS |
| `BoundarySearch` | joint discovery with its journal and replay | detailed model of the first search stage |
| `TuneEngine` | a whole session across processes | the engine with the search left open |
| `Executor` | `executor.run`, `run_probe` on POSIX | one child, its helper, the drain threads, the waiting thread |
| `Nightshift` | `run_nightshift`, `build_initial_plan`, and `build_registry`/`incomplete_sessions` as it calls them | nights over a directory of sessions |
| `Ascent` | `_search` after joint discovery: placements, sweeps, refinements, hill climb, tensor overrides | the search with its candidates and what it keeps of them |
| `Conclusion` | `_finalize`, `revalidate_session`; extends `Ascent` | a whole session from the end of joint discovery to the registry record |
| `ContextMatrix` | `run_matrix` | one part of a marathon |
| `Marathon` | `run_marathon`, `find_reentry`, the blocks of `run_ab`; extends `ContextMatrix` | processes over a directory of runs |
| `QualityRun` | `_execute`, `_evaluate_http_side`, `ServerHandle` | a quality run, its processes, its server |
| `MC*` | | instances for TLC |

**EvidenceLog.**  A file is a sequence of newline-terminated lines and a tail.
A line is a record or `Torn`: what `json.loads` rejects, be it half a record or
two run together.  `kind` picks the policy: a session cuts a torn last line off
the disk when loaded, the registry drops an unterminated tail before each
append, quality skips a torn last line and refuses any other, a marathon skips any.  A write can be
cut to nothing, to a fragment, to the line without its newline, or reach the
disk whole and not be acknowledged.  A failed session append is followed by the
engine's `session_end`, written after the fragment or failing as well.  The registry's
repair is a write of its own: `append_record` truncates the file, writes its old text
without the tail and appends (`Rewrite`, then `AppendEntry`), with one fsync after all of
it.  A crash or a full disk in between leaves any part of the old text (`CrashInRewrite`,
`Remains`); `broken` remembers it, and what the properties promise of the registry, they
promise until then.

**BoundarySearch.**  A configuration is a pair (MoE layers on the CPU, layers on
the GPU), the only fields this stage changes.  `answers` says which statuses a
run of it may come back with.  One action per loop body: enter a rung, ask
(first guess, zero, growth, bisection), measure neighbours, leave the rung;
then the spill bisection and its frontier.  `probes`, `known` and `recorded`
are the journal; a crash keeps them and nothing else, and the next process
replays the stage over them.

**TuneEngine.**  `pc` is the phase.  What the search asks next, and what it
measures, is open; the engine's handling of it is not: every execution goes
through the guard the code has (`CanExecute`, the whole budget for the baseline,
only the remaining count for a batch, none for llama-cli), the child runs before
its record, auxiliary runs (thermal retest, stability rerun) are journaled
before the trial they belong to, and confirmation runs are reused by index, if they were
good and made by the same build of llama-bench (a resume after a rebuild is only warned
about; a build whose hash cannot be read shares runs with none).  A measurement is a score,
no score at all, or `Rejected`: numbers of a machine that throttled, which get no score.  A
context fallback that comes back so becomes the incumbent all the same, with score 0
(`Reseated`).
The search loops and `_confirm` are split at each child, since SIGINT, the
clock, an I/O error and the end of the process can come between any two.

**Executor.**  A process group of a leader and maybe a helper that inherited its
pipes, one drain thread per stream, and the thread that called `run`.  Output is
counted in chunks.  `KeyboardInterrupt` can arrive at each step of the caller:
inside the `try` block it ends the group and joins the threads, anywhere else it
leaves at once; before that block (the threads are started one by one ahead of it) it
leaves the child, and the call ends `abandoned`.  What a child does (how much it writes, whether it hangs, which
of its processes SIGTERM ends, whether its capture file can be written) is
chosen at the start.

**Nightshift.**  `world` is everything a night does not decide: the models found,
the representative of each one's content group, whether there is a deadline and
how much time, what is in the sessions directory, and how often the user runs the
command and presses Ctrl-C.  A session directory is four bits: it has an
analysis, its journal has an entry that can complete it, some entry says it was
interrupted, its recommendation fits the context asked for.  A child session is
what it can leave there (`ChildFinishes`, `ChildFails`, `ChildRaises`, `Crash`,
the two signals); `TuneEngine` has the rest of it.  One action takes the next item
(`Pick`), one each defers it, calibrates it, prepares and runs it, and judges it;
`NextPhase` moves through the queues.  While a child runs, SIGINT is the child's:
`SignalToChild`.  SIGTERM, which no child handles, and SIGINT at any other time
are the night's: `SignalToNight`.  The night's own journal and report are written and
never read back, so they are not state; failing to write them is `Crash`.

**Ascent.**  A stage is a sequence `todo` of mutations of the incumbent.  For each,
one action asks (`RecallTrial`, `RunTrial`), prunes (`PruneCandidate`) or passes over it
(`Skip`), the checks its dimension wants follow (`PairCheck`, `RecallProbe`, `RunProbe`,
`PruneProbe`), and `Judge` decides.  `NextStage` closes a stage; `GiveUpStage` and
`Exhaust` are the two ways an exhausted budget ends one, by the look `_can_execute` takes
and by `_BudgetExhaustedError`.  The candidates of every dimension are translated from
`config.py`, the order of the stages from `_search`.  `Answers` and `ProbeAnswers` are the
machine: what a run of a configuration may come back with.  A trial id is the
configuration; where equal scores leave the choice to it, the choice is fixed.

**Conclusion.**  `pc` goes through the stages of `_finalize`.  The runs of a confirmation
are one step, and a winner that is refused gives the defaults: runner-up, context
fallbacks, single runs and a rebuild of llama-bench between two processes are
`TuneEngine`'s, and so is the order of the last writes.
The envelope is one action per probe, asked or recalled, of the configuration itself or
of the fallback at hand.  `SearchRestart` is what a new process keeps: the journal.

**ContextMatrix.**  One cell after the other; `failedAt` is what a champion's failure
tells later cells, `placement` walks the retreat order.

**Marathon.**  `runs` are the run directories with the entries that are read back.  A
process resumes the open round, measures its reference, rebuilds the champion from the
journal, and runs rounds, matrix and verification.  A round is a session that finishes,
fails or raises; a challenge is played block by block.  A calibration is its verdict, the
deadline a look at the clock that may find it passed, coverage an answer the round is
given.  `stop` is the run's flag; SIGINT in a round is the child's.  The torn tail of an
interrupted append is absorbed by the next entry, the plan of the process that re-enters,
which is never read: `EvidenceLog` has that.

**QualityRun.**  A process walks sides, suites, tasks and repetitions; `prior` is what it
takes for graded.  `pc` names the statement a signal can come between: the first sets
`stop`, each later one raises (`Unwind`) wherever it meets the process, in `start`, `stop`
and the joins too.  In `start` there is a stretch between the launch and the `try` that
guards it (`Spawn`, then `Guard`; `qualserver.py:366-385`) where a second signal loses the
server: `from` becomes `"nobody"`.  In `stop` a signal skips SIGKILL and goes to the wait for
the output threads, which has no timeout: a server that is deaf to SIGTERM and still running
makes that wait endless (`Hung`).  A process that crashes leaves the server to the operating
system and the model forgets it.

## Runs

| Run | Shows | Bounds |
|---|---|---|
| `evidence` | what each file keeps, and refinement of `DurableLog` | 6 records, 4 cuts: enough for a cut before, in and after a repair or a rewrite, and a second one |
| `boundary` | boundaries, spill, budget, cap, replay | 6 GPU layers, 8 MoE layers (a ladder of five rungs), nine machines (never, sometimes, always fitting; failing by OOM or by crash; one that wavers), three score functions, four command lines, one crash |
| `tune` | budget, journal, registry, outputs, reserve, termination | three configurations, two scores (beats the baseline or not), no score and a rejected measurement, eight command lines with and without context, clock, batches, cap, llama-cli, baseline only, and one resumed by another build or one whose hash is unreadable; one dying process, one resume; budgets that leave the search zero to two executions |
| `executor` | every call comes back, with the whole output, the child reaped | captures of two chunks, pipes of one, one to four chunks on stdout, so a capture overflows and a writer waits; sixty-four children; two interrupts |
| `nightshift` | no work lost or repeated, evidence kept, breaker and exit code right | eleven worlds: three models with and without copies in one night, one with a deadline and room to deepen, two nights of one model or two copies from an empty directory, an interrupted session, and a record followed by a session cut short; two where the record of a copy is hidden during the night, one short of time, one with an older record that comes back; up to two signals a night |
| `marathon` | the champion won, reason and exit code are true, the matrix is first-fit, every process ends | twelve worlds: three to five rounds to the breaker and to convergence; two rounds through a crash; two identities and dry runs; two signals around a crash; matrices of up to four cells on machines of different reach, with and without a deadline |
| `quality` | each tuple graded once, one child, honest exit, every process ends or hangs as said | eight worlds: up to three tasks in two suites, two repetitions, one or two sides, with and without perplexity; a server that may die at any request; one deaf to SIGTERM, with a crash or with two signals; up to four signals, one crash, two processes |
| `ascent` | local optimum, gains found again, work bounded, envelope true, every process ends | ten settings, below; one dying process, one resume, one revalidation |
| `session_newline_cut`, `exhaustion`, `old_interruption`, `interrupted_run` | where the code departs from what its comments and docs say, one property each | the smallest instance that shows it |

The settings of `ascent` each open a part of the search: `Sweeps` and `Tight` (flash
attention that opens the way for batches, a batch that crashes, a budget that runs out),
`Wary` and `Known` (an OOM of joint discovery that prunes what would have fit; a budget
one short of a confirmation), `Threads` and `Mapped` (a host without GPU, three passes of
thread counts, a benchmark that wavers on mmap), `Experts` (joint refinement, the hill
climb in both directions, tensor overrides, out-of-memory), `Moody` (a joint pass that promotes
and then meets an OOM that rules out what it promoted), `Devices` (split modes of two
GPUs, the deadline) and `Ladder` (lossy caches, smaller placements, depth profile,
llama-cli, quality gate, three rungs of which some need a fallback).  The eight tries of
the pairwise stage are not exhausted in any of them.

The budgets are small because executions are interchangeable: what matters is
whether the search, a probe, a retest or a confirmation is the one that meets
the limit, and each of them does.  Two configurations besides the default are
enough for a winner, a runner-up and a context fallback to differ.

Three models are what the breaker needs and what gives a representative a sibling
and an unrelated third; two nights are one that leaves something and one that
finds it.  The time of a night is three units, a tune needs two and a calibration
one, so there is a moment for each item to fit when the other does not.

Each property of a passing run has a mutant: the definition of the model that a
plausible bug would change, and the changed form, with which TLC finds the
property violated.

### Departures

The violation runs show four.  Modelling met others, which the models contain
(their properties are stated around them) and no run isolates:

* a quality run's journal keeps its torn tail when resumed, and the next record
  is lost with it (`quality.py:224`; `LossBounded` has the bound);
* a rung hinted by `--initial-cpu-moe` comes first in the ladder, and its boundary
  then caps rungs that would fit more (`search.py:1176`; `BoundariesAreTrue`
  leaves that case out);
* a batch asks neither the stop flag nor the clock (`search.py:1758`);
* the llama-cli validation spends an execution nobody asked for
  (`search.py:2781`; `BudgetHolds` allows for it);
* a sibling whose representative was resumed, not tuned, gets no calibration that
  night (`nightshift.py:843`);
* a session that can never be resumed keeps its model out of the tune queue
  (`nightshift.py:269`);
* the first SIGINT refuses the confirmation runs too, while `DESIGN.md:388-389` has it
  confirm the best so far;
* a helper of the benchmark that ignores SIGTERM survives its leader and blocks the
  engine for ever (`executor.py:561`; `RunEnds` leaves that child out);
* a first SIGINT that a child takes is forgotten by the night when the child then fails,
  since only a session that gets to its recommendation says it was stopped
  (`nightshift.py:344`);
* the night that plans a calibration of a model whose record is hidden by a newer session
  dies of a KeyError (`nightshift.py:722`; `docs/nightshift-design.md:433-434`);
* a crash or a full disk while `append_record` writes the registry anew takes acknowledged
  records away (`registry.py:74`; `AckedSurvive` and `DurableLog` promise the registry's
  only until then);
* a context fallback whose trial was rejected for throttling becomes the incumbent with
  score 0 and can be confirmed and written (`search.py:2253-2260`;
  `RecommendationsAreHonest` asks for numbers, not for a score, of such a fallback);
* a rebuilt llama-bench, or one whose hash cannot be read, makes a resumed process run
  confirmations again that it has (`search.py:3085-3095`; `MeasuredOnce` speaks of one build
  at a time);
* an interrupt between the start of a benchmark and the `try` block leaves it running
  (`executor.py:484-538`; `ReapedDespiteInterrupt` says so), and so does a second signal
  between the start of a server and its own (`qualserver.py:366-385`), although
  `docs/quality-eval-design.md`, 8, lets no signal path orphan the server: `OneChild` leaves
  that window out;
* a second signal while a server deaf to SIGTERM is being stopped hangs the process on its
  output threads (`qualserver.py:314-317`; `ProcessEnds` in `QualityRun` allows for it);
* a quality run resumed after an error grade exits 0 (`quality.py:1446` looks at this
  process only), and a third signal can break off `stop` and leave the server running;
* a failed round and an error of the verification's bracket do not show in the marathon's exit code
  when a later round succeeds; the winner of a round that was resumed, or whose challenge
  raised, is never a challenger again (`marathon.py:644`, `abtest.py:106`);
* what thread, pairwise and cross refinement promoted before a crash is not promoted again
  by the process that resumes, which skips configurations the journal knows
  (`search.py:1675`), although `search.py:258-260` speaks of a deterministic resumed
  search; nor is what joint refinement promoted, when an OOM journaled later rules it out
  (`search.py:1337`), so that the hill climb and the overrides of the resumed process
  start somewhere else (`SweptGainsSurvive` is about placements and sweeps only); mmap pair checks are run again by every process, and OOMs seen by probes are forgotten
  on resume;
* pairwise refinement changes ubatch and batch without a probe (`search.py:1614`;
  `DESIGN.md:363-365` wants one);
* revalidation journals its runs as confirmation runs, so they count against the budget
  of a later resume, and it takes a winner rejected for its context (`search.py:282`);
* the quality gate and llama-cli run outside the budget and after SIGINT
  (`search.py:2781`; `WorkBounded` allows for them);
* a rung of the envelope above one that failed is written `pruned` even when the journal
  has a probe of that configuration that passed there: `_record_context_pruned` returns
  early and the row keeps its status (`search.py:2387`; `EnvelopeIsTrue` asks of a pruned
  row only that an earlier one failed);
* a copy whose record is hidden by a session resumed during the night can be recorded
  twice: as deferred with the failed tune of its representative, and again when its own
  calibration has its turn (`nightshift.py:819`; `NothingLeftOut` allows for it).

### Fairness

`TuneEngine` and `Conclusion` assume weak fairness of the engine's own step, `Marathon` and
`QualityRun` of the process's: each is one thread, and it waits for children and requests
with a timeout.  The one wait without, for the output of a server, is taken to end when the
server has, which is what `Hung` excepts.  Nothing is assumed of
SIGINT, the clock, crashes, errors or a user who resumes; a server may die at every
request.

`Executor` assumes that threads are scheduled and that the caller's timeouts
expire; that a process SIGTERM ends, ends; and that a writer with room writes.
It does not assume that a hanging child ends, nor that anybody heeds SIGTERM.
`RunEnds` is what `TuneEngine` relies on when it lets every child end, and it
holds only for children without an everlasting helper; with one the caller hangs,
and `TuneEngine` does not model it.

`EvidenceLog`, `BoundarySearch` and `Nightshift` state safety only.  That a search and
a night do not go on for ever needs no fairness and is proved (`SearchDescends`,
`NightsDescend`); their children end by `RunTerminates` and `RunEnds`.

## What is proved

TLC checks the instances above; TLAPS checks the theorems below for every value of the
constants that meets the assumptions of the module.  In each proofs module `Inductive`
proves `Spec => []Inv`, with one lemma per action under it (or one per part of `Inv` and
action), and each property follows from `Inv` alone.  The parts of `Inv` are named and
commented where they are defined; TLC checked every one of them on the instances before
it was proved.

| Module | Theorems, and the properties they state | For every |
|---|---|---|
| `EvidenceLogProofs` | `TypeCorrect`, `AckedRecordsSurvive` (`AckedSurvive`), `SessionMemoryIsDisk` (`MemoryIsDisk`), `LossesAreBounded` (`LossBounded`), `Refinement` (`ImplementsDurableLog`) | number of records and cuts |
| `BoundarySearchProofs` | `TypeCorrect`, `BudgetIsKept` (`BudgetHolds`), `BoundariesAreRight` (`BoundariesAreTrue`), `SpillIsSmallest` (`SpillIsMinimal`), `ReplaysAgree` (`ReplayAgrees`), `SearchDescends` | number of layers and MoE layers, command line, machine, number of crashes |
| `TuneEngineProofs` | `TypeCorrect`, `BudgetIsKept` (`BudgetHolds`), `RecommendationsAreRight` (`RecommendationsAreHonest`), `NothingMeasuredTwice` (`MeasuredOnce`), `SessionDescends` | finite set of configurations, scores, budget, number of confirmation runs, of processes that die and that resume |
| `ExecutorProofs` | `TypeCorrect`, `CapturesAreComplete` (`CaptureComplete`), `ChildIsReaped` (`ReapedDespiteInterrupt`), `RunDescends`, `NobodyIsStuck` | capture limit, pipe size, child, number of interrupts |
| `NightshiftProofs` | `TypeCorrect`, `RecordsAreRight` (`RecordsAreEvidence`), `EndsAreHonest` (`EndIsHonest`), `NoWorkIsUndone` (`WorkIsKept`), `NothingIsLeftOut` (`NothingLeftOut`), `NightsDescend` | number of models, world, number of nights and signals |
| `MarathonProofs` | `TypeCorrect`, `MatrixIsRight` (`MatrixIsFirstFit`), `ChampionsAreWon` (`ChampionIsWon`), `EndsAreHonest` (`EndIsHonest`), `ProcessDescends` | number of rounds, blocks, cells, processes and signals |
| `QualityRunProofs` | `TypeCorrect`, `GradesAreUnique` (`GradedOnce`), `ServersAreReaped` (`OneChild`), `ExitTellsTheTruth` (`ExitIsHonest`), `RunDescends` | number of suites, tasks, repetitions and processes |
| `ConclusionProofs` | `TypeCorrect`, `WorkHolds` (`WorkBounded`), `ConvergedHolds` (`ConvergedIsLocal`), `EnvelopeHolds` (`EnvelopeIsTrue`), `GainsSurvive` (`SweptGainsSurvive`), `ProcessDescends` | model, machine, command line, budget, context ladder, number of crashes, resumes and revalidations |

**EvidenceLog.**  The theorems assume `NoNewlineCut`: no crash keeps a session line and
loses its newline.  The assumption is needed: the run `session_newline_cut` is the
counterexample without it, and `evidence` meets it.  The registry needs none.  That a
repair takes no record away depends on where a torn line can be.  `IInv` adds that record
numbers on disk are older than `next` (`Fresh`), that a registry has no torn line before
its tail, whatever a broken rewrite left of it (`RegistryShape`), that it has no tail while
it is being rewritten, and that a session has a torn line only at its end and, unless
it is down or failing, no tail (`SessionShape`).  `StepKeeps` has one step per action;
`WriteKeeps` and `RepairedSession` carry the two hard parts, a write cut short and a repair.
`LossesAreBounded` is about the two journals nobody repairs, and needs no `NoNewlineCut`:
`LossInv` charges each lost record, and each tail that will take the next one with it, to a
cut of its own.

**BoundarySearch.**  That a recorded boundary is final rests on the fuse: the loop of
`_discover_boundary` gives up after `2 * bit_length(ngl_all) + 4` probes, and a rung it
cut short would be recorded wrong.  `FuseInv` shows that growth and bisection never get
there: growth has used at most one probe more than the bits of the largest fit, and what
a bisection has used and the bits of its interval add up to two less than the fuse.  It needs that
`bit_length` counts halvings, is monotone and drops by one when halved
(`BitLengthFacts`, `BitLengthGrows`), proved by the smallest counterexample, since the
prover has no induction.  That a boundary is the true one rests on `TruthInv`, assuming a
monotone machine as the property does: what was answered is what the machine always
answers (`AnswersTrue`), pruning included; the bracket encloses the boundary
(`BracketTrue`); and going down the ladder a warm cap hides nothing (`MaximalInv`).  The
spill needs more, because it is minimal for a hinted rung, too, whose boundary then caps
rungs above it: `FoundTrue` says when a boundary below the cap may be one the cap made.

`ReplayAgrees` compares a process with a complete run of an earlier one, which no state
contains.  What makes it true is that the journal only grows: a `Stage` of the search
(phase, rung, ladder, candidates, warm cap, boundaries, incumbent) that the journal can
answer (`Answerable`) has one next stage (`After`), for ever.  `Trace` is a sequence of
such stages from the first one (`Fresh`), an operator of the journal and no variable.
`ReplayInv` says that a live process stands at the end of one, `RecordsInv` that each
boundary in the journal was left behind on one (`Replayable`) or belongs to the frontier,
which is off the ladder; and of two traces of one journal one begins with the other, so a
rung has one boundary.

**TuneEngine.**  The budget is one of counting: `CountInv` says that a live process has
counted what is journaled and what is in flight, and how many of the children no journal
ever saw.  Honesty of the outputs is not inductive by itself; `EvidenceInv` carries the evidence
from the incumbent to the attempt, the recommendation, the output and the registry, and
that no later step takes a journaled score, probe or confirmation run away, which is also
half of `NothingMeasuredTwice`.  A configuration without a score may go that way only if it
passed the context probe (`Vouched`), and not into an unconfirmed recommendation
(`WinnerInv`).  The other half needs `RunsInv`: nothing follows a good run of a build under
that build (`RunsInOrder`), and each score the attempt at hand holds, be it reused or measured,
has an entry, and one it lacks has none under this build (`InHand`).  The sum of a confirmation's runs is the fold `Total`.  Assumed, beyond types: finitely many
configurations, and `None` is no kind of baseline.

**Executor.**  `Accounted` follows each chunk: what was written and not drained is in the
pipe, what was drained is in the capture, which is full before it drops anything.
`ReapInv` says which interrupt cuts off what.

**Nightshift.**  A plan is made once and worked off while sessions change under it.
`PlanInv` keeps what it says of a directory or a model true until its turn comes: the
sessions of the resume queue are unfinished, those of a model in the tune queue completed
without the context; `ChildInv` and `RecordsInv` follow.  `BreakerInv` relates the failure
history the code keeps to the streak of failed items that the property speaks of.
`LeftInv` relates queues and records: what the loop has reached has a record (`Covered`),
what it has not reached has none, and records are unique but for deferred calibrations
(`RecordedOnce`), through queues that grow behind the loop's back.  That holds only because
a model is tuned again once (`RetunesInv`), and calibrated once (`CalibratedInv`): a copy
can stand in the queue twice, from the plan and from its representative's tune, but then
its record is hidden and the first of the two is never run (`DoublesInv`).  The attempt
to prove that each item has exactly one record failed for a reason, the last departure
above; TLC confirmed it with the two worlds that were added for it.
Assumed: at least one model can be found, and a representative represents itself.

**Marathon.**  `Budget` and `RoundInv` say that every journal has at most one open round,
numbered above the completed ones, through re-entry; `CrownsWon` that each crowning follows
a won challenge of its round; `CountInv` that the counters of a process count its own
newest entries; `ExitInv` and `ReasonInv` carry reason and exit code to the end.
`WalkInv` is the walk over the placements of one cell and what `failedAt` saves it.
Assumed of the command line: at least one round, three blocks, and a grid whose first
placement, when evidence is reused, loads the smallest context.

**QualityRun.**  `JournalInv` says that each tuple has one grade and that `prior` is what
the journal has graded; `Unanswered` that the tuple at hand has none, which survives a
server that dies and comes back; `ServerInv` where a server can be running, after how
many signals, and that one is lost in `start` only by a second signal before its `try`; `ProgressInv` that a process leaves nothing ungraded behind it; `HarnessInv`
what an error does to the exit code.

**Ascent and Conclusion.**  `WorkInv` is one of counting, over all processes: what is
journaled and what the live process still owes outside the budget (`Owed`) stays within
`Allowance`, and a child without an entry is one a crash cost.  `SearchInv` goes through
every stage: what it proposes is within the fields of a configuration and, where the stage
does not ask `is_valid_config`, valid because the incumbent is (`TodoInv`); what was heard
of the candidate is what the journal has (`HeardInv`); the hill climb and the placements
stay where they can be (`ClimbInv`, `PlaceInv`).  `StageInv` is the memory of the
conclusion.  `LocalInv` makes `ConvergedIsLocal` inductive: the values of a sweep that are
behind have been heard of (`SweepInv`), one that scored more than the best was refused for a check its
dimension asks for (`CheckedInv`), and a pass that gained nothing has so explored every
dimension behind it around the incumbent it still has (`PassInv`).  `EnvInv` carries the
envelope: required context and confirmed configuration passed their probes (`ValidInv`),
the rows done are true and successes come first (`RowsInv`), and the walk over the
fallbacks of the rung at hand has tried those before it, and they failed (`WalkInv`).
`GainsInv` goes along traces too, up to where placements and sweeps alone lead: an action
keeps the stage, moves to the one the journal decides, or promotes for a reason a later
process may not meet again, and then the process is `replayable` no longer (`StepFollows`).
A live process is on the trace (`FollowedInv`), the best incumbent on it was reached there
(`SettledInv`), and a process that is past it has at least that (`RegainedInv`).  The first
attempt at this theorem failed for a reason: what a joint refinement promotes was taken for
replayable, and an OOM it meets afterwards can rule it out for the next process.  The
machine of `Moody` shows it, and `SweptGainsSurvive` now speaks of placements and sweeps
only.
Assumed: the context ladder is ascending and above the required context, as `cli.py:490-503`
makes it; joint discovery hands over a valid configuration, measured or the default.
Nothing is assumed of the machine but that its answers are of the kinds the code tells
apart.  The proof led to two corrections: `Judge` could still be taken by a process that
had crashed, and a pruned row was said to have a failed probe.

**Endings.**  Seven of the modules prove the half of termination that needs no fairness: nothing
goes on for ever.  A `Height` is a tuple of numbers compared like words in a dictionary;
`DescentEnds`, from the library's theorem on lexicographic products, says that this order has
no infinite descent, and a theorem named `...Descends` that every step lowers the height.
Steps of the user and the machine are counted out, too: a signal lowers the signals to come, a
crash or a resume the processes to come, both bounded by the constants, so that the theorems
hold for any bound.  Only in `Conclusion` a resume raises the height, and interrupts, the
deadline and revalidations leave it.  What makes each hold:

* `BoundarySearch`: a rung is visited once, and the fuse bounds what it asks.
* `TuneEngine`: a promotion raises the score of the incumbent, of the finitely many
  configurations there are, but for one that replaces a default beyond `--max-gpu-layers`; that
  this happens once needs that nothing beyond the cap has a score (`WithinCap`).
* `Executor`: chunks still to write, threads, chunks in the pipes and processes, whoever
  moves.  `NobodyIsStuck` adds that a run that is not over has somebody who can move, though
  neither join has a timeout: who joins has reaped the leader (`WaitInv`), so a thread can
  drain, see the end of the file, or wait for a helper that ends.
* `Nightshift`: queues grow while the night works them off, but only those of later phases.
* `Marathon`: the number of a round grows although a failure lets later processes use it
  again; cells, then placements, then refinements within a matrix; blocks within an A/B.
* `QualityRun`: the relaunches of a server that dies at every request are counted out.
* `Conclusion`: sweeps and threads alternate and count as one stage; before it the passes and
  dimensions, the places a climb has not been (`TargetInv`) or the rungs of the envelope, then
  the candidates, then what is still to be asked of the one at hand.  It supposes that `None`
  is not itself a record like a judgement.

Induction over data is out of the prover's reach in general; where a proof needs it, it
goes through the smallest counterexample (`SmallestOf`, from the well-foundedness of the
naturals) or the cardinality theorems of the library.

Left to TLC:

* liveness (`RunTerminates`, `RunEnds`, `ProcessEnds`): that a step is possible, and is taken,
  needs ENABLED and fairness, out of the prover's reach.  That there is no endless run of
  steps is proved for each of them (Endings, above);
* the violation runs, which are counterexamples.

## Not modelled

* Thermal, stability and context work inside joint discovery is in `TuneEngine`,
  not in `BoundarySearch`.
* In `Ascent` and `Conclusion`: batches, `--max-gpu-layers`, thermal retests and reruns
  (`TuneEngine` has them), the capacity check of placements, which only advises, and how
  much memory a configuration needs: KV pressure is an option of the setting.
* The quiet gate and the cooldown: they wait, and journal that they did.
* Parsing, hardware inspection, rendering and the numeric parts (scores, noise
  floor, calibration fit): the models take their outcomes as given.
* Windows process control (`executor.py`), and what a child's environment holds.
* Discovery, content hashing and the rank of models by size (`discovery.py`): the night
  is given their result.  What a calibration measures: it is given a verdict.
* In `Marathon`: references measured again and their threshold (data), the profile of a
  round's options, coverage.
* In `QualityRun`: how a task is asked and scored, code execution deferred to the end of
  a run (inactive unless asked for), the comparison of two runs, dry runs and disk errors.
* `DurableLog` is refined by the session and the registry only; the quality and marathon
  journals lose what `LossBounded` says.

`PROJECT.json` maps the principal definitions of each module.  Helpers whose lines lie inside
the lines of an action that uses them are not listed again.

## Plan

Done: the evidence files, joint discovery, a whole session, the executor, the night
shift, the marathon with its matrix, quality runs, the search after joint discovery and
its conclusion, each with its proofs.  Next, in this order:

1. An abstract budget ledger that `BoundarySearch`, `TuneEngine` and `Conclusion` refine.
