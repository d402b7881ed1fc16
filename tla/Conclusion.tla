----------------------------- MODULE Conclusion -----------------------------
(***************************************************************************)
(* A whole tuning session from the ascent to its registry record: what     *)
(* _finalize does once the search is over.  The incumbent is validated at  *)
(* the requested context and confirmed; a confirmed one gets its depth     *)
(* profile, the llama-cli check, the quality gate, and the envelope of the *)
(* larger contexts it, or a smaller placement of it, still fits.           *)
(*                                                                         *)
(* The runs of a confirmation are one step, and a candidate that fails its *)
(* validation or its confirmation gives the defaults: TuneEngine has the   *)
(* fallbacks, the runner-up and the single runs.  boundaries are what      *)
(* joint discovery found, the most layers first, as BoundarySearch does.   *)
(***************************************************************************)
EXTENDS Ascent

CONSTANTS
    RungProbes,   \* executions the envelope may spend on a rung
    TotalProbes,  \* and in all
    MaxRevalidated \* bound: revalidations

ASSUME CapsAssumption == RungProbes \in Nat /\ TotalProbes \in Nat /\ MaxRevalidated \in Nat

\* --ctx-size values are positive, distinct and ascending.
ASSUME LadderAssumption ==
    \A s \in Settings :
        /\ s.ctx \in Nat /\ s.ladder \in Seq(Nat) /\ s.depths \in Seq(Nat)
        /\ s.boundaries \in Seq([moe : Nat, max_ok : Nat])
        /\ \A i \in DOMAIN s.ladder :
            s.ctx < s.ladder[i] /\ \A j \in 1..(i - 1) : s.ladder[j] < s.ladder[i]

VARIABLES
    confirmed,  \* journal: configurations whose confirmation passed
    depths,     \* journal: depth profile runs, by configuration and depth
    marks,      \* journal: stages that are written once
    analysis,   \* disk: the analysis written, or None
    registry,   \* disk: records [cfg, ctx] of this session
    valid,      \* memory: the incumbent passed the requested context
    rec,        \* memory: the recommendation, [cfg, confirmed]
    left,       \* memory: what the stage has still to do
    rows,       \* memory: rungs of the envelope done
    env,        \* memory: the rung under way
    revalidated \* history: revalidations

disk == <<analysis, registry>>
evidence == <<confirmed, depths, marks>>
finalMemory == <<valid, rec, left, rows, env>>
vars == <<searchVars, disk, evidence, finalMemory, revalidated>>

\* The ascent, as the conclusion leaves it.
ascent == <<setting, trials, signals, at, todo, tried, heard, best, climb, incumbent, lost,
            resumes, history>>
machineUse == <<probes, journaled, executed, ooms, children>>

----------------------------------------------------------------------------
FinalStages == {"searched", "exhausted", "validate", "confirm", "depth", "cli", "gate", "envelope",
                "lossless", "publish"}
Live == SearchStages \cup FinalStages \cup {"discovered"}

\* _trial_limit once the engine is finalizing.
MayExecute == ~stop /\ ~expired /\ executed < setting.budget

IsLossy(cfg) == cfg.cache_type_k # "f16" \/ cfg.cache_type_v # "f16"
Rank(type) == CHOOSE r \in DOMAIN CacheTypes : CacheTypes[r] = type

\* seq but for every x.
Without(seq, x) ==
    FlattenSeq([i \in DOMAIN seq |-> IF seq[i] = x THEN <<>> ELSE <<seq[i]>>])

\* _context_candidates: the configuration, then every placement known to fit.
ContextCandidates(cfg) ==
    LET placements(b) ==
            [i \in 1..(b.max_ok + 1) |->
                [cfg EXCEPT !.gpu_layers = b.max_ok + 1 - i, !.moe_cpu_layers = b.moe]]
        others(b) == Without(placements(b), cfg)
    IN  <<cfg>> \o FlattenSeq([i \in DOMAIN setting.boundaries |-> others(setting.boundaries[i])])

\* The cache types a placement may be lowered to, the least lossy first.
Tiers == <<"q8_0", "q4_0">>

\* A placement in its own cache types, then K and K/V in each lower one.
Variants(cfg) ==
    LET lowersK(t) == "ctk" \in setting.caps /\ Rank(t) > Rank(cfg.cache_type_k)
        lowersV(t) == "ctv" \in setting.caps /\ cfg.flash_attn /\ Rank(t) > Rank(cfg.cache_type_v)
        inK(t) == IF lowersK(t) THEN [cfg EXCEPT !.cache_type_k = t] ELSE cfg
        lowered(t) == (IF lowersK(t) THEN <<inK(t)>> ELSE <<>>)
                        \o (IF lowersV(t) THEN <<[inK(t) EXCEPT !.cache_type_v = t]>> ELSE <<>>)
    IN  IF setting.lossy THEN <<cfg>> \o lowered(Tiers[1]) \o lowered(Tiers[2]) ELSE <<cfg>>

EnvelopeCandidates(cfg) ==
    LET placements == ContextCandidates(cfg)
    IN  FlattenSeq([i \in DOMAIN placements |-> Variants(placements[i])])

----------------------------------------------------------------------------
NoRec == [cfg |-> None, confirmed |-> FALSE]
NoRung == [searching |-> FALSE, status |-> "skipped", failed |-> FALSE, fallback |-> <<>>,
           start |-> 0, total |-> 0, truncated |-> FALSE, exhausted |-> FALSE]

\* A fallback is a sequence of one configuration or none.
Row(ctx, status, fallback) == [ctx |-> ctx, status |-> status, fallback |-> fallback]

\* A budget exhausted or an interrupt changes nothing to what is journaled.
EndSearch ==
    /\ pc \in {"searched", "exhausted"}
    /\ pc' = IF stop \/ setting.ctx = NoCtx THEN "confirm" ELSE "validate"
    /\ UNCHANGED <<ascent, machineUse, disk, evidence, finalMemory>>

Context == <<incumbent.cfg, setting.ctx>>

\* Recalled from the journal or run; without budget for it nothing is valid.
Validate ==
    /\ pc = "validate"
    /\ \/ /\ Context \in DOMAIN probes
          /\ valid' = (probes[Context] = "ok")
          /\ UNCHANGED machineUse
       \/ /\ MayExecute
          /\ \E status \in ProbeStatuses(incumbent.cfg, setting.ctx) :
                Probe(incumbent.cfg, setting.ctx, status) /\ valid' = (status = "ok")
       \/ /\ Context \notin DOMAIN probes /\ ~MayExecute
          /\ UNCHANGED <<valid, machineUse>>
    /\ pc' = "confirm"
    /\ UNCHANGED <<ascent, disk, evidence, rec, left, rows, env>>

Defaults == rec' = [cfg |-> setting.default, confirmed |-> FALSE]

\* Only a confirmed winner is profiled; the other checks run either way.
AfterConfirm == IF rec'.confirmed THEN pc' = "depth" /\ left' = setting.depths
                ELSE pc' = "cli" /\ left' = <<>>

\* A winner that did not pass the requested context is not confirmed.
Winner(cfg) == rec' = [cfg |-> cfg, confirmed |-> setting.ctx # NoCtx => valid]

\* Mutant of Refused: one execution left is enough for all the runs.
RefusedWhenSpent ==
    \/ incumbent.cfg = setting.default
    \/ incumbent.cfg \notin confirmed /\ ~MayExecute

\* Not for the defaults, nor without budget for all the runs.
Refused ==
    \/ incumbent.cfg = setting.default
    \/ /\ incumbent.cfg \notin confirmed
       /\ ~MayExecute \/ executed + setting.runs > setting.budget

RefuseConfirmation ==
    /\ pc = "confirm"
    /\ Refused
    /\ Defaults
    /\ AfterConfirm
    /\ UNCHANGED <<ascent, machineUse, disk, evidence, valid, rows, env>>

RecallConfirmation ==
    /\ pc = "confirm"
    /\ incumbent.cfg \in confirmed /\ ~Refused
    /\ Winner(incumbent.cfg)
    /\ AfterConfirm
    /\ UNCHANGED <<ascent, machineUse, disk, evidence, valid, rows, env>>

Confirm ==
    /\ pc = "confirm"
    /\ incumbent.cfg \notin confirmed /\ ~Refused
    /\ \/ confirmed' = confirmed \cup {incumbent.cfg} /\ Winner(incumbent.cfg)
       \/ Defaults /\ UNCHANGED confirmed
    /\ executed' = executed + setting.runs
    /\ journaled' = journaled + setting.runs
    /\ children' = children + setting.runs
    /\ AfterConfirm
    /\ UNCHANGED <<ascent, probes, ooms, disk, depths, marks, valid, rows, env>>

----------------------------------------------------------------------------
\* A journaled run at a depth is reused whatever came of it.
DepthRun ==
    /\ pc = "depth" /\ left # <<>>
    /\ LET key == <<rec.cfg, Head(left)>>
       IN  \/ key \in depths /\ UNCHANGED <<depths, machineUse>>
           \/ /\ key \notin depths /\ MayExecute
              /\ depths' = depths \cup {key}
              /\ Ran /\ UNCHANGED <<probes, ooms>>
    /\ left' = Tail(left)
    /\ UNCHANGED <<ascent, pc, disk, confirmed, marks, valid, rec, rows, env>>

DepthDone ==
    /\ pc = "depth"
    /\ \/ left = <<>> /\ UNCHANGED marks
       \/ /\ left # <<>> /\ <<rec.cfg, Head(left)>> \notin depths /\ ~MayExecute
          /\ marks' = marks \cup {"depth_profile_skipped"}
    /\ pc' = "cli" /\ left' = <<>>
    /\ UNCHANGED <<ascent, machineUse, disk, confirmed, depths, valid, rec, rows, env>>

AsksCli == setting.cli /\ setting.ctx # NoCtx
GateRuns == IF setting.corpus /\ IsLossy(rec.cfg) THEN <<"lossy", "f16">> ELSE <<>>

\* llama-cli asks for no budget and heeds no interrupt.
ValidateWithCli ==
    /\ pc = "cli"
    /\ IF AsksCli THEN Ran /\ UNCHANGED <<probes, ooms>> ELSE UNCHANGED machineUse
    /\ pc' = "gate" /\ left' = GateRuns
    /\ UNCHANGED <<ascent, disk, evidence, valid, rec, rows, env>>

\* Nor do the two perplexity runs, which no journal entry spares a later process.
GateRun ==
    /\ pc = "gate" /\ left # <<>>
    /\ Ran
    /\ left' = Tail(left)
    /\ UNCHANGED <<ascent, probes, ooms, pc, disk, evidence, valid, rec, rows, env>>

\* The required context is the first row; the ladder follows.
GateDone ==
    /\ pc = "gate" /\ left = <<>>
    /\ IF rec.confirmed /\ setting.ladder # <<>> /\ setting.ctx # NoCtx
       THEN /\ pc' = "envelope"
            /\ rows' = <<Row(setting.ctx, "ok", <<>>)>>
            /\ env' = [NoRung EXCEPT !.total = executed]
       ELSE pc' = "publish" /\ UNCHANGED <<rows, env>>
    /\ UNCHANGED <<ascent, machineUse, disk, evidence, valid, rec, left>>

----------------------------------------------------------------------------
(* The context envelope: each rung asks the configuration itself until one *)
(* fails, then the candidates that follow it, or the last one that passed. *)
Rung == setting.ladder[Len(rows)]
EnvelopeOver == Len(rows) > Len(setting.ladder)
InRung == pc = "envelope" /\ ~EnvelopeOver /\ ~env.searching
InFallbacks == pc = "envelope" /\ env.searching

TotalSpent == executed - env.total >= TotalProbes
RungSpent == executed - env.start >= RungProbes \/ TotalSpent

EnvelopeFrame == <<ascent, pc, disk, evidence, valid, rec>>

CloseRung(status, fallback) ==
    /\ rows' = Append(rows, Row(Rung, status, fallback))
    /\ left' = <<>>

\* No budget left, or the envelope's own share of it spent.
SkipRung ==
    /\ InRung
    /\ env.exhausted \/ TotalSpent
    /\ CloseRung("skipped", <<>>)
    /\ env' = [env EXCEPT !.truncated = TRUE]
    /\ UNCHANGED <<EnvelopeFrame, machineUse>>

\* Mutant of FallbackBase: every rung starts from the recommendation again.
FallbackBaseFirst == rec.cfg

\* The candidates of a rung follow the last one that passed.
FallbackBase == IF env.fallback = <<>> THEN rec.cfg ELSE Head(env.fallback)

LookForFallback(status) ==
    /\ env' = [env EXCEPT !.searching = TRUE, !.status = status, !.failed = TRUE,
                          !.start = executed]
    /\ \E candidates \in {EnvelopeCandidates(FallbackBase)} : left' = Without(candidates, rec.cfg)
    /\ UNCHANGED rows

PrimaryHeard(status) ==
    IF status = "ok" THEN CloseRung("ok", <<>>) /\ UNCHANGED env
    ELSE LookForFallback("failed")

Primary == <<rec.cfg, Rung>>
MayAskPrimary == InRung /\ ~env.exhausted /\ ~TotalSpent /\ ~env.failed

RecallPrimary ==
    /\ MayAskPrimary /\ Primary \in DOMAIN probes
    /\ PrimaryHeard(probes[Primary])
    /\ UNCHANGED <<EnvelopeFrame, machineUse>>

ProbePrimary ==
    /\ MayAskPrimary /\ MayExecute
    /\ \E status \in ProbeStatuses(rec.cfg, Rung) :
          Probe(rec.cfg, Rung, status) /\ PrimaryHeard(status)
    /\ UNCHANGED EnvelopeFrame

ExhaustPrimary ==
    /\ MayAskPrimary /\ Primary \notin DOMAIN probes /\ ~MayExecute
    /\ CloseRung("skipped", <<>>)
    /\ env' = [env EXCEPT !.truncated = TRUE, !.exhausted = TRUE]
    /\ UNCHANGED <<EnvelopeFrame, machineUse>>

\* _record_context_pruned: a configuration that failed is not asked for more.
PrunePrimary ==
    /\ InRung /\ ~env.exhausted /\ ~TotalSpent /\ env.failed
    /\ probes' = IF Primary \in DOMAIN probes THEN probes ELSE With(probes, Primary, "pruned")
    /\ LookForFallback("pruned")
    /\ UNCHANGED <<EnvelopeFrame, journaled, executed, ooms, children>>

Fallback == <<Head(left), Rung>>
MayAskFallback == InFallbacks /\ left # <<>> /\ ~RungSpent

FallbackHeard(status) ==
    IF status = "ok"
    THEN /\ CloseRung(env.status, <<Head(left)>>)
         /\ env' = [env EXCEPT !.searching = FALSE, !.fallback = <<Head(left)>>]
    ELSE left' = Tail(left) /\ UNCHANGED <<rows, env>>

RecallFallback ==
    /\ MayAskFallback /\ Fallback \in DOMAIN probes
    /\ FallbackHeard(probes[Fallback])
    /\ UNCHANGED <<EnvelopeFrame, machineUse>>

ProbeFallback ==
    /\ MayAskFallback /\ MayExecute
    /\ \E status \in ProbeStatuses(Head(left), Rung) :
          Probe(Head(left), Rung, status) /\ FallbackHeard(status)
    /\ UNCHANGED EnvelopeFrame

\* Every candidate failed, or no more of them may be asked.
CloseWithoutFallback ==
    /\ InFallbacks
    /\ LET starved == MayAskFallback /\ Fallback \notin DOMAIN probes /\ ~MayExecute
       IN  /\ left = <<>> \/ RungSpent \/ starved
           /\ env' = [env EXCEPT !.searching = FALSE,
                                 !.truncated = @ \/ left # <<>>,
                                 !.exhausted = starved]
    /\ CloseRung(env.status, <<>>)
    /\ UNCHANGED <<EnvelopeFrame, machineUse>>

----------------------------------------------------------------------------
\* The best measured configuration in full precision, when it is not the winner;
\* the trial's name, a fixed order, decides between equals.
Lossless ==
    LET scored == {c \in DOMAIN trials : trials[c].status = "ok" /\ ~IsLossy(c)}
        top == CHOOSE c \in scored : \A d \in scored : trials[d].score <= trials[c].score
    IN  IF setting.lossy /\ scored # {} THEN {top} \ {rec.cfg} ELSE {}

Passing == {r \in DOMAIN rows : rows[r].status = "ok" \/ rows[r].fallback # <<>>}

\* It is asked at the required context and at the largest that anything passed.
LosslessTargets ==
    IF Lossless = {} THEN <<>>
    ELSE Distinct(<<setting.ctx, rows[CHOOSE r \in Passing : \A q \in Passing : q <= r].ctx>>)

EndEnvelope ==
    /\ pc = "envelope" /\ EnvelopeOver
    /\ marks' = IF env.truncated THEN marks \cup {"envelope_truncated"} ELSE marks
    /\ pc' = "lossless" /\ left' = LosslessTargets
    /\ UNCHANGED <<ascent, machineUse, disk, confirmed, depths, valid, rec, rows, env>>

LosslessProbe ==
    /\ pc = "lossless" /\ left # <<>>
    /\ \E cfg \in Lossless :
          \/ /\ <<cfg, Head(left)>> \in DOMAIN probes \/ ~MayExecute
             /\ UNCHANGED machineUse
          \/ /\ MayExecute
             /\ \E status \in ProbeStatuses(cfg, Head(left)) :
                   Probe(cfg, Head(left), status)
    /\ left' = Tail(left)
    /\ UNCHANGED <<ascent, pc, disk, evidence, valid, rec, rows, env>>

LosslessDone ==
    /\ pc = "lossless" /\ left = <<>>
    /\ pc' = "publish"
    /\ UNCHANGED <<ascent, machineUse, disk, evidence, finalMemory>>

----------------------------------------------------------------------------
\* Mutant of MaxValidated: a rung only a fallback passed counts.
MaxValidatedAnyway ==
    LET ok == {rows[r].ctx : r \in {q \in DOMAIN rows : rows[q].status # "skipped"}}
    IN  IF setting.ctx = NoCtx THEN NoCtx
        ELSE CHOOSE c \in ok \cup {setting.ctx} : \A d \in ok \cup {setting.ctx} : d <= c

\* The largest context of the exact configuration; NoCtx when none was asked.
MaxValidated ==
    LET ok == {rows[r].ctx : r \in {q \in DOMAIN rows : rows[q].status = "ok"}}
    IN  IF setting.ctx = NoCtx THEN NoCtx
        ELSE CHOOSE c \in ok \cup {setting.ctx} : \A d \in ok \cup {setting.ctx} : d <= c

\* write_outputs, the registry record of a confirmed winner, and session_end.
Publish ==
    /\ pc = "publish"
    /\ analysis' = [cfg |-> rec.cfg, confirmed |-> rec.confirmed, rows |-> rows]
    /\ registry' = IF rec.confirmed THEN registry \cup {[cfg |-> rec.cfg, ctx |-> MaxValidated]}
                   ELSE registry
    /\ pc' = "ended"
    /\ UNCHANGED <<ascent, machineUse, evidence, finalMemory>>

FinalStep ==
    \/ EndSearch \/ Validate \/ RefuseConfirmation \/ RecallConfirmation \/ Confirm
    \/ DepthRun \/ DepthDone \/ ValidateWithCli \/ GateRun \/ GateDone
    \/ SkipRung \/ RecallPrimary \/ ProbePrimary \/ ExhaustPrimary \/ PrunePrimary
    \/ RecallFallback \/ ProbeFallback \/ CloseWithoutFallback
    \/ EndEnvelope \/ LosslessProbe \/ LosslessDone \/ Publish

----------------------------------------------------------------------------
FreshFinal ==
    /\ valid' = FALSE /\ rec' = NoRec /\ left' = <<>> /\ rows' = <<>> /\ env' = NoRung

Init ==
    /\ SearchInit
    /\ confirmed = {} /\ depths = {} /\ marks = {}
    /\ analysis = None /\ registry = {}
    /\ valid = FALSE /\ rec = NoRec /\ left = <<>> /\ rows = <<>> /\ env = NoRung
    /\ revalidated = 0

Step ==
    \/ (Begin \/ SearchStep) /\ UNCHANGED <<disk, evidence, finalMemory, revalidated>>
    \/ FinalStep /\ UNCHANGED revalidated

\* The first SIGINT sets a flag; the deadline is a look at the clock.
Interrupt ==
    /\ pc \in Live /\ ~stop
    /\ stop' = TRUE
    /\ UNCHANGED <<setting, journal, executed, ooms, expired, stage, incumbent, counts, history,
                   disk, evidence, finalMemory, revalidated>>

Expire ==
    /\ pc \in Live /\ setting.clock /\ ~expired
    /\ expired' = TRUE
    /\ UNCHANGED <<setting, journal, executed, ooms, stop, stage, incumbent, counts, history,
                   disk, evidence, finalMemory, revalidated>>

ChildUnderWay ==
    \/ SearchChild
    \/ pc \in {"validate", "confirm", "depth", "envelope", "lossless"} /\ MayExecute
    \/ pc = "cli" /\ AsksCli
    \/ pc = "gate" /\ left # <<>>

\* The machine, an OSError or a second SIGINT ends the process.
Crash ==
    /\ pc \in Live /\ lost < MaxLost
    /\ lost' = lost + 1
    /\ \E n \in IF ChildUnderWay THEN {0, 1} ELSE {0} : children' = children + n
    /\ pc' = "down"
    /\ UNCHANGED <<setting, journal, executed, ooms, signals, at, todo, tried, heard, best, climb,
                   incumbent, resumes, history, disk, evidence, finalMemory, revalidated>>

Resume ==
    /\ pc \in {"ended", "down"}
    /\ resumes < MaxResumes
    /\ resumes' = resumes + 1
    /\ SearchRestart
    /\ FreshFinal
    /\ UNCHANGED <<setting, journal, children, lost, settled, disk, evidence, revalidated>>

\* revalidate_session: the confirmation runs of the winner that was written, all
\* of them or up to one that fails, by a process that no budget and no earlier
\* confirmation binds.  They are journaled and no later process takes them for
\* a confirmation; it may die in one of them.
Revalidate ==
    /\ pc \in {"ended", "down"} /\ revalidated < MaxRevalidated
    /\ analysis # None /\ analysis.cfg # setting.default
    /\ \E n \in 0..setting.runs, d \in {0, 1} :
          /\ IF d = 1 THEN n < setting.runs /\ lost < MaxLost ELSE n > 0
          /\ children' = children + n + d
          /\ journaled' = journaled + n
          /\ lost' = lost + d
    /\ revalidated' = revalidated + 1
    /\ UNCHANGED <<setting, trials, probes, executed, ooms, signals, stage, incumbent, resumes,
                   history, disk, evidence, finalMemory>>

Finished == pc \in {"ended", "down"} /\ UNCHANGED vars

Next == Step \/ Interrupt \/ Expire \/ Crash \/ Resume \/ Revalidate \/ Finished

\* The engine is one thread, and every child it waits for has a timeout.
Spec == Init /\ [][Next]_vars /\ WF_vars(Step)

----------------------------------------------------------------------------
TypeOK ==
    /\ setting \in Settings
    /\ \A c \in DOMAIN trials :
          trials[c].status \in {"ok", "oom", "crash", "pruned"} /\ trials[c].score \in Nat
    /\ \A k \in DOMAIN probes : probes[k] \in {"ok", "oom", "crash", "pruned"}
    /\ journaled \in Nat /\ executed \in Nat
    /\ (pc \in Live => journaled <= executed)
    /\ pc \in Live \cup {"ended", "down"}
    /\ at.pass \in 1..MaxPasses /\ at.dim \in DOMAIN Dimensions
    /\ Valid(incumbent.cfg) /\ incumbent.score \in Nat
    /\ climb.step \in DOMAIN ClimbSteps /\ climb.misses \in 0..2
    /\ confirmed \subseteq DOMAIN trials
    /\ rec.confirmed => rec.cfg \in confirmed
    /\ Len(rows) <= Len(setting.ladder) + 1

(***************************************************************************)
(* The budget bounds the work of all processes of a session together.  A   *)
(* process that dies loses the count of one child at most.  What no budget *)
(* is asked for, the llama-cli check and the two perplexity runs, happens  *)
(* once per process, and is all the work a first SIGINT leaves to do; a     *)
(* revalidation repeats the confirmation, whatever the budget.             *)
(***************************************************************************)
Ungated == (IF AsksCli THEN 1 ELSE 0) + (IF setting.corpus THEN 2 ELSE 0)
WorkBounded == children <= setting.budget + lost + Ungated * (resumes + 1)
                              + setting.runs * revalidated

(***************************************************************************)
(* The written envelope is evidence.  A rung the configuration passed, or  *)
(* failed, has its own probe, and one ruled out has a smaller one that     *)
(* failed; a fallback is the first candidate, in the order that follows    *)
(* the fallback before it, whose probe passed, every earlier one having    *)
(* failed; and an envelope nothing cut short leaves a rung without         *)
(* fallback only when every candidate failed.  The registered context, and *)
(* every smaller rung, were probed with the registered configuration.      *)
(***************************************************************************)
Failed(cfg, ctx) == <<cfg, ctx>> \in DOMAIN probes /\ probes[<<cfg, ctx>>] # "ok"
Passed(cfg, ctx) == <<cfg, ctx>> \in DOMAIN probes /\ probes[<<cfg, ctx>>] = "ok"

\* The candidates of row r of an envelope of cfg.
RowCandidates(cfg, envelope, r) ==
    LET before == {q \in 1..(r - 1) : envelope[q].fallback # <<>>}
        base == IF before = {} THEN cfg
                ELSE Head(envelope[CHOOSE q \in before : \A p \in before : p <= q].fallback)
    IN  Without(EnvelopeCandidates(base), cfg)

\* cut: the envelope is marked as cut short.
RowIsTrue(cfg, envelope, r, cut) ==
    LET row == envelope[r]
        order == RowCandidates(cfg, envelope, r)
    IN  CASE row.status = "ok" -> row.fallback = <<>> /\ Passed(cfg, row.ctx)
          [] row.status = "skipped" -> cut
          [] OTHER ->
                /\ IF row.status = "pruned" THEN \E q \in 1..(r - 1) : envelope[q].status = "failed"
                   ELSE Failed(cfg, row.ctx)
                /\ IF row.fallback = <<>> THEN cut \/ \A i \in DOMAIN order : Failed(order[i], row.ctx)
                   ELSE \E i \in DOMAIN order :
                           /\ row.fallback = <<order[i]>> /\ Passed(order[i], row.ctx)
                           /\ \A j \in 1..(i - 1) : Failed(order[j], row.ctx)

EnvelopeIsTrue ==
    /\ analysis # None =>
          \A r \in DOMAIN analysis.rows :
              RowIsTrue(analysis.cfg, analysis.rows, r, "envelope_truncated" \in marks)
    /\ \A record \in registry :
          record.ctx # NoCtx =>
              \A ctx \in {setting.ctx} \cup Range(setting.ladder) :
                  ctx <= record.ctx => Passed(record.cfg, ctx)

(***************************************************************************)
(* Every process ends, whatever the machine answers and whenever it is     *)
(* interrupted: no stage of the search or of the conclusion loops.         *)
(***************************************************************************)
ProcessEnds == []<>(pc \in {"ended", "down"})
=============================================================================
