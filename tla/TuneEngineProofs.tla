-------------------------- MODULE TuneEngineProofs --------------------------
(***************************************************************************)
(* What TuneEngine's run checks on eight command lines, for every set of   *)
(* configurations, every budget and any number of crashes and resumes: the *)
(* budget holds over all processes of a session, what is registered and    *)
(* recommended has its evidence in the journal, and nothing is measured    *)
(* twice.                                                                  *)
(***************************************************************************)
EXTENDS TuneEngine, TLAPS, FiniteSetTheorems, WellFoundedInduction

Flying == {"trial", "reseating", "confirming"}
Winning == {"cli", "write", "register", "end"}

\* What is under way in the process, and has no record yet.
UnderWay ==
    /\ pc \in Flying => flight \in [cfg : Configs, aux : 0..3]
    /\ pc \in {"trial", "reseating"} => flight.cfg \notin DOMAIN known
    /\ pc = "reseating" => flight.cfg \in validated

Attempting ==
    /\ pc \in {"confirm", "confirming"} => attempt.cfg \in Configs
    /\ pc = "confirming" => Missing(attempt.runs) # {}

Recommending == pc \in Winning => rec.cfg \in Configs

FlightInv == UnderWay /\ Attempting /\ Recommending

BaselineInv ==
    /\ pc \in Live => (pc = "baseline" <=> baseline = None)
    /\ baseline = None => registry = {} /\ outputs = None

InFlight == IF pc \in Flying THEN 1 ELSE 0

Early == Live \ {"write", "register", "end"}

\* Validations by llama-cli so far, at most.
Validations == IF ~options.cli THEN 0 ELSE IF pc \in Early THEN resumes ELSE resumes + 1

\* A process has counted all that is journaled and what is in flight; of one that
\* died the journal is left.
Counted == IF pc \in Live THEN executed ELSE journaled

CountInv ==
    /\ pc \in Live => executed = journaled + InFlight
    /\ Counted <= options.budget + Validations
    /\ children <= Counted + wasted + 2 * lost
    /\ pc = "cli" => options.cli

\* Within --max-gpu-layers, or the CPU fallback of the baseline.
Allowed(o, b, c) == c \in o.over => c = Default /\ b = "cpu"

\* It is the baseline, or its trial ran, to a score or on a throttling GPU.
HasTrial(k, c) == c # Default => c \in DOMAIN k /\ k[c] \in Scores \cup {Rejected}

\* The journal has a score for it, or it is the baseline.
HasScore(k, c) == c # Default => c \in DOMAIN k /\ k[c] \in Scores

\* The entries of a run have one of this build with this score.
Has(run, b, score) == \E n \in DOMAIN run : run[n] = [build |-> b, score |-> score]

\* Its confirmation is complete, of one build, and beats the threshold.
Proven(o, f, c) ==
    \E b \in o.builds, scores \in [1..o.runs -> Scores] :
        /\ \A i \in 1..o.runs : Has(f[c][i], b, scores[i])
        /\ Total(scores) > o.runs * Threshold

\* It has passed its context probe, if a context was asked for.
Fits(o, x, c) == o.ctx => c \in DOMAIN x /\ x[c] = TRUE

ValidatedInv == \A c \in validated : c \in DOMAIN contexts /\ contexts[c] = TRUE

\* Only what passed the context probe needs no score.
Vouched(k, c) == HasTrial(k, c) /\ (c \notin validated => HasScore(k, c))

IncumbentInv == Vouched(known, incumbent.cfg)

AttemptInv ==
    pc \in {"confirm", "confirming"} =>
        Allowed(options, baseline, attempt.cfg) /\ Vouched(known, attempt.cfg)

WinnerInv ==
    pc \in Winning =>
        /\ Allowed(options, baseline, rec.cfg) /\ HasTrial(known, rec.cfg)
        /\ ~rec.confirmed => HasScore(known, rec.cfg)
        /\ rec.confirmed =>
            Proven(options, confirms, rec.cfg) /\ (options.ctx => rec.cfg \in validated)

RegisteringInv == pc = "register" => outputs = rec /\ rec.confirmed

RegistryInv ==
    \A c \in registry :
        /\ Allowed(options, baseline, c)
        /\ Proven(options, confirms, c)
        /\ Fits(options, contexts, c)

OutputsInv ==
    outputs # None =>
        /\ Allowed(options, baseline, outputs.cfg) /\ HasTrial(known, outputs.cfg)
        /\ ~outputs.confirmed => HasScore(known, outputs.cfg)
        /\ outputs.confirmed => outputs.cfg \in registry \/ pc = "register" \/ lost > 0

\* What a claim rests on is in the journal.
EvidenceInv ==
    /\ ValidatedInv /\ IncumbentInv /\ AttemptInv /\ WinnerInv
    /\ RegisteringInv /\ RegistryInv /\ OutputsInv

\* A good entry is the last of its build, if that can be told from others.
InOrder(run) ==
    \A n, m \in DOMAIN run :
        n < m /\ run[n].build # None /\ run[m].build = run[n].build => run[n].score = None

RunsInOrder == \A c \in Configs : \A i \in 1..options.runs : InOrder(confirms[c][i])

\* A score an attempt has comes from an entry, and one it lacks from none.
Reflects(score, run, b) ==
    /\ score # None => Has(run, b, score)
    /\ score = None /\ b # None =>
           \A n \in DOMAIN run : run[n].build = b => run[n].score = None

InHand ==
    pc \in {"confirm", "confirming"} =>
        \A i \in 1..options.runs : Reflects(attempt.runs[i], confirms[attempt.cfg][i], build)

RunsInv == build \in options.builds /\ RunsInOrder /\ InHand

Inv ==
    /\ TypeOK
    /\ FlightInv
    /\ BaselineInv
    /\ CountInv
    /\ RunsInv
    /\ EvidenceInv

----------------------------------------------------------------------------
(* A non-empty set of numbers has a least one.                             *)
LEMMA SmallestOf ==
    ASSUME NEW B \in SUBSET Nat, B # {}
    PROVE  \E m \in B : \A x \in B : m <= x
<1>1. PICK m \in B : \A x \in B : ~(<<x, m>> \in OpToRel(<, Nat))
  BY NatLessThanWellFounded, WFMin
<1>2. ASSUME NEW x \in B
      PROVE  m <= x
  <2>1. x \in Nat /\ m \in Nat /\ ~(<<x, m>> \in OpToRel(<, Nat))
    BY <1>1
  <2>2. ~(x < m)
    BY <2>1 DEF OpToRel
  <2>3. x \in Nat /\ m \in Nat => x < m \/ m <= x
    OBVIOUS
  <2>4. QED
    BY <2>1, <2>2, <2>3
<1>3. QED
  BY <1>2

(* What the assumptions say of the constants.                              *)
LEMMA ConstantFacts ==
    /\ Default \in Configs /\ Default \notin Others /\ IsFiniteSet(Configs) /\ None \notin Configs
    /\ None \notin Nat /\ Scores \subseteq Nat /\ Rejected \notin Nat /\ Rejected # None
<1>1. IsFiniteSet(Others \cup {Default})
  BY ConstantsAssumption, FS_AddElement
<1>2. QED
  BY <1>1, ConstantsAssumption DEF Configs

(* What the assumptions say of a command line: the search leaves room for  *)
(* a confirmation, so its limit is below the budget.                       *)
LEMMA OptionFacts ==
    ASSUME options \in OptionSets
    PROVE  /\ options.budget \in Nat /\ options.runs \in Nat \ {0} /\ options.over \subseteq Configs
           /\ options.fallbacks \subseteq Configs /\ options.fallbacks \cap options.over = {}
           /\ SearchLimit \in Int /\ SearchLimit <= options.budget
           /\ TrialLimit \in Int /\ TrialLimit <= options.budget
           /\ options.runs <= options.budget /\ (options.cli => options.ctx)
           /\ options.builds \subseteq Builds \cup {None}
<1>1. /\ options \in Options /\ options.runs <= options.budget
      /\ options.fallbacks \cap options.over = {} /\ (options.cli => options.ctx)
  BY OptionsAssumption
<1>2. /\ options.budget \in Nat /\ options.runs \in Nat \ {0} /\ options.over \subseteq Configs
      /\ options.fallbacks \subseteq Configs /\ options.builds \subseteq Builds \cup {None}
  BY <1>1 DEF Options
<1>3. Reserve \in Nat
  BY <1>2 DEF Reserve
<1>4. SearchLimit \in Int /\ SearchLimit <= options.budget
  BY <1>2, <1>3 DEF SearchLimit
<1>5. QED
  BY <1>1, <1>2, <1>4 DEF TrialLimit

(* What a trial may measure, throttling or not.                            *)
LEMMA MeasuredFacts == Measured \subseteq Measurement
BY DEF Measured

\* Nothing in f is lost or replaced in g.
Keeps(f, g) == \A c \in DOMAIN f : c \in DOMAIN g /\ g[c] = f[c]

(* With adds or replaces one entry.                                        *)
LEMMA WithFacts ==
    ASSUME NEW f, NEW c, NEW v
    PROVE  /\ DOMAIN With(f, c, v) = DOMAIN f \cup {c} /\ With(f, c, v)[c] = v
           /\ \A d \in DOMAIN f : d # c => With(f, c, v)[d] = f[d]
BY DEF With

(* With a new key it replaces none.                                        *)
LEMMA WithKeeps ==
    ASSUME NEW f, NEW c, NEW v, c \notin DOMAIN f
    PROVE  Keeps(f, With(f, c, v))
BY DEF With, Keeps

(* Merged adds the records of a batch.                                     *)
LEMMA MergedFacts ==
    ASSUME NEW f, NEW T, NEW g \in [T -> Scores], T \cap DOMAIN f = {}
    PROVE  /\ DOMAIN Merged(f, g) = DOMAIN f \cup T
           /\ \A d \in DOMAIN f : Merged(f, g)[d] = f[d]
           /\ \A d \in T : Merged(f, g)[d] \in Scores
BY DEF Merged

(* Where none of them is measured yet it replaces nothing.                 *)
LEMMA MergedKeeps ==
    ASSUME NEW f, NEW T, NEW g \in [T -> Scores], T \cap DOMAIN f = {}
    PROVE  Keeps(f, Merged(f, g))
BY DEF Merged, Keeps

(* A batch is a finite set of unmeasured configurations within the cap     *)
(* that the budget has room for.                                           *)
LEMMA BatchFacts ==
    ASSUME options \in OptionSets, executed \in Nat, NEW S \in Batches
    PROVE  /\ S \subseteq Configs /\ IsFiniteSet(S) /\ Cardinality(S) \in Nat /\ Cardinality(S) > 1
           /\ executed + Cardinality(S) <= options.budget
           /\ S \cap DOMAIN known = {} /\ \A c \in S : ~OverCap(c)
<1>1. /\ S \subseteq Configs /\ S \cap DOMAIN known = {} /\ \A c \in S : ~OverCap(c)
      /\ Cardinality(S) > 1 /\ Cardinality(S) <= SearchLimit - executed
  BY DEF Batches
<1>2. IsFiniteSet(S) /\ Cardinality(S) \in Nat
  BY <1>1, ConstantFacts, FS_Subset, FS_CardinalityType
<1>3. QED
  BY <1>1, <1>2, OptionFacts

\* The missing runs of a confirmation have a first one.
LEMMA NextIsMissing ==
    ASSUME options \in OptionSets, Missing(attempt.runs) # {}
    PROVE  NextMissing \in Missing(attempt.runs)
<1>1. Missing(attempt.runs) \in SUBSET Nat
  BY OptionFacts DEF Missing
<1>2. \E i \in Missing(attempt.runs) : \A j \in Missing(attempt.runs) : i <= j
  BY <1>1, SmallestOf
<1>3. QED
  BY <1>2, Zenon DEF NextMissing

----------------------------------------------------------------------------
(* Steps.                                                                  *)
(* The command line of a session is fixed.                                 *)
LEMMA OptionsStay == [Next]_vars => options' = options
<1> SUFFICES ASSUME [Next]_vars
             PROVE  options' = options
  OBVIOUS
<1>1. CASE BaselineRun
  BY <1>1 DEF BaselineRun, End
<1>2. CASE BaselineStarved
  BY <1>2 DEF BaselineStarved, End
<1>3. CASE StartTrial
  BY <1>3 DEF StartTrial
<1>4. CASE RunAuxiliary
  BY <1>4 DEF RunAuxiliary
<1>5. CASE JournalTrial
  BY <1>5 DEF JournalTrial
<1>6. CASE RunBatch
  BY <1>6 DEF RunBatch
<1>7. CASE FailBatch
  BY <1>7 DEF FailBatch
<1>8. CASE Promote
  BY <1>8 DEF Promote
<1>9. CASE SearchProbe
  BY <1>9 DEF SearchProbe
<1>10. CASE EndSearch
  BY <1>10 DEF EndSearch
<1>11. CASE RecallContext
  BY <1>11 DEF RecallContext, Validate
<1>12. CASE ProbeContext
  BY <1>12 DEF ProbeContext, Validate
<1>13. CASE GiveUpContext
  BY <1>13 DEF GiveUpContext
<1>14. CASE RecallReseat
  BY <1>14 DEF RecallReseat
<1>15. CASE StartReseat
  BY <1>15 DEF StartReseat
<1>16. CASE JournalReseat
  BY <1>16 DEF JournalReseat
<1>17. CASE Escape
  BY <1>17 DEF Escape
<1>18. CASE Decide
  BY <1>18 DEF Decide
<1>19. CASE RunnerUp
  BY <1>19 DEF RunnerUp
<1>20. CASE StartConfirmation
  BY <1>20 DEF StartConfirmation
<1>21. CASE JournalConfirmation
  BY <1>21 DEF JournalConfirmation
<1>22. CASE RefuseConfirmation
  BY <1>22 DEF RefuseConfirmation
<1>23. CASE CloseConfirmation
  BY <1>23 DEF CloseConfirmation
<1>24. CASE Fallback
  BY <1>24 DEF Fallback
<1>25. CASE NoFeasible
  BY <1>25 DEF NoFeasible, End
<1>26. CASE ValidateWithCli
  BY <1>26 DEF ValidateWithCli
<1>27. CASE WriteOutputs
  BY <1>27 DEF WriteOutputs
<1>28. CASE AppendRecord
  BY <1>28 DEF AppendRecord
<1>29. CASE EndSession
  BY <1>29 DEF EndSession, End
<1>30. CASE Interrupt
  BY <1>30 DEF Interrupt
<1>31. CASE ClockExpires
  BY <1>31 DEF ClockExpires
<1>32. CASE Abort
  BY <1>32 DEF Abort, Cut, End
<1>33. CASE IoFailure
  BY <1>33 DEF IoFailure, Cut, End
<1>34. CASE Crash
  BY <1>34 DEF Crash, Cut
<1>35. CASE Resume
  BY <1>35 DEF Resume, FreshMemory
<1>36. CASE Finished
  BY <1>36 DEF Finished, vars
<1>37. CASE UNCHANGED vars
  BY <1>37 DEF vars
<1>38. QED
  BY <1>1, <1>2, <1>3, <1>4, <1>5, <1>6, <1>7, <1>8, <1>9, <1>10, <1>11, <1>12, <1>13, <1>14,
     <1>15, <1>16, <1>17, <1>18, <1>19, <1>20, <1>21, <1>22, <1>23, <1>24, <1>25, <1>26, <1>27,
     <1>28, <1>29, <1>30, <1>31, <1>32, <1>33, <1>34, <1>35, <1>36, <1>37 DEF Next, Step

(* Only a new process may find another build installed.                    *)
LEMMA BuildSteps ==
    ASSUME [Next]_vars
    PROVE  build' = build \/ build' \in options.builds
<1>1. CASE BaselineRun \/ BaselineStarved \/ StartTrial \/ RunAuxiliary \/ JournalTrial
           \/ RunBatch \/ FailBatch \/ Promote \/ SearchProbe \/ EndSearch \/ RecallContext
           \/ ProbeContext \/ GiveUpContext
  BY <1>1 DEF BaselineRun, BaselineStarved, StartTrial, RunAuxiliary, JournalTrial, RunBatch,
     FailBatch, Promote, SearchProbe, EndSearch, RecallContext, ProbeContext, GiveUpContext
<1>2. CASE RecallReseat \/ StartReseat \/ JournalReseat \/ Escape \/ Decide \/ RunnerUp
           \/ StartConfirmation \/ JournalConfirmation \/ RefuseConfirmation
           \/ CloseConfirmation \/ Fallback
  BY <1>2 DEF RecallReseat, StartReseat, JournalReseat, Escape, Decide, RunnerUp,
     StartConfirmation, JournalConfirmation, RefuseConfirmation, CloseConfirmation, Fallback
<1>3. CASE NoFeasible \/ ValidateWithCli \/ WriteOutputs \/ AppendRecord \/ EndSession
           \/ Interrupt \/ ClockExpires \/ Abort \/ IoFailure \/ Crash \/ Resume \/ Finished
           \/ UNCHANGED vars
  BY <1>3 DEF NoFeasible, ValidateWithCli, WriteOutputs, AppendRecord, EndSession, Interrupt,
     ClockExpires, Abort, IoFailure, Crash, Cut, Resume, Finished, vars
<1>4. QED
  BY <1>1, <1>2, <1>3 DEF Next, Step

SignalsOK == stop \in BOOLEAN /\ expired \in BOOLEAN

(* The two flags, in a lemma of their own: Zenon proves it.                *)
LEMMA SignalsInductive ==
    SignalsOK /\ [Next]_vars => SignalsOK'
<1> SUFFICES ASSUME SignalsOK, [Next]_vars
             PROVE  SignalsOK'
  OBVIOUS
<1> USE DEF SignalsOK
<1>1. CASE BaselineRun
  BY <1>1, Zenon DEF BaselineRun, End, signals
<1>2. CASE BaselineStarved
  BY <1>2, Zenon DEF BaselineStarved, End, signals
<1>3. CASE StartTrial
  BY <1>3, Zenon DEF StartTrial, signals
<1>4. CASE RunAuxiliary
  BY <1>4, Zenon DEF RunAuxiliary, signals
<1>5. CASE JournalTrial
  BY <1>5, Zenon DEF JournalTrial, signals
<1>6. CASE RunBatch
  BY <1>6, Zenon DEF RunBatch, signals
<1>7. CASE FailBatch
  BY <1>7, Zenon DEF FailBatch, signals
<1>8. CASE Promote
  BY <1>8, Zenon DEF Promote, signals
<1>9. CASE SearchProbe
  BY <1>9, Zenon DEF SearchProbe, signals
<1>10. CASE EndSearch
  BY <1>10, Zenon DEF EndSearch, signals
<1>11. CASE RecallContext
  BY <1>11, Zenon DEF RecallContext, Validate, signals
<1>12. CASE ProbeContext
  BY <1>12, Zenon DEF ProbeContext, Validate, signals
<1>13. CASE GiveUpContext
  BY <1>13, Zenon DEF GiveUpContext, signals
<1>14. CASE RecallReseat
  BY <1>14, Zenon DEF RecallReseat, signals
<1>15. CASE StartReseat
  BY <1>15, Zenon DEF StartReseat, signals
<1>16. CASE JournalReseat
  BY <1>16, Zenon DEF JournalReseat, signals
<1>17. CASE Escape
  BY <1>17, Zenon DEF Escape, signals
<1>18. CASE Decide
  BY <1>18, Zenon DEF Decide, signals
<1>19. CASE RunnerUp
  BY <1>19, Zenon DEF RunnerUp, signals
<1>20. CASE StartConfirmation
  BY <1>20, Zenon DEF StartConfirmation, signals
<1>21. CASE JournalConfirmation
  BY <1>21, Zenon DEF JournalConfirmation, signals
<1>22. CASE RefuseConfirmation
  BY <1>22, Zenon DEF RefuseConfirmation, signals
<1>23. CASE CloseConfirmation
  BY <1>23, Zenon DEF CloseConfirmation, signals
<1>24. CASE Fallback
  BY <1>24, Zenon DEF Fallback, signals
<1>25. CASE NoFeasible
  BY <1>25, Zenon DEF NoFeasible, End, signals
<1>26. CASE ValidateWithCli
  BY <1>26, Zenon DEF ValidateWithCli, signals
<1>27. CASE WriteOutputs
  BY <1>27, Zenon DEF WriteOutputs, signals
<1>28. CASE AppendRecord
  BY <1>28, Zenon DEF AppendRecord, signals
<1>29. CASE EndSession
  BY <1>29, Zenon DEF EndSession, End, signals
<1>30. CASE Interrupt
  BY <1>30, Zenon DEF Interrupt, signals
<1>31. CASE ClockExpires
  BY <1>31, Zenon DEF ClockExpires, signals
<1>32. CASE Abort
  BY <1>32, Zenon DEF Abort, Cut, End, signals
<1>33. CASE IoFailure
  BY <1>33, Zenon DEF IoFailure, Cut, End, signals
<1>34. CASE Crash
  BY <1>34, Zenon DEF Crash, Cut, signals
<1>35. CASE Resume
  BY <1>35, Zenon DEF Resume, FreshMemory, signals
<1>36. CASE Finished
  BY <1>36, Zenon DEF Finished, vars, signals
<1>37. CASE UNCHANGED vars
  BY <1>37, Zenon DEF vars, signals
<1>38. QED
  BY <1>1, <1>2, <1>3, <1>4, <1>5, <1>6, <1>7, <1>8, <1>9, <1>10, <1>11, <1>12, <1>13, <1>14,
     <1>15, <1>16, <1>17, <1>18, <1>19, <1>20, <1>21, <1>22, <1>23, <1>24, <1>25, <1>26, <1>27,
     <1>28, <1>29, <1>30, <1>31, <1>32, <1>33, <1>34, <1>35, <1>36, <1>37 DEF Next, Step

\* What is in the journal stays there.
KnownKept == Keeps(known, known')
ContextsKept == Keeps(contexts, contexts')
ConfirmsKept ==
    \A c \in Configs : \A i \in 1..options.runs : \A n \in DOMAIN confirms[c][i] :
        /\ n \in DOMAIN confirms'[c][i] /\ confirms'[c][i][n] = confirms[c][i][n]
        /\ confirms[c][i][n].score # None /\ confirms[c][i][n].build # None =>
              \A m \in DOMAIN confirms'[c][i] :
                  m > Len(confirms[c][i]) =>
                      confirms'[c][i][m].build # confirms[c][i][n].build

\* One entry is added to one run.
Appended(a, k, entry) ==
    /\ DOMAIN confirms'[a][k] = 1..(Len(confirms[a][k]) + 1)
    /\ \A n \in DOMAIN confirms[a][k] : confirms'[a][k][n] = confirms[a][k][n]
    /\ confirms'[a][k][Len(confirms[a][k]) + 1] = entry
    /\ \A c \in Configs, i \in 1..options.runs :
          ~(c = a /\ i = k) => confirms'[c][i] = confirms[c][i]

(* A confirmation run that ends is added to a run the attempt lacks.       *)
LEMMA RunJournaled ==
    ASSUME TypeOK, FlightInv, JournalConfirmation
    PROVE  \E score \in Scores \cup {None}, k \in 1..options.runs :
              /\ attempt.cfg \in Configs /\ attempt.runs[k] = None
              /\ Appended(attempt.cfg, k, [build |-> build, score |-> score])
              /\ confirms' \in [Configs -> [1..options.runs -> Seq(Run)]]
              /\ attempt' = [attempt EXCEPT !.runs[k] = score]
              /\ pc' = IF score = None THEN AfterFailure(attempt.second) ELSE "confirm"
<1>1. PICK score \in Scores \cup {None} :
          /\ confirms' = [confirms EXCEPT ![attempt.cfg][NextMissing] =
                            Append(@, [build |-> build, score |-> score])]
          /\ attempt' = [attempt EXCEPT !.runs[NextMissing] = score]
          /\ pc' = IF score = None THEN AfterFailure(attempt.second) ELSE "confirm"
  BY DEF JournalConfirmation, Goto
<1>2. /\ options \in OptionSets /\ confirms \in [Configs -> [1..options.runs -> Seq(Run)]]
      /\ build \in Builds \cup {None}
  BY DEF TypeOK
<1>3. attempt.cfg \in Configs /\ Missing(attempt.runs) # {}
  BY DEF JournalConfirmation, FlightInv, Attempting
<1>4. NextMissing \in 1..options.runs /\ attempt.runs[NextMissing] = None
  BY <1>2, <1>3, NextIsMissing DEF Missing
<1> DEFINE k == NextMissing
           a == attempt.cfg
           entry == [build |-> build, score |-> score]
<1>5. entry \in Run
  BY <1>2 DEF Run
<1>6. /\ confirms' = [confirms EXCEPT ![a][k] = Append(@, entry)]
      /\ a \in Configs /\ k \in 1..options.runs
  BY <1>1, <1>3, <1>4
<1> HIDE DEF k, a, entry
<1>7. confirms[a] \in [1..options.runs -> Seq(Run)] /\ confirms[a][k] \in Seq(Run)
  BY <1>2, <1>6
<1>8. Append(confirms[a][k], entry) \in Seq(Run)
  BY <1>5, <1>7
<1>9. confirms'[a][k] = Append(confirms[a][k], entry)
  BY <1>2, <1>6
<1>10. confirms' \in [Configs -> [1..options.runs -> Seq(Run)]]
  BY <1>2, <1>6, <1>8
<1>11. \A c \in Configs, i \in 1..options.runs :
           ~(c = a /\ i = k) => confirms'[c][i] = confirms[c][i]
  BY <1>2, <1>6
<1>12. /\ DOMAIN confirms'[a][k] = 1..(Len(confirms[a][k]) + 1)
       /\ \A n \in DOMAIN confirms[a][k] : confirms'[a][k][n] = confirms[a][k][n]
       /\ confirms'[a][k][Len(confirms[a][k]) + 1] = entry
  BY <1>5, <1>7, <1>9
<1>13. Appended(a, k, entry)
  BY <1>11, <1>12 DEF Appended
<1>14. QED
  BY <1>1, <1>3, <1>4, <1>10, <1>13 DEF k, a, entry

(* A process that dies has appended to the journal, or left it alone.      *)
LEMMA CutKeeps ==
    ASSUME options \in OptionSets, executed \in Nat, Cut
    PROVE  KnownKept /\ contexts' = contexts /\ confirms' = confirms /\ baseline' = baseline
<1>1. CASE UNCHANGED journal
  BY <1>1 DEF journal, KnownKept, Keeps
<1>2. CASE PartlyJournaled
  <2>a. PICK S \in Batches : \E T \in SUBSET S \ {{}} :
               \E measured \in [T -> Scores] : known' = Merged(known, measured)
    BY <1>2 DEF PartlyJournaled
  <2>b. PICK T \in SUBSET S : \E measured \in [T -> Scores] : known' = Merged(known, measured)
    BY <2>a
  <2>1. PICK measured \in [T -> Scores] : known' = Merged(known, measured)
    BY <2>b
  <2>2. T \cap DOMAIN known = {}
    BY <2>1, BatchFacts
  <2>3. KnownKept
    BY <2>1, <2>2, MergedKeeps DEF KnownKept
  <2>4. QED
    BY <1>2, <2>3 DEF PartlyJournaled
<1>3. QED
  BY <1>1, <1>2 DEF Cut

(* No step loses or replaces the score of a journaled trial.               *)
LEMMA KnownSteps ==
    TypeOK /\ FlightInv /\ [Next]_vars => KnownKept
<1> SUFFICES ASSUME TypeOK, FlightInv, [Next]_vars
             PROVE  KnownKept
  OBVIOUS
<1>a. options \in OptionSets /\ executed \in Nat
  BY DEF TypeOK
<1>b. UNCHANGED known => KnownKept
  BY DEF KnownKept, Keeps
<1>1. CASE BaselineRun
  BY <1>1, <1>b DEF BaselineRun, End
<1>2. CASE BaselineStarved
  BY <1>2, <1>b DEF BaselineStarved, End, journal
<1>3. CASE StartTrial
  BY <1>3, <1>b DEF StartTrial, journal
<1>4. CASE RunAuxiliary
  BY <1>4, <1>b DEF RunAuxiliary
<1>5. CASE JournalTrial
  <2>1. PICK score \in Measurement : known' = With(known, flight.cfg, score)
    BY <1>5, MeasuredFacts DEF JournalTrial
  <2>2. flight.cfg \notin DOMAIN known
    BY <1>5 DEF JournalTrial, FlightInv, UnderWay
  <2>3. QED
    BY <2>1, <2>2, WithKeeps DEF KnownKept
<1>6. CASE RunBatch
  <2>0. PICK S \in Batches : \E measured \in [S -> Scores] : known' = Merged(known, measured)
    BY <1>6 DEF RunBatch
  <2>1. PICK measured \in [S -> Scores] : known' = Merged(known, measured)
    BY <2>0
  <2>2. S \cap DOMAIN known = {}
    BY <1>a, <2>1, BatchFacts
  <2>3. QED
    BY <2>1, <2>2, MergedKeeps DEF KnownKept
<1>7. CASE FailBatch
  BY <1>7, <1>b DEF FailBatch, journal
<1>8. CASE Promote
  BY <1>8, <1>b DEF Promote, journal
<1>9. CASE SearchProbe
  BY <1>9, <1>b DEF SearchProbe
<1>10. CASE EndSearch
  BY <1>10, <1>b DEF EndSearch, journal
<1>11. CASE RecallContext
  BY <1>11, <1>b DEF RecallContext, Validate, journal
<1>12. CASE ProbeContext
  BY <1>12, <1>b DEF ProbeContext, Validate
<1>13. CASE GiveUpContext
  BY <1>13, <1>b DEF GiveUpContext, journal
<1>14. CASE RecallReseat
  BY <1>14, <1>b DEF RecallReseat, journal
<1>15. CASE StartReseat
  BY <1>15, <1>b DEF StartReseat, journal
<1>16. CASE JournalReseat
  <2>1. PICK score \in Measurement : known' = With(known, flight.cfg, score)
    BY <1>16, MeasuredFacts DEF JournalReseat
  <2>2. flight.cfg \notin DOMAIN known
    BY <1>16 DEF JournalReseat, FlightInv, UnderWay
  <2>3. QED
    BY <2>1, <2>2, WithKeeps DEF KnownKept
<1>17. CASE Escape
  BY <1>17, <1>b DEF Escape, journal
<1>18. CASE Decide
  BY <1>18, <1>b DEF Decide, journal
<1>19. CASE RunnerUp
  BY <1>19, <1>b DEF RunnerUp, journal
<1>20. CASE StartConfirmation
  BY <1>20, <1>b DEF StartConfirmation, journal
<1>21. CASE JournalConfirmation
  BY <1>21, <1>b DEF JournalConfirmation
<1>22. CASE RefuseConfirmation
  BY <1>22, <1>b DEF RefuseConfirmation, journal
<1>23. CASE CloseConfirmation
  BY <1>23, <1>b DEF CloseConfirmation, journal
<1>24. CASE Fallback
  BY <1>24, <1>b DEF Fallback, journal
<1>25. CASE NoFeasible
  BY <1>25, <1>b DEF NoFeasible, End, journal
<1>26. CASE ValidateWithCli
  BY <1>26, <1>b DEF ValidateWithCli
<1>27. CASE WriteOutputs
  BY <1>27, <1>b DEF WriteOutputs, journal
<1>28. CASE AppendRecord
  BY <1>28, <1>b DEF AppendRecord, journal
<1>29. CASE EndSession
  BY <1>29, <1>b DEF EndSession, End, journal
<1>30. CASE Interrupt
  BY <1>30, <1>b DEF Interrupt, journal
<1>31. CASE ClockExpires
  BY <1>31, <1>b DEF ClockExpires, journal
<1>32. CASE Abort
  BY <1>32, <1>a, CutKeeps DEF Abort
<1>33. CASE IoFailure
  BY <1>33, <1>a, CutKeeps DEF IoFailure
<1>34. CASE Crash
  BY <1>34, <1>a, CutKeeps DEF Crash
<1>35. CASE Resume
  BY <1>35, <1>b DEF Resume, FreshMemory, journal
<1>36. CASE Finished
  BY <1>36, <1>b DEF Finished, vars, journal
<1>37. CASE UNCHANGED vars
  BY <1>37, <1>b DEF vars, journal
<1>38. QED
  BY <1>1, <1>2, <1>3, <1>4, <1>5, <1>6, <1>7, <1>8, <1>9, <1>10, <1>11, <1>12, <1>13, <1>14,
     <1>15, <1>16, <1>17, <1>18, <1>19, <1>20, <1>21, <1>22, <1>23, <1>24, <1>25, <1>26, <1>27,
     <1>28, <1>29, <1>30, <1>31, <1>32, <1>33, <1>34, <1>35, <1>36, <1>37 DEF Next, Step

(* Nor the verdict of a context probe.                                     *)
LEMMA ContextsSteps ==
    TypeOK /\ [Next]_vars => ContextsKept
<1> SUFFICES ASSUME TypeOK, [Next]_vars
             PROVE  ContextsKept
  OBVIOUS
<1>a. options \in OptionSets /\ executed \in Nat
  BY DEF TypeOK
<1>b. UNCHANGED contexts => ContextsKept
  BY DEF ContextsKept, Keeps
<1>1. CASE BaselineRun
  BY <1>1, <1>b DEF BaselineRun, End
<1>2. CASE BaselineStarved
  BY <1>2, <1>b DEF BaselineStarved, End, journal
<1>3. CASE StartTrial
  BY <1>3, <1>b DEF StartTrial, journal
<1>4. CASE RunAuxiliary
  BY <1>4, <1>b DEF RunAuxiliary
<1>5. CASE JournalTrial
  BY <1>5, <1>b DEF JournalTrial
<1>6. CASE RunBatch
  BY <1>6, <1>b DEF RunBatch
<1>7. CASE FailBatch
  BY <1>7, <1>b DEF FailBatch, journal
<1>8. CASE Promote
  BY <1>8, <1>b DEF Promote, journal
<1>9. CASE SearchProbe
  <2>1. CASE UNCHANGED contexts
    BY <1>b, <2>1
  <2>2. CASE \E c \in DOMAIN known \ DOMAIN contexts,
        passed \in BOOLEAN : contexts' = With(contexts, c, passed)
    BY <2>2, WithKeeps DEF ContextsKept
  <2>3. QED
    BY <1>9, <2>1, <2>2 DEF SearchProbe
<1>10. CASE EndSearch
  BY <1>10, <1>b DEF EndSearch, journal
<1>11. CASE RecallContext
  BY <1>11, <1>b DEF RecallContext, Validate, journal
<1>12. CASE ProbeContext
  <2>1. PICK c \in Candidates \ DOMAIN contexts, passed \in BOOLEAN : contexts' = With(contexts,
             c, passed)
    BY <1>12 DEF ProbeContext
  <2>2. QED
    BY <2>1, WithKeeps DEF ContextsKept
<1>13. CASE GiveUpContext
  BY <1>13, <1>b DEF GiveUpContext, journal
<1>14. CASE RecallReseat
  BY <1>14, <1>b DEF RecallReseat, journal
<1>15. CASE StartReseat
  BY <1>15, <1>b DEF StartReseat, journal
<1>16. CASE JournalReseat
  BY <1>16, <1>b DEF JournalReseat
<1>17. CASE Escape
  BY <1>17, <1>b DEF Escape, journal
<1>18. CASE Decide
  BY <1>18, <1>b DEF Decide, journal
<1>19. CASE RunnerUp
  BY <1>19, <1>b DEF RunnerUp, journal
<1>20. CASE StartConfirmation
  BY <1>20, <1>b DEF StartConfirmation, journal
<1>21. CASE JournalConfirmation
  BY <1>21, <1>b DEF JournalConfirmation
<1>22. CASE RefuseConfirmation
  BY <1>22, <1>b DEF RefuseConfirmation, journal
<1>23. CASE CloseConfirmation
  BY <1>23, <1>b DEF CloseConfirmation, journal
<1>24. CASE Fallback
  BY <1>24, <1>b DEF Fallback, journal
<1>25. CASE NoFeasible
  BY <1>25, <1>b DEF NoFeasible, End, journal
<1>26. CASE ValidateWithCli
  BY <1>26, <1>b DEF ValidateWithCli
<1>27. CASE WriteOutputs
  BY <1>27, <1>b DEF WriteOutputs, journal
<1>28. CASE AppendRecord
  BY <1>28, <1>b DEF AppendRecord, journal
<1>29. CASE EndSession
  BY <1>29, <1>b DEF EndSession, End, journal
<1>30. CASE Interrupt
  BY <1>30, <1>b DEF Interrupt, journal
<1>31. CASE ClockExpires
  BY <1>31, <1>b DEF ClockExpires, journal
<1>32. CASE Abort
  BY <1>32, <1>a, <1>b, CutKeeps DEF Abort
<1>33. CASE IoFailure
  BY <1>33, <1>a, <1>b, CutKeeps DEF IoFailure
<1>34. CASE Crash
  BY <1>34, <1>a, <1>b, CutKeeps DEF Crash
<1>35. CASE Resume
  BY <1>35, <1>b DEF Resume, FreshMemory, journal
<1>36. CASE Finished
  BY <1>36, <1>b DEF Finished, vars, journal
<1>37. CASE UNCHANGED vars
  BY <1>37, <1>b DEF vars, journal
<1>38. QED
  BY <1>1, <1>2, <1>3, <1>4, <1>5, <1>6, <1>7, <1>8, <1>9, <1>10, <1>11, <1>12, <1>13, <1>14,
     <1>15, <1>16, <1>17, <1>18, <1>19, <1>20, <1>21, <1>22, <1>23, <1>24, <1>25, <1>26, <1>27,
     <1>28, <1>29, <1>30, <1>31, <1>32, <1>33, <1>34, <1>35, <1>36, <1>37 DEF Next, Step

(* Only a confirmation run that ends adds to the confirmations.            *)
LEMMA OnlyConfirmations ==
    ASSUME TypeOK, [Next]_vars
    PROVE  JournalConfirmation \/ confirms' = confirms
<1>a. options \in OptionSets /\ executed \in Nat
  BY DEF TypeOK
<1>1. CASE BaselineRun \/ BaselineStarved \/ StartTrial \/ RunAuxiliary \/ JournalTrial
           \/ RunBatch \/ FailBatch \/ Promote \/ SearchProbe \/ EndSearch \/ RecallContext
           \/ ProbeContext \/ GiveUpContext
  BY <1>1 DEF BaselineRun, BaselineStarved, StartTrial, RunAuxiliary, JournalTrial, RunBatch,
     FailBatch, Promote, SearchProbe, EndSearch, RecallContext, ProbeContext, GiveUpContext, journal
<1>2. CASE RecallReseat \/ StartReseat \/ JournalReseat \/ Escape \/ Decide \/ RunnerUp
           \/ StartConfirmation \/ RefuseConfirmation \/ CloseConfirmation \/ Fallback
  BY <1>2 DEF RecallReseat, StartReseat, JournalReseat, Escape, Decide, RunnerUp,
     StartConfirmation, RefuseConfirmation, CloseConfirmation, Fallback, journal
<1>3. CASE NoFeasible \/ ValidateWithCli \/ WriteOutputs \/ AppendRecord \/ EndSession
           \/ Interrupt \/ ClockExpires \/ Resume \/ Finished \/ UNCHANGED vars
  BY <1>3 DEF NoFeasible, ValidateWithCli, WriteOutputs, AppendRecord, EndSession, Interrupt,
     ClockExpires, Resume, Finished, vars, journal
<1>4. CASE Abort \/ IoFailure \/ Crash
  BY <1>4, <1>a, CutKeeps DEF Abort, IoFailure, Crash
<1>5. QED
  BY <1>1, <1>2, <1>3, <1>4 DEF Next, Step

(* Nor an entry of a confirmation run, and none is added to a good run of  *)
(* the same build.                                                         *)
LEMMA ConfirmsSteps ==
    TypeOK /\ FlightInv /\ RunsInv /\ [Next]_vars => ConfirmsKept
<1> SUFFICES ASSUME TypeOK, FlightInv, RunsInv, [Next]_vars
             PROVE  ConfirmsKept
  OBVIOUS
<1>a. confirms \in [Configs -> [1..options.runs -> Seq(Run)]]
  BY DEF TypeOK
<1>b. UNCHANGED confirms => ConfirmsKept
  <2>1. \A c \in Configs : \A i \in 1..options.runs : \A m \in DOMAIN confirms[c][i] :
            ~(m > Len(confirms[c][i]))
    BY <1>a
  <2>2. QED
    BY <2>1 DEF ConfirmsKept
<1>1. CASE JournalConfirmation
  <2>1. PICK score \in Scores \cup {None}, k \in 1..options.runs :
            /\ attempt.cfg \in Configs /\ attempt.runs[k] = None
            /\ Appended(attempt.cfg, k, [build |-> build, score |-> score])
    BY <1>1, RunJournaled
  <2> DEFINE a == attempt.cfg
  <2>2. ASSUME NEW n \in DOMAIN confirms[a][k],
               confirms[a][k][n].score # None, confirms[a][k][n].build # None
        PROVE  confirms[a][k][n].build # build
    BY <1>1, <2>1, <2>2 DEF JournalConfirmation, RunsInv, InHand, Reflects
  <2>3. ASSUME NEW c \in Configs, NEW i \in 1..options.runs, NEW n \in DOMAIN confirms[c][i]
        PROVE  /\ n \in DOMAIN confirms'[c][i] /\ confirms'[c][i][n] = confirms[c][i][n]
               /\ confirms[c][i][n].score # None /\ confirms[c][i][n].build # None =>
                     \A m \in DOMAIN confirms'[c][i] :
                         m > Len(confirms[c][i]) =>
                             confirms'[c][i][m].build # confirms[c][i][n].build
    <3>1. confirms[c][i] \in Seq(Run)
      BY <1>a
    <3>2. CASE c = a /\ i = k
      <4>1. /\ DOMAIN confirms'[c][i] = 1..(Len(confirms[c][i]) + 1)
            /\ \A m \in DOMAIN confirms[c][i] : confirms'[c][i][m] = confirms[c][i][m]
            /\ confirms'[c][i][Len(confirms[c][i]) + 1].build = build
        BY <2>1, <3>2 DEF Appended
      <4>2. QED
        BY <2>2, <3>1, <3>2, <4>1
    <3>3. CASE ~(c = a /\ i = k)
      <4>1. confirms'[c][i] = confirms[c][i]
        BY <2>1, <3>3 DEF Appended
      <4>2. QED
        BY <3>1, <4>1
    <3>4. QED
      BY <3>2, <3>3
  <2>4. QED
    BY <2>3 DEF ConfirmsKept
<1>2. QED
  BY <1>b, <1>1, OnlyConfirmations

----------------------------------------------------------------------------
(* Types.                                                                  *)

Partial(f, V) == DOMAIN f \subseteq Configs /\ \A c \in DOMAIN f : f[c] \in V

NumbersOK ==
    /\ journaled \in Nat /\ executed \in Nat /\ children \in Nat
    /\ lost \in Nat /\ resumes \in Nat /\ wasted \in Nat

(* With keeps a journal map well-typed.                                    *)
LEMMA WithPartial ==
    ASSUME NEW f, NEW V, Partial(f, V), NEW c \in Configs, NEW v \in V
    PROVE  Partial(With(f, c, v), V)
BY DEF With, Partial

(* So does Merged.                                                         *)
LEMMA MergedPartial ==
    ASSUME NEW f, Partial(f, Measurement), NEW T \in SUBSET Configs, NEW g \in [T -> Scores]
    PROVE  Partial(Merged(f, g), Measurement)
BY DEF Merged, Partial, Measurement

(* TypeOK, what it says of the journal and of the counters.                *)
LEMMA TypeFacts ==
    ASSUME TypeOK
    PROVE  /\ options \in OptionSets /\ Partial(known, Measurement) /\ Partial(contexts, BOOLEAN)
           /\ confirms \in [Configs -> [1..options.runs -> Seq(Run)]]
           /\ NumbersOK
BY DEF TypeOK, Partial, NumbersOK

(* A measurement in flight has a configuration.                            *)
LEMMA FlightFacts ==
    ASSUME TypeOK, FlightInv, pc \in Flying
    PROVE  flight \in [cfg : Configs, aux : 0..3]
BY DEF FlightInv, UnderWay

(* A process that dies leaves journal and counters well-typed.             *)
LEMMA CutTypes ==
    ASSUME TypeOK, Cut
    PROVE  Partial(known', Measurement) /\ NumbersOK'
<1>1. options \in OptionSets /\ Partial(known, Measurement) /\ NumbersOK
  BY TypeFacts
<1>2. /\ lost' = lost + 1 /\ UNCHANGED <<executed, resumes, wasted>>
  BY DEF Cut, batches
<1>3. CASE UNCHANGED journal /\ \E n \in IF ChildUnderWay THEN {0,
      1} ELSE {0} : children' = children + n
  BY <1>3, <1>1, <1>2 DEF journal, NumbersOK, Partial
<1>4. CASE PartlyJournaled
  <2>1. PICK S \in Batches : \E T \in SUBSET S \ {{}} :
               /\ \E measured \in [T -> Scores] : known' = Merged(known, measured)
               /\ journaled' = journaled + Cardinality(T)
    BY <1>4 DEF PartlyJournaled
  <2>2. PICK T \in SUBSET S : /\ \E measured \in [T -> Scores] : known' = Merged(known, measured)
                              /\ journaled' = journaled + Cardinality(T)
    BY <2>1
  <2>3. PICK measured \in [T -> Scores] : known' = Merged(known, measured)
    BY <2>2
  <2>4. S \subseteq Configs /\ IsFiniteSet(S)
    BY <1>1, BatchFacts DEF NumbersOK
  <2>5. Cardinality(T) \in Nat
    BY <2>4, FS_Subset, FS_CardinalityType
  <2>6. Partial(known', Measurement)
    BY <1>1, <2>3, <2>4, MergedPartial
  <2>7. children' = children + 1
    BY <1>4 DEF PartlyJournaled
  <2>8. QED
    BY <1>1, <1>2, <2>2, <2>5, <2>6, <2>7 DEF NumbersOK
<1>5. QED
  BY <1>3, <1>4 DEF Cut

(* Trials are journaled with a score or None.                              *)
LEMMA KnownTyped ==
    TypeOK /\ FlightInv /\ [Next]_vars => Partial(known', Measurement)
<1> SUFFICES ASSUME TypeOK, FlightInv, [Next]_vars
             PROVE  Partial(known', Measurement)
  OBVIOUS
<1>a. options \in OptionSets /\ Partial(known, Measurement) /\ Partial(contexts, BOOLEAN)
      /\ NumbersOK
  BY TypeFacts
<1>b. UNCHANGED known => Partial(known', Measurement)
  BY <1>a
<1>1. CASE BaselineRun
  BY <1>1, <1>b DEF BaselineRun, End
<1>2. CASE BaselineStarved
  BY <1>2, <1>b DEF BaselineStarved, End, journal
<1>3. CASE StartTrial
  BY <1>3, <1>b DEF StartTrial, journal
<1>4. CASE RunAuxiliary
  BY <1>4, <1>b DEF RunAuxiliary
<1>5. CASE JournalTrial
  <2>1. PICK score \in Measurement : known' = With(known, flight.cfg, score)
    BY <1>5, MeasuredFacts DEF JournalTrial
  <2>2. flight.cfg \in Configs
    BY <1>5, FlightFacts DEF JournalTrial, Flying
  <2>3. QED
    BY <1>a, <2>1, <2>2, WithPartial
<1>6. CASE RunBatch
  <2>0. PICK S \in Batches : \E measured \in [S -> Scores] : known' = Merged(known, measured)
    BY <1>6 DEF RunBatch
  <2>1. PICK measured \in [S -> Scores] : known' = Merged(known, measured)
    BY <2>0
  <2>2. S \in SUBSET Configs
    BY <1>a, <2>1, BatchFacts DEF NumbersOK
  <2>3. QED
    BY <1>a, <2>1, <2>2, MergedPartial
<1>7. CASE FailBatch
  BY <1>7, <1>b DEF FailBatch, journal
<1>8. CASE Promote
  BY <1>8, <1>b DEF Promote, journal
<1>9. CASE SearchProbe
  BY <1>9, <1>b DEF SearchProbe
<1>10. CASE EndSearch
  BY <1>10, <1>b DEF EndSearch, journal
<1>11. CASE RecallContext
  BY <1>11, <1>b DEF RecallContext, Validate, journal
<1>12. CASE ProbeContext
  BY <1>12, <1>b DEF ProbeContext, Validate
<1>13. CASE GiveUpContext
  BY <1>13, <1>b DEF GiveUpContext, journal
<1>14. CASE RecallReseat
  BY <1>14, <1>b DEF RecallReseat, journal
<1>15. CASE StartReseat
  BY <1>15, <1>b DEF StartReseat, journal
<1>16. CASE JournalReseat
  <2>1. PICK score \in Measurement : known' = With(known, flight.cfg, score)
    BY <1>16, MeasuredFacts DEF JournalReseat
  <2>2. flight.cfg \in Configs
    BY <1>16, FlightFacts DEF JournalReseat, Flying
  <2>3. QED
    BY <1>a, <2>1, <2>2, WithPartial
<1>17. CASE Escape
  BY <1>17, <1>b DEF Escape, journal
<1>18. CASE Decide
  BY <1>18, <1>b DEF Decide, journal
<1>19. CASE RunnerUp
  BY <1>19, <1>b DEF RunnerUp, journal
<1>20. CASE StartConfirmation
  BY <1>20, <1>b DEF StartConfirmation, journal
<1>21. CASE JournalConfirmation
  BY <1>21, <1>b DEF JournalConfirmation
<1>22. CASE RefuseConfirmation
  BY <1>22, <1>b DEF RefuseConfirmation, journal
<1>23. CASE CloseConfirmation
  BY <1>23, <1>b DEF CloseConfirmation, journal
<1>24. CASE Fallback
  BY <1>24, <1>b DEF Fallback, journal
<1>25. CASE NoFeasible
  BY <1>25, <1>b DEF NoFeasible, End, journal
<1>26. CASE ValidateWithCli
  BY <1>26, <1>b DEF ValidateWithCli
<1>27. CASE WriteOutputs
  BY <1>27, <1>b DEF WriteOutputs, journal
<1>28. CASE AppendRecord
  BY <1>28, <1>b DEF AppendRecord, journal
<1>29. CASE EndSession
  BY <1>29, <1>b DEF EndSession, End, journal
<1>30. CASE Interrupt
  BY <1>30, <1>b DEF Interrupt, journal
<1>31. CASE ClockExpires
  BY <1>31, <1>b DEF ClockExpires, journal
<1>32. CASE Abort
  BY <1>32, CutTypes DEF Abort
<1>33. CASE IoFailure
  BY <1>33, CutTypes DEF IoFailure
<1>34. CASE Crash
  BY <1>34, CutTypes DEF Crash
<1>35. CASE Resume
  BY <1>35, <1>b DEF Resume, FreshMemory, journal
<1>36. CASE Finished
  BY <1>36, <1>b DEF Finished, vars, journal
<1>37. CASE UNCHANGED vars
  BY <1>37, <1>b DEF vars, journal
<1>38. QED
  BY <1>1, <1>2, <1>3, <1>4, <1>5, <1>6, <1>7, <1>8, <1>9, <1>10, <1>11, <1>12, <1>13, <1>14,
     <1>15, <1>16, <1>17, <1>18, <1>19, <1>20, <1>21, <1>22, <1>23, <1>24, <1>25, <1>26, <1>27,
     <1>28, <1>29, <1>30, <1>31, <1>32, <1>33, <1>34, <1>35, <1>36, <1>37 DEF Next, Step

(* Context probes are journaled with a verdict.                            *)
LEMMA ContextsTyped ==
    TypeOK /\ [Next]_vars => Partial(contexts', BOOLEAN)
<1> SUFFICES ASSUME TypeOK, [Next]_vars
             PROVE  Partial(contexts', BOOLEAN)
  OBVIOUS
<1>a. options \in OptionSets /\ Partial(known, Measurement) /\ Partial(contexts, BOOLEAN)
      /\ NumbersOK
  BY TypeFacts
<1>b. UNCHANGED contexts => Partial(contexts', BOOLEAN)
  BY <1>a
<1>1. CASE BaselineRun
  BY <1>1, <1>b DEF BaselineRun, End
<1>2. CASE BaselineStarved
  BY <1>2, <1>b DEF BaselineStarved, End, journal
<1>3. CASE StartTrial
  BY <1>3, <1>b DEF StartTrial, journal
<1>4. CASE RunAuxiliary
  BY <1>4, <1>b DEF RunAuxiliary
<1>5. CASE JournalTrial
  BY <1>5, <1>b DEF JournalTrial
<1>6. CASE RunBatch
  BY <1>6, <1>b DEF RunBatch
<1>7. CASE FailBatch
  BY <1>7, <1>b DEF FailBatch, journal
<1>8. CASE Promote
  BY <1>8, <1>b DEF Promote, journal
<1>9. CASE SearchProbe
  <2>1. CASE UNCHANGED contexts
    BY <1>b, <2>1
  <2>2. CASE \E c \in DOMAIN known \ DOMAIN contexts,
        passed \in BOOLEAN : contexts' = With(contexts, c, passed)
    <3>1. PICK c \in DOMAIN known, passed \in BOOLEAN : contexts' = With(contexts, c, passed)
      BY <2>2
    <3>2. c \in Configs
      BY <1>a, <3>1 DEF Partial
    <3>3. QED
      BY <1>a, <3>1, <3>2, WithPartial
  <2>3. QED
    BY <1>9, <2>1, <2>2 DEF SearchProbe
<1>10. CASE EndSearch
  BY <1>10, <1>b DEF EndSearch, journal
<1>11. CASE RecallContext
  BY <1>11, <1>b DEF RecallContext, Validate, journal
<1>12. CASE ProbeContext
  <2>1. PICK c \in Candidates, passed \in BOOLEAN : contexts' = With(contexts, c, passed)
    BY <1>12 DEF ProbeContext
  <2>2. c \in Configs
    BY <1>a, OptionFacts DEF Candidates, TypeOK
  <2>3. QED
    BY <1>a, <2>1, <2>2, WithPartial
<1>13. CASE GiveUpContext
  BY <1>13, <1>b DEF GiveUpContext, journal
<1>14. CASE RecallReseat
  BY <1>14, <1>b DEF RecallReseat, journal
<1>15. CASE StartReseat
  BY <1>15, <1>b DEF StartReseat, journal
<1>16. CASE JournalReseat
  BY <1>16, <1>b DEF JournalReseat
<1>17. CASE Escape
  BY <1>17, <1>b DEF Escape, journal
<1>18. CASE Decide
  BY <1>18, <1>b DEF Decide, journal
<1>19. CASE RunnerUp
  BY <1>19, <1>b DEF RunnerUp, journal
<1>20. CASE StartConfirmation
  BY <1>20, <1>b DEF StartConfirmation, journal
<1>21. CASE JournalConfirmation
  BY <1>21, <1>b DEF JournalConfirmation
<1>22. CASE RefuseConfirmation
  BY <1>22, <1>b DEF RefuseConfirmation, journal
<1>23. CASE CloseConfirmation
  BY <1>23, <1>b DEF CloseConfirmation, journal
<1>24. CASE Fallback
  BY <1>24, <1>b DEF Fallback, journal
<1>25. CASE NoFeasible
  BY <1>25, <1>b DEF NoFeasible, End, journal
<1>26. CASE ValidateWithCli
  BY <1>26, <1>b DEF ValidateWithCli
<1>27. CASE WriteOutputs
  BY <1>27, <1>b DEF WriteOutputs, journal
<1>28. CASE AppendRecord
  BY <1>28, <1>b DEF AppendRecord, journal
<1>29. CASE EndSession
  BY <1>29, <1>b DEF EndSession, End, journal
<1>30. CASE Interrupt
  BY <1>30, <1>b DEF Interrupt, journal
<1>31. CASE ClockExpires
  BY <1>31, <1>b DEF ClockExpires, journal
<1>32. CASE Abort
  BY <1>32, <1>a, <1>b, CutKeeps DEF Abort, NumbersOK
<1>33. CASE IoFailure
  BY <1>33, <1>a, <1>b, CutKeeps DEF IoFailure, NumbersOK
<1>34. CASE Crash
  BY <1>34, <1>a, <1>b, CutKeeps DEF Crash, NumbersOK
<1>35. CASE Resume
  BY <1>35, <1>b DEF Resume, FreshMemory, journal
<1>36. CASE Finished
  BY <1>36, <1>b DEF Finished, vars, journal
<1>37. CASE UNCHANGED vars
  BY <1>37, <1>b DEF vars, journal
<1>38. QED
  BY <1>1, <1>2, <1>3, <1>4, <1>5, <1>6, <1>7, <1>8, <1>9, <1>10, <1>11, <1>12, <1>13, <1>14,
     <1>15, <1>16, <1>17, <1>18, <1>19, <1>20, <1>21, <1>22, <1>23, <1>24, <1>25, <1>26, <1>27,
     <1>28, <1>29, <1>30, <1>31, <1>32, <1>33, <1>34, <1>35, <1>36, <1>37 DEF Next, Step

ConfirmsOK == confirms \in [Configs -> [1..options.runs -> Seq(Run)]]

(* Every configuration keeps its row of confirmation runs.                 *)
LEMMA ConfirmsTyped ==
    ASSUME TypeOK, FlightInv, [Next]_vars
    PROVE  ConfirmsOK'
<1>1. options' = options /\ confirms \in [Configs -> [1..options.runs -> Seq(Run)]]
  BY OptionsStay DEF TypeOK
<1>2. CASE JournalConfirmation
  BY <1>1, <1>2, RunJournaled DEF ConfirmsOK
<1>3. CASE confirms' = confirms
  BY <1>1, <1>3 DEF ConfirmsOK
<1>4. QED
  BY <1>2, <1>3, OnlyConfirmations

(* The counters stay natural numbers.                                      *)
LEMMA NumbersInductive ==
    TypeOK /\ [Next]_vars => NumbersOK'
<1> SUFFICES ASSUME TypeOK, [Next]_vars
             PROVE  NumbersOK'
  OBVIOUS
<1>a. options \in OptionSets /\ Partial(known, Measurement) /\ Partial(contexts, BOOLEAN)
      /\ NumbersOK
  BY TypeFacts
<1>1. CASE BaselineRun
  BY <1>1, <1>a DEF BaselineRun, RanAndJournaled, Ran, End, batches, history, CountExecuted,
         NumbersOK
<1>2. CASE BaselineStarved
  BY <1>2, <1>a DEF BaselineStarved, End, journal, batches, history, CountExecuted, NumbersOK
<1>3. CASE StartTrial
  BY <1>3, <1>a DEF StartTrial, Ran, journal, batches, history, CountExecuted, NumbersOK
<1>4. CASE RunAuxiliary
  BY <1>4, <1>a DEF RunAuxiliary, RanAndJournaled, Ran, batches, history, CountExecuted, NumbersOK
<1>5. CASE JournalTrial
  BY <1>5, <1>a DEF JournalTrial, batches, history, CountExecuted, NumbersOK
<1>6. CASE RunBatch
  <2>1. PICK S \in Batches : /\ journaled' = journaled + Cardinality(S)
                            /\ executed' = executed + Cardinality(S)
    BY <1>6 DEF RunBatch
  <2>2. Cardinality(S) \in Nat
    BY <1>a, BatchFacts DEF NumbersOK
  <2>3. QED
    BY <1>6, <1>a, <2>1, <2>2 DEF RunBatch, batches, history, NumbersOK
<1>7. CASE FailBatch
  BY <1>7, <1>a DEF FailBatch, journal, history, CountExecuted, NumbersOK
<1>8. CASE Promote
  BY <1>8, <1>a DEF Promote, journal, batches, history, CountExecuted, NumbersOK
<1>9. CASE SearchProbe
  BY <1>9, <1>a DEF SearchProbe, RanAndJournaled, Ran, batches, history, CountExecuted, NumbersOK
<1>10. CASE EndSearch
  BY <1>10, <1>a DEF EndSearch, journal, batches, history, CountExecuted, NumbersOK
<1>11. CASE RecallContext
  BY <1>11, <1>a DEF RecallContext, Validate, journal, batches, history, CountExecuted, NumbersOK
<1>12. CASE ProbeContext
  BY <1>12, <1>a DEF ProbeContext, Validate, RanAndJournaled, Ran, batches, history,
         CountExecuted, NumbersOK
<1>13. CASE GiveUpContext
  BY <1>13, <1>a DEF GiveUpContext, journal, batches, history, CountExecuted, NumbersOK
<1>14. CASE RecallReseat
  BY <1>14, <1>a DEF RecallReseat, journal, batches, history, CountExecuted, NumbersOK
<1>15. CASE StartReseat
  BY <1>15, <1>a DEF StartReseat, Ran, journal, batches, history, CountExecuted, NumbersOK
<1>16. CASE JournalReseat
  BY <1>16, <1>a DEF JournalReseat, batches, history, CountExecuted, NumbersOK
<1>17. CASE Escape
  BY <1>17, <1>a DEF Escape, journal, batches, history, CountExecuted, NumbersOK
<1>18. CASE Decide
  BY <1>18, <1>a DEF Decide, journal, batches, history, CountExecuted, NumbersOK
<1>19. CASE RunnerUp
  BY <1>19, <1>a DEF RunnerUp, journal, batches, history, CountExecuted, NumbersOK
<1>20. CASE StartConfirmation
  BY <1>20, <1>a DEF StartConfirmation, Ran, journal, batches, history, CountExecuted, NumbersOK
<1>21. CASE JournalConfirmation
  BY <1>21, <1>a DEF JournalConfirmation, batches, history, CountExecuted, NumbersOK
<1>22. CASE RefuseConfirmation
  BY <1>22, <1>a DEF RefuseConfirmation, journal, batches, history, CountExecuted, NumbersOK
<1>23. CASE CloseConfirmation
  BY <1>23, <1>a DEF CloseConfirmation, journal, batches, history, CountExecuted, NumbersOK
<1>24. CASE Fallback
  BY <1>24, <1>a DEF Fallback, journal, batches, history, CountExecuted, NumbersOK
<1>25. CASE NoFeasible
  BY <1>25, <1>a DEF NoFeasible, End, journal, batches, history, CountExecuted, NumbersOK
<1>26. CASE ValidateWithCli
  BY <1>26, <1>a DEF ValidateWithCli, RanAndJournaled, Ran, batches, history, CountExecuted,
         NumbersOK
<1>27. CASE WriteOutputs
  BY <1>27, <1>a DEF WriteOutputs, journal, batches, history, CountExecuted, NumbersOK
<1>28. CASE AppendRecord
  BY <1>28, <1>a DEF AppendRecord, journal, batches, history, CountExecuted, NumbersOK
<1>29. CASE EndSession
  BY <1>29, <1>a DEF EndSession, End, journal, batches, history, CountExecuted, NumbersOK
<1>30. CASE Interrupt
  BY <1>30, <1>a DEF Interrupt, journal, batches, history, CountExecuted, NumbersOK
<1>31. CASE ClockExpires
  BY <1>31, <1>a DEF ClockExpires, journal, batches, history, CountExecuted, NumbersOK
<1>32. CASE Abort
  BY <1>32, CutTypes DEF Abort
<1>33. CASE IoFailure
  BY <1>33, CutTypes DEF IoFailure
<1>34. CASE Crash
  BY <1>34, CutTypes DEF Crash
<1>35. CASE Resume
  BY <1>35, <1>a DEF Resume, FreshMemory, journal, CountExecuted, NumbersOK
<1>36. CASE Finished
  BY <1>36, <1>a DEF Finished, vars, journal, batches, history, CountExecuted, NumbersOK
<1>37. CASE UNCHANGED vars
  BY <1>37, <1>a DEF vars, journal, batches, history, CountExecuted, NumbersOK
<1>38. QED
  BY <1>1, <1>2, <1>3, <1>4, <1>5, <1>6, <1>7, <1>8, <1>9, <1>10, <1>11, <1>12, <1>13, <1>14,
     <1>15, <1>16, <1>17, <1>18, <1>19, <1>20, <1>21, <1>22, <1>23, <1>24, <1>25, <1>26, <1>27,
     <1>28, <1>29, <1>30, <1>31, <1>32, <1>33, <1>34, <1>35, <1>36, <1>37 DEF Next, Step

SearchOK ==
    /\ base \in [run : Nat, cpu : BOOLEAN]
    /\ flight \in {None} \cup [cfg : Configs, aux : 0..3]
    /\ split \subseteq Configs

IncumbentOK == incumbent \in [cfg : Configs, score : Nat]

ContextOK == tried \subseteq Configs /\ validated \subseteq Configs

AttemptOK ==
    attempt \in [cfg : Configs \cup {None}, second : BOOLEAN,
                 runs : [1..options.runs -> Scores \cup {None}]]

RecOK == rec \in [cfg : Configs \cup {None}, confirmed : BOOLEAN]

StateOK ==
    /\ baseline \in {None, "defaults", "cpu"}
    /\ pc \in Live \cup {"ended", "down", "escaped"}
    /\ exit \in {None, 0, 1, 3, 4}

DiskOK ==
    /\ outputs \in {None} \cup [cfg : Configs, confirmed : BOOLEAN]
    /\ registry \subseteq Configs

(* TypeOK, what it says of memory, disk and control.                       *)
LEMMA MemoryFacts ==
    ASSUME TypeOK
    PROVE  SearchOK /\ IncumbentOK /\ ContextOK /\ AttemptOK /\ RecOK /\ StateOK /\ DiskOK
           /\ SignalsOK
BY DEF TypeOK, SearchOK, IncumbentOK, ContextOK, AttemptOK, RecOK, StateOK, DiskOK, SignalsOK

(* What the engine chooses from are configurations.                        *)
LEMMA ChoiceFacts ==
    ASSUME TypeOK
    PROVE  /\ Candidates \subseteq Configs /\ Eligible \subseteq Configs
           /\ Recommendable \subseteq Configs
           /\ \A S \in SUBSET Configs : Best(S) \subseteq S
<1>1. Candidates \subseteq Configs
  BY OptionFacts DEF TypeOK, Candidates
<1>2. Eligible \subseteq Configs
  BY DEF TypeOK, Eligible
<1>3. \A S : Best(S) \subseteq S
  BY DEF Best
<1>4. Recommendable \subseteq Configs
  BY <1>2, <1>3, ConstantFacts DEF Recommendable
<1>5. QED
  BY <1>1, <1>2, <1>3, <1>4

(* What is reused of a run is one of its entries, of the build under way,  *)
(* and where nothing is there is no good one of it.                        *)
LEMMA ReusableFacts ==
    ASSUME TypeOK, NEW c \in Configs
    PROVE  /\ Reusable(c) \in [1..options.runs -> Scores \cup {None}]
           /\ \A i \in 1..options.runs :
                 /\ Reused(confirms[c][i]) = {} => Reusable(c)[i] = None
                 /\ Reused(confirms[c][i]) # {} =>
                       /\ Reusable(c)[i] # None
                       /\ Has(confirms[c][i], build, Reusable(c)[i])
<1>1. confirms \in [Configs -> [1..options.runs -> Seq(Run)]]
  BY TypeFacts
<1>2. ASSUME NEW i \in 1..options.runs
      PROVE  /\ Reusable(c)[i] \in Scores \cup {None}
             /\ Reused(confirms[c][i]) = {} => Reusable(c)[i] = None
             /\ Reused(confirms[c][i]) # {} =>
                   /\ Reusable(c)[i] # None
                   /\ Has(confirms[c][i], build, Reusable(c)[i])
  <2> DEFINE run == confirms[c][i]
  <2>1. run \in Seq(Run)
    BY <1>1
  <2>2. CASE Reused(run) = {}
    <3>1. Reusable(c)[i] = None
      BY <2>2 DEF Reusable
    <3>2. QED
      BY <2>2, <3>1
  <2>3. CASE Reused(run) # {}
    <3>1. PICK n : n = CHOOSE m \in Reused(run) : TRUE
      OBVIOUS
    <3>2. n \in Reused(run)
      BY <2>3, <3>1
    <3>3. n \in DOMAIN run /\ run[n].build = build /\ run[n].score # None
      BY <3>2 DEF Reused
    <3>4. run[n] \in Run
      BY <2>1, <3>3
    <3>5. run[n] = [build |-> build, score |-> run[n].score] /\ run[n].score \in Scores \cup {None}
      BY <3>3, <3>4 DEF Run
    <3>6. Reusable(c)[i] = run[n].score
      BY <2>3, <3>1 DEF Reusable
    <3>7. QED
      BY <2>3, <3>3, <3>5, <3>6 DEF Has
  <2>4. QED
    BY <2>2, <2>3
<1>3. Reusable(c) = [i \in 1..options.runs |-> Reusable(c)[i]]
  BY DEF Reusable
<1>4. QED
  BY <1>2, <1>3

(* A measurement of a run that did not fail is a score, or a rejection.    *)
LEMMA ScoreFacts ==
    ASSUME NEW score \in Measurement
    PROVE  /\ score # None => score \in Scores \cup {Rejected}
           /\ score # None /\ score # Rejected => score \in Nat
BY ConstantFacts DEF Measurement

(* The baseline run, the measurement in flight and the split batch keep    *)
(* their types.                                                            *)
LEMMA SearchTyped ==
    TypeOK /\ FlightInv /\ [Next]_vars => SearchOK'
<1> SUFFICES ASSUME TypeOK, FlightInv, [Next]_vars
             PROVE  SearchOK'
  OBVIOUS
<1>a. options \in OptionSets /\ Partial(known, Measurement) /\ Partial(contexts, BOOLEAN)
      /\ NumbersOK
  BY TypeFacts
<1>b. SearchOK /\ IncumbentOK /\ ContextOK /\ AttemptOK /\ RecOK /\ StateOK /\ DiskOK
  BY MemoryFacts
<1>1. CASE BaselineRun
  <2>1. base' \in [run : Nat, cpu : BOOLEAN]
    <3>1. CASE base' = base
      BY <1>b, <3>1 DEF SearchOK
    <3>2. CASE \E cpu \in IF base.run = 1 THEN BOOLEAN ELSE {base.cpu} :
                 base' = [run |-> base.run + 1, cpu |-> cpu]
      <4>1. base.run \in Nat /\ base.cpu \in BOOLEAN
        BY <1>b DEF SearchOK
      <4>2. PICK cpu \in BOOLEAN : base' = [run |-> base.run + 1, cpu |-> cpu]
        BY <3>2, <4>1
      <4>3. QED
        BY <4>1, <4>2
    <3>3. QED
      BY <1>1, <3>1, <3>2 DEF BaselineRun
  <2>2. QED
    BY <1>1, <1>b, <2>1 DEF BaselineRun, SearchOK, batches
<1>2. CASE BaselineStarved
  BY <1>2, <1>b DEF BaselineStarved, End, SearchOK, memory, batches
<1>3. CASE StartTrial
  BY <1>3, <1>b DEF StartTrial, SearchOK, batches
<1>4. CASE RunAuxiliary
  <2>1. flight \in [cfg : Configs, aux : 0..3]
    BY <1>4, FlightFacts DEF RunAuxiliary, Flying
  <2>2. flight.aux + 1 \in 0..3
    <3>1. flight.aux \in 0..3 /\ flight.aux < MaxAux
      BY <1>4, <2>1 DEF RunAuxiliary
    <3>2. flight.aux < 3
      BY <3>1 DEF MaxAux
    <3>3. QED
      BY <3>1, <3>2
  <2>3. flight' \in [cfg : Configs, aux : 0..3]
    BY <1>4, <2>1, <2>2 DEF RunAuxiliary
  <2>4. QED
    BY <1>4, <1>b, <2>3 DEF RunAuxiliary, SearchOK, batches
<1>5. CASE JournalTrial
  BY <1>5, <1>b DEF JournalTrial, SearchOK, batches
<1>6. CASE RunBatch
  BY <1>6, <1>b DEF RunBatch, SearchOK, memory, batches
<1>7. CASE FailBatch
  <2>1. PICK S \in Batches : split' = split \cup S
    BY <1>7 DEF FailBatch
  <2>2. S \subseteq Configs
    BY <1>a, <2>1, BatchFacts DEF NumbersOK
  <2>3. QED
    BY <1>7, <1>b, <2>1, <2>2 DEF FailBatch, SearchOK, memory
<1>8. CASE Promote
  BY <1>8, <1>b DEF Promote, SearchOK, batches
<1>9. CASE SearchProbe
  BY <1>9, <1>b DEF SearchProbe, SearchOK, memory, batches
<1>10. CASE EndSearch
  BY <1>10, <1>b DEF EndSearch, SearchOK, memory, batches
<1>11. CASE RecallContext
  BY <1>11, <1>b DEF RecallContext, Validate, SearchOK, batches
<1>12. CASE ProbeContext
  BY <1>12, <1>b DEF ProbeContext, Validate, SearchOK, batches
<1>13. CASE GiveUpContext
  BY <1>13, <1>b DEF GiveUpContext, SearchOK, memory, batches
<1>14. CASE RecallReseat
  BY <1>14, <1>b DEF RecallReseat, SearchOK, batches
<1>15. CASE StartReseat
  BY <1>15, <1>b DEF StartReseat, ContextOK, SearchOK, batches
<1>16. CASE JournalReseat
  BY <1>16, <1>b DEF JournalReseat, SearchOK, batches
<1>17. CASE Escape
  BY <1>17, <1>b DEF Escape, SearchOK, memory, batches
<1>18. CASE Decide
  BY <1>18, <1>b DEF Decide, SearchOK, batches
<1>19. CASE RunnerUp
  BY <1>19, <1>b DEF RunnerUp, SearchOK, batches
<1>20. CASE StartConfirmation
  BY <1>20, <1>b DEF StartConfirmation, FlightInv, Attempting, SearchOK, batches
<1>21. CASE JournalConfirmation
  BY <1>21, <1>b DEF JournalConfirmation, SearchOK, batches
<1>22. CASE RefuseConfirmation
  BY <1>22, <1>b DEF RefuseConfirmation, SearchOK, batches
<1>23. CASE CloseConfirmation
  BY <1>23, <1>b DEF CloseConfirmation, SearchOK, batches
<1>24. CASE Fallback
  BY <1>24, <1>b DEF Fallback, SearchOK, batches
<1>25. CASE NoFeasible
  BY <1>25, <1>b DEF NoFeasible, End, SearchOK, memory, batches
<1>26. CASE ValidateWithCli
  BY <1>26, <1>b DEF ValidateWithCli, SearchOK, memory, batches
<1>27. CASE WriteOutputs
  BY <1>27, <1>b DEF WriteOutputs, SearchOK, memory, batches
<1>28. CASE AppendRecord
  BY <1>28, <1>b DEF AppendRecord, SearchOK, memory, batches
<1>29. CASE EndSession
  BY <1>29, <1>b DEF EndSession, End, SearchOK, memory, batches
<1>30. CASE Interrupt
  BY <1>30, <1>b DEF Interrupt, SearchOK, memory, batches
<1>31. CASE ClockExpires
  BY <1>31, <1>b DEF ClockExpires, SearchOK, memory, batches
<1>32. CASE Abort
  BY <1>32, <1>b DEF Abort, End, Cut, End, SearchOK, memory, batches
<1>33. CASE IoFailure
  BY <1>33, <1>b DEF IoFailure, End, Cut, End, SearchOK, memory, batches
<1>34. CASE Crash
  BY <1>34, <1>b DEF Crash, Cut, End, SearchOK, memory, batches
<1>35. CASE Resume
  BY <1>35, <1>b DEF Resume, FreshMemory, SearchOK
<1>36. CASE Finished
  BY <1>36, <1>b DEF Finished, vars, SearchOK, memory, batches
<1>37. CASE UNCHANGED vars
  BY <1>37, <1>b DEF vars, SearchOK, memory, batches
<1>38. QED
  BY <1>1, <1>2, <1>3, <1>4, <1>5, <1>6, <1>7, <1>8, <1>9, <1>10, <1>11, <1>12, <1>13, <1>14,
     <1>15, <1>16, <1>17, <1>18, <1>19, <1>20, <1>21, <1>22, <1>23, <1>24, <1>25, <1>26, <1>27,
     <1>28, <1>29, <1>30, <1>31, <1>32, <1>33, <1>34, <1>35, <1>36, <1>37 DEF Next, Step

(* The incumbent is always a configuration with a score.                   *)
LEMMA IncumbentTyped ==
    TypeOK /\ FlightInv /\ [Next]_vars => IncumbentOK'
<1> SUFFICES ASSUME TypeOK, FlightInv, [Next]_vars
             PROVE  IncumbentOK'
  OBVIOUS
<1>a. options \in OptionSets /\ Partial(known, Measurement) /\ Partial(contexts, BOOLEAN)
      /\ NumbersOK
  BY TypeFacts
<1>b. SearchOK /\ IncumbentOK /\ ContextOK /\ AttemptOK /\ RecOK /\ StateOK /\ DiskOK
  BY MemoryFacts
<1>c. UNCHANGED incumbent => IncumbentOK'
  BY <1>b DEF IncumbentOK
<1>1. CASE BaselineRun
  BY <1>1, <1>c DEF BaselineRun, End
<1>2. CASE BaselineStarved
  BY <1>2, <1>c DEF BaselineStarved, End, memory
<1>3. CASE StartTrial
  BY <1>3, <1>c DEF StartTrial
<1>4. CASE RunAuxiliary
  BY <1>4, <1>c DEF RunAuxiliary
<1>5. CASE JournalTrial
  BY <1>5, <1>c DEF JournalTrial
<1>6. CASE RunBatch
  BY <1>6, <1>c DEF RunBatch, memory
<1>7. CASE FailBatch
  BY <1>7, <1>c DEF FailBatch, memory
<1>8. CASE Promote
  <2>1. PICK c \in DOMAIN known :
               known[c] \in Scores /\ incumbent' = [cfg |-> c, score |-> known[c]]
    BY <1>8 DEF Promote
  <2>2. c \in Configs
    BY <1>a, <2>1 DEF Partial
  <2>3. known[c] \in Nat
    BY <2>1, ConstantFacts
  <2>4. QED
    BY <2>1, <2>2, <2>3 DEF IncumbentOK
<1>9. CASE SearchProbe
  BY <1>9, <1>c DEF SearchProbe, memory
<1>10. CASE EndSearch
  BY <1>10, <1>c DEF EndSearch, memory
<1>11. CASE RecallContext
  BY <1>11, <1>c DEF RecallContext, Validate
<1>12. CASE ProbeContext
  BY <1>12, <1>c DEF ProbeContext, Validate
<1>13. CASE GiveUpContext
  BY <1>13, <1>c DEF GiveUpContext, memory
<1>14. CASE RecallReseat
  <2>1. PICK c \in DOMAIN known : incumbent' = Reseated(c, known[c])
    BY <1>14 DEF RecallReseat
  <2>2. c \in Configs /\ known[c] \in Measurement
    BY <1>a, <2>1 DEF Partial
  <2>3. QED
    BY <1>b, <2>1, <2>2, ScoreFacts DEF Reseated, IncumbentOK
<1>15. CASE StartReseat
  BY <1>15, <1>c DEF StartReseat
<1>16. CASE JournalReseat
  <2>1. PICK score \in Measurement : incumbent' = Reseated(flight.cfg, score)
    BY <1>16, MeasuredFacts DEF JournalReseat
  <2>2. flight.cfg \in Configs
    BY <1>16, FlightFacts DEF JournalReseat, Flying
  <2>3. QED
    BY <1>b, <2>1, <2>2, ScoreFacts DEF Reseated, IncumbentOK
<1>17. CASE Escape
  BY <1>17, <1>c DEF Escape, memory
<1>18. CASE Decide
  BY <1>18, <1>c DEF Decide
<1>19. CASE RunnerUp
  BY <1>19, <1>c DEF RunnerUp
<1>20. CASE StartConfirmation
  BY <1>20, <1>c DEF StartConfirmation
<1>21. CASE JournalConfirmation
  BY <1>21, <1>c DEF JournalConfirmation
<1>22. CASE RefuseConfirmation
  BY <1>22, <1>c DEF RefuseConfirmation
<1>23. CASE CloseConfirmation
  BY <1>23, <1>c DEF CloseConfirmation
<1>24. CASE Fallback
  BY <1>24, <1>c DEF Fallback
<1>25. CASE NoFeasible
  BY <1>25, <1>c DEF NoFeasible, End, memory
<1>26. CASE ValidateWithCli
  BY <1>26, <1>c DEF ValidateWithCli, memory
<1>27. CASE WriteOutputs
  BY <1>27, <1>c DEF WriteOutputs, memory
<1>28. CASE AppendRecord
  BY <1>28, <1>c DEF AppendRecord, memory
<1>29. CASE EndSession
  BY <1>29, <1>c DEF EndSession, End, memory
<1>30. CASE Interrupt
  BY <1>30, <1>c DEF Interrupt, memory
<1>31. CASE ClockExpires
  BY <1>31, <1>c DEF ClockExpires, memory
<1>32. CASE Abort
  BY <1>32, <1>c DEF Abort, End, Cut, End, memory
<1>33. CASE IoFailure
  BY <1>33, <1>c DEF IoFailure, End, Cut, End, memory
<1>34. CASE Crash
  BY <1>34, <1>c DEF Crash, Cut, End, memory
<1>35. CASE Resume
  BY <1>35, ConstantFacts DEF Resume, FreshMemory, Unit, IncumbentOK
<1>36. CASE Finished
  BY <1>36, <1>c DEF Finished, vars, memory
<1>37. CASE UNCHANGED vars
  BY <1>37, <1>c DEF vars, memory
<1>38. QED
  BY <1>1, <1>2, <1>3, <1>4, <1>5, <1>6, <1>7, <1>8, <1>9, <1>10, <1>11, <1>12, <1>13, <1>14,
     <1>15, <1>16, <1>17, <1>18, <1>19, <1>20, <1>21, <1>22, <1>23, <1>24, <1>25, <1>26, <1>27,
     <1>28, <1>29, <1>30, <1>31, <1>32, <1>33, <1>34, <1>35, <1>36, <1>37 DEF Next, Step

(* Context candidates are configurations.                                  *)
LEMMA ContextTyped ==
    TypeOK /\ [Next]_vars => ContextOK'
<1> SUFFICES ASSUME TypeOK, [Next]_vars
             PROVE  ContextOK'
  OBVIOUS
<1>a. options \in OptionSets /\ Partial(known, Measurement) /\ Partial(contexts, BOOLEAN)
      /\ NumbersOK
  BY TypeFacts
<1>b. SearchOK /\ IncumbentOK /\ ContextOK /\ AttemptOK /\ RecOK /\ StateOK /\ DiskOK
  BY MemoryFacts
<1>c. UNCHANGED <<tried, validated>> => ContextOK'
  BY <1>b DEF ContextOK
<1>1. CASE BaselineRun
  BY <1>1, <1>c DEF BaselineRun, End
<1>2. CASE BaselineStarved
  BY <1>2, <1>c DEF BaselineStarved, End, memory
<1>3. CASE StartTrial
  BY <1>3, <1>c DEF StartTrial
<1>4. CASE RunAuxiliary
  BY <1>4, <1>c DEF RunAuxiliary
<1>5. CASE JournalTrial
  BY <1>5, <1>c DEF JournalTrial
<1>6. CASE RunBatch
  BY <1>6, <1>c DEF RunBatch, memory
<1>7. CASE FailBatch
  BY <1>7, <1>c DEF FailBatch, memory
<1>8. CASE Promote
  BY <1>8, <1>c DEF Promote
<1>9. CASE SearchProbe
  BY <1>9, <1>c DEF SearchProbe, memory
<1>10. CASE EndSearch
  BY <1>10, <1>c DEF EndSearch, memory
<1>11. CASE RecallContext
  <2>1. PICK c \in Candidates : Validate(c, contexts[c])
    BY <1>11 DEF RecallContext
  <2>2. QED
    BY <1>b, <2>1, ChoiceFacts DEF Validate, ContextOK
<1>12. CASE ProbeContext
  <2>1. PICK c \in Candidates, passed \in BOOLEAN : Validate(c, passed)
    BY <1>12 DEF ProbeContext
  <2>2. QED
    BY <1>b, <2>1, ChoiceFacts DEF Validate, ContextOK
<1>13. CASE GiveUpContext
  BY <1>13, <1>c DEF GiveUpContext, memory
<1>14. CASE RecallReseat
  BY <1>14, <1>c DEF RecallReseat
<1>15. CASE StartReseat
  BY <1>15, <1>c DEF StartReseat
<1>16. CASE JournalReseat
  BY <1>16, <1>c DEF JournalReseat
<1>17. CASE Escape
  BY <1>17, <1>c DEF Escape, memory
<1>18. CASE Decide
  BY <1>18, <1>c DEF Decide
<1>19. CASE RunnerUp
  BY <1>19, <1>c DEF RunnerUp
<1>20. CASE StartConfirmation
  BY <1>20, <1>c DEF StartConfirmation
<1>21. CASE JournalConfirmation
  BY <1>21, <1>c DEF JournalConfirmation
<1>22. CASE RefuseConfirmation
  BY <1>22, <1>c DEF RefuseConfirmation
<1>23. CASE CloseConfirmation
  BY <1>23, <1>c DEF CloseConfirmation
<1>24. CASE Fallback
  BY <1>24, <1>c DEF Fallback
<1>25. CASE NoFeasible
  BY <1>25, <1>c DEF NoFeasible, End, memory
<1>26. CASE ValidateWithCli
  BY <1>26, <1>c DEF ValidateWithCli, memory
<1>27. CASE WriteOutputs
  BY <1>27, <1>c DEF WriteOutputs, memory
<1>28. CASE AppendRecord
  BY <1>28, <1>c DEF AppendRecord, memory
<1>29. CASE EndSession
  BY <1>29, <1>c DEF EndSession, End, memory
<1>30. CASE Interrupt
  BY <1>30, <1>c DEF Interrupt, memory
<1>31. CASE ClockExpires
  BY <1>31, <1>c DEF ClockExpires, memory
<1>32. CASE Abort
  BY <1>32, <1>c DEF Abort, End, Cut, End, memory
<1>33. CASE IoFailure
  BY <1>33, <1>c DEF IoFailure, End, Cut, End, memory
<1>34. CASE Crash
  BY <1>34, <1>c DEF Crash, Cut, End, memory
<1>35. CASE Resume
  BY <1>35 DEF Resume, FreshMemory, ContextOK
<1>36. CASE Finished
  BY <1>36, <1>c DEF Finished, vars, memory
<1>37. CASE UNCHANGED vars
  BY <1>37, <1>c DEF vars, memory
<1>38. QED
  BY <1>1, <1>2, <1>3, <1>4, <1>5, <1>6, <1>7, <1>8, <1>9, <1>10, <1>11, <1>12, <1>13, <1>14,
     <1>15, <1>16, <1>17, <1>18, <1>19, <1>20, <1>21, <1>22, <1>23, <1>24, <1>25, <1>26, <1>27,
     <1>28, <1>29, <1>30, <1>31, <1>32, <1>33, <1>34, <1>35, <1>36, <1>37 DEF Next, Step

(* A confirmation is one of a configuration.                               *)
LEMMA AttemptTyped ==
    TypeOK /\ FlightInv /\ [Next]_vars => AttemptOK'
<1> SUFFICES ASSUME TypeOK, FlightInv, [Next]_vars
             PROVE  AttemptOK'
  OBVIOUS
<1>o. options' = options
  BY OptionsStay
<1>a. options \in OptionSets /\ Partial(known, Measurement) /\ Partial(contexts, BOOLEAN)
      /\ NumbersOK
  BY TypeFacts
<1>b. SearchOK /\ IncumbentOK /\ ContextOK /\ AttemptOK /\ RecOK /\ StateOK /\ DiskOK
  BY MemoryFacts
<1>c. UNCHANGED attempt => AttemptOK'
  BY <1>b, <1>o DEF AttemptOK
<1>d. \A c \in Configs, second \in BOOLEAN : BeginAttempt(c, second) => AttemptOK'
  <2> SUFFICES ASSUME NEW c \in Configs, NEW second \in BOOLEAN, BeginAttempt(c, second)
               PROVE  AttemptOK'
    OBVIOUS
  <2>1. UNCHANGED attempt \/ attempt' = [cfg |-> c, second |-> second, runs |-> Reusable(c)]
    BY DEF BeginAttempt, Refuse
  <2>2. Reusable(c) \in [1..options.runs -> Scores \cup {None}]
    BY ReusableFacts
  <2>3. QED
    BY <1>c, <1>o, <2>1, <2>2 DEF AttemptOK
<1>1. CASE BaselineRun
  BY <1>1, <1>c DEF BaselineRun, End
<1>2. CASE BaselineStarved
  BY <1>2, <1>c DEF BaselineStarved, End, memory
<1>3. CASE StartTrial
  BY <1>3, <1>c DEF StartTrial
<1>4. CASE RunAuxiliary
  BY <1>4, <1>c DEF RunAuxiliary
<1>5. CASE JournalTrial
  BY <1>5, <1>c DEF JournalTrial
<1>6. CASE RunBatch
  BY <1>6, <1>c DEF RunBatch, memory
<1>7. CASE FailBatch
  BY <1>7, <1>c DEF FailBatch, memory
<1>8. CASE Promote
  BY <1>8, <1>c DEF Promote
<1>9. CASE SearchProbe
  BY <1>9, <1>c DEF SearchProbe, memory
<1>10. CASE EndSearch
  BY <1>10, <1>c DEF EndSearch, memory
<1>11. CASE RecallContext
  BY <1>11, <1>c DEF RecallContext, Validate
<1>12. CASE ProbeContext
  BY <1>12, <1>c DEF ProbeContext, Validate
<1>13. CASE GiveUpContext
  BY <1>13, <1>c DEF GiveUpContext, memory
<1>14. CASE RecallReseat
  BY <1>14, <1>c DEF RecallReseat
<1>15. CASE StartReseat
  BY <1>15, <1>c DEF StartReseat
<1>16. CASE JournalReseat
  BY <1>16, <1>c DEF JournalReseat
<1>17. CASE Escape
  BY <1>17, <1>c DEF Escape, memory
<1>18. CASE Decide
  <2>1. incumbent.cfg \in Configs
    BY <1>b DEF IncumbentOK
  <2>2. UNCHANGED attempt \/ BeginAttempt(incumbent.cfg, FALSE)
    BY <1>18 DEF Decide
  <2>3. QED
    BY <1>c, <1>d, <2>1, <2>2
<1>19. CASE RunnerUp
  <2>1. UNCHANGED attempt \/ \E c \in Best(Eligible \ {incumbent.cfg}) : BeginAttempt(c, TRUE)
    BY <1>19 DEF RunnerUp
  <2>2. Best(Eligible \ {incumbent.cfg}) \subseteq Configs
    BY ChoiceFacts
  <2>3. QED
    BY <1>c, <1>d, <2>1, <2>2
<1>20. CASE StartConfirmation
  BY <1>20, <1>c DEF StartConfirmation
<1>21. CASE JournalConfirmation
  <2>1. PICK score \in Scores \cup {None}, k \in 1..options.runs :
               attempt' = [attempt EXCEPT !.runs[k] = score]
    BY <1>21, RunJournaled
  <2>2. QED
    BY <1>b, <1>o, <2>1 DEF AttemptOK
<1>22. CASE RefuseConfirmation
  BY <1>22, <1>c DEF RefuseConfirmation, Refuse
<1>23. CASE CloseConfirmation
  BY <1>23, <1>c DEF CloseConfirmation
<1>24. CASE Fallback
  BY <1>24, <1>c DEF Fallback
<1>25. CASE NoFeasible
  BY <1>25, <1>c DEF NoFeasible, End, memory
<1>26. CASE ValidateWithCli
  BY <1>26, <1>c DEF ValidateWithCli, memory
<1>27. CASE WriteOutputs
  BY <1>27, <1>c DEF WriteOutputs, memory
<1>28. CASE AppendRecord
  BY <1>28, <1>c DEF AppendRecord, memory
<1>29. CASE EndSession
  BY <1>29, <1>c DEF EndSession, End, memory
<1>30. CASE Interrupt
  BY <1>30, <1>c DEF Interrupt, memory
<1>31. CASE ClockExpires
  BY <1>31, <1>c DEF ClockExpires, memory
<1>32. CASE Abort
  BY <1>32, <1>c DEF Abort, End, Cut, End, memory
<1>33. CASE IoFailure
  BY <1>33, <1>c DEF IoFailure, End, Cut, End, memory
<1>34. CASE Crash
  BY <1>34, <1>c DEF Crash, Cut, End, memory
<1>35. CASE Resume
  BY <1>35, <1>o DEF Resume, FreshMemory, NoAttempt, NoRuns, AttemptOK
<1>36. CASE Finished
  BY <1>36, <1>c DEF Finished, vars, memory
<1>37. CASE UNCHANGED vars
  BY <1>37, <1>c DEF vars, memory
<1>38. QED
  BY <1>1, <1>2, <1>3, <1>4, <1>5, <1>6, <1>7, <1>8, <1>9, <1>10, <1>11, <1>12, <1>13, <1>14,
     <1>15, <1>16, <1>17, <1>18, <1>19, <1>20, <1>21, <1>22, <1>23, <1>24, <1>25, <1>26, <1>27,
     <1>28, <1>29, <1>30, <1>31, <1>32, <1>33, <1>34, <1>35, <1>36, <1>37 DEF Next, Step

(* So is a recommendation.                                                 *)
LEMMA RecTyped ==
    TypeOK /\ FlightInv /\ [Next]_vars => RecOK'
<1> SUFFICES ASSUME TypeOK, FlightInv, [Next]_vars
             PROVE  RecOK'
  OBVIOUS
<1>a. options \in OptionSets /\ Partial(known, Measurement) /\ Partial(contexts, BOOLEAN)
      /\ NumbersOK
  BY TypeFacts
<1>b. SearchOK /\ IncumbentOK /\ ContextOK /\ AttemptOK /\ RecOK /\ StateOK /\ DiskOK
  BY MemoryFacts
<1>c. UNCHANGED rec => RecOK'
  BY <1>b DEF RecOK
<1>1. CASE BaselineRun
  BY <1>1, <1>c DEF BaselineRun, End
<1>2. CASE BaselineStarved
  BY <1>2, <1>c DEF BaselineStarved, End, memory
<1>3. CASE StartTrial
  BY <1>3, <1>c DEF StartTrial
<1>4. CASE RunAuxiliary
  BY <1>4, <1>c DEF RunAuxiliary
<1>5. CASE JournalTrial
  BY <1>5, <1>c DEF JournalTrial
<1>6. CASE RunBatch
  BY <1>6, <1>c DEF RunBatch, memory
<1>7. CASE FailBatch
  BY <1>7, <1>c DEF FailBatch, memory
<1>8. CASE Promote
  BY <1>8, <1>c DEF Promote
<1>9. CASE SearchProbe
  BY <1>9, <1>c DEF SearchProbe, memory
<1>10. CASE EndSearch
  BY <1>10, <1>c DEF EndSearch, memory
<1>11. CASE RecallContext
  BY <1>11, <1>c DEF RecallContext, Validate
<1>12. CASE ProbeContext
  BY <1>12, <1>c DEF ProbeContext, Validate
<1>13. CASE GiveUpContext
  BY <1>13, <1>c DEF GiveUpContext, memory
<1>14. CASE RecallReseat
  BY <1>14, <1>c DEF RecallReseat
<1>15. CASE StartReseat
  BY <1>15, <1>c DEF StartReseat
<1>16. CASE JournalReseat
  BY <1>16, <1>c DEF JournalReseat
<1>17. CASE Escape
  BY <1>17, <1>c DEF Escape, memory
<1>18. CASE Decide
  BY <1>18, <1>c DEF Decide
<1>19. CASE RunnerUp
  BY <1>19, <1>c DEF RunnerUp
<1>20. CASE StartConfirmation
  BY <1>20, <1>c DEF StartConfirmation
<1>21. CASE JournalConfirmation
  BY <1>21, <1>c DEF JournalConfirmation
<1>22. CASE RefuseConfirmation
  BY <1>22, <1>c DEF RefuseConfirmation
<1>23. CASE CloseConfirmation
  <2>1. attempt.cfg \in Configs
    BY <1>23 DEF CloseConfirmation, FlightInv, Attempting
  <2>2. ContextConfirmed(attempt.cfg) \in BOOLEAN
    BY DEF ContextConfirmed
  <2>3. UNCHANGED rec \/ rec' = [cfg |-> attempt.cfg, confirmed |-> ContextConfirmed(attempt.cfg)]
    BY <1>23 DEF CloseConfirmation
  <2>4. QED
    BY <1>c, <2>1, <2>2, <2>3 DEF RecOK
<1>24. CASE Fallback
  <2>1. PICK c \in Recommendable : rec' = [cfg |-> c, confirmed |-> FALSE]
    BY <1>24 DEF Fallback
  <2>2. QED
    BY <2>1, ChoiceFacts DEF RecOK
<1>25. CASE NoFeasible
  BY <1>25, <1>c DEF NoFeasible, End, memory
<1>26. CASE ValidateWithCli
  BY <1>26, <1>c DEF ValidateWithCli, memory
<1>27. CASE WriteOutputs
  BY <1>27, <1>c DEF WriteOutputs, memory
<1>28. CASE AppendRecord
  BY <1>28, <1>c DEF AppendRecord, memory
<1>29. CASE EndSession
  BY <1>29, <1>c DEF EndSession, End, memory
<1>30. CASE Interrupt
  BY <1>30, <1>c DEF Interrupt, memory
<1>31. CASE ClockExpires
  BY <1>31, <1>c DEF ClockExpires, memory
<1>32. CASE Abort
  BY <1>32, <1>c DEF Abort, End, Cut, End, memory
<1>33. CASE IoFailure
  BY <1>33, <1>c DEF IoFailure, End, Cut, End, memory
<1>34. CASE Crash
  BY <1>34, <1>c DEF Crash, Cut, End, memory
<1>35. CASE Resume
  BY <1>35 DEF Resume, FreshMemory, NoRec, RecOK
<1>36. CASE Finished
  BY <1>36, <1>c DEF Finished, vars, memory
<1>37. CASE UNCHANGED vars
  BY <1>37, <1>c DEF vars, memory
<1>38. QED
  BY <1>1, <1>2, <1>3, <1>4, <1>5, <1>6, <1>7, <1>8, <1>9, <1>10, <1>11, <1>12, <1>13, <1>14,
     <1>15, <1>16, <1>17, <1>18, <1>19, <1>20, <1>21, <1>22, <1>23, <1>24, <1>25, <1>26, <1>27,
     <1>28, <1>29, <1>30, <1>31, <1>32, <1>33, <1>34, <1>35, <1>36, <1>37 DEF Next, Step

(* Where the shared parts of several actions go.                           *)
LEMMA PcTyped ==
    ASSUME NEW c \in Configs, NEW second \in BOOLEAN
    PROVE  /\ AfterBaseline \in Live /\ AfterWinner \in Live
           /\ AfterFailure(second) \in Live
           /\ BeginAttempt(c, second) => pc' \in Live /\ exit' = exit
           /\ Refuse(second) => pc' \in Live /\ exit' = exit
           /\ \A passed \in BOOLEAN : Validate(c, passed) =>
                (pc' \in Live \/ pc' = pc) /\ exit' = exit
BY DEF AfterBaseline, AfterWinner, AfterFailure, BeginAttempt, Refuse, Validate, Goto, Live,
       control

(* Phases and exit codes are those of the code.                            *)
LEMMA StateTyped ==
    TypeOK /\ [Next]_vars => StateOK'
<1> SUFFICES ASSUME TypeOK, [Next]_vars
             PROVE  StateOK'
  OBVIOUS
<1>a. options \in OptionSets /\ Partial(known, Measurement) /\ Partial(contexts, BOOLEAN)
      /\ NumbersOK
  BY TypeFacts
<1>b. SearchOK /\ IncumbentOK /\ ContextOK /\ AttemptOK /\ RecOK /\ StateOK /\ DiskOK
  BY MemoryFacts
<1>1. CASE BaselineRun
  BY <1>1, <1>b DEF BaselineRun, End, Goto, Live, AfterBaseline, StateOK, control
<1>2. CASE BaselineStarved
  BY <1>2, <1>b DEF BaselineStarved, End, StateOK, journal
<1>3. CASE StartTrial
  BY <1>3, <1>b DEF StartTrial, Goto, Live, StateOK, journal
<1>4. CASE RunAuxiliary
  BY <1>4, <1>b DEF RunAuxiliary, StateOK, control
<1>5. CASE JournalTrial
  BY <1>5, <1>b DEF JournalTrial, Goto, Live, StateOK
<1>6. CASE RunBatch
  BY <1>6, <1>b DEF RunBatch, StateOK, control
<1>7. CASE FailBatch
  BY <1>7, <1>b DEF FailBatch, StateOK, journal, control
<1>8. CASE Promote
  BY <1>8, <1>b DEF Promote, StateOK, journal, control
<1>9. CASE SearchProbe
  BY <1>9, <1>b DEF SearchProbe, StateOK, control
<1>10. CASE EndSearch
  BY <1>10, <1>b DEF EndSearch, Goto, Live, StateOK, journal
<1>11. CASE RecallContext
  <2>1. PICK c \in Candidates \cap DOMAIN contexts : Validate(c, contexts[c])
    BY <1>11 DEF RecallContext
  <2>2. c \in Configs /\ contexts[c] \in BOOLEAN
    BY <1>a, <2>1, ChoiceFacts DEF Partial
  <2>3. QED
    BY <1>11, <1>b, <2>1, <2>2, PcTyped DEF RecallContext, StateOK, journal
<1>12. CASE ProbeContext
  <2>1. PICK c \in Candidates, passed \in BOOLEAN : Validate(c, passed)
    BY <1>12 DEF ProbeContext
  <2>2. QED
    BY <1>12, <1>b, <2>1, ChoiceFacts, PcTyped DEF ProbeContext, StateOK
<1>13. CASE GiveUpContext
  BY <1>13, <1>b DEF GiveUpContext, Goto, Live, StateOK, journal
<1>14. CASE RecallReseat
  BY <1>14, <1>b DEF RecallReseat, Goto, Live, StateOK, journal
<1>15. CASE StartReseat
  BY <1>15, <1>b DEF StartReseat, Goto, Live, StateOK, journal
<1>16. CASE JournalReseat
  BY <1>16, <1>b DEF JournalReseat, Goto, Live, StateOK
<1>17. CASE Escape
  BY <1>17, <1>b DEF Escape, StateOK, journal
<1>18. CASE Decide
  <2>1. incumbent.cfg \in Configs
    BY <1>b DEF IncumbentOK
  <2>2. Goto("fallback") \/ BeginAttempt(incumbent.cfg, FALSE)
    BY <1>18 DEF Decide
  <2>3. pc' \in Live /\ exit' = exit
    BY <2>1, <2>2, PcTyped DEF Goto, Live
  <2>4. QED
    BY <1>18, <1>b, <2>3 DEF Decide, StateOK, journal
<1>19. CASE RunnerUp
  <2>1. Goto("fallback") \/ \E c \in Best(Eligible \ {incumbent.cfg}) : BeginAttempt(c, TRUE)
    BY <1>19 DEF RunnerUp
  <2>2. Best(Eligible \ {incumbent.cfg}) \subseteq Configs
    BY ChoiceFacts
  <2>3. pc' \in Live /\ exit' = exit
    BY <2>1, <2>2, PcTyped DEF Goto, Live
  <2>4. QED
    BY <1>19, <1>b, <2>3 DEF RunnerUp, StateOK, journal
<1>20. CASE StartConfirmation
  BY <1>20, <1>b DEF StartConfirmation, Goto, Live, StateOK, journal
<1>21. CASE JournalConfirmation
  <2>1. AfterFailure(attempt.second) \in Live
    BY DEF AfterFailure, Live
  <2>2. AfterWinner \in Live /\ "confirm" \in Live
    BY DEF AfterWinner, Live
  <2>3. pc' \in Live /\ exit' = exit
    BY <1>21, <2>1, <2>2 DEF JournalConfirmation, Goto
  <2>4. QED
    BY <1>21, <1>b, <2>3 DEF JournalConfirmation, StateOK
<1>22. CASE RefuseConfirmation
  <2>1. AfterFailure(attempt.second) \in Live
    BY DEF AfterFailure, Live
  <2>2. AfterWinner \in Live /\ "confirm" \in Live
    BY DEF AfterWinner, Live
  <2>3. pc' \in Live /\ exit' = exit
    BY <1>22, <2>1, <2>2 DEF RefuseConfirmation, Refuse, Goto
  <2>4. QED
    BY <1>22, <1>b, <2>3 DEF RefuseConfirmation, StateOK, journal
<1>23. CASE CloseConfirmation
  <2>1. AfterFailure(attempt.second) \in Live
    BY DEF AfterFailure, Live
  <2>2. AfterWinner \in Live /\ "confirm" \in Live
    BY DEF AfterWinner, Live
  <2>3. pc' \in Live /\ exit' = exit
    BY <1>23, <2>1, <2>2 DEF CloseConfirmation, Goto
  <2>4. QED
    BY <1>23, <1>b, <2>3 DEF CloseConfirmation, StateOK, journal
<1>24. CASE Fallback
  BY <1>24, <1>b DEF Fallback, Goto, Live, AfterWinner, StateOK, journal
<1>25. CASE NoFeasible
  BY <1>25, <1>b DEF NoFeasible, End, StateOK, journal
<1>26. CASE ValidateWithCli
  BY <1>26, <1>b DEF ValidateWithCli, Goto, Live, StateOK
<1>27. CASE WriteOutputs
  BY <1>27, <1>b DEF WriteOutputs, Goto, Live, StateOK, journal
<1>28. CASE AppendRecord
  BY <1>28, <1>b DEF AppendRecord, Goto, Live, StateOK, journal
<1>29. CASE EndSession
  BY <1>29, <1>b DEF EndSession, End, StateOK, journal
<1>30. CASE Interrupt
  BY <1>30, <1>b DEF Interrupt, StateOK, journal, control
<1>31. CASE ClockExpires
  BY <1>31, <1>b DEF ClockExpires, StateOK, journal, control
<1>32. CASE Abort
  BY <1>32, <1>a, CutKeeps, <1>b DEF Abort, NumbersOK, End, StateOK
<1>33. CASE IoFailure
  BY <1>33, <1>a, CutKeeps, <1>b DEF IoFailure, NumbersOK, End, StateOK
<1>34. CASE Crash
  BY <1>34, <1>a, CutKeeps, <1>b DEF Crash, NumbersOK, End, StateOK
<1>35. CASE Resume
  BY <1>35, <1>b DEF Resume, FreshMemory, Live, AfterBaseline, StateOK, journal
<1>36. CASE Finished
  BY <1>36, <1>b DEF Finished, vars, StateOK, journal, control
<1>37. CASE UNCHANGED vars
  BY <1>37, <1>b DEF vars, StateOK, journal, control
<1>38. QED
  BY <1>1, <1>2, <1>3, <1>4, <1>5, <1>6, <1>7, <1>8, <1>9, <1>10, <1>11, <1>12, <1>13, <1>14,
     <1>15, <1>16, <1>17, <1>18, <1>19, <1>20, <1>21, <1>22, <1>23, <1>24, <1>25, <1>26, <1>27,
     <1>28, <1>29, <1>30, <1>31, <1>32, <1>33, <1>34, <1>35, <1>36, <1>37 DEF Next, Step

(* Only configurations are written and registered.                         *)
LEMMA DiskTyped ==
    TypeOK /\ FlightInv /\ [Next]_vars => DiskOK'
<1> SUFFICES ASSUME TypeOK, FlightInv, [Next]_vars
             PROVE  DiskOK'
  OBVIOUS
<1>a. options \in OptionSets /\ Partial(known, Measurement) /\ Partial(contexts, BOOLEAN)
      /\ NumbersOK
  BY TypeFacts
<1>b. SearchOK /\ IncumbentOK /\ ContextOK /\ AttemptOK /\ RecOK /\ StateOK /\ DiskOK
  BY MemoryFacts
<1>c. UNCHANGED disk => DiskOK'
  BY <1>b DEF disk, DiskOK
<1>1. CASE BaselineRun
  BY <1>1, <1>c DEF BaselineRun, End
<1>2. CASE BaselineStarved
  BY <1>2, <1>c DEF BaselineStarved, End
<1>3. CASE StartTrial
  BY <1>3, <1>c DEF StartTrial
<1>4. CASE RunAuxiliary
  BY <1>4, <1>c DEF RunAuxiliary
<1>5. CASE JournalTrial
  BY <1>5, <1>c DEF JournalTrial
<1>6. CASE RunBatch
  BY <1>6, <1>c DEF RunBatch
<1>7. CASE FailBatch
  BY <1>7, <1>c DEF FailBatch
<1>8. CASE Promote
  BY <1>8, <1>c DEF Promote
<1>9. CASE SearchProbe
  BY <1>9, <1>c DEF SearchProbe
<1>10. CASE EndSearch
  BY <1>10, <1>c DEF EndSearch
<1>11. CASE RecallContext
  BY <1>11, <1>c DEF RecallContext, Validate
<1>12. CASE ProbeContext
  BY <1>12, <1>c DEF ProbeContext, Validate
<1>13. CASE GiveUpContext
  BY <1>13, <1>c DEF GiveUpContext
<1>14. CASE RecallReseat
  BY <1>14, <1>c DEF RecallReseat
<1>15. CASE StartReseat
  BY <1>15, <1>c DEF StartReseat
<1>16. CASE JournalReseat
  BY <1>16, <1>c DEF JournalReseat
<1>17. CASE Escape
  BY <1>17, <1>c DEF Escape
<1>18. CASE Decide
  BY <1>18, <1>c DEF Decide
<1>19. CASE RunnerUp
  BY <1>19, <1>c DEF RunnerUp
<1>20. CASE StartConfirmation
  BY <1>20, <1>c DEF StartConfirmation
<1>21. CASE JournalConfirmation
  BY <1>21, <1>c DEF JournalConfirmation
<1>22. CASE RefuseConfirmation
  BY <1>22, <1>c DEF RefuseConfirmation
<1>23. CASE CloseConfirmation
  BY <1>23, <1>c DEF CloseConfirmation
<1>24. CASE Fallback
  BY <1>24, <1>c DEF Fallback
<1>25. CASE NoFeasible
  BY <1>25, <1>c, <1>b DEF NoFeasible, End, DiskOK
<1>26. CASE ValidateWithCli
  BY <1>26, <1>c DEF ValidateWithCli
<1>27. CASE WriteOutputs
  <2>1. rec.cfg \in Configs
    BY <1>27 DEF WriteOutputs, FlightInv, Recommending, Winning
  <2>2. rec \in [cfg : Configs, confirmed : BOOLEAN]
    BY <1>b, <2>1 DEF RecOK
  <2>3. QED
    BY <1>27, <1>b, <2>2 DEF WriteOutputs, DiskOK
<1>28. CASE AppendRecord
  BY <1>28, <1>b DEF AppendRecord, FlightInv, Recommending, Winning, DiskOK
<1>29. CASE EndSession
  BY <1>29, <1>c DEF EndSession, End
<1>30. CASE Interrupt
  BY <1>30, <1>c DEF Interrupt
<1>31. CASE ClockExpires
  BY <1>31, <1>c DEF ClockExpires
<1>32. CASE Abort
  BY <1>32, <1>c DEF Abort, End, Cut, End
<1>33. CASE IoFailure
  BY <1>33, <1>c DEF IoFailure, End, Cut, End
<1>34. CASE Crash
  BY <1>34, <1>c DEF Crash, Cut, End
<1>35. CASE Resume
  BY <1>35, <1>c DEF Resume, FreshMemory
<1>36. CASE Finished
  BY <1>36, <1>c DEF Finished, vars
<1>37. CASE UNCHANGED vars
  BY <1>37, <1>c DEF vars
<1>38. QED
  BY <1>1, <1>2, <1>3, <1>4, <1>5, <1>6, <1>7, <1>8, <1>9, <1>10, <1>11, <1>12, <1>13, <1>14,
     <1>15, <1>16, <1>17, <1>18, <1>19, <1>20, <1>21, <1>22, <1>23, <1>24, <1>25, <1>26, <1>27,
     <1>28, <1>29, <1>30, <1>31, <1>32, <1>33, <1>34, <1>35, <1>36, <1>37 DEF Next, Step

(* Every variable keeps its type.                                          *)
LEMMA TypeInductive ==
    TypeOK /\ FlightInv /\ [Next]_vars => TypeOK'
<1> SUFFICES ASSUME TypeOK, FlightInv, [Next]_vars
             PROVE  TypeOK'
  OBVIOUS
<1>1. options' = options /\ options \in OptionSets
  BY OptionsStay DEF TypeOK
<1>2. Partial(known', Measurement) /\ Partial(contexts', BOOLEAN) /\ ConfirmsOK' /\ NumbersOK'
  BY KnownTyped, ContextsTyped, ConfirmsTyped, NumbersInductive
<1>3. SearchOK' /\ IncumbentOK' /\ ContextOK' /\ AttemptOK' /\ RecOK' /\ StateOK' /\ DiskOK'
  BY SearchTyped, IncumbentTyped, ContextTyped, AttemptTyped, RecTyped, StateTyped, DiskTyped
<1>4. SignalsOK'
  BY SignalsInductive DEF SignalsOK, TypeOK
<1>5. build' \in Builds \cup {None}
  BY <1>1, BuildSteps, OptionFacts DEF TypeOK
<1>6. QED
  BY <1>1, <1>2, <1>3, <1>4, <1>5 DEF TypeOK, Partial, ConfirmsOK, NumbersOK, SearchOK, IncumbentOK,
         ContextOK, AttemptOK, RecOK, StateOK, DiskOK, SignalsOK

----------------------------------------------------------------------------
(* What is under way.                                                      *)

(* Nothing is in flight outside three phases.                              *)
LEMMA Grounded ==
    ASSUME pc' \notin {"trial", "reseating", "confirming"}
    PROVE  UnderWay'
BY DEF UnderWay, Flying

(* What is in flight is a configuration and, but for a confirmation, one   *)
(* the journal has no score for.                                           *)
LEMMA UnderWayInductive ==
    TypeOK /\ FlightInv /\ [Next]_vars => UnderWay'
<1> SUFFICES ASSUME TypeOK, FlightInv, [Next]_vars
             PROVE  UnderWay'
  OBVIOUS
<1>a. UnderWay
  BY DEF FlightInv
<1>b. ContextOK
  BY MemoryFacts
<1>1. CASE BaselineRun
  BY <1>1, Grounded DEF BaselineRun, End, Goto, control, AfterBaseline
<1>2. CASE BaselineStarved
  BY <1>2, Grounded DEF BaselineStarved, End
<1>3. CASE StartTrial
  <2>1. PICK c \in Configs \ DOMAIN known : flight' = [cfg |-> c, aux |-> 0]
    BY <1>3 DEF StartTrial
  <2>2. pc' = "trial" /\ known' = known
    BY <1>3 DEF StartTrial, Goto, journal
  <2>3. QED
    BY <2>1, <2>2 DEF UnderWay
<1>4. CASE RunAuxiliary
  <2>1. flight \in [cfg : Configs, aux : 0..3]
    BY <1>4, <1>a DEF RunAuxiliary, UnderWay, Flying
  <2>2. flight.aux + 1 \in 0..3
    <3>1. flight.aux \in 0..3 /\ flight.aux < MaxAux
      BY <1>4, <2>1 DEF RunAuxiliary
    <3>2. flight.aux < 3
      BY <3>1 DEF MaxAux
    <3>3. QED
      BY <3>1, <3>2
  <2>3. flight' \in [cfg : Configs, aux : 0..3] /\ flight'.cfg = flight.cfg
    BY <1>4, <2>1, <2>2 DEF RunAuxiliary
  <2>4. pc' = pc /\ known' = known /\ validated' = validated
    BY <1>4 DEF RunAuxiliary, control
  <2>5. QED
    BY <1>a, <2>3, <2>4 DEF UnderWay
<1>5. CASE JournalTrial
  BY <1>5, Grounded DEF JournalTrial, Goto
<1>6. CASE RunBatch
  BY <1>6, Grounded DEF RunBatch, control
<1>7. CASE FailBatch
  BY <1>7, Grounded DEF FailBatch, control
<1>8. CASE Promote
  BY <1>8, Grounded DEF Promote, control
<1>9. CASE SearchProbe
  BY <1>9, Grounded DEF SearchProbe, control
<1>10. CASE EndSearch
  BY <1>10, Grounded DEF EndSearch, Goto
<1>11. CASE RecallContext
  BY <1>11, Grounded DEF RecallContext, Validate, Goto, control, Validate
<1>12. CASE ProbeContext
  BY <1>12, Grounded DEF ProbeContext, Validate, Goto, control, Validate
<1>13. CASE GiveUpContext
  BY <1>13, Grounded DEF GiveUpContext, Goto
<1>14. CASE RecallReseat
  BY <1>14, Grounded DEF RecallReseat, Goto
<1>15. CASE StartReseat
  <2>1. PICK c \in validated \ DOMAIN known : flight' = [cfg |-> c, aux |-> 0]
    BY <1>15 DEF StartReseat
  <2>2. pc' = "reseating" /\ known' = known /\ validated' = validated
    BY <1>15 DEF StartReseat, Goto, journal
  <2>3. c \in Configs
    BY <1>b, <2>1 DEF ContextOK
  <2>4. QED
    BY <2>1, <2>2, <2>3 DEF UnderWay
<1>16. CASE JournalReseat
  BY <1>16, Grounded DEF JournalReseat, Goto
<1>17. CASE Escape
  BY <1>17, Grounded DEF Escape
<1>18. CASE Decide
  BY <1>18, Grounded DEF Decide, BeginAttempt, Refuse, Goto, AfterFailure
<1>19. CASE RunnerUp
  BY <1>19, Grounded DEF RunnerUp, BeginAttempt, Refuse, Goto, AfterFailure
<1>20. CASE StartConfirmation
  <2>1. attempt.cfg \in Configs /\ flight' = [cfg |-> attempt.cfg, aux |-> 0]
    BY <1>20 DEF StartConfirmation, FlightInv, Attempting
  <2>2. pc' = "confirming"
    BY <1>20 DEF StartConfirmation, Goto
  <2>3. QED
    BY <2>1, <2>2 DEF UnderWay
<1>21. CASE JournalConfirmation
  BY <1>21, Grounded DEF JournalConfirmation, Goto, AfterFailure
<1>22. CASE RefuseConfirmation
  BY <1>22, Grounded DEF RefuseConfirmation, Refuse, Goto, AfterFailure
<1>23. CASE CloseConfirmation
  BY <1>23, Grounded DEF CloseConfirmation, Goto, AfterFailure, AfterWinner
<1>24. CASE Fallback
  BY <1>24, Grounded DEF Fallback, Goto, AfterWinner
<1>25. CASE NoFeasible
  BY <1>25, Grounded DEF NoFeasible, End
<1>26. CASE ValidateWithCli
  BY <1>26, Grounded DEF ValidateWithCli, Goto
<1>27. CASE WriteOutputs
  BY <1>27, Grounded DEF WriteOutputs, Goto
<1>28. CASE AppendRecord
  BY <1>28, Grounded DEF AppendRecord, Goto
<1>29. CASE EndSession
  BY <1>29, Grounded DEF EndSession, End
<1>30. CASE Interrupt
  BY <1>30, <1>a DEF Interrupt, UnderWay, control, memory, journal
<1>31. CASE ClockExpires
  BY <1>31, <1>a DEF ClockExpires, UnderWay, control, memory, journal
<1>32. CASE Abort
  BY <1>32, Grounded DEF Abort, End
<1>33. CASE IoFailure
  BY <1>33, Grounded DEF IoFailure, End
<1>34. CASE Crash
  BY <1>34, Grounded DEF Crash
<1>35. CASE Resume
  BY <1>35, Grounded DEF Resume, FreshMemory, AfterBaseline
<1>36. CASE Finished
  BY <1>36, <1>a DEF Finished, vars, UnderWay, control, memory, journal
<1>37. CASE UNCHANGED vars
  BY <1>37, <1>a DEF vars, UnderWay, control, memory, journal
<1>38. QED
  BY <1>1, <1>2, <1>3, <1>4, <1>5, <1>6, <1>7, <1>8, <1>9, <1>10, <1>11, <1>12, <1>13, <1>14,
     <1>15, <1>16, <1>17, <1>18, <1>19, <1>20, <1>21, <1>22, <1>23, <1>24, <1>25, <1>26, <1>27,
     <1>28, <1>29, <1>30, <1>31, <1>32, <1>33, <1>34, <1>35, <1>36, <1>37 DEF Next, Step

(* No confirmation is under way outside two phases.                        *)
LEMMA NotAttempting ==
    ASSUME pc' \notin {"confirm", "confirming"}
    PROVE  Attempting'
BY DEF Attempting

(* A confirmation run that is under way is one that was missing.           *)
LEMMA AttemptingInductive ==
    TypeOK /\ FlightInv /\ [Next]_vars => Attempting'
<1> SUFFICES ASSUME TypeOK, FlightInv, [Next]_vars
             PROVE  Attempting'
  OBVIOUS
<1>a. Attempting
  BY DEF FlightInv
<1>b. IncumbentOK
  BY MemoryFacts
<1>c. AttemptOK
  BY MemoryFacts
<1>1. CASE BaselineRun
  BY <1>1, NotAttempting DEF BaselineRun, End, Goto, control, AfterBaseline
<1>2. CASE BaselineStarved
  BY <1>2, NotAttempting DEF BaselineStarved, End
<1>3. CASE StartTrial
  BY <1>3, NotAttempting DEF StartTrial, Goto
<1>4. CASE RunAuxiliary
  BY <1>4, <1>a DEF RunAuxiliary, Attempting, Missing, control
<1>5. CASE JournalTrial
  BY <1>5, NotAttempting DEF JournalTrial, Goto
<1>6. CASE RunBatch
  BY <1>6, NotAttempting DEF RunBatch, control
<1>7. CASE FailBatch
  BY <1>7, NotAttempting DEF FailBatch, control
<1>8. CASE Promote
  BY <1>8, NotAttempting DEF Promote, control
<1>9. CASE SearchProbe
  BY <1>9, NotAttempting DEF SearchProbe, control
<1>10. CASE EndSearch
  BY <1>10, NotAttempting DEF EndSearch, Goto
<1>11. CASE RecallContext
  BY <1>11, NotAttempting DEF RecallContext, Validate, Goto, control, Validate
<1>12. CASE ProbeContext
  BY <1>12, NotAttempting DEF ProbeContext, Validate, Goto, control, Validate
<1>13. CASE GiveUpContext
  BY <1>13, NotAttempting DEF GiveUpContext, Goto
<1>14. CASE RecallReseat
  BY <1>14, NotAttempting DEF RecallReseat, Goto
<1>15. CASE StartReseat
  BY <1>15, NotAttempting DEF StartReseat, Goto
<1>16. CASE JournalReseat
  BY <1>16, NotAttempting DEF JournalReseat, Goto
<1>17. CASE Escape
  BY <1>17, NotAttempting DEF Escape
<1>18. CASE Decide
  <2>1. incumbent.cfg \in Configs
    BY <1>b DEF IncumbentOK
  <2>2. \/ pc' \notin {"confirm", "confirming"}
        \/ pc' = "confirm" /\ attempt'.cfg = incumbent.cfg
    BY <1>18 DEF Decide, BeginAttempt, Refuse, Goto, AfterFailure
  <2>3. QED
    BY <2>1, <2>2, NotAttempting DEF Attempting
<1>19. CASE RunnerUp
  <2>1. Best(Eligible \ {incumbent.cfg}) \subseteq Configs
    BY ChoiceFacts
  <2>2. \/ pc' \notin {"confirm", "confirming"}
        \/ /\ pc' = "confirm"
           /\ \E c \in Best(Eligible \ {incumbent.cfg}) : attempt'.cfg = c
    BY <1>19 DEF RunnerUp, BeginAttempt, Refuse, Goto, AfterFailure
  <2>3. QED
    BY <2>1, <2>2, NotAttempting DEF Attempting
<1>20. CASE StartConfirmation
  BY <1>20, <1>a DEF StartConfirmation, Attempting, Missing, journal
<1>21. CASE JournalConfirmation
  <2>1. attempt.cfg \in Configs /\ attempt'.cfg = attempt.cfg
    <3>1. PICK score \in Scores \cup {None}, k \in 1..options.runs :
                 attempt' = [attempt EXCEPT !.runs[k] = score]
      BY <1>21, RunJournaled
    <3>2. attempt'.cfg = attempt.cfg
      BY <1>c, <3>1 DEF AttemptOK
    <3>3. QED
      BY <1>21, <1>a, <3>2 DEF JournalConfirmation, Attempting
  <2>2. pc' # "confirming"
    BY <1>21 DEF JournalConfirmation, Goto, AfterFailure
  <2>3. QED
    BY <2>1, <2>2 DEF Attempting
<1>22. CASE RefuseConfirmation
  <2>1. attempt.cfg \in Configs /\ attempt' = attempt
    BY <1>22, <1>a DEF RefuseConfirmation, Refuse, Attempting
  <2>2. pc' # "confirming"
    BY <1>22 DEF RefuseConfirmation, Refuse, Goto, AfterFailure
  <2>3. QED
    BY <2>1, <2>2 DEF Attempting
<1>23. CASE CloseConfirmation
  <2>1. attempt.cfg \in Configs /\ attempt' = attempt
    BY <1>23, <1>a DEF CloseConfirmation, Attempting
  <2>2. pc' # "confirming"
    BY <1>23 DEF CloseConfirmation, Goto, AfterFailure, AfterWinner
  <2>3. QED
    BY <2>1, <2>2 DEF Attempting
<1>24. CASE Fallback
  BY <1>24, NotAttempting DEF Fallback, Goto, AfterWinner
<1>25. CASE NoFeasible
  BY <1>25, NotAttempting DEF NoFeasible, End
<1>26. CASE ValidateWithCli
  BY <1>26, NotAttempting DEF ValidateWithCli, Goto
<1>27. CASE WriteOutputs
  BY <1>27, NotAttempting DEF WriteOutputs, Goto
<1>28. CASE AppendRecord
  BY <1>28, NotAttempting DEF AppendRecord, Goto
<1>29. CASE EndSession
  BY <1>29, NotAttempting DEF EndSession, End
<1>30. CASE Interrupt
  BY <1>30, <1>a DEF Interrupt, Attempting, Missing, control, memory, journal
<1>31. CASE ClockExpires
  BY <1>31, <1>a DEF ClockExpires, Attempting, Missing, control, memory, journal
<1>32. CASE Abort
  BY <1>32, NotAttempting DEF Abort, End
<1>33. CASE IoFailure
  BY <1>33, NotAttempting DEF IoFailure, End
<1>34. CASE Crash
  BY <1>34, NotAttempting DEF Crash
<1>35. CASE Resume
  BY <1>35, NotAttempting DEF Resume, FreshMemory, AfterBaseline
<1>36. CASE Finished
  BY <1>36, <1>a DEF Finished, vars, Attempting, Missing, control, memory, journal
<1>37. CASE UNCHANGED vars
  BY <1>37, <1>a DEF vars, Attempting, Missing, control, memory, journal
<1>38. QED
  BY <1>1, <1>2, <1>3, <1>4, <1>5, <1>6, <1>7, <1>8, <1>9, <1>10, <1>11, <1>12, <1>13, <1>14,
     <1>15, <1>16, <1>17, <1>18, <1>19, <1>20, <1>21, <1>22, <1>23, <1>24, <1>25, <1>26, <1>27,
     <1>28, <1>29, <1>30, <1>31, <1>32, <1>33, <1>34, <1>35, <1>36, <1>37 DEF Next, Step

(* There is no recommendation before its phases.                           *)
LEMMA NotRecommending ==
    ASSUME pc' \notin {"cli", "write", "register", "end"}
    PROVE  Recommending'
BY DEF Recommending, Winning

(* From the llama-cli validation on there is a recommendation.             *)
LEMMA RecommendingInductive ==
    TypeOK /\ FlightInv /\ [Next]_vars => Recommending'
<1> SUFFICES ASSUME TypeOK, FlightInv, [Next]_vars
             PROVE  Recommending'
  OBVIOUS
<1>a. Recommending
  BY DEF FlightInv
<1>1. CASE BaselineRun
  BY <1>1, NotRecommending DEF BaselineRun, End, Goto, control, AfterBaseline
<1>2. CASE BaselineStarved
  BY <1>2, NotRecommending DEF BaselineStarved, End
<1>3. CASE StartTrial
  BY <1>3, NotRecommending DEF StartTrial, Goto
<1>4. CASE RunAuxiliary
  BY <1>4, NotRecommending DEF RunAuxiliary, control
<1>5. CASE JournalTrial
  BY <1>5, NotRecommending DEF JournalTrial, Goto
<1>6. CASE RunBatch
  BY <1>6, NotRecommending DEF RunBatch, control
<1>7. CASE FailBatch
  BY <1>7, NotRecommending DEF FailBatch, control
<1>8. CASE Promote
  BY <1>8, NotRecommending DEF Promote, control
<1>9. CASE SearchProbe
  BY <1>9, NotRecommending DEF SearchProbe, control
<1>10. CASE EndSearch
  BY <1>10, NotRecommending DEF EndSearch, Goto
<1>11. CASE RecallContext
  BY <1>11, NotRecommending DEF RecallContext, Validate, Goto, control, Validate
<1>12. CASE ProbeContext
  BY <1>12, NotRecommending DEF ProbeContext, Validate, Goto, control, Validate
<1>13. CASE GiveUpContext
  BY <1>13, NotRecommending DEF GiveUpContext, Goto
<1>14. CASE RecallReseat
  BY <1>14, NotRecommending DEF RecallReseat, Goto
<1>15. CASE StartReseat
  BY <1>15, NotRecommending DEF StartReseat, Goto
<1>16. CASE JournalReseat
  BY <1>16, NotRecommending DEF JournalReseat, Goto
<1>17. CASE Escape
  BY <1>17, NotRecommending DEF Escape
<1>18. CASE Decide
  BY <1>18, NotRecommending DEF Decide, BeginAttempt, Refuse, Goto, AfterFailure
<1>19. CASE RunnerUp
  BY <1>19, NotRecommending DEF RunnerUp, BeginAttempt, Refuse, Goto, AfterFailure
<1>20. CASE StartConfirmation
  BY <1>20, NotRecommending DEF StartConfirmation, Goto
<1>21. CASE JournalConfirmation
  BY <1>21, NotRecommending DEF JournalConfirmation, Goto, AfterFailure
<1>22. CASE RefuseConfirmation
  BY <1>22, NotRecommending DEF RefuseConfirmation, Refuse, Goto, AfterFailure
<1>23. CASE CloseConfirmation
  <2>1. attempt.cfg \in Configs
    BY <1>23 DEF CloseConfirmation, FlightInv, Attempting
  <2>2. CASE Confirmed(attempt.runs)
    BY <1>23, <2>1, <2>2 DEF CloseConfirmation, Recommending
  <2>3. CASE ~Confirmed(attempt.runs)
    BY <1>23, <2>3, NotRecommending DEF CloseConfirmation, Goto, AfterFailure
  <2>4. QED
    BY <2>2, <2>3
<1>24. CASE Fallback
  <2>1. PICK c \in Recommendable : rec' = [cfg |-> c, confirmed |-> FALSE]
    BY <1>24 DEF Fallback
  <2>2. QED
    BY <2>1, ChoiceFacts DEF Recommending
<1>25. CASE NoFeasible
  BY <1>25, NotRecommending DEF NoFeasible, End
<1>26. CASE ValidateWithCli
  BY <1>26, <1>a DEF ValidateWithCli, Recommending, Winning, memory
<1>27. CASE WriteOutputs
  BY <1>27, <1>a DEF WriteOutputs, Recommending, Winning, memory
<1>28. CASE AppendRecord
  BY <1>28, <1>a DEF AppendRecord, Recommending, Winning, memory
<1>29. CASE EndSession
  BY <1>29, NotRecommending DEF EndSession, End
<1>30. CASE Interrupt
  BY <1>30, <1>a DEF Interrupt, Recommending, control, memory
<1>31. CASE ClockExpires
  BY <1>31, <1>a DEF ClockExpires, Recommending, control, memory
<1>32. CASE Abort
  BY <1>32, NotRecommending DEF Abort, End
<1>33. CASE IoFailure
  BY <1>33, NotRecommending DEF IoFailure, End
<1>34. CASE Crash
  BY <1>34, NotRecommending DEF Crash
<1>35. CASE Resume
  BY <1>35, NotRecommending DEF Resume, FreshMemory, AfterBaseline
<1>36. CASE Finished
  BY <1>36, <1>a DEF Finished, vars, Recommending, control, memory
<1>37. CASE UNCHANGED vars
  BY <1>37, <1>a DEF vars, Recommending, control, memory
<1>38. QED
  BY <1>1, <1>2, <1>3, <1>4, <1>5, <1>6, <1>7, <1>8, <1>9, <1>10, <1>11, <1>12, <1>13, <1>14,
     <1>15, <1>16, <1>17, <1>18, <1>19, <1>20, <1>21, <1>22, <1>23, <1>24, <1>25, <1>26, <1>27,
     <1>28, <1>29, <1>30, <1>31, <1>32, <1>33, <1>34, <1>35, <1>36, <1>37 DEF Next, Step

(* There is a baseline when and only when the process is past it.          *)
LEMMA BaselineInductive ==
    TypeOK /\ BaselineInv /\ [Next]_vars => BaselineInv'
<1> SUFFICES ASSUME TypeOK, BaselineInv, [Next]_vars
             PROVE  BaselineInv'
  OBVIOUS
<1>a. options \in OptionSets /\ executed \in Nat
  BY DEF TypeOK
<1>b. BaselineInv
  OBVIOUS
<1>c. None \notin {"defaults", "cpu"}
  BY ConstantsAssumption
<1>1. CASE BaselineRun
  BY <1>1, <1>b, <1>c DEF BaselineRun, End, Goto, AfterBaseline, BaselineInv, disk, Live, control
<1>2. CASE BaselineStarved
  BY <1>2, <1>b DEF BaselineStarved, End, BaselineInv, disk, Live
<1>3. CASE StartTrial
  BY <1>3, <1>b DEF StartTrial, Goto, BaselineInv, journal, Live
<1>4. CASE RunAuxiliary
  BY <1>4, <1>b DEF RunAuxiliary, BaselineInv, Live, control
<1>5. CASE JournalTrial
  BY <1>5, <1>b DEF JournalTrial, Goto, BaselineInv, Live
<1>6. CASE RunBatch
  BY <1>6, <1>b DEF RunBatch, BaselineInv, Live, control
<1>7. CASE FailBatch
  BY <1>7, <1>b DEF FailBatch, BaselineInv, journal, Live, control
<1>8. CASE Promote
  BY <1>8, <1>b DEF Promote, BaselineInv, journal, Live, control
<1>9. CASE SearchProbe
  BY <1>9, <1>b DEF SearchProbe, BaselineInv, Live, control
<1>10. CASE EndSearch
  BY <1>10, <1>b DEF EndSearch, Goto, BaselineInv, journal, Live
<1>11. CASE RecallContext
  BY <1>11, <1>b DEF RecallContext, Validate, Goto, Validate, BaselineInv, journal, Live, control
<1>12. CASE ProbeContext
  BY <1>12, <1>b DEF ProbeContext, Validate, Goto, Validate, BaselineInv, Live, control
<1>13. CASE GiveUpContext
  BY <1>13, <1>b DEF GiveUpContext, Goto, BaselineInv, journal, Live
<1>14. CASE RecallReseat
  BY <1>14, <1>b DEF RecallReseat, Goto, BaselineInv, journal, Live
<1>15. CASE StartReseat
  BY <1>15, <1>b DEF StartReseat, Goto, BaselineInv, journal, Live
<1>16. CASE JournalReseat
  BY <1>16, <1>b DEF JournalReseat, Goto, BaselineInv, Live
<1>17. CASE Escape
  BY <1>17, <1>b DEF Escape, BaselineInv, journal, Live
<1>18. CASE Decide
  BY <1>18, <1>b DEF Decide, BeginAttempt, Refuse, Goto, AfterFailure, BaselineInv, journal, Live
<1>19. CASE RunnerUp
  BY <1>19, <1>b DEF RunnerUp, BeginAttempt, Refuse, Goto, AfterFailure, BaselineInv, journal,
         Live
<1>20. CASE StartConfirmation
  BY <1>20, <1>b DEF StartConfirmation, Goto, BaselineInv, journal, Live
<1>21. CASE JournalConfirmation
  BY <1>21, <1>b DEF JournalConfirmation, Goto, AfterFailure, BaselineInv, Live
<1>22. CASE RefuseConfirmation
  BY <1>22, <1>b DEF RefuseConfirmation, Refuse, Goto, AfterFailure, BaselineInv, journal, Live
<1>23. CASE CloseConfirmation
  BY <1>23, <1>b DEF CloseConfirmation, Goto, AfterFailure, AfterWinner, BaselineInv, journal,
         Live
<1>24. CASE Fallback
  BY <1>24, <1>b DEF Fallback, Goto, AfterWinner, BaselineInv, journal, Live
<1>25. CASE NoFeasible
  BY <1>25, <1>b DEF NoFeasible, End, BaselineInv, journal, Live
<1>26. CASE ValidateWithCli
  BY <1>26, <1>b DEF ValidateWithCli, Goto, BaselineInv, Live
<1>27. CASE WriteOutputs
  <2>1. baseline # None
    BY <1>27, <1>b DEF WriteOutputs, BaselineInv, Live
  <2>2. baseline' = baseline /\ pc' # "baseline"
    BY <1>27 DEF WriteOutputs, Goto, journal
  <2>3. QED
    BY <2>1, <2>2 DEF BaselineInv
<1>28. CASE AppendRecord
  <2>1. baseline # None
    BY <1>28, <1>b DEF AppendRecord, BaselineInv, Live
  <2>2. baseline' = baseline /\ pc' # "baseline"
    BY <1>28 DEF AppendRecord, Goto, journal
  <2>3. QED
    BY <2>1, <2>2 DEF BaselineInv
<1>29. CASE EndSession
  BY <1>29, <1>b DEF EndSession, End, BaselineInv, journal, Live
<1>30. CASE Interrupt
  BY <1>30, <1>b DEF Interrupt, BaselineInv, disk, journal, control
<1>31. CASE ClockExpires
  BY <1>31, <1>b DEF ClockExpires, BaselineInv, disk, journal, control
<1>32. CASE Abort
  <2>1. baseline' = baseline
    BY <1>32, <1>a, CutKeeps DEF Abort
  <2>2. pc' \notin Live
    BY <1>32 DEF Abort, End, Live
  <2>3. UNCHANGED disk
    BY <1>32 DEF Abort, Cut
  <2>4. QED
    BY <1>b, <2>1, <2>2, <2>3 DEF BaselineInv, disk
<1>33. CASE IoFailure
  <2>1. baseline' = baseline
    BY <1>33, <1>a, CutKeeps DEF IoFailure
  <2>2. pc' \notin Live
    BY <1>33 DEF IoFailure, End, Live
  <2>3. UNCHANGED disk
    BY <1>33 DEF IoFailure, Cut
  <2>4. QED
    BY <1>b, <2>1, <2>2, <2>3 DEF BaselineInv, disk
<1>34. CASE Crash
  <2>1. baseline' = baseline
    BY <1>34, <1>a, CutKeeps DEF Crash
  <2>2. pc' \notin Live
    BY <1>34 DEF Crash, End, Live
  <2>3. UNCHANGED disk
    BY <1>34 DEF Crash, Cut
  <2>4. QED
    BY <1>b, <2>1, <2>2, <2>3 DEF BaselineInv, disk
<1>35. CASE Resume
  BY <1>35, <1>b DEF Resume, FreshMemory, AfterBaseline, BaselineInv, disk, journal
<1>36. CASE Finished
  BY <1>36, <1>b DEF Finished, vars, BaselineInv, disk, journal, control
<1>37. CASE UNCHANGED vars
  BY <1>37, <1>b DEF vars, BaselineInv, disk, journal, control
<1>38. QED
  BY <1>1, <1>2, <1>3, <1>4, <1>5, <1>6, <1>7, <1>8, <1>9, <1>10, <1>11, <1>12, <1>13, <1>14,
     <1>15, <1>16, <1>17, <1>18, <1>19, <1>20, <1>21, <1>22, <1>23, <1>24, <1>25, <1>26, <1>27,
     <1>28, <1>29, <1>30, <1>31, <1>32, <1>33, <1>34, <1>35, <1>36, <1>37 DEF Next, Step

----------------------------------------------------------------------------
(* The budget.                                                             *)

(* The quantities of the count are numbers, and a child that may run is    *)
(* within the budget.                                                      *)
LEMMA CountFacts ==
    ASSUME TypeOK
    PROVE  /\ NumbersOK /\ options.budget \in Nat /\ Validations \in Nat /\ Counted \in Nat
           /\ InFlight \in {0, 1}
           /\ SearchLimit \in Int /\ SearchLimit <= options.budget
           /\ CanExecute => executed < options.budget
<1>1. NumbersOK /\ options \in OptionSets
  BY TypeFacts
<1>2. CanExecute => executed < options.budget
  BY <1>1, OptionFacts DEF CanExecute, NumbersOK
<1>3. Validations \in Nat
  BY <1>1 DEF Validations, NumbersOK
<1>4. Counted \in Nat
  BY <1>1 DEF Counted, NumbersOK
<1>5. InFlight \in {0, 1}
  BY DEF InFlight
<1>6. QED
  BY <1>1, <1>2, <1>3, <1>4, <1>5, OptionFacts

(* Naturals are closed under successor, stated for the solver.             *)
LEMMA Successors == 0 \in Nat /\ \A n \in Nat : n + 1 \in Nat
OBVIOUS

(* The quantities of the count are numbers after a step too.               *)
LEMMA CountPrimed ==
    ASSUME TypeOK, TypeOK'
    PROVE  NumbersOK' /\ Validations' \in Nat /\ Counted' \in Nat /\ InFlight' \in {0, 1}
<1>1. NumbersOK'
  BY DEF TypeOK, NumbersOK
<1>2. Validations' \in Nat
  <2>0. resumes' \in Nat
    BY <1>1 DEF NumbersOK
  <2>1. 0 \in Nat /\ resumes' + 1 \in Nat
    BY <2>0, Successors
  <2>2. Validations' \in {0, resumes', resumes' + 1}
    BY Zenon DEF Validations
  <2>3. QED
    BY <2>0, <2>1, <2>2
<1>3. Counted' \in Nat
  BY <1>1 DEF Counted, NumbersOK
<1>4. InFlight' \in {0, 1}
  BY DEF InFlight
<1>5. QED
  BY <1>1, <1>2, <1>3, <1>4

\* How a step moves the phases that the count depends on.
LEMMA Slower ==
    ASSUME NumbersOK, NumbersOK', options' = options,
           \/ resumes' = resumes /\ (pc \notin Early => pc' \notin Early)
           \/ resumes' = resumes + 1
    PROVE  Validations <= Validations'
<1>1. resumes \in Nat /\ resumes' \in Nat /\ options'.cli = options.cli
  BY DEF NumbersOK
<1>2. CASE ~options.cli
  BY <1>1, <1>2 DEF Validations
<1>3. CASE options.cli
  <2>1. Validations = IF pc \in Early THEN resumes ELSE resumes + 1
    BY <1>3 DEF Validations
  <2>2. Validations' = IF pc' \in Early THEN resumes' ELSE resumes' + 1
    BY <1>1, <1>3 DEF Validations
  <2>3. CASE resumes' = resumes /\ (pc \notin Early => pc' \notin Early)
    BY <1>1, <2>1, <2>2, <2>3
  <2>4. CASE resumes' = resumes + 1
    BY <1>1, <2>1, <2>2, <2>4
  <2>5. QED
    BY <2>3, <2>4
<1>4. QED
  BY <1>2, <1>3

(* The allowance for llama-cli never shrinks: a process takes it once, and *)
(* a resume brings the next.                                               *)
LEMMA ValidationsGrow ==
    TypeOK /\ TypeOK' /\ [Next]_vars => Validations <= Validations'
<1> SUFFICES ASSUME TypeOK, TypeOK', [Next]_vars
             PROVE  Validations <= Validations'
  OBVIOUS
<1>a. NumbersOK /\ NumbersOK' /\ options' = options
  BY CountFacts, CountPrimed, OptionsStay
<1>1. CASE BaselineRun
  BY <1>1, <1>a, Slower DEF BaselineRun, End, history, Early, Live, AfterBaseline
<1>2. CASE BaselineStarved
  BY <1>2, <1>a, Slower DEF BaselineStarved, End, history, Early, Live
<1>3. CASE StartTrial
  BY <1>3, <1>a, Slower DEF StartTrial, history, Early, Live
<1>4. CASE RunAuxiliary
  BY <1>4, <1>a, Slower DEF RunAuxiliary, history, Early, Live
<1>5. CASE JournalTrial
  BY <1>5, <1>a, Slower DEF JournalTrial, history, Early, Live
<1>6. CASE RunBatch
  BY <1>6, <1>a, Slower DEF RunBatch, history, Early, Live
<1>7. CASE FailBatch
  BY <1>7, <1>a, Slower DEF FailBatch, history, Early, Live
<1>8. CASE Promote
  BY <1>8, <1>a, Slower DEF Promote, history, Early, Live
<1>9. CASE SearchProbe
  BY <1>9, <1>a, Slower DEF SearchProbe, history, Early, Live
<1>10. CASE EndSearch
  BY <1>10, <1>a, Slower DEF EndSearch, history, Early, Live
<1>11. CASE RecallContext
  BY <1>11, <1>a, Slower DEF RecallContext, Validate, history, Early, Live, Validate
<1>12. CASE ProbeContext
  BY <1>12, <1>a, Slower DEF ProbeContext, Validate, history, Early, Live, Validate
<1>13. CASE GiveUpContext
  BY <1>13, <1>a, Slower DEF GiveUpContext, history, Early, Live
<1>14. CASE RecallReseat
  BY <1>14, <1>a, Slower DEF RecallReseat, history, Early, Live
<1>15. CASE StartReseat
  BY <1>15, <1>a, Slower DEF StartReseat, history, Early, Live
<1>16. CASE JournalReseat
  BY <1>16, <1>a, Slower DEF JournalReseat, history, Early, Live
<1>17. CASE Escape
  BY <1>17, <1>a, Slower DEF Escape, history, Early, Live
<1>18. CASE Decide
  BY <1>18, <1>a, Slower DEF Decide, history, Early, Live
<1>19. CASE RunnerUp
  BY <1>19, <1>a, Slower DEF RunnerUp, history, Early, Live
<1>20. CASE StartConfirmation
  BY <1>20, <1>a, Slower DEF StartConfirmation, history, Early, Live
<1>21. CASE JournalConfirmation
  BY <1>21, <1>a, Slower DEF JournalConfirmation, history, Early, Live
<1>22. CASE RefuseConfirmation
  BY <1>22, <1>a, Slower DEF RefuseConfirmation, history, Early, Live
<1>23. CASE CloseConfirmation
  BY <1>23, <1>a, Slower DEF CloseConfirmation, history, Early, Live
<1>24. CASE Fallback
  BY <1>24, <1>a, Slower DEF Fallback, history, Early, Live
<1>25. CASE NoFeasible
  BY <1>25, <1>a, Slower DEF NoFeasible, End, history, Early, Live
<1>26. CASE ValidateWithCli
  BY <1>26, <1>a, Slower DEF ValidateWithCli, Goto, history, Early
<1>27. CASE WriteOutputs
  BY <1>27, <1>a, Slower DEF WriteOutputs, Goto, history, Early
<1>28. CASE AppendRecord
  BY <1>28, <1>a, Slower DEF AppendRecord, Goto, history, Early
<1>29. CASE EndSession
  BY <1>29, <1>a, Slower DEF EndSession, End, history, Early, Live
<1>30. CASE Interrupt
  BY <1>30, <1>a, Slower DEF Interrupt, control, history
<1>31. CASE ClockExpires
  BY <1>31, <1>a, Slower DEF ClockExpires, control, history
<1>32. CASE Abort
  BY <1>32, <1>a, Slower DEF Abort, Cut, End, Early, Live
<1>33. CASE IoFailure
  BY <1>33, <1>a, Slower DEF IoFailure, Cut, End, Early, Live
<1>34. CASE Crash
  BY <1>34, <1>a, Slower DEF Crash, Cut, End, Early, Live
<1>35. CASE Resume
  BY <1>35, <1>a, Slower DEF Resume
<1>36. CASE Finished
  BY <1>36, <1>a, Slower DEF Finished, vars, control, history
<1>37. CASE UNCHANGED vars
  BY <1>37, <1>a, Slower DEF vars, control, history
<1>38. QED
  BY <1>1, <1>2, <1>3, <1>4, <1>5, <1>6, <1>7, <1>8, <1>9, <1>10, <1>11, <1>12, <1>13, <1>14,
     <1>15, <1>16, <1>17, <1>18, <1>19, <1>20, <1>21, <1>22, <1>23, <1>24, <1>25, <1>26, <1>27,
     <1>28, <1>29, <1>30, <1>31, <1>32, <1>33, <1>34, <1>35, <1>36, <1>37 DEF Next, Step

Tally == pc \in Live => executed = journaled + InFlight

(* A live process has counted what is journaled and what is in flight: the *)
(* records of a batch and a resume from the journal included.              *)
LEMMA TallyInductive ==
    TypeOK /\ CountInv /\ [Next]_vars => Tally'
<1> SUFFICES ASSUME TypeOK, CountInv, [Next]_vars
             PROVE  Tally'
  OBVIOUS
<1>a. NumbersOK
  BY CountFacts
<1>b. options \in OptionSets
  BY DEF TypeOK
<1>c. Tally
  BY DEF CountInv, Tally
<1> USE DEF Tally
<1>1. CASE BaselineRun
  <2>1. pc \in Live /\ pc \notin Flying /\ pc' \notin Flying
    BY <1>1 DEF BaselineRun, End, Goto, Flying, Live, AfterBaseline, control
  <2>2. executed' = executed + 1 /\ journaled' = journaled + 1
    BY <1>1 DEF BaselineRun, RanAndJournaled, Ran
  <2>3. QED
    BY <1>a, <1>c, <2>1, <2>2 DEF InFlight, NumbersOK
<1>2. CASE BaselineStarved
  BY <1>2 DEF BaselineStarved, End, Live
<1>3. CASE StartTrial
  <2>1. pc \in Live /\ pc \notin Flying /\ pc' \in Flying
    BY <1>3 DEF StartTrial, Goto, Flying, Live
  <2>2. executed' = executed + 1 /\ journaled' = journaled
    BY <1>3 DEF StartTrial, Ran, journal
  <2>3. QED
    BY <1>a, <1>c, <2>1, <2>2 DEF InFlight, NumbersOK
<1>4. CASE RunAuxiliary
  <2>1. pc \in Live /\ pc \in Flying /\ pc' \in Flying
    BY <1>4 DEF RunAuxiliary, Flying, Live, control
  <2>2. executed' = executed + 1 /\ journaled' = journaled + 1
    BY <1>4 DEF RunAuxiliary, RanAndJournaled, Ran
  <2>3. QED
    BY <1>a, <1>c, <2>1, <2>2 DEF InFlight
<1>5. CASE JournalTrial
  <2>1. pc \in Live /\ pc \in Flying /\ pc' \notin Flying
    BY <1>5 DEF JournalTrial, Goto, Flying, Live
  <2>2. executed' = executed /\ journaled' = journaled + 1
    BY <1>5 DEF JournalTrial
  <2>3. QED
    BY <1>a, <1>c, <2>1, <2>2 DEF InFlight
<1>6. CASE RunBatch
  <2>1. PICK S \in Batches : /\ journaled' = journaled + Cardinality(S)
                            /\ executed' = executed + Cardinality(S)
    BY <1>6 DEF RunBatch
  <2>2. Cardinality(S) \in Nat
    BY <1>a, <1>b, BatchFacts DEF NumbersOK
  <2>3. pc' = pc /\ pc \in Live
    BY <1>6 DEF RunBatch, control, Live
  <2>4. InFlight' = 0 /\ InFlight = 0
    BY <1>6, <2>3 DEF RunBatch, InFlight, Flying
  <2>5. executed = journaled
    BY <1>a, <1>c, <2>3, <2>4 DEF NumbersOK
  <2>6. QED
    BY <1>a, <2>1, <2>2, <2>4, <2>5
<1>7. CASE FailBatch
  <2>1. pc \in Live /\ pc \notin Flying /\ pc' \notin Flying
    BY <1>7 DEF FailBatch, Flying, Live, control
  <2>2. executed' = executed /\ journaled' = journaled
    BY <1>7 DEF FailBatch, journal
  <2>3. QED
    BY <1>a, <1>c, <2>1, <2>2 DEF InFlight
<1>8. CASE Promote
  <2>1. pc \in Live /\ pc \notin Flying /\ pc' \notin Flying
    BY <1>8 DEF Promote, Flying, Live, control
  <2>2. executed' = executed /\ journaled' = journaled
    BY <1>8 DEF Promote, journal
  <2>3. QED
    BY <1>a, <1>c, <2>1, <2>2 DEF InFlight
<1>9. CASE SearchProbe
  <2>1. pc \in Live /\ pc \notin Flying /\ pc' \notin Flying
    BY <1>9 DEF SearchProbe, Flying, Live, control
  <2>2. executed' = executed + 1 /\ journaled' = journaled + 1
    BY <1>9 DEF SearchProbe, RanAndJournaled, Ran
  <2>3. QED
    BY <1>a, <1>c, <2>1, <2>2 DEF InFlight, NumbersOK
<1>10. CASE EndSearch
  <2>1. pc \in Live /\ pc \notin Flying /\ pc' \notin Flying
    BY <1>10 DEF EndSearch, Goto, Flying, Live
  <2>2. executed' = executed /\ journaled' = journaled
    BY <1>10 DEF EndSearch, journal
  <2>3. QED
    BY <1>a, <1>c, <2>1, <2>2 DEF InFlight
<1>11. CASE RecallContext
  <2>1. pc \in Live /\ pc \notin Flying /\ pc' \notin Flying
    BY <1>11 DEF RecallContext, Validate, Goto, Flying, Live, Validate, control
  <2>2. executed' = executed /\ journaled' = journaled
    BY <1>11 DEF RecallContext, journal
  <2>3. QED
    BY <1>a, <1>c, <2>1, <2>2 DEF InFlight
<1>12. CASE ProbeContext
  <2>1. pc \in Live /\ pc \notin Flying /\ pc' \notin Flying
    BY <1>12 DEF ProbeContext, Validate, Goto, Flying, Live, Validate, control
  <2>2. executed' = executed + 1 /\ journaled' = journaled + 1
    BY <1>12 DEF ProbeContext, RanAndJournaled, Ran
  <2>3. QED
    BY <1>a, <1>c, <2>1, <2>2 DEF InFlight, NumbersOK
<1>13. CASE GiveUpContext
  <2>1. pc \in Live /\ pc \notin Flying /\ pc' \notin Flying
    BY <1>13 DEF GiveUpContext, Goto, Flying, Live
  <2>2. executed' = executed /\ journaled' = journaled
    BY <1>13 DEF GiveUpContext, journal
  <2>3. QED
    BY <1>a, <1>c, <2>1, <2>2 DEF InFlight
<1>14. CASE RecallReseat
  <2>1. pc \in Live /\ pc \notin Flying /\ pc' \notin Flying
    BY <1>14 DEF RecallReseat, Goto, Flying, Live
  <2>2. executed' = executed /\ journaled' = journaled
    BY <1>14 DEF RecallReseat, journal
  <2>3. QED
    BY <1>a, <1>c, <2>1, <2>2 DEF InFlight
<1>15. CASE StartReseat
  <2>1. pc \in Live /\ pc \notin Flying /\ pc' \in Flying
    BY <1>15 DEF StartReseat, Goto, Flying, Live
  <2>2. executed' = executed + 1 /\ journaled' = journaled
    BY <1>15 DEF StartReseat, Ran, journal
  <2>3. QED
    BY <1>a, <1>c, <2>1, <2>2 DEF InFlight, NumbersOK
<1>16. CASE JournalReseat
  <2>1. pc \in Live /\ pc \in Flying /\ pc' \notin Flying
    BY <1>16 DEF JournalReseat, Goto, Flying, Live
  <2>2. executed' = executed /\ journaled' = journaled + 1
    BY <1>16 DEF JournalReseat
  <2>3. QED
    BY <1>a, <1>c, <2>1, <2>2 DEF InFlight
<1>17. CASE Escape
  BY <1>17 DEF Escape, Live
<1>18. CASE Decide
  <2>1. pc \in Live /\ pc \notin Flying /\ pc' \notin Flying
    BY <1>18 DEF Decide, BeginAttempt, Refuse, Goto, Flying, Live, AfterFailure
  <2>2. executed' = executed /\ journaled' = journaled
    BY <1>18 DEF Decide, journal
  <2>3. QED
    BY <1>a, <1>c, <2>1, <2>2 DEF InFlight
<1>19. CASE RunnerUp
  <2>1. pc \in Live /\ pc \notin Flying /\ pc' \notin Flying
    BY <1>19 DEF RunnerUp, BeginAttempt, Refuse, Goto, Flying, Live, AfterFailure
  <2>2. executed' = executed /\ journaled' = journaled
    BY <1>19 DEF RunnerUp, journal
  <2>3. QED
    BY <1>a, <1>c, <2>1, <2>2 DEF InFlight
<1>20. CASE StartConfirmation
  <2>1. pc \in Live /\ pc \notin Flying /\ pc' \in Flying
    BY <1>20 DEF StartConfirmation, Goto, Flying, Live
  <2>2. executed' = executed + 1 /\ journaled' = journaled
    BY <1>20 DEF StartConfirmation, Ran, journal
  <2>3. QED
    BY <1>a, <1>c, <2>1, <2>2 DEF InFlight, NumbersOK
<1>21. CASE JournalConfirmation
  <2>1. pc \in Live /\ pc \in Flying /\ pc' \notin Flying
    BY <1>21 DEF JournalConfirmation, Goto, Flying, Live, AfterFailure
  <2>2. executed' = executed /\ journaled' = journaled + 1
    BY <1>21 DEF JournalConfirmation
  <2>3. QED
    BY <1>a, <1>c, <2>1, <2>2 DEF InFlight
<1>22. CASE RefuseConfirmation
  <2>1. pc \in Live /\ pc \notin Flying /\ pc' \notin Flying
    BY <1>22 DEF RefuseConfirmation, Refuse, Goto, Flying, Live, AfterFailure
  <2>2. executed' = executed /\ journaled' = journaled
    BY <1>22 DEF RefuseConfirmation, journal
  <2>3. QED
    BY <1>a, <1>c, <2>1, <2>2 DEF InFlight
<1>23. CASE CloseConfirmation
  <2>1. pc \in Live /\ pc \notin Flying /\ pc' \notin Flying
    BY <1>23 DEF CloseConfirmation, Goto, Flying, Live, AfterFailure, AfterWinner
  <2>2. executed' = executed /\ journaled' = journaled
    BY <1>23 DEF CloseConfirmation, journal
  <2>3. QED
    BY <1>a, <1>c, <2>1, <2>2 DEF InFlight
<1>24. CASE Fallback
  <2>1. pc \in Live /\ pc \notin Flying /\ pc' \notin Flying
    BY <1>24 DEF Fallback, Goto, Flying, Live, AfterWinner
  <2>2. executed' = executed /\ journaled' = journaled
    BY <1>24 DEF Fallback, journal
  <2>3. QED
    BY <1>a, <1>c, <2>1, <2>2 DEF InFlight
<1>25. CASE NoFeasible
  BY <1>25 DEF NoFeasible, End, Live
<1>26. CASE ValidateWithCli
  <2>1. pc \in Live /\ pc \notin Flying /\ pc' \notin Flying
    BY <1>26 DEF ValidateWithCli, Goto, Flying, Live
  <2>2. executed' = executed + 1 /\ journaled' = journaled + 1
    BY <1>26 DEF ValidateWithCli, RanAndJournaled, Ran
  <2>3. QED
    BY <1>a, <1>c, <2>1, <2>2 DEF InFlight, NumbersOK
<1>27. CASE WriteOutputs
  <2>1. pc \in Live /\ pc \notin Flying /\ pc' \notin Flying
    BY <1>27 DEF WriteOutputs, Goto, Flying, Live
  <2>2. executed' = executed /\ journaled' = journaled
    BY <1>27 DEF WriteOutputs, journal
  <2>3. QED
    BY <1>a, <1>c, <2>1, <2>2 DEF InFlight
<1>28. CASE AppendRecord
  <2>1. pc \in Live /\ pc \notin Flying /\ pc' \notin Flying
    BY <1>28 DEF AppendRecord, Goto, Flying, Live
  <2>2. executed' = executed /\ journaled' = journaled
    BY <1>28 DEF AppendRecord, journal
  <2>3. QED
    BY <1>a, <1>c, <2>1, <2>2 DEF InFlight
<1>29. CASE EndSession
  BY <1>29 DEF EndSession, End, Live
<1>30. CASE Interrupt
  <2>1. pc' = pc /\ executed' = executed /\ journaled' = journaled
    BY <1>30 DEF Interrupt, control, journal
  <2>2. InFlight' = InFlight
    BY <2>1 DEF InFlight
  <2>3. QED
    BY <1>c, <2>1, <2>2
<1>31. CASE ClockExpires
  <2>1. pc' = pc /\ executed' = executed /\ journaled' = journaled
    BY <1>31 DEF ClockExpires, control, journal
  <2>2. InFlight' = InFlight
    BY <2>1 DEF InFlight
  <2>3. QED
    BY <1>c, <2>1, <2>2
<1>32. CASE Abort
  BY <1>32 DEF Abort, End, Live
<1>33. CASE IoFailure
  BY <1>33 DEF IoFailure, End, Live
<1>34. CASE Crash
  BY <1>34 DEF Crash, Live
<1>35. CASE Resume
  <2>1. pc' \notin Flying
    BY <1>35 DEF Resume, FreshMemory, AfterBaseline, Flying
  <2>2. executed' = journaled /\ journaled' = journaled
    BY <1>35 DEF Resume, FreshMemory, CountExecuted, journal
  <2>3. QED
    BY <1>a, <2>1, <2>2 DEF InFlight, NumbersOK
<1>36. CASE Finished
  BY <1>36, <1>c DEF Finished, vars, control, InFlight, Tally
<1>37. CASE UNCHANGED vars
  BY <1>37, <1>c DEF Finished, vars, control, journal, InFlight, Tally
<1>38. QED
  BY <1>1, <1>2, <1>3, <1>4, <1>5, <1>6, <1>7, <1>8, <1>9, <1>10, <1>11, <1>12, <1>13, <1>14,
     <1>15, <1>16, <1>17, <1>18, <1>19, <1>20, <1>21, <1>22, <1>23, <1>24, <1>25, <1>26, <1>27,
     <1>28, <1>29, <1>30, <1>31, <1>32, <1>33, <1>34, <1>35, <1>36, <1>37 DEF Next, Step

Budgeted ==
    /\ Counted <= options.budget + Validations
    /\ children <= Counted + wasted + 2 * lost

(* A step that starts no child keeps the budget.                           *)
LEMMA SteadyCount ==
    ASSUME TypeOK, TypeOK', Budgeted, options' = options, Validations <= Validations',
           Counted' = Counted, children' = children, wasted' = wasted, lost' = lost
    PROVE  Budgeted'
<1>1. /\ NumbersOK /\ options.budget \in Nat /\ Validations \in Nat /\ Counted \in Nat
      /\ Validations' \in Nat /\ Counted' \in Nat
  BY CountFacts, CountPrimed
<1>2. Counted' <= options'.budget + Validations'
  BY <1>1 DEF Budgeted
<1>3. children' <= Counted' + wasted' + 2 * lost'
  BY <1>1 DEF Budgeted
<1>4. QED
  BY <1>2, <1>3 DEF Budgeted

(* So does a counted child below it.                                       *)
LEMMA OneMore ==
    ASSUME TypeOK, TypeOK', Budgeted, options' = options, Validations <= Validations',
           Counted' = Counted + 1, children' = children + 1, wasted' = wasted, lost' = lost,
           Counted < options.budget + Validations'
    PROVE  Budgeted'
<1>1. /\ NumbersOK /\ options.budget \in Nat /\ Validations \in Nat /\ Counted \in Nat
      /\ Validations' \in Nat /\ Counted' \in Nat
  BY CountFacts, CountPrimed
<1>2. Counted' <= options'.budget + Validations'
  BY <1>1
<1>3. children' <= Counted' + wasted' + 2 * lost'
  BY <1>1 DEF Budgeted, NumbersOK
<1>4. QED
  BY <1>2, <1>3 DEF Budgeted

\* A process dies: with it goes at most the child under way and one in flight.
LEMMA CutCounts ==
    ASSUME TypeOK, TypeOK', CountInv, Budgeted, options' = options, Validations <= Validations',
           Cut, pc' \notin Live
    PROVE  Budgeted'
<1>1. /\ NumbersOK /\ options.budget \in Nat /\ Validations \in Nat /\ Counted \in Nat
      /\ Validations' \in Nat /\ Counted' \in Nat /\ InFlight \in {0, 1} /\ NumbersOK'
      /\ SearchLimit \in Int /\ SearchLimit <= options.budget
  BY CountFacts, CountPrimed
<1>2. pc \in Live /\ Counted = executed /\ Counted' = journaled' /\ executed = journaled + InFlight
  BY DEF Cut, CountInv, Counted
<1>3. lost' = lost + 1 /\ wasted' = wasted
  BY DEF Cut, batches
<1>4. CASE UNCHANGED journal /\ \E n \in IF ChildUnderWay THEN {0,
      1} ELSE {0} : children' = children + n
  <2>1. (children' = children + 0 \/ children' = children + 1) /\ journaled' = journaled
    BY <1>4 DEF journal
  <2>2. journaled <= options.budget + Validations'
    BY <1>1, <1>2 DEF Budgeted, NumbersOK
  <2>3. children' <= journaled + wasted + 2 * (lost + 1)
    BY <1>1, <1>2, <2>1 DEF Budgeted, NumbersOK
  <2>4. QED
    BY <1>2, <1>3, <2>1, <2>2, <2>3 DEF Budgeted
<1>5. CASE PartlyJournaled
  <2>1. PICK S \in Batches : \E T \in SUBSET S \ {{}} : journaled' = journaled + Cardinality(T)
    BY <1>5 DEF PartlyJournaled
  <2>2. PICK T \in SUBSET S : journaled' = journaled + Cardinality(T)
    BY <2>1
  <2>3. /\ S \subseteq Configs /\ IsFiniteSet(S) /\ Cardinality(S) \in Nat
        /\ executed + Cardinality(S) <= options.budget
    BY <1>1, BatchFacts DEF TypeOK
  <2>4. Cardinality(T) \in Nat /\ Cardinality(T) <= Cardinality(S)
    BY <2>3, FS_Subset, FS_CardinalityType
  <2>5. children' = children + 1
    BY <1>5 DEF PartlyJournaled
  <2>6. pc = "search"
    BY <1>5 DEF PartlyJournaled
  <2>7. executed = journaled
    BY <1>1, <1>2, <2>6 DEF InFlight, Flying, NumbersOK
  <2>8. journaled' <= options.budget + Validations'
    BY <1>1, <2>2, <2>3, <2>4, <2>7 DEF NumbersOK
  <2>9. children' <= journaled' + wasted + 2 * (lost + 1)
    BY <1>1, <1>2, <2>2, <2>4, <2>5, <2>7 DEF Budgeted, NumbersOK
  <2>10. QED
    BY <1>2, <1>3, <2>8, <2>9 DEF Budgeted
<1>6. QED
  BY <1>4, <1>5 DEF Cut

(* Both sides of the budget, action by action: a batch counts more than    *)
(* its one child, and a failed one is put down as wasted.                  *)
LEMMA BudgetedInductive ==
    TypeOK /\ TypeOK' /\ CountInv /\ [Next]_vars => Budgeted'
<1> SUFFICES ASSUME TypeOK, TypeOK', CountInv, [Next]_vars
             PROVE  Budgeted'
  OBVIOUS
<1>a. /\ NumbersOK /\ options.budget \in Nat /\ Validations \in Nat /\ Counted \in Nat
      /\ Validations' \in Nat /\ Counted' \in Nat
  BY CountFacts, CountPrimed
<1>b. /\ TypeOK /\ TypeOK' /\ CountInv /\ Budgeted /\ options' = options
      /\ Validations <= Validations'
  BY OptionsStay, ValidationsGrow DEF CountInv, Budgeted
<1>1. CASE BaselineRun
  <2>1. pc \in Live /\ pc \notin Flying
    BY <1>1 DEF BaselineRun, Live, Flying
  <2>2. executed = journaled /\ Counted = executed
    <3>1. InFlight = 0 /\ executed = journaled + InFlight /\ Counted = executed
      BY <1>b, <2>1 DEF InFlight, CountInv, Counted
    <3>2. QED
      BY <1>a, <3>1 DEF NumbersOK
  <2>3. executed' = executed + 1 /\ journaled' = journaled + 1 /\ executed < options.budget
    BY <1>1 DEF BaselineRun, RanAndJournaled, Ran
  <2>4. children' = children + 1 /\ wasted' = wasted /\ lost' = lost
    BY <1>1 DEF BaselineRun, RanAndJournaled, Ran, batches, history
  <2>5. Counted' = Counted + 1
    BY <2>2, <2>3 DEF Counted
  <2>6. Counted < options.budget + Validations'
    BY <1>a, <2>2, <2>3
  <2>7. QED
    BY <1>b, <2>4, <2>5, <2>6, OneMore
<1>2. CASE BaselineStarved
  <2>1. pc \in Live /\ pc \notin Flying /\ pc' \notin Live
    BY <1>2 DEF BaselineStarved, End, Live, Flying
  <2>2. executed = journaled /\ journaled' = journaled
    <3>1. InFlight = 0 /\ executed = journaled + InFlight
      BY <1>b, <2>1 DEF InFlight, CountInv
    <3>2. journaled' = journaled
      BY <1>2 DEF BaselineStarved, journal
    <3>3. QED
      BY <1>a, <3>1, <3>2 DEF NumbersOK
  <2>3. children' = children /\ wasted' = wasted /\ lost' = lost
    BY <1>2 DEF BaselineStarved, batches, history
  <2>4. Counted' = Counted
    BY <2>1, <2>2 DEF Counted
  <2>5. QED
    BY <1>b, <2>3, <2>4, SteadyCount
<1>3. CASE StartTrial
  <2>1. pc \in Live /\ pc' \in Live
    BY <1>3 DEF StartTrial, Goto, Live
  <2>2. executed' = executed + 1
    BY <1>3 DEF StartTrial, Ran
  <2>3. children' = children + 1 /\ wasted' = wasted /\ lost' = lost
    BY <1>3 DEF StartTrial, Ran, batches, history
  <2>4. Counted = executed /\ Counted' = Counted + 1
    BY <2>1, <2>2 DEF Counted
  <2>5. Counted < options.budget + Validations'
    <3>1. executed < options.budget
      BY <1>3, CountFacts DEF StartTrial
    <3>2. QED
      BY <1>a, <2>4, <3>1
  <2>6. QED
    BY <1>b, <2>3, <2>4, <2>5, OneMore
<1>4. CASE RunAuxiliary
  <2>1. pc \in Live /\ pc' \in Live
    BY <1>4 DEF RunAuxiliary, control, Live
  <2>2. executed' = executed + 1
    BY <1>4 DEF RunAuxiliary, RanAndJournaled, Ran
  <2>3. children' = children + 1 /\ wasted' = wasted /\ lost' = lost
    BY <1>4 DEF RunAuxiliary, RanAndJournaled, Ran, batches, history
  <2>4. Counted = executed /\ Counted' = Counted + 1
    BY <2>1, <2>2 DEF Counted
  <2>5. Counted < options.budget + Validations'
    <3>1. executed < options.budget
      BY <1>4, CountFacts DEF RunAuxiliary
    <3>2. QED
      BY <1>a, <2>4, <3>1
  <2>6. QED
    BY <1>b, <2>3, <2>4, <2>5, OneMore
<1>5. CASE JournalTrial
  <2>1. pc \in Live /\ pc' \in Live
    BY <1>5 DEF JournalTrial, Goto, Live
  <2>2. executed' = executed
    BY <1>5 DEF JournalTrial
  <2>3. children' = children /\ wasted' = wasted /\ lost' = lost
    BY <1>5 DEF JournalTrial, batches, history
  <2>4. Counted' = Counted
    BY <2>1, <2>2 DEF Counted
  <2>5. QED
    BY <1>b, <2>3, <2>4, SteadyCount
<1>6. CASE RunBatch
  <2>1. pc \in Live /\ pc' \in Live
    BY <1>6 DEF RunBatch, control, Live
  <2>2. PICK S \in Batches : executed' = executed + Cardinality(S)
    BY <1>6 DEF RunBatch
  <2>3. /\ Cardinality(S) \in Nat /\ Cardinality(S) > 1
        /\ executed + Cardinality(S) <= options.budget
    BY <1>a, <1>b, BatchFacts DEF TypeOK
  <2>4. children' = children + 1 /\ wasted' = wasted /\ lost' = lost
    BY <1>6 DEF RunBatch, batches, history
  <2>5. Counted = executed /\ Counted' = executed + Cardinality(S)
    BY <2>1, <2>2 DEF Counted
  <2>6. Counted' <= options'.budget + Validations'
    BY <1>a, <1>b, <2>3, <2>5
  <2>7. children' <= Counted' + wasted' + 2 * lost'
    BY <1>a, <1>b, <2>3, <2>4, <2>5 DEF Budgeted, NumbersOK
  <2>8. QED
    BY <2>6, <2>7 DEF Budgeted
<1>7. CASE FailBatch
  <2>1. pc \in Live /\ pc' \in Live
    BY <1>7 DEF FailBatch, control, Live
  <2>2. Counted' = Counted
    BY <1>7, <2>1 DEF FailBatch, Counted
  <2>3. children' = children + 1 /\ wasted' = wasted + 1 /\ lost' = lost
    BY <1>7 DEF FailBatch, history
  <2>4. Counted' <= options'.budget + Validations'
    BY <1>a, <1>b, <2>2 DEF Budgeted
  <2>5. children' <= Counted' + wasted' + 2 * lost'
    BY <1>a, <1>b, <2>2, <2>3 DEF Budgeted, NumbersOK
  <2>6. QED
    BY <2>4, <2>5 DEF Budgeted
<1>8. CASE Promote
  <2>1. pc \in Live /\ pc' \in Live
    BY <1>8 DEF Promote, control, Live
  <2>2. executed' = executed
    BY <1>8 DEF Promote
  <2>3. children' = children /\ wasted' = wasted /\ lost' = lost
    BY <1>8 DEF Promote, batches, history
  <2>4. Counted' = Counted
    BY <2>1, <2>2 DEF Counted
  <2>5. QED
    BY <1>b, <2>3, <2>4, SteadyCount
<1>9. CASE SearchProbe
  <2>1. pc \in Live /\ pc' \in Live
    BY <1>9 DEF SearchProbe, control, Live
  <2>2. executed' = executed + 1
    BY <1>9 DEF SearchProbe, RanAndJournaled, Ran
  <2>3. children' = children + 1 /\ wasted' = wasted /\ lost' = lost
    BY <1>9 DEF SearchProbe, RanAndJournaled, Ran, batches, history
  <2>4. Counted = executed /\ Counted' = Counted + 1
    BY <2>1, <2>2 DEF Counted
  <2>5. Counted < options.budget + Validations'
    <3>1. executed < options.budget
      BY <1>9, CountFacts DEF SearchProbe
    <3>2. QED
      BY <1>a, <2>4, <3>1
  <2>6. QED
    BY <1>b, <2>3, <2>4, <2>5, OneMore
<1>10. CASE EndSearch
  <2>1. pc \in Live /\ pc' \in Live
    BY <1>10 DEF EndSearch, Goto, Live
  <2>2. executed' = executed
    BY <1>10 DEF EndSearch
  <2>3. children' = children /\ wasted' = wasted /\ lost' = lost
    BY <1>10 DEF EndSearch, batches, history
  <2>4. Counted' = Counted
    BY <2>1, <2>2 DEF Counted
  <2>5. QED
    BY <1>b, <2>3, <2>4, SteadyCount
<1>11. CASE RecallContext
  <2>1. pc \in Live /\ pc' \in Live
    BY <1>11 DEF RecallContext, Validate, Goto, Validate, control, Live
  <2>2. executed' = executed
    BY <1>11 DEF RecallContext
  <2>3. children' = children /\ wasted' = wasted /\ lost' = lost
    BY <1>11 DEF RecallContext, batches, history
  <2>4. Counted' = Counted
    BY <2>1, <2>2 DEF Counted
  <2>5. QED
    BY <1>b, <2>3, <2>4, SteadyCount
<1>12. CASE ProbeContext
  <2>1. pc \in Live /\ pc' \in Live
    BY <1>12 DEF ProbeContext, Validate, Goto, Validate, control, Live
  <2>2. executed' = executed + 1
    BY <1>12 DEF ProbeContext, RanAndJournaled, Ran
  <2>3. children' = children + 1 /\ wasted' = wasted /\ lost' = lost
    BY <1>12 DEF ProbeContext, RanAndJournaled, Ran, batches, history
  <2>4. Counted = executed /\ Counted' = Counted + 1
    BY <2>1, <2>2 DEF Counted
  <2>5. Counted < options.budget + Validations'
    <3>1. executed < options.budget
      BY <1>12, CountFacts DEF ProbeContext
    <3>2. QED
      BY <1>a, <2>4, <3>1
  <2>6. QED
    BY <1>b, <2>3, <2>4, <2>5, OneMore
<1>13. CASE GiveUpContext
  <2>1. pc \in Live /\ pc' \in Live
    BY <1>13 DEF GiveUpContext, Goto, Live
  <2>2. executed' = executed
    BY <1>13 DEF GiveUpContext
  <2>3. children' = children /\ wasted' = wasted /\ lost' = lost
    BY <1>13 DEF GiveUpContext, batches, history
  <2>4. Counted' = Counted
    BY <2>1, <2>2 DEF Counted
  <2>5. QED
    BY <1>b, <2>3, <2>4, SteadyCount
<1>14. CASE RecallReseat
  <2>1. pc \in Live /\ pc' \in Live
    BY <1>14 DEF RecallReseat, Goto, Live
  <2>2. executed' = executed
    BY <1>14 DEF RecallReseat
  <2>3. children' = children /\ wasted' = wasted /\ lost' = lost
    BY <1>14 DEF RecallReseat, batches, history
  <2>4. Counted' = Counted
    BY <2>1, <2>2 DEF Counted
  <2>5. QED
    BY <1>b, <2>3, <2>4, SteadyCount
<1>15. CASE StartReseat
  <2>1. pc \in Live /\ pc' \in Live
    BY <1>15 DEF StartReseat, Goto, Live
  <2>2. executed' = executed + 1
    BY <1>15 DEF StartReseat, Ran
  <2>3. children' = children + 1 /\ wasted' = wasted /\ lost' = lost
    BY <1>15 DEF StartReseat, Ran, batches, history
  <2>4. Counted = executed /\ Counted' = Counted + 1
    BY <2>1, <2>2 DEF Counted
  <2>5. Counted < options.budget + Validations'
    <3>1. executed < options.budget
      BY <1>15, CountFacts DEF StartReseat
    <3>2. QED
      BY <1>a, <2>4, <3>1
  <2>6. QED
    BY <1>b, <2>3, <2>4, <2>5, OneMore
<1>16. CASE JournalReseat
  <2>1. pc \in Live /\ pc' \in Live
    BY <1>16 DEF JournalReseat, Goto, Live
  <2>2. executed' = executed
    BY <1>16 DEF JournalReseat
  <2>3. children' = children /\ wasted' = wasted /\ lost' = lost
    BY <1>16 DEF JournalReseat, batches, history
  <2>4. Counted' = Counted
    BY <2>1, <2>2 DEF Counted
  <2>5. QED
    BY <1>b, <2>3, <2>4, SteadyCount
<1>17. CASE Escape
  <2>1. pc \in Live /\ pc \notin Flying /\ pc' \notin Live
    BY <1>17 DEF Escape, Live, Flying
  <2>2. executed = journaled /\ journaled' = journaled
    <3>1. InFlight = 0 /\ executed = journaled + InFlight
      BY <1>b, <2>1 DEF InFlight, CountInv
    <3>2. journaled' = journaled
      BY <1>17 DEF Escape, journal
    <3>3. QED
      BY <1>a, <3>1, <3>2 DEF NumbersOK
  <2>3. children' = children /\ wasted' = wasted /\ lost' = lost
    BY <1>17 DEF Escape, batches, history
  <2>4. Counted' = Counted
    BY <2>1, <2>2 DEF Counted
  <2>5. QED
    BY <1>b, <2>3, <2>4, SteadyCount
<1>18. CASE Decide
  <2>1. pc \in Live /\ pc' \in Live
    BY <1>18 DEF Decide, BeginAttempt, Refuse, Goto, AfterFailure, Live
  <2>2. executed' = executed
    BY <1>18 DEF Decide
  <2>3. children' = children /\ wasted' = wasted /\ lost' = lost
    BY <1>18 DEF Decide, batches, history
  <2>4. Counted' = Counted
    BY <2>1, <2>2 DEF Counted
  <2>5. QED
    BY <1>b, <2>3, <2>4, SteadyCount
<1>19. CASE RunnerUp
  <2>1. pc \in Live /\ pc' \in Live
    BY <1>19 DEF RunnerUp, BeginAttempt, Refuse, Goto, AfterFailure, Live
  <2>2. executed' = executed
    BY <1>19 DEF RunnerUp
  <2>3. children' = children /\ wasted' = wasted /\ lost' = lost
    BY <1>19 DEF RunnerUp, batches, history
  <2>4. Counted' = Counted
    BY <2>1, <2>2 DEF Counted
  <2>5. QED
    BY <1>b, <2>3, <2>4, SteadyCount
<1>20. CASE StartConfirmation
  <2>1. pc \in Live /\ pc' \in Live
    BY <1>20 DEF StartConfirmation, Goto, Live
  <2>2. executed' = executed + 1
    BY <1>20 DEF StartConfirmation, Ran
  <2>3. children' = children + 1 /\ wasted' = wasted /\ lost' = lost
    BY <1>20 DEF StartConfirmation, Ran, batches, history
  <2>4. Counted = executed /\ Counted' = Counted + 1
    BY <2>1, <2>2 DEF Counted
  <2>5. Counted < options.budget + Validations'
    <3>1. executed < options.budget
      BY <1>20, CountFacts DEF StartConfirmation
    <3>2. QED
      BY <1>a, <2>4, <3>1
  <2>6. QED
    BY <1>b, <2>3, <2>4, <2>5, OneMore
<1>21. CASE JournalConfirmation
  <2>1. pc \in Live /\ pc' \in Live
    BY <1>21 DEF JournalConfirmation, Goto, AfterFailure, Live
  <2>2. executed' = executed
    BY <1>21 DEF JournalConfirmation
  <2>3. children' = children /\ wasted' = wasted /\ lost' = lost
    BY <1>21 DEF JournalConfirmation, batches, history
  <2>4. Counted' = Counted
    BY <2>1, <2>2 DEF Counted
  <2>5. QED
    BY <1>b, <2>3, <2>4, SteadyCount
<1>22. CASE RefuseConfirmation
  <2>1. pc \in Live /\ pc' \in Live
    BY <1>22 DEF RefuseConfirmation, Refuse, Goto, AfterFailure, Live
  <2>2. executed' = executed
    BY <1>22 DEF RefuseConfirmation
  <2>3. children' = children /\ wasted' = wasted /\ lost' = lost
    BY <1>22 DEF RefuseConfirmation, batches, history
  <2>4. Counted' = Counted
    BY <2>1, <2>2 DEF Counted
  <2>5. QED
    BY <1>b, <2>3, <2>4, SteadyCount
<1>23. CASE CloseConfirmation
  <2>1. pc \in Live /\ pc' \in Live
    BY <1>23 DEF CloseConfirmation, Goto, AfterFailure, AfterWinner, Live
  <2>2. executed' = executed
    BY <1>23 DEF CloseConfirmation
  <2>3. children' = children /\ wasted' = wasted /\ lost' = lost
    BY <1>23 DEF CloseConfirmation, batches, history
  <2>4. Counted' = Counted
    BY <2>1, <2>2 DEF Counted
  <2>5. QED
    BY <1>b, <2>3, <2>4, SteadyCount
<1>24. CASE Fallback
  <2>1. pc \in Live /\ pc' \in Live
    BY <1>24 DEF Fallback, Goto, AfterWinner, Live
  <2>2. executed' = executed
    BY <1>24 DEF Fallback
  <2>3. children' = children /\ wasted' = wasted /\ lost' = lost
    BY <1>24 DEF Fallback, batches, history
  <2>4. Counted' = Counted
    BY <2>1, <2>2 DEF Counted
  <2>5. QED
    BY <1>b, <2>3, <2>4, SteadyCount
<1>25. CASE NoFeasible
  <2>1. pc \in Live /\ pc \notin Flying /\ pc' \notin Live
    BY <1>25 DEF NoFeasible, End, Live, Flying
  <2>2. executed = journaled /\ journaled' = journaled
    <3>1. InFlight = 0 /\ executed = journaled + InFlight
      BY <1>b, <2>1 DEF InFlight, CountInv
    <3>2. journaled' = journaled
      BY <1>25 DEF NoFeasible, journal
    <3>3. QED
      BY <1>a, <3>1, <3>2 DEF NumbersOK
  <2>3. children' = children /\ wasted' = wasted /\ lost' = lost
    BY <1>25 DEF NoFeasible, batches, history
  <2>4. Counted' = Counted
    BY <2>1, <2>2 DEF Counted
  <2>5. QED
    BY <1>b, <2>3, <2>4, SteadyCount
<1>26. CASE ValidateWithCli
  <2>1. pc \in Live /\ pc' \in Live
    BY <1>26 DEF ValidateWithCli, Goto, Live
  <2>2. executed' = executed + 1
    BY <1>26 DEF ValidateWithCli, RanAndJournaled, Ran
  <2>3. children' = children + 1 /\ wasted' = wasted /\ lost' = lost
    BY <1>26 DEF ValidateWithCli, RanAndJournaled, Ran, batches, history
  <2>4. Counted = executed /\ Counted' = Counted + 1
    BY <2>1, <2>2 DEF Counted
  <2>5. Counted < options.budget + Validations'
    <3>1. options.cli /\ options'.cli
      BY <1>26, <1>b DEF ValidateWithCli, CountInv
    <3>2. Validations = resumes
      BY <1>26, <3>1 DEF ValidateWithCli, Validations, Early, Live
    <3>3. resumes' = resumes /\ Validations' = resumes' + 1
      BY <1>26, <3>1 DEF ValidateWithCli, Goto, Validations, Early, history
    <3>4. Counted <= options.budget + resumes
      BY <1>b, <3>2 DEF Budgeted
    <3>5. QED
      BY <1>a, <3>3, <3>4 DEF NumbersOK
  <2>6. QED
    BY <1>b, <2>3, <2>4, <2>5, OneMore
<1>27. CASE WriteOutputs
  <2>1. pc \in Live /\ pc' \in Live
    BY <1>27 DEF WriteOutputs, Goto, Live
  <2>2. executed' = executed
    BY <1>27 DEF WriteOutputs
  <2>3. children' = children /\ wasted' = wasted /\ lost' = lost
    BY <1>27 DEF WriteOutputs, batches, history
  <2>4. Counted' = Counted
    BY <2>1, <2>2 DEF Counted
  <2>5. QED
    BY <1>b, <2>3, <2>4, SteadyCount
<1>28. CASE AppendRecord
  <2>1. pc \in Live /\ pc' \in Live
    BY <1>28 DEF AppendRecord, Goto, Live
  <2>2. executed' = executed
    BY <1>28 DEF AppendRecord
  <2>3. children' = children /\ wasted' = wasted /\ lost' = lost
    BY <1>28 DEF AppendRecord, batches, history
  <2>4. Counted' = Counted
    BY <2>1, <2>2 DEF Counted
  <2>5. QED
    BY <1>b, <2>3, <2>4, SteadyCount
<1>29. CASE EndSession
  <2>1. pc \in Live /\ pc \notin Flying /\ pc' \notin Live
    BY <1>29 DEF EndSession, End, Live, Flying
  <2>2. executed = journaled /\ journaled' = journaled
    <3>1. InFlight = 0 /\ executed = journaled + InFlight
      BY <1>b, <2>1 DEF InFlight, CountInv
    <3>2. journaled' = journaled
      BY <1>29 DEF EndSession, journal
    <3>3. QED
      BY <1>a, <3>1, <3>2 DEF NumbersOK
  <2>3. children' = children /\ wasted' = wasted /\ lost' = lost
    BY <1>29 DEF EndSession, batches, history
  <2>4. Counted' = Counted
    BY <2>1, <2>2 DEF Counted
  <2>5. QED
    BY <1>b, <2>3, <2>4, SteadyCount
<1>30. CASE Interrupt
  <2>1. pc \in Live /\ pc' \in Live
    BY <1>30 DEF Interrupt, control
  <2>2. executed' = executed
    BY <1>30 DEF Interrupt
  <2>3. children' = children /\ wasted' = wasted /\ lost' = lost
    BY <1>30 DEF Interrupt, batches, history
  <2>4. Counted' = Counted
    BY <2>1, <2>2 DEF Counted
  <2>5. QED
    BY <1>b, <2>3, <2>4, SteadyCount
<1>31. CASE ClockExpires
  <2>1. pc \in Live /\ pc' \in Live
    BY <1>31 DEF ClockExpires, control
  <2>2. executed' = executed
    BY <1>31 DEF ClockExpires
  <2>3. children' = children /\ wasted' = wasted /\ lost' = lost
    BY <1>31 DEF ClockExpires, batches, history
  <2>4. Counted' = Counted
    BY <2>1, <2>2 DEF Counted
  <2>5. QED
    BY <1>b, <2>3, <2>4, SteadyCount
<1>32. CASE Abort
  BY <1>32, <1>b, CutCounts DEF Abort, End, Live
<1>33. CASE IoFailure
  BY <1>33, <1>b, CutCounts DEF IoFailure, End, Live
<1>34. CASE Crash
  BY <1>34, <1>b, CutCounts DEF Crash, End, Live
<1>35. CASE Resume
  <2>1. pc \notin Live /\ pc' \in Live /\ executed' = journaled
    BY <1>35 DEF Resume, FreshMemory, AfterBaseline, CountExecuted, Live
  <2>2. children' = children /\ wasted' = wasted /\ lost' = lost
    BY <1>35 DEF Resume, FreshMemory
  <2>3. Counted' = Counted
    BY <2>1 DEF Counted
  <2>4. QED
    BY <1>b, <2>2, <2>3, SteadyCount
<1>36. CASE Finished
  <2>1. pc' = pc /\ executed' = executed /\ journaled' = journaled
    BY <1>36 DEF Finished, vars, control, journal
  <2>2. children' = children /\ wasted' = wasted /\ lost' = lost
    BY <1>36 DEF Finished, vars, batches, history
  <2>3. Counted' = Counted
    BY <2>1 DEF Counted
  <2>4. QED
    BY <1>b, <2>2, <2>3, SteadyCount
<1>37. CASE UNCHANGED vars
  <2>1. pc' = pc /\ executed' = executed /\ journaled' = journaled
    BY <1>37 DEF vars, control, journal
  <2>2. children' = children /\ wasted' = wasted /\ lost' = lost
    BY <1>37 DEF vars, batches, history
  <2>3. Counted' = Counted
    BY <2>1 DEF Counted
  <2>4. QED
    BY <1>b, <2>2, <2>3, SteadyCount
<1>38. QED
  BY <1>1, <1>2, <1>3, <1>4, <1>5, <1>6, <1>7, <1>8, <1>9, <1>10, <1>11, <1>12, <1>13, <1>14,
     <1>15, <1>16, <1>17, <1>18, <1>19, <1>20, <1>21, <1>22, <1>23, <1>24, <1>25, <1>26, <1>27,
     <1>28, <1>29, <1>30, <1>31, <1>32, <1>33, <1>34, <1>35, <1>36, <1>37 DEF Next, Step

Checking == pc = "cli" => options.cli

(* The llama-cli validation is only run when it was asked for.             *)
LEMMA CheckingInductive ==
    CountInv /\ [Next]_vars => Checking'
<1> SUFFICES ASSUME CountInv, [Next]_vars
             PROVE  Checking'
  OBVIOUS
<1>a. options' = options
  BY OptionsStay
<1>b. Checking
  BY DEF CountInv, Checking
<1>1. CASE BaselineRun
  BY <1>1 DEF BaselineRun, End, Goto, AfterBaseline, control, Checking
<1>2. CASE BaselineStarved
  BY <1>2 DEF BaselineStarved, End, Checking
<1>3. CASE StartTrial
  BY <1>3 DEF StartTrial, Goto, Checking
<1>4. CASE RunAuxiliary
  BY <1>4 DEF RunAuxiliary, control, Checking
<1>5. CASE JournalTrial
  BY <1>5 DEF JournalTrial, Goto, Checking
<1>6. CASE RunBatch
  BY <1>6 DEF RunBatch, control, Checking
<1>7. CASE FailBatch
  BY <1>7 DEF FailBatch, control, Checking
<1>8. CASE Promote
  BY <1>8 DEF Promote, control, Checking
<1>9. CASE SearchProbe
  BY <1>9 DEF SearchProbe, control, Checking
<1>10. CASE EndSearch
  BY <1>10 DEF EndSearch, Goto, Checking
<1>11. CASE RecallContext
  BY <1>11 DEF RecallContext, Validate, Goto, Validate, control, Checking
<1>12. CASE ProbeContext
  BY <1>12 DEF ProbeContext, Validate, Goto, Validate, control, Checking
<1>13. CASE GiveUpContext
  BY <1>13 DEF GiveUpContext, Goto, Checking
<1>14. CASE RecallReseat
  BY <1>14 DEF RecallReseat, Goto, Checking
<1>15. CASE StartReseat
  BY <1>15 DEF StartReseat, Goto, Checking
<1>16. CASE JournalReseat
  BY <1>16 DEF JournalReseat, Goto, Checking
<1>17. CASE Escape
  BY <1>17 DEF Escape, Checking
<1>18. CASE Decide
  BY <1>18 DEF Decide, BeginAttempt, Refuse, Goto, AfterFailure, Checking
<1>19. CASE RunnerUp
  BY <1>19 DEF RunnerUp, BeginAttempt, Refuse, Goto, AfterFailure, Checking
<1>20. CASE StartConfirmation
  BY <1>20 DEF StartConfirmation, Goto, Checking
<1>21. CASE JournalConfirmation
  BY <1>21 DEF JournalConfirmation, Goto, AfterFailure, Checking
<1>22. CASE RefuseConfirmation
  BY <1>22 DEF RefuseConfirmation, Refuse, Goto, AfterFailure, Checking
<1>23. CASE CloseConfirmation
  BY <1>23, <1>a DEF CloseConfirmation, Goto, AfterWinner, AfterFailure, Checking
<1>24. CASE Fallback
  BY <1>24, <1>a DEF Fallback, Goto, AfterWinner, Checking
<1>25. CASE NoFeasible
  BY <1>25 DEF NoFeasible, End, Checking
<1>26. CASE ValidateWithCli
  BY <1>26 DEF ValidateWithCli, Goto, Checking
<1>27. CASE WriteOutputs
  BY <1>27 DEF WriteOutputs, Goto, Checking
<1>28. CASE AppendRecord
  BY <1>28 DEF AppendRecord, Goto, Checking
<1>29. CASE EndSession
  BY <1>29 DEF EndSession, End, Checking
<1>30. CASE Interrupt
  BY <1>30, <1>a, <1>b DEF Interrupt, control, Checking
<1>31. CASE ClockExpires
  BY <1>31, <1>a, <1>b DEF ClockExpires, control, Checking
<1>32. CASE Abort
  BY <1>32 DEF Abort, End, Checking
<1>33. CASE IoFailure
  BY <1>33 DEF IoFailure, End, Checking
<1>34. CASE Crash
  BY <1>34 DEF Crash, Checking
<1>35. CASE Resume
  BY <1>35 DEF Resume, FreshMemory, AfterBaseline, Checking
<1>36. CASE Finished
  BY <1>36, <1>a, <1>b DEF Finished, vars, control, Checking
<1>37. CASE UNCHANGED vars
  BY <1>37, <1>a, <1>b DEF vars, control, Checking
<1>38. QED
  BY <1>1, <1>2, <1>3, <1>4, <1>5, <1>6, <1>7, <1>8, <1>9, <1>10, <1>11, <1>12, <1>13, <1>14,
     <1>15, <1>16, <1>17, <1>18, <1>19, <1>20, <1>21, <1>22, <1>23, <1>24, <1>25, <1>26, <1>27,
     <1>28, <1>29, <1>30, <1>31, <1>32, <1>33, <1>34, <1>35, <1>36, <1>37 DEF Next, Step

(* All children are counted, but for those that died with a process, and   *)
(* the count stays within the budget.                                      *)
LEMMA CountInductive ==
    TypeOK /\ TypeOK' /\ CountInv /\ [Next]_vars => CountInv'
BY TallyInductive, BudgetedInductive, CheckingInductive DEF CountInv, Tally, Budgeted, Checking

----------------------------------------------------------------------------
(* Evidence.                                                               *)

(* Allowed is the negation of OverCap.                                     *)
LEMMA CapFacts == \A c : OverCap(c) <=> ~Allowed(options, baseline, c)
BY DEF OverCap, Allowed

(* A configuration that has a score keeps it.                              *)
LEMMA ScoresStay ==
    ASSUME TypeOK, FlightInv, [Next]_vars
    PROVE  /\ \A c : HasScore(known, c) => HasScore(known', c)
           /\ \A c : HasTrial(known, c) => HasTrial(known', c)
           /\ \A c : HasScore(known, c) => HasTrial(known, c)
<1>1. Keeps(known, known')
  BY KnownSteps DEF KnownKept
<1>2. QED
  BY <1>1 DEF Keeps, HasScore, HasTrial

(* One that passed its context probe has passed for ever.                  *)
LEMMA FitStays ==
    ASSUME TypeOK, [Next]_vars
    PROVE  /\ \A c : Fits(options, contexts, c) => Fits(options', contexts', c)
           /\ \A c \in DOMAIN contexts : c \in DOMAIN contexts' /\ contexts'[c] = contexts[c]
<1>1. Keeps(contexts, contexts') /\ options' = options
  BY ContextsSteps, OptionsStay DEF ContextsKept
<1>2. QED
  BY <1>1 DEF Keeps, Fits

(* A complete confirmation stays one, across crashes, rebuilds and resumes. *)
LEMMA ProofStays ==
    ASSUME TypeOK, FlightInv, RunsInv, [Next]_vars
    PROVE  \A c \in Configs : Proven(options, confirms, c) => Proven(options', confirms', c)
<1>1. ConfirmsKept /\ options' = options
  BY ConfirmsSteps, OptionsStay
<1>2. SUFFICES ASSUME NEW c \in Configs, Proven(options, confirms, c)
               PROVE  Proven(options, confirms', c)
  BY <1>1
<1>3. PICK b \in options.builds, scores \in [1..options.runs -> Scores] :
          /\ \A i \in 1..options.runs : Has(confirms[c][i], b, scores[i])
          /\ Total(scores) > options.runs * Threshold
  BY <1>2 DEF Proven
<1>4. \A i \in 1..options.runs : Has(confirms'[c][i], b, scores[i])
  BY <1>1, <1>2, <1>3 DEF ConfirmsKept, Has
<1>5. QED
  BY <1>3, <1>4 DEF Proven

(* Once the baseline fell back to the CPU it stays so.                     *)
LEMMA CpuStays ==
    TypeOK /\ BaselineInv /\ [Next]_vars => (baseline = "cpu" => baseline' = "cpu")
<1> SUFFICES ASSUME TypeOK, BaselineInv, [Next]_vars
             PROVE  (baseline = "cpu" => baseline' = "cpu")
  OBVIOUS
<1>a. options \in OptionSets /\ executed \in Nat
  BY DEF TypeOK
<1>b. BaselineInv /\ None \notin {"defaults", "cpu"}
  BY ConstantsAssumption
<1>1. CASE BaselineRun
  BY <1>1, <1>b DEF BaselineRun, BaselineInv, Live
<1>2. CASE BaselineStarved
  BY <1>2 DEF BaselineStarved, End, journal
<1>3. CASE StartTrial
  BY <1>3 DEF StartTrial, journal
<1>4. CASE RunAuxiliary
  BY <1>4 DEF RunAuxiliary
<1>5. CASE JournalTrial
  BY <1>5 DEF JournalTrial
<1>6. CASE RunBatch
  BY <1>6 DEF RunBatch
<1>7. CASE FailBatch
  BY <1>7 DEF FailBatch, journal
<1>8. CASE Promote
  BY <1>8 DEF Promote, journal
<1>9. CASE SearchProbe
  BY <1>9 DEF SearchProbe
<1>10. CASE EndSearch
  BY <1>10 DEF EndSearch, journal
<1>11. CASE RecallContext
  BY <1>11 DEF RecallContext, Validate, journal
<1>12. CASE ProbeContext
  BY <1>12 DEF ProbeContext, Validate
<1>13. CASE GiveUpContext
  BY <1>13 DEF GiveUpContext, journal
<1>14. CASE RecallReseat
  BY <1>14 DEF RecallReseat, journal
<1>15. CASE StartReseat
  BY <1>15 DEF StartReseat, journal
<1>16. CASE JournalReseat
  BY <1>16 DEF JournalReseat
<1>17. CASE Escape
  BY <1>17 DEF Escape, journal
<1>18. CASE Decide
  BY <1>18 DEF Decide, journal
<1>19. CASE RunnerUp
  BY <1>19 DEF RunnerUp, journal
<1>20. CASE StartConfirmation
  BY <1>20 DEF StartConfirmation, journal
<1>21. CASE JournalConfirmation
  BY <1>21 DEF JournalConfirmation
<1>22. CASE RefuseConfirmation
  BY <1>22 DEF RefuseConfirmation, journal
<1>23. CASE CloseConfirmation
  BY <1>23 DEF CloseConfirmation, journal
<1>24. CASE Fallback
  BY <1>24 DEF Fallback, journal
<1>25. CASE NoFeasible
  BY <1>25 DEF NoFeasible, End, journal
<1>26. CASE ValidateWithCli
  BY <1>26 DEF ValidateWithCli
<1>27. CASE WriteOutputs
  BY <1>27 DEF WriteOutputs, journal
<1>28. CASE AppendRecord
  BY <1>28 DEF AppendRecord, journal
<1>29. CASE EndSession
  BY <1>29 DEF EndSession, End, journal
<1>30. CASE Interrupt
  BY <1>30 DEF Interrupt, journal
<1>31. CASE ClockExpires
  BY <1>31 DEF ClockExpires, journal
<1>32. CASE Abort
  BY <1>32, <1>a, CutKeeps DEF Abort
<1>33. CASE IoFailure
  BY <1>33, <1>a, CutKeeps DEF IoFailure
<1>34. CASE Crash
  BY <1>34, <1>a, CutKeeps DEF Crash
<1>35. CASE Resume
  BY <1>35 DEF Resume, FreshMemory, journal
<1>36. CASE Finished
  BY <1>36 DEF Finished, vars, journal
<1>37. CASE UNCHANGED vars
  BY <1>37 DEF vars, journal
<1>38. QED
  BY <1>1, <1>2, <1>3, <1>4, <1>5, <1>6, <1>7, <1>8, <1>9, <1>10, <1>11, <1>12, <1>13, <1>14,
     <1>15, <1>16, <1>17, <1>18, <1>19, <1>20, <1>21, <1>22, <1>23, <1>24, <1>25, <1>26, <1>27,
     <1>28, <1>29, <1>30, <1>31, <1>32, <1>33, <1>34, <1>35, <1>36, <1>37 DEF Next, Step

(* What is within the cap stays within it.                                 *)
LEMMA CapStays ==
    ASSUME TypeOK, BaselineInv, [Next]_vars
    PROVE  \A c : Allowed(options, baseline, c) => Allowed(options', baseline', c)
<1>1. options' = options /\ (baseline = "cpu" => baseline' = "cpu")
  BY OptionsStay, CpuStays
<1>2. QED
  BY <1>1 DEF Allowed

(* What memory calls validated has a passed probe in the journal.          *)
LEMMA ValidatedInductive ==
    TypeOK /\ TypeOK' /\ FlightInv /\ BaselineInv /\ EvidenceInv /\ [Next]_vars => ValidatedInv'
<1> SUFFICES ASSUME TypeOK, TypeOK', FlightInv, BaselineInv, EvidenceInv, [Next]_vars
             PROVE  ValidatedInv'
  OBVIOUS
<1>a. Partial(contexts, BOOLEAN)
  BY TypeFacts
<1>b. ValidatedInv
  BY DEF EvidenceInv
<1>c. validated' = validated => ValidatedInv'
  BY <1>b, FitStays DEF ValidatedInv
<1>1. CASE BaselineRun
  BY <1>1, <1>c DEF BaselineRun, End
<1>2. CASE BaselineStarved
  BY <1>2, <1>c DEF BaselineStarved, End, memory
<1>3. CASE StartTrial
  BY <1>3, <1>c DEF StartTrial
<1>4. CASE RunAuxiliary
  BY <1>4, <1>c DEF RunAuxiliary
<1>5. CASE JournalTrial
  BY <1>5, <1>c DEF JournalTrial
<1>6. CASE RunBatch
  BY <1>6, <1>c DEF RunBatch, memory
<1>7. CASE FailBatch
  BY <1>7, <1>c DEF FailBatch, memory
<1>8. CASE Promote
  BY <1>8, <1>c DEF Promote
<1>9. CASE SearchProbe
  BY <1>9, <1>c DEF SearchProbe, memory
<1>10. CASE EndSearch
  BY <1>10, <1>c DEF EndSearch, memory
<1>11. CASE RecallContext
  <2>1. PICK c \in DOMAIN contexts : Validate(c, contexts[c])
    BY <1>11 DEF RecallContext
  <2>2. contexts[c] \in BOOLEAN /\ contexts' = contexts
    BY <1>11, <1>a, <2>1 DEF RecallContext, Partial, journal
  <2>3. CASE contexts[c]
    BY <1>b, <2>1, <2>2, <2>3 DEF Validate, ValidatedInv
  <2>4. CASE ~contexts[c]
    BY <1>b, <2>1, <2>2, <2>4 DEF Validate, ValidatedInv
  <2>5. QED
    BY <2>3, <2>4
<1>12. CASE ProbeContext
  <2>1. PICK c \in Candidates, passed \in BOOLEAN : contexts' = With(contexts, c, passed)
             /\ Validate(c, passed)
    BY <1>12 DEF ProbeContext
  <2>2. CASE passed
    <3>1. validated' = validated \cup {c} /\ c \in DOMAIN contexts' /\ contexts'[c] = passed
      <4>1. c \in DOMAIN With(contexts, c, passed) /\ With(contexts, c, passed)[c] = passed
        BY DEF With
      <4>2. QED
        BY <2>1, <2>2, <4>1 DEF Validate
    <3>2. QED
      BY <1>b, <2>2, <3>1, FitStays DEF ValidatedInv
  <2>3. CASE ~passed
    BY <2>1, <2>3, <1>c DEF Validate
  <2>4. QED
    BY <2>2, <2>3
<1>13. CASE GiveUpContext
  BY <1>13, <1>c DEF GiveUpContext, memory
<1>14. CASE RecallReseat
  BY <1>14, <1>c DEF RecallReseat
<1>15. CASE StartReseat
  BY <1>15, <1>c DEF StartReseat
<1>16. CASE JournalReseat
  BY <1>16, <1>c DEF JournalReseat
<1>17. CASE Escape
  BY <1>17, <1>c DEF Escape, memory
<1>18. CASE Decide
  BY <1>18, <1>c DEF Decide
<1>19. CASE RunnerUp
  BY <1>19, <1>c DEF RunnerUp
<1>20. CASE StartConfirmation
  BY <1>20, <1>c DEF StartConfirmation
<1>21. CASE JournalConfirmation
  BY <1>21, <1>c DEF JournalConfirmation
<1>22. CASE RefuseConfirmation
  BY <1>22, <1>c DEF RefuseConfirmation
<1>23. CASE CloseConfirmation
  BY <1>23, <1>c DEF CloseConfirmation
<1>24. CASE Fallback
  BY <1>24, <1>c DEF Fallback
<1>25. CASE NoFeasible
  BY <1>25, <1>c DEF NoFeasible, End, memory
<1>26. CASE ValidateWithCli
  BY <1>26, <1>c DEF ValidateWithCli, memory
<1>27. CASE WriteOutputs
  BY <1>27, <1>c DEF WriteOutputs, memory
<1>28. CASE AppendRecord
  BY <1>28, <1>c DEF AppendRecord, memory
<1>29. CASE EndSession
  BY <1>29, <1>c DEF EndSession, End, memory
<1>30. CASE Interrupt
  BY <1>30, <1>c DEF Interrupt, memory
<1>31. CASE ClockExpires
  BY <1>31, <1>c DEF ClockExpires, memory
<1>32. CASE Abort
  BY <1>32, <1>c DEF Abort, Cut, End, memory
<1>33. CASE IoFailure
  BY <1>33, <1>c DEF IoFailure, Cut, End, memory
<1>34. CASE Crash
  BY <1>34, <1>c DEF Crash, Cut, memory
<1>35. CASE Resume
  BY <1>35 DEF Resume, FreshMemory, ValidatedInv
<1>36. CASE Finished
  BY <1>36, <1>c DEF Finished, vars, memory
<1>37. CASE UNCHANGED vars
  BY <1>37, <1>c DEF vars, memory
<1>38. QED
  BY <1>1, <1>2, <1>3, <1>4, <1>5, <1>6, <1>7, <1>8, <1>9, <1>10, <1>11, <1>12, <1>13, <1>14,
     <1>15, <1>16, <1>17, <1>18, <1>19, <1>20, <1>21, <1>22, <1>23, <1>24, <1>25, <1>26, <1>27,
     <1>28, <1>29, <1>30, <1>31, <1>32, <1>33, <1>34, <1>35, <1>36, <1>37 DEF Next, Step

(* The incumbent has a score in the journal, is the baseline, or passed    *)
(* its context probe.                                                      *)
LEMMA IncumbentInductive ==
    TypeOK /\ TypeOK' /\ FlightInv /\ BaselineInv /\ EvidenceInv /\ [Next]_vars => IncumbentInv'
<1> SUFFICES ASSUME TypeOK, TypeOK', FlightInv, BaselineInv, EvidenceInv, [Next]_vars
             PROVE  IncumbentInv'
  OBVIOUS
<1>b. IncumbentInv
  BY DEF EvidenceInv
<1>c. incumbent' = incumbent /\ validated \subseteq validated' => IncumbentInv'
  BY <1>b, ScoresStay DEF IncumbentInv, Vouched
<1>1. CASE BaselineRun
  BY <1>1, <1>c DEF BaselineRun, End
<1>2. CASE BaselineStarved
  BY <1>2, <1>c DEF BaselineStarved, End, memory
<1>3. CASE StartTrial
  BY <1>3, <1>c DEF StartTrial
<1>4. CASE RunAuxiliary
  BY <1>4, <1>c DEF RunAuxiliary
<1>5. CASE JournalTrial
  BY <1>5, <1>c DEF JournalTrial
<1>6. CASE RunBatch
  BY <1>6, <1>c DEF RunBatch, memory
<1>7. CASE FailBatch
  BY <1>7, <1>c DEF FailBatch, memory
<1>8. CASE Promote
  <2>1. PICK c \in DOMAIN known :
               known[c] \in Scores /\ incumbent' = [cfg |-> c, score |-> known[c]]
    BY <1>8 DEF Promote
  <2>2. known' = known
    BY <1>8 DEF Promote, journal
  <2>3. QED
    BY <2>1, <2>2 DEF IncumbentInv, Vouched, HasScore, HasTrial
<1>9. CASE SearchProbe
  BY <1>9, <1>c DEF SearchProbe, memory
<1>10. CASE EndSearch
  BY <1>10, <1>c DEF EndSearch, memory
<1>11. CASE RecallContext
  BY <1>11, <1>c DEF RecallContext, Validate
<1>12. CASE ProbeContext
  BY <1>12, <1>c DEF ProbeContext, Validate
<1>13. CASE GiveUpContext
  BY <1>13, <1>c DEF GiveUpContext, memory
<1>14. CASE RecallReseat
  <2>1. PICK c \in validated \cap DOMAIN known : incumbent' = Reseated(c, known[c])
    BY <1>14 DEF RecallReseat
  <2>2. known' = known /\ validated' = validated
    BY <1>14 DEF RecallReseat, journal
  <2>3. CASE known[c] = None
    BY <1>c, <2>1, <2>2, <2>3 DEF Reseated
  <2>4. CASE known[c] # None
    <3>1. incumbent'.cfg = c
      BY <2>1, <2>4 DEF Reseated
    <3>2. known[c] \in Scores \cup {Rejected}
      BY <2>1, <2>4, ScoreFacts, TypeFacts DEF Partial
    <3>3. QED
      BY <2>1, <2>2, <3>1, <3>2 DEF IncumbentInv, Vouched, HasTrial
  <2>5. QED
    BY <2>3, <2>4
<1>15. CASE StartReseat
  BY <1>15, <1>c DEF StartReseat
<1>16. CASE JournalReseat
  <2>1. PICK score \in Measurement : /\ known' = With(known, flight.cfg, score)
                                     /\ incumbent' = Reseated(flight.cfg, score)
    BY <1>16, MeasuredFacts DEF JournalReseat
  <2>2. validated' = validated /\ flight.cfg \in validated
    BY <1>16 DEF JournalReseat, FlightInv, UnderWay
  <2>3. CASE score = None
    BY <1>c, <2>1, <2>2, <2>3 DEF Reseated
  <2>4. CASE score # None
    <3>1. flight.cfg \in DOMAIN known' /\ known'[flight.cfg] = score
      <4>1. /\ flight.cfg \in DOMAIN With(known, flight.cfg, score)
            /\ With(known, flight.cfg, score)[flight.cfg] = score
        BY DEF With
      <4>2. QED
        BY <2>1, <4>1
    <3>2. incumbent'.cfg = flight.cfg
      BY <2>1, <2>4 DEF Reseated
    <3>3. score \in Scores \cup {Rejected}
      BY <2>4, ScoreFacts
    <3>4. QED
      BY <2>2, <3>1, <3>2, <3>3 DEF IncumbentInv, Vouched, HasTrial
  <2>5. QED
    BY <2>3, <2>4
<1>17. CASE Escape
  BY <1>17, <1>c DEF Escape, memory
<1>18. CASE Decide
  BY <1>18, <1>c DEF Decide
<1>19. CASE RunnerUp
  BY <1>19, <1>c DEF RunnerUp
<1>20. CASE StartConfirmation
  BY <1>20, <1>c DEF StartConfirmation
<1>21. CASE JournalConfirmation
  BY <1>21, <1>c DEF JournalConfirmation
<1>22. CASE RefuseConfirmation
  BY <1>22, <1>c DEF RefuseConfirmation
<1>23. CASE CloseConfirmation
  BY <1>23, <1>c DEF CloseConfirmation
<1>24. CASE Fallback
  BY <1>24, <1>c DEF Fallback
<1>25. CASE NoFeasible
  BY <1>25, <1>c DEF NoFeasible, End, memory
<1>26. CASE ValidateWithCli
  BY <1>26, <1>c DEF ValidateWithCli, memory
<1>27. CASE WriteOutputs
  BY <1>27, <1>c DEF WriteOutputs, memory
<1>28. CASE AppendRecord
  BY <1>28, <1>c DEF AppendRecord, memory
<1>29. CASE EndSession
  BY <1>29, <1>c DEF EndSession, End, memory
<1>30. CASE Interrupt
  BY <1>30, <1>c DEF Interrupt, memory
<1>31. CASE ClockExpires
  BY <1>31, <1>c DEF ClockExpires, memory
<1>32. CASE Abort
  BY <1>32, <1>c DEF Abort, Cut, End, memory
<1>33. CASE IoFailure
  BY <1>33, <1>c DEF IoFailure, Cut, End, memory
<1>34. CASE Crash
  BY <1>34, <1>c DEF Crash, Cut, memory
<1>35. CASE Resume
  BY <1>35 DEF Resume, FreshMemory, IncumbentInv, Vouched, HasTrial, HasScore
<1>36. CASE Finished
  BY <1>36, <1>c DEF Finished, vars, memory
<1>37. CASE UNCHANGED vars
  BY <1>37, <1>c DEF vars, memory
<1>38. QED
  BY <1>1, <1>2, <1>3, <1>4, <1>5, <1>6, <1>7, <1>8, <1>9, <1>10, <1>11, <1>12, <1>13, <1>14,
     <1>15, <1>16, <1>17, <1>18, <1>19, <1>20, <1>21, <1>22, <1>23, <1>24, <1>25, <1>26, <1>27,
     <1>28, <1>29, <1>30, <1>31, <1>32, <1>33, <1>34, <1>35, <1>36, <1>37 DEF Next, Step

(* Only candidates within the cap that have a score, or passed their       *)
(* context probe, are confirmed.                                           *)
LEMMA AttemptInductive ==
    TypeOK /\ TypeOK' /\ FlightInv /\ BaselineInv /\ EvidenceInv /\ [Next]_vars => AttemptInv'
<1> SUFFICES ASSUME TypeOK, TypeOK', FlightInv, BaselineInv, EvidenceInv, [Next]_vars
             PROVE  AttemptInv'
  OBVIOUS
<1>b. AttemptInv
  BY DEF EvidenceInv
<1>c. attempt'.cfg = attempt.cfg /\ validated' = validated
          /\ (pc' \in {"confirm", "confirming"} => pc \in {"confirm", "confirming"})
      => AttemptInv'
  BY <1>b, ScoresStay, CapStays DEF AttemptInv, Vouched
<1>1. CASE BaselineRun
  BY <1>1 DEF BaselineRun, End, Goto, AfterBaseline, control, AttemptInv
<1>2. CASE BaselineStarved
  BY <1>2 DEF BaselineStarved, End, AttemptInv
<1>3. CASE StartTrial
  BY <1>3 DEF StartTrial, Goto, AttemptInv
<1>4. CASE RunAuxiliary
  BY <1>4, <1>c DEF RunAuxiliary, control
<1>5. CASE JournalTrial
  BY <1>5 DEF JournalTrial, Goto, AttemptInv
<1>6. CASE RunBatch
  BY <1>6 DEF RunBatch, control, AttemptInv
<1>7. CASE FailBatch
  BY <1>7 DEF FailBatch, control, AttemptInv
<1>8. CASE Promote
  BY <1>8 DEF Promote, control, AttemptInv
<1>9. CASE SearchProbe
  BY <1>9 DEF SearchProbe, control, AttemptInv
<1>10. CASE EndSearch
  BY <1>10 DEF EndSearch, Goto, AttemptInv
<1>11. CASE RecallContext
  BY <1>11 DEF RecallContext, Validate, Goto, Validate, control, AttemptInv
<1>12. CASE ProbeContext
  BY <1>12 DEF ProbeContext, Validate, Goto, Validate, control, AttemptInv
<1>13. CASE GiveUpContext
  BY <1>13 DEF GiveUpContext, Goto, AttemptInv
<1>14. CASE RecallReseat
  BY <1>14 DEF RecallReseat, Goto, AttemptInv
<1>15. CASE StartReseat
  BY <1>15 DEF StartReseat, Goto, AttemptInv
<1>16. CASE JournalReseat
  BY <1>16 DEF JournalReseat, Goto, AttemptInv
<1>17. CASE Escape
  BY <1>17 DEF Escape, AttemptInv
<1>18. CASE Decide
  <2>1. \/ pc' \notin {"confirm", "confirming"}
        \/ ~OverCap(incumbent.cfg) /\ attempt'.cfg = incumbent.cfg
    BY <1>18 DEF Decide, BeginAttempt, Refuse, Goto, AfterFailure
  <2>2. CASE pc' \notin {"confirm", "confirming"}
    BY <2>2 DEF AttemptInv
  <2>3. CASE ~OverCap(incumbent.cfg) /\ attempt'.cfg = incumbent.cfg
    <3>1. Vouched(known, incumbent.cfg)
      BY DEF EvidenceInv, IncumbentInv
    <3>2. Allowed(options, baseline, incumbent.cfg) /\ validated' = validated
      BY <1>18, <2>3, CapFacts DEF Decide
    <3>3. QED
      BY <2>3, <3>1, <3>2, ScoresStay, CapStays DEF AttemptInv, Vouched
  <2>4. QED
    BY <2>1, <2>2, <2>3
<1>19. CASE RunnerUp
  <2>1. \/ pc' \notin {"confirm", "confirming"}
        \/ \E c \in Best(Eligible \ {incumbent.cfg}) : attempt'.cfg = c
    BY <1>19 DEF RunnerUp, BeginAttempt, Refuse, Goto, AfterFailure
  <2>2. CASE pc' \notin {"confirm", "confirming"}
    BY <2>2 DEF AttemptInv
  <2>3. CASE \E c \in Best(Eligible \ {incumbent.cfg}) : attempt'.cfg = c
    <3>1. PICK c \in Eligible : attempt'.cfg = c
      BY <2>3 DEF Best
    <3>2. HasScore(known, c) /\ Allowed(options, baseline, c)
      BY <3>1, CapFacts DEF Eligible, HasScore
    <3>3. QED
      BY <3>1, <3>2, ScoresStay, CapStays DEF AttemptInv, Vouched, HasScore, HasTrial
  <2>4. QED
    BY <2>1, <2>2, <2>3
<1>20. CASE StartConfirmation
  BY <1>20, <1>c DEF StartConfirmation
<1>21. CASE JournalConfirmation
  <2>1. PICK score \in Scores \cup {None}, k \in 1..options.runs :
               attempt' = [attempt EXCEPT !.runs[k] = score]
    BY <1>21, RunJournaled
  <2>2. attempt'.cfg = attempt.cfg
    BY <2>1, MemoryFacts DEF AttemptOK
  <2>3. QED
    BY <1>21, <1>c, <2>2 DEF JournalConfirmation
<1>22. CASE RefuseConfirmation
  BY <1>22, <1>c DEF RefuseConfirmation, Refuse
<1>23. CASE CloseConfirmation
  BY <1>23, <1>c DEF CloseConfirmation
<1>24. CASE Fallback
  BY <1>24 DEF Fallback, Goto, AfterWinner, AttemptInv
<1>25. CASE NoFeasible
  BY <1>25 DEF NoFeasible, End, AttemptInv
<1>26. CASE ValidateWithCli
  BY <1>26 DEF ValidateWithCli, Goto, AttemptInv
<1>27. CASE WriteOutputs
  BY <1>27 DEF WriteOutputs, Goto, AttemptInv
<1>28. CASE AppendRecord
  BY <1>28 DEF AppendRecord, Goto, AttemptInv
<1>29. CASE EndSession
  BY <1>29 DEF EndSession, End, AttemptInv
<1>30. CASE Interrupt
  BY <1>30, <1>c DEF Interrupt, control, memory
<1>31. CASE ClockExpires
  BY <1>31, <1>c DEF ClockExpires, control, memory
<1>32. CASE Abort
  BY <1>32 DEF Abort, End, AttemptInv
<1>33. CASE IoFailure
  BY <1>33 DEF IoFailure, End, AttemptInv
<1>34. CASE Crash
  BY <1>34 DEF Crash, AttemptInv
<1>35. CASE Resume
  BY <1>35 DEF Resume, FreshMemory, AfterBaseline, AttemptInv
<1>36. CASE Finished
  BY <1>36, <1>c DEF Finished, vars, control, memory
<1>37. CASE UNCHANGED vars
  BY <1>37, <1>c DEF vars, control, memory
<1>38. QED
  BY <1>1, <1>2, <1>3, <1>4, <1>5, <1>6, <1>7, <1>8, <1>9, <1>10, <1>11, <1>12, <1>13, <1>14,
     <1>15, <1>16, <1>17, <1>18, <1>19, <1>20, <1>21, <1>22, <1>23, <1>24, <1>25, <1>26, <1>27,
     <1>28, <1>29, <1>30, <1>31, <1>32, <1>33, <1>34, <1>35, <1>36, <1>37 DEF Next, Step

(* What is recommended is within the cap and was tried; what is called     *)
(* confirmed has its confirmation and its context probe in the journal,    *)
(* and anything else has a score.                                          *)
LEMMA WinnerInductive ==
    TypeOK /\ FlightInv /\ BaselineInv /\ RunsInv /\ EvidenceInv /\ [Next]_vars => WinnerInv'
<1> SUFFICES ASSUME TypeOK, FlightInv, BaselineInv, RunsInv, EvidenceInv, [Next]_vars
             PROVE  WinnerInv'
  OBVIOUS
<1>a. WinnerInv /\ Recommending
  BY DEF EvidenceInv, FlightInv
<1>b. options' = options
  BY OptionsStay
<1>c. (pc' \in Winning => pc \in Winning) /\ rec' = rec /\ validated' = validated => WinnerInv'
  <2> SUFFICES ASSUME pc' \in Winning, pc \in Winning, rec' = rec, validated' = validated
               PROVE  WinnerInv'
    BY DEF WinnerInv
  <2>1. rec.cfg \in Configs
    BY <1>a DEF Recommending
  <2>2. /\ Allowed(options', baseline', rec.cfg) /\ HasTrial(known', rec.cfg)
        /\ ~rec.confirmed => HasScore(known', rec.cfg)
    BY <1>a, ScoresStay, CapStays DEF WinnerInv
  <2>3. rec.confirmed => Proven(options', confirms', rec.cfg)
    BY <1>a, <2>1, ProofStays DEF WinnerInv
  <2>4. rec.confirmed => (options'.ctx => rec.cfg \in validated')
    BY <1>a, <1>b DEF WinnerInv
  <2>5. QED
    BY <2>2, <2>3, <2>4 DEF WinnerInv
<1>1. CASE BaselineRun
  BY <1>1 DEF BaselineRun, End, Goto, control, AfterBaseline, WinnerInv, Winning
<1>2. CASE BaselineStarved
  BY <1>2 DEF BaselineStarved, End, WinnerInv, Winning
<1>3. CASE StartTrial
  BY <1>3 DEF StartTrial, Goto, WinnerInv, Winning
<1>4. CASE RunAuxiliary
  BY <1>4 DEF RunAuxiliary, control, WinnerInv, Winning
<1>5. CASE JournalTrial
  BY <1>5 DEF JournalTrial, Goto, WinnerInv, Winning
<1>6. CASE RunBatch
  BY <1>6 DEF RunBatch, control, WinnerInv, Winning
<1>7. CASE FailBatch
  BY <1>7 DEF FailBatch, control, WinnerInv, Winning
<1>8. CASE Promote
  BY <1>8 DEF Promote, control, WinnerInv, Winning
<1>9. CASE SearchProbe
  BY <1>9 DEF SearchProbe, control, WinnerInv, Winning
<1>10. CASE EndSearch
  BY <1>10 DEF EndSearch, Goto, WinnerInv, Winning
<1>11. CASE RecallContext
  BY <1>11 DEF RecallContext, Validate, Goto, control, Validate, WinnerInv, Winning
<1>12. CASE ProbeContext
  BY <1>12 DEF ProbeContext, Validate, Goto, control, Validate, WinnerInv, Winning
<1>13. CASE GiveUpContext
  BY <1>13 DEF GiveUpContext, Goto, WinnerInv, Winning
<1>14. CASE RecallReseat
  BY <1>14 DEF RecallReseat, Goto, WinnerInv, Winning
<1>15. CASE StartReseat
  BY <1>15 DEF StartReseat, Goto, WinnerInv, Winning
<1>16. CASE JournalReseat
  BY <1>16 DEF JournalReseat, Goto, WinnerInv, Winning
<1>17. CASE Escape
  BY <1>17 DEF Escape, WinnerInv, Winning
<1>18. CASE Decide
  BY <1>18 DEF Decide, BeginAttempt, Refuse, Goto, AfterFailure, WinnerInv, Winning
<1>19. CASE RunnerUp
  BY <1>19 DEF RunnerUp, BeginAttempt, Refuse, Goto, AfterFailure, WinnerInv, Winning
<1>20. CASE StartConfirmation
  BY <1>20 DEF StartConfirmation, Goto, WinnerInv, Winning
<1>21. CASE JournalConfirmation
  BY <1>21 DEF JournalConfirmation, Goto, AfterFailure, WinnerInv, Winning
<1>22. CASE RefuseConfirmation
  BY <1>22 DEF RefuseConfirmation, Refuse, Goto, AfterFailure, WinnerInv, Winning
<1>23. CASE CloseConfirmation
  <2> DEFINE c == attempt.cfg
  <2>1. c \in Configs /\ Allowed(options, baseline, c) /\ Vouched(known, c)
    BY <1>23 DEF CloseConfirmation, FlightInv, Attempting, EvidenceInv, AttemptInv
  <2>2. CASE Confirmed(attempt.runs)
    <3>1. rec' = [cfg |-> c, confirmed |-> ContextConfirmed(c)]
      BY <1>23, <2>2 DEF CloseConfirmation
    <3>2. rec'.cfg = c /\ rec'.confirmed = ContextConfirmed(c)
      BY <3>1
    <3>3. Proven(options, confirms, c)
      <4>1. attempt.runs \in [1..options.runs -> Scores \cup {None}]
        BY MemoryFacts DEF AttemptOK
      <4>2. \A i \in 1..options.runs : attempt.runs[i] # None
        BY <2>2 DEF Confirmed, Missing
      <4>3. attempt.runs \in [1..options.runs -> Scores]
        BY <4>1, <4>2
      <4>4. \A i \in 1..options.runs : Has(confirms[c][i], build, attempt.runs[i])
        BY <1>23, <4>2 DEF CloseConfirmation, RunsInv, InHand, Reflects
      <4>5. build \in options.builds
        BY DEF RunsInv
      <4>6. Total(attempt.runs) > options.runs * Threshold
        BY <2>2 DEF Confirmed
      <4>7. QED
        BY <4>3, <4>4, <4>5, <4>6 DEF Proven
    <3>4. Proven(options', confirms', c)
      BY <2>1, <3>3, ProofStays
    <3>5. validated' = validated /\ options' = options
      BY <1>23 DEF CloseConfirmation
    <3>6. rec'.confirmed => (options'.ctx => c \in validated')
      BY <3>2, <3>5 DEF ContextConfirmed
    <3>7. ~rec'.confirmed => HasScore(known, c)
      BY <2>1, <3>2 DEF ContextConfirmed, Vouched
    <3>8. /\ Allowed(options', baseline', c) /\ HasTrial(known', c)
          /\ ~rec'.confirmed => HasScore(known', c)
      BY <2>1, <3>7, ScoresStay, CapStays DEF Vouched
    <3> HIDE DEF c
    <3>9. QED
      BY <3>2, <3>4, <3>6, <3>8 DEF WinnerInv
  <2>3. CASE ~Confirmed(attempt.runs)
    BY <1>23, <2>3 DEF CloseConfirmation, Goto, AfterFailure, Winning, WinnerInv
  <2>4. QED
    BY <2>2, <2>3
<1>24. CASE Fallback
  <2>1. PICK c \in Recommendable : rec' = [cfg |-> c, confirmed |-> FALSE]
    BY <1>24 DEF Fallback
  <2>2. Allowed(options, baseline, c) /\ HasScore(known, c)
    <3>1. CASE ~OverCap(Default)
      BY <2>1, <3>1, CapFacts DEF Recommendable, HasScore
    <3>2. CASE OverCap(Default)
      BY <2>1, <3>2, CapFacts DEF Recommendable, Best, Eligible, HasScore
    <3>3. QED
      BY <3>1, <3>2
  <2>3. rec'.cfg = c /\ rec'.confirmed = FALSE
    BY <2>1
  <2>4. /\ Allowed(options', baseline', c) /\ HasScore(known', c) /\ HasTrial(known', c)
    BY <2>2, ScoresStay, CapStays
  <2>5. QED
    BY <2>3, <2>4 DEF WinnerInv
<1>25. CASE NoFeasible
  BY <1>25 DEF NoFeasible, End, WinnerInv, Winning
<1>26. CASE ValidateWithCli
  BY <1>26, <1>c DEF ValidateWithCli, memory, Winning
<1>27. CASE WriteOutputs
  BY <1>27, <1>c DEF WriteOutputs, memory, Winning
<1>28. CASE AppendRecord
  BY <1>28, <1>c DEF AppendRecord, memory, Winning
<1>29. CASE EndSession
  BY <1>29 DEF EndSession, End, WinnerInv, Winning
<1>30. CASE Interrupt
  BY <1>30, <1>c DEF Interrupt, control, memory
<1>31. CASE ClockExpires
  BY <1>31, <1>c DEF ClockExpires, control, memory
<1>32. CASE Abort
  BY <1>32 DEF Abort, End, WinnerInv, Winning
<1>33. CASE IoFailure
  BY <1>33 DEF IoFailure, End, WinnerInv, Winning
<1>34. CASE Crash
  BY <1>34 DEF Crash, WinnerInv, Winning
<1>35. CASE Resume
  BY <1>35 DEF Resume, FreshMemory, AfterBaseline, WinnerInv, Winning
<1>36. CASE Finished
  BY <1>36, <1>c DEF Finished, vars, control, memory
<1>37. CASE UNCHANGED vars
  BY <1>37, <1>c DEF vars, control, memory
<1>38. QED
  BY <1>1, <1>2, <1>3, <1>4, <1>5, <1>6, <1>7, <1>8, <1>9, <1>10, <1>11, <1>12, <1>13, <1>14,
     <1>15, <1>16, <1>17, <1>18, <1>19, <1>20, <1>21, <1>22, <1>23, <1>24, <1>25, <1>26, <1>27,
     <1>28, <1>29, <1>30, <1>31, <1>32, <1>33, <1>34, <1>35, <1>36, <1>37 DEF Next, Step

(* What is about to be registered has been written.                        *)
LEMMA RegisteringInductive ==
    EvidenceInv /\ [Next]_vars => RegisteringInv'
<1> SUFFICES ASSUME EvidenceInv, [Next]_vars
             PROVE  RegisteringInv'
  OBVIOUS
<1>a. RegisteringInv
  BY DEF EvidenceInv
<1>1. CASE BaselineRun
  BY <1>1 DEF BaselineRun, End, Goto, control, AfterBaseline, RegisteringInv
<1>2. CASE BaselineStarved
  BY <1>2 DEF BaselineStarved, End, RegisteringInv
<1>3. CASE StartTrial
  BY <1>3 DEF StartTrial, Goto, RegisteringInv
<1>4. CASE RunAuxiliary
  BY <1>4 DEF RunAuxiliary, control, RegisteringInv
<1>5. CASE JournalTrial
  BY <1>5 DEF JournalTrial, Goto, RegisteringInv
<1>6. CASE RunBatch
  BY <1>6 DEF RunBatch, control, RegisteringInv
<1>7. CASE FailBatch
  BY <1>7 DEF FailBatch, control, RegisteringInv
<1>8. CASE Promote
  BY <1>8 DEF Promote, control, RegisteringInv
<1>9. CASE SearchProbe
  BY <1>9 DEF SearchProbe, control, RegisteringInv
<1>10. CASE EndSearch
  BY <1>10 DEF EndSearch, Goto, RegisteringInv
<1>11. CASE RecallContext
  BY <1>11 DEF RecallContext, Validate, Goto, control, Validate, RegisteringInv
<1>12. CASE ProbeContext
  BY <1>12 DEF ProbeContext, Validate, Goto, control, Validate, RegisteringInv
<1>13. CASE GiveUpContext
  BY <1>13 DEF GiveUpContext, Goto, RegisteringInv
<1>14. CASE RecallReseat
  BY <1>14 DEF RecallReseat, Goto, RegisteringInv
<1>15. CASE StartReseat
  BY <1>15 DEF StartReseat, Goto, RegisteringInv
<1>16. CASE JournalReseat
  BY <1>16 DEF JournalReseat, Goto, RegisteringInv
<1>17. CASE Escape
  BY <1>17 DEF Escape, RegisteringInv
<1>18. CASE Decide
  BY <1>18 DEF Decide, BeginAttempt, Refuse, Goto, AfterFailure, RegisteringInv
<1>19. CASE RunnerUp
  BY <1>19 DEF RunnerUp, BeginAttempt, Refuse, Goto, AfterFailure, RegisteringInv
<1>20. CASE StartConfirmation
  BY <1>20 DEF StartConfirmation, Goto, RegisteringInv
<1>21. CASE JournalConfirmation
  BY <1>21 DEF JournalConfirmation, Goto, AfterFailure, RegisteringInv
<1>22. CASE RefuseConfirmation
  BY <1>22 DEF RefuseConfirmation, Refuse, Goto, AfterFailure, RegisteringInv
<1>23. CASE CloseConfirmation
  BY <1>23 DEF CloseConfirmation, Goto, AfterFailure, AfterWinner, RegisteringInv
<1>24. CASE Fallback
  BY <1>24 DEF Fallback, Goto, AfterWinner, RegisteringInv
<1>25. CASE NoFeasible
  BY <1>25 DEF NoFeasible, End, RegisteringInv
<1>26. CASE ValidateWithCli
  BY <1>26 DEF ValidateWithCli, Goto, RegisteringInv
<1>27. CASE WriteOutputs
  BY <1>27 DEF WriteOutputs, Goto, memory, RegisteringInv
<1>28. CASE AppendRecord
  BY <1>28 DEF AppendRecord, Goto, RegisteringInv
<1>29. CASE EndSession
  BY <1>29 DEF EndSession, End, RegisteringInv
<1>30. CASE Interrupt
  BY <1>30, <1>a DEF Interrupt, control, memory, disk, RegisteringInv
<1>31. CASE ClockExpires
  BY <1>31, <1>a DEF ClockExpires, control, memory, disk, RegisteringInv
<1>32. CASE Abort
  BY <1>32 DEF Abort, End, RegisteringInv
<1>33. CASE IoFailure
  BY <1>33 DEF IoFailure, End, RegisteringInv
<1>34. CASE Crash
  BY <1>34 DEF Crash, RegisteringInv
<1>35. CASE Resume
  BY <1>35 DEF Resume, FreshMemory, AfterBaseline, RegisteringInv
<1>36. CASE Finished
  BY <1>36, <1>a DEF Finished, vars, control, memory, disk, RegisteringInv
<1>37. CASE UNCHANGED vars
  BY <1>37, <1>a DEF vars, control, memory, disk, RegisteringInv
<1>38. QED
  BY <1>1, <1>2, <1>3, <1>4, <1>5, <1>6, <1>7, <1>8, <1>9, <1>10, <1>11, <1>12, <1>13, <1>14,
     <1>15, <1>16, <1>17, <1>18, <1>19, <1>20, <1>21, <1>22, <1>23, <1>24, <1>25, <1>26, <1>27,
     <1>28, <1>29, <1>30, <1>31, <1>32, <1>33, <1>34, <1>35, <1>36, <1>37 DEF Next, Step

(* What is registered has its evidence when it is appended, and keeps it.  *)
LEMMA RegistryInductive ==
    TypeOK /\ FlightInv /\ BaselineInv /\ RunsInv /\ EvidenceInv /\ [Next]_vars => RegistryInv'
<1> SUFFICES ASSUME TypeOK, FlightInv, BaselineInv, RunsInv, EvidenceInv, [Next]_vars
             PROVE  RegistryInv'
  OBVIOUS
<1>a. registry \subseteq Configs /\ RegistryInv
  BY DEF TypeOK, EvidenceInv
<1>b. \A c \in registry : /\ Allowed(options', baseline', c) /\ Proven(options', confirms', c)
                        /\ Fits(options', contexts', c)
  BY <1>a, CapStays, ProofStays, FitStays DEF RegistryInv
<1>c. registry' = registry => RegistryInv'
  BY <1>b DEF RegistryInv
<1>1. CASE BaselineRun
  BY <1>1, <1>c DEF BaselineRun, End, disk
<1>2. CASE BaselineStarved
  BY <1>2, <1>c DEF BaselineStarved, End, disk
<1>3. CASE StartTrial
  BY <1>3, <1>c DEF StartTrial, disk
<1>4. CASE RunAuxiliary
  BY <1>4, <1>c DEF RunAuxiliary, disk
<1>5. CASE JournalTrial
  BY <1>5, <1>c DEF JournalTrial, disk
<1>6. CASE RunBatch
  BY <1>6, <1>c DEF RunBatch, disk
<1>7. CASE FailBatch
  BY <1>7, <1>c DEF FailBatch, disk
<1>8. CASE Promote
  BY <1>8, <1>c DEF Promote, disk
<1>9. CASE SearchProbe
  BY <1>9, <1>c DEF SearchProbe, disk
<1>10. CASE EndSearch
  BY <1>10, <1>c DEF EndSearch, disk
<1>11. CASE RecallContext
  BY <1>11, <1>c DEF RecallContext, Validate, disk
<1>12. CASE ProbeContext
  BY <1>12, <1>c DEF ProbeContext, Validate, disk
<1>13. CASE GiveUpContext
  BY <1>13, <1>c DEF GiveUpContext, disk
<1>14. CASE RecallReseat
  BY <1>14, <1>c DEF RecallReseat, disk
<1>15. CASE StartReseat
  BY <1>15, <1>c DEF StartReseat, disk
<1>16. CASE JournalReseat
  BY <1>16, <1>c DEF JournalReseat, disk
<1>17. CASE Escape
  BY <1>17, <1>c DEF Escape, disk
<1>18. CASE Decide
  BY <1>18, <1>c DEF Decide, disk
<1>19. CASE RunnerUp
  BY <1>19, <1>c DEF RunnerUp, disk
<1>20. CASE StartConfirmation
  BY <1>20, <1>c DEF StartConfirmation, disk
<1>21. CASE JournalConfirmation
  BY <1>21, <1>c DEF JournalConfirmation, disk
<1>22. CASE RefuseConfirmation
  BY <1>22, <1>c DEF RefuseConfirmation, disk
<1>23. CASE CloseConfirmation
  BY <1>23, <1>c DEF CloseConfirmation, disk
<1>24. CASE Fallback
  BY <1>24, <1>c DEF Fallback, disk
<1>25. CASE NoFeasible
  BY <1>25, <1>c DEF NoFeasible, End
<1>26. CASE ValidateWithCli
  BY <1>26, <1>c DEF ValidateWithCli, disk
<1>27. CASE WriteOutputs
  BY <1>27, <1>c DEF WriteOutputs
<1>28. CASE AppendRecord
  <2> DEFINE c == rec.cfg
  <2>1. rec.confirmed
    BY <1>28 DEF AppendRecord, EvidenceInv, RegisteringInv
  <2>2. c \in Configs
    BY <1>28 DEF AppendRecord, FlightInv, Recommending, Winning
  <2>3. /\ Allowed(options, baseline, c) /\ Proven(options, confirms, c)
        /\ options.ctx => c \in validated
    BY <1>28, <2>1 DEF AppendRecord, EvidenceInv, WinnerInv, Winning
  <2>4. Fits(options, contexts, c)
    BY <2>3 DEF EvidenceInv, ValidatedInv, Fits
  <2>5. /\ Allowed(options', baseline', c) /\ Proven(options', confirms', c)
        /\ Fits(options', contexts', c)
    BY <2>2, <2>3, <2>4, CapStays, ProofStays, FitStays
  <2>6. registry' = registry \cup {c}
    BY <1>28 DEF AppendRecord
  <2> HIDE DEF c
  <2>7. QED
    BY <1>b, <2>5, <2>6 DEF RegistryInv
<1>29. CASE EndSession
  BY <1>29, <1>c DEF EndSession, End, disk
<1>30. CASE Interrupt
  BY <1>30, <1>c DEF Interrupt, disk
<1>31. CASE ClockExpires
  BY <1>31, <1>c DEF ClockExpires, disk
<1>32. CASE Abort
  BY <1>32, <1>c DEF Abort, Cut, disk
<1>33. CASE IoFailure
  BY <1>33, <1>c DEF IoFailure, Cut, disk
<1>34. CASE Crash
  BY <1>34, <1>c DEF Crash, Cut, disk
<1>35. CASE Resume
  BY <1>35, <1>c DEF Resume, FreshMemory, disk
<1>36. CASE Finished
  BY <1>36, <1>c DEF Finished, vars, disk
<1>37. CASE UNCHANGED vars
  BY <1>37, <1>c DEF vars, disk
<1>38. QED
  BY <1>1, <1>2, <1>3, <1>4, <1>5, <1>6, <1>7, <1>8, <1>9, <1>10, <1>11, <1>12, <1>13, <1>14,
     <1>15, <1>16, <1>17, <1>18, <1>19, <1>20, <1>21, <1>22, <1>23, <1>24, <1>25, <1>26, <1>27,
     <1>28, <1>29, <1>30, <1>31, <1>32, <1>33, <1>34, <1>35, <1>36, <1>37 DEF Next, Step

(* What is written has its evidence, and a confirmed one that is not       *)
(* registered was cut off.                                                 *)
LEMMA OutputsInductive ==
    TypeOK /\ TypeOK' /\ FlightInv /\ BaselineInv /\ EvidenceInv /\ [Next]_vars => OutputsInv'
<1> SUFFICES ASSUME TypeOK, TypeOK', FlightInv, BaselineInv, EvidenceInv, [Next]_vars
             PROVE  OutputsInv'
  OBVIOUS
<1>a. OutputsInv
  BY DEF EvidenceInv
<1>b. outputs # None =>
          /\ Allowed(options', baseline', outputs.cfg) /\ HasTrial(known', outputs.cfg)
          /\ ~outputs.confirmed => HasScore(known', outputs.cfg)
  BY <1>a, CapStays, ScoresStay DEF OutputsInv
<1>c. /\ outputs' = outputs /\ registry' = registry
      /\ \/ (pc = "register" => pc' = "register") /\ lost' = lost
         \/ lost' > 0
      => OutputsInv'
  BY <1>a, <1>b DEF OutputsInv
<1>d. NumbersOK
  BY TypeFacts
<1>1. CASE BaselineRun
  BY <1>1, <1>c DEF BaselineRun, End, history, disk
<1>2. CASE BaselineStarved
  BY <1>2, <1>c DEF BaselineStarved, End, history, disk
<1>3. CASE StartTrial
  BY <1>3, <1>c DEF StartTrial, history, disk
<1>4. CASE RunAuxiliary
  BY <1>4, <1>c DEF RunAuxiliary, history, disk
<1>5. CASE JournalTrial
  BY <1>5, <1>c DEF JournalTrial, history, disk
<1>6. CASE RunBatch
  BY <1>6, <1>c DEF RunBatch, history, disk
<1>7. CASE FailBatch
  BY <1>7, <1>c DEF FailBatch, history, disk
<1>8. CASE Promote
  BY <1>8, <1>c DEF Promote, history, disk
<1>9. CASE SearchProbe
  BY <1>9, <1>c DEF SearchProbe, history, disk
<1>10. CASE EndSearch
  BY <1>10, <1>c DEF EndSearch, history, disk
<1>11. CASE RecallContext
  BY <1>11, <1>c DEF RecallContext, Validate, history, disk
<1>12. CASE ProbeContext
  BY <1>12, <1>c DEF ProbeContext, Validate, history, disk
<1>13. CASE GiveUpContext
  BY <1>13, <1>c DEF GiveUpContext, history, disk
<1>14. CASE RecallReseat
  BY <1>14, <1>c DEF RecallReseat, history, disk
<1>15. CASE StartReseat
  BY <1>15, <1>c DEF StartReseat, history, disk
<1>16. CASE JournalReseat
  BY <1>16, <1>c DEF JournalReseat, history, disk
<1>17. CASE Escape
  BY <1>17, <1>c DEF Escape, history, disk
<1>18. CASE Decide
  BY <1>18, <1>c DEF Decide, history, disk
<1>19. CASE RunnerUp
  BY <1>19, <1>c DEF RunnerUp, history, disk
<1>20. CASE StartConfirmation
  BY <1>20, <1>c DEF StartConfirmation, history, disk
<1>21. CASE JournalConfirmation
  BY <1>21, <1>c DEF JournalConfirmation, history, disk
<1>22. CASE RefuseConfirmation
  BY <1>22, <1>c DEF RefuseConfirmation, history, disk
<1>23. CASE CloseConfirmation
  BY <1>23, <1>c DEF CloseConfirmation, history, disk
<1>24. CASE Fallback
  BY <1>24, <1>c DEF Fallback, history, disk
<1>25. CASE NoFeasible
  BY <1>25 DEF NoFeasible, OutputsInv
<1>26. CASE ValidateWithCli
  BY <1>26, <1>c DEF ValidateWithCli, history, disk
<1>27. CASE WriteOutputs
  <2>1. outputs' = rec /\ pc' = (IF rec.confirmed THEN "register" ELSE "end")
    BY <1>27 DEF WriteOutputs, Goto
  <2>2. /\ Allowed(options', baseline', rec.cfg) /\ HasTrial(known', rec.cfg)
        /\ ~rec.confirmed => HasScore(known', rec.cfg)
    BY <1>27, ScoresStay, CapStays DEF WriteOutputs, EvidenceInv, WinnerInv, Winning
  <2>3. QED
    BY <2>1, <2>2 DEF OutputsInv
<1>28. CASE AppendRecord
  <2>1. outputs' = rec /\ registry' = registry \cup {rec.cfg}
    BY <1>28 DEF AppendRecord, EvidenceInv, RegisteringInv
  <2>2. /\ Allowed(options', baseline', rec.cfg) /\ HasTrial(known', rec.cfg)
        /\ ~rec.confirmed => HasScore(known', rec.cfg)
    BY <1>28, ScoresStay, CapStays DEF AppendRecord, EvidenceInv, WinnerInv, Winning
  <2>3. QED
    BY <2>1, <2>2 DEF OutputsInv
<1>29. CASE EndSession
  BY <1>29, <1>c DEF EndSession, End, history, disk
<1>30. CASE Interrupt
  BY <1>30, <1>c DEF Interrupt, control, history, disk
<1>31. CASE ClockExpires
  BY <1>31, <1>c DEF ClockExpires, control, history, disk
<1>32. CASE Abort
  <2>1. UNCHANGED disk /\ lost' = lost + 1
    BY <1>32 DEF Abort, Cut
  <2>2. lost' > 0
    BY <1>d, <2>1 DEF NumbersOK
  <2>3. QED
    BY <1>c, <2>1, <2>2 DEF disk
<1>33. CASE IoFailure
  <2>1. UNCHANGED disk /\ lost' = lost + 1
    BY <1>33 DEF IoFailure, Cut
  <2>2. lost' > 0
    BY <1>d, <2>1 DEF NumbersOK
  <2>3. QED
    BY <1>c, <2>1, <2>2 DEF disk
<1>34. CASE Crash
  <2>1. UNCHANGED disk /\ lost' = lost + 1
    BY <1>34 DEF Crash, Cut
  <2>2. lost' > 0
    BY <1>d, <2>1 DEF NumbersOK
  <2>3. QED
    BY <1>c, <2>1, <2>2 DEF disk
<1>35. CASE Resume
  BY <1>35, <1>c DEF Resume, Live, disk
<1>36. CASE Finished
  BY <1>36, <1>c DEF Finished, vars, control, history, disk
<1>37. CASE UNCHANGED vars
  BY <1>37, <1>c DEF vars, control, history, disk
<1>38. QED
  BY <1>1, <1>2, <1>3, <1>4, <1>5, <1>6, <1>7, <1>8, <1>9, <1>10, <1>11, <1>12, <1>13, <1>14,
     <1>15, <1>16, <1>17, <1>18, <1>19, <1>20, <1>21, <1>22, <1>23, <1>24, <1>25, <1>26, <1>27,
     <1>28, <1>29, <1>30, <1>31, <1>32, <1>33, <1>34, <1>35, <1>36, <1>37 DEF Next, Step

(* The attempt under way changes when it begins, and with its runs.        *)
LEMMA AttemptSteps ==
    ASSUME [Next]_vars
    PROVE  \/ pc' \notin {"confirm", "confirming"}
           \/ UNCHANGED <<attempt, build>> /\ pc \in {"confirm", "confirming"}
           \/ JournalConfirmation \/ Decide \/ RunnerUp
<1>1. CASE BaselineRun \/ BaselineStarved \/ StartTrial \/ RunAuxiliary \/ JournalTrial
           \/ RunBatch \/ FailBatch \/ Promote \/ SearchProbe \/ EndSearch
  BY <1>1 DEF BaselineRun, BaselineStarved, StartTrial, RunAuxiliary, JournalTrial, RunBatch,
     FailBatch, Promote, SearchProbe, EndSearch, End, Goto, control, AfterBaseline
<1>2. CASE RecallContext \/ ProbeContext \/ GiveUpContext \/ RecallReseat \/ StartReseat
           \/ JournalReseat \/ Escape
  BY <1>2 DEF RecallContext, ProbeContext, GiveUpContext, Validate, RecallReseat, StartReseat,
     JournalReseat, Escape, Goto, control
<1>3. CASE StartConfirmation \/ RefuseConfirmation \/ CloseConfirmation \/ Fallback
           \/ NoFeasible \/ ValidateWithCli \/ WriteOutputs \/ AppendRecord \/ EndSession
  BY <1>3 DEF StartConfirmation, RefuseConfirmation, Refuse, AfterFailure, CloseConfirmation,
     AfterWinner, Fallback, NoFeasible, ValidateWithCli, WriteOutputs, AppendRecord, EndSession,
     End, Goto
<1>4. CASE Interrupt \/ ClockExpires \/ Abort \/ IoFailure \/ Crash \/ Resume \/ Finished
           \/ UNCHANGED vars
  BY <1>4 DEF Interrupt, ClockExpires, Abort, IoFailure, Crash, End, Resume, FreshMemory,
     AfterBaseline, Finished, vars, control, memory
<1>5. QED
  BY <1>1, <1>2, <1>3, <1>4 DEF Next, Step

(* A new attempt has what this build measured, and lacks the rest.         *)
LEMMA AttemptBegins ==
    ASSUME TypeOK, RunsInv, UNCHANGED <<options, build, confirms>>,
           NEW c \in Configs, attempt'.cfg = c, attempt'.runs = Reusable(c)
    PROVE  InHand'
<1>1. ASSUME NEW i \in 1..options.runs
      PROVE  Reflects(Reusable(c)[i], confirms[c][i], build)
  <2> DEFINE run == confirms[c][i]
  <2>1. CASE Reused(run) # {}
    BY <2>1, ReusableFacts DEF Reflects
  <2>2. CASE Reused(run) = {}
    <3>1. Reusable(c)[i] = None
      BY <2>2, ReusableFacts
    <3>2. run \in Seq(Run) /\ InOrder(run)
      BY TypeFacts DEF RunsInv, RunsInOrder
    <3>3. ASSUME build # None, NEW n \in DOMAIN run, run[n].build = build, run[n].score # None
          PROVE  FALSE
      <4>1. n \notin Reused(run)
        BY <2>2
      <4>2. PICK m \in DOMAIN run : m > n /\ run[m].build = build
        BY <3>3, <4>1 DEF Reused
      <4>3. n < m
        BY <3>2, <4>2
      <4>4. QED
        BY <3>2, <3>3, <4>2, <4>3 DEF InOrder
    <3>4. QED
      BY <3>1, <3>3 DEF Reflects
  <2>3. QED
    BY <2>1, <2>2
<1>2. QED
  BY <1>1 DEF InHand

(* A good entry is the first good one of its build, if that can be told.   *)
LEMMA OrderKept ==
    ASSUME NEW run \in Seq(Run), NEW b, NEW score, InOrder(run), Reflects(None, run, b),
           NEW longer, DOMAIN longer = 1..(Len(run) + 1),
           \A n \in DOMAIN run : longer[n] = run[n],
           longer[Len(run) + 1] = [build |-> b, score |-> score]
    PROVE  InOrder(longer)
<1>1. SUFFICES ASSUME NEW n \in DOMAIN longer, NEW m \in DOMAIN longer, n < m,
                      longer[n].build # None, longer[m].build = longer[n].build
               PROVE  longer[n].score = None
  BY DEF InOrder
<1>2. DOMAIN run = 1..Len(run) /\ Len(run) \in Nat
  OBVIOUS
<1>3. n \in DOMAIN run /\ longer[n] = run[n]
  BY <1>1, <1>2
<1>4. CASE m = Len(run) + 1
  <2>1. longer[m].build = b
    BY <1>4
  <2>2. b # None /\ run[n].build = b
    BY <1>1, <1>3, <2>1
  <2>3. QED
    BY <1>3, <2>2 DEF Reflects
<1>5. CASE m # Len(run) + 1
  <2>1. m \in DOMAIN run /\ longer[m] = run[m]
    BY <1>2, <1>5
  <2>2. QED
    BY <1>1, <1>3, <2>1 DEF InOrder
<1>6. QED
  BY <1>4, <1>5

(* A run that ends is in order, and in hand if it was good.                *)
LEMMA RunsExtended ==
    ASSUME TypeOK, FlightInv, RunsInv, JournalConfirmation
    PROVE  RunsInOrder' /\ InHand'
<1>1. PICK score \in Scores \cup {None}, k \in 1..options.runs :
          /\ attempt.cfg \in Configs /\ attempt.runs[k] = None
          /\ Appended(attempt.cfg, k, [build |-> build, score |-> score])
          /\ attempt' = [attempt EXCEPT !.runs[k] = score]
          /\ pc' = IF score = None THEN AfterFailure(attempt.second) ELSE "confirm"
  BY RunJournaled
<1> DEFINE a == attempt.cfg
           run == confirms[a][k]
           longer == confirms'[a][k]
<1>2. options' = options /\ build' = build /\ pc = "confirming"
  BY DEF JournalConfirmation
<1>3. /\ DOMAIN longer = 1..(Len(run) + 1)
      /\ \A n \in DOMAIN run : longer[n] = run[n]
      /\ longer[Len(run) + 1] = [build |-> build, score |-> score]
  BY <1>1 DEF Appended
<1>4. run \in Seq(Run) /\ Len(run) \in Nat
  <2>1. confirms \in [Configs -> [1..options.runs -> Seq(Run)]]
    BY TypeFacts
  <2>2. a \in Configs /\ k \in 1..options.runs
    BY <1>1
  <2>3. confirms[a] \in [1..options.runs -> Seq(Run)]
    BY <2>1, <2>2
  <2>4. run \in Seq(Run)
    BY <2>2, <2>3
  <2> HIDE DEF run
  <2>5. Len(run) \in Nat
    BY <2>4
  <2>6. QED
    BY <2>4, <2>5
<1>5. InOrder(run) /\ Reflects(None, run, build)
  BY <1>1, <1>2 DEF RunsInv, RunsInOrder, InHand
<1>6. InOrder(longer)
  BY <1>3, <1>4, <1>5, OrderKept
<1>7. \A c \in Configs, i \in 1..options.runs :
          ~(c = a /\ i = k) => confirms'[c][i] = confirms[c][i]
  BY <1>1 DEF Appended
<1>8. RunsInOrder'
  <2>1. ASSUME NEW c \in Configs, NEW i \in 1..options.runs
        PROVE  InOrder(confirms'[c][i])
    BY <1>6, <1>7 DEF RunsInv, RunsInOrder
  <2>2. QED
    BY <1>2, <2>1 DEF RunsInOrder
<1>9. ASSUME score = None
      PROVE  InHand'
  BY <1>1, <1>9 DEF InHand, AfterFailure
<1>10. ASSUME score # None
       PROVE  InHand'
  <2>1. /\ attempt'.cfg = a /\ attempt'.runs[k] = score
        /\ \A i \in 1..options.runs : i # k => attempt'.runs[i] = attempt.runs[i]
    BY <1>1, MemoryFacts DEF AttemptOK
  <2>2. ASSUME NEW i \in 1..options.runs
        PROVE  Reflects(attempt'.runs[i], confirms'[a][i], build)
    <3>1. CASE i = k
      <4>1. Len(run) + 1 \in DOMAIN longer
        BY <1>3, <1>4
      <4>2. Has(longer, build, score)
        BY <1>3, <4>1 DEF Has
      <4>3. Reflects(score, longer, build)
        BY <1>10, <4>2 DEF Reflects
      <4>4. QED
        BY <2>1, <3>1, <4>3
    <3>2. CASE i # k
      <4>1. confirms'[a][i] = confirms[a][i] /\ attempt'.runs[i] = attempt.runs[i]
        BY <1>1, <1>7, <2>1, <3>2
      <4>2. Reflects(attempt.runs[i], confirms[a][i], build)
        BY <1>2 DEF RunsInv, InHand
      <4>3. QED
        BY <4>1, <4>2
    <3>3. QED
      BY <3>1, <3>2
  <2>3. QED
    BY <1>2, <2>1, <2>2 DEF InHand
<1>11. QED
  BY <1>8, <1>9, <1>10

(* A good confirmation run stays the last of its build, whatever dies, is  *)
(* rebuilt and resumes; and the attempt under way knows of it.             *)
LEMMA RunsInductive ==
    TypeOK /\ FlightInv /\ RunsInv /\ [Next]_vars => RunsInv'
<1> SUFFICES ASSUME TypeOK, FlightInv, RunsInv, [Next]_vars
             PROVE  RunsInv'
  OBVIOUS
<1>1. options' = options /\ build' \in options'.builds
  BY OptionsStay, BuildSteps DEF RunsInv
<1>2. CASE JournalConfirmation
  BY <1>1, <1>2, RunsExtended DEF RunsInv
<1>3. CASE confirms' = confirms /\ ~JournalConfirmation
  <2>1. RunsInOrder'
    BY <1>1, <1>3 DEF RunsInv, RunsInOrder
  <2>2. ASSUME pc' \notin {"confirm", "confirming"}
        PROVE  InHand'
    BY <2>2 DEF InHand
  <2>3. ASSUME UNCHANGED <<attempt, build>>, pc \in {"confirm", "confirming"}
        PROVE  InHand'
    BY <1>1, <1>3, <2>3 DEF RunsInv, InHand
  <2>4. ASSUME Decide
        PROVE  InHand'
    <3>1. \/ pc' \notin {"confirm", "confirming"}
          \/ attempt'.cfg = incumbent.cfg /\ attempt'.runs = Reusable(incumbent.cfg)
      BY <2>4 DEF Decide, BeginAttempt, Refuse, Goto, AfterFailure
    <3>2. incumbent.cfg \in Configs /\ UNCHANGED <<options, build, confirms>>
      BY <1>3, <2>4, MemoryFacts DEF IncumbentOK, Decide
    <3>3. QED
      BY <2>2, <3>1, <3>2, AttemptBegins
  <2>5. ASSUME RunnerUp
        PROVE  InHand'
    <3>1. \/ pc' \notin {"confirm", "confirming"}
          \/ \E c \in Best(Eligible \ {incumbent.cfg}) :
                attempt'.cfg = c /\ attempt'.runs = Reusable(c)
      BY <2>5 DEF RunnerUp, BeginAttempt, Refuse, Goto, AfterFailure
    <3>2. /\ Best(Eligible \ {incumbent.cfg}) \subseteq Configs
          /\ UNCHANGED <<options, build, confirms>>
      BY <1>3, <2>5, ChoiceFacts DEF RunnerUp
    <3>3. QED
      BY <2>2, <3>1, <3>2, AttemptBegins
  <2>6. InHand'
    BY <1>3, <2>2, <2>3, <2>4, <2>5, AttemptSteps
  <2>7. QED
    BY <1>1, <2>1, <2>6 DEF RunsInv
<1>4. QED
  BY <1>2, <1>3, OnlyConfirmations

----------------------------------------------------------------------------
(* A fresh session satisfies the invariant.                                *)
LEMMA Initially == Init => Inv
<1> SUFFICES ASSUME Init
             PROVE  Inv
  OBVIOUS
<1>1. options \in OptionSets /\ options.budget \in Nat /\ options.runs \in Nat
  BY OptionFacts DEF Init
<1>2. TypeOK
  <2>1. confirms \in [Configs -> [1..options.runs -> Seq(Run)]]
    <3>1. <<>> \in Seq(Run)
      OBVIOUS
    <3>2. QED
      BY <3>1 DEF Init
  <2>2. DOMAIN known = {} /\ DOMAIN contexts = {}
    BY DEF Init
  <2>3. SearchOK /\ StateOK /\ NumbersOK
    BY DEF Init, SearchOK, StateOK, NumbersOK, Live
  <2>4. incumbent \in [cfg : Configs, score : Nat]
    BY ConstantFacts DEF Init, Unit
  <2>5. AttemptOK /\ RecOK
    BY DEF Init, NoAttempt, NoRuns, NoRec, AttemptOK, RecOK
  <2>6. DiskOK /\ ContextOK /\ SignalsOK
    BY DEF Init, DiskOK, ContextOK, SignalsOK
  <2>7. build \in Builds \cup {None}
    BY <1>1, OptionFacts DEF Init
  <2>8. QED
    BY <1>1, <2>1, <2>2, <2>3, <2>4, <2>5, <2>6, <2>7 DEF TypeOK, SearchOK, StateOK, NumbersOK,
           AttemptOK, RecOK, DiskOK, ContextOK, SignalsOK
<1>3. FlightInv
  BY DEF Init, FlightInv, UnderWay, Attempting, Recommending, Flying, Winning
<1>4. BaselineInv
  BY DEF Init, BaselineInv
<1>5. CountInv
  <2>1. executed = 0 /\ journaled = 0 /\ children = 0 /\ wasted = 0 /\ lost = 0 /\ pc = "baseline"
    BY DEF Init
  <2>2. InFlight = 0 /\ Counted = 0
    BY <2>1 DEF InFlight, Counted, Flying
  <2>3. Validations \in Nat
    BY <1>2, CountFacts
  <2>4. QED
    BY <1>1, <2>1, <2>2, <2>3 DEF CountInv
<1>6. EvidenceInv
  BY DEF Init, EvidenceInv, ValidatedInv, IncumbentInv, AttemptInv, WinnerInv, RegisteringInv,
         RegistryInv, OutputsInv, Vouched, HasScore, HasTrial, Winning
<1>7. RunsInv
  <2>1. \A c \in Configs : \A i \in 1..options.runs : DOMAIN confirms[c][i] = {}
    BY DEF Init
  <2>2. QED
    BY <2>1 DEF Init, RunsInv, RunsInOrder, InOrder, InHand
<1>8. QED
  BY <1>2, <1>3, <1>4, <1>5, <1>6, <1>7 DEF Inv

(* Every step, crash and resume preserves it.                              *)
LEMMA Preserved == Inv /\ [Next]_vars => Inv'
<1> SUFFICES ASSUME TypeOK, FlightInv, BaselineInv, CountInv, RunsInv, EvidenceInv, [Next]_vars
             PROVE  Inv'
  BY DEF Inv
<1>1. TypeOK'
  BY TypeInductive
<1>2. FlightInv'
  BY UnderWayInductive, AttemptingInductive, RecommendingInductive DEF FlightInv
<1>3. BaselineInv'
  BY BaselineInductive
<1>4. CountInv'
  BY <1>1, CountInductive
<1>5. ValidatedInv' /\ IncumbentInv' /\ AttemptInv' /\ WinnerInv'
  BY <1>1, ValidatedInductive, IncumbentInductive, AttemptInductive, WinnerInductive
<1>6. RegisteringInv' /\ RegistryInv' /\ OutputsInv'
  BY <1>1, RegisteringInductive, RegistryInductive, OutputsInductive
<1>7. RunsInv'
  BY RunsInductive
<1>8. QED
  BY <1>1, <1>2, <1>3, <1>4, <1>5, <1>6, <1>7 DEF Inv, EvidenceInv

(* The invariant holds of every session, whatever kills and resumes it.    *)
THEOREM Inductive == Spec => []Inv
<1>1. Init => Inv
  BY Initially
<1>2. Inv /\ [Next]_vars => Inv'
  BY Preserved
<1>3. QED
  BY <1>1, <1>2, PTL DEF Spec

(* Every variable has its type in every state of a session.                *)
THEOREM TypeCorrect == Spec => []TypeOK
<1>1. Inv => TypeOK
  BY DEF Inv
<1>2. QED
  BY <1>1, Inductive, PTL

(* Over all processes of a session the children started stay within the    *)
(* budget, but for those that died uncounted, the failed batches and one   *)
(* llama-cli run per process.                                              *)
THEOREM BudgetIsKept == Spec => []BudgetHolds
<1>1. Inv => BudgetHolds
  <2> SUFFICES ASSUME Inv
               PROVE  BudgetHolds
    OBVIOUS
  <2>1. /\ NumbersOK /\ options.budget \in Nat /\ Validations \in Nat /\ Counted \in Nat
    BY CountFacts DEF Inv
  <2>2. Counted <= options.budget + Validations /\ children <= Counted + wasted + 2 * lost
    BY DEF Inv, CountInv
  <2>3. CASE options.cli
    <3>1. Validations <= resumes + 1
      BY <2>1, <2>3 DEF Validations
    <3>2. children <= options.budget + 2 * lost + wasted + (resumes + 1)
      BY <2>1, <2>2, <3>1 DEF NumbersOK
    <3>3. QED
      BY <2>3, <3>2 DEF BudgetHolds
  <2>4. CASE ~options.cli
    <3>1. Validations = 0
      BY <2>4 DEF Validations
    <3>2. children <= options.budget + 2 * lost + wasted + 0
      BY <2>1, <2>2, <3>1 DEF NumbersOK
    <3>3. QED
      BY <2>4, <3>2 DEF BudgetHolds
  <2>5. QED
    BY <2>3, <2>4
<1>2. QED
  BY <1>1, Inductive, PTL

(* What is registered, and what is written as the recommendation, has its  *)
(* evidence in the journal, whatever died and resumed before.              *)
THEOREM RecommendationsAreRight == Spec => []RecommendationsAreHonest
<1>1. Inv => RecommendationsAreHonest
  <2> SUFFICES ASSUME Inv
               PROVE  RecommendationsAreHonest
    OBVIOUS
  <2>1. RegistryInv /\ OutputsInv /\ Partial(contexts, BOOLEAN)
    BY TypeFacts DEF Inv, EvidenceInv
  <2>2. RegisteredOnEvidence
    <3>1. SUFFICES ASSUME NEW c \in registry
                   PROVE  /\ ~OverCap(c)
                          /\ \E b \in options.builds, scores \in [1..options.runs -> Scores] :
                                /\ \A i \in 1..options.runs :
                                      \E n \in DOMAIN confirms[c][i] :
                                          confirms[c][i][n] = [build |-> b, score |-> scores[i]]
                                /\ Total(scores) > options.runs * Threshold
                          /\ options.ctx => c \in DOMAIN contexts /\ contexts[c]
      BY DEF RegisteredOnEvidence
    <3>2. Allowed(options, baseline, c) /\ Proven(options, confirms, c) /\ Fits(options,
          contexts, c)
      BY <2>1 DEF RegistryInv
    <3>3. ~OverCap(c)
      BY <3>2, CapFacts
    <3>4. \E b \in options.builds, scores \in [1..options.runs -> Scores] :
             /\ \A i \in 1..options.runs :
                   \E n \in DOMAIN confirms[c][i] :
                       confirms[c][i][n] = [build |-> b, score |-> scores[i]]
             /\ Total(scores) > options.runs * Threshold
      BY <3>2 DEF Proven, Has
    <3>5. options.ctx => c \in DOMAIN contexts /\ contexts[c]
      BY <3>2 DEF Fits
    <3>6. QED
      BY <3>3, <3>4, <3>5
  <2>3. OutputsAreHonest
    BY <2>1, CapFacts, ConstantFacts DEF OutputsInv, OutputsAreHonest, HasScore, HasTrial
  <2>4. QED
    BY <2>2, <2>3 DEF RecommendationsAreHonest
<1>2. QED
  BY <1>1, Inductive, PTL

(* No step of any process replaces a journaled trial or context probe, nor *)
(* repeats a good confirmation run under the same build.                   *)
THEOREM NothingMeasuredTwice == Spec => MeasuredOnce
<1> DEFINE Once ==
      /\ \A c \in DOMAIN known : c \in DOMAIN known' /\ known'[c] = known[c]
      /\ \A c \in DOMAIN contexts : c \in DOMAIN contexts' /\ contexts'[c] = contexts[c]
      /\ \A c \in Configs : \A i \in 1..options.runs : \A n \in DOMAIN confirms[c][i] :
            /\ n \in DOMAIN confirms'[c][i] /\ confirms'[c][i][n] = confirms[c][i][n]
            /\ confirms[c][i][n].score # None /\ confirms[c][i][n].build # None =>
                  \A m \in DOMAIN confirms'[c][i] :
                      m > Len(confirms[c][i]) =>
                          confirms'[c][i][m].build # confirms[c][i][n].build
<1>1. Inv /\ [Next]_vars => [Once]_vars
  <2> SUFFICES ASSUME Inv, [Next]_vars
               PROVE  Once
    OBVIOUS
  <2>1. KnownKept /\ ContextsKept /\ ConfirmsKept
    BY KnownSteps, ContextsSteps, ConfirmsSteps DEF Inv
  <2>2. QED
    BY <2>1 DEF KnownKept, ContextsKept, ConfirmsKept, Keeps
<1>2. QED
  BY <1>1, Inductive, PTL DEF Spec, MeasuredOnce

----------------------------------------------------------------------------
(* Every step lowers the height of a session, in an order that has no      *)
(* infinite descent: that a process ends needs only that it goes on.       *)

\* What has a score is within --max-gpu-layers, what is being measured too, and
\* what passed its context probe.
WithinCap ==
    /\ \A c \in DOMAIN known : ~OverCap(c)
    /\ pc \in {"trial", "reseating"} => ~OverCap(flight.cfg)
    /\ \A c \in validated : ~OverCap(c)

ResumesInv == resumes <= MaxResumes

\* Processes to come.
Coming == MaxResumes - resumes

\* A process that lives, and what it may still hear of the user and the clock.
Life ==
    IF pc \in Live THEN 1 + (IF stop THEN 0 ELSE 1) + (IF expired THEN 0 ELSE 1) ELSE 0

\* The stages follow one another.
Stage ==
    CASE pc = "baseline" -> 14 [] pc \in {"search", "trial"} -> 13 [] pc = "validate" -> 12
      [] pc = "reseat" -> 11 [] pc = "reseating" -> 10 [] pc = "decide" -> 9
      [] pc \in {"confirm", "confirming"} -> (IF attempt.second THEN 6 ELSE 8)
      [] pc = "runner_up" -> 7 [] pc = "fallback" -> 5 [] pc = "cli" -> 4
      [] pc = "write" -> 3 [] pc = "register" -> 2 [] pc = "end" -> 1 [] OTHER -> 0

\* What the budget leaves.
Purse == IF executed <= options.budget THEN options.budget - executed ELSE 0

\* A measurement without a record.
Unrecorded == IF pc \in Flying THEN 1 ELSE 0

\* Configurations that no failed batch had yet, and no failed context probe.
Unspoilt ==
    CASE pc = "search" -> Cardinality(Configs \ split)
      [] pc = "validate" -> Cardinality(Configs \ tried)
      [] OTHER -> 0

\* A default beyond the cap gives way once.
Misfit == IF OverCap(incumbent.cfg) THEN 1 ELSE 0

Better == {c \in DOMAIN known : known[c] \in Scores /\ known[c] > incumbent.score}

Height ==
    <<Coming, Life, Stage, Purse, Unrecorded, Unspoilt, Misfit, Cardinality(Better)>>

\* The order of the dictionary.
Descent == LexProductOrdering(OpToRel(<, Nat), Nat, 8)

HeightOK ==
    /\ Coming \in Nat /\ Life \in Nat /\ Stage \in Nat /\ Purse \in Nat /\ Unrecorded \in Nat
    /\ Unspoilt \in Nat /\ Misfit \in Nat /\ Cardinality(Better) \in Nat

\* Some part of the height falls, and those before it stay.
FallsInStage ==
    \/ Purse' < Purse
    \/ Purse' = Purse /\ Unrecorded' < Unrecorded
    \/ Purse' = Purse /\ Unrecorded' = Unrecorded /\ Unspoilt' < Unspoilt
    \/ /\ Purse' = Purse /\ Unrecorded' = Unrecorded /\ Unspoilt' = Unspoilt
       /\ \/ Misfit' < Misfit
          \/ Misfit' = Misfit /\ Cardinality(Better)' < Cardinality(Better)

FallsInProcess == Stage' < Stage \/ (Stage' = Stage /\ FallsInStage)

Falls ==
    \/ Coming' < Coming
    \/ Coming' = Coming /\ Life' < Life
    \/ Coming' = Coming /\ Life' = Life /\ FallsInProcess

Descends == <<Height', Height>> \in Descent

(* Only trials and batches add to what has a score, within the cap.        *)
LEMMA KnownWithin ==
    ASSUME TypeOK, FlightInv, WithinCap, [Next]_vars
    PROVE  \A c \in DOMAIN known' : c \in DOMAIN known \/ ~OverCap(c)
<1>a. options \in OptionSets /\ executed \in Nat
  BY DEF TypeOK
<1>1. CASE JournalTrial \/ JournalReseat
  <2>1. ~OverCap(flight.cfg)
    BY <1>1 DEF JournalTrial, JournalReseat, WithinCap
  <2>2. PICK score \in Measurement : known' = With(known, flight.cfg, score)
    BY <1>1, MeasuredFacts DEF JournalTrial, JournalReseat
  <2>3. DOMAIN known' = DOMAIN known \cup {flight.cfg}
    BY <2>2 DEF With
  <2>4. QED
    BY <2>1, <2>3
<1>2. CASE RunBatch
  <2>1. PICK S \in Batches : \E measured \in [S -> Scores] : known' = Merged(known, measured)
    BY <1>2 DEF RunBatch
  <2>2. PICK measured \in [S -> Scores] : known' = Merged(known, measured)
    BY <2>1
  <2>3. S \cap DOMAIN known = {} /\ \A c \in S : ~OverCap(c)
    BY <1>a, <2>1, BatchFacts
  <2>4. DOMAIN known' = DOMAIN known \cup S
    BY <2>2 DEF Merged
  <2>5. QED
    BY <2>3, <2>4
<1>3. CASE Cut
  <2>1. CASE known' = known
    BY <2>1
  <2>2. CASE PartlyJournaled
    <3>1. PICK S \in Batches : \E T \in SUBSET S \ {{}} :
                   \E measured \in [T -> Scores] : known' = Merged(known, measured)
      BY <2>2 DEF PartlyJournaled
    <3>2. PICK T \in SUBSET S : \E measured \in [T -> Scores] : known' = Merged(known, measured)
      BY <3>1
    <3>3. PICK measured \in [T -> Scores] : known' = Merged(known, measured)
      BY <3>2
    <3>4. T \cap DOMAIN known = {} /\ \A c \in T : ~OverCap(c)
      BY <1>a, <3>1, BatchFacts
    <3>5. DOMAIN known' = DOMAIN known \cup T
      BY <3>3 DEF Merged
    <3>6. QED
      BY <3>4, <3>5
  <2>3. QED
    BY <1>3, <2>1, <2>2 DEF Cut, journal
<1>4. CASE BaselineRun \/ BaselineStarved \/ StartTrial \/ RunAuxiliary \/ FailBatch \/ Promote
           \/ SearchProbe \/ EndSearch \/ RecallContext \/ ProbeContext \/ GiveUpContext
  BY <1>4 DEF BaselineRun, BaselineStarved, StartTrial, RunAuxiliary, FailBatch, Promote,
     SearchProbe, EndSearch, RecallContext, ProbeContext, GiveUpContext, journal
<1>5. CASE RecallReseat \/ StartReseat \/ Escape \/ Decide \/ RunnerUp \/ StartConfirmation
           \/ JournalConfirmation \/ RefuseConfirmation \/ CloseConfirmation \/ Fallback
  BY <1>5 DEF RecallReseat, StartReseat, Escape, Decide, RunnerUp, StartConfirmation,
     JournalConfirmation, RefuseConfirmation, CloseConfirmation, Fallback, journal
<1>6. CASE NoFeasible \/ ValidateWithCli \/ WriteOutputs \/ AppendRecord \/ EndSession
           \/ Interrupt \/ ClockExpires \/ Resume \/ Finished \/ UNCHANGED vars
  BY <1>6 DEF NoFeasible, ValidateWithCli, WriteOutputs, AppendRecord, EndSession, Interrupt,
     ClockExpires, Resume, Finished, vars, journal
<1>7. QED
  BY <1>1, <1>2, <1>3, <1>4, <1>5, <1>6 DEF Next, Step, Abort, IoFailure, Crash

(* What is sent to be measured is within the cap.                          *)
LEMMA FlightWithin ==
    ASSUME TypeOK, WithinCap, [Next]_vars
    PROVE  pc' \in {"trial", "reseating"} => ~OverCap(flight'.cfg)
<1>1. CASE StartTrial
  <2>1. PICK c \in Configs : ~OverCap(c) /\ flight' = [cfg |-> c, aux |-> 0]
    BY <1>1 DEF StartTrial
  <2>2. flight'.cfg = c
    BY <2>1
  <2>3. QED
    BY <2>1, <2>2
<1>2. CASE StartReseat
  <2>1. PICK c \in validated : flight' = [cfg |-> c, aux |-> 0]
    BY <1>2 DEF StartReseat
  <2>2. flight'.cfg = c /\ ~OverCap(c)
    BY <2>1 DEF WithinCap
  <2>3. QED
    BY <2>2
<1>3. CASE RunAuxiliary
  <2>1. pc' = pc /\ flight' = [flight EXCEPT !.aux = @ + 1]
    BY <1>3 DEF RunAuxiliary, control
  <2>2. flight'.cfg = flight.cfg
    BY <2>1
  <2>3. QED
    BY <2>1, <2>2 DEF WithinCap
<1>4. CASE UNCHANGED <<pc, flight>>
  BY <1>4 DEF WithinCap
<1>5. CASE pc' \notin {"trial", "reseating"}
  BY <1>5
<1>6. UNCHANGED <<pc, flight>> \/ pc' \notin {"trial", "reseating"} \/ StartTrial \/ StartReseat
          \/ RunAuxiliary
  <2>1. CASE BaselineRun \/ BaselineStarved \/ JournalTrial \/ RunBatch \/ FailBatch \/ Promote
             \/ SearchProbe \/ EndSearch \/ RecallContext \/ ProbeContext \/ GiveUpContext
    BY <2>1 DEF BaselineRun, BaselineStarved, JournalTrial, RunBatch, FailBatch, Promote, End, Goto,
       SearchProbe, EndSearch, RecallContext, ProbeContext, GiveUpContext, Validate, control, memory,
       AfterBaseline
  <2>2. CASE RecallReseat \/ JournalReseat \/ Escape \/ Decide \/ RunnerUp
             \/ StartConfirmation \/ JournalConfirmation \/ RefuseConfirmation
             \/ CloseConfirmation \/ Fallback
    BY <2>2 DEF RecallReseat, JournalReseat, Escape, Decide, RunnerUp, StartConfirmation, Goto,
       JournalConfirmation, RefuseConfirmation, CloseConfirmation, Fallback, Refuse, AfterFailure,
       BeginAttempt, AfterWinner
  <2>3. CASE NoFeasible \/ ValidateWithCli \/ WriteOutputs \/ AppendRecord \/ EndSession
             \/ Interrupt \/ ClockExpires \/ Resume \/ Finished \/ UNCHANGED vars
    BY <2>3 DEF NoFeasible, ValidateWithCli, WriteOutputs, AppendRecord, EndSession, Interrupt, End,
       Goto, ClockExpires, Resume, FreshMemory, AfterBaseline, Finished, vars, control, memory
  <2>4. CASE Abort \/ IoFailure \/ Crash
    BY <2>4 DEF Abort, IoFailure, Crash, End
  <2>5. QED
    BY <2>1, <2>2, <2>3, <2>4 DEF Next, Step
<1>7. QED
  BY <1>1, <1>2, <1>3, <1>4, <1>5, <1>6

(* What is validated is within the cap: the incumbent is asked only then,  *)
(* and a fallback always is.                                               *)
LEMMA ValidatedWithin ==
    ASSUME TypeOK, WithinCap, [Next]_vars
    PROVE  \A c \in validated' : ~OverCap(c)
<1>a. options \in OptionSets
  BY DEF TypeOK
<1>1. \A c \in Candidates : ~OverCap(c)
  BY <1>a, OptionFacts DEF Candidates, OverCap
<1>2. CASE RecallContext
  <2>1. PICK c \in Candidates : Validate(c, contexts[c])
    BY <1>2 DEF RecallContext
  <2>2. validated' = validated \cup {c} \/ validated' = validated
    BY <2>1 DEF Validate
  <2>3. QED
    BY <1>1, <2>1, <2>2 DEF WithinCap
<1>3. CASE ProbeContext
  <2>1. PICK c \in Candidates, passed \in BOOLEAN : Validate(c, passed)
    BY <1>3 DEF ProbeContext
  <2>2. validated' = validated \cup {c} \/ validated' = validated
    BY <2>1 DEF Validate
  <2>3. QED
    BY <1>1, <2>1, <2>2 DEF WithinCap
<1>4. CASE Resume
  BY <1>4 DEF Resume, FreshMemory
<1>5. CASE validated' = validated
  BY <1>5 DEF WithinCap
<1>6. RecallContext \/ ProbeContext \/ Resume \/ validated' = validated
  <2>1. CASE BaselineRun \/ BaselineStarved \/ StartTrial \/ RunAuxiliary \/ JournalTrial
             \/ RunBatch \/ FailBatch \/ Promote \/ SearchProbe \/ EndSearch \/ GiveUpContext
    BY <2>1 DEF BaselineRun, BaselineStarved, StartTrial, RunAuxiliary, JournalTrial, RunBatch,
       FailBatch, Promote, SearchProbe, EndSearch, GiveUpContext, memory
  <2>2. CASE RecallReseat \/ StartReseat \/ JournalReseat \/ Escape \/ Decide \/ RunnerUp
             \/ StartConfirmation \/ JournalConfirmation \/ RefuseConfirmation
             \/ CloseConfirmation \/ Fallback
    BY <2>2 DEF RecallReseat, StartReseat, JournalReseat, Escape, Decide, RunnerUp,
       StartConfirmation, JournalConfirmation, RefuseConfirmation, CloseConfirmation, Fallback,
       memory
  <2>3. CASE NoFeasible \/ ValidateWithCli \/ WriteOutputs \/ AppendRecord \/ EndSession
             \/ Interrupt \/ ClockExpires \/ Finished \/ UNCHANGED vars
    BY <2>3 DEF NoFeasible, ValidateWithCli, WriteOutputs, AppendRecord, EndSession, Interrupt,
       ClockExpires, Finished, vars, memory
  <2>4. CASE Abort \/ IoFailure \/ Crash
    BY <2>4 DEF Abort, IoFailure, Crash, Cut, memory
  <2>5. QED
    BY <2>1, <2>2, <2>3, <2>4 DEF Next, Step
<1>7. QED
  BY <1>2, <1>3, <1>4, <1>5, <1>6

LEMMA WithinCapInductive ==
    TypeOK /\ FlightInv /\ BaselineInv /\ WithinCap /\ [Next]_vars => WithinCap'
<1> SUFFICES ASSUME TypeOK, FlightInv, BaselineInv, WithinCap, [Next]_vars
             PROVE  WithinCap'
  OBVIOUS
<1>1. \A c : ~OverCap(c) => ~OverCap(c)'
  BY CapStays DEF OverCap, Allowed
<1>2. \A c \in DOMAIN known' : ~OverCap(c)
  BY KnownWithin DEF WithinCap
<1>3. QED
  BY <1>1, <1>2, FlightWithin, ValidatedWithin DEF WithinCap

(* No more processes resume than are allowed for.                          *)
LEMMA ResumesInductive ==
    ASSUME TypeOK, ResumesInv, [Next]_vars
    PROVE  ResumesInv' /\ (resumes' = resumes \/ (Resume /\ resumes' = resumes + 1))
<1>1. resumes' = resumes \/ (Resume /\ resumes' = resumes + 1)
  <2>1. CASE Resume
    BY <2>1 DEF Resume
  <2>2. CASE BaselineRun \/ BaselineStarved \/ StartTrial \/ RunAuxiliary \/ JournalTrial
             \/ RunBatch \/ FailBatch \/ Promote \/ SearchProbe \/ EndSearch \/ RecallContext
             \/ ProbeContext \/ GiveUpContext
    BY <2>2 DEF BaselineRun, BaselineStarved, StartTrial, RunAuxiliary, JournalTrial, RunBatch,
       FailBatch, Promote, SearchProbe, EndSearch, RecallContext, ProbeContext, GiveUpContext,
       history
  <2>3. CASE RecallReseat \/ StartReseat \/ JournalReseat \/ Escape \/ Decide \/ RunnerUp
             \/ StartConfirmation \/ JournalConfirmation \/ RefuseConfirmation
             \/ CloseConfirmation \/ Fallback
    BY <2>3 DEF RecallReseat, StartReseat, JournalReseat, Escape, Decide, RunnerUp,
       StartConfirmation, JournalConfirmation, RefuseConfirmation, CloseConfirmation, Fallback,
       history
  <2>4. CASE NoFeasible \/ ValidateWithCli \/ WriteOutputs \/ AppendRecord \/ EndSession
             \/ Interrupt \/ ClockExpires \/ Finished \/ UNCHANGED vars
    BY <2>4 DEF NoFeasible, ValidateWithCli, WriteOutputs, AppendRecord, EndSession, Interrupt,
       ClockExpires, Finished, vars, history
  <2>5. CASE Abort \/ IoFailure \/ Crash
    BY <2>5 DEF Abort, IoFailure, Crash, Cut
  <2>6. QED
    BY <2>1, <2>2, <2>3, <2>4, <2>5 DEF Next, Step
<1>2. resumes \in Nat /\ MaxResumes \in Nat
  BY ConstantsAssumption DEF TypeOK
<1>3. Resume => resumes < MaxResumes
  BY DEF Resume
<1>4. QED
  BY <1>1, <1>2, <1>3 DEF ResumesInv

(* The order has no infinite descent.                                      *)
THEOREM DescentEnds == IsWellFoundedOn(Descent, [1..8 -> Nat])
<1>1. IsWellFoundedOn(OpToRel(<, Nat), Nat)
  BY NatLessThanWellFounded
<1>2. 8 \in Nat
  OBVIOUS
<1>3. QED
  BY <1>1, <1>2, WFLexProductOrdering DEF Descent

(* What falls first, falls in the order.                                   *)
LEMMA FallsInOrder ==
    ASSUME HeightOK, HeightOK', Falls
    PROVE  Descends
<1>1. PICK g, h : g = Height /\ h = Height'
  OBVIOUS
<1>2. /\ g \in [1..8 -> Nat] /\ h \in [1..8 -> Nat]
      /\ g[1] = Coming /\ g[2] = Life /\ g[3] = Stage /\ g[4] = Purse /\ g[5] = Unrecorded
      /\ g[6] = Unspoilt /\ g[7] = Misfit /\ g[8] = Cardinality(Better)
      /\ h[1] = Coming' /\ h[2] = Life' /\ h[3] = Stage' /\ h[4] = Purse' /\ h[5] = Unrecorded'
      /\ h[6] = Unspoilt' /\ h[7] = Misfit' /\ h[8] = Cardinality(Better)'
  BY <1>1 DEF Height, HeightOK
<1>3. /\ \A i \in 1..(1 - 1) : FALSE
      /\ \A i \in 1..(2 - 1) : i = 1
      /\ \A i \in 1..(3 - 1) : i \in {1, 2}
      /\ \A i \in 1..(4 - 1) : i \in {1, 2, 3}
      /\ \A i \in 1..(5 - 1) : i \in {1, 2, 3, 4}
      /\ \A i \in 1..(6 - 1) : i \in {1, 2, 3, 4, 5}
      /\ \A i \in 1..(7 - 1) : i \in {1, 2, 3, 4, 5, 6}
      /\ \A i \in 1..(8 - 1) : i \in {1, 2, 3, 4, 5, 6, 7}
  OBVIOUS
<1>4. \E j \in 1..8 : h[j] < g[j] /\ \A i \in 1..(j - 1) : h[i] = g[i]
  <2>1. CASE h[1] < g[1]
    BY <1>3, <2>1
  <2>2. CASE h[1] = g[1] /\ h[2] < g[2]
    BY <1>3, <2>2
  <2>3. CASE h[1] = g[1] /\ h[2] = g[2] /\ h[3] < g[3]
    BY <1>3, <2>3
  <2>4. CASE h[1] = g[1] /\ h[2] = g[2] /\ h[3] = g[3] /\ FallsInStage
    <3>1. CASE h[4] < g[4]
      BY <1>3, <2>4, <3>1
    <3>2. CASE h[4] = g[4] /\ h[5] < g[5]
      BY <1>3, <2>4, <3>2
    <3>3. CASE h[4] = g[4] /\ h[5] = g[5] /\ h[6] < g[6]
      BY <1>3, <2>4, <3>3
    <3>4. CASE h[4] = g[4] /\ h[5] = g[5] /\ h[6] = g[6] /\ h[7] < g[7]
      BY <1>3, <2>4, <3>4
    <3>5. CASE h[4] = g[4] /\ h[5] = g[5] /\ h[6] = g[6] /\ h[7] = g[7] /\ h[8] < g[8]
      BY <1>3, <2>4, <3>5
    <3>6. QED
      BY <1>2, <2>4, <3>1, <3>2, <3>3, <3>4, <3>5 DEF FallsInStage
  <2>5. QED
    BY <1>2, <2>1, <2>2, <2>3, <2>4 DEF Falls, FallsInProcess
<1>5. PICK j \in 1..8 : h[j] < g[j] /\ \A i \in 1..(j - 1) : h[i] = g[i]
  BY <1>4
<1>6. <<h[j], g[j]>> \in OpToRel(<, Nat)
  BY <1>2, <1>5 DEF OpToRel
<1>7. <<h, g>> \in Descent
  BY <1>2, <1>5, <1>6 DEF Descent, LexProductOrdering
<1>8. QED
  BY <1>1, <1>7 DEF Descends

(* A set of configurations is finite, and one with more taken away smaller. *)
LEMMA ConfigSets ==
    ASSUME NEW S \in SUBSET Configs
    PROVE  /\ IsFiniteSet(S) /\ Cardinality(S) \in Nat
           /\ \A T \in SUBSET S : T # S => Cardinality(T) < Cardinality(S)
<1>1. IsFiniteSet(S) /\ Cardinality(S) \in Nat
  BY ConstantFacts, FS_Subset, FS_CardinalityType
<1>2. ASSUME NEW T \in SUBSET S, T # S
      PROVE  Cardinality(T) < Cardinality(S)
  <2>1. IsFiniteSet(T) /\ Cardinality(T) \in Nat
    BY <1>1, FS_Subset, FS_CardinalityType
  <2>2. Cardinality(T) <= Cardinality(S) /\ (Cardinality(T) = Cardinality(S) => T = S)
    BY <1>1, FS_Subset
  <2>3. QED
    BY <1>1, <1>2, <2>1, <2>2
<1>3. QED
  BY <1>1, <1>2

(* A height is eight numbers.                                              *)
LEMMA HeightIsNat ==
    ASSUME TypeOK, ResumesInv
    PROVE  HeightOK
<1>1. Coming \in Nat
  BY ConstantsAssumption DEF TypeOK, ResumesInv, Coming
<1>2. Life \in Nat /\ Stage \in Nat /\ Unrecorded \in Nat /\ Misfit \in Nat
  BY DEF Life, Stage, Unrecorded, Misfit
<1>3. Purse \in Nat
  BY OptionFacts DEF TypeOK, Purse
<1>4. Unspoilt \in Nat
  <2>1. Cardinality(Configs \ split) \in Nat /\ Cardinality(Configs \ tried) \in Nat
    BY ConfigSets
  <2>2. QED
    BY <2>1 DEF Unspoilt
<1>5. Cardinality(Better) \in Nat
  BY ConfigSets DEF Better, TypeOK
<1>6. QED
  BY <1>1, <1>2, <1>3, <1>4, <1>5 DEF HeightOK

(* A child that is paid for from the budget.                               *)
LEMMA PurseFalls ==
    ASSUME TypeOK, UNCHANGED options, executed < options.budget,
           executed' > executed, executed' \in Nat, Stage' = Stage \/ Stage' < Stage
    PROVE  FallsInProcess
<1>1. options.budget \in Nat /\ executed \in Nat
  BY OptionFacts DEF TypeOK
<1>2. Purse' < Purse
  BY <1>1 DEF Purse
<1>3. QED
  BY <1>2 DEF FallsInProcess, FallsInStage

(* CanExecute keeps to the budget.                                         *)
LEMMA WithinBudget ==
    ASSUME TypeOK, CanExecute
    PROVE  executed < options.budget /\ options.budget \in Nat /\ executed \in Nat
BY OptionFacts DEF TypeOK, CanExecute

(* Every child counted leaves less of the budget.                          *)
LEMMA PaidSteps ==
    ASSUME TypeOK, pc' \in Live,
           \/ BaselineRun \/ StartTrial \/ RunAuxiliary \/ SearchProbe \/ ProbeContext
           \/ StartReseat \/ StartConfirmation
    PROVE  FallsInProcess
<1>1. options' = options /\ executed' = executed + 1
  BY DEF BaselineRun, StartTrial, RunAuxiliary, SearchProbe, ProbeContext, StartReseat,
     StartConfirmation, Ran, RanAndJournaled
<1>2. executed < options.budget /\ executed \in Nat
  <2>1. CASE BaselineRun
    BY <2>1 DEF BaselineRun, TypeOK
  <2>2. CASE CanExecute
    BY <2>2, WithinBudget
  <2>3. QED
    BY <2>1, <2>2 DEF StartTrial, RunAuxiliary, SearchProbe, ProbeContext, StartReseat,
       StartConfirmation
<1>3. Stage' = Stage \/ Stage' < Stage
  <2>1. CASE BaselineRun
    BY <2>1 DEF BaselineRun, Goto, End, AfterBaseline, control, Stage, Live
  <2>2. CASE StartTrial
    BY <2>2 DEF StartTrial, Goto, Stage
  <2>3. CASE RunAuxiliary
    BY <2>3 DEF RunAuxiliary, control, Stage
  <2>4. CASE SearchProbe
    BY <2>4 DEF SearchProbe, control, memory, Stage
  <2>5. CASE ProbeContext
    <3>1. pc = "validate" /\ pc' \in {"validate", "decide", "reseat"}
      BY <2>5 DEF ProbeContext, Validate, Goto, control
    <3>2. QED
      BY <3>1 DEF Stage
  <2>6. CASE StartReseat
    BY <2>6 DEF StartReseat, Goto, Stage
  <2>7. CASE StartConfirmation
    BY <2>7 DEF StartConfirmation, Goto, Stage
  <2>8. QED
    BY <2>1, <2>2, <2>3, <2>4, <2>5, <2>6, <2>7
<1>4. QED
  BY <1>1, <1>2, <1>3, PurseFalls

(* What a batch measures is counted trial by trial.                        *)
LEMMA BatchStep ==
    ASSUME TypeOK, RunBatch
    PROVE  FallsInProcess
<1>1. PICK S \in Batches : executed' = executed + Cardinality(S)
  BY DEF RunBatch
<1>2. options \in OptionSets /\ executed \in Nat
  BY DEF TypeOK
<1>3. Cardinality(S) \in Nat /\ Cardinality(S) > 1 /\ executed + Cardinality(S) <= options.budget
  BY <1>2, BatchFacts
<1>4. UNCHANGED <<options, pc, attempt>>
  BY DEF RunBatch, control, memory
<1>5. Stage' = Stage
  BY <1>4 DEF Stage
<1>6. options.budget \in Nat
  BY <1>2, OptionFacts
<1>7. executed < options.budget /\ executed' > executed /\ executed' \in Nat
  BY <1>1, <1>2, <1>3, <1>6
<1>8. QED
  BY <1>4, <1>5, <1>7, PurseFalls

(* A batch that fails is not tried again.                                  *)
LEMMA FailedBatch ==
    ASSUME TypeOK, FailBatch
    PROVE  FallsInProcess
<1>1. PICK S \in Batches : split' = split \cup S
  BY DEF FailBatch
<1>2. options \in OptionSets /\ executed \in Nat
  BY DEF TypeOK
<1>3. S \subseteq Configs /\ S # {} /\ S \cap split = {}
  <2>1. Cardinality(S) > 1 /\ S \subseteq Configs
    BY <1>2, BatchFacts
  <2>2. S # {}
    BY <2>1, FS_EmptySet
  <2>3. QED
    BY <2>1, <2>2 DEF Batches
<1>4. Cardinality(Configs \ split') < Cardinality(Configs \ split)
  <2>1. Configs \ split' \in SUBSET (Configs \ split) /\ Configs \ split' # Configs \ split
    BY <1>1, <1>3
  <2>2. QED
    BY <2>1, ConfigSets
<1>5. pc = "search" /\ UNCHANGED <<options, pc, executed, attempt>>
  BY DEF FailBatch, control, memory
<1>6. Stage' = Stage /\ Purse' = Purse /\ Unrecorded' = Unrecorded
  BY <1>5 DEF Stage, Purse, Unrecorded
<1>7. Unspoilt' < Unspoilt
  BY <1>4, <1>5 DEF Unspoilt
<1>8. QED
  BY <1>6, <1>7 DEF FallsInProcess, FallsInStage

(* A promotion is a gain, or takes the place of a default beyond the cap.  *)
LEMMA PromotionFalls ==
    ASSUME TypeOK, WithinCap, Promote
    PROVE  FallsInProcess
<1>1. PICK c \in DOMAIN known :
          /\ known[c] \in Scores /\ (known[c] > incumbent.score \/ OverCap(incumbent.cfg))
          /\ incumbent' = [cfg |-> c, score |-> known[c]]
  BY DEF Promote
<1>2. incumbent'.cfg = c /\ incumbent'.score = known[c]
  BY <1>1
<1>3. pc = "search" /\ UNCHANGED <<options, baseline, known, pc, executed, attempt, split>>
  BY DEF Promote, control, journal, batches
<1>4. /\ Stage' = Stage /\ Purse' = Purse /\ Unrecorded' = Unrecorded /\ Unspoilt' = Unspoilt
  BY <1>3 DEF Stage, Purse, Unrecorded, Unspoilt
<1>5. Misfit' = 0
  BY <1>1, <1>2, <1>3 DEF WithinCap, Misfit, OverCap
<1>6. CASE OverCap(incumbent.cfg)
  <2>1. Misfit = 1
    BY <1>6 DEF Misfit
  <2>2. QED
    BY <1>4, <1>5, <2>1 DEF FallsInProcess, FallsInStage
<1>7. CASE ~OverCap(incumbent.cfg)
  <2>1. Misfit = 0
    BY <1>7 DEF Misfit
  <2>2. known[c] > incumbent.score /\ incumbent.score \in Nat
    BY <1>1, <1>7 DEF TypeOK
  <2>3. \A d \in DOMAIN known : known[d] \in Scores => known[d] \in Nat
    BY ConstantFacts
  <2>4. Better' = {d \in DOMAIN known : known[d] \in Scores /\ known[d] > known[c]}
    BY <1>2, <1>3 DEF Better
  <2>5. Better \in SUBSET Configs
    BY DEF Better, TypeOK
  <2>6. c \in Better /\ c \notin Better' /\ Better' \subseteq Better
    BY <1>1, <2>2, <2>3, <2>4 DEF Better
  <2>7. Cardinality(Better)' < Cardinality(Better)
    BY <2>5, <2>6, ConfigSets
  <2>8. QED
    BY <1>4, <1>5, <2>1, <2>7 DEF FallsInProcess, FallsInStage
<1>8. QED
  BY <1>6, <1>7

(* A context candidate that fails is out.                                  *)
LEMMA RecallFalls ==
    ASSUME TypeOK, RecallContext
    PROVE  FallsInProcess
<1>1. PICK c \in Candidates : Validate(c, contexts[c])
  BY DEF RecallContext
<1>2. pc = "validate" /\ UNCHANGED <<options, executed, attempt>>
  BY DEF RecallContext
<1>3. CASE pc' \in {"decide", "reseat"}
  BY <1>2, <1>3 DEF Stage, FallsInProcess
<1>4. CASE pc' = pc /\ tried' = tried \cup {c}
  <2>1. c \in Configs \ tried
    BY <1>1, OptionFacts DEF Candidates, TypeOK
  <2>2. Configs \ tried' \in SUBSET (Configs \ tried) /\ Configs \ tried' # Configs \ tried
    BY <1>4, <2>1
  <2>3. Cardinality(Configs \ tried') < Cardinality(Configs \ tried)
    BY <2>2, ConfigSets
  <2>4. Stage' = Stage /\ Purse' = Purse /\ Unrecorded' = Unrecorded
    BY <1>2, <1>4 DEF Stage, Purse, Unrecorded
  <2>5. Unspoilt' < Unspoilt
    BY <1>2, <1>4, <2>3 DEF Unspoilt
  <2>6. QED
    BY <2>4, <2>5 DEF FallsInProcess, FallsInStage
<1>5. QED
  BY <1>1, <1>3, <1>4 DEF Validate, Goto, control

(* A record ends a measurement.                                            *)
LEMMA RecordFalls ==
    ASSUME TypeOK, FlightInv, JournalTrial \/ JournalConfirmation
    PROVE  FallsInProcess
<1>1. UNCHANGED <<options, executed>> /\ attempt'.second = attempt.second
  <2>1. CASE JournalTrial
    BY <2>1 DEF JournalTrial
  <2>2. CASE JournalConfirmation
    <3>1. PICK score \in Scores \cup {None}, k \in 1..options.runs :
                 attempt' = [attempt EXCEPT !.runs[k] = score]
      BY <2>2, RunJournaled
    <3>2. QED
      BY <2>2, <3>1, MemoryFacts DEF JournalConfirmation, AttemptOK
  <2>3. QED
    BY <2>1, <2>2
<1>2. \/ pc = "trial" /\ pc' = "search"
      \/ pc = "confirming" /\ pc' = "confirm"
      \/ pc = "confirming" /\ pc' = IF attempt.second THEN "fallback" ELSE "runner_up"
  BY DEF JournalTrial, JournalConfirmation, Goto, AfterFailure
<1>3. CASE pc' \in {"search", "confirm"}
  <2>1. Stage' = Stage /\ Purse' = Purse /\ Unrecorded' < Unrecorded
    BY <1>1, <1>2, <1>3 DEF Stage, Purse, Unrecorded, Flying
  <2>2. QED
    BY <2>1 DEF FallsInProcess, FallsInStage
<1>4. CASE pc' \notin {"search", "confirm"}
  BY <1>1, <1>2, <1>4 DEF Stage, FallsInProcess
<1>5. QED
  BY <1>3, <1>4

(* All other steps of the engine lead to a later stage.                    *)
LEMMA StageFalls ==
    ASSUME TypeOK, pc' \in Live,
           \/ BaselineStarved \/ EndSearch \/ GiveUpContext \/ RecallReseat \/ JournalReseat
           \/ Escape \/ Decide \/ RunnerUp \/ RefuseConfirmation \/ CloseConfirmation \/ Fallback
           \/ NoFeasible \/ ValidateWithCli \/ WriteOutputs \/ AppendRecord \/ EndSession
    PROVE  FallsInProcess
<1>1. CASE BaselineStarved \/ Escape \/ NoFeasible \/ EndSession
  BY <1>1 DEF BaselineStarved, Escape, NoFeasible, EndSession, End, Live
<1>2. CASE EndSearch \/ GiveUpContext \/ RecallReseat \/ JournalReseat
  BY <1>2 DEF EndSearch, GiveUpContext, RecallReseat, JournalReseat, Goto, Stage, FallsInProcess
<1>3. CASE Decide
  <2>1. \/ pc' = "fallback"
        \/ pc' = "runner_up"
        \/ pc' = "confirm" /\ attempt'.second = FALSE
    BY <1>3 DEF Decide, BeginAttempt, Refuse, AfterFailure, Goto
  <2>2. pc' = "confirm" => attempt'.second = FALSE
    BY <2>1
  <2>3. pc = "decide"
    BY <1>3 DEF Decide
  <2>4. QED
    BY <2>1, <2>2, <2>3 DEF Stage, FallsInProcess
<1>4. CASE RunnerUp
  <2>1. \/ pc' = "fallback"
        \/ pc' = "confirm" /\ attempt'.second = TRUE
    <3>1. CASE pc' = "fallback"
      BY <3>1
    <3>2. CASE \E c \in Best(Eligible \ {incumbent.cfg}) : BeginAttempt(c, TRUE)
      <4>1. PICK c \in Best(Eligible \ {incumbent.cfg}) : BeginAttempt(c, TRUE)
        BY <3>2
      <4>2. c \in Configs
        BY <4>1 DEF Best, Eligible, TypeOK
      <4>3. QED
        BY <4>1, <4>2 DEF BeginAttempt, Refuse, AfterFailure, Goto
    <3>3. QED
      BY <1>4, <3>1, <3>2 DEF RunnerUp, Goto
  <2>2. pc' = "confirm" => attempt'.second = TRUE
    BY <2>1
  <2>3. pc = "runner_up"
    BY <1>4 DEF RunnerUp
  <2>4. QED
    BY <2>1, <2>2, <2>3 DEF Stage, FallsInProcess
<1>5. CASE RefuseConfirmation \/ CloseConfirmation
  <2>1. pc = "confirm" /\ pc' \in {AfterFailure(attempt.second), "cli", "write"}
    BY <1>5 DEF RefuseConfirmation, CloseConfirmation, Refuse, Goto, AfterWinner
  <2>2. QED
    BY <2>1 DEF Stage, AfterFailure, FallsInProcess
<1>6. CASE Fallback \/ ValidateWithCli \/ WriteOutputs \/ AppendRecord
  BY <1>6 DEF Fallback, ValidateWithCli, WriteOutputs, AppendRecord, Goto, AfterWinner, Stage,
     FallsInProcess
<1>7. QED
  BY <1>1, <1>2, <1>3, <1>4, <1>5, <1>6

(* A step of the engine hears neither the user nor the clock.              *)
LEMMA StepInLife ==
    ASSUME Step
    PROVE  pc \in Live /\ UNCHANGED signals
<1>1. pc \in Live
  BY DEF Step, Live, BaselineRun, BaselineStarved, StartTrial, RunAuxiliary, JournalTrial, RunBatch,
     FailBatch, Promote, SearchProbe, EndSearch, RecallContext, ProbeContext, GiveUpContext,
     RecallReseat, StartReseat, JournalReseat, Escape, Decide, RunnerUp, StartConfirmation,
     JournalConfirmation, RefuseConfirmation, CloseConfirmation, Fallback, NoFeasible,
     ValidateWithCli, WriteOutputs, AppendRecord, EndSession
<1>2. UNCHANGED signals
  BY DEF Step, BaselineRun, BaselineStarved, StartTrial, RunAuxiliary, JournalTrial, RunBatch,
     FailBatch, Promote, SearchProbe, EndSearch, RecallContext, ProbeContext, GiveUpContext,
     RecallReseat, StartReseat, JournalReseat, Escape, Decide, RunnerUp, StartConfirmation,
     JournalConfirmation, RefuseConfirmation, CloseConfirmation, Fallback, NoFeasible,
     ValidateWithCli, WriteOutputs, AppendRecord, EndSession
<1>3. QED
  BY <1>1, <1>2

(***************************************************************************)
(* A session comes to rest: every step, of the engine, of the user, of the *)
(* clock, of a crash or a resume, lowers its height, and there is no       *)
(* infinite descent from any height.  No answer of the machine keeps a     *)
(* process searching, validating or confirming for ever.                   *)
(***************************************************************************)
THEOREM SessionDescends == Spec => [][Descends]_vars
<1>1. Init => WithinCap /\ ResumesInv
  BY ConstantsAssumption DEF Init, WithinCap, ResumesInv
<1>2. TypeOK /\ FlightInv /\ BaselineInv /\ WithinCap /\ ResumesInv /\ [Next]_vars =>
          WithinCap' /\ ResumesInv'
  BY WithinCapInductive, ResumesInductive
<1>3. ASSUME TypeOK, FlightInv, ResumesInv, WithinCap, Next, ~Finished
      PROVE  Falls
  <2>1. resumes' = resumes \/ (Resume /\ resumes' = resumes + 1)
    BY <1>3, ResumesInductive
  <2>2. resumes \in Nat /\ MaxResumes \in Nat
    BY <1>3, ConstantsAssumption DEF TypeOK
  <2>3. CASE Resume
    <3>1. Coming' < Coming
      BY <2>2, <2>3 DEF Resume, Coming
    <3>2. QED
      BY <3>1 DEF Falls
  <2>4. CASE ~Resume
    <3>1. Coming' = Coming
      BY <2>1, <2>4 DEF Coming
    <3>2. CASE Step
      <4>1. pc \in Live /\ UNCHANGED signals
        BY <3>2, StepInLife
      <4>2. CASE pc' \notin Live
        <5>1. Life' < Life
          BY <4>1, <4>2 DEF Life
        <5>2. QED
          BY <3>1, <5>1 DEF Falls
      <4>3. CASE pc' \in Live
        <5>1. Life' = Life
          BY <4>1, <4>3 DEF Life, signals
        <5>2. FallsInProcess
          BY <1>3, <3>2, <4>3, PaidSteps, BatchStep, FailedBatch, PromotionFalls, RecallFalls,
             RecordFalls, StageFalls DEF Step
        <5>3. QED
          BY <3>1, <5>1, <5>2 DEF Falls
      <4>4. QED
        BY <4>2, <4>3
    <3>3. CASE Interrupt \/ ClockExpires
      <4>1. /\ pc \in Live /\ pc' = pc
            /\ \/ ~stop /\ stop' /\ expired' = expired
               \/ ~expired /\ expired' /\ stop' = stop
        BY <3>3 DEF Interrupt, ClockExpires, control
      <4>2. Life' < Life
        BY <4>1 DEF Life
      <4>3. QED
        BY <3>1, <4>2 DEF Falls
    <3>4. CASE Abort \/ IoFailure \/ Crash
      <4>1. pc \in Live /\ pc' \in {"ended", "down"}
        BY <3>4 DEF Abort, IoFailure, Crash, Cut, End
      <4>2. Life' < Life
        BY <4>1 DEF Life, Live
      <4>3. QED
        BY <3>1, <4>2 DEF Falls
    <3>5. QED
      BY <1>3, <2>4, <3>2, <3>3, <3>4 DEF Next
  <2>5. QED
    BY <2>3, <2>4
<1>4. TypeOK /\ ResumesInv => HeightOK
  BY HeightIsNat
<1>5. TypeOK /\ FlightInv /\ ResumesInv /\ WithinCap /\ HeightOK /\ HeightOK' /\ [Next]_vars =>
          [Descends]_vars
  <2>1. Finished => UNCHANGED vars
    BY DEF Finished
  <2>2. QED
    BY <1>3, <2>1, FallsInOrder
<1>6. Inv => TypeOK /\ FlightInv /\ BaselineInv
  BY DEF Inv
<1>7. QED
  BY <1>1, <1>2, <1>4, <1>5, <1>6, Inductive, PTL DEF Spec
=============================================================================
