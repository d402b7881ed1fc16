----------------------------- MODULE Nightshift -----------------------------
(***************************************************************************)
(* run_nightshift: the strictly serial schedule of one night over the      *)
(* sessions directory, and the nights that follow it.  A night plans from  *)
(* the evidence on disk, resumes, tunes, calibrates, retunes and deepens,  *)
(* and leaves sessions behind for the next one, however it ends.           *)
(*                                                                         *)
(* A child session is run_tuning or resume_tuning in the same process; of  *)
(* it only what it leaves in its directory and the outcome it returns is   *)
(* kept (TuneEngine has the rest).  Its SIGINT handler replaces the        *)
(* night's while it runs.  Models are ranked by size and by path alike,    *)
(* sessions by creation.                                                   *)
(***************************************************************************)
EXTENDS Naturals, Sequences, FiniteSets, FiniteSetsExt

CONSTANTS
    NumModels,   \* models; a model is its rank
    Worlds,      \* command lines, directories and users considered
    MinTune,     \* time a tune-class item must still have
    Estimate     \* time a calibration is estimated to take

Models == 1..NumModels

\* A session directory: analysis.json exists; the journal has an entry that can
\* complete it; some session_end says the user interrupted; the recommendation
\* was validated at the context this command asks for.
Session == [model : Models, analysis : BOOLEAN, marked : BOOLEAN, cut : BOOLEAN, ctx : BOOLEAN]

\* found: the models discovered; rep: the representative of each one's content
\* group; time: the window in units, of which a command without a deadline sees
\* nothing; nights, signals: bounds on how often the command is run, and on the
\* signals in one night.
World ==
    [found : SUBSET Models, rep : [Models -> Models], deadline : BOOLEAN, time : Nat,
     deepens : BOOLEAN, sessions : Seq(Session), nights : Nat, signals : Nat]

ASSUME BoundsAssumption ==
    NumModels \in Nat \ {0} /\ MinTune \in Nat /\ Estimate \in Nat
ASSUME WorldsAssumption ==
    \A w \in Worlds :
        w \in World /\ \A m \in w.found : w.rep[m] \in w.found /\ w.rep[w.rep[m]] = w.rep[m]

VARIABLES
    world,
    sessions,    \* the directories, in order of creation
    night,       \* nights so far
    left,        \* what remains of the window
    pc,          \* where the scheduler is
    phase, pos,  \* position in the queues
    queue,       \* the work of each phase
    item,        \* the item at hand
    session,     \* the directory of the child session, 0 if none
    result,      \* how the child session came back
    stopping,    \* the child took a first SIGINT
    stop, signalled, failed, failures, calibrated,
    records,     \* snapshot: the reference session of each model
    items,       \* the records of the night
    exit,
    signals      \* history: signals the user sent this night

vars == <<world, sessions, night, left, pc, phase, pos, queue, item, session, result, stopping,
          stop, signalled, failed, failures, calibrated, records, items, exit, signals>>

disk == <<world, sessions, night>>
flags == <<stop, signalled, failed, failures, calibrated>>
child == <<session, result, stopping>>
place == <<phase, pos, queue>>

Phases == <<"resume", "tune", "calibrate", "retune", "deepen">>
TuneClass == {"resume", "tune", "retune", "deepen"}
Trying == {"loop", "picked", "calibrating", "preparing", "tuning", "tuned"}
Over == {"ended", "died", "off"}

NoItem == [kind |-> "none", model |-> 1, session |-> 0, ref |-> 1]

PhaseNames == {"resume", "tune", "calibrate", "retune", "deepen"}

----------------------------------------------------------------------------
(* The registry derived from the directories, and the plan.                *)
Done(s) == s.analysis /\ s.marked

\* Mutant of Evidence: a session_end is enough.
EvidenceMarked(ss, m) == {i \in DOMAIN ss : ss[i].model = m /\ ss[i].marked}

Evidence(ss, m) == {i \in DOMAIN ss : ss[i].model = m /\ Done(ss[i])}

\* The latest completed session of each model; then, not before, those without
\* the context are dropped.
Registry(ss) ==
    [m \in {n \in world.found :
              Evidence(ss, n) # {} /\ ss[Max(Evidence(ss, n))].ctx}
        |-> Max(Evidence(ss, m))]

\* Mutant of Incomplete: a session the user cut short is offered again.
IncompleteOrCut(s) == ~Done(s) \/ s.cut

Incomplete(s) == ~Done(s)

Item(kind, m, s, ref) == [kind |-> kind, model |-> m, session |-> s, ref |-> ref]

\* The members of a finite set of numbers, in order.
Ascending(S) ==
    CHOOSE q \in [1..Cardinality(S) -> S] : \A i, j \in DOMAIN q : i < j => q[i] < q[j]

Unfinished(ss) == {i \in DOMAIN ss : ss[i].model \in world.found /\ Incomplete(ss[i])}

Resumes(ss) ==
    LET open == Ascending(Unfinished(ss))
    IN  [k \in DOMAIN open |-> Item("resume", ss[open[k]].model, open[k], 1)]

\* Mutant of Untuned: an unfinished session does not count.
UntunedWithoutRecord(ss, m) == m \notin DOMAIN Registry(ss)

Untuned(ss, m) ==
    /\ m \notin DOMAIN Registry(ss)
    /\ \A i \in DOMAIN ss : ss[i].model = m => ~Incomplete(ss[i])

Tunes(ss) ==
    LET new == Ascending({m \in world.found : world.rep[m] = m /\ Untuned(ss, m)})
    IN  [k \in DOMAIN new |-> Item("tune", new[k], 0, 1)]

Siblings(m) == {s \in world.found : s # world.rep[s] /\ world.rep[s] = m}

Transferable(ss, s) ==
    /\ s \in Siblings(world.rep[s])
    /\ s \notin DOMAIN Registry(ss)
    /\ world.rep[s] \in DOMAIN Registry(ss)

References(ss) == {Registry(ss)[m] : m \in DOMAIN Registry(ss)}

\* Own records, stalest first, then siblings against their representative.
Calibrations(ss) ==
    LET own == Ascending(References(ss))
        transfers == Ascending({s \in world.found : Transferable(ss, s)})
    IN  [k \in DOMAIN own |-> Item("calibrate", ss[own[k]].model, 0, ss[own[k]].model)]
        \o [k \in DOMAIN transfers |->
               Item("calibrate", transfers[k], 0, world.rep[transfers[k]])]

Plan(ss) ==
    [p \in PhaseNames |->
        CASE p = "resume"    -> Resumes(ss)
          [] p = "tune"      -> Tunes(ss)
          [] p = "calibrate" -> Calibrations(ss)
          [] OTHER           -> <<>>]

\* A night starts from the directories alone.
Begin(ss) ==
    /\ left' = world.time
    /\ pc' = "loop" /\ phase' = 1 /\ pos' = 0
    /\ queue' = Plan(ss)
    /\ item' = NoItem
    /\ session' = 0 /\ result' = "none" /\ stopping' = FALSE
    /\ stop' = FALSE /\ signalled' = FALSE /\ failed' = FALSE
    /\ failures' = <<>> /\ calibrated' = {}
    /\ records' = Registry(ss)
    /\ items' = <<>> /\ exit' = 0 /\ signals' = 0

Init ==
    /\ world \in Worlds
    /\ sessions = world.sessions
    /\ night = 0 /\ left = 0 /\ pc = "off" /\ phase = 1 /\ pos = 0
    /\ queue = [p \in PhaseNames |-> <<>>]
    /\ item = NoItem
    /\ session = 0 /\ result = "none" /\ stopping = FALSE
    /\ stop = FALSE /\ signalled = FALSE /\ failed = FALSE
    /\ failures = <<>> /\ calibrated = {}
    /\ records = <<>> /\ items = <<>> /\ exit = 0 /\ signals = 0

\* The user runs the command, again after a night ended in any way.
StartNight ==
    /\ pc \in Over
    /\ night < world.nights
    /\ night' = night + 1
    /\ Begin(sessions)
    /\ UNCHANGED <<world, sessions>>

----------------------------------------------------------------------------
(* The loop over the queues.                                               *)
Queue == queue[Phases[phase]]

Fits(i, time) ==
    \/ ~world.deadline
    \/ IF i.kind = "calibrate" THEN Estimate <= time ELSE MinTune <= time

\* Mutant of Look: what remains of a window is not clamped at zero.
LookPast == IF world.deadline THEN left' \in {left, left - 2} ELSE UNCHANGED left

\* The window shrinks by whatever was spent since the last look.
Look == IF world.deadline THEN left' \in 0..left ELSE UNCHANGED left

\* Take the next item; deepening ends at the first that does not fit.
Pick ==
    /\ pc = "loop"
    /\ ~stop
    /\ pos < Len(Queue)
    /\ Look
    /\ pos' = pos + 1
    /\ item' = Queue[pos + 1]
    /\ pc' = IF Phases[phase] = "deepen" /\ ~Fits(Queue[pos + 1], left')
             THEN "finalizing" ELSE "picked"
    /\ UNCHANGED <<disk, phase, queue, child, flags, records, items, exit, signals>>

\* Mutant of FirstIndex: the index is not reset for the next queue.
SameIndex == pos

FirstIndex == 0

NextPhase ==
    /\ pc = "loop"
    /\ phase < 4
    /\ stop \/ pos = Len(Queue)
    /\ phase' = phase + 1 /\ pos' = FirstIndex
    /\ UNCHANGED <<disk, left, pc, queue, item, child, flags, records, items, exit, signals>>

\* Models with a record, least recently tuned first.
Deepenings(ss) ==
    LET own == Ascending(References(ss))
    IN  [k \in DOMAIN own |-> Item("deepen", ss[own[k]].model, 0, 1)]

EnterDeepening ==
    /\ pc = "loop" /\ phase = 4
    /\ pos = Len(Queue)
    /\ ~stop /\ world.deadline /\ world.deepens
    /\ records' = Registry(sessions)
    /\ queue' = [queue EXCEPT !["deepen"] = Deepenings(sessions)]
    /\ phase' = 5 /\ pos' = 0
    /\ UNCHANGED <<disk, left, pc, item, child, flags, items, exit, signals>>

LeaveLoop ==
    /\ pc = "loop"
    /\ \/ phase = 4 /\ (stop \/ pos = Len(Queue))
          /\ (stop \/ ~world.deadline \/ ~world.deepens)
       \/ phase = 5 /\ (stop \/ pos = Len(Queue))
    /\ pc' = "finalizing"
    /\ UNCHANGED <<disk, left, place, item, child, flags, records, items, exit, signals>>

Record(i, outcome) ==
    [kind |-> i.kind, model |-> i.model, session |-> i.session, outcome |-> outcome]

Defer ==
    /\ pc = "picked"
    /\ ~Fits(item, left)
    /\ items' = Append(items, Record(item, "deferred"))
    /\ pc' = "loop"
    /\ UNCHANGED <<disk, left, place, item, child, flags, records, exit, signals>>

----------------------------------------------------------------------------
(* Calibrations.                                                           *)
\* The reference is looked up outside any handler: without it the night dies.
StartCalibration ==
    /\ pc = "picked" /\ item.kind = "calibrate"
    /\ Fits(item, left)
    /\ pc' = IF item.ref \in DOMAIN records THEN "calibrating" ELSE "died"
    /\ UNCHANGED <<disk, left, place, item, child, flags, records, items, exit, signals>>

Suspect == {"drift", "error"}

EndCalibration(verdict) ==
    /\ pc = "calibrating"
    /\ calibrated' = calibrated \cup {item.model}
    /\ queue' = IF verdict \in Suspect
                THEN [queue EXCEPT !["retune"] = Append(@, Item("retune", item.model, 0, 1))]
                ELSE queue
    /\ failed' = (failed \/ verdict = "error")
    /\ items' = Append(items, Record(item, verdict))
    /\ pc' = "loop"
    /\ UNCHANGED <<disk, left, phase, pos, item, child, stop, signalled, failures, records,
                   exit, signals>>

----------------------------------------------------------------------------
(* Child sessions.                                                         *)
StartTuning ==
    /\ pc = "picked" /\ item.kind \in TuneClass
    /\ Fits(item, left)
    /\ pc' = "preparing"
    /\ session' = item.session
    /\ UNCHANGED <<disk, left, place, item, result, stopping, flags, records, items, exit,
                   signals>>

\* A resumed session must load; any other gets a directory.
Prepare ==
    /\ pc = "preparing"
    /\ IF item.kind = "resume"
       THEN UNCHANGED <<sessions, session>>
       ELSE /\ sessions' = Append(sessions, [model |-> item.model, analysis |-> FALSE,
                                             marked |-> FALSE, cut |-> FALSE, ctx |-> FALSE])
            /\ session' = Len(sessions) + 1
    /\ stopping' = FALSE
    /\ pc' = "tuning"
    /\ UNCHANGED <<world, night, left, place, item, result, flags, records, items, exit,
                   signals>>

PrepareFails ==
    /\ pc = "preparing"
    /\ result' = "raised"
    /\ pc' = "tuned"
    /\ UNCHANGED <<disk, left, place, item, session, stopping, flags, records, items, exit,
                   signals>>

Leaves(s, r) ==
    /\ sessions' = [sessions EXCEPT ![session] = s]
    /\ result' = r
    /\ pc' = "tuned"
    /\ UNCHANGED <<world, night, left, place, item, session, stopping, flags, records, items,
                   exit, signals>>

Own == sessions[session]

\* Exit 0 or 1: outputs, analysis_written and session_end are there.
ChildFinishes ==
    /\ pc = "tuning"
    /\ \E ctx \in BOOLEAN :
        Leaves([Own EXCEPT !.analysis = TRUE, !.marked = TRUE, !.ctx = ctx,
                           !.cut = @ \/ stopping], "succeeded")

\* Exit 2, 3, or 4 on an I/O failure: session_end may be journaled, whatever
\* outputs there were may be withdrawn, and a SIGINT goes unmentioned.
ChildFails ==
    /\ pc = "tuning"
    /\ \E analysis \in {FALSE, Own.analysis}, marked \in {TRUE, Own.marked} :
        Leaves([Own EXCEPT !.analysis = analysis, !.marked = marked], "failed")

ChildRaises == pc = "tuning" /\ Leaves(Own, "raised")

\* KeyboardInterrupt inside the child: exit 4, session_end says interrupted.
Torn == [Own EXCEPT !.marked = TRUE, !.cut = TRUE]

----------------------------------------------------------------------------
(* What the night makes of a child session.                                *)
Cut == session # 0 /\ sessions[session].cut

Judged ==
    CASE Cut /\ ~(item.kind = "deepen" /\ result = "raised") -> "interrupted"
      [] result = "succeeded"                               -> "succeeded"
      [] OTHER                                               -> "failed"

\* A model that fails again right away counts once.
Noted(m) == IF failures # <<>> /\ failures[Len(failures)] = m
            THEN failures ELSE Append(failures, m)

\* Mutant of Tripped: three failures, distinct or not.
TrippedByThree(f) == Len(f) >= 3

Tripped(f) ==
    Len(f) >= 3 /\ Cardinality({f[Len(f)], f[Len(f) - 1], f[Len(f) - 2]}) = 3

Deferred(S) ==
    LET q == Ascending(S)
    IN  [k \in DOMAIN q |-> Record(Item("calibrate", q[k], 0, item.model), "deferred")]

\* Mutant of Fails: a failed child leaves the exit code alone.
FailsQuietly == failed

Fails == TRUE

JudgeFailed ==
    /\ pc = "tuned" /\ Judged = "failed"
    /\ failed' = Fails
    /\ failures' = Noted(item.model)
    /\ stop' = (stop \/ Tripped(failures'))
    /\ items' = items \o <<Record(item, "failed")>>
                \o (IF item.kind = "tune"
                    THEN Deferred({s \in Siblings(item.model) : s \notin DOMAIN records})
                    ELSE <<>>)
    /\ pc' = "loop"
    /\ UNCHANGED <<disk, left, place, item, child, signalled, calibrated, records, exit,
                   signals>>

\* A success or an interruption clears the breaker and reads the registry again;
\* the siblings of a newly tuned model join the calibrations.
JudgePassed ==
    /\ pc = "tuned" /\ Judged # "failed"
    /\ item.kind # "deepen"
    /\ stop' = (stop \/ Judged = "interrupted")
    /\ failures' = <<>>
    /\ records' = Registry(sessions)
    /\ queue' =
        IF item.kind = "tune" /\ item.model \in DOMAIN records'
        THEN LET q == Ascending({s \in Siblings(item.model) :
                                 s \notin DOMAIN records' \cup calibrated})
             IN  [queue EXCEPT !["calibrate"] =
                     @ \o [k \in DOMAIN q |-> Item("calibrate", q[k], 0, item.model)]]
        ELSE queue
    /\ items' = Append(items, Record(item, Judged))
    /\ pc' = "loop"
    /\ UNCHANGED <<disk, left, phase, pos, item, child, signalled, failed, calibrated, exit,
                   signals>>

JudgeDeepened ==
    /\ pc = "tuned" /\ Judged # "failed"
    /\ item.kind = "deepen"
    /\ stop' = (stop \/ Judged = "interrupted")
    /\ failures' = IF Judged = "interrupted" THEN failures ELSE <<>>
    /\ items' = Append(items, Record(item, Judged))
    /\ pc' = "loop"
    /\ UNCHANGED <<disk, left, place, item, child, signalled, failed, calibrated, records,
                   exit, signals>>

----------------------------------------------------------------------------
(* Signals, the end of a night, and the end of its process.                *)
\* A child's own handler takes its SIGINT: the first asks it to stop, the
\* second raises KeyboardInterrupt in it.
SignalToChild ==
    /\ pc = "tuning" /\ signals < world.signals
    /\ signals' = signals + 1
    /\ IF stopping
       THEN /\ sessions' = [sessions EXCEPT ![session] = Torn]
            /\ result' = "failed" /\ pc' = "tuned"
            /\ UNCHANGED stopping
       ELSE stopping' = TRUE /\ UNCHANGED <<sessions, result, pc>>
    /\ UNCHANGED <<world, night, left, place, item, session, flags, records, items, exit>>

\* Any other signal is the night's: the first sets stop, one that finds it set
\* raises KeyboardInterrupt, which a running child catches.
SignalToNight ==
    /\ pc \in Trying /\ signals < world.signals
    /\ signals' = signals + 1
    /\ signalled' = TRUE
    /\ stop' = TRUE
    /\ CASE ~stop -> UNCHANGED <<sessions, result, pc>>
         [] stop /\ pc = "tuning" ->
                /\ sessions' = [sessions EXCEPT ![session] = Torn]
                /\ result' = "failed" /\ pc' = "tuned"
         [] stop /\ pc # "tuning" -> pc' = "finalizing" /\ UNCHANGED <<sessions, result>>
    /\ UNCHANGED <<world, night, left, place, item, session, stopping, failed, failures,
                   calibrated, records, items, exit>>

Interrupted == signalled \/ \E k \in DOMAIN items : items[k].outcome = "interrupted"

Finalize ==
    /\ pc = "finalizing"
    /\ exit' = IF Interrupted THEN 4 ELSE IF failed THEN 1 ELSE 0
    /\ pc' = "ended"
    /\ UNCHANGED <<disk, left, place, item, child, flags, records, items, signals>>

\* The process goes away, or cannot write its own journal; a child may have got
\* as far as its outputs, or as its journal entry for them.
Crash ==
    /\ pc \notin Over
    /\ pc' = "off"
    /\ \/ UNCHANGED sessions
       \/ /\ pc = "tuning"
          /\ \E marked \in {TRUE, Own.marked}, ctx \in BOOLEAN :
                sessions' = [sessions EXCEPT ![session] =
                    [Own EXCEPT !.analysis = TRUE, !.marked = marked, !.ctx = ctx]]
    /\ UNCHANGED <<world, night, left, place, item, child, flags, records, items, exit,
                   signals>>

Rest == pc \in Over /\ night = world.nights /\ UNCHANGED vars

Next ==
    \/ StartNight \/ Pick \/ NextPhase \/ EnterDeepening \/ LeaveLoop \/ Defer
    \/ StartCalibration \/ \E v \in {"consistent", "drift", "error"} : EndCalibration(v)
    \/ StartTuning \/ Prepare \/ PrepareFails \/ ChildFinishes \/ ChildFails \/ ChildRaises
    \/ JudgeFailed \/ JudgePassed \/ JudgeDeepened
    \/ SignalToChild \/ SignalToNight \/ Finalize \/ Crash \/ Rest

Spec == Init /\ [][Next]_vars

----------------------------------------------------------------------------
Kinds == TuneClass \cup {"calibrate"}
Outcomes == {"succeeded", "failed", "interrupted", "deferred", "consistent", "drift", "error"}

Items == [kind : Kinds \cup {"none"}, model : Models, session : Nat, ref : Models]
Recorded == [kind : Kinds, model : Models, session : Nat, outcome : Outcomes]

FlagsOK == stopping \in BOOLEAN /\ stop \in BOOLEAN /\ signalled \in BOOLEAN /\ failed \in BOOLEAN

TypeOK ==
    /\ world \in Worlds
    /\ sessions \in Seq(Session)
    /\ night \in 0..world.nights /\ left \in 0..world.time
    /\ pc \in Trying \cup Over \cup {"finalizing"}
    /\ phase \in 1..5 /\ queue \in [PhaseNames -> Seq(Items)] /\ pos \in 0..Len(Queue)
    /\ item \in Items
    /\ item.session \in 0..Len(sessions) /\ session \in 0..Len(sessions)
    /\ result \in {"none", "succeeded", "failed", "raised"}
    /\ FlagsOK
    /\ failures \in Seq(Models) /\ calibrated \subseteq Models
    /\ DOMAIN records \subseteq Models
    /\ items \in Seq(Recorded)
    /\ exit \in {0, 1, 4} /\ signals \in 0..world.signals

Of(kind, m) == {k \in DOMAIN items : items[k].kind = kind /\ items[k].model = m}

(***************************************************************************)
(* A night that nobody and nothing stopped has a record for every piece of *)
(* work of its queues, planned or added on the way: none is lost when the  *)
(* loop moves to the next queue.  None is done twice: only a calibration   *)
(* can be recorded twice, and then one of the two was deferred.            *)
(***************************************************************************)
NothingLeftOut ==
    pc = "ended" /\ ~stop =>
        \A p \in {Phases[i] : i \in 1..4} : \A j \in DOMAIN queue[p] :
            LET i == queue[p][j]
                done == {k \in Of(i.kind, i.model) : items[k].session = i.session}
            IN  /\ done # {}
                /\ \A k, l \in done : k # l =>
                       i.kind = "calibrate" /\ "deferred" \in {items[k].outcome, items[l].outcome}

\* The records of child sessions; those that failed since one last passed.
Trials == {k \in DOMAIN items : items[k].kind \in TuneClass /\ items[k].outcome # "deferred"}
Streak == {k \in Trials : \A j \in Trials : k <= j => items[j].outcome = "failed"}

ModelsOf(S) == {items[k].model : k \in S}

\* Three failures, one right after the other.
InARow(a, b, c) == a < b /\ b < c /\ \A k \in Streak : a <= k /\ k <= c => k \in {a, b, c}

(***************************************************************************)
(* The circuit breaker stops a night just when the last failures without a *)
(* success in between are of three models, each different from the next:   *)
(* one broken model, however often it fails, never costs the night.        *)
(***************************************************************************)
BreakerIsRight ==
    /\ pc = "ended" /\ stop /\ ~Interrupted =>
           Cardinality(ModelsOf(Streak)) >= 3
    /\ pc = "loop" /\ ~stop =>
           \A a, b, c \in Streak :
               InARow(a, b, c) => Cardinality(ModelsOf({a, b, c})) < 3

(***************************************************************************)
(* Exit 0 means a night without a failed item and without a signal, and a  *)
(* night that a signal reached ends with 4.                                *)
(***************************************************************************)
ExitIsHonest ==
    pc = "ended" =>
        /\ exit = 0 => \A k \in DOMAIN items :
                            items[k].outcome \notin {"failed", "interrupted", "error"}
        /\ signalled => exit = 4

\* What stopped a night and how it exited agree with what its items came to.
EndIsHonest == BreakerIsRight /\ ExitIsHonest

(***************************************************************************)
(* The snapshot a night decides by is never ahead of the disk: a reference *)
(* is a completed session of its own model with the context asked for,     *)
(* whatever the children did to the directories since it was taken.        *)
(***************************************************************************)
RecordsAreEvidence ==
    pc \in Trying =>
        \A m \in DOMAIN records :
            LET s == sessions[records[m]] IN s.model = m /\ Done(s) /\ s.ctx

(***************************************************************************)
(* A session that completed stays so: no night resumes one and withdraws   *)
(* its outputs, after whatever crashes and signals.                        *)
(***************************************************************************)
CompletedStays ==
    [][\A i \in DOMAIN sessions : Done(sessions[i]) => Done(sessions'[i])]_vars

(***************************************************************************)
(* A tune never starts over what is half done, nor a model twice in one    *)
(* night: when one opens its directory, every other directory of the model *)
(* is completed, and the newest lacks the context asked for.               *)
(***************************************************************************)
TuneIsFirst ==
    [][item.kind = "tune" /\ Len(sessions') > Len(sessions) =>
           LET others == {i \in DOMAIN sessions : sessions[i].model = item.model}
           IN  /\ \A i \in others : Done(sessions[i])
               /\ others # {} => ~sessions[Max(others)].ctx]_vars

\* No night undoes or repeats the work of an earlier one.
WorkIsKept == CompletedStays /\ TuneIsFirst

(***************************************************************************)
(* Section 7.6, running the command again after an interruption does the   *)
(* right thing.  Fails: the entry of the earlier interruption makes a      *)
(* resumed session that succeeds an interrupted one, and stops the night.  *)
(***************************************************************************)
InterruptionNeedsSignal ==
    pc = "ended" /\ signals = 0 => \A k \in DOMAIN items : items[k].outcome # "interrupted"
=============================================================================
