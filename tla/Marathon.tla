------------------------------ MODULE Marathon ------------------------------
(***************************************************************************)
(* run_marathon over one sessions directory: the processes a user starts   *)
(* one after another, the run directories they leave behind, and what a    *)
(* process finds in the journal of the run it continues.                   *)
(*                                                                         *)
(* A process resumes the round an earlier one left open, measures its      *)
(* reference, rebuilds the champion from the journal, and then runs        *)
(* rounds: a tuning session each, whose winner becomes champion only by    *)
(* beating the present one in interleaved A/B blocks.  A context matrix    *)
(* and an A/B against the defaults end the run.  Sessions are TuneEngine's *)
(* business: here a round finishes, fails or raises.                       *)
(***************************************************************************)
EXTENDS Naturals, Sequences, FiniteSets, ContextMatrix

CONSTANTS
    Winners,    \* the configurations that sessions recommend
    None,       \* no configuration: the defaults
    Worlds      \* command lines, machines and users considered

\* The command line (ids: the identity-bearing options it may be given from one
\* process to the next); the winners sessions may have and the machine (grid);
\* bounds on run directories, on processes, on crashes and on the signals of one
\* process.
World ==
    [rounds : Nat, converge : Nat, blocks : Nat, ids : SUBSET Nat, dry : SUBSET BOOLEAN,
     timed : BOOLEAN, winners : SUBSET Winners, grid : Grids, runs : Nat, processes : Nat,
     crashes : Nat, signals : Nat]

ASSUME NoneAssumption == None \notin Winners
ASSUME WorldsAssumption ==
    \A w \in Worlds : w \in World /\ w.rounds >= 1 /\ w.converge >= 1 /\ w.blocks >= 3

VARIABLES
    world,
    runs,        \* the run directories, oldest first: identity and journal
    processes,   \* processes started
    crashes,     \* processes that died of a crash
    pc,          \* what the process is doing
    identity,    \* the identity-bearing options of its command line
    run,         \* the run directory it works in
    phase,       \* "resume", "rounds", "matrix", "verification"
    attempts,    \* failed reconnaissances
    index,       \* the round
    champion,    \* the configuration to beat
    contender,   \* the winner of the round
    wins,        \* blocks of the current A/B won by each side, and ties
    changed,     \* the round has crowned its winner
    noChange, failures, bracketErrors,
    failed,      \* the summary names a failure
    stop, reason, exit,
    since,       \* history: the length of the journal when the process began
    signals      \* history: signals this process was sent

vars == <<world, runs, processes, crashes, pc, identity, run, phase, attempts, index, champion,
          contender, wins, changed, noChange, failures, bracketErrors, failed, stop, reason, exit, since,
          signals, matrixVars>>

life == <<world, processes, crashes, identity, run, since, signals>>
contest == <<contender, wins, changed>>
counters == <<attempts, noChange, failures, bracketErrors, failed>>
outcome == <<stop, reason, exit>>

Over == {"off", "ended", "died"}
Handling == {"resume", "recon", "bracket", "loop", "challenge", "record", "closing", "matrix",
             "verify", "finalizing"}
InChild == {"resuming", "tuning"}
Places == Over \cup {"stamp"} \cup Handling \cup InChild

----------------------------------------------------------------------------
(* The journal: only the entries that are read back, or spoken of below.   *)
Entry ==
    [type : {"round_start", "round_end", "round_failed", "challenge", "recon_complete",
             "marathon_end"},
     index : Nat, winner : Winners \cup {None}, changed : BOOLEAN, votes : Nat, exit : 0..4]

Note(type, i) ==
    [type |-> type, index |-> i, winner |-> None, changed |-> FALSE, votes |-> 0, exit |-> 0]

ChallengeNote(i, w, won) == [Note("challenge", i) EXCEPT !.winner = w, !.votes = won]
RoundNote(i, w, new) == [Note("round_end", i) EXCEPT !.winner = w, !.changed = new]
EndNote(x) == [Note("marathon_end", 0) EXCEPT !.exit = x]

Journal == runs[run].journal
Writes(e) == runs' = [runs EXCEPT ![run].journal = Append(@, e)]

Entries(j, type) == {k \in DOMAIN j : j[k].type = type}
Completed(j) == Entries(j, "round_end")

NoWins == [a |-> 0, b |-> 0, tie |-> 0]

Ended(j) == Entries(j, "marathon_end") # {}
LastOf(S) == CHOOSE k \in S : \A l \in S : l <= k

\* Rounds that were started and have neither end: an end of the same index
\* closes every start of that index.
OpenRounds(j) ==
    {k \in Entries(j, "round_start") :
        \A l \in Completed(j) \cup Entries(j, "round_failed") : j[l].index # j[k].index}

Crownings(j) == {k \in Completed(j) : j[k].changed}

\* The champion a process finds in a journal.
Crown(j) == IF Crownings(j) = {} THEN None ELSE j[LastOf(Crownings(j))].winner

----------------------------------------------------------------------------
(* Processes.                                                              *)
Init ==
    /\ world \in Worlds
    /\ runs = <<>> /\ processes = 0 /\ crashes = 0
    /\ pc = "off" /\ identity = 0 /\ run = 0 /\ phase = "resume"
    /\ attempts = 0 /\ index = 0 /\ champion = None /\ contender = None
    /\ wins = NoWins /\ changed = FALSE
    /\ noChange = 0 /\ failures = 0 /\ bracketErrors = 0 /\ failed = FALSE
    /\ stop = FALSE /\ reason = "none" /\ exit = 0
    /\ since = 0 /\ signals = 0
    /\ grid = world.grid /\ InitMatrix

\* The unfinished runs of an identity; a run without one never matches.
Unfinished(id) == {r \in DOMAIN runs : runs[r].id = id /\ ~Ended(runs[r].journal)}

\* What a process has in memory before it has read anything.
Blank ==
    /\ phase' = "resume"
    /\ attempts' = 0 /\ index' = 0 /\ champion' = None /\ contender' = None
    /\ wins' = NoWins /\ changed' = FALSE
    /\ noChange' = 0 /\ failures' = 0 /\ bracketErrors' = 0 /\ failed' = FALSE
    /\ stop' = FALSE /\ reason' = "none" /\ exit' = 0 /\ signals' = 0
    /\ grid' = world.grid /\ ResetMatrix("done")

\* Without marathon_end; of its memory nothing is left.
Dies ==
    /\ pc' = "died" /\ run' = 0 /\ since' = 0 /\ identity' = 0
    /\ Blank
    /\ UNCHANGED <<world, runs, processes>>

\* find_reentry, then load or create.
StartProcess(id) ==
    /\ pc \in Over
    /\ processes < world.processes
    /\ processes' = processes + 1
    /\ identity' = id
    /\ IF Unfinished(id) # {}
       THEN run' = LastOf(Unfinished(id)) /\ UNCHANGED runs
       ELSE /\ Len(runs) < world.runs
            /\ run' = Len(runs) + 1
            /\ runs' = Append(runs, [id |-> 0, journal |-> <<>>])
    /\ since' = Len(runs'[run'].journal)
    /\ pc' = "stamp"
    /\ Blank
    /\ UNCHANGED <<world, crashes>>

\* Identity and plan are written; a dry run goes straight to its end.
Stamp(dry) ==
    /\ pc = "stamp"
    /\ runs' = [runs EXCEPT ![run].id = identity]
    /\ IF dry
       THEN pc' = "finalizing" /\ reason' = "dry_run"
       ELSE pc' = "resume" /\ UNCHANGED reason
    /\ UNCHANGED <<life, phase, index, champion, contest, counters, stop, exit, matrixVars>>

\* The newest open round is resumed, whatever its session already is.
Resume ==
    /\ pc = "resume"
    /\ IF OpenRounds(Journal) # {} /\ ~stop
       THEN /\ index' = Journal[LastOf(OpenRounds(Journal))].index
            /\ pc' = "resuming"
       ELSE pc' = "recon" /\ UNCHANGED index
    /\ UNCHANGED <<life, runs, phase, champion, contest, counters, outcome, matrixVars>>

\* The winner of a resumed round is not looked at.
ResumedRoundEnds(type) ==
    /\ pc = "resuming"
    /\ Writes(Note(type, index))
    /\ pc' = "recon"
    /\ UNCHANGED <<life, phase, index, champion, contest, counters, outcome, matrixVars>>

Finalizing(r, x) == pc' = "finalizing" /\ reason' = r /\ exit' = x /\ UNCHANGED stop

FirstRound(j) == Cardinality(Completed(j)) + 1

\* Mutant of Inherited: a process that continues a run starts from the defaults.
InheritedNothing(j) == None

Inherited(j) == Crown(j)

\* Memory is rebuilt from the journal, once there is a reference.
Rebuild ==
    /\ champion' = Inherited(Journal)
    /\ index' = FirstRound(Journal)
    /\ noChange' = 0 /\ failures' = 0
    /\ pc' = "bracket" /\ phase' = "rounds"

ReconKnown ==
    /\ pc = "recon" /\ Entries(Journal, "recon_complete") # {}
    /\ Rebuild
    /\ UNCHANGED <<life, runs, contest, attempts, bracketErrors, failed, outcome, matrixVars>>

ReconPasses ==
    /\ pc = "recon" /\ Entries(Journal, "recon_complete") = {}
    /\ Writes(Note("recon_complete", 0))
    /\ Rebuild
    /\ UNCHANGED <<life, contest, attempts, bracketErrors, failed, outcome, matrixVars>>

ReconFails ==
    /\ pc = "recon" /\ Entries(Journal, "recon_complete") = {}
    /\ attempts' = attempts + 1
    /\ IF attempts' = 2
       THEN Finalizing("reconnaissance_failed", 3) /\ failed' = TRUE
       ELSE UNCHANGED <<pc, outcome, failed>>
    /\ UNCHANGED <<life, runs, phase, index, champion, contest, noChange, failures,
                   bracketErrors, matrixVars>>

----------------------------------------------------------------------------
(* Phases begin with a bracket: the reference is measured again.           *)
AfterBracket == CASE phase = "rounds" -> "loop" [] phase = "matrix" -> "matrix"
                  [] phase = "verification" -> "verify"

\* Skipped when the last one is fresh; the first of a process never is.
BracketHolds ==
    /\ pc = "bracket"
    /\ pc' = AfterBracket
    /\ bracketErrors' \in IF phase = "rounds" THEN {0} ELSE {0, bracketErrors}
    /\ UNCHANGED <<life, runs, phase, index, champion, contest, attempts, noChange, failures,
                   failed, outcome, matrixVars>>

BracketErrs ==
    /\ pc = "bracket"
    /\ bracketErrors' = bracketErrors + 1
    /\ failed' = TRUE
    /\ IF bracketErrors' < 3
       THEN pc' = AfterBracket /\ UNCHANGED outcome
       ELSE Finalizing("bracket_circuit_breaker", 3)
    /\ UNCHANGED <<life, runs, phase, index, champion, contest, attempts, noChange, failures,
                   matrixVars>>

----------------------------------------------------------------------------
(* Rounds.                                                                 *)
Closing(r) == pc' = "closing" /\ reason' = r /\ UNCHANGED <<stop, exit>>

LeaveRounds ==
    /\ pc = "loop"
    /\ \/ index > world.rounds /\ Closing("rounds_max")
       \/ index <= world.rounds /\ stop /\ Closing(reason)
       \/ index <= world.rounds /\ ~stop /\ world.timed /\ Closing("deadline")
    /\ UNCHANGED <<life, runs, phase, index, champion, contest, counters, matrixVars>>

StartRound ==
    /\ pc = "loop"
    /\ ~stop /\ index <= world.rounds
    /\ Writes(Note("round_start", index))
    /\ pc' = "tuning"
    /\ UNCHANGED <<life, phase, index, champion, contest, counters, outcome, matrixVars>>

\* Mutant of Tripped: the breaker opens one round late.
TrippedLate == failures' > 3

Tripped == failures' >= 3

RoundFails ==
    /\ pc = "tuning"
    /\ failures' = failures + 1
    /\ failed' = TRUE
    /\ Writes(Note("round_failed", index))
    /\ IF Tripped
       THEN Finalizing("circuit_breaker", 3) /\ UNCHANGED index
       ELSE pc' = "loop" /\ index' = index + 1 /\ UNCHANGED outcome
    /\ UNCHANGED <<life, phase, champion, contest, attempts, noChange, bracketErrors, matrixVars>>

\* Only a winner other than the champion challenges it.
RoundEnds(w) ==
    /\ pc = "tuning"
    /\ failures' = 0
    /\ contender' = w
    /\ pc' = IF w \notin {None, champion} THEN "challenge" ELSE "record"
    /\ UNCHANGED <<life, runs, phase, index, champion, attempts, noChange, bracketErrors, failed,
                   wins, changed, outcome, matrixVars>>

\* The child's exceptions and those of a matrix or A/B invocation are caught nowhere.
Raises ==
    /\ pc \in InChild \cup {"challenge", "matrix", "verify"}
    /\ Dies /\ UNCHANGED crashes

----------------------------------------------------------------------------
(* Interleaved A/B.  Side a is the champion, or the defaults at the end.   *)
ChallengeBlocks == IF world.blocks - 2 > 3 THEN world.blocks - 2 ELSE 3
Blocks == IF pc = "challenge" THEN ChallengeBlocks ELSE world.blocks
Played == wins.a + wins.b + wins.tie

PlayBlock(side) ==
    /\ pc \in {"challenge", "verify"}
    /\ pc = "verify" => champion # None
    /\ Played < Blocks
    /\ wins' = [wins EXCEPT ![side] = @ + 1]
    /\ UNCHANGED <<life, runs, pc, phase, index, champion, contender, changed, counters, outcome,
                   matrixVars>>

\* Mutant of Majority: half is enough.
HalfOf(n) == n \div 2

Majority(n) == n \div 2 + 1

\* ahead: the side ahead on the dominant metric beyond the threshold.
Verdict(w, n, ahead) ==
    IF w.a >= Majority(n) /\ ahead # "b" THEN "a"
    ELSE IF w.b >= Majority(n) /\ ahead # "a" THEN "b"
    ELSE "tie"

EndChallenge(ahead) ==
    /\ pc = "challenge" /\ Played = Blocks
    /\ LET won == Verdict(wins, Blocks, ahead) = "b"
       IN  /\ Writes(ChallengeNote(index, contender, IF won THEN wins.b ELSE 0))
           /\ champion' = IF won THEN contender ELSE champion
           /\ changed' = won
    /\ pc' = "record" /\ wins' = NoWins
    /\ UNCHANGED <<life, phase, index, contender, counters, outcome, matrixVars>>

\* Mutant of Unchanged: a change of champion does not restart the count.
UnchangedOnce == noChange + 1

Unchanged == IF changed THEN 0 ELSE noChange + 1

\* covered: tiers A to C of the search space have nothing left.
RecordRound(covered) ==
    /\ pc = "record"
    /\ Writes(RoundNote(index, contender, changed))
    /\ noChange' = Unchanged
    /\ contender' = None /\ changed' = FALSE
    /\ IF noChange' >= world.converge /\ covered
       THEN Closing("converged") /\ UNCHANGED index
       ELSE pc' = "loop" /\ index' = index + 1 /\ UNCHANGED outcome
    /\ UNCHANGED <<life, phase, champion, wins, attempts, failures, bracketErrors, failed,
                   matrixVars>>

----------------------------------------------------------------------------
(* After the rounds.                                                       *)
CloseRounds ==
    /\ pc = "closing"
    /\ IF stop
       THEN Finalizing("interrupted", 4) /\ UNCHANGED phase
       ELSE pc' = "bracket" /\ phase' = "matrix" /\ UNCHANGED outcome
    /\ UNCHANGED <<life, runs, index, champion, contest, counters, matrixVars>>

\* The champion's own evidence can serve only if there is a champion.
EnterMatrix ==
    /\ pc = "matrix" /\ step = "done"
    /\ ResetMatrix("open")
    /\ grid' = [grid EXCEPT !.reuse = world.grid.reuse /\ champion # None]
    /\ UNCHANGED <<life, runs, pc, phase, index, champion, contest, counters, outcome>>

\* exit is settled before the last bracket is measured.
LeaveMatrix ==
    /\ pc = "matrix"
    /\ MatrixDone \/ (step = "done" /\ world.timed)
    /\ step' = "done"
    /\ exit' = IF failed THEN 1 ELSE 0
    /\ pc' = "bracket" /\ phase' = "verification"
    /\ UNCHANGED <<life, runs, index, champion, contest, counters, stop, reason, grid, cell,
                   failedAt, placement, best, tried, late, rows>>

MeasureCell ==
    /\ pc = "matrix"
    /\ MatrixStep
    /\ UNCHANGED <<life, runs, pc, phase, index, champion, contest, counters, outcome>>

SkipVerification ==
    /\ pc = "verify" /\ champion = None
    /\ Finalizing(reason, 1)
    /\ UNCHANGED <<life, runs, phase, index, champion, contest, counters, matrixVars>>

\* Mutant of ExitAfter: what failed before is forgotten.
ExitOfVerdict(verdict) == IF verdict = "b" THEN 0 ELSE 1

ExitAfter(verdict) == IF verdict = "b" THEN exit ELSE 1

EndVerification(ahead) ==
    /\ pc = "verify" /\ champion # None /\ Played = Blocks
    /\ Finalizing(reason, ExitAfter(Verdict(wins, Blocks, ahead)))
    /\ UNCHANGED <<life, runs, phase, index, champion, contest, counters, matrixVars>>

\* Summary, report and marathon_end are written whatever the exit.
Finalize ==
    /\ pc = "finalizing"
    /\ Writes(EndNote(exit))
    /\ pc' = "ended"
    /\ UNCHANGED <<life, phase, index, champion, contest, counters, outcome, matrixVars>>

----------------------------------------------------------------------------
(* Signals and crashes.                                                    *)
\* The first signal asks for a graceful end; the next raises KeyboardInterrupt,
\* which ends in the same summary ("aborted" is its "interrupted").  Hitting
\* that very ending, or a dry run's, it is not caught.
SignalToRun ==
    /\ pc \in Handling /\ reason \notin {"dry_run", "aborted"}
    /\ signals < world.signals
    /\ signals' = signals + 1
    /\ IF ~stop
       THEN stop' = TRUE /\ UNCHANGED <<pc, reason, exit>>
       ELSE Finalizing("aborted", 4)
    /\ UNCHANGED <<world, processes, crashes, identity, run, since, runs, phase, index, champion,
                   contest, counters, matrixVars>>

SignalToEnding ==
    /\ pc = "finalizing" /\ reason \in {"dry_run", "aborted"}
    /\ signals < world.signals
    /\ Dies /\ UNCHANGED crashes

\* A session has its own handler for SIGINT; SIGTERM still reaches the run's.
SignalToChild ==
    /\ pc \in InChild
    /\ signals < world.signals
    /\ signals' = signals + 1
    /\ stop' \in {stop, TRUE}
    /\ UNCHANGED <<world, processes, crashes, identity, run, since, runs, pc, phase, index,
                   champion, contest, counters, reason, exit, matrixVars>>

Crash ==
    /\ pc \notin Over
    /\ crashes < world.crashes
    /\ crashes' = crashes + 1
    /\ Dies

Work ==
    \/ \E dry \in world.dry : Stamp(dry)
    \/ Resume
    \/ \E type \in {"round_end", "round_failed"} : ResumedRoundEnds(type)
    \/ ReconKnown \/ ReconPasses \/ ReconFails
    \/ BracketHolds \/ BracketErrs
    \/ LeaveRounds \/ StartRound
    \/ \E w \in world.winners \cup {None} : RoundEnds(w)
    \/ RoundFails
    \/ \E side \in {"a", "b", "tie"} : PlayBlock(side)
    \/ \E ahead \in {"a", "b", "none"} : EndChallenge(ahead) \/ EndVerification(ahead)
    \/ \E covered \in BOOLEAN : RecordRound(covered)
    \/ CloseRounds \/ EnterMatrix \/ MeasureCell \/ LeaveMatrix
    \/ SkipVerification \/ Finalize

Next ==
    \/ \E id \in world.ids : StartProcess(id)
    \/ Work
    \/ Raises \/ SignalToRun \/ SignalToEnding \/ SignalToChild \/ Crash

\* A process that can go on does, and no exception is counted on to end it;
\* nobody promises to start another.
Spec == Init /\ [][Next]_vars /\ WF_vars(Work)

----------------------------------------------------------------------------
(* Properties.                                                             *)
Reasons == {"none", "dry_run", "reconnaissance_failed", "bracket_circuit_breaker", "rounds_max",
            "deadline", "circuit_breaker", "converged", "interrupted", "aborted"}

Directories == [id : world.ids \cup {0}, journal : Seq(Entry)]

FlagsOK == changed \in BOOLEAN /\ failed \in BOOLEAN /\ stop \in BOOLEAN

\* Types, and the bounds of every counter.
TypeOK ==
    /\ world \in Worlds
    /\ runs \in Seq(Directories)
    /\ processes \in 0..world.processes /\ crashes \in 0..world.crashes
    /\ pc \in Places /\ run \in 0..Len(runs) /\ (pc \notin {"off", "died"} => run > 0)
    /\ identity \in world.ids \cup {0}
    /\ phase \in {"resume", "rounds", "matrix", "verification"}
    /\ attempts \in 0..2 /\ index \in 0..(world.rounds + 1)
    /\ champion \in Winners \cup {None} /\ contender \in Winners \cup {None}
    /\ wins \in [{"a", "b", "tie"} -> Nat] /\ FlagsOK
    /\ noChange \in 0..world.rounds /\ failures \in 0..3 /\ bracketErrors \in 0..3
    /\ reason \in Reasons /\ exit \in 0..4
    /\ since \in Nat /\ signals \in 0..world.signals
    /\ MatrixTypeOK

Rebuilt == {"bracket", "loop", "tuning", "challenge", "closing", "matrix", "verify"}

\* What a process takes for the champion is what its journal says, through
\* every crash and re-entry: between the challenge a winner won and the
\* round_end that says so they differ, and nowhere else.
\* (the rebuilding loop of run_marathon against its round_end entries)
ChampionIsJournaled ==
    pc \in Rebuilt => champion = Crown(Journal)

\* A configuration is crowned only by a challenge of its own round, journaled
\* before the round ended, in which it won more than half of the blocks.
\* (run_ab's pooled verdict, the challenge branch of a round)
CrownsAreWon ==
    \A r \in DOMAIN runs : LET j == runs[r].journal IN
        \A k \in Crownings(j) : \E l \in 1..(k - 1) :
            /\ j[l].type = "challenge" /\ j[l].index = j[k].index
            /\ j[l].winner = j[k].winner
            /\ 2 * j[l].votes > ChallengeBlocks

\* The champion of a process is one its journal crowned, after a challenge won.
ChampionIsWon == ChampionIsJournaled /\ CrownsAreWon

\* The entries of one type this process wrote, and the last n of them.
OwnEntries(types) == {k \in (since + 1)..Len(Journal) : Journal[k].type \in types}
LastEntries(S, n) == {k \in S : Cardinality({l \in S : l >= k}) <= n}

\* The breaker opens only when the last three rounds failed, one after the other;
\* a process converges only on that many completed rounds in a row, all its own,
\* that left the champion alone; and all processes of a run together complete no
\* more rounds than --rounds-max, though numbers are used again after a failure.
\* (failures, no_change and index in the loop of run_marathon)
StopReasonIsTrue ==
    /\ \A r \in DOMAIN runs : Cardinality(Completed(runs[r].journal)) <= world.rounds
    /\ pc = "ended" =>
        LET ends == OwnEntries({"round_end", "round_failed"})
            quiet == LastEntries(OwnEntries({"round_end"}), world.converge)
        IN  /\ reason = "circuit_breaker" =>
                /\ Cardinality(ends) >= 3
                /\ \A k \in LastEntries(ends, 3) : Journal[k].type = "round_failed"
            /\ reason = "converged" =>
                /\ Cardinality(quiet) = world.converge
                /\ \A k \in quiet : ~Journal[k].changed

\* Exit 0 is given only to a champion that beat the defaults in a majority of
\* the last blocks, by a process none of whose rounds failed.
\* (the two assignments of exit_code in run_marathon, and what comes between)
ExitIsHonest ==
    pc = "ended" /\ exit = 0 /\ reason # "dry_run" =>
        /\ champion # None
        /\ 2 * wins.b > world.blocks
        /\ \A k \in OwnEntries({"round_failed"}) :
            \A l \in OwnEntries({"round_start"}) : l < k => Journal[l].index # Journal[k].index

\* Why a run ended and how it exited agree with what its journal tells.
EndIsHonest == StopReasonIsTrue /\ ExitIsHonest

\* Every process ends, in whatever way, if children do.
ProcessEnds == pc \notin Over ~> pc \in Over

\* docs/marathon-design.md, 13.4: an interrupted run has no marathon_end, and
\* the same command continues it.
InterruptedRunContinues ==
    \A r \in DOMAIN runs : \A k \in Entries(runs[r].journal, "marathon_end") :
        runs[r].journal[k].exit # 4

=============================================================================
