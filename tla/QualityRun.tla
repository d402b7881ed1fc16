----------------------------- MODULE QualityRun -----------------------------
(***************************************************************************)
(* One quality run: the process that starts it, those that resume it, the  *)
(* server they launch, ask and stop, and the grades in the journal.        *)
(*                                                                         *)
(* A side is evaluated suite by suite, task by task, repetition by         *)
(* repetition.  A tuple the journal has a grade for is not asked again.    *)
(* The server is relaunched once in a suite; when that does not help, the  *)
(* rest of the suite is graded as errors and the run is abandoned.         *)
(*                                                                         *)
(* What a signal does depends on where the process is: the first sets a    *)
(* flag, each later one raises.  A handler runs between two statements;    *)
(* none fits between the return of start and the assignment of its handle. *)
(***************************************************************************)
EXTENDS Naturals, Sequences, FiniteSets

CONSTANT Worlds     \* plans, machines and users considered

\* suites: the number of tasks of each; short: the suites whose tasks need a
\* larger context; sides: 2 with the lossless comparison; obeys: the server
\* ends on SIGTERM; bounds on processes, crashes and the signals of one process.
World ==
    [suites : Seq(Nat), short : SUBSET Nat, reps : Nat, sides : 1..2, perplexity : BOOLEAN,
     obeys : BOOLEAN, processes : Nat, crashes : Nat, signals : Nat]

ASSUME WorldsAssumption ==
    \A w \in Worlds :
        w \in World /\ w.reps >= 1 /\ \A s \in DOMAIN w.suites : w.suites[s] >= 1

VARIABLES
    world, processes, crashes,
    journal,     \* the task_result entries, of all processes
    pc,          \* what the process is doing
    side, at,    \* the side, and the suite, task and repetition at hand
    prior,       \* the tuples it takes for graded
    relaunched,  \* the suite has had its relaunch
    tries,       \* launches attempted in a row
    reply,       \* what the tuple at hand is to be graded
    abort, harness,  \* the server is given up; some tuple ended in error
    server,      \* the server this process launched last
    from,        \* who is stopping it, or that nobody will
    stop,        \* a signal has been received
    exit,
    since,       \* history: the length of the journal when the process began
    signals,     \* history: signals this process was sent
    doubled      \* history: a child was started beside another

vars == <<world, processes, crashes, journal, pc, side, at, prior, relaunched, tries, reply,
          abort, harness, server, from, stop, exit, since, signals, doubled>>

life == <<world, processes, crashes, since, signals>>
place == <<side, at>>
verdicts == <<abort, harness>>
record == <<journal, prior>>

Statuses == {"graded", "skipped", "error"}
Over == {"off", "ended", "died"}
Working ==
    {"side", "spawn", "spawned", "starting", "revived", "unstartable", "rep", "record", "abandon",
     "task", "suite", "leave", "stop", "join", "left", "perplexity", "settle", "unwind"}
Callers == {"start", "death", "side", "outer", "nobody"}

Key == [side : 1..2, suite : Nat, task : Nat, rep : Nat]
Entry == [key : Key, status : Statuses]
Place == [suite : Nat, task : Nat, rep : 1..world.reps]
Origin == [suite |-> 1, task |-> 1, rep |-> 1]
Tuple == [side |-> side, suite |-> at.suite, task |-> at.task, rep |-> at.rep]
Suites == DOMAIN world.suites

\* The tuples of one side, all of which are wanted.
Wanted(s) ==
    UNION {{[side |-> s, suite |-> u, task |-> t, rep |-> r] :
                t \in 1..world.suites[u], r \in 1..world.reps} : u \in Suites}

Before(k, l) ==
    \/ k.suite < l.suite
    \/ k.suite = l.suite /\ k.task < l.task
    \/ k.suite = l.suite /\ k.task = l.task /\ k.rep < l.rep

Grade(k, status) ==
    /\ journal' = Append(journal, [key |-> k, status |-> status])
    /\ prior' = prior \cup {k}

----------------------------------------------------------------------------
Blank ==
    /\ side' = 1 /\ at' = Origin
    /\ relaunched' = FALSE /\ tries' = 0 /\ reply' = "graded"
    /\ abort' = FALSE /\ harness' = FALSE
    /\ server' = "none" /\ from' = "side"
    /\ stop' = FALSE /\ exit' = 0 /\ signals' = 0 /\ doubled' = FALSE

Init ==
    /\ world \in Worlds /\ processes = 0 /\ crashes = 0
    /\ journal = <<>> /\ prior = {}
    /\ pc = "off" /\ side = 1 /\ at = Origin
    /\ relaunched = FALSE /\ tries = 0 /\ reply = "graded"
    /\ abort = FALSE /\ harness = FALSE
    /\ server = "none" /\ from = "side"
    /\ stop = FALSE /\ exit = 0 /\ since = 0 /\ signals = 0 /\ doubled = FALSE

\* Mutant of Journaled: what ended in error is asked again.
JournaledGood == {journal[i].key : i \in {j \in DOMAIN journal : journal[j].status # "error"}}

Journaled == {journal[i].key : i \in DOMAIN journal}

\* The first process creates the run, the others resume it, ended or not.
Begin ==
    /\ pc \in Over /\ processes < world.processes
    /\ processes' = processes + 1
    /\ prior' = Journaled
    /\ since' = Len(journal)
    /\ pc' = "side"
    /\ Blank
    /\ UNCHANGED <<world, crashes, journal>>

----------------------------------------------------------------------------
(* Launching.                                                              *)
\* A server is launched only when some tuple of the side lacks a grade.
EnterSide ==
    /\ pc = "side"
    /\ at' = Origin
    /\ relaunched' = FALSE /\ tries' = 0
    /\ pc' = IF Suites = {} THEN "left" ELSE IF Wanted(side) \subseteq prior THEN "rep" ELSE "spawn"
    /\ UNCHANGED <<life, record, side, reply, verdicts, server, from, stop, exit, doubled>>

\* Mutant of CanRetry: one launch too many.
CanRetryTwice == tries <= 2

CanRetry == tries < 2

\* The executable may be missing by now.
Spawn ==
    /\ pc = "spawn"
    /\ tries' = tries + 1
    /\ doubled' = (doubled \/ server # "none")
    /\ \/ server' = "up" /\ pc' = "spawned"
       \/ pc' = "unstartable" /\ UNCHANGED server
    /\ UNCHANGED <<life, record, place, relaunched, reply, verdicts, from, stop, exit>>

Stopping(who) == pc' = "stop" /\ from' = who

\* The server runs, but nothing stops it before start has entered its try.
Guard ==
    /\ pc = "spawned"
    /\ pc' = "starting"
    /\ UNCHANGED <<life, record, place, relaunched, tries, reply, verdicts, server, from, stop,
                   exit, doubled>>

Ready ==
    /\ pc = "starting"
    /\ pc' = "rep"
    /\ UNCHANGED <<life, record, place, relaunched, tries, reply, verdicts, server, from, stop,
                   exit, doubled>>

\* It ends, or is not ready in time; start stops what it spawned.
NotReady ==
    /\ pc = "starting"
    /\ Stopping("start")
    /\ UNCHANGED <<life, record, place, relaunched, tries, reply, verdicts, server, stop, exit,
                   doubled>>

\* A relaunch has one attempt, and gives the suite up.
Unstartable ==
    /\ pc = "unstartable"
    /\ IF relaunched
       THEN /\ pc' = "record" /\ reply' = "error" /\ abort' = TRUE /\ harness' = TRUE
            /\ UNCHANGED exit
       ELSE /\ IF CanRetry THEN pc' = "spawn" /\ UNCHANGED exit ELSE pc' = "phase4" /\ exit' = 3
            /\ UNCHANGED <<reply, verdicts>>
    /\ UNCHANGED <<life, record, place, relaunched, tries, server, from, stop, doubled>>

----------------------------------------------------------------------------
(* Tuples.                                                                 *)
NextRep ==
    IF at.rep < world.reps
    THEN at' = [at EXCEPT !.rep = @ + 1] /\ pc' = "rep"
    ELSE pc' = "task" /\ UNCHANGED at

ReuseGrade ==
    /\ pc = "rep" /\ Tuple \in prior
    /\ NextRep
    /\ UNCHANGED <<life, record, side, relaunched, tries, reply, verdicts, server, from, stop,
                   exit, doubled>>

\* A stop is not looked for after a skipped tuple.
SkipTuple ==
    /\ pc = "rep" /\ Tuple \notin prior /\ at.suite \in world.short
    /\ Grade(Tuple, "skipped")
    /\ NextRep
    /\ UNCHANGED <<life, side, relaunched, tries, reply, verdicts, server, from, stop, exit,
                   doubled>>

Asks == pc = "rep" /\ Tuple \notin prior /\ at.suite \notin world.short

\* All turns of the conversation; a malformed reply is an error of the tuple.
Drive(status) ==
    /\ Asks
    /\ reply' = status /\ harness' = (harness \/ status = "error")
    /\ pc' = "record"
    /\ UNCHANGED <<life, record, place, relaunched, tries, abort, server, from, stop, exit,
                   doubled>>

\* Mutant of PutAway: a server that does not answer is taken for gone.
PutNothingAway == pc' = "revived" /\ UNCHANGED from

PutAway == Stopping("death")

\* It has ended, or did not answer in time.
Unavailable ==
    /\ Asks
    /\ PutAway
    /\ UNCHANGED <<life, record, place, relaunched, tries, reply, verdicts, server, stop, exit,
                   doubled>>

\* Mutant of MayRelaunch: there is always another try.
MayAlwaysRelaunch == TRUE

MayRelaunch == ~relaunched

Revive ==
    /\ pc = "revived"
    /\ IF MayRelaunch
       THEN pc' = "spawn" /\ tries' = 0 /\ relaunched' = TRUE /\ UNCHANGED <<reply, verdicts>>
       ELSE /\ pc' = "record" /\ reply' = "error" /\ abort' = TRUE /\ harness' = TRUE
            /\ UNCHANGED <<tries, relaunched>>
    /\ UNCHANGED <<life, record, place, server, from, stop, exit, doubled>>

RecordGrade ==
    /\ pc = "record"
    /\ Grade(Tuple, reply)
    /\ IF abort THEN pc' = "abandon" /\ UNCHANGED at
       ELSE IF stop THEN pc' = "task" /\ UNCHANGED at
       ELSE NextRep
    /\ UNCHANGED <<life, side, relaunched, tries, reply, verdicts, server, from, stop, exit,
                   doubled>>

\* What the suite still lacks, one entry after the other.
Remaining == {k \in Wanted(side) \ prior : k.suite = at.suite}

Abandon ==
    /\ pc = "abandon"
    /\ IF Remaining = {}
       THEN pc' = "suite" /\ UNCHANGED record
       ELSE /\ \E k \in Remaining : (\A l \in Remaining \ {k} : Before(k, l)) /\ Grade(k, "error")
            /\ UNCHANGED pc
    /\ UNCHANGED <<life, place, relaunched, tries, reply, verdicts, server, from, stop, exit,
                   doubled>>

EndTask ==
    /\ pc = "task"
    /\ IF stop \/ at.task = world.suites[at.suite]
       THEN pc' = "suite" /\ UNCHANGED at
       ELSE pc' = "rep" /\ at' = [at EXCEPT !.task = @ + 1, !.rep = 1]
    /\ UNCHANGED <<life, record, side, relaunched, tries, reply, verdicts, server, from, stop,
                   exit, doubled>>

EndSuite ==
    /\ pc = "suite"
    /\ IF abort \/ stop \/ at.suite = Len(world.suites)
       THEN pc' = "leave" /\ UNCHANGED <<at, relaunched>>
       ELSE /\ pc' = "rep" /\ relaunched' = FALSE
            /\ at' = [suite |-> at.suite + 1, task |-> 1, rep |-> 1]
    /\ UNCHANGED <<life, record, side, tries, reply, verdicts, server, from, stop, exit, doubled>>

LeaveSide ==
    /\ pc = "leave"
    /\ IF server = "none" THEN pc' = "left" /\ UNCHANGED from ELSE Stopping("side")
    /\ UNCHANGED <<life, record, place, relaunched, tries, reply, verdicts, server, stop, exit,
                   doubled>>

----------------------------------------------------------------------------
(* ServerHandle.stop.                                                      *)
Terminate ==
    /\ pc = "stop" /\ server = "up"
    /\ server' = "terminating"
    /\ UNCHANGED <<life, record, pc, place, relaunched, tries, reply, verdicts, from, stop, exit,
                   doubled>>

\* Where the process goes on; a second signal has it raise instead.
AfterStop ==
    IF signals >= 2 \/ from = "outer" THEN "unwind"
    ELSE CASE from = "start" -> "unstartable" [] from = "death" -> "revived"
           [] from = "side" -> "left"

\* SIGTERM, the grace and SIGKILL: the server is reaped in every case.
Reap ==
    /\ pc = "stop" /\ server \in {"terminating", "none"}
    /\ server' = "none"
    /\ pc' = AfterStop
    /\ UNCHANGED <<life, record, place, relaunched, tries, reply, verdicts, from, stop, exit,
                   doubled>>

\* After an interrupted wait its output is still read to the end, without
\* SIGKILL and for as long as the server keeps it open.
Hung == pc = "join" /\ server # "none" /\ (world.obeys => server # "terminating")

Join ==
    /\ pc = "join" /\ ~Hung
    /\ server' = "none"
    /\ pc' = IF from = "outer" THEN "died" ELSE "unwind"
    /\ UNCHANGED <<life, record, place, relaunched, tries, reply, verdicts, from, stop, exit,
                   doubled>>

----------------------------------------------------------------------------
(* _execute, around the sides.                                             *)
\* Perplexity and the lossless side are for runs that go on; the perplexity of
\* the lossless side asks only whether the server was given up.
AfterSide ==
    /\ pc = "left"
    /\ LET goesOn == ~abort /\ (side = 2 \/ ~stop) IN
       pc' = IF goesOn /\ world.perplexity THEN "perplexity"
             ELSE IF goesOn /\ side < world.sides THEN "side"
             ELSE "settle"
    /\ side' = IF pc' = "side" THEN side + 1 ELSE side
    /\ doubled' = (doubled \/ (pc' = "perplexity" /\ server # "none"))
    /\ UNCHANGED <<life, record, at, relaunched, tries, reply, verdicts, server, from, stop, exit>>

\* It is in no journal, and measured again by every process.
Perplexity(usable) ==
    /\ pc = "perplexity"
    /\ harness' = (harness \/ ~usable)
    /\ IF side < world.sides /\ ~stop
       THEN pc' = "side" /\ side' = side + 1
       ELSE pc' = "settle" /\ UNCHANGED side
    /\ UNCHANGED <<life, record, at, relaunched, tries, reply, abort, server, from, stop, exit,
                   doubled>>

\* Mutant of ExitCode: errors are grades like others.
ExitCodeOfGrades == IF stop THEN 4 ELSE 0

ExitCode == IF stop THEN 4 ELSE IF harness THEN 1 ELSE 0

Settle ==
    /\ pc = "settle"
    /\ exit' = ExitCode
    /\ pc' = "phase4"
    /\ UNCHANGED <<life, record, place, relaunched, tries, reply, verdicts, server, from, stop,
                   doubled>>

\* The outer finally: a server that is still registered is stopped.
Unwind ==
    /\ pc = "unwind"
    /\ IF server # "none" /\ from \notin {"start", "outer", "nobody"}
       THEN Stopping("outer") /\ UNCHANGED exit
       ELSE pc' = "phase4" /\ exit' = 4 /\ UNCHANGED from
    /\ UNCHANGED <<life, record, place, relaunched, tries, reply, verdicts, server, stop, doubled>>

\* quality.json, the report, quality_end.
Phase4 ==
    /\ pc = "phase4"
    /\ pc' = "ended"
    /\ UNCHANGED <<life, record, place, relaunched, tries, reply, verdicts, server, from, stop,
                   exit, doubled>>

----------------------------------------------------------------------------
(* Signals and crashes.                                                    *)
Signalled == signals < world.signals /\ signals' = signals + 1

FirstSignal ==
    /\ pc \in Working \cup {"phase4"} /\ ~stop
    /\ pc = "phase4" => exit = 3
    /\ Signalled
    /\ stop' = TRUE
    /\ UNCHANGED <<world, processes, crashes, since, record, pc, place, relaunched, tries, reply,
                   verdicts, server, from, exit, doubled>>

\* It raises where it finds the process: within start, which loses its server
\* before its try and stops it from there on; within stop, whose output threads
\* are then waited for; elsewhere on a side, whose finally stops the server.  A
\* child of the executor is ended there.
LaterSignal ==
    /\ pc \in Working /\ stop
    /\ Signalled
    /\ CASE pc = "spawned" -> pc' = "unwind" /\ from' = "nobody"
         [] pc = "starting" -> Stopping("start")
         [] pc = "stop" -> pc' = "join" /\ UNCHANGED from
         [] pc = "join" ->
              IF from = "death" THEN Stopping("side")
              ELSE IF from = "side" THEN Stopping("outer")
              ELSE pc' = (IF from = "outer" THEN "died" ELSE "unwind") /\ UNCHANGED from
         [] pc = "unwind" -> pc' = "died" /\ UNCHANGED from
         [] pc \in Working \ {"spawned", "starting", "stop", "join", "unwind"} ->
              IF server = "none" THEN pc' = "unwind" /\ UNCHANGED from ELSE Stopping("side")
    /\ UNCHANGED <<world, processes, crashes, since, record, place, relaunched, tries, reply,
                   verdicts, server, stop, exit, doubled>>

\* The handlers are gone, or none of them catches any more.
SignalToPhase4 ==
    /\ pc = "phase4" /\ (exit = 3 => stop)
    /\ Signalled
    /\ pc' = "died"
    /\ UNCHANGED <<world, processes, crashes, since, record, place, relaunched, tries, reply,
                   verdicts, server, from, stop, exit, doubled>>

\* Its server, if there is one, goes on; it is not this process's any more.
Crash ==
    /\ pc \notin Over /\ crashes < world.crashes
    /\ crashes' = crashes + 1
    /\ pc' = "died"
    /\ Blank /\ prior' = {} /\ since' = 0
    /\ UNCHANGED <<world, processes, journal>>

Work ==
    \/ EnterSide \/ Spawn \/ Guard \/ Ready \/ NotReady \/ Unstartable
    \/ ReuseGrade \/ SkipTuple
    \/ \E status \in {"graded", "error"} : Drive(status)
    \/ Unavailable \/ Revive \/ RecordGrade \/ Abandon
    \/ EndTask \/ EndSuite \/ LeaveSide
    \/ Terminate \/ Reap \/ Join
    \/ AfterSide \/ (\E usable \in BOOLEAN : Perplexity(usable))
    \/ Settle \/ Unwind \/ Phase4

Next == Begin \/ Work \/ FirstSignal \/ LaterSignal \/ SignalToPhase4 \/ Crash

\* A process that can go on does: every wait in it has a deadline, but the one
\* for the output of a server, in which it may hang.
Spec == Init /\ [][Next]_vars /\ WF_vars(Work)

----------------------------------------------------------------------------
(* Properties.                                                             *)
FlagsOK ==
    /\ relaunched \in BOOLEAN /\ abort \in BOOLEAN /\ harness \in BOOLEAN
    /\ stop \in BOOLEAN /\ doubled \in BOOLEAN

TypeOK ==
    /\ world \in Worlds
    /\ processes \in 0..world.processes /\ crashes \in 0..world.crashes
    /\ journal \in Seq(Entry)
    /\ prior \subseteq Key
    /\ pc \in Over \cup Working \cup {"phase4"}
    /\ side \in 1..world.sides
    /\ at \in Place
    /\ tries \in 0..2 /\ reply \in Statuses
    /\ server \in {"none", "up", "terminating"} /\ from \in Callers
    /\ exit \in {0, 1, 3, 4} /\ since \in Nat /\ signals \in 0..world.signals
    /\ FlagsOK

\* A tuple is graded once in the whole life of a run, by whatever process, and
\* only if it is one of the run's; what a process takes for graded is.
\* (quality-eval-design.md, 9.2 and 9.3; prior in _evaluate_http_side)
GradedOnce ==
    /\ \A i, j \in DOMAIN journal : journal[i].key = journal[j].key => i = j
    /\ \A i \in DOMAIN journal : journal[i].key \in UNION {Wanted(s) : s \in 1..world.sides}
    /\ pc \notin Over => prior = Journaled

\* One child at any moment, and none when the process is over, if it was sent no
\* more than the two signals the design speaks of and the second did not fall
\* between the server's start and the try that guards it: there start loses its
\* server.  A third can break off the stop and the wait for the output.
\* (quality-eval-design.md, 11: exactly one active child process; 8: no signal
\* path may orphan the server)
OneChild ==
    /\ ~doubled
    /\ pc \in Over /\ signals <= 2 /\ from # "nobody" => server = "none"

\* Exit 0 says that every tuple has a grade and that this process met no error;
\* exit 1 that it did meet one; and a run that was not given up lacks no grade.
\* (the last lines of _execute)
ExitIsHonest ==
    pc = "ended" =>
        /\ exit = 0 => \A i \in DOMAIN journal : i > since => journal[i].status # "error"
        /\ exit \in {0, 1} /\ ~abort =>
            \A s \in 1..world.sides : Wanted(s) \subseteq Journaled
        /\ exit = 1 /\ ~world.perplexity =>
            \E i \in DOMAIN journal : i > since /\ journal[i].status = "error"

\* Every process ends, the server dying as often as it likes, or hangs where a
\* second signal broke off a stop: it reads the output of a server that SIGTERM
\* does not end, or was not yet sent to, and that nobody kills any more.
\* (ServerHandle.stop, whose finally joins both captures without a timeout)
ProcessEnds == pc \notin Over ~> (pc \in Over \/ Hung)

=============================================================================
