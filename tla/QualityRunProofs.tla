-------------------------- MODULE QualityRunProofs --------------------------
(***************************************************************************)
(* What QualityRun's run checks on seven worlds, for any number of suites, *)
(* tasks, repetitions, processes, crashes and signals: types, one grade    *)
(* per tuple, one child, and an exit code that tells the truth.            *)
(***************************************************************************)
EXTENDS QualityRun, TLAPS, FiniteSetTheorems, WellFoundedInduction

\* The process is within the launch or the stop of a server it means to use.
Launching ==
    pc \in {"spawn", "spawned", "starting", "unstartable"} \/ (pc = "stop" /\ from = "start")
Losing == pc = "revived" \/ (pc = "stop" /\ from = "death")

\* at is a tuple of the run.
AtTask == pc \in {"rep", "record", "abandon", "task", "suite"} \/ Launching \/ Losing

AtIsWanted == AtTask => at.suite \in Suites /\ at.task \in 1..world.suites[at.suite]

\* A tuple that is about to be graded, or will be if a relaunch fails, has no
\* grade yet.
Unanswered ==
    pc = "record" \/ Losing \/ (relaunched /\ Launching) => Tuple \notin prior

AllWanted == UNION {Wanted(s) : s \in 1..world.sides}

\* The journal grades tuples of the run, none of them twice.
GradesOK ==
    /\ \A i, j \in DOMAIN journal : journal[i].key = journal[j].key => i = j
    /\ \A i \in DOMAIN journal : journal[i].key \in AllWanted

\* A process that crashed has forgotten its prior.
JournalInv == GradesOK /\ (pc # "died" => prior = Journaled)

\* Where no server runs, and what a server still running says of the signals.
ServerInv ==
    /\ ~doubled
    /\ pc \in {"side", "spawn", "unstartable", "revived", "left", "perplexity", "settle"} =>
        server = "none"
    /\ pc # "died" => (stop <=> signals >= 1)
    /\ pc \in {"join", "unwind"} \/ (pc = "stop" /\ from = "outer") => signals >= 2 /\ stop
    /\ pc = "unwind" /\ server # "none" => from = "nobody" \/ (from = "start" /\ signals >= 3)
    /\ pc \in Over \cup {"phase4"} /\ server # "none" => from = "nobody" \/ signals >= 3

\* A process that lost its server between spawn and guard only unwinds.
Untended == from = "nobody" => pc \in Over \cup {"unwind", "phase4"}

ErrorsSince == {i \in DOMAIN journal : i > since /\ journal[i].status = "error"}

\* The tuples a process that goes on has behind it.
Passed(k) ==
    \/ k.side < side
    \/ k.side = side /\ pc \in {"rep", "record"} /\ Before(k, Tuple)
    \/ k.side = side /\ (Launching \/ Losing) /\ Before(k, Tuple)
    \/ k.side = side /\ pc = "task" /\ k.suite = at.suite /\ k.task <= at.task
    \/ k.side = side /\ pc \in {"task", "suite"} /\ k.suite < at.suite
    \/ k.side = side /\ pc = "suite" /\ k.suite = at.suite
    \/ k.side = side /\ (pc \in {"leave", "left", "perplexity"} \/ (pc = "stop" /\ from = "side"))
    \/ pc \in {"settle", "phase4", "ended"}

\* A process that was neither stopped nor given up leaves no tuple behind it
\* without a grade.
ProgressInv ==
    ~stop /\ ~abort /\ (pc \in {"phase4", "ended"} => exit # 3) =>
        \A s \in 1..world.sides : \A k \in Wanted(s) : Passed(k) => k \in prior

\* harness is up when an error was graded, and only then; what exit says of it.
HarnessInv ==
    /\ since <= Len(journal)
    /\ pc # "died" /\ ErrorsSince # {} => harness
    /\ (pc = "record" /\ reply = "error") \/ abort => harness
    /\ pc = "abandon" => abort
    /\ pc = "perplexity" => world.perplexity
    /\ pc # "died" /\ harness /\ ~stop /\ ~world.perplexity =>
        ErrorsSince # {} \/ (pc = "record" /\ reply = "error")
    /\ pc \in {"phase4", "ended"} =>
        /\ exit = 0 => ~harness
        /\ exit = 1 => harness
        /\ exit \in {0, 1} => ~stop

Inv ==
    /\ TypeOK /\ Untended /\ (pc = "spawn" => CanRetry)
    /\ AtIsWanted /\ Unanswered /\ JournalInv
    /\ ServerInv /\ HarnessInv /\ ProgressInv

----------------------------------------------------------------------------
(* What WorldsAssumption says of the world at hand.                        *)
LEMMA WorldFacts ==
    ASSUME TypeOK
    PROVE  /\ world.suites \in Seq(Nat) /\ world.reps \in Nat /\ world.reps >= 1
           /\ world.sides \in 1..2 /\ world.perplexity \in BOOLEAN
           /\ world.processes \in Nat /\ world.crashes \in Nat /\ world.signals \in Nat
           /\ Suites = 1..Len(world.suites)
           /\ \A u \in Suites : world.suites[u] \in Nat /\ world.suites[u] >= 1
<1>1. world \in World /\ world.reps >= 1 /\ \A s \in DOMAIN world.suites : world.suites[s] >= 1
  BY WorldsAssumption DEF TypeOK
<1>2. QED
  BY <1>1 DEF World, Suites

(* The plan and the machine are those of Init.                             *)
LEMMA WorldFixed == [Next]_vars => world' = world
BY DEF Next, Work, Begin, EnterSide, Spawn, Guard, Ready, NotReady, Unstartable, ReuseGrade,
       SkipTuple, Drive, Unavailable, Revive, RecordGrade, Abandon, EndTask, EndSuite, LeaveSide, Terminate,
       Reap, Join, AfterSide, Perplexity, Settle, Unwind, Phase4, FirstSignal, LaterSignal,
       SignalToPhase4, Crash, vars, life

(* Wanted holds exactly the tuples of the plan.                            *)
LEMMA WantedIs ==
    ASSUME TypeOK, NEW s, NEW k
    PROVE  k \in Wanted(s) <=>
               \E u \in Suites : \E t \in 1..world.suites[u], r \in 1..world.reps :
                   k = [side |-> s, suite |-> u, task |-> t, rep |-> r]
BY DEF Wanted

LEMMA WantedAreKeys ==
    ASSUME TypeOK, NEW s \in 1..world.sides
    PROVE  Wanted(s) \subseteq Key
BY WorldFacts, WantedIs DEF Key

(* Grading keeps the types of the journal and of prior.                    *)
LEMMA GradeTypes ==
    ASSUME TypeOK, NEW k \in Key, NEW status \in Statuses, Grade(k, status)
    PROVE  journal' \in Seq(Entry) /\ prior' \subseteq Key
BY DEF TypeOK, Grade, Entry

LEMMA TupleIsKey ==
    ASSUME TypeOK
    PROVE  Tuple \in Key
BY WorldFacts DEF TypeOK, Tuple, Key, Place

(* The Boolean variables, in a lemma of their own: Zenon proves it.        *)
LEMMA FlagsInductive == FlagsOK /\ [Next]_vars => FlagsOK'
<1> SUFFICES ASSUME FlagsOK, [Next]_vars
             PROVE  FlagsOK'
  OBVIOUS
<1> USE DEF FlagsOK
<1>1. CASE Begin
  BY <1>1, Zenon DEF Begin, Blank
<1>2. CASE EnterSide
  BY <1>2, Zenon DEF EnterSide, verdicts
<1>3. CASE Spawn
  BY <1>3, Zenon DEF Spawn, verdicts
<1>31. CASE Guard
  BY <1>31, Zenon DEF Guard, verdicts
<1>4. CASE Ready
  BY <1>4, Zenon DEF Ready, verdicts
<1>5. CASE NotReady
  BY <1>5, Zenon DEF NotReady, Stopping, verdicts
<1>6. CASE Unstartable
  BY <1>6, Zenon DEF Unstartable, verdicts
<1>7. CASE ReuseGrade
  BY <1>7, Zenon DEF ReuseGrade, NextRep, verdicts
<1>8. CASE SkipTuple
  BY <1>8, Zenon DEF SkipTuple, NextRep, Grade, verdicts
<1>9. CASE \E status \in {"graded", "error"} : Drive(status)
  BY <1>9, Zenon DEF Drive, Asks
<1>10. CASE Unavailable
  BY <1>10, Zenon DEF Unavailable, Asks, PutAway, Stopping, verdicts
<1>11. CASE Revive
  BY <1>11, Zenon DEF Revive, MayRelaunch, verdicts
<1>12. CASE RecordGrade
  BY <1>12, Zenon DEF RecordGrade, NextRep, Grade, verdicts
<1>13. CASE Abandon
  BY <1>13, Zenon DEF Abandon, Grade, verdicts
<1>14. CASE EndTask
  BY <1>14, Zenon DEF EndTask, verdicts
<1>15. CASE EndSuite
  BY <1>15, Zenon DEF EndSuite, verdicts
<1>16. CASE LeaveSide
  BY <1>16, Zenon DEF LeaveSide, Stopping, verdicts
<1>17. CASE Terminate
  BY <1>17, Zenon DEF Terminate, verdicts
<1>18. CASE Reap
  BY <1>18, Zenon DEF Reap, AfterStop, verdicts
<1>19. CASE Join
  BY <1>19, Zenon DEF Join, verdicts
<1>20. CASE AfterSide
  BY <1>20, Zenon DEF AfterSide, verdicts
<1>21. CASE \E usable \in BOOLEAN : Perplexity(usable)
  BY <1>21, Zenon DEF Perplexity
<1>22. CASE Settle
  BY <1>22, Zenon DEF Settle, ExitCode, verdicts
<1>23. CASE Unwind
  BY <1>23, Zenon DEF Unwind, Stopping, verdicts
<1>24. CASE Phase4
  BY <1>24, Zenon DEF Phase4, verdicts
<1>25. CASE FirstSignal
  BY <1>25, Zenon DEF FirstSignal, Signalled, verdicts
<1>26. CASE LaterSignal
  BY <1>26, Zenon DEF LaterSignal, Signalled, Stopping, verdicts
<1>27. CASE SignalToPhase4
  BY <1>27, Zenon DEF SignalToPhase4, Signalled, verdicts
<1>28. CASE Crash
  BY <1>28, Zenon DEF Crash, Blank
<1>29. CASE UNCHANGED vars
  BY <1>29, Zenon DEF vars
<1>30. QED
  BY <1>1, <1>2, <1>3, <1>31, <1>4, <1>5, <1>6, <1>7, <1>8, <1>9, <1>10, <1>11, <1>12, <1>13,
     <1>14, <1>15, <1>16, <1>17, <1>18, <1>19, <1>20, <1>21, <1>22, <1>23, <1>24, <1>25, <1>26,
     <1>27, <1>28, <1>29 DEF Next, Work

(* Only the signal that loses a server makes nobody its stopper, and what  *)
(* is left of the process stops no other.                                  *)
LEMMA UntendedInductive == TypeOK /\ Untended /\ [Next]_vars => Untended'
BY DEF TypeOK, Untended, Over, Working, Callers, Next, Work, Begin, Blank, EnterSide, Spawn,
       Guard, Ready, NotReady, Unstartable, ReuseGrade, SkipTuple, Drive, Asks, Unavailable,
       PutAway, Stopping, Revive, RecordGrade, Abandon, EndTask, EndSuite, LeaveSide, Terminate,
       Reap, AfterStop, Join, AfterSide, Perplexity, Settle, Unwind, Phase4, FirstSignal,
       LaterSignal, SignalToPhase4, Crash, vars

(* TypeOK is inductive once it is known that a launch has a try left.      *)
LEMMA TypeInductive ==
    TypeOK /\ Untended /\ (pc = "spawn" => CanRetry) /\ [Next]_vars =>
        TypeOK' /\ (pc = "spawn" => CanRetry)'
<1> SUFFICES ASSUME TypeOK, Untended, pc = "spawn" => CanRetry, [Next]_vars
             PROVE  TypeOK' /\ (pc = "spawn" => CanRetry)'
  OBVIOUS
<1>a. /\ world.reps \in Nat /\ world.reps >= 1 /\ world.sides \in 1..2
      /\ world.processes \in Nat /\ world.crashes \in Nat /\ world.signals \in Nat
  BY WorldFacts
<1>b. Tuple \in Key /\ Wanted(side) \subseteq Key
  BY TupleIsKey, WantedAreKeys DEF TypeOK
<1>c. Journaled \subseteq Key /\ Len(journal) \in Nat
  <2>1. \A i \in DOMAIN journal : journal[i] \in Entry
    BY DEF TypeOK
  <2>2. QED
    BY <2>1 DEF Journaled, Entry
<1>d. Origin \in Place
  BY <1>a DEF Origin, Place
<1>f. world.reps = world'.reps => Place' = Place
  BY DEF Place
<1>e. at.suite \in Nat /\ at.task \in Nat /\ at.rep \in 1..world.reps
  BY DEF TypeOK, Place
<1>g. FlagsOK'
  BY FlagsInductive DEF TypeOK
<1> USE <1>a, <1>f, <1>g DEF CanRetry
<1>1. CASE Begin
  BY <1>1, <1>c, <1>d DEF Begin, Blank, TypeOK, Working, Callers, Statuses
<1>2. CASE EnterSide
  <2>1. CASE Suites = {}
    BY <1>2, <2>1, <1>d DEF EnterSide, TypeOK, Working, life, record
  <2>2. CASE Suites # {}
    BY <1>2, <2>2, <1>d DEF EnterSide, TypeOK, Working, life, record
  <2>3. QED
    BY <2>1, <2>2
<1>3. CASE Spawn
  BY <1>3 DEF Spawn, TypeOK, Working, life, record, place
<1>31. CASE Guard
  BY <1>31 DEF Guard, TypeOK, Working, life, record, place
<1>4. CASE Ready
  BY <1>4 DEF Ready, TypeOK, Working, life, record, place
<1>5. CASE NotReady
  BY <1>5 DEF NotReady, Stopping, TypeOK, Working, Callers, life, record, place
<1>6. CASE Unstartable
  <2>1. CASE relaunched
    BY <1>6, <2>1 DEF Unstartable, TypeOK, Working, Statuses, life, record, place
  <2>2. CASE ~relaunched /\ CanRetry
    BY <1>6, <2>2 DEF Unstartable, TypeOK, Working, life, record, place
  <2>3. CASE ~relaunched /\ ~CanRetry
    BY <1>6, <2>3 DEF Unstartable, TypeOK, life, record, place
  <2>4. QED
    BY <2>1, <2>2, <2>3
<1>7. CASE ReuseGrade
  <2>1. CASE at.rep < world.reps
    BY <1>7, <2>1, <1>e DEF ReuseGrade, NextRep, Place, TypeOK, Callers, Statuses, life, record,
           verdicts
  <2>2. CASE ~(at.rep < world.reps)
    BY <1>7, <2>2, <1>e DEF ReuseGrade, NextRep, Place, TypeOK, Working, life, record
  <2>3. QED
    BY <2>1, <2>2
<1>8. CASE SkipTuple
  <2>1. journal' \in Seq(Entry) /\ prior' \subseteq Key
    BY <1>8, <1>b, GradeTypes DEF SkipTuple, Statuses
  <2>2. CASE at.rep < world.reps
    BY <1>8, <2>1, <2>2, <1>e DEF SkipTuple, NextRep, Place, TypeOK, Over, Working, Callers,
           Statuses, life, verdicts
  <2>3. CASE ~(at.rep < world.reps)
    BY <1>8, <2>1, <2>3, <1>e DEF SkipTuple, NextRep, Place, TypeOK, Working, life
  <2>4. QED
    BY <2>2, <2>3
<1>9. CASE \E status \in {"graded", "error"} : Drive(status)
  BY <1>9 DEF Drive, Asks, TypeOK, Working, Statuses, life, record, place
<1>10. CASE Unavailable
  BY <1>10 DEF Unavailable, Asks, PutAway, Stopping, TypeOK, Working, Callers, life, record, place
<1>11. CASE Revive
  <2>1. CASE relaunched
    BY <1>11, <2>1 DEF Revive, MayRelaunch, TypeOK, Working, Statuses, life, record, place
  <2>2. CASE ~relaunched
    BY <1>11, <2>2 DEF Revive, MayRelaunch, TypeOK, Working, life, record, place
  <2>3. QED
    BY <2>1, <2>2
<1>12. CASE RecordGrade
  <2>1. CASE abort \/ stop
    BY <1>12, <2>1, <1>b, <1>e DEF RecordGrade, NextRep, Grade, Remaining, Entry, Place, TypeOK,
           Working, Statuses, life
  <2>2. CASE ~abort /\ ~stop /\ at.rep < world.reps
    BY <1>12, <2>2, <1>b, <1>e DEF RecordGrade, NextRep, Grade, Remaining, Entry, Place, TypeOK,
           Over, Working, Callers, Statuses, life, verdicts
  <2>3. CASE ~abort /\ ~stop /\ ~(at.rep < world.reps)
    BY <1>12, <2>3, <1>b, <1>e DEF RecordGrade, NextRep, Grade, Remaining, Entry, Place, TypeOK,
           Working, life
  <2>4. QED
    BY <2>1, <2>2, <2>3
<1>13. CASE Abandon
  <2>1. CASE Remaining = {}
    BY <1>13, <2>1 DEF Abandon, TypeOK, Working, life, record, place
  <2>2. CASE Remaining # {}
    <3>1. PICK k \in Remaining : Grade(k, "error")
      BY <1>13, <2>2 DEF Abandon
    <3>2. journal' \in Seq(Entry) /\ prior' \subseteq Key
      BY <1>b, <3>1, GradeTypes DEF Remaining, Statuses
    <3>3. QED
      BY <1>13, <2>2, <3>2 DEF Abandon, TypeOK, life, place
  <2>3. QED
    BY <2>1, <2>2
<1>14. CASE EndTask
  <2>0. at' = at \/ at' = [suite |-> at.suite, task |-> at.task + 1, rep |-> 1]
    BY <1>14 DEF EndTask, TypeOK, Place
  <2>1. at' \in Place
    BY <2>0, <1>e DEF TypeOK, Place
  <2>2. pc' \in {"suite", "rep"}
    BY <1>14 DEF EndTask
  <2>3. QED
    BY <1>14, <2>1, <2>2 DEF EndTask, TypeOK, Working, life, record
<1>15. CASE EndSuite
  <2>1. CASE abort \/ stop \/ at.suite = Len(world.suites)
    BY <1>15, <2>1, <1>e DEF EndSuite, Place, TypeOK, Working, life, record
  <2>2. CASE ~(abort \/ stop \/ at.suite = Len(world.suites))
    BY <1>15, <2>2, <1>e DEF EndSuite, Place, TypeOK, Working, Statuses, life, record
  <2>3. QED
    BY <2>1, <2>2
<1>16. CASE LeaveSide
  BY <1>16 DEF LeaveSide, Stopping, TypeOK, Working, Callers, life, record, place
<1>17. CASE Terminate
  BY <1>17 DEF Terminate, TypeOK, life, record, place
<1>18. CASE Reap
  <2>1. CASE signals >= 2 \/ from = "outer"
    BY <1>18, <2>1 DEF Reap, AfterStop, TypeOK, Working, life, record, place
  <2>2. CASE ~(signals >= 2 \/ from = "outer") /\ from \in {"start", "death"}
    BY <1>18, <2>2 DEF Reap, AfterStop, TypeOK, Working, life, record, place
  <2>3. CASE ~(signals >= 2 \/ from = "outer") /\ from = "side"
    BY <1>18, <2>3 DEF Reap, AfterStop, TypeOK, Working, life, record, place
  <2>4. QED
    BY <2>1, <2>2, <2>3, <1>18 DEF TypeOK, Reap, Untended, Over, Callers
<1>19. CASE Join
  BY <1>19 DEF Join, TypeOK, Over, Working, life, record, place
<1>20. CASE AfterSide
  BY <1>20 DEF AfterSide, TypeOK, Working, life, record
<1>21. CASE \E usable \in BOOLEAN : Perplexity(usable)
  BY <1>21 DEF Perplexity, TypeOK, Working, life, record
<1>22. CASE Settle
  BY <1>22 DEF Settle, ExitCode, TypeOK, life, record, place
<1>23. CASE Unwind
  BY <1>23 DEF Unwind, Stopping, TypeOK, Working, Callers, life, record, place
<1>24. CASE Phase4
  BY <1>24 DEF Phase4, TypeOK, Over, life, record, place
<1>25. CASE FirstSignal
  BY <1>25 DEF FirstSignal, Signalled, TypeOK, record, place
<1>26. CASE LaterSignal
  <2>1. pc' \in Over \cup Working /\ pc' # "spawn" /\ from' \in Callers
    BY <1>26 DEF LaterSignal, Stopping, TypeOK, Over, Working, Callers
  <2>2. QED
    BY <1>26, <2>1 DEF LaterSignal, Signalled, TypeOK, record, place
<1>27. CASE SignalToPhase4
  BY <1>27 DEF SignalToPhase4, Signalled, TypeOK, Over, record, place
<1>28. CASE Crash
  BY <1>28, <1>d DEF Crash, Blank, TypeOK, Over, Callers, Statuses
<1>29. CASE UNCHANGED vars
  BY <1>29 DEF vars, TypeOK
<1>30. QED
  BY <1>1, <1>2, <1>3, <1>31, <1>4, <1>5, <1>6, <1>7, <1>8, <1>9, <1>10, <1>11, <1>12, <1>13,
     <1>14, <1>15, <1>16, <1>17, <1>18, <1>19, <1>20, <1>21, <1>22, <1>23, <1>24, <1>25, <1>26,
     <1>27, <1>28, <1>29 DEF Next, Work

(* A server outlives the actions of its process only by way of signals: a  *)
(* wait broken off by the second goes on to the outer finally, which stops *)
(* the server unless start had already tried to.                           *)
LEMMA ServerInductive == TypeOK /\ Untended /\ ServerInv /\ [Next]_vars => ServerInv'
<1> SUFFICES ASSUME TypeOK, Untended, ServerInv, [Next]_vars
             PROVE  ServerInv'
  OBVIOUS
<1>a. /\ pc \in Over \cup Working \cup {"phase4"} /\ from \in Callers
      /\ server \in {"none", "up", "terminating"} /\ signals \in Nat
  BY WorldFacts DEF TypeOK
<1>1. CASE Begin
  BY <1>1, <1>a DEF Begin, Blank, ServerInv
<1>2. CASE EnterSide
  <2>1. CASE Suites = {}
    BY <1>2, <2>1, <1>a DEF EnterSide, ServerInv, life
  <2>2. CASE Suites # {}
    BY <1>2, <2>2, <1>a DEF EnterSide, ServerInv, life
  <2>3. QED
    BY <2>1, <2>2
<1>3. CASE Spawn
  BY <1>3, <1>a DEF Spawn, ServerInv, Over, life
<1>31. CASE Guard
  BY <1>31, <1>a DEF Guard, ServerInv, Over, life
<1>4. CASE Ready
  BY <1>4, <1>a DEF Ready, ServerInv, Over, life
<1>5. CASE NotReady
  BY <1>5, <1>a DEF NotReady, Stopping, ServerInv, Over, life
<1>6. CASE Unstartable
  <2>1. CASE relaunched
    BY <1>6, <2>1, <1>a DEF Unstartable, ServerInv, life
  <2>2. CASE ~relaunched /\ CanRetry
    BY <1>6, <2>2, <1>a DEF Unstartable, ServerInv, life
  <2>3. CASE ~relaunched /\ ~CanRetry
    BY <1>6, <2>3, <1>a DEF Unstartable, ServerInv, life
  <2>4. QED
    BY <2>1, <2>2, <2>3
<1>7. CASE ReuseGrade
  <2>1. CASE at.rep < world.reps
    BY <1>7, <2>1, <1>a DEF ReuseGrade, NextRep, ServerInv, life
  <2>2. CASE ~(at.rep < world.reps)
    BY <1>7, <2>2, <1>a DEF ReuseGrade, NextRep, ServerInv, Over, life
  <2>3. QED
    BY <2>1, <2>2
<1>8. CASE SkipTuple
  <2>1. CASE at.rep < world.reps
    BY <1>8, <2>1, <1>a DEF SkipTuple, NextRep, Grade, ServerInv, life
  <2>2. CASE ~(at.rep < world.reps)
    BY <1>8, <2>2, <1>a DEF SkipTuple, NextRep, Grade, ServerInv, Over, life
  <2>3. QED
    BY <2>1, <2>2
<1>9. CASE \E status \in {"graded", "error"} : Drive(status)
  BY <1>9, <1>a DEF Drive, Asks, ServerInv, Over, life
<1>10. CASE Unavailable
  BY <1>10, <1>a DEF Unavailable, Asks, PutAway, Stopping, ServerInv, Over, life
<1>11. CASE Revive
  <2>1. CASE relaunched
    BY <1>11, <2>1, <1>a DEF Revive, MayRelaunch, ServerInv, life
  <2>2. CASE ~relaunched
    BY <1>11, <2>2, <1>a DEF Revive, MayRelaunch, ServerInv, life
  <2>3. QED
    BY <2>1, <2>2
<1>12. CASE RecordGrade
  <2>1. CASE abort \/ stop
    BY <1>12, <2>1, <1>a DEF RecordGrade, NextRep, Grade, ServerInv, Over, life
  <2>2. CASE ~abort /\ ~stop /\ at.rep < world.reps
    BY <1>12, <2>2, <1>a DEF RecordGrade, NextRep, Grade, ServerInv, Over, life
  <2>3. CASE ~abort /\ ~stop /\ ~(at.rep < world.reps)
    BY <1>12, <2>3, <1>a DEF RecordGrade, NextRep, Grade, ServerInv, Over, life
  <2>4. QED
    BY <2>1, <2>2, <2>3
<1>13. CASE Abandon
  <2>1. CASE Remaining = {}
    BY <1>13, <2>1, <1>a DEF Abandon, Grade, ServerInv, Over, life
  <2>2. CASE Remaining # {}
    BY <1>13, <2>2, <1>a DEF Abandon, Grade, ServerInv, life
  <2>3. QED
    BY <2>1, <2>2
<1>14. CASE EndTask
  <2>1. CASE stop \/ at.task = world.suites[at.suite]
    BY <1>14, <2>1, <1>a DEF EndTask, ServerInv, Over, life
  <2>2. CASE ~(stop \/ at.task = world.suites[at.suite])
    BY <1>14, <2>2, <1>a DEF EndTask, ServerInv, Over, life
  <2>3. QED
    BY <2>1, <2>2
<1>15. CASE EndSuite
  <2>1. CASE abort \/ stop \/ at.suite = Len(world.suites)
    BY <1>15, <2>1, <1>a DEF EndSuite, ServerInv, Over, life
  <2>2. CASE ~(abort \/ stop \/ at.suite = Len(world.suites))
    BY <1>15, <2>2, <1>a DEF EndSuite, ServerInv, Over, life
  <2>3. QED
    BY <2>1, <2>2
<1>16. CASE LeaveSide
  BY <1>16, <1>a DEF LeaveSide, Stopping, ServerInv, Over, life
<1>17. CASE Terminate
  BY <1>17, <1>a DEF Terminate, ServerInv, life
<1>18. CASE Reap
  <2>1. CASE signals >= 2 \/ from = "outer"
    BY <1>18, <2>1, <1>a DEF Reap, AfterStop, ServerInv, life
  <2>2. CASE ~(signals >= 2 \/ from = "outer") /\ from \in {"start", "death"}
    BY <1>18, <2>2, <1>a DEF Reap, AfterStop, ServerInv, life
  <2>3. CASE ~(signals >= 2 \/ from = "outer") /\ from = "side"
    BY <1>18, <2>3, <1>a DEF Reap, AfterStop, ServerInv, life
  <2>4. QED
    BY <2>1, <2>2, <2>3, <1>18 DEF TypeOK, Reap, Untended, Over, Callers
<1>19. CASE Join
  BY <1>19, <1>a DEF Join, ServerInv, life
<1>20. CASE AfterSide
  BY <1>20, <1>a DEF AfterSide, ServerInv, life
<1>21. CASE \E usable \in BOOLEAN : Perplexity(usable)
  BY <1>21, <1>a DEF Perplexity, ServerInv, life
<1>22. CASE Settle
  BY <1>22, <1>a DEF Settle, ExitCode, ServerInv, life
<1>23. CASE Unwind
  BY <1>23, <1>a DEF Unwind, Stopping, ServerInv, life
<1>24. CASE Phase4
  BY <1>24, <1>a DEF Phase4, ServerInv, life
<1>25. CASE FirstSignal
  BY <1>25, <1>a DEF FirstSignal, Signalled, ServerInv
<1>26. CASE LaterSignal
  <2>a. stop /\ pc # "died" /\ stop' = stop /\ server' = server /\ doubled' = doubled
    BY <1>26 DEF LaterSignal, Working
  <2>b. signals' \in Nat /\ signals' >= 2 /\ (signals >= 2 => signals' >= 3)
    BY <1>26, <2>a, <1>a DEF LaterSignal, Signalled, ServerInv
  <2>e. CASE pc = "spawned"
    BY <1>26, <2>a, <2>b, <2>e DEF LaterSignal, ServerInv, Over
  <2>c. CASE pc = "starting"
    BY <1>26, <2>a, <2>b, <2>c DEF LaterSignal, Stopping, ServerInv, Over
  <2>1. CASE pc = "stop"
    BY <1>26, <2>a, <2>b, <2>1 DEF LaterSignal, Stopping, ServerInv, Over
  <2>d. CASE pc = "unwind"
    BY <1>26, <2>a, <2>b, <2>d, <1>a DEF LaterSignal, Stopping, ServerInv
  <2>2. CASE pc = "join"
    <3>1. \/ pc' = "stop" /\ from' \in {"side", "outer"}
          \/ /\ pc' \in {"died", "unwind"} /\ from' = from
             /\ from \in {"start", "outer"} /\ (pc' = "unwind" => from = "start")
      BY <1>26, <2>2, <1>a DEF LaterSignal, Stopping, Untended, Over, Callers
    <3>2. signals >= 2
      BY <2>2 DEF ServerInv
    <3>3. QED
      BY <2>a, <2>b, <3>1, <3>2 DEF ServerInv
  <2>3. CASE pc \in Working \ {"spawned", "starting", "stop", "join", "unwind"} /\ server = "none"
    BY <1>26, <2>a, <2>b, <2>3 DEF LaterSignal, ServerInv
  <2>4. CASE pc \in Working \ {"spawned", "starting", "stop", "join", "unwind"} /\ server # "none"
    <3>1. pc' = "stop" /\ from' = "side"
      BY <1>26, <2>4 DEF LaterSignal, Stopping
    <3>2. QED
      BY <2>a, <2>b, <3>1 DEF ServerInv, Over
  <2>5. QED
    BY <1>26, <2>1, <2>2, <2>3, <2>4, <2>c, <2>d, <2>e DEF LaterSignal
<1>27. CASE SignalToPhase4
  BY <1>27, <1>a DEF SignalToPhase4, Signalled, ServerInv
<1>28. CASE Crash
  BY <1>28, <1>a DEF Crash, Blank, ServerInv
<1>29. CASE UNCHANGED vars
  BY <1>29, <1>a DEF vars, ServerInv
<1>30. QED
  BY <1>1, <1>2, <1>3, <1>31, <1>4, <1>5, <1>6, <1>7, <1>8, <1>9, <1>10, <1>11, <1>12, <1>13,
     <1>14, <1>15, <1>16, <1>17, <1>18, <1>19, <1>20, <1>21, <1>22, <1>23, <1>24, <1>25, <1>26,
     <1>27, <1>28, <1>29 DEF Next, Work

(* What a process asks, records and skips is a tuple of the plan.          *)
LEMMA TupleIsWanted ==
    ASSUME TypeOK, AtIsWanted, AtTask
    PROVE  Tuple \in Wanted(side)
<1>1. at.rep \in 1..world.reps
  BY DEF TypeOK, Place
<1>2. QED
  BY <1>1, WantedIs DEF AtIsWanted, Tuple

(* The loops over suites, tasks and repetitions stay within the plan.      *)
LEMMA AtInductive == TypeOK /\ Untended /\ AtIsWanted /\ [Next]_vars => AtIsWanted'
<1> SUFFICES ASSUME TypeOK, Untended, AtIsWanted, [Next]_vars
             PROVE  AtIsWanted'
  OBVIOUS
<1>a. pc \in Over \cup Working \cup {"phase4"} /\ from \in Callers
  BY DEF TypeOK
<1>b. at.suite \in Nat /\ at.task \in Nat /\ at.rep \in Nat /\ at \in Place
  BY WorldFacts DEF TypeOK, Place
<1>c. /\ Suites = 1..Len(world.suites) /\ Len(world.suites) \in Nat
      /\ \A u \in Suites : world.suites[u] \in Nat /\ world.suites[u] >= 1
  BY WorldFacts
<1>d. world' = world => Suites' = Suites
  BY DEF Suites
<1> USE <1>a, <1>d DEF AtIsWanted, AtTask, Launching, Losing
<1>1. CASE Begin
  BY <1>1 DEF Begin, Blank
<1>2. CASE EnterSide
  <2>1. CASE Suites = {}
    BY <1>2, <2>1, <1>c DEF EnterSide, Origin
  <2>2. CASE Suites # {}
    BY <1>2, <2>2, <1>c DEF EnterSide, Origin, life
  <2>3. QED
    BY <2>1, <2>2
<1>3. CASE Spawn
  BY <1>3 DEF Spawn, life, place
<1>31. CASE Guard
  BY <1>31 DEF Guard, life, place
<1>4. CASE Ready
  BY <1>4 DEF Ready, life, place
<1>5. CASE NotReady
  BY <1>5 DEF NotReady, Stopping, life, place
<1>6. CASE Unstartable
  <2>1. CASE relaunched
    BY <1>6, <2>1 DEF Unstartable, life, place
  <2>2. CASE ~relaunched /\ CanRetry
    BY <1>6, <2>2 DEF Unstartable, life, place
  <2>3. CASE ~relaunched /\ ~CanRetry
    BY <1>6, <2>3 DEF Unstartable
  <2>4. QED
    BY <2>1, <2>2, <2>3
<1>7. CASE ReuseGrade
  <2>1. CASE at.rep < world.reps
    BY <1>7, <2>1, <1>b DEF ReuseGrade, NextRep, Place, life
  <2>2. CASE ~(at.rep < world.reps)
    BY <1>7, <2>2, <1>b DEF ReuseGrade, NextRep, Place, life
  <2>3. QED
    BY <2>1, <2>2
<1>8. CASE SkipTuple
  <2>1. CASE at.rep < world.reps
    BY <1>8, <2>1, <1>b DEF SkipTuple, NextRep, Grade, Place, life
  <2>2. CASE ~(at.rep < world.reps)
    BY <1>8, <2>2, <1>b DEF SkipTuple, NextRep, Grade, Place, life
  <2>3. QED
    BY <2>1, <2>2
<1>9. CASE \E status \in {"graded", "error"} : Drive(status)
  BY <1>9 DEF Drive, Asks, life, place
<1>10. CASE Unavailable
  BY <1>10 DEF Unavailable, Asks, PutAway, Stopping, life, place
<1>11. CASE Revive
  <2>1. CASE relaunched
    BY <1>11, <2>1 DEF Revive, MayRelaunch, life, place
  <2>2. CASE ~relaunched
    BY <1>11, <2>2 DEF Revive, MayRelaunch, life, place
  <2>3. QED
    BY <2>1, <2>2
<1>12. CASE RecordGrade
  <2>1. CASE abort \/ stop
    BY <1>12, <2>1, <1>b DEF RecordGrade, NextRep, Grade, Place, life
  <2>2. CASE ~abort /\ ~stop /\ at.rep < world.reps
    BY <1>12, <2>2, <1>b DEF RecordGrade, NextRep, Grade, Place, life
  <2>3. CASE ~abort /\ ~stop /\ ~(at.rep < world.reps)
    BY <1>12, <2>3, <1>b DEF RecordGrade, NextRep, Grade, Place, life
  <2>4. QED
    BY <2>1, <2>2, <2>3
<1>13. CASE Abandon
  <2>1. CASE Remaining = {}
    BY <1>13, <2>1 DEF Abandon, Grade, life, place
  <2>2. CASE Remaining # {}
    BY <1>13, <2>2 DEF Abandon, Grade, life, place
  <2>3. QED
    BY <2>1, <2>2
<1>14. CASE EndTask
  <2>1. CASE stop \/ at.task = world.suites[at.suite]
    BY <1>14, <2>1 DEF EndTask, life
  <2>2. CASE ~(stop \/ at.task = world.suites[at.suite])
    <3>1. at'.suite = at.suite /\ at'.task = at.task + 1 /\ world' = world
      BY <1>14, <2>2, <1>b DEF EndTask, Place, life
    <3>2. at.suite \in Suites /\ at.task \in 1..world.suites[at.suite]
      BY <1>14 DEF EndTask
    <3>3. QED
      BY <2>2, <3>1, <3>2, <1>c
  <2>3. QED
    BY <2>1, <2>2
<1>15. CASE EndSuite
  <2>1. CASE abort \/ stop \/ at.suite = Len(world.suites)
    BY <1>15, <2>1, <1>b, <1>c DEF EndSuite
  <2>2. CASE ~(abort \/ stop \/ at.suite = Len(world.suites))
    BY <1>15, <2>2, <1>b, <1>c DEF EndSuite, life
  <2>3. QED
    BY <2>1, <2>2
<1>16. CASE LeaveSide
  BY <1>16 DEF LeaveSide, Stopping
<1>17. CASE Terminate
  BY <1>17 DEF Terminate, life, place
<1>18. CASE Reap
  <2>1. CASE signals >= 2 \/ from = "outer"
    BY <1>18, <2>1 DEF Reap, AfterStop
  <2>2. CASE ~(signals >= 2 \/ from = "outer") /\ from \in {"start", "death"}
    BY <1>18, <2>2 DEF Reap, AfterStop, life, place
  <2>3. CASE ~(signals >= 2 \/ from = "outer") /\ from = "side"
    BY <1>18, <2>3 DEF Reap, AfterStop
  <2>4. QED
    BY <2>1, <2>2, <2>3, <1>18 DEF Reap, Untended, Over, Callers
<1>19. CASE Join
  BY <1>19 DEF Join
<1>20. CASE AfterSide
  BY <1>20 DEF AfterSide
<1>21. CASE \E usable \in BOOLEAN : Perplexity(usable)
  BY <1>21 DEF Perplexity
<1>22. CASE Settle
  BY <1>22 DEF Settle, ExitCode
<1>23. CASE Unwind
  BY <1>23 DEF Unwind, Stopping
<1>24. CASE Phase4
  BY <1>24 DEF Phase4
<1>25. CASE FirstSignal
  BY <1>25 DEF FirstSignal, Signalled, place
<1>26. CASE LaterSignal
  <2>0. CASE pc = "spawned"
    BY <1>26, <2>0 DEF LaterSignal, Signalled, Stopping, place
  <2>1. CASE pc = "starting"
    BY <1>26, <2>1 DEF LaterSignal, Signalled, Stopping, place
  <2>2. CASE pc = "stop"
    BY <1>26, <2>2 DEF LaterSignal, Signalled, Stopping
  <2>3. CASE pc = "unwind"
    BY <1>26, <2>3 DEF LaterSignal, Signalled, Stopping
  <2>4. CASE pc = "join"
    BY <1>26, <2>4 DEF LaterSignal, Signalled, Stopping
  <2>5. CASE pc \in Working \ {"spawned", "starting", "stop", "join", "unwind"} /\ server = "none"
    BY <1>26, <2>5 DEF LaterSignal, Signalled, Stopping
  <2>6. CASE pc \in Working \ {"spawned", "starting", "stop", "join", "unwind"} /\ server # "none"
    BY <1>26, <2>6 DEF LaterSignal, Signalled, Stopping
  <2>7. QED
    BY <2>0, <2>1, <2>2, <2>3, <2>4, <2>5, <2>6, <1>26 DEF LaterSignal
<1>27. CASE SignalToPhase4
  BY <1>27 DEF SignalToPhase4, Signalled
<1>28. CASE Crash
  BY <1>28 DEF Crash, Blank
<1>29. CASE UNCHANGED vars
  BY <1>29 DEF vars
<1>30. QED
  BY <1>1, <1>2, <1>3, <1>31, <1>4, <1>5, <1>6, <1>7, <1>8, <1>9, <1>10, <1>11, <1>12, <1>13,
     <1>14, <1>15, <1>16, <1>17, <1>18, <1>19, <1>20, <1>21, <1>22, <1>23, <1>24, <1>25, <1>26,
     <1>27, <1>28, <1>29 DEF Next, Work

(* A tuple is asked only if it has no grade, and has none while the server *)
(* is stopped and relaunched on its account.                               *)
LEMMA UnansweredInductive == TypeOK /\ Untended /\ Unanswered /\ [Next]_vars => Unanswered'
<1> SUFFICES ASSUME TypeOK, Untended, Unanswered, [Next]_vars
             PROVE  Unanswered'
  OBVIOUS
<1>a. pc \in Over \cup Working \cup {"phase4"} /\ from \in Callers
  BY DEF TypeOK
<1>b. at' = at /\ side' = side => Tuple' = Tuple
  BY DEF Tuple
<1> USE <1>a, <1>b DEF Unanswered, Launching, Losing
<1>1. CASE Begin
  BY <1>1 DEF Begin, Blank
<1>2. CASE EnterSide
  <2>1. CASE Suites = {}
    BY <1>2, <2>1 DEF EnterSide
  <2>2. CASE Suites # {}
    BY <1>2, <2>2 DEF EnterSide
  <2>3. QED
    BY <2>1, <2>2
<1>3. CASE Spawn
  BY <1>3 DEF Spawn, record, place
<1>31. CASE Guard
  BY <1>31 DEF Guard, record, place
<1>4. CASE Ready
  BY <1>4 DEF Ready
<1>5. CASE NotReady
  BY <1>5 DEF NotReady, Stopping, record, place
<1>6. CASE Unstartable
  <2>1. CASE relaunched
    BY <1>6, <2>1 DEF Unstartable, record, place
  <2>2. CASE ~relaunched /\ CanRetry
    BY <1>6, <2>2 DEF Unstartable
  <2>3. CASE ~relaunched /\ ~CanRetry
    BY <1>6, <2>3 DEF Unstartable
  <2>4. QED
    BY <2>1, <2>2, <2>3
<1>7. CASE ReuseGrade
  <2>1. CASE at.rep < world.reps
    BY <1>7, <2>1 DEF ReuseGrade, NextRep
  <2>2. CASE ~(at.rep < world.reps)
    BY <1>7, <2>2 DEF ReuseGrade, NextRep
  <2>3. QED
    BY <2>1, <2>2
<1>8. CASE SkipTuple
  <2>1. CASE at.rep < world.reps
    BY <1>8, <2>1 DEF SkipTuple, NextRep, Grade
  <2>2. CASE ~(at.rep < world.reps)
    BY <1>8, <2>2 DEF SkipTuple, NextRep, Grade
  <2>3. QED
    BY <2>1, <2>2
<1>9. CASE \E status \in {"graded", "error"} : Drive(status)
  BY <1>9 DEF Drive, Asks, record, place
<1>10. CASE Unavailable
  BY <1>10 DEF Unavailable, Asks, PutAway, Stopping, record, place
<1>11. CASE Revive
  <2>1. CASE relaunched
    BY <1>11, <2>1 DEF Revive, MayRelaunch, record, place
  <2>2. CASE ~relaunched
    BY <1>11, <2>2 DEF Revive, MayRelaunch, record, place
  <2>3. QED
    BY <2>1, <2>2
<1>12. CASE RecordGrade
  <2>1. CASE abort \/ stop
    BY <1>12, <2>1 DEF RecordGrade, NextRep, Grade
  <2>2. CASE ~abort /\ ~stop /\ at.rep < world.reps
    BY <1>12, <2>2 DEF RecordGrade, NextRep, Grade
  <2>3. CASE ~abort /\ ~stop /\ ~(at.rep < world.reps)
    BY <1>12, <2>3 DEF RecordGrade, NextRep, Grade
  <2>4. QED
    BY <2>1, <2>2, <2>3
<1>13. CASE Abandon
  <2>1. CASE Remaining = {}
    BY <1>13, <2>1 DEF Abandon, Grade
  <2>2. CASE Remaining # {}
    BY <1>13, <2>2 DEF Abandon, Grade
  <2>3. QED
    BY <2>1, <2>2
<1>14. CASE EndTask
  <2>1. CASE stop \/ at.task = world.suites[at.suite]
    BY <1>14, <2>1 DEF EndTask
  <2>2. CASE ~(stop \/ at.task = world.suites[at.suite])
    BY <1>14, <2>2 DEF EndTask
  <2>3. QED
    BY <2>1, <2>2
<1>15. CASE EndSuite
  <2>1. CASE abort \/ stop \/ at.suite = Len(world.suites)
    BY <1>15, <2>1 DEF EndSuite
  <2>2. CASE ~(abort \/ stop \/ at.suite = Len(world.suites))
    BY <1>15, <2>2 DEF EndSuite
  <2>3. QED
    BY <2>1, <2>2
<1>16. CASE LeaveSide
  BY <1>16 DEF LeaveSide, Stopping
<1>17. CASE Terminate
  BY <1>17 DEF Terminate, record, place
<1>18. CASE Reap
  <2>1. CASE signals >= 2 \/ from = "outer"
    BY <1>18, <2>1 DEF Reap, AfterStop
  <2>2. CASE ~(signals >= 2 \/ from = "outer") /\ from \in {"start", "death"}
    BY <1>18, <2>2 DEF Reap, AfterStop, record, place
  <2>3. CASE ~(signals >= 2 \/ from = "outer") /\ from = "side"
    BY <1>18, <2>3 DEF Reap, AfterStop
  <2>4. QED
    BY <2>1, <2>2, <2>3, <1>18 DEF Reap, Untended, Over, Callers
<1>19. CASE Join
  BY <1>19 DEF Join
<1>20. CASE AfterSide
  BY <1>20 DEF AfterSide
<1>21. CASE \E usable \in BOOLEAN : Perplexity(usable)
  BY <1>21 DEF Perplexity
<1>22. CASE Settle
  BY <1>22 DEF Settle, ExitCode
<1>23. CASE Unwind
  BY <1>23 DEF Unwind, Stopping
<1>24. CASE Phase4
  BY <1>24 DEF Phase4
<1>25. CASE FirstSignal
  BY <1>25 DEF FirstSignal, Signalled, record, place
<1>26. CASE LaterSignal
  <2>0. CASE pc = "spawned"
    BY <1>26, <2>0 DEF LaterSignal, Signalled, Stopping, record, place
  <2>1. CASE pc = "starting"
    BY <1>26, <2>1 DEF LaterSignal, Signalled, Stopping, record, place
  <2>2. CASE pc = "stop"
    BY <1>26, <2>2 DEF LaterSignal, Signalled, Stopping
  <2>3. CASE pc = "unwind"
    BY <1>26, <2>3 DEF LaterSignal, Signalled, Stopping
  <2>4. CASE pc = "join"
    BY <1>26, <2>4 DEF LaterSignal, Signalled, Stopping
  <2>5. CASE pc \in Working \ {"spawned", "starting", "stop", "join", "unwind"} /\ server = "none"
    BY <1>26, <2>5 DEF LaterSignal, Signalled, Stopping
  <2>6. CASE pc \in Working \ {"spawned", "starting", "stop", "join", "unwind"} /\ server # "none"
    BY <1>26, <2>6 DEF LaterSignal, Signalled, Stopping
  <2>7. QED
    BY <2>0, <2>1, <2>2, <2>3, <2>4, <2>5, <2>6, <1>26 DEF LaterSignal
<1>27. CASE SignalToPhase4
  BY <1>27 DEF SignalToPhase4, Signalled
<1>28. CASE Crash
  BY <1>28 DEF Crash, Blank
<1>29. CASE UNCHANGED vars
  BY <1>29 DEF vars
<1>30. QED
  BY <1>1, <1>2, <1>3, <1>31, <1>4, <1>5, <1>6, <1>7, <1>8, <1>9, <1>10, <1>11, <1>12, <1>13,
     <1>14, <1>15, <1>16, <1>17, <1>18, <1>19, <1>20, <1>21, <1>22, <1>23, <1>24, <1>25, <1>26,
     <1>27, <1>28, <1>29 DEF Next, Work

(* A grade for a tuple that had none keeps the journal without duplicates  *)
(* and prior equal to what is in it.                                       *)
LEMMA GradeKeeps ==
    ASSUME TypeOK, GradesOK, prior = Journaled, world' = world,
           NEW k \in AllWanted, k \notin prior, NEW status \in Statuses, Grade(k, status)
    PROVE  GradesOK' /\ prior' = Journaled'
<1> DEFINE n == Len(journal)
           e == [key |-> k, status |-> status]
<1>1. journal \in Seq(Entry) /\ n \in Nat /\ DOMAIN journal = 1..n /\ journal' = Append(journal, e)
  BY DEF TypeOK, Grade
<1>2. /\ DOMAIN journal' = 1..(n + 1)
      /\ \A i \in 1..n : journal'[i] = journal[i]
      /\ journal'[n + 1].key = k
  BY <1>1
<1>3. \A i \in 1..n : journal[i].key # k
  BY <1>1 DEF Journaled
<1>4. Journaled' = Journaled \cup {k}
  BY <1>1, <1>2 DEF Journaled
<1>5. AllWanted' = AllWanted
  BY DEF AllWanted, Wanted, Suites
<1>6. QED
  BY <1>1, <1>2, <1>3, <1>4, <1>5 DEF GradesOK, Grade

(* The three actions that write the journal grade an ungraded tuple of the *)
(* plan: the one at hand, or one the suite still lacks.                    *)
LEMMA JournalInductive ==
    TypeOK /\ AtIsWanted /\ Unanswered /\ JournalInv /\ [Next]_vars => JournalInv'
<1> SUFFICES ASSUME TypeOK, AtIsWanted, Unanswered, JournalInv, [Next]_vars
             PROVE  JournalInv'
  OBVIOUS
<1>a. world' = world => AllWanted' = AllWanted
  BY DEF AllWanted, Wanted, Suites
<1>b. journal' = journal /\ world' = world => GradesOK' /\ Journaled' = Journaled
  BY <1>a DEF JournalInv, GradesOK, Journaled
<1>c. world' = world
  BY WorldFixed
<1>d. AtTask => Tuple \in AllWanted
  BY TupleIsWanted DEF AllWanted, TypeOK
<1>e. \A k \in AllWanted, status \in Statuses :
          Grade(k, status) /\ prior = Journaled /\ k \notin prior =>
              GradesOK' /\ prior' = Journaled'
  BY <1>c, GradeKeeps DEF JournalInv
<1> USE DEF JournalInv
<1>1. CASE Begin
  BY <1>1, <1>b DEF Begin, Blank
<1>2. CASE EnterSide
  BY <1>2, <1>b DEF EnterSide, record, life
<1>3. CASE Spawn
  BY <1>3, <1>b DEF Spawn, record, life
<1>31. CASE Guard
  BY <1>31, <1>b DEF Guard, record, life
<1>4. CASE Ready
  BY <1>4, <1>b DEF Ready, record, life
<1>5. CASE NotReady
  BY <1>5, <1>b DEF NotReady, Stopping, record, life
<1>6. CASE Unstartable
  BY <1>6, <1>b DEF Unstartable, record, life
<1>7. CASE ReuseGrade
  BY <1>7, <1>b DEF ReuseGrade, NextRep, record, life
<1>8. CASE SkipTuple
  <2>1. CASE at.rep < world.reps
    BY <1>8, <2>1, <1>b, <1>d, <1>e DEF SkipTuple, NextRep, Grade, AtTask, Statuses
  <2>2. CASE ~(at.rep < world.reps)
    BY <1>8, <2>2, <1>b, <1>d, <1>e DEF SkipTuple, NextRep, Grade, AtTask, Statuses
  <2>3. QED
    BY <2>1, <2>2
<1>9. CASE \E status \in {"graded", "error"} : Drive(status)
  BY <1>9, <1>b DEF Drive, Asks, record, life
<1>10. CASE Unavailable
  BY <1>10, <1>b DEF Unavailable, Asks, PutAway, Stopping, record, life
<1>11. CASE Revive
  BY <1>11, <1>b DEF Revive, MayRelaunch, record, life
<1>12. CASE RecordGrade
  <2>1. CASE abort \/ stop
    BY <1>12, <2>1, <1>b, <1>d, <1>e DEF RecordGrade, NextRep, Grade, AtTask, Unanswered, TypeOK
  <2>2. CASE ~abort /\ ~stop /\ at.rep < world.reps
    BY <1>12, <2>2, <1>b, <1>d, <1>e DEF RecordGrade, NextRep, Grade, AtTask, Unanswered, TypeOK
  <2>3. CASE ~abort /\ ~stop /\ ~(at.rep < world.reps)
    BY <1>12, <2>3, <1>b, <1>d, <1>e DEF RecordGrade, NextRep, Grade, AtTask, Unanswered, TypeOK
  <2>4. QED
    BY <2>1, <2>2, <2>3
<1>13. CASE Abandon
  <2>1. CASE Remaining = {}
    BY <1>13, <2>1, <1>b, <1>e DEF Abandon, Grade, Remaining, AllWanted, record, life
  <2>2. CASE Remaining # {}
    BY <1>13, <2>2, <1>b, <1>e DEF Abandon, Grade, Remaining, AllWanted, TypeOK, Statuses
  <2>3. QED
    BY <2>1, <2>2
<1>14. CASE EndTask
  BY <1>14, <1>b DEF EndTask, record, life
<1>15. CASE EndSuite
  BY <1>15, <1>b DEF EndSuite, record, life
<1>16. CASE LeaveSide
  BY <1>16, <1>b DEF LeaveSide, Stopping, record, life
<1>17. CASE Terminate
  BY <1>17, <1>b DEF Terminate, record, life
<1>18. CASE Reap
  BY <1>18, <1>b DEF Reap, AfterStop, record, life
<1>19. CASE Join
  BY <1>19, <1>b DEF Join, record, life
<1>20. CASE AfterSide
  BY <1>20, <1>b DEF AfterSide, record, life
<1>21. CASE \E usable \in BOOLEAN : Perplexity(usable)
  BY <1>21, <1>b DEF Perplexity, record, life
<1>22. CASE Settle
  BY <1>22, <1>b DEF Settle, ExitCode, record, life
<1>23. CASE Unwind
  BY <1>23, <1>b DEF Unwind, Stopping, record, life
<1>24. CASE Phase4
  BY <1>24, <1>b DEF Phase4, record, life
<1>25. CASE FirstSignal
  BY <1>25, <1>b DEF FirstSignal, Signalled, record
<1>26. CASE LaterSignal
  BY <1>26, <1>b DEF LaterSignal, Signalled, Stopping, Working, record
<1>27. CASE SignalToPhase4
  BY <1>27, <1>b DEF SignalToPhase4, Signalled, record
<1>28. CASE Crash
  BY <1>28, <1>b DEF Crash, Blank
<1>29. CASE UNCHANGED vars
  BY <1>29, <1>b DEF vars
<1>30. QED
  BY <1>1, <1>2, <1>3, <1>31, <1>4, <1>5, <1>6, <1>7, <1>8, <1>9, <1>10, <1>11, <1>12, <1>13,
     <1>14, <1>15, <1>16, <1>17, <1>18, <1>19, <1>20, <1>21, <1>22, <1>23, <1>24, <1>25, <1>26,
     <1>27, <1>28, <1>29 DEF Next, Work

(* What one more grade does to the errors of this process.                 *)
LEMMA ErrorsOfGrade ==
    ASSUME TypeOK, NEW k, NEW status, Grade(k, status), since' = since, since <= Len(journal)
    PROVE  /\ Len(journal') = Len(journal) + 1
           /\ status = "error" => ErrorsSince' # {}
           /\ status # "error" => ErrorsSince' = ErrorsSince
<1> DEFINE n == Len(journal)
           e == [key |-> k, status |-> status]
<1>1. /\ journal \in Seq(Entry) /\ n \in Nat /\ DOMAIN journal = 1..n /\ since \in Nat
      /\ journal' = Append(journal, e)
  BY DEF TypeOK, Grade
<1>2. /\ DOMAIN journal' = 1..(n + 1) /\ Len(journal') = n + 1
      /\ \A i \in 1..n : journal'[i] = journal[i]
      /\ journal'[n + 1].status = status
  BY <1>1
<1>3. n + 1 > since
  BY <1>1
<1>4. CASE status = "error"
  BY <1>1, <1>2, <1>3, <1>4 DEF ErrorsSince
<1>5. CASE status # "error"
  BY <1>1, <1>2, <1>5 DEF ErrorsSince
<1>6. QED
  BY <1>2, <1>4, <1>5

(* A process begins without errors of its own.                             *)
LEMMA NoErrorsYet ==
    ASSUME TypeOK, journal' = journal, since' = Len(journal)
    PROVE  ErrorsSince' = {}
<1>1. DOMAIN journal = 1..Len(journal) /\ Len(journal) \in Nat
  OBVIOUS
<1>2. QED
  BY <1>1 DEF ErrorsSince

(* harness goes up with the reply that is an error, and the error follows. *)
LEMMA HarnessInductive == TypeOK /\ Untended /\ HarnessInv /\ [Next]_vars => HarnessInv'
<1> SUFFICES ASSUME TypeOK, Untended, HarnessInv, [Next]_vars
             PROVE  HarnessInv'
  OBVIOUS
<1>a. /\ pc \in Over \cup Working \cup {"phase4"} /\ reply \in Statuses /\ exit \in {0, 1, 3, 4}
      /\ Len(journal) \in Nat /\ since \in Nat /\ DOMAIN journal = 1..Len(journal)
  BY DEF TypeOK
<1>b. journal' = journal /\ since' = since => ErrorsSince' = ErrorsSince
  BY DEF ErrorsSince
<1> USE <1>a, <1>b DEF HarnessInv
<1>1. CASE Begin
  <2>0. journal' = journal /\ since' = Len(journal)
    BY <1>1 DEF Begin
  <2>1. ErrorsSince' = {} /\ since' = Len(journal') /\ Len(journal') \in Nat
    BY <2>0, NoErrorsYet
  <2>2. pc' = "side" /\ reply' = "graded" /\ harness' = FALSE /\ abort' = FALSE
    BY <1>1 DEF Begin, Blank
  <2>3. QED
    BY <2>1, <2>2
<1>2. CASE EnterSide
  <2>1. CASE Suites = {}
    BY <1>2, <2>1 DEF EnterSide, life, record, verdicts
  <2>2. CASE Suites # {}
    BY <1>2, <2>2 DEF EnterSide, life, record, verdicts
  <2>3. QED
    BY <2>1, <2>2
<1>3. CASE Spawn
  BY <1>3 DEF Spawn, life, record, verdicts
<1>31. CASE Guard
  BY <1>31 DEF Guard, life, record, verdicts
<1>4. CASE Ready
  BY <1>4 DEF Ready, life, record, verdicts
<1>5. CASE NotReady
  BY <1>5 DEF NotReady, Stopping, life, record, verdicts
<1>6. CASE Unstartable
  <2>1. CASE relaunched
    BY <1>6, <2>1 DEF Unstartable, life, record
  <2>2. CASE ~relaunched /\ CanRetry
    BY <1>6, <2>2 DEF Unstartable, life, record, verdicts
  <2>3. CASE ~relaunched /\ ~CanRetry
    BY <1>6, <2>3 DEF Unstartable, life, record, verdicts
  <2>4. QED
    BY <2>1, <2>2, <2>3
<1>7. CASE ReuseGrade
  <2>1. CASE at.rep < world.reps
    BY <1>7, <2>1 DEF ReuseGrade, NextRep, life, record, verdicts
  <2>2. CASE ~(at.rep < world.reps)
    BY <1>7, <2>2 DEF ReuseGrade, NextRep, life, record, verdicts
  <2>3. QED
    BY <2>1, <2>2
<1>8. CASE SkipTuple
  <2>1. Len(journal') = Len(journal) + 1 /\ ErrorsSince' = ErrorsSince
    BY <1>8, ErrorsOfGrade DEF SkipTuple, life
  <2>2. pc = "rep" /\ pc' \in {"rep", "task"}
    BY <1>8 DEF SkipTuple, NextRep
  <2>3. QED
    BY <1>8, <2>1, <2>2 DEF SkipTuple, life, verdicts
<1>9. CASE \E status \in {"graded", "error"} : Drive(status)
  <2>1. ASSUME NEW status \in {"graded", "error"}, Drive(status)
        PROVE  HarnessInv'
    <3>1. CASE status = "error"
      BY <2>1, <3>1 DEF Drive, Asks, life, record
    <3>2. CASE status = "graded"
      BY <2>1, <3>2 DEF Drive, Asks, life, record
    <3>3. QED
      BY <2>1, <3>1, <3>2
  <2>2. QED
    BY <1>9, <2>1
<1>10. CASE Unavailable
  BY <1>10 DEF Unavailable, Asks, PutAway, Stopping, life, record, verdicts
<1>11. CASE Revive
  <2>1. CASE relaunched
    BY <1>11, <2>1 DEF Revive, MayRelaunch, life, record
  <2>2. CASE ~relaunched
    BY <1>11, <2>2 DEF Revive, MayRelaunch, life, record, verdicts
  <2>3. QED
    BY <2>1, <2>2
<1>12. CASE RecordGrade
  <2>1. /\ Len(journal') = Len(journal) + 1
        /\ reply = "error" => ErrorsSince' # {}
        /\ reply # "error" => ErrorsSince' = ErrorsSince
    BY <1>12, ErrorsOfGrade DEF RecordGrade, life
  <2>2. pc = "record" /\ pc' \in {"rep", "task", "abandon"} /\ (pc' = "abandon" => abort)
    BY <1>12 DEF RecordGrade, NextRep
  <2>3. QED
    BY <1>12, <2>1, <2>2 DEF RecordGrade, life, verdicts
<1>13. CASE Abandon
  <2>1. CASE Remaining = {}
    BY <1>13, <2>1 DEF Abandon, life, record, verdicts
  <2>2. CASE Remaining # {}
    <3>1. PICK k \in Remaining : Grade(k, "error")
      BY <1>13, <2>2 DEF Abandon
    <3>2. Len(journal') = Len(journal) + 1 /\ ErrorsSince' # {}
      BY <1>13, <3>1, ErrorsOfGrade DEF Abandon, life
    <3>3. QED
      BY <1>13, <2>2, <3>2 DEF Abandon, life, verdicts
  <2>3. QED
    BY <2>1, <2>2
<1>14. CASE EndTask
  <2>1. CASE stop \/ at.task = world.suites[at.suite]
    BY <1>14, <2>1 DEF EndTask, life, record, verdicts
  <2>2. CASE ~(stop \/ at.task = world.suites[at.suite])
    BY <1>14, <2>2 DEF EndTask, life, record, verdicts
  <2>3. QED
    BY <2>1, <2>2
<1>15. CASE EndSuite
  <2>1. CASE abort \/ stop \/ at.suite = Len(world.suites)
    BY <1>15, <2>1 DEF EndSuite, life, record, verdicts
  <2>2. CASE ~(abort \/ stop \/ at.suite = Len(world.suites))
    BY <1>15, <2>2 DEF EndSuite, life, record, verdicts
  <2>3. QED
    BY <2>1, <2>2
<1>16. CASE LeaveSide
  BY <1>16 DEF LeaveSide, Stopping, life, record, verdicts
<1>17. CASE Terminate
  BY <1>17 DEF Terminate, life, record, verdicts
<1>18. CASE Reap
  <2>1. CASE signals >= 2 \/ from = "outer"
    BY <1>18, <2>1 DEF Reap, AfterStop, life, record, verdicts
  <2>2. CASE ~(signals >= 2 \/ from = "outer") /\ from \in {"start", "death"}
    BY <1>18, <2>2 DEF Reap, AfterStop, life, record, verdicts
  <2>3. CASE ~(signals >= 2 \/ from = "outer") /\ from = "side"
    BY <1>18, <2>3 DEF Reap, AfterStop, life, record, verdicts
  <2>4. QED
    BY <2>1, <2>2, <2>3, <1>18 DEF TypeOK, Reap, Untended, Over, Callers
<1>19. CASE Join
  BY <1>19 DEF Join, life, record, verdicts
<1>20. CASE AfterSide
  BY <1>20 DEF AfterSide, life, record, verdicts
<1>21. CASE \E usable \in BOOLEAN : Perplexity(usable)
  <2>1. ASSUME NEW usable \in BOOLEAN, Perplexity(usable)
        PROVE  HarnessInv'
    BY <2>1 DEF Perplexity, life, record
  <2>2. QED
    BY <1>21, <2>1
<1>22. CASE Settle
  BY <1>22 DEF Settle, ExitCode, life, record, verdicts
<1>23. CASE Unwind
  BY <1>23 DEF Unwind, Stopping, life, record, verdicts
<1>24. CASE Phase4
  BY <1>24 DEF Phase4, life, record, verdicts
<1>25. CASE FirstSignal
  BY <1>25 DEF FirstSignal, Signalled, Working, record, verdicts
<1>26. CASE LaterSignal
  <2>0. CASE pc = "spawned"
    BY <1>26, <2>0 DEF LaterSignal, Signalled, Stopping, record, verdicts
  <2>1. CASE pc = "starting"
    BY <1>26, <2>1 DEF LaterSignal, Signalled, Stopping, record, verdicts
  <2>2. CASE pc = "stop"
    BY <1>26, <2>2 DEF LaterSignal, Signalled, Stopping, record, verdicts
  <2>3. CASE pc = "unwind"
    BY <1>26, <2>3 DEF LaterSignal, Signalled, Stopping, record, verdicts
  <2>4. CASE pc = "join"
    BY <1>26, <2>4 DEF LaterSignal, Signalled, Stopping, record, verdicts
  <2>5. CASE pc \in Working \ {"spawned", "starting", "stop", "join", "unwind"} /\ server = "none"
    BY <1>26, <2>5 DEF LaterSignal, Signalled, Stopping, Working, record, verdicts
  <2>6. CASE pc \in Working \ {"spawned", "starting", "stop", "join", "unwind"} /\ server # "none"
    BY <1>26, <2>6 DEF LaterSignal, Signalled, Stopping, Working, record, verdicts
  <2>7. QED
    BY <2>0, <2>1, <2>2, <2>3, <2>4, <2>5, <2>6, <1>26 DEF LaterSignal
<1>27. CASE SignalToPhase4
  BY <1>27 DEF SignalToPhase4, Signalled, record, verdicts
<1>28. CASE Crash
  BY <1>28 DEF Crash, Blank
<1>29. CASE UNCHANGED vars
  BY <1>29 DEF vars
<1>30. QED
  BY <1>1, <1>2, <1>3, <1>31, <1>4, <1>5, <1>6, <1>7, <1>8, <1>9, <1>10, <1>11, <1>12, <1>13,
     <1>14, <1>15, <1>16, <1>17, <1>18, <1>19, <1>20, <1>21, <1>22, <1>23, <1>24, <1>25, <1>26,
     <1>27, <1>28, <1>29 DEF Next, Work

(* A process that goes on leaves a tuple behind only once it has a grade.  *)
LEMMA ProgressInductive ==
    /\ TypeOK /\ Untended /\ AtIsWanted /\ ServerInv /\ HarnessInv /\ ProgressInv
    /\ [Next]_vars
    => ProgressInv'
<1> SUFFICES ASSUME TypeOK, Untended, AtIsWanted, ServerInv, HarnessInv, ProgressInv,
                    [Next]_vars, ~stop', ~abort',
                    pc' \in {"phase4", "ended"} => exit' # 3,
                    NEW s \in 1..world'.sides, NEW k \in Wanted(s)', Passed(k)'
             PROVE  k \in prior'
  BY DEF ProgressInv
<1>a. world' = world
  BY WorldFixed
<1>b. s \in 1..world.sides /\ k \in Wanted(s)
  BY <1>a DEF Wanted, Suites
<1>c. /\ k = [side |-> k.side, suite |-> k.suite, task |-> k.task, rep |-> k.rep]
      /\ k.side \in 1..world.sides /\ k.suite \in Suites /\ k.task \in 1..world.suites[k.suite]
      /\ k.rep \in 1..world.reps
  BY <1>b, WantedIs
<1>d. k.side \in Nat /\ k.suite \in Nat /\ k.task \in Nat /\ k.rep \in Nat /\ k.side >= 1
  BY <1>c, WorldFacts
<1>e. /\ at.suite \in Nat /\ at.task \in Nat /\ at.rep \in 1..world.reps /\ at.rep \in Nat
      /\ side \in 1..world.sides /\ side \in Nat
  BY WorldFacts DEF TypeOK, Place
<1>i. ~(side < world.sides) => k.side <= side
  <2>1. side \in Nat /\ k.side \in Nat /\ world.sides \in Nat /\ k.side <= world.sides
    BY <1>c, <1>e, WorldFacts
  <2>2. QED
    BY <2>1
<1>f. ~stop /\ ~abort /\ (pc \in {"phase4", "ended"} => exit # 3) /\ Passed(k) => k \in prior
  BY <1>b DEF ProgressInv
<1>g. pc \in Over \cup Working \cup {"phase4"} /\ from \in Callers
  BY DEF TypeOK
<1>h. ASSUME pc \in {"rep", "record"}, NextRep, Tuple \in prior', prior \subseteq prior',
             side' = side, ~stop, ~abort
      PROVE  k \in prior'
  <2>1. k.side < side => k \in prior'
    BY <1>f, <1>g, <1>h DEF Passed
  <2>2. k.side = side /\ Before(k, Tuple) => k \in prior'
    BY <1>f, <1>h DEF Passed
  <2>3. k.side = side /\ k.suite = at.suite /\ k.task = at.task /\ k.rep = at.rep => k \in prior'
    BY <1>c, <1>h DEF Tuple
  <2>4. CASE at.rep < world.reps
    <3>1. pc' = "rep" /\ at'.suite = at.suite /\ at'.task = at.task /\ at'.rep = at.rep + 1
      BY <1>h, <2>4 DEF NextRep, TypeOK, Place
    <3>2. k.side < side \/ (k.side = side /\ Before(k, Tuple'))
      BY <1>h, <3>1 DEF Passed, Launching, Losing
    <3>3. QED
      BY <1>d, <1>e, <2>1, <2>2, <2>3, <3>1, <3>2 DEF Before, Tuple
  <2>5. CASE ~(at.rep < world.reps)
    <3>1. pc' = "task" /\ at' = at /\ at.rep = world.reps
      BY <1>e, <1>h, <2>5, WorldFacts DEF NextRep
    <3>2. \/ k.side < side
          \/ k.side = side /\ k.suite < at.suite
          \/ k.side = side /\ k.suite = at.suite /\ k.task <= at.task
      BY <1>h, <3>1 DEF Passed, Launching, Losing
    <3>3. k.rep <= at.rep
      BY <1>c, <3>1
    <3>4. QED
      BY <1>d, <1>e, <2>1, <2>2, <2>3, <3>2, <3>3 DEF Before, Tuple
  <2>6. QED
    BY <2>4, <2>5
<1> USE <1>d, <1>e, <1>f, <1>g DEF Passed, Launching, Losing, Before, Tuple
<1>1. CASE Begin
  BY <1>1 DEF Begin, Blank
<1>2. CASE EnterSide
  <2>1. Suites # {} /\ 1 \in Nat
    BY <1>c
  <2>2. /\ pc = "side" /\ pc' \in {"rep", "spawn"} /\ at' = Origin
        /\ side' = side /\ prior' = prior /\ stop' = stop /\ abort' = abort
    BY <1>2, <2>1 DEF EnterSide, record, verdicts
  <2>3. ~Before(k, Tuple')
    BY <1>c, <2>2, WorldFacts DEF Origin
  <2>4. QED
    BY <2>2, <2>3
<1>3. CASE Spawn
  BY <1>3 DEF Spawn, record, place, verdicts
<1>31. CASE Guard
  BY <1>31 DEF Guard, record, place, verdicts
<1>4. CASE Ready
  BY <1>4 DEF Ready, record, place, verdicts
<1>5. CASE NotReady
  BY <1>5 DEF NotReady, Stopping, record, place, verdicts
<1>6. CASE Unstartable
  <2>1. CASE relaunched
    BY <1>6, <2>1 DEF Unstartable
  <2>2. CASE ~relaunched /\ CanRetry
    BY <1>6, <2>2 DEF Unstartable, record, place, verdicts
  <2>3. CASE ~relaunched /\ ~CanRetry
    BY <1>6, <2>3 DEF Unstartable
  <2>4. QED
    BY <2>1, <2>2, <2>3
<1>7. CASE ReuseGrade
  BY <1>7, <1>h DEF ReuseGrade, record, verdicts
<1>8. CASE SkipTuple
  BY <1>8, <1>h DEF SkipTuple, Grade, verdicts
<1>9. CASE \E status \in {"graded", "error"} : Drive(status)
  BY <1>9 DEF Drive, Asks, record, place
<1>10. CASE Unavailable
  BY <1>10 DEF Unavailable, Asks, PutAway, Stopping, record, place, verdicts
<1>11. CASE Revive
  <2>1. CASE relaunched
    BY <1>11, <2>1 DEF Revive, MayRelaunch
  <2>2. CASE ~relaunched
    BY <1>11, <2>2 DEF Revive, MayRelaunch, record, place, verdicts
  <2>3. QED
    BY <2>1, <2>2
<1>12. CASE RecordGrade
  <2>1. ~abort /\ ~stop
    BY <1>12 DEF RecordGrade, verdicts
  <2>2. QED
    BY <1>12, <2>1, <1>h DEF RecordGrade, Grade
<1>13. CASE Abandon
  BY <1>13 DEF Abandon, HarnessInv, verdicts
<1>14. CASE EndTask
  <2>1. ~stop /\ ~abort /\ pc = "task" /\ side' = side /\ prior' = prior
    BY <1>14 DEF EndTask, record, verdicts
  <2>2. CASE at.task = world.suites[at.suite]
    <3>1. pc' = "suite" /\ at' = at
      BY <1>14, <2>2 DEF EndTask
    <3>2. k.suite = at.suite => k.task <= at.task
      BY <1>c, <2>2
    <3>3. QED
      BY <2>1, <3>1, <3>2
  <2>3. CASE at.task # world.suites[at.suite]
    <3>1. pc' = "rep" /\ at'.suite = at.suite /\ at'.task = at.task + 1 /\ at'.rep = 1
      BY <1>14, <2>1, <2>3 DEF EndTask, TypeOK, Place
    <3>2. k.side = side /\ Before(k, Tuple') =>
              k.suite < at.suite \/ (k.suite = at.suite /\ k.task <= at.task)
      BY <1>c, <3>1
    <3>3. QED
      BY <2>1, <3>1, <3>2
  <2>4. QED
    BY <2>2, <2>3
<1>15. CASE EndSuite
  <2>1. ~stop /\ ~abort /\ pc = "suite" /\ side' = side /\ prior' = prior
    BY <1>15 DEF EndSuite, record, verdicts
  <2>2. CASE at.suite = Len(world.suites)
    <3>1. pc' = "leave"
      BY <1>15, <2>2 DEF EndSuite
    <3>2. k.suite <= at.suite
      BY <1>c, <2>2, WorldFacts
    <3>3. QED
      BY <2>1, <3>1, <3>2
  <2>3. CASE at.suite # Len(world.suites)
    <3>1. pc' = "rep" /\ at'.suite = at.suite + 1 /\ at'.task = 1 /\ at'.rep = 1
      BY <1>15, <2>1, <2>3 DEF EndSuite
    <3>2. k.side = side /\ Before(k, Tuple') => k.suite < at.suite \/ k.suite = at.suite
      BY <1>c, <3>1
    <3>3. QED
      BY <2>1, <3>1, <3>2
  <2>4. QED
    BY <2>2, <2>3
<1>16. CASE LeaveSide
  BY <1>16 DEF LeaveSide, Stopping, record, place, verdicts
<1>17. CASE Terminate
  BY <1>17 DEF Terminate, record, place, verdicts
<1>18. CASE Reap
  <2>1. CASE signals >= 2 \/ from = "outer"
    BY <1>18, <2>1 DEF Reap, AfterStop, record, place, verdicts
  <2>2. CASE ~(signals >= 2 \/ from = "outer") /\ from \in {"start", "death"}
    BY <1>18, <2>2 DEF Reap, AfterStop, record, place, verdicts
  <2>3. CASE ~(signals >= 2 \/ from = "outer") /\ from = "side"
    BY <1>18, <2>3 DEF Reap, AfterStop, record, place, verdicts
  <2>4. QED
    BY <2>1, <2>2, <2>3, <1>18 DEF Reap, Untended, Over, Callers
<1>19. CASE Join
  BY <1>19 DEF Join, record, place, verdicts
<1>20. CASE AfterSide
  <2>1. ~stop /\ ~abort /\ pc = "left" /\ prior' = prior
    BY <1>20 DEF AfterSide, record, verdicts
  <2>2. \/ pc' = "perplexity" /\ side' = side
        \/ pc' = "side" /\ side' = side + 1
        \/ pc' = "settle" /\ side' = side /\ ~(side < world.sides)
    BY <1>20, <2>1 DEF AfterSide
  <2>3. k.side <= side
    <3>1. CASE pc' = "side"
      BY <2>2, <3>1
    <3>2. CASE pc' = "settle"
      BY <1>i, <2>2, <3>2
    <3>3. CASE pc' = "perplexity"
      BY <2>2, <3>3
    <3>4. QED
      BY <2>2, <3>1, <3>2, <3>3
  <2>4. QED
    BY <2>1, <2>3
<1>21. CASE \E usable \in BOOLEAN : Perplexity(usable)
  <2>1. ~stop /\ ~abort /\ pc = "perplexity" /\ prior' = prior
    BY <1>21 DEF Perplexity, record
  <2>2. \/ pc' = "side" /\ side' = side + 1
        \/ pc' = "settle" /\ side' = side /\ ~(side < world.sides)
    BY <1>21, <2>1 DEF Perplexity
  <2>3. k.side <= side
    <3>1. CASE pc' = "side"
      BY <2>2, <3>1
    <3>2. CASE pc' = "settle"
      BY <1>i, <2>2, <3>2
    <3>3. QED
      BY <2>2, <3>1, <3>2
  <2>4. QED
    BY <2>1, <2>3
<1>22. CASE Settle
  BY <1>22 DEF Settle, ExitCode, record, verdicts
<1>23. CASE Unwind
  BY <1>23 DEF Unwind, ServerInv
<1>24. CASE Phase4
  BY <1>24 DEF Phase4, record, verdicts
<1>25. CASE FirstSignal
  BY <1>25 DEF FirstSignal, Signalled
<1>26. CASE LaterSignal
  <2>0. CASE pc = "spawned"
    BY <1>26, <2>0 DEF LaterSignal, Signalled, Stopping
  <2>1. CASE pc = "starting"
    BY <1>26, <2>1 DEF LaterSignal, Signalled, Stopping
  <2>2. CASE pc = "stop"
    BY <1>26, <2>2 DEF LaterSignal, Signalled, Stopping
  <2>3. CASE pc = "unwind"
    BY <1>26, <2>3 DEF LaterSignal, Signalled, Stopping
  <2>4. CASE pc = "join"
    BY <1>26, <2>4 DEF LaterSignal, Signalled, Stopping
  <2>5. CASE pc \in Working \ {"spawned", "starting", "stop", "join", "unwind"} /\ server = "none"
    BY <1>26, <2>5 DEF LaterSignal, Signalled, Stopping
  <2>6. CASE pc \in Working \ {"spawned", "starting", "stop", "join", "unwind"} /\ server # "none"
    BY <1>26, <2>6 DEF LaterSignal, Signalled, Stopping
  <2>7. QED
    BY <2>0, <2>1, <2>2, <2>3, <2>4, <2>5, <2>6, <1>26 DEF LaterSignal
<1>27. CASE SignalToPhase4
  BY <1>27 DEF SignalToPhase4, Signalled, record, verdicts
<1>28. CASE Crash
  BY <1>28 DEF Crash, Blank
<1>29. CASE UNCHANGED vars
  BY <1>29 DEF vars
<1>30. QED
  BY <1>1, <1>2, <1>3, <1>31, <1>4, <1>5, <1>6, <1>7, <1>8, <1>9, <1>10, <1>11, <1>12, <1>13,
     <1>14, <1>15, <1>16, <1>17, <1>18, <1>19, <1>20, <1>21, <1>22, <1>23, <1>24, <1>25, <1>26,
     <1>27, <1>28, <1>29 DEF Next, Work

(* The inductive invariant holds in every reachable state.                 *)
LEMMA Inductive == Spec => []Inv
<1>1. Init => Inv
  <2> SUFFICES ASSUME Init
               PROVE  Inv
    OBVIOUS
  <2>1. TypeOK
    <3>1. world \in World /\ world.reps >= 1
      BY WorldsAssumption DEF Init
    <3>2. Origin \in Place /\ world.sides >= 1 /\ world.sides \in Nat /\ world.signals \in Nat
          /\ world.processes \in Nat /\ world.crashes \in Nat
      BY <3>1 DEF World, Origin, Place
    <3>3. FlagsOK
      BY DEF Init, FlagsOK
    <3>4. QED
      BY <3>2, <3>3 DEF Init, TypeOK, Over, Statuses, Callers
  <2>2. Untended /\ AtIsWanted /\ Unanswered /\ ServerInv
    BY DEF Init, Untended, AtIsWanted, AtTask, Unanswered, Launching, Losing, ServerInv
  <2>3. JournalInv
    BY DEF Init, JournalInv, GradesOK, Journaled
  <2>4. HarnessInv
    BY DEF Init, HarnessInv, ErrorsSince
  <2>5. ProgressInv
    <3>1. ASSUME NEW s \in 1..world.sides, NEW k \in Wanted(s)
          PROVE  ~Passed(k)
      BY <2>1, WorldFacts, WantedIs DEF Init, Passed, Launching, Losing
    <3>2. QED
      BY <3>1 DEF ProgressInv
  <2>6. QED
    BY <2>1, <2>2, <2>3, <2>4, <2>5 DEF Inv, Init
<1>2. Inv /\ [Next]_vars => Inv'
  BY TypeInductive, UntendedInductive, AtInductive, UnansweredInductive, JournalInductive, ServerInductive,
     HarnessInductive, ProgressInductive DEF Inv
<1>3. QED
  BY <1>1, <1>2, PTL DEF Spec

(* Types, whatever the plan and the machine.                               *)
THEOREM TypeCorrect == Spec => []TypeOK
<1>1. Inv => TypeOK
  BY DEF Inv
<1>2. QED
  BY <1>1, Inductive, PTL

(* A tuple is graded at most once, through any number of processes and     *)
(* crashes, since every process reads prior from the journal.              *)
THEOREM GradesAreUnique == Spec => []GradedOnce
<1>1. Inv => GradedOnce
  BY DEF Inv, JournalInv, GradesOK, GradedOnce, AllWanted, Over
<1>2. QED
  BY <1>1, Inductive, PTL

(* One child at any moment; no signal path with at most two signals leaves *)
(* a server behind, but the second between its start and the try of start. *)
THEOREM ServersAreReaped == Spec => []OneChild
<1>1. Inv => OneChild
  <2>1. TypeOK /\ ServerInv => OneChild
    BY WorldFacts DEF TypeOK, ServerInv, OneChild
  <2>2. QED
    BY <2>1 DEF Inv
<1>2. QED
  BY <1>1, Inductive, PTL

(* The exit code agrees with the grades of this process, and a run that    *)
(* was neither stopped nor given up has graded every tuple.                *)
THEOREM ExitTellsTheTruth == Spec => []ExitIsHonest
<1>1. Inv => ExitIsHonest
  <2> SUFFICES ASSUME Inv, pc = "ended"
               PROVE  ExitIsHonest
    BY DEF ExitIsHonest
  <2>1. exit = 0 => \A i \in DOMAIN journal : i > since => journal[i].status # "error"
    BY DEF Inv, HarnessInv, ErrorsSince
  <2>2. ASSUME exit \in {0, 1}, ~abort, NEW s \in 1..world.sides
        PROVE  Wanted(s) \subseteq Journaled
    <3>1. ~stop /\ prior = Journaled
      BY <2>2 DEF Inv, HarnessInv, JournalInv
    <3>2. \A k \in Wanted(s) : k \in prior
      BY <2>2, <3>1 DEF Inv, ProgressInv, Passed
    <3>3. QED
      BY <3>1, <3>2
  <2>3. exit = 1 /\ ~world.perplexity =>
            \E i \in DOMAIN journal : i > since /\ journal[i].status = "error"
    BY DEF Inv, HarnessInv, ErrorsSince
  <2>4. QED
    BY <2>1, <2>2, <2>3 DEF ExitIsHonest
<1>2. QED
  BY <1>1, Inductive, PTL

----------------------------------------------------------------------------
(* Every step, of whatever kind, lowers the height of the run, in an order *)
(* that has no infinite descent.                                           *)

\* Processes to come.
Coming == world.processes - processes

\* A process that is not over, and the signals to come.
Life == IF pc \in Over THEN 0 ELSE 1 + (world.signals - signals)

\* The way from one side to the next and to the end.
Leg ==
    CASE pc \in Over -> 0
      [] pc = "phase4" -> 1
      [] pc \in {"settle", "unwind"} -> 2
      [] pc = "join" -> 3
      [] pc = "stop" /\ from = "outer" -> 4
      [] pc = "perplexity" -> (2 - side) * 6 + 5
      [] pc = "left" -> (2 - side) * 6 + 6
      [] pc = "stop" /\ from = "side" -> (2 - side) * 6 + 7
      [] pc = "leave" -> (2 - side) * 6 + 8
      [] pc = "side" -> (2 - side) * 6 + 10
      [] OTHER -> (2 - side) * 6 + 9

SuitesLeft == IF AtTask THEN Len(world.suites) - at.suite ELSE 0

\* The relaunch of the suite, and then the attempts of the launch at hand.
Launches ==
    CASE ~AtTask -> 0
      [] pc = "spawn" -> (IF relaunched THEN 0 ELSE 16) + (2 - tries) * 5 + 1
      [] pc = "unstartable" -> (IF relaunched THEN 0 ELSE 16) + (2 - tries) * 5 + 2
      [] pc = "stop" /\ from = "start" -> (IF relaunched THEN 0 ELSE 16) + (2 - tries) * 5 + 3
      [] pc = "starting" -> (IF relaunched THEN 0 ELSE 16) + (2 - tries) * 5 + 4
      [] pc = "spawned" -> (IF relaunched THEN 0 ELSE 16) + (2 - tries) * 5 + 5
      [] OTHER -> IF relaunched THEN 0 ELSE 16

TasksLeft == IF AtTask THEN world.suites[at.suite] - at.task ELSE 0

RepsLeft == IF AtTask THEN world.reps - at.rep ELSE 0

\* What becomes of the tuple at hand.
Turn ==
    CASE pc = "rep" -> 7 [] pc = "stop" /\ from = "death" -> 6 [] pc = "revived" -> 5
      [] pc = "record" -> 4 [] pc = "abandon" -> 3 [] pc = "task" -> 2 [] OTHER -> 1

\* A server is told to end, and ends; a suite that is given up is graded tuple by tuple.
Chores ==
    CASE pc = "stop" -> IF server = "up" THEN 1 ELSE 0
      [] pc = "abandon" -> Cardinality(Remaining)
      [] OTHER -> 0

Height ==
    <<Coming, Life, Leg, SuitesLeft, Launches, TasksLeft, RepsLeft, Turn, Chores>>

\* The order of the dictionary.
Descent == LexProductOrdering(OpToRel(<, Nat), Nat, 9)

HeightOK ==
    /\ Coming \in Nat /\ Life \in Nat /\ Leg \in Nat /\ SuitesLeft \in Nat /\ Launches \in Nat
    /\ TasksLeft \in Nat /\ RepsLeft \in Nat /\ Turn \in Nat /\ Chores \in Nat

\* Some part of the height falls, and those before it stay.
FallsInTuple == Turn' < Turn \/ (Turn' = Turn /\ Chores' < Chores)

FallsInSuite ==
    \/ Launches' < Launches
    \/ Launches' = Launches /\ TasksLeft' < TasksLeft
    \/ Launches' = Launches /\ TasksLeft' = TasksLeft /\ RepsLeft' < RepsLeft
    \/ Launches' = Launches /\ TasksLeft' = TasksLeft /\ RepsLeft' = RepsLeft /\ FallsInTuple

FallsInProcess ==
    \/ Leg' < Leg
    \/ Leg' = Leg /\ SuitesLeft' < SuitesLeft
    \/ Leg' = Leg /\ SuitesLeft' = SuitesLeft /\ FallsInSuite

Falls ==
    \/ Coming' < Coming
    \/ Coming' = Coming /\ Life' < Life
    \/ Coming' = Coming /\ Life' = Life /\ FallsInProcess

Descends == <<Height', Height>> \in Descent

(* The order has no infinite descent.                                      *)
THEOREM DescentEnds == IsWellFoundedOn(Descent, [1..9 -> Nat])
<1>1. IsWellFoundedOn(OpToRel(<, Nat), Nat)
  BY NatLessThanWellFounded
<1>2. 9 \in Nat
  OBVIOUS
<1>3. QED
  BY <1>1, <1>2, WFLexProductOrdering DEF Descent

(* One height is below another that agrees with it up to where it is less. *)
LEMMA BelowAt ==
    ASSUME NEW g \in [1..9 -> Nat], NEW h \in [1..9 -> Nat], NEW j \in 1..9,
           h[j] < g[j], \A i \in 1..(j - 1) : h[i] = g[i]
    PROVE  <<h, g>> \in Descent
<1>1. <<h[j], g[j]>> \in OpToRel(<, Nat)
  BY DEF OpToRel
<1>2. QED
  BY <1>1 DEF Descent, LexProductOrdering

(* What falls first, falls in the order.                                   *)
LEMMA FallsInOrder ==
    ASSUME HeightOK, HeightOK', Falls
    PROVE  <<Height', Height>> \in Descent
<1>1. PICK g, h : g = Height /\ h = Height'
  OBVIOUS
<1>2. /\ g \in [1..9 -> Nat] /\ h \in [1..9 -> Nat]
      /\ g[1] = Coming /\ g[2] = Life /\ g[3] = Leg /\ g[4] = SuitesLeft /\ g[5] = Launches
      /\ g[6] = TasksLeft /\ g[7] = RepsLeft /\ g[8] = Turn /\ g[9] = Chores
      /\ h[1] = Coming' /\ h[2] = Life' /\ h[3] = Leg' /\ h[4] = SuitesLeft' /\ h[5] = Launches'
      /\ h[6] = TasksLeft' /\ h[7] = RepsLeft' /\ h[8] = Turn' /\ h[9] = Chores'
  BY <1>1 DEF Height, HeightOK
<1>3. /\ \A i \in 1..(1 - 1) : FALSE
      /\ \A i \in 1..(2 - 1) : i = 1
      /\ \A i \in 1..(3 - 1) : i \in {1, 2}
      /\ \A i \in 1..(4 - 1) : i \in {1, 2, 3}
      /\ \A i \in 1..(5 - 1) : i \in {1, 2, 3, 4}
      /\ \A i \in 1..(6 - 1) : i \in {1, 2, 3, 4, 5}
      /\ \A i \in 1..(7 - 1) : i \in {1, 2, 3, 4, 5, 6}
      /\ \A i \in 1..(8 - 1) : i \in {1, 2, 3, 4, 5, 6, 7}
      /\ \A i \in 1..(9 - 1) : i \in {1, 2, 3, 4, 5, 6, 7, 8}
  OBVIOUS
<1>4. \E j \in 1..9 : h[j] < g[j] /\ \A i \in 1..(j - 1) : h[i] = g[i]
  <2>1. CASE h[1] < g[1]
    BY <1>3, <2>1
  <2>2. CASE h[1] = g[1] /\ h[2] < g[2]
    BY <1>3, <2>2
  <2>3. CASE h[1] = g[1] /\ h[2] = g[2] /\ FallsInProcess
    <3>1. CASE h[3] < g[3]
      BY <1>3, <2>3, <3>1
    <3>2. CASE h[3] = g[3] /\ h[4] < g[4]
      BY <1>3, <2>3, <3>2
    <3>3. CASE h[3] = g[3] /\ h[4] = g[4] /\ FallsInSuite
      <4>1. CASE h[5] < g[5]
        BY <1>3, <2>3, <3>3, <4>1
      <4>2. CASE h[5] = g[5] /\ h[6] < g[6]
        BY <1>3, <2>3, <3>3, <4>2
      <4>3. CASE h[5] = g[5] /\ h[6] = g[6] /\ h[7] < g[7]
        BY <1>3, <2>3, <3>3, <4>3
      <4>4. CASE h[5] = g[5] /\ h[6] = g[6] /\ h[7] = g[7] /\ h[8] < g[8]
        BY <1>3, <2>3, <3>3, <4>4
      <4>5. CASE h[5] = g[5] /\ h[6] = g[6] /\ h[7] = g[7] /\ h[8] = g[8] /\ h[9] < g[9]
        BY <1>3, <2>3, <3>3, <4>5
      <4>6. QED
        BY <1>2, <3>3, <4>1, <4>2, <4>3, <4>4, <4>5 DEF FallsInSuite, FallsInTuple
    <3>4. QED
      BY <1>2, <2>3, <3>1, <3>2, <3>3 DEF FallsInProcess
  <2>4. QED
    BY <1>2, <2>1, <2>2, <2>3 DEF Falls
<1>5. PICK j \in 1..9 : h[j] < g[j] /\ \A i \in 1..(j - 1) : h[i] = g[i]
  BY <1>4
<1>6. <<h, g>> \in Descent
  BY <1>2, <1>5, BelowAt
<1>7. QED
  BY <1>1, <1>6

(* The sizes a height is made of.                                          *)
LEMMA Sizes ==
    ASSUME TypeOK, AtIsWanted
    PROVE  /\ world.processes \in Nat /\ processes \in Nat /\ processes <= world.processes
           /\ world.signals \in Nat /\ signals \in Nat /\ signals <= world.signals
           /\ side \in 1..2 /\ tries \in 0..2 /\ relaunched \in BOOLEAN
           /\ world.reps \in Nat /\ at.rep \in Nat /\ at.rep <= world.reps
           /\ AtTask => /\ Len(world.suites) \in Nat /\ at.suite \in Nat
                        /\ at.suite <= Len(world.suites)
                        /\ world.suites[at.suite] \in Nat /\ at.task \in Nat
                        /\ at.task <= world.suites[at.suite]
<1>1. /\ processes \in 0..world.processes /\ signals \in 0..world.signals
      /\ world.processes \in Nat /\ world.signals \in Nat /\ world.reps \in Nat
      /\ side \in 1..world.sides /\ world.sides \in 1..2 /\ tries \in 0..2
      /\ relaunched \in BOOLEAN /\ at.rep \in 1..world.reps
  BY WorldFacts DEF TypeOK, FlagsOK, Place
<1>2. ASSUME AtTask
      PROVE  /\ at.suite \in 1..Len(world.suites) /\ Len(world.suites) \in Nat
             /\ world.suites[at.suite] \in Nat /\ at.task \in 1..world.suites[at.suite]
  BY <1>2, WorldFacts DEF AtIsWanted
<1>3. QED
  BY <1>1, <1>2

(* A suite has finitely many tuples.                                       *)
LEMMA RemainingFinite ==
    ASSUME TypeOK
    PROVE  IsFiniteSet(Remaining) /\ Cardinality(Remaining) \in Nat
<1>1. CASE at.suite \notin Suites
  <2>1. Remaining = {}
    BY <1>1, WantedIs DEF Remaining
  <2>2. QED
    BY <2>1, FS_EmptySet
<1>2. CASE at.suite \in Suites
  <2> DEFINE pairs == (1..world.suites[at.suite]) \X (1..world.reps)
             pair == [k \in Remaining |-> <<k.task, k.rep>>]
  <2>1. world.suites[at.suite] \in Nat /\ world.reps \in Nat
    BY <1>2, WorldFacts
  <2>2. IsFiniteSet(1..world.suites[at.suite]) /\ IsFiniteSet(1..world.reps)
    <3>1. PICK n \in Nat, r \in Nat : n = world.suites[at.suite] /\ r = world.reps
      BY <2>1
    <3>2. 1 \in Int /\ n \in Int /\ r \in Int
      OBVIOUS
    <3>3. IsFiniteSet(1..n) /\ IsFiniteSet(1..r)
      BY <3>2, FS_Interval
    <3>4. QED
      BY <3>1, <3>3
  <2>3. IsFiniteSet(pairs)
    BY <2>2, FS_Product
  <2>4. \A k \in Remaining :
            /\ k.task \in 1..world.suites[at.suite] /\ k.rep \in 1..world.reps
            /\ k = [side |-> side, suite |-> at.suite, task |-> k.task, rep |-> k.rep]
    BY WantedIs DEF Remaining
  <2>5. pair \in Injection(Remaining, pairs)
    BY <2>4 DEF Injection, IsInjective
  <2>6. QED
    BY <2>3, <2>5, FS_Injection, FS_CardinalityType
<1>3. QED
  BY <1>1, <1>2

(* A height is nine numbers.                                               *)
LEMMA HeightIsNat ==
    ASSUME TypeOK, AtIsWanted
    PROVE  HeightOK
<1>1. Coming \in Nat /\ Life \in Nat
  BY Sizes DEF Coming, Life
<1>2. Leg \in Nat
  BY Sizes DEF Leg
<1>3. SuitesLeft \in Nat /\ TasksLeft \in Nat /\ RepsLeft \in Nat
  BY Sizes DEF SuitesLeft, TasksLeft, RepsLeft
<1>4. Launches \in Nat
  <2>1. tries \in 0..2 /\ relaunched \in BOOLEAN
    BY Sizes
  <2>2. (2 - tries) * 5 \in Nat
    BY <2>1
  <2>3. QED
    BY <2>2 DEF Launches
<1>5. Turn \in Nat /\ Chores \in Nat
  BY RemainingFinite DEF Turn, Chores
<1>6. QED
  BY <1>1, <1>2, <1>3, <1>4, <1>5 DEF HeightOK

(* What a step of the process itself leaves of the two uppermost parts.    *)
LEMMA WorkInLife ==
    ASSUME TypeOK, AtIsWanted, TypeOK', Work
    PROVE  /\ Coming' = Coming
           /\ Life' < Life \/ (Life' = Life /\ pc \notin Over /\ pc' \notin Over)
<1>1. pc \notin Over
  BY DEF Over, Work, EnterSide, Spawn, Guard, Ready, NotReady, Unstartable, ReuseGrade, SkipTuple,
         Drive, Asks, Unavailable, Revive, RecordGrade, Abandon, EndTask, EndSuite, LeaveSide,
         Terminate, Reap, Join, AfterSide, Perplexity, Settle, Unwind, Phase4
<1>2. UNCHANGED life
  BY DEF Work, EnterSide, Spawn, Guard, Ready, NotReady, Unstartable, ReuseGrade, SkipTuple, Drive,
         Unavailable, Revive, RecordGrade, Abandon, EndTask, EndSuite, LeaveSide, Terminate,
         Reap, Join, AfterSide, Perplexity, Settle, Unwind, Phase4
<1>3. QED
  BY <1>1, <1>2, Sizes DEF life, Coming, Life

(* Where the process is in a suite, and how far the launches have come.    *)
LEMMA InSuite ==
    ASSUME AtTask
    PROVE  /\ Leg = (2 - side) * 6 + 9
           /\ SuitesLeft = Len(world.suites) - at.suite
           /\ TasksLeft = world.suites[at.suite] - at.task
           /\ RepsLeft = world.reps - at.rep
           /\ ~Launching => Launches = IF relaunched THEN 0 ELSE 16
BY DEF AtTask, Launching, Losing, Leg, SuitesLeft, TasksLeft, RepsLeft, Launches, Over

LEMMA NextInSuite ==
    ASSUME AtTask'
    PROVE  /\ Leg' = (2 - side') * 6 + 9
           /\ SuitesLeft' = Len(world'.suites) - at'.suite
           /\ TasksLeft' = world'.suites[at'.suite] - at'.task
           /\ RepsLeft' = world'.reps - at'.rep
           /\ ~Launching' => Launches' = IF relaunched' THEN 0 ELSE 16
BY DEF AtTask, Launching, Losing, Leg, SuitesLeft, TasksLeft, RepsLeft, Launches, Over

(* The same tuple at hand.                                                 *)
LEMMA SameTuple ==
    ASSUME TypeOK, AtIsWanted, AtTask, AtTask', UNCHANGED <<world, side, at>>
    PROVE  /\ Leg' = Leg /\ SuitesLeft' = SuitesLeft
           /\ TasksLeft' = TasksLeft /\ RepsLeft' = RepsLeft
BY InSuite, NextInSuite

(* The next repetition, or the end of a task.                              *)
LEMMA NextRepFalls ==
    ASSUME TypeOK, AtIsWanted, TypeOK', pc \in {"rep", "record"}, NextRep,
           UNCHANGED <<world, side, relaunched>>
    PROVE  FallsInProcess
<1>1. AtTask /\ AtTask' /\ ~Launching /\ ~Launching'
  BY DEF NextRep, AtTask, Launching
<1>2. CASE at' = [at EXCEPT !.rep = @ + 1]
  <2>1. at'.suite = at.suite /\ at'.task = at.task /\ at'.rep = at.rep + 1
    BY <1>2 DEF TypeOK, Place
  <2>2. Leg' = Leg /\ SuitesLeft' = SuitesLeft /\ Launches' = Launches /\ TasksLeft' = TasksLeft
    BY <1>1, <2>1, InSuite, NextInSuite
  <2>3. RepsLeft' < RepsLeft
    BY <1>1, <2>1, InSuite, NextInSuite, Sizes
  <2>4. QED
    BY <2>2, <2>3 DEF FallsInProcess, FallsInSuite
<1>3. CASE pc' = "task" /\ UNCHANGED at
  <2>1. Leg' = Leg /\ SuitesLeft' = SuitesLeft /\ TasksLeft' = TasksLeft /\ RepsLeft' = RepsLeft
    BY <1>1, <1>3, SameTuple
  <2>2. Launches' = Launches
    BY <1>1, InSuite, NextInSuite
  <2>3. Turn' < Turn
    BY <1>3 DEF Turn
  <2>4. QED
    BY <2>1, <2>2, <2>3 DEF FallsInProcess, FallsInSuite, FallsInTuple
<1>4. QED
  BY <1>2, <1>3 DEF NextRep

(* Another place within the tuple, its launches behind it.                 *)
LEMMA TurnFalls ==
    ASSUME TypeOK, AtIsWanted, AtTask, AtTask', ~Launching, ~Launching',
           UNCHANGED <<world, side, at, relaunched>>,
           Turn' < Turn \/ (Turn' = Turn /\ Chores' < Chores)
    PROVE  FallsInProcess
<1>1. Leg' = Leg /\ SuitesLeft' = SuitesLeft /\ TasksLeft' = TasksLeft /\ RepsLeft' = RepsLeft
  BY SameTuple
<1>2. Launches' = Launches
  BY InSuite, NextInSuite
<1>3. QED
  BY <1>1, <1>2 DEF FallsInProcess, FallsInSuite, FallsInTuple

(* Another place within a launch, or the end of it.                        *)
LEMMA LaunchFalls ==
    ASSUME TypeOK, AtIsWanted, AtTask, AtTask', UNCHANGED <<world, side, at>>,
           Launches' < Launches
    PROVE  FallsInProcess
BY SameTuple DEF FallsInProcess, FallsInSuite

LEMMA LaunchSteps ==
    ASSUME TypeOK, AtIsWanted, TypeOK',
           Spawn \/ Guard \/ Ready \/ NotReady \/ Unstartable \/ Revive
    PROVE  FallsInProcess
<1> USE DEF life, record, place, verdicts
<1>1. /\ tries \in 0..2 /\ tries' \in 0..2 /\ relaunched \in BOOLEAN /\ relaunched' \in BOOLEAN
      /\ side \in 1..2
  BY Sizes DEF TypeOK, FlagsOK
<1>2. CASE Spawn
  <2>1. AtTask /\ AtTask' /\ UNCHANGED <<world, side, at>>
    BY <1>2 DEF Spawn, AtTask, Launching
  <2>2. Launches' < Launches
    BY <1>1, <1>2, <2>1 DEF Spawn, Launches
  <2>3. QED
    BY <2>1, <2>2, LaunchFalls
<1>31. CASE Guard
  <2>1. AtTask /\ AtTask' /\ UNCHANGED <<world, side, at>>
    BY <1>31 DEF Guard, AtTask, Launching
  <2>2. Launches' < Launches
    BY <1>1, <1>31, <2>1 DEF Guard, Launches
  <2>3. QED
    BY <2>1, <2>2, LaunchFalls
<1>3. CASE Ready
  <2>1. AtTask /\ AtTask' /\ UNCHANGED <<world, side, at>>
    BY <1>3 DEF Ready, AtTask, Launching
  <2>2. Launches' < Launches
    BY <1>1, <1>3, <2>1 DEF Ready, Launches
  <2>3. QED
    BY <2>1, <2>2, LaunchFalls
<1>4. CASE NotReady
  <2>1. AtTask /\ AtTask' /\ UNCHANGED <<world, side, at>>
    BY <1>4 DEF NotReady, Stopping, AtTask, Launching
  <2>2. Launches' < Launches
    BY <1>1, <1>4, <2>1 DEF NotReady, Stopping, Launches
  <2>3. QED
    BY <2>1, <2>2, LaunchFalls
<1>5. CASE Unstartable
  <2>1. CASE pc' = "phase4"
    <3>1. Leg' = 1
      BY <2>1 DEF Leg, Over
    <3>2. AtTask
      BY <1>5 DEF Unstartable, AtTask, Launching
    <3>3. QED
      BY <1>1, <3>1, <3>2, InSuite DEF FallsInProcess
  <2>2. CASE pc' # "phase4"
    <3>1. AtTask /\ AtTask' /\ UNCHANGED <<world, side, at>>
      BY <1>5, <2>2 DEF Unstartable, AtTask, Launching
    <3>2. Launches' < Launches
      BY <1>1, <1>5, <2>2, <3>1 DEF Unstartable, Launches
    <3>3. QED
      BY <3>1, <3>2, LaunchFalls
  <2>3. QED
    BY <2>1, <2>2
<1>6. CASE Revive
  <2>1. AtTask /\ AtTask' /\ UNCHANGED <<world, side, at>>
    BY <1>6 DEF Revive, AtTask, Launching, Losing
  <2>2. CASE MayRelaunch
    <3>1. Launches' < Launches
      BY <1>1, <1>6, <2>1, <2>2 DEF Revive, MayRelaunch, Launches
    <3>2. QED
      BY <2>1, <3>1, LaunchFalls
  <2>3. CASE ~MayRelaunch
    <3>1. ~Launching /\ ~Launching' /\ UNCHANGED relaunched /\ Turn' < Turn
      BY <1>6, <2>3 DEF Revive, Launching, Turn
    <3>2. QED
      BY <2>1, <3>1, TurnFalls
  <2>4. QED
    BY <2>2, <2>3
<1>7. QED
  BY <1>2, <1>3, <1>31, <1>4, <1>5, <1>6

LEMMA TupleSteps ==
    ASSUME TypeOK, AtIsWanted, TypeOK',
           \/ ReuseGrade \/ SkipTuple \/ Unavailable \/ RecordGrade \/ Abandon
           \/ \E status \in {"graded", "error"} : Drive(status)
    PROVE  FallsInProcess
<1> USE DEF life, record, place, verdicts
<1>1. CASE ReuseGrade
  BY <1>1, NextRepFalls DEF ReuseGrade
<1>2. CASE SkipTuple
  BY <1>2, NextRepFalls DEF SkipTuple
<1>3. CASE \E status \in {"graded", "error"} : Drive(status)
  <2>1. pc = "rep" /\ pc' = "record" /\ UNCHANGED <<world, side, at, relaunched>>
    BY <1>3 DEF Drive, Asks
  <2>2. AtTask /\ AtTask' /\ ~Launching /\ ~Launching' /\ Turn' < Turn
    BY <2>1 DEF AtTask, Launching, Turn
  <2>3. QED
    BY <2>1, <2>2, TurnFalls
<1>4. CASE Unavailable
  <2>1. /\ pc = "rep" /\ pc' = "stop" /\ from' = "death"
        /\ UNCHANGED <<world, side, at, relaunched>>
    BY <1>4 DEF Unavailable, Asks, PutAway, Stopping
  <2>2. AtTask /\ AtTask' /\ ~Launching /\ ~Launching' /\ Turn' < Turn
    BY <2>1 DEF AtTask, Launching, Losing, Turn
  <2>3. QED
    BY <2>1, <2>2, TurnFalls
<1>5. CASE RecordGrade
  <2>1. pc = "record" /\ UNCHANGED <<world, side, relaunched>>
    BY <1>5 DEF RecordGrade
  <2>2. CASE NextRep
    BY <2>1, <2>2, NextRepFalls
  <2>3. CASE pc' \in {"abandon", "task"} /\ UNCHANGED at
    <3>1. AtTask /\ AtTask' /\ ~Launching /\ ~Launching' /\ Turn' < Turn
      BY <2>1, <2>3 DEF AtTask, Launching, Turn
    <3>2. QED
      BY <2>1, <2>3, <3>1, TurnFalls
  <2>4. QED
    BY <1>5, <2>2, <2>3 DEF RecordGrade
<1>6. CASE Abandon
  <2>1. pc = "abandon" /\ UNCHANGED <<world, side, at, relaunched>>
    BY <1>6 DEF Abandon
  <2>2. CASE Remaining = {}
    <3>1. pc' = "suite"
      BY <1>6, <2>2 DEF Abandon
    <3>2. AtTask /\ AtTask' /\ ~Launching /\ ~Launching' /\ Turn' < Turn
      BY <2>1, <3>1 DEF AtTask, Launching, Turn
    <3>3. QED
      BY <2>1, <3>2, TurnFalls
  <2>3. CASE Remaining # {}
    <3>1. PICK k \in Remaining : prior' = prior \cup {k} /\ pc' = "abandon"
      BY <1>6, <2>1, <2>3 DEF Abandon, Grade
    <3>2. Remaining' = Remaining \ {k}
      BY <2>1, <3>1 DEF Remaining, Wanted, Suites
    <3>3. /\ Cardinality(Remaining \ {k}) = Cardinality(Remaining) - 1
          /\ Cardinality(Remaining) \in Nat
      BY <3>1, RemainingFinite, FS_RemoveElement
    <3>4. Chores' < Chores /\ Turn' = Turn
      BY <2>1, <3>1, <3>2, <3>3 DEF Chores, Turn
    <3>5. AtTask /\ AtTask' /\ ~Launching /\ ~Launching'
      BY <2>1, <3>1 DEF AtTask, Launching
    <3>6. QED
      BY <2>1, <3>4, <3>5, TurnFalls
  <2>4. QED
    BY <2>2, <2>3
<1>7. QED
  BY <1>1, <1>2, <1>3, <1>4, <1>5, <1>6

LEMMA SuiteSteps ==
    ASSUME TypeOK, AtIsWanted, TypeOK', AtIsWanted', EnterSide \/ EndTask \/ EndSuite \/ LeaveSide
    PROVE  FallsInProcess
<1> USE DEF life, record, place, verdicts
<1>1. side \in 1..2 /\ side' \in 1..2
  <2>1. world' = world
    BY DEF EnterSide, EndTask, EndSuite, LeaveSide
  <2>2. world.sides \in 1..2 /\ side \in 1..world.sides /\ side' \in 1..world.sides
    BY <2>1, WorldFacts DEF TypeOK
  <2>3. QED
    BY <2>2
<1>2. CASE EnterSide
  <2>1. pc = "side" /\ side' = side /\ pc' \in {"left", "rep", "spawn"}
    BY <1>2 DEF EnterSide
  <2>2. Leg = (2 - side) * 6 + 10
    BY <2>1 DEF Leg, Over
  <2>3. Leg' \in {(2 - side) * 6 + 6, (2 - side) * 6 + 9}
    BY <2>1 DEF Leg, Over
  <2>4. QED
    BY <1>1, <2>2, <2>3 DEF FallsInProcess
<1>3. CASE EndTask
  <2>1. pc = "task" /\ UNCHANGED <<world, side, relaunched>>
    BY <1>3 DEF EndTask
  <2>2. CASE pc' = "suite" /\ UNCHANGED at
    <3>1. AtTask /\ AtTask' /\ ~Launching /\ ~Launching' /\ Turn' < Turn
      BY <2>1, <2>2 DEF AtTask, Launching, Turn
    <3>2. QED
      BY <2>1, <2>2, <3>1, TurnFalls
  <2>3. CASE pc' = "rep" /\ at' = [at EXCEPT !.task = @ + 1, !.rep = 1]
    <3>1. at'.suite = at.suite /\ at'.task = at.task + 1
      BY <2>3 DEF TypeOK, Place
    <3>2. AtTask /\ AtTask' /\ ~Launching /\ ~Launching'
      BY <2>1, <2>3 DEF AtTask, Launching
    <3>3. Leg' = Leg /\ SuitesLeft' = SuitesLeft /\ Launches' = Launches
      BY <2>1, <3>1, <3>2, InSuite, NextInSuite
    <3>4. TasksLeft' < TasksLeft
      BY <2>1, <3>1, <3>2, InSuite, NextInSuite, Sizes
    <3>5. QED
      BY <3>3, <3>4 DEF FallsInProcess, FallsInSuite
  <2>4. QED
    BY <1>3, <2>2, <2>3 DEF EndTask
<1>4. CASE EndSuite
  <2>1. pc = "suite" /\ UNCHANGED <<world, side>> /\ AtTask
    BY <1>4 DEF EndSuite, AtTask
  <2>2. Leg = (2 - side) * 6 + 9
    BY <2>1, InSuite
  <2>3. CASE pc' = "leave"
    <3>1. Leg' = (2 - side) * 6 + 8
      BY <2>1, <2>3 DEF Leg, Over
    <3>2. QED
      BY <1>1, <2>2, <3>1 DEF FallsInProcess
  <2>4. CASE pc' = "rep" /\ at' = [suite |-> at.suite + 1, task |-> 1, rep |-> 1]
    <3>1. AtTask' /\ at'.suite = at.suite + 1
      BY <2>4 DEF AtTask
    <3>2. Leg' = Leg /\ SuitesLeft' < SuitesLeft
      BY <2>1, <3>1, InSuite, NextInSuite, Sizes
    <3>3. QED
      BY <3>2 DEF FallsInProcess
  <2>5. QED
    BY <1>4, <2>3, <2>4 DEF EndSuite
<1>5. CASE LeaveSide
  <2>1. pc = "leave" /\ side' = side /\ (pc' = "left" \/ (pc' = "stop" /\ from' = "side"))
    BY <1>5 DEF LeaveSide, Stopping
  <2>2. Leg = (2 - side) * 6 + 8
    BY <2>1 DEF Leg, Over
  <2>3. Leg' \in {(2 - side) * 6 + 6, (2 - side) * 6 + 7}
    BY <2>1 DEF Leg, Over
  <2>4. QED
    BY <1>1, <2>2, <2>3 DEF FallsInProcess
<1>6. QED
  BY <1>2, <1>3, <1>4, <1>5

LEMMA StopSteps ==
    ASSUME TypeOK, Untended, AtIsWanted, TypeOK', Terminate \/ Reap
    PROVE  FallsInProcess
<1> USE DEF life, record, place, verdicts
<1>1. /\ side \in 1..2 /\ tries \in 0..2 /\ relaunched \in BOOLEAN
      /\ from \in Callers \ {"nobody"}
  BY Sizes DEF TypeOK, Untended, Over, Terminate, Reap
<1>2. pc = "stop" /\ UNCHANGED <<world, side, at, relaunched, tries, from>>
  BY DEF Terminate, Reap
<1>3. CASE Terminate
  <2>1. pc' = pc /\ Chores' < Chores
    BY <1>2, <1>3 DEF Terminate, Chores
  <2>2. Leg' = Leg
    BY <1>2, <2>1 DEF Leg
  <2>3. AtTask' <=> AtTask
    BY <1>2, <2>1 DEF AtTask, Launching, Losing
  <2>4. SuitesLeft' = SuitesLeft /\ TasksLeft' = TasksLeft /\ RepsLeft' = RepsLeft
    BY <1>2, <2>3 DEF SuitesLeft, TasksLeft, RepsLeft
  <2>5. Launches' = Launches
    BY <1>2, <2>1, <2>3 DEF Launches
  <2>6. Turn' = Turn
    BY <1>2, <2>1 DEF Turn
  <2>7. QED
    BY <2>1, <2>2, <2>4, <2>5, <2>6 DEF FallsInProcess, FallsInSuite, FallsInTuple
<1>4. CASE Reap
  <2>1. pc' = AfterStop
    BY <1>4 DEF Reap
  <2>2. CASE pc' = "unwind"
    <3>1. Leg' = 2
      BY <2>2 DEF Leg, Over
    <3>2. from \in {"side", "outer"} => Leg \in {4, (2 - side) * 6 + 7}
      BY <1>2 DEF Leg, Over
    <3>3. from \in {"start", "death"} => Leg = (2 - side) * 6 + 9
      BY <1>2, InSuite DEF AtTask, Launching, Losing
    <3>4. QED
      BY <1>1, <3>1, <3>2, <3>3 DEF FallsInProcess, Callers
  <2>3. CASE from = "start" /\ pc' = "unstartable"
    <3>1. AtTask /\ AtTask'
      BY <1>2, <2>3 DEF AtTask, Launching
    <3>2. Launches' < Launches
      BY <1>1, <1>2, <2>3, <3>1 DEF Launches
    <3>3. QED
      BY <1>2, <3>1, <3>2, LaunchFalls
  <2>4. CASE from = "death" /\ pc' = "revived"
    <3>1. AtTask /\ AtTask' /\ ~Launching /\ ~Launching' /\ Turn' < Turn
      BY <1>2, <2>4 DEF AtTask, Launching, Losing, Turn
    <3>2. QED
      BY <1>2, <3>1, TurnFalls
  <2>5. CASE from = "side" /\ pc' = "left"
    <3>1. Leg = (2 - side) * 6 + 7
      BY <1>2, <2>5 DEF Leg, Over
    <3>2. Leg' = (2 - side) * 6 + 6
      BY <1>2, <2>5 DEF Leg, Over
    <3>3. QED
      BY <1>1, <3>1, <3>2 DEF FallsInProcess
  <2>6. QED
    BY <1>1, <2>1, <2>2, <2>3, <2>4, <2>5 DEF AfterStop, Callers
<1>5. QED
  BY <1>3, <1>4

\* A process that unwinds has no server to stop but one that start has left or
\* lost.
LEMMA OutwardSteps ==
    ASSUME TypeOK, AtIsWanted, TypeOK', ServerInv, pc' \notin Over,
           \/ Join \/ AfterSide \/ Settle \/ Unwind \/ Phase4
           \/ \E usable \in BOOLEAN : Perplexity(usable)
    PROVE  FallsInProcess
<1> USE DEF life, record, place, verdicts
<1>1. side \in 1..2 /\ side' \in 1..2
  <2>1. world' = world
    BY DEF Join, AfterSide, Settle, Unwind, Phase4, Perplexity
  <2>2. world.sides \in 1..2 /\ side \in 1..world.sides /\ side' \in 1..world.sides
    BY <2>1, WorldFacts DEF TypeOK
  <2>3. QED
    BY <2>2
<1>2. CASE Join
  <2>1. pc = "join" /\ pc' = "unwind"
    BY <1>2 DEF Join, Over
  <2>2. Leg = 3
    BY <2>1 DEF Leg, Over
  <2>3. Leg' = 2
    BY <2>1 DEF Leg, Over
  <2>4. QED
    BY <2>2, <2>3 DEF FallsInProcess
<1>3. CASE AfterSide
  <2>1. /\ pc = "left"
        /\ \/ pc' \in {"perplexity", "settle"} /\ side' = side
           \/ pc' = "side" /\ side' = side + 1
    BY <1>3 DEF AfterSide
  <2>2. Leg = (2 - side) * 6 + 6
    BY <2>1 DEF Leg, Over
  <2>3. Leg' \in {(2 - side) * 6 + 5, 2, (2 - side') * 6 + 10}
    BY <2>1 DEF Leg, Over
  <2>4. pc' = "side" => Leg' = (2 - side') * 6 + 10
    BY DEF Leg, Over
  <2>5. pc' # "side" => Leg' \in {(2 - side) * 6 + 5, 2}
    BY <2>1 DEF Leg, Over
  <2>6. QED
    BY <1>1, <2>1, <2>2, <2>4, <2>5 DEF FallsInProcess
<1>4. CASE \E usable \in BOOLEAN : Perplexity(usable)
  <2>1. /\ pc = "perplexity"
        /\ (pc' = "settle" /\ side' = side) \/ (pc' = "side" /\ side' = side + 1)
    BY <1>4 DEF Perplexity
  <2>2. Leg = (2 - side) * 6 + 5
    BY <2>1 DEF Leg, Over
  <2>3. pc' = "side" => Leg' = (2 - side') * 6 + 10
    BY DEF Leg, Over
  <2>4. pc' = "settle" => Leg' = 2
    BY DEF Leg, Over
  <2>5. QED
    BY <1>1, <2>1, <2>2, <2>3, <2>4 DEF FallsInProcess
<1>5. CASE Settle \/ Unwind
  <2>1. pc \in {"settle", "unwind"} /\ pc' = "phase4"
    BY <1>5 DEF Settle, Unwind, ServerInv
  <2>2. Leg = 2
    BY <2>1 DEF Leg, Over
  <2>3. Leg' = 1
    BY <2>1 DEF Leg, Over
  <2>4. QED
    BY <2>2, <2>3 DEF FallsInProcess
<1>6. CASE Phase4
  BY <1>6 DEF Phase4, Over
<1>7. QED
  BY <1>2, <1>3, <1>4, <1>5, <1>6

(***************************************************************************)
(* A run comes to rest: every step, of the process, of those who signal    *)
(* it, of whatever crashes it or resumes it, lowers its height, and there  *)
(* is no infinite descent from any height.  A server may die at every      *)
(* request: relaunches are counted out.                                    *)
(***************************************************************************)
THEOREM RunDescends == Spec => [][Descends]_vars
<1>1. ASSUME Inv, Inv', Begin
      PROVE  Falls
  <2>1. processes' = processes + 1 /\ world' = world
    BY <1>1 DEF Begin
  <2>2. QED
    BY <1>1, <2>1, Sizes DEF Inv, Coming, Falls
<1>2. ASSUME Inv, Inv', Work
      PROVE  Falls
  <2>1. Coming' = Coming /\ (Life' < Life \/ (Life' = Life /\ pc' \notin Over))
    BY <1>2, WorkInLife DEF Inv
  <2>2. CASE Life' = Life /\ pc' \notin Over
    <3>1. FallsInProcess
      BY <1>2, <2>2, LaunchSteps, TupleSteps, SuiteSteps, StopSteps, OutwardSteps DEF Inv, Work
    <3>2. QED
      BY <2>1, <2>2, <3>1 DEF Falls
  <2>3. QED
    BY <2>1, <2>2 DEF Falls
<1>3. ASSUME Inv, Inv', FirstSignal \/ LaterSignal \/ SignalToPhase4
      PROVE  Falls
  <2>1. UNCHANGED <<world, processes>> /\ signals' = signals + 1
    BY <1>3 DEF FirstSignal, LaterSignal, SignalToPhase4, Signalled
  <2>2. pc \notin Over
    BY <1>3 DEF FirstSignal, LaterSignal, SignalToPhase4, Working, Over
  <2>3. signals \in Nat /\ signals' <= world.signals /\ world.signals \in Nat
    BY <1>3, <2>1, WorldFacts DEF Inv, TypeOK
  <2>4. Coming' = Coming /\ Life' < Life
    BY <2>1, <2>2, <2>3 DEF Coming, Life
  <2>5. QED
    BY <2>4 DEF Falls
<1>4. ASSUME Inv, Inv', Crash
      PROVE  Falls
  <2>1. UNCHANGED <<world, processes>> /\ pc \notin Over /\ pc' \in Over
    BY <1>4 DEF Crash, Over
  <2>2. Coming' = Coming /\ Life' < Life
    BY <1>4, <2>1, Sizes DEF Inv, Coming, Life
  <2>3. QED
    BY <2>2 DEF Falls
<1>5. Inv => HeightOK
  BY HeightIsNat DEF Inv
<1>6. Inv /\ Inv' /\ HeightOK /\ HeightOK' /\ [Next]_vars => [Descends]_vars
  BY <1>1, <1>2, <1>3, <1>4, FallsInOrder DEF Next, Descends
<1>7. QED
  BY <1>5, <1>6, Inductive, PTL DEF Spec
=============================================================================
