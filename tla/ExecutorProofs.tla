--------------------------- MODULE ExecutorProofs ---------------------------
(***************************************************************************)
(* What Executor's run checks on 64 children, for any child, any capture   *)
(* and pipe size and any number of interrupts: a result is complete, and   *)
(* the child is reaped unless a second interrupt comes, or one before the  *)
(* try block.                                                              *)
(***************************************************************************)
EXTENDS Executor, TLAPS, WellFoundedInduction

\* What was written and has not been drained is in the pipe; what was drained
\* is in the capture, which is full before it leaves anything out.
Accounted(s) ==
    /\ reader[s] = "captured" => pipe[s] = 0
    /\ reader[s] # "failed" /\ s \notin truncated => written[s] = kept[s] + pipe[s]
    /\ reader[s] # "failed" /\ s \in truncated => kept[s] = Cap /\ written[s] > Cap + pipe[s]

AllAccounted == \A s \in Streams : Accounted(s)

Finished(s) == reader[s] \in {"captured", "failed"}

\* The threads are joined in order, and run returns only if none of them failed.
JoinInv ==
    /\ main = "stderr" => Finished("stdout")
    /\ main = "returned" => \A s \in Streams : reader[s] = "captured"

\* The calling thread joins only after it has reaped; what an interrupt cuts off
\* before that is either the start or a wait that an interrupt had begun.
ReapInv ==
    /\ main = "spawned" => reader["stdout"] = "unstarted"
    /\ main \in {"spawned", "starting"} => reader["stderr"] = "unstarted"
    /\ unwinding => interrupts >= 1
    /\ main \in Streams \cup {"returned", "failed"} => reaped
    /\ main = "raised" /\ ~reaped => interrupts >= 2

Inv ==
    /\ TypeOK
    /\ AllAccounted
    /\ JoinInv
    /\ ReapInv

----------------------------------------------------------------------------
(* The Boolean variables, in a lemma of their own: Zenon proves it.        *)
LEMMA FlagsInductive == FlagsOK /\ [Next]_vars => FlagsOK'
<1> SUFFICES ASSUME FlagsOK, [Next]_vars
             PROVE  FlagsOK'
  OBVIOUS
<1> USE DEF FlagsOK
<1>1. CASE \E s \in Streams : LeaderWrites(s)
  BY <1>1, Zenon DEF LeaderWrites, Readable, caller
<1>2. CASE \E p \in Procs : ProcessEnds(p)
  BY <1>2, Zenon DEF ProcessEnds, caller
<1>3. CASE \E s \in Streams : Drain(s)
  BY <1>3, Zenon DEF Drain, Room, caller
<1>4. CASE \E s \in Streams : Captured(s)
  BY <1>4, Zenon DEF Captured, EndOfFile, caller
<1>5. CASE \E s \in Streams : CaptureFails(s)
  BY <1>5, Zenon DEF CaptureFails, caller
<1>6. CASE EnterTry \/ \E s \in Streams : StartReader(s)
  BY <1>6, Zenon DEF EnterTry, StartReader, caller
<1>7. CASE LeaderSeen
  BY <1>7, Zenon DEF LeaderSeen, Reap, caller
<1>8. CASE Timeout
  BY <1>8, Zenon DEF Timeout, caller
<1>9. CASE EndsInGrace
  BY <1>9, Zenon DEF EndsInGrace, Reap, caller
<1>10. CASE GraceExpires
  BY <1>10, Zenon DEF GraceExpires, Killed, caller
<1>11. CASE WaitAgain
  BY <1>11, Zenon DEF WaitAgain, Reap, caller
<1>12. CASE \E s \in Streams : Join(s)
  BY <1>12, Zenon DEF Join, Outcome, caller
<1>13. CASE Interrupt
  BY <1>13, Zenon DEF Interrupt, Guarded, caller
<1>14. CASE UNCHANGED vars
  BY <1>14, Zenon DEF vars, caller
<1>15. QED
  BY <1>1, <1>2, <1>3, <1>4, <1>5, <1>6, <1>7, <1>8, <1>9, <1>10, <1>11, <1>12, <1>13, <1>14 DEF
       Next, Environment, ReaderStep, Caller, Over

(* TypeOK is inductive as it stands.                                       *)
LEMMA TypeInductive == TypeOK /\ [Next]_vars => TypeOK'
<1> SUFFICES ASSUME TypeOK, [Next]_vars
             PROVE  TypeOK'
  OBVIOUS
<1>a. FlagsOK'
  BY FlagsInductive DEF TypeOK
<1> USE <1>a, StreamsAssumption, SizesAssumption DEF TypeOK, Done, Unprotected
<1>1. CASE \E s \in Streams : LeaderWrites(s)
  BY <1>1 DEF LeaderWrites, Readable, caller, output, captures
<1>2. CASE \E p \in Procs : ProcessEnds(p)
  BY <1>2 DEF ProcessEnds, caller, output, captures
<1>3. CASE \E s \in Streams : Drain(s)
  <2>1. PICK s \in Streams : Drain(s)
    BY <1>3
  <2>2. pipe' \in [Streams -> 0..PipeSize]
    BY <2>1 DEF Drain
  <2>3. kept' \in [Streams -> 0..Cap]
    BY <2>1 DEF Drain, Room
  <2>4. truncated' \subseteq Streams
    BY <2>1 DEF Drain
  <2>5. QED
    BY <2>1, <2>2, <2>3, <2>4 DEF Drain, caller
<1>4. CASE \E s \in Streams : Captured(s)
  BY <1>4 DEF Captured, EndOfFile, caller, output, captures
<1>5. CASE \E s \in Streams : CaptureFails(s)
  BY <1>5 DEF CaptureFails, caller, output, captures
<1>6. CASE EnterTry \/ \E s \in Streams : StartReader(s)
  BY <1>6 DEF EnterTry, StartReader, caller, output, captures
<1>7. CASE LeaderSeen
  BY <1>7 DEF LeaderSeen, Reap, caller, output, captures
<1>8. CASE Timeout
  BY <1>8 DEF Timeout, caller, output, captures
<1>9. CASE EndsInGrace
  BY <1>9 DEF EndsInGrace, Reap, caller, output, captures
<1>10. CASE GraceExpires
  BY <1>10 DEF GraceExpires, Killed, caller, output, captures
<1>11. CASE WaitAgain
  BY <1>11 DEF WaitAgain, Reap, caller, output, captures
<1>12. CASE \E s \in Streams : Join(s)
  BY <1>12 DEF Join, Outcome, caller, output, captures
<1>13. CASE Interrupt
  <2>1. main' \in {"grace", "raised", "abandoned"} /\ signals' \subseteq {"term", "kill"}
    <3>1. CASE Guarded
      BY <1>13, <3>1 DEF Interrupt
    <3>2. CASE ~Guarded
      BY <1>13, <3>2 DEF Interrupt
    <3>3. QED
      BY <3>1, <3>2
  <2>2. QED
    BY <1>13, <2>1 DEF Interrupt, output, captures
<1>14. CASE UNCHANGED vars
  BY <1>14 DEF vars, caller, output, captures
<1>15. QED
  BY <1>1, <1>2, <1>3, <1>4, <1>5, <1>6, <1>7, <1>8, <1>9, <1>10, <1>11, <1>12, <1>13, <1>14 DEF
       Next, Environment, ReaderStep, Caller, Over

(* No chunk is lost between the child and its capture: the threads drain   *)
(* to the end of file, and past the cap only what truncated admits is      *)
(* dropped.                                                                *)
LEMMA AccountInductive == TypeOK /\ ReapInv /\ AllAccounted /\ [Next]_vars => AllAccounted'
<1> SUFFICES ASSUME TypeOK, ReapInv, AllAccounted, [Next]_vars
             PROVE  AllAccounted'
  OBVIOUS
<1> USE SizesAssumption DEF TypeOK, Accounted, AllAccounted
<1>1. CASE \E s \in Streams : LeaderWrites(s)
  BY <1>1 DEF LeaderWrites, Readable, caller, output, captures
<1>2. CASE \E p \in Procs : ProcessEnds(p)
  BY <1>2 DEF ProcessEnds, caller, output, captures
<1>3. CASE \E s \in Streams : Drain(s)
  BY <1>3 DEF Drain, Room, caller, output, captures
<1>4. CASE \E s \in Streams : Captured(s)
  BY <1>4 DEF Captured, EndOfFile, caller, output, captures
<1>5. CASE \E s \in Streams : CaptureFails(s)
  BY <1>5 DEF CaptureFails, caller, output, captures
<1>6. CASE EnterTry \/ \E s \in Streams : StartReader(s)
  BY <1>6, StreamsAssumption DEF EnterTry, StartReader, ReapInv, caller, output, captures
<1>7. CASE LeaderSeen
  BY <1>7 DEF LeaderSeen, Reap, caller, output, captures
<1>8. CASE Timeout
  BY <1>8 DEF Timeout, caller, output, captures
<1>9. CASE EndsInGrace
  BY <1>9 DEF EndsInGrace, Reap, caller, output, captures
<1>10. CASE GraceExpires
  BY <1>10 DEF GraceExpires, Killed, caller, output, captures
<1>11. CASE WaitAgain
  BY <1>11 DEF WaitAgain, Reap, caller, output, captures
<1>12. CASE \E s \in Streams : Join(s)
  BY <1>12 DEF Join, Outcome, caller, output, captures
<1>13. CASE Interrupt
  BY <1>13 DEF Interrupt, Guarded, caller, output, captures
<1>14. CASE UNCHANGED vars
  BY <1>14 DEF vars, caller, output, captures
<1>15. QED
  BY <1>1, <1>2, <1>3, <1>4, <1>5, <1>6, <1>7, <1>8, <1>9, <1>10, <1>11, <1>12, <1>13, <1>14 DEF
       Next, Environment, ReaderStep, Caller, Over

(* run returns a result only past both joins.                              *)
LEMMA JoinInductive == TypeOK /\ JoinInv /\ [Next]_vars => JoinInv'
<1> SUFFICES ASSUME TypeOK, JoinInv, [Next]_vars
             PROVE  JoinInv'
  OBVIOUS
<1> USE StreamsAssumption DEF TypeOK, JoinInv, Finished, Done, Unprotected
<1>1. CASE \E s \in Streams : LeaderWrites(s)
  BY <1>1 DEF LeaderWrites, Readable, caller, output, captures
<1>2. CASE \E p \in Procs : ProcessEnds(p)
  BY <1>2 DEF ProcessEnds, caller, output, captures
<1>3. CASE \E s \in Streams : Drain(s)
  BY <1>3 DEF Drain, Room, caller, output, captures
<1>4. CASE \E s \in Streams : Captured(s)
  BY <1>4 DEF Captured, EndOfFile, caller, output, captures
<1>5. CASE \E s \in Streams : CaptureFails(s)
  BY <1>5 DEF CaptureFails, caller, output, captures
<1>6. CASE EnterTry \/ \E s \in Streams : StartReader(s)
  BY <1>6 DEF EnterTry, StartReader, caller, output, captures
<1>7. CASE LeaderSeen
  BY <1>7 DEF LeaderSeen, Reap, caller, output, captures
<1>8. CASE Timeout
  BY <1>8 DEF Timeout, caller, output, captures
<1>9. CASE EndsInGrace
  BY <1>9 DEF EndsInGrace, Reap, caller, output, captures
<1>10. CASE GraceExpires
  BY <1>10 DEF GraceExpires, Killed, caller, output, captures
<1>11. CASE WaitAgain
  BY <1>11 DEF WaitAgain, Reap, caller, output, captures
<1>12. CASE \E s \in Streams : Join(s)
  BY <1>12 DEF Join, Outcome, caller, output, captures
<1>13. CASE Interrupt
  <2>1. CASE Guarded
    BY <1>13, <2>1 DEF Interrupt, Guarded, caller, output, captures
  <2>2. CASE ~Guarded
    BY <1>13, <2>2 DEF Interrupt, Guarded, caller, output, captures
  <2>3. QED
    BY <2>1, <2>2
<1>14. CASE UNCHANGED vars
  BY <1>14 DEF vars, caller, output, captures
<1>15. QED
  BY <1>1, <1>2, <1>3, <1>4, <1>5, <1>6, <1>7, <1>8, <1>9, <1>10, <1>11, <1>12, <1>13, <1>14 DEF
       Next, Environment, ReaderStep, Caller, Over

(* From the start of the threads on, the first interrupt leads through the *)
(* grace, the kill and the wait.                                           *)
LEMMA ReapInductive == TypeOK /\ ReapInv /\ [Next]_vars => ReapInv'
<1> SUFFICES ASSUME TypeOK, ReapInv, [Next]_vars
             PROVE  ReapInv'
  OBVIOUS
<1> USE StreamsAssumption DEF TypeOK, ReapInv, Done, Unprotected
<1>1. CASE \E s \in Streams : LeaderWrites(s)
  BY <1>1 DEF LeaderWrites, Readable, caller, output, captures
<1>2. CASE \E p \in Procs : ProcessEnds(p)
  BY <1>2 DEF ProcessEnds, caller, output, captures
<1>3. CASE \E s \in Streams : Drain(s)
  BY <1>3 DEF Drain, Room, caller, output, captures
<1>4. CASE \E s \in Streams : Captured(s)
  BY <1>4 DEF Captured, EndOfFile, caller, output, captures
<1>5. CASE \E s \in Streams : CaptureFails(s)
  BY <1>5 DEF CaptureFails, caller, output, captures
<1>6. CASE EnterTry \/ \E s \in Streams : StartReader(s)
  BY <1>6 DEF EnterTry, StartReader, caller, output, captures
<1>7. CASE LeaderSeen
  BY <1>7 DEF LeaderSeen, Reap, caller, output, captures
<1>8. CASE Timeout
  BY <1>8 DEF Timeout, caller, output, captures
<1>9. CASE EndsInGrace
  BY <1>9 DEF EndsInGrace, Reap, caller, output, captures
<1>10. CASE GraceExpires
  BY <1>10 DEF GraceExpires, Killed, caller, output, captures
<1>11. CASE WaitAgain
  BY <1>11 DEF WaitAgain, Reap, caller, output, captures
<1>12. CASE \E s \in Streams : Join(s)
  BY <1>12 DEF Join, Outcome, caller, output, captures
<1>13. CASE Interrupt
  <2>1. CASE Guarded
    BY <1>13, <2>1 DEF Interrupt, Guarded, caller, output, captures
  <2>2. CASE ~Guarded
    BY <1>13, <2>2 DEF Interrupt, Guarded, caller, output, captures
  <2>3. QED
    BY <2>1, <2>2
<1>14. CASE UNCHANGED vars
  BY <1>14 DEF vars, caller, output, captures
<1>15. QED
  BY <1>1, <1>2, <1>3, <1>4, <1>5, <1>6, <1>7, <1>8, <1>9, <1>10, <1>11, <1>12, <1>13, <1>14 DEF
       Next, Environment, ReaderStep, Caller, Over

(* The inductive invariant holds in every reachable state.                 *)
LEMMA Inductive == Spec => []Inv
<1>1. Init => Inv
  <2> SUFFICES ASSUME Init
               PROVE  Inv
    OBVIOUS
  <2>1. program \in Program
    BY ProgramsAssumption DEF Init
  <2>2. TypeOK
    <3>1. alive \subseteq Procs /\ program.writes \in [Streams -> Nat]
      BY <2>1 DEF Init, Program, Procs
    <3>2. FlagsOK
      BY DEF Init, FlagsOK
    <3>3. QED
      BY <3>1, <3>2, SizesAssumption DEF Init, TypeOK, Unprotected
  <2>3. AllAccounted
    BY SizesAssumption DEF Init, Accounted, AllAccounted
  <2>4. JoinInv /\ ReapInv
    BY StreamsAssumption DEF Init, JoinInv, ReapInv
  <2>5. QED
    BY <2>2, <2>3, <2>4 DEF Inv
<1>2. Inv /\ [Next]_vars => Inv'
  BY TypeInductive, AccountInductive, JoinInductive, ReapInductive DEF Inv
<1>3. QED
  BY <1>1, <1>2, PTL DEF Spec

(* Types, whatever the child, the capture and the pipes.                   *)
THEOREM TypeCorrect == Spec => []TypeOK
<1>1. Inv => TypeOK
  BY DEF Inv
<1>2. QED
  BY <1>1, Inductive, PTL

(* What run returns is the first Cap chunks of each stream, and says       *)
(* whether there were more, for every child and every order of its         *)
(* processes and the threads.                                              *)
THEOREM CapturesAreComplete == Spec => []CaptureComplete
<1>1. Inv => CaptureComplete
  BY SizesAssumption DEF Inv, TypeOK, Accounted, AllAccounted, JoinInv, CaptureComplete
<1>2. QED
  BY <1>1, Inductive, PTL

(* Whichever way the try block of run is left, the child is reaped, unless *)
(* a second interrupt came.                                                *)
THEOREM ChildIsReaped == Spec => []ReapedDespiteInterrupt
<1>1. Inv => ReapedDespiteInterrupt
  BY StreamsAssumption DEF Inv, TypeOK, ReapInv, ReapedDespiteInterrupt, Done, Unprotected
<1>2. QED
  BY <1>1, Inductive, PTL

----------------------------------------------------------------------------
(* Every step of any thread or process lowers the height of a run, in an   *)
(* order that has no infinite descent.                                     *)

\* Interrupts to come.
Coming == IF interrupts < MaxInterrupts THEN MaxInterrupts - interrupts ELSE 0

\* Where the calling thread stands.
Stage ==
    CASE main = "spawned" -> 8 [] main = "starting" -> 7 [] main = "started" -> 6
      [] main = "waiting" -> 5 [] main = "grace" -> 4
      [] main = "reaping" -> 3 [] main = "stdout" -> 2 [] main = "stderr" -> 1 [] OTHER -> 0

Both(f) == f["stdout"] + f["stderr"]

One(truth) == IF truth THEN 1 ELSE 0

\* Chunks to write, threads that have not ended, chunks to drain, processes.
Unwritten == Both(todo)
Readers == One(Readable("stdout")) + One(Readable("stderr"))
Piped == Both(pipe)
Processes == One("leader" \in alive) + One("helper" \in alive)

Height == <<Coming, Stage, Unwritten, Readers, Piped, Processes>>

\* The order of the dictionary.
Descent == LexProductOrdering(OpToRel(<, Nat), Nat, 6)

HeightOK ==
    /\ Coming \in Nat /\ Stage \in Nat /\ Unwritten \in Nat /\ Readers \in Nat /\ Piped \in Nat
    /\ Processes \in Nat

\* Some part of the height falls, and those before it stay.
FallsInReaders ==
    \/ Readers' < Readers
    \/ Readers' = Readers /\ Piped' < Piped
    \/ Readers' = Readers /\ Piped' = Piped /\ Processes' < Processes

FallsInGroup == Unwritten' < Unwritten \/ (Unwritten' = Unwritten /\ FallsInReaders)

Falls ==
    \/ Coming' < Coming
    \/ Coming' = Coming /\ Stage' < Stage
    \/ Coming' = Coming /\ Stage' = Stage /\ FallsInGroup

Descends == <<Height', Height>> \in Descent

\* The guards of the actions that Spec is fair to: the calling thread, the drain
\* threads and the processes that end.
CallerMoves ==
    \/ main \in Unprotected \cup {"waiting", "grace"}
    \/ main = "reaping" /\ "leader" \notin alive
    \/ main \in Streams /\ Finished(main)

ReaderMoves(s) == reader[s] = "reading" /\ (pipe[s] > 0 \/ EndOfFile(s) \/ s \in program.disk)

SomeoneMoves ==
    \/ CallerMoves
    \/ \E s \in Streams : ReaderMoves(s)
    \/ \E p \in alive : Ends(p)

\* A run that is not over goes on, unless a helper stays for ever.
NobodyWaitsForEver ==
    main \notin Done /\ (~program.helper \/ program.helper_ends) => SomeoneMoves

\* Who joins has started the threads and reaped the leader.
WaitInv ==
    /\ main = "starting" => reader["stdout"] # "unstarted"
    /\ main \in {"started", "waiting", "grace", "reaping"} \cup Streams =>
          \A s \in Streams : reader[s] # "unstarted"
    /\ main \in {"reaping"} \cup Streams => "leader" \notin alive
    /\ "helper" \in alive => program.helper

(* The order has no infinite descent.                                      *)
THEOREM DescentEnds == IsWellFoundedOn(Descent, [1..6 -> Nat])
<1>1. IsWellFoundedOn(OpToRel(<, Nat), Nat)
  BY NatLessThanWellFounded
<1>2. 6 \in Nat
  OBVIOUS
<1>3. QED
  BY <1>1, <1>2, WFLexProductOrdering DEF Descent

(* What falls first, falls in the order.                                   *)
LEMMA FallsInOrder ==
    ASSUME HeightOK, HeightOK', Falls
    PROVE  Descends
<1>1. PICK g, h : g = Height /\ h = Height'
  OBVIOUS
<1>2. /\ g \in [1..6 -> Nat] /\ h \in [1..6 -> Nat]
      /\ g[1] = Coming /\ g[2] = Stage /\ g[3] = Unwritten /\ g[4] = Readers /\ g[5] = Piped
      /\ g[6] = Processes
      /\ h[1] = Coming' /\ h[2] = Stage' /\ h[3] = Unwritten' /\ h[4] = Readers' /\ h[5] = Piped'
      /\ h[6] = Processes'
  BY <1>1 DEF Height, HeightOK
<1>3. /\ \A i \in 1..(1 - 1) : FALSE
      /\ \A i \in 1..(2 - 1) : i = 1
      /\ \A i \in 1..(3 - 1) : i \in {1, 2}
      /\ \A i \in 1..(4 - 1) : i \in {1, 2, 3}
      /\ \A i \in 1..(5 - 1) : i \in {1, 2, 3, 4}
      /\ \A i \in 1..(6 - 1) : i \in {1, 2, 3, 4, 5}
  OBVIOUS
<1>4. \E j \in 1..6 : h[j] < g[j] /\ \A i \in 1..(j - 1) : h[i] = g[i]
  <2>1. CASE h[1] < g[1]
    BY <1>3, <2>1
  <2>2. CASE h[1] = g[1] /\ h[2] < g[2]
    BY <1>3, <2>2
  <2>3. CASE h[1] = g[1] /\ h[2] = g[2] /\ h[3] < g[3]
    BY <1>3, <2>3
  <2>4. CASE h[1] = g[1] /\ h[2] = g[2] /\ h[3] = g[3] /\ h[4] < g[4]
    BY <1>3, <2>4
  <2>5. CASE h[1] = g[1] /\ h[2] = g[2] /\ h[3] = g[3] /\ h[4] = g[4] /\ h[5] < g[5]
    BY <1>3, <2>5
  <2>6. CASE /\ h[1] = g[1] /\ h[2] = g[2] /\ h[3] = g[3] /\ h[4] = g[4] /\ h[5] = g[5]
             /\ h[6] < g[6]
    BY <1>3, <2>6
  <2>7. QED
    BY <1>2, <2>1, <2>2, <2>3, <2>4, <2>5, <2>6 DEF Falls, FallsInGroup, FallsInReaders
<1>5. PICK j \in 1..6 : h[j] < g[j] /\ \A i \in 1..(j - 1) : h[i] = g[i]
  BY <1>4
<1>6. <<h[j], g[j]>> \in OpToRel(<, Nat)
  BY <1>2, <1>5 DEF OpToRel
<1>7. <<h, g>> \in Descent
  BY <1>2, <1>5, <1>6 DEF Descent, LexProductOrdering
<1>8. QED
  BY <1>1, <1>7 DEF Descends

(* A height is six numbers.                                                *)
LEMMA HeightIsNat ==
    ASSUME TypeOK
    PROVE  HeightOK
<1>1. interrupts \in Nat /\ MaxInterrupts \in Nat
  BY SizesAssumption DEF TypeOK
<1>2. Coming \in Nat /\ Stage \in Nat
  BY <1>1 DEF Coming, Stage
<1>3. Readers \in Nat /\ Processes \in Nat
  BY DEF Readers, Processes, One
<1>4. Unwritten \in Nat /\ Piped \in Nat
  BY StreamsAssumption, SizesAssumption DEF TypeOK, Unwritten, Piped, Both
<1>5. QED
  BY <1>2, <1>3, <1>4 DEF HeightOK

(* A step of the leader, of a process that ends or of a drain thread.      *)
LEMMA GroupFalls ==
    ASSUME TypeOK,
           \/ Environment \/ (\E p \in Procs : ProcessEnds(p)) \/ \E s \in Streams : ReaderStep(s)
    PROVE  UNCHANGED <<main, interrupts>> /\ FallsInGroup
<1>a. /\ todo \in [{"stdout", "stderr"} -> Nat] /\ pipe \in [{"stdout", "stderr"} -> 0..PipeSize]
      /\ PipeSize \in Nat /\ Streams = {"stdout", "stderr"}
      /\ reader \in [{"stdout", "stderr"} -> {"unstarted", "reading", "captured", "failed"}]
  BY StreamsAssumption, SizesAssumption DEF TypeOK
<1>b. UNCHANGED <<main, interrupts>>
  BY DEF Environment, LeaderWrites, ProcessEnds, ReaderStep, Drain, Captured, CaptureFails, caller
<1>1. ASSUME NEW s \in Streams, LeaderWrites(s)
      PROVE  FallsInGroup
  <2>1. todo' = [todo EXCEPT ![s] = @ - 1] /\ todo[s] > 0
    BY <1>1 DEF LeaderWrites
  <2>2. Unwritten' < Unwritten
    BY <1>a, <2>1 DEF Unwritten, Both
  <2>3. QED
    BY <2>2 DEF FallsInGroup
<1>2. ASSUME NEW s \in Streams, Drain(s)
      PROVE  FallsInGroup
  <2>1. UNCHANGED <<todo, reader>> /\ pipe' = [pipe EXCEPT ![s] = @ - 1] /\ pipe[s] > 0
    BY <1>2 DEF Drain
  <2>2. Unwritten' = Unwritten /\ Readers' = Readers
    BY <2>1 DEF Unwritten, Both, Readers, Readable, One
  <2>3. Piped' < Piped
    BY <1>a, <2>1 DEF Piped, Both
  <2>4. QED
    BY <2>2, <2>3 DEF FallsInGroup, FallsInReaders
<1>3. ASSUME NEW s \in Streams, Captured(s) \/ CaptureFails(s)
      PROVE  FallsInGroup
  <2>1. PICK end \in {"captured", "failed"} :
           UNCHANGED todo /\ reader' = [reader EXCEPT ![s] = end] /\ reader[s] = "reading"
    BY <1>3 DEF Captured, CaptureFails, output
  <2>2. Unwritten' = Unwritten
    BY <2>1 DEF Unwritten, Both
  <2>3. Readers' < Readers
    BY <1>a, <2>1 DEF Readers, Readable, One
  <2>4. QED
    BY <2>2, <2>3 DEF FallsInGroup, FallsInReaders
<1>4. ASSUME NEW p \in Procs, ProcessEnds(p)
      PROVE  FallsInGroup
  <2>1. UNCHANGED <<todo, pipe, reader>> /\ alive' = alive \ {p} /\ p \in alive
    BY <1>4 DEF ProcessEnds, output, captures
  <2>2. Unwritten' = Unwritten /\ Readers' = Readers /\ Piped' = Piped
    BY <2>1 DEF Unwritten, Both, Readers, Readable, One, Piped
  <2>3. p \in {"leader", "helper"}
    BY DEF Procs
  <2>4. Processes' < Processes
    BY <2>1, <2>3 DEF Processes, One
  <2>5. QED
    BY <2>2, <2>4 DEF FallsInGroup, FallsInReaders
<1>5. QED
  BY <1>b, <1>1, <1>2, <1>3, <1>4 DEF Environment, ReaderStep

(* A step of the calling thread.                                           *)
LEMMA CallerFalls ==
    ASSUME TypeOK, Caller
    PROVE  UNCHANGED interrupts /\ Stage' < Stage
<1>1. UNCHANGED interrupts
  BY DEF Caller, StartReader, EnterTry, LeaderSeen, Timeout, EndsInGrace, GraceExpires, WaitAgain,
         Join
<1>2. CASE EnterTry \/ Timeout \/ GraceExpires
  BY <1>1, <1>2 DEF EnterTry, Timeout, GraceExpires, Stage
<1>3. CASE LeaderSeen \/ EndsInGrace \/ WaitAgain
  <2>1. main \in {"waiting", "grace", "reaping"} /\ main' = "stdout"
    BY <1>3 DEF LeaderSeen, EndsInGrace, WaitAgain, Reap
  <2>2. Stage' = 2
    BY <2>1 DEF Stage
  <2>3. Stage \in {3, 4, 5}
    BY <2>1 DEF Stage
  <2>4. QED
    BY <1>1, <2>2, <2>3
<1>4. CASE \E s \in Streams : Join(s)
  <2>1. \/ main = "stdout" /\ main' = "stderr"
        \/ main = "stderr" /\ main' \in {"returned", "failed", "raised"}
    BY <1>4, StreamsAssumption DEF Join, Outcome
  <2>2. CASE main = "stdout" /\ main' = "stderr"
    BY <1>1, <2>2 DEF Stage
  <2>3. CASE main = "stderr" /\ main' \in {"returned", "failed", "raised"}
    <3>1. Stage = 1
      BY <2>3 DEF Stage
    <3>2. Stage' = 0
      BY <2>3 DEF Stage
    <3>3. QED
      BY <1>1, <3>1, <3>2
  <2>4. QED
    BY <2>1, <2>2, <2>3
<1>5. CASE \E s \in Streams : StartReader(s)
  <2>1. \/ main = "spawned" /\ main' = "starting"
        \/ main = "starting" /\ main' = "started"
    BY <1>5, StreamsAssumption DEF StartReader
  <2>2. QED
    BY <1>1, <2>1 DEF Stage
<1>6. QED
  BY <1>1, <1>2, <1>3, <1>4, <1>5 DEF Caller

(***************************************************************************)
(* Nothing goes on for ever in a run: every step, of the leader and its    *)
(* helper, of a drain thread, of the calling thread or of a user who       *)
(* interrupts, lowers the height, and there is no infinite descent.        *)
(* (the loops of _drain and of the wait in run; a write needs no room once *)
(* nobody reads)                                                           *)
(***************************************************************************)
THEOREM RunDescends == Spec => [][Descends]_vars
<1>1. ASSUME Inv, Inv', Next, ~Over
      PROVE  Falls
  <2>1. TypeOK /\ interrupts \in Nat /\ MaxInterrupts \in Nat
    BY <1>1, SizesAssumption DEF Inv, TypeOK
  <2>2. CASE Interrupt
    <3>1. interrupts' = interrupts + 1 /\ interrupts < MaxInterrupts
      BY <2>2 DEF Interrupt
    <3>2. QED
      BY <2>1, <3>1 DEF Coming, Falls
  <2>3. CASE Caller
    <3>1. UNCHANGED interrupts /\ Stage' < Stage
      BY <2>1, <2>3, CallerFalls
    <3>2. Coming' = Coming
      BY <3>1 DEF Coming
    <3>3. QED
      BY <3>1, <3>2 DEF Falls
  <2>4. CASE Environment \/ (\E p \in Procs : ProcessEnds(p)) \/ \E s \in Streams : ReaderStep(s)
    <3>1. UNCHANGED <<main, interrupts>> /\ FallsInGroup
      BY <2>1, <2>4, GroupFalls
    <3>2. Coming' = Coming /\ Stage' = Stage
      BY <3>1 DEF Coming, Stage
    <3>3. QED
      BY <3>1, <3>2 DEF Falls
  <2>5. QED
    BY <1>1, <2>2, <2>3, <2>4 DEF Next
<1>2. Inv => HeightOK
  BY HeightIsNat DEF Inv
<1>3. Inv /\ Inv' /\ HeightOK /\ HeightOK' /\ [Next]_vars => [Descends]_vars
  <2>1. Over => UNCHANGED vars
    BY DEF Over
  <2>2. QED
    BY <1>1, <2>1, FallsInOrder
<1>4. QED
  BY <1>2, <1>3, Inductive, PTL DEF Spec

(* Reaping comes before joining, and starting the threads before both.     *)
LEMMA WaitInductive == TypeOK /\ WaitInv /\ [Next]_vars => WaitInv'
<1> SUFFICES ASSUME TypeOK, WaitInv, [Next]_vars
             PROVE  WaitInv'
  OBVIOUS
<1> USE StreamsAssumption DEF TypeOK, WaitInv, Done, Unprotected
<1>1. CASE \E s \in Streams : LeaderWrites(s)
  BY <1>1 DEF LeaderWrites, Readable, caller, output, captures
<1>2. CASE \E p \in Procs : ProcessEnds(p)
  BY <1>2 DEF ProcessEnds, caller, output, captures
<1>3. CASE \E s \in Streams : ReaderStep(s)
  <2>1. PICK s \in Streams : Drain(s) \/ Captured(s) \/ CaptureFails(s)
    BY <1>3 DEF ReaderStep
  <2>2. \A r \in Streams : reader'[r] = reader[r] \/ reader'[r] \in {"captured", "failed"}
    BY <2>1 DEF Drain, Captured, CaptureFails
  <2>3. UNCHANGED <<main, alive, program>>
    BY <2>1 DEF Drain, Captured, CaptureFails, caller
  <2>4. QED
    BY <2>2, <2>3
<1>4. CASE EnterTry \/ \E s \in Streams : StartReader(s)
  BY <1>4 DEF EnterTry, StartReader, caller, output, captures
<1>5. CASE LeaderSeen \/ EndsInGrace \/ WaitAgain
  BY <1>5 DEF LeaderSeen, EndsInGrace, WaitAgain, Reap, caller, output, captures
<1>6. CASE Timeout
  BY <1>6 DEF Timeout, caller, output, captures
<1>7. CASE GraceExpires
  BY <1>7 DEF GraceExpires, Killed, caller, output, captures
<1>8. CASE \E s \in Streams : Join(s)
  BY <1>8 DEF Join, Outcome, caller, output, captures
<1>9. CASE Interrupt
  BY <1>9 DEF Interrupt, Guarded, caller, output, captures
<1>10. CASE UNCHANGED vars
  BY <1>10 DEF vars, caller, output, captures
<1>11. QED
  BY <1>1, <1>2, <1>3, <1>4, <1>5, <1>6, <1>7, <1>8, <1>9, <1>10 DEF Next, Environment, Caller, Over

(***************************************************************************)
(* Nobody waits for ever: of a run that is not over, the calling thread, a *)
(* drain thread or a process can go on, though neither join has a timeout, *)
(* unless the child left a helper behind that holds the pipes for ever.    *)
(* With RunDescends it is all of RunEnds but the fairness.                 *)
(* (the joins of run against the end of file its threads wait for)         *)
(***************************************************************************)
THEOREM NobodyIsStuck == Spec => []NobodyWaitsForEver
<1>1. Init => WaitInv
  BY StreamsAssumption, ProgramsAssumption DEF Init, WaitInv
<1>2. TypeOK /\ WaitInv => NobodyWaitsForEver
  <2> SUFFICES ASSUME TypeOK, WaitInv, main \notin Done, ~program.helper \/ program.helper_ends
               PROVE  SomeoneMoves
    BY DEF NobodyWaitsForEver
  <2>1. CASE main \in Unprotected \cup {"waiting", "grace"}
    BY <2>1 DEF SomeoneMoves, CallerMoves
  <2>2. CASE main = "reaping"
    BY <2>2 DEF WaitInv, SomeoneMoves, CallerMoves
  <2>3. CASE main \in Streams
    <3>1. reader[main] \in {"reading", "captured", "failed"} /\ "leader" \notin alive
      BY <2>3 DEF WaitInv, TypeOK
    <3>2. CASE reader[main] # "reading"
      BY <2>3, <3>1, <3>2 DEF SomeoneMoves, CallerMoves, Finished
    <3>3. CASE reader[main] = "reading" /\ pipe[main] > 0
      BY <2>3, <3>3 DEF SomeoneMoves, ReaderMoves
    <3>4. CASE reader[main] = "reading" /\ pipe[main] = 0 /\ alive = {}
      BY <2>3, <3>4 DEF SomeoneMoves, ReaderMoves, EndOfFile
    <3>5. CASE alive # {}
      <4>1. "helper" \in alive
        BY <3>1, <3>5 DEF TypeOK, Procs
      <4>2. program.helper_ends
        BY <4>1 DEF WaitInv
      <4>3. Ends("helper")
        BY <4>2 DEF Ends
      <4>4. QED
        BY <4>1, <4>3 DEF SomeoneMoves
    <3>6. pipe[main] = 0 \/ pipe[main] > 0
      <4>1. pipe[main] \in 0..PipeSize /\ PipeSize \in Nat
        BY <2>3, SizesAssumption DEF TypeOK
      <4>2. QED
        BY <4>1
    <3>7. QED
      BY <3>2, <3>3, <3>4, <3>5, <3>6
  <2>4. QED
    BY <2>1, <2>2, <2>3 DEF TypeOK
<1>3. TypeOK /\ WaitInv /\ [Next]_vars => WaitInv'
  BY WaitInductive
<1>4. QED
  BY <1>1, <1>2, <1>3, TypeCorrect, PTL DEF Spec
=============================================================================
