------------------------------ MODULE Executor ------------------------------
(***************************************************************************)
(* executor.run, and run_probe, on POSIX: a child in a process group of    *)
(* its own, one thread per output stream that drains its pipe, a timeout   *)
(* that ends the group, and KeyboardInterrupt, which the engine's SIGINT   *)
(* handler raises in the waiting thread at any point.                      *)
(*                                                                         *)
(* The group holds the child, called leader, and maybe a helper it         *)
(* started, which inherits both pipes.  Output is counted in chunks.       *)
(***************************************************************************)
EXTENDS Naturals, FiniteSets

CONSTANTS
    Streams,       \* stdout and stderr, in the order they are joined
    Cap,           \* chunks a capture keeps
    PipeSize,      \* chunks a pipe holds
    Programs,      \* the children considered
    MaxInterrupts  \* bound: KeyboardInterrupts

Procs == {"leader", "helper"}

\* writes: chunks of the leader on each stream before it exits, which it does
\* not if it hangs; helper: whether it starts one, which ends by itself if
\* helper_ends; obeys: the processes that SIGTERM ends; disk: streams whose
\* capture file cannot be written.
Program ==
    [writes : [Streams -> Nat], hangs : BOOLEAN, helper : BOOLEAN, helper_ends : BOOLEAN,
     obeys : SUBSET Procs, disk : SUBSET Streams]

ASSUME StreamsAssumption == Streams = {"stdout", "stderr"}
ASSUME SizesAssumption == Cap \in Nat \ {0} /\ PipeSize \in Nat \ {0} /\ MaxInterrupts \in Nat
ASSUME ProgramsAssumption == \A p \in Programs : p \in Program

VARIABLES
    program,
    main,        \* the calling thread
    unwinding,   \* it is in the except block
    timed_out,
    alive,       \* the processes that have not ended
    reaped,      \* the leader's exit status was collected
    signals,     \* what the group was sent
    todo,        \* chunks the leader still has to write
    written,     \* history: chunks written to each stream
    pipe,        \* chunks in each pipe
    reader,      \* each drain thread
    kept,        \* chunks in each capture
    truncated,   \* captures that left something out
    interrupts

vars == <<program, main, unwinding, timed_out, alive, reaped, signals, todo, written, pipe,
          reader, kept, truncated, interrupts>>

caller == <<main, unwinding, timed_out, reaped, interrupts>>
output == <<todo, written, pipe>>
captures == <<reader, kept, truncated>>

Done == {"returned", "failed", "raised", "abandoned"}

\* Before the try block.
Unprotected == {"spawned", "starting", "started"}

Init ==
    /\ program \in Programs
    /\ main = "spawned"
    /\ unwinding = FALSE /\ timed_out = FALSE /\ reaped = FALSE
    /\ alive = IF program.helper THEN Procs ELSE {"leader"}
    /\ signals = {}
    /\ todo = program.writes
    /\ written = [s \in Streams |-> 0] /\ pipe = [s \in Streams |-> 0]
    /\ reader = [s \in Streams |-> "unstarted"]
    /\ kept = [s \in Streams |-> 0]
    /\ truncated = {}
    /\ interrupts = 0

----------------------------------------------------------------------------
(* The processes of the group.                                             *)
Readable(s) == reader[s] \in {"unstarted", "reading"}

\* A write waits for room; without a reader it is lost, and does not wait.
LeaderWrites(s) ==
    /\ "leader" \in alive
    /\ todo[s] > 0
    /\ Readable(s) => pipe[s] < PipeSize
    /\ todo' = [todo EXCEPT ![s] = @ - 1]
    /\ IF Readable(s)
       THEN /\ pipe' = [pipe EXCEPT ![s] = @ + 1]
            /\ written' = [written EXCEPT ![s] = @ + 1]
       ELSE UNCHANGED <<pipe, written>>
    /\ UNCHANGED <<program, caller, alive, signals, captures>>

Ends(p) ==
    \/ p = "leader" /\ ~program.hangs /\ \A s \in Streams : todo[s] = 0
    \/ p = "helper" /\ program.helper_ends
    \/ "term" \in signals /\ p \in program.obeys

ProcessEnds(p) ==
    /\ p \in alive
    /\ Ends(p)
    /\ alive' = alive \ {p}
    /\ UNCHANGED <<program, caller, signals, output, captures>>

----------------------------------------------------------------------------
Drains(s) == TRUE

\* Mutant of Room: one chunk more than the cap is kept.
RoomForOneMore(s) == kept[s] <= Cap

Room(s) == kept[s] < Cap

\* Chunks past the cap are read all the same, and dropped.
Drain(s) ==
    /\ reader[s] = "reading"
    /\ pipe[s] > 0
    /\ Drains(s)
    /\ pipe' = [pipe EXCEPT ![s] = @ - 1]
    /\ IF Room(s)
       THEN kept' = [kept EXCEPT ![s] = @ + 1] /\ UNCHANGED truncated
       ELSE truncated' = truncated \cup {s} /\ UNCHANGED kept
    /\ UNCHANGED <<program, caller, alive, signals, todo, written, reader>>

\* read() returns nothing once no process holds the other end.
EndOfFile(s) == pipe[s] = 0 /\ alive = {}

Captured(s) ==
    /\ reader[s] = "reading"
    /\ EndOfFile(s)
    /\ reader' = [reader EXCEPT ![s] = "captured"]
    /\ UNCHANGED <<program, caller, alive, signals, output, kept, truncated>>

\* The capture file cannot be written: the thread closes the pipe and ends.
CaptureFails(s) ==
    /\ reader[s] = "reading"
    /\ s \in program.disk
    /\ reader' = [reader EXCEPT ![s] = "failed"]
    /\ pipe' = [pipe EXCEPT ![s] = 0]
    /\ UNCHANGED <<program, caller, alive, signals, todo, written, kept, truncated>>

----------------------------------------------------------------------------
(* The calling thread.                                                     *)
StartReader(s) ==
    /\ main = IF s = "stdout" THEN "spawned" ELSE "starting"
    /\ main' = IF s = "stdout" THEN "starting" ELSE "started"
    /\ reader' = [reader EXCEPT ![s] = "reading"]
    /\ UNCHANGED <<program, unwinding, timed_out, reaped, interrupts, alive, signals, output,
                   kept, truncated>>

EnterTry ==
    /\ main = "started"
    /\ main' = "waiting"
    /\ UNCHANGED <<program, unwinding, timed_out, reaped, interrupts, alive, signals, output,
                   captures>>

Reap(next) ==
    /\ "leader" \notin alive
    /\ reaped' = TRUE
    /\ main' = next

\* poll or wait sees that the leader ended.
LeaderSeen ==
    /\ main = "waiting"
    /\ Reap("stdout")
    /\ UNCHANGED <<program, unwinding, timed_out, interrupts, alive, signals, output, captures>>

\* The deadline passed; the leader may have ended since poll looked.
Timeout ==
    /\ main = "waiting"
    /\ timed_out' = TRUE
    /\ signals' = signals \cup {"term"}
    /\ main' = "grace"
    /\ UNCHANGED <<program, unwinding, reaped, interrupts, alive, output, captures>>

\* The leader ends within the grace: nobody sends SIGKILL.
EndsInGrace ==
    /\ main = "grace"
    /\ Reap("stdout")
    /\ UNCHANGED <<program, unwinding, timed_out, interrupts, alive, signals, output, captures>>

\* Mutant of Killed: the grace ends and the group is asked again.
Unkilled == alive

\* SIGKILL ends every process of the group.
Killed == {}

GraceExpires ==
    /\ main = "grace"
    /\ signals' = signals \cup {"kill"}
    /\ alive' = Killed
    /\ main' = "reaping"
    /\ UNCHANGED <<program, unwinding, timed_out, reaped, interrupts, output, captures>>

WaitAgain ==
    /\ main = "reaping"
    /\ Reap("stdout")
    /\ UNCHANGED <<program, unwinding, timed_out, interrupts, alive, signals, output, captures>>

Outcome ==
    CASE unwinding                                -> "raised"
      [] \E s \in Streams : reader[s] = "failed" -> "failed"
      [] OTHER                                    -> "returned"

\* Mutant of Join: only the first thread is joined.
JoinFirst(s) ==
    /\ main = s
    /\ reader[s] \in {"captured", "failed"}
    /\ main' = Outcome
    /\ UNCHANGED <<program, unwinding, timed_out, reaped, interrupts, alive, signals, output,
                   captures>>

\* Neither join has a timeout.
Join(s) ==
    /\ main = s
    /\ reader[s] \in {"captured", "failed"}
    /\ main' = IF s = "stdout" THEN "stderr" ELSE Outcome
    /\ UNCHANGED <<program, unwinding, timed_out, reaped, interrupts, alive, signals, output,
                   captures>>

\* Mutant of Guarded: waiting for the leader is outside the try block.
Unguarded == FALSE

\* The try block: waiting, and ending a group that timed out.
Guarded == ~unwinding /\ main \in {"waiting", "grace", "reaping"}

\* KeyboardInterrupt inside the try block ends the group and joins the threads;
\* after it or in the except block it leaves at once, and before it the child
\* is abandoned, with one, two or no threads that drain it.
Interrupt ==
    /\ main \notin Done
    /\ interrupts < MaxInterrupts
    /\ interrupts' = interrupts + 1
    /\ IF Guarded
       THEN /\ unwinding' = TRUE
            /\ signals' = signals \cup {"term"}
            /\ main' = "grace"
       ELSE /\ main' = IF main \in Unprotected THEN "abandoned" ELSE "raised"
            /\ UNCHANGED <<unwinding, signals>>
    /\ UNCHANGED <<program, timed_out, reaped, alive, output, captures>>

----------------------------------------------------------------------------
Environment == \E s \in Streams : LeaderWrites(s)

ReaderStep(s) == Drain(s) \/ Captured(s) \/ CaptureFails(s)

Caller ==
    \/ EnterTry \/ LeaderSeen \/ Timeout \/ EndsInGrace \/ GraceExpires \/ WaitAgain
    \/ \E s \in Streams : StartReader(s) \/ Join(s)

Over == main \in Done /\ UNCHANGED vars

Next ==
    \/ Environment
    \/ \E p \in Procs : ProcessEnds(p)
    \/ \E s \in Streams : ReaderStep(s)
    \/ Caller
    \/ Interrupt
    \/ Over

\* Threads are scheduled and timeouts expire; a process that SIGTERM ends, ends.
Spec ==
    /\ Init /\ [][Next]_vars
    /\ WF_vars(Caller)
    /\ \A s \in Streams : WF_vars(ReaderStep(s)) /\ WF_vars(LeaderWrites(s))
    /\ \A p \in Procs : WF_vars(ProcessEnds(p))

----------------------------------------------------------------------------
FlagsOK == unwinding \in BOOLEAN /\ timed_out \in BOOLEAN /\ reaped \in BOOLEAN

TypeOK ==
    /\ program \in Programs
    /\ main \in Unprotected \cup {"waiting", "grace", "reaping"} \cup Streams \cup Done
    /\ alive \subseteq Procs
    /\ signals \subseteq {"term", "kill"}
    /\ todo \in [Streams -> Nat] /\ written \in [Streams -> Nat]
    /\ pipe \in [Streams -> 0..PipeSize]
    /\ reader \in [Streams -> {"unstarted", "reading", "captured", "failed"}]
    /\ kept \in [Streams -> 0..Cap]
    /\ truncated \subseteq Streams
    /\ interrupts \in Nat
    /\ FlagsOK

(***************************************************************************)
(* A result that run returns describes all the child wrote: each capture   *)
(* holds the first Cap chunks of its stream and is called truncated just   *)
(* when there were more, whichever thread, process or timeout came first.  *)
(***************************************************************************)
CaptureComplete ==
    main = "returned" =>
        \A s \in Streams :
            /\ kept[s] = (IF written[s] < Cap THEN written[s] ELSE Cap)
            /\ s \in truncated <=> written[s] > Cap

(***************************************************************************)
(* DESIGN.md section 7, handles and children are reaped on exit: once the  *)
(* try block is entered, no way out of run leaves its child behind, a      *)
(* KeyboardInterrupt anywhere included.  A second one may, and so does one *)
(* between the start of the child and the try block, which run abandons.   *)
(***************************************************************************)
ReapedDespiteInterrupt ==
    main \in Done \ {"abandoned"} /\ interrupts <= 1 => reaped

(***************************************************************************)
(* The calling thread comes back from any child that leaves no helper      *)
(* behind for ever: one that hangs, ignores SIGTERM, floods both pipes, or *)
(* whose output cannot be stored.                                          *)
(***************************************************************************)
RunEnds == ~program.helper \/ program.helper_ends => <>(main \in Done)

=============================================================================
