---------------------------- MODULE EvidenceLog ----------------------------
(***************************************************************************)
(* The JSON-lines evidence files (journal.jsonl of a tuning session, of a  *)
(* quality run and of a marathon run, and registry.jsonl), at the level of *)
(* what reaches the disk.  All four are written the same way, one write of *)
(* a line and its newline, a flush and an fsync; they differ in what their *)
(* readers and writers do about a final line a crash left torn, so one     *)
(* variable, kind, names the policy of the file the behaviour is about.    *)
(*                                                                         *)
(* A line of the file is the record it parses to, or Torn when json.loads  *)
(* rejects it (a fragment, or two records run together).  tail is what     *)
(* follows the last newline: nothing (None), a fragment (Torn), or a whole *)
(* record whose newline never reached the disk.                            *)
(***************************************************************************)
EXTENDS Naturals, Sequences, FiniteSets

CONSTANTS
    Kinds,        \* the evidence files considered
    CutsOf,       \* CutsOf[k]: how much of an interrupted write of k persists
    MaxRecords,   \* bound: records ever written
    MaxCrashes,   \* bound: writes cut short
    Torn,         \* a line json.loads rejects
    None          \* no unterminated tail

Cut == {"nothing", "partial", "unterminated", "whole"}

ASSUME KindsAssumption == Kinds \subseteq {"session", "registry", "quality", "marathon"}
ASSUME CutsAssumption == CutsOf \in [Kinds -> SUBSET Cut]
ASSUME BoundsAssumption == MaxRecords \in Nat /\ MaxCrashes \in Nat

ASSUME MarkersAssumption == Torn \notin Nat /\ None \notin Nat /\ Torn # None

Record == Nat

VARIABLES
    kind,     \* which file this is; never changes
    file,     \* [lines: newline-terminated lines, tail: the rest]
    entries,  \* the records the running process has in memory
    acked,    \* history: records whose append returned to the caller
    mode,     \* where the process is, see Modes
    next,     \* the next record to be written
    cuts,     \* how many writes were cut short
    broken    \* history: a rewrite of the whole file was cut short

vars == <<kind, file, entries, acked, mode, next, cuts, broken>>

\* rewriting: between the truncation of a registry and the fsync of the append
\* that follows; failing: a session append raised OSError.
Modes == {"up", "rewriting", "failing", "down", "refused"}

Line == Record \cup {Torn}

TypeOK ==
    /\ kind \in Kinds
    /\ file \in [lines : Seq(Line), tail : Line \cup {None}]
    /\ entries \in SUBSET Record
    /\ acked \in SUBSET Record
    /\ mode \in Modes
    /\ next \in Nat
    /\ cuts \in Nat
    /\ broken \in BOOLEAN

Stored(f) == {f.lines[i] : i \in DOMAIN f.lines} \ {Torn}

RawLines(f) == IF f.tail = None THEN f.lines ELSE Append(f.lines, f.tail)

TornLines(f) == {i \in DOMAIN RawLines(f) : RawLines(f)[i] = Torn}

\* Mutant of Parsed: a line that does not parse stays among the entries.
ParsedOrNot(f) == {RawLines(f)[i] : i \in DOMAIN RawLines(f)}

Parsed(f) == {RawLines(f)[i] : i \in DOMAIN RawLines(f)} \ {Torn}

----------------------------------------------------------------------------
\* The text of r after an unterminated tail is one line that does not parse.
Joined(f, r) == IF f.tail = None THEN r ELSE Torn

\* The file after a write of r of which cut reached the disk.
Written(f, r, cut) ==
    CASE cut = "nothing"      -> f
      [] cut = "partial"      -> [f EXCEPT !.tail = Torn]
      [] cut = "unterminated" -> [f EXCEPT !.tail = Joined(f, r)]
      [] cut = "whole"        -> [lines |-> Append(f.lines, Joined(f, r)), tail |-> None]

\* The file without its unterminated tail.
DropTail(f) == [f EXCEPT !.tail = None]

\* Mutant of MustRewrite: the registry's writer repairs nothing.
NeverRewrites(f) == FALSE

\* registry.append_record finds a final line without a newline.
MustRewrite(f) == kind = "registry" /\ f.tail # None

\* What is left of f when the write of its whole text is cut short: some lines,
\* and nothing, a part or all of the text of the next one.
Remains(f) ==
    UNION {{[lines |-> SubSeq(f.lines, 1, n), tail |-> t] :
               t \in {None, Torn} \cup {f.lines[i] : i \in {n + 1} \cap DOMAIN f.lines}} :
           n \in 0..Len(f.lines)}

\* Mutant of TruncateTorn: a torn line with a newline of its own is left.
TruncateTail(f) == DropTail(f)

\* Session._read_journal cuts a torn final line off the disk, up to the newline
\* before it, whether or not that line is itself newline-terminated.
TruncateTorn(f) ==
    IF f.tail = Torn THEN DropTail(f)
    ELSE [f EXCEPT !.lines = SubSeq(@, 1, Len(@) - 1)]

\* Mutant of Refuses: the marathon's reader is as strict as the others.
RefusesAlways(f) == \E i \in TornLines(f) : i # Len(RawLines(f))

\* Only a marathon's reader accepts a torn line that is not the last one.
Refuses(f) ==
    /\ kind # "marathon"
    /\ \E i \in TornLines(f) : i # Len(RawLines(f))

\* Mutant of Repaired: a torn final line is skipped but left on disk.
Unrepaired(f) == f

Repaired(f) ==
    IF kind = "session" /\ TornLines(f) # {} THEN TruncateTorn(f) ELSE f

----------------------------------------------------------------------------
Init ==
    /\ kind \in Kinds
    /\ file = [lines |-> <<>>, tail |-> None]
    /\ entries = {}
    /\ acked = {}
    /\ mode = "up"
    /\ next = 0
    /\ cuts = 0
    /\ broken = FALSE

\* append returns: line, newline and fsync are done, memory follows the disk.
AppendEntry ==
    /\ mode = "rewriting" \/ (mode = "up" /\ ~MustRewrite(file))
    /\ next < MaxRecords
    /\ file' = Written(file, next, "whole")
    /\ entries' = entries \cup {next}
    /\ acked' = acked \cup {next}
    /\ next' = next + 1
    /\ mode' = "up"
    /\ UNCHANGED <<kind, cuts, broken>>

\* append_record first writes the file anew without its unterminated tail: it
\* is truncated to nothing, and not known to be on disk before the next fsync.
Rewrite ==
    /\ mode = "up"
    /\ MustRewrite(file)
    /\ next < MaxRecords
    /\ file' = DropTail(file)
    /\ mode' = "rewriting"
    /\ UNCHANGED <<kind, entries, acked, next, cuts, broken>>

CutShort(files) ==
    /\ next < MaxRecords
    /\ cuts < MaxCrashes
    /\ file' \in files
    /\ next' = next + 1
    /\ cuts' = cuts + 1

\* An append of which any tolerated part reached the disk.
Partial == {Written(file, next, cut) : cut \in CutsOf[kind]}

Interrupted == CutShort(Partial)

\* The process dies inside append.
CrashInAppend ==
    /\ mode = "up"
    /\ ~MustRewrite(file)
    /\ Interrupted
    /\ entries' = {}
    /\ mode' = "down"
    /\ UNCHANGED <<kind, acked, broken>>

\* It dies, or finds the disk full, after the registry was truncated: of what
\* was in it, any part may be left; if all is, then any part of the record.
CrashInRewrite ==
    /\ mode = "rewriting"
    /\ CutShort(Remains(file) \cup Partial)
    /\ entries' = {}
    /\ mode' = "down"
    /\ broken' = TRUE
    /\ UNCHANGED <<kind, acked>>

\* A session append raises OSError (a full disk) and the engine handles it.
FailAppend ==
    /\ mode = "up"
    /\ kind = "session"
    /\ Interrupted
    /\ mode' = "failing"
    /\ UNCHANGED <<kind, entries, acked, broken>>

\* _io_failure then appends session_end(4) to the same file before returning.
\* Nothing relies on that record, so it never enters acked.
EndAfterFailure ==
    /\ mode = "failing"
    /\ next < MaxRecords
    /\ file' = Written(file, next, "whole")
    /\ entries' = {}
    /\ mode' = "down"
    /\ next' = next + 1
    /\ UNCHANGED <<kind, acked, cuts, broken>>

\* ... and suppresses the OSError of a session_end that cannot be written.
EndSuppressed ==
    /\ mode = "failing"
    /\ \/ Interrupted
       \/ UNCHANGED <<file, next, cuts>>
    /\ entries' = {}
    /\ mode' = "down"
    /\ UNCHANGED <<kind, acked, broken>>

\* The process ends between two appends, or dies there.
Exit ==
    /\ mode = "up"
    /\ entries' = {}
    /\ mode' = "down"
    /\ UNCHANGED <<kind, file, acked, next, cuts, broken>>

\* A later process loads the file and goes on appending to it.
Load ==
    /\ mode = "down"
    /\ ~Refuses(file)
    /\ file' = Repaired(file)
    /\ entries' = Parsed(file)
    /\ mode' = "up"
    /\ UNCHANGED <<kind, acked, next, cuts, broken>>

\* The reader raises: SessionCorruptionError, or the ValueError of the others.
LoadRefused ==
    /\ mode = "down"
    /\ Refuses(file)
    /\ mode' = "refused"
    /\ UNCHANGED <<kind, file, entries, acked, next, cuts, broken>>

Next ==
    \/ AppendEntry
    \/ Rewrite
    \/ CrashInAppend
    \/ CrashInRewrite
    \/ FailAppend
    \/ EndAfterFailure
    \/ EndSuppressed
    \/ Exit
    \/ Load
    \/ LoadRefused

Spec == Init /\ [][Next]_vars

----------------------------------------------------------------------------
(* The files whose writer or reader repairs a torn final line.             *)
Repairing == {"session", "registry"}

(***************************************************************************)
(* Every record whose append returned is on a line of its own for ever: in *)
(* a session journal whatever sequence of crashes, full disks and resumes  *)
(* follows, in the registry until a crash cuts one of its rewrites short.  *)
(* Both files load again after every one of these.  (the fsync of          *)
(* Session.append and append_record; _read_journal and load_all)           *)
(***************************************************************************)
AckedSurvive ==
    /\ kind \in Repairing /\ ~broken => acked \subseteq Stored(file)
    /\ kind = "session" => acked \subseteq Stored(file)
    /\ kind \in Repairing => mode # "refused"

(***************************************************************************)
(* The entries a resumed session reasons from (trials, budget, reusable    *)
(* confirmations) are exactly the ones on disk, after any number of torn   *)
(* appends and repairs.                                                    *)
(***************************************************************************)
MemoryIsDisk ==
    kind = "session" /\ mode = "up" => entries = Stored(file) /\ file.tail = None

(***************************************************************************)
(* Quality and marathon never repair their journals.  A torn append makes  *)
(* them lose the next acknowledged record too, but never more than one per *)
(* torn append.  A marathon journal always loads; a quality journal with   *)
(* records after the damage does not.                                      *)
(***************************************************************************)
LossBounded ==
    /\ kind \in {"quality", "marathon"} => Cardinality(acked \ Stored(file)) <= cuts
    /\ kind = "marathon" => mode # "refused"

(***************************************************************************)
(* The repairing files implement the durable log: an append, cut short or  *)
(* not, stores at most the record being written, and neither it nor a      *)
(* repair takes an earlier one away; only a rewrite of the registry that   *)
(* is cut short does.  A record counts as stored once its newline is on    *)
(* disk: a registry line without one can still be read, and is dropped by  *)
(* the next append_record.                                                 *)
(***************************************************************************)
Log == INSTANCE DurableLog WITH
         Record <- 0..(MaxRecords - 1),
         stored <- IF kind \in Repairing THEN Stored(file) ELSE {},
         acked  <- IF kind \in Repairing THEN acked ELSE {},
         whole  <- kind \in Repairing => ~broken

ImplementsDurableLog == Log!Spec

(***************************************************************************)
(* session.py: truncating the torn tail keeps a later append from merging  *)
(* with it and corrupting the journal for every future load.  Fails when a *)
(* crash cuts a line from its newline: that tail parses, and stays.        *)
(***************************************************************************)
ResumedJournalNeverMerges ==
    kind = "session" => acked \subseteq Stored(file) /\ mode # "refused"
=============================================================================
