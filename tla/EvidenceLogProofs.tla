------------------------- MODULE EvidenceLogProofs -------------------------
(***************************************************************************)
(* What EvidenceLog's runs check on six records, for any number of them:   *)
(* the two files that repair a torn final line keep every record whose     *)
(* append returned (the registry, until a rewrite of it is cut short),     *)
(* always load, and implement the durable log; the two that repair nothing *)
(* lose no more than a record per write cut short.                         *)
(***************************************************************************)
EXTENDS EvidenceLog, FiniteSetTheorems, TLAPS

File == [lines : Seq(Line), tail : Line \cup {None}]

\* The one condition: a crash never cuts a session line from its newline.
NoNewlineCut == "session" \in Kinds => "unterminated" \notin CutsOf["session"]

Whole(f) == \A i \in 1..Len(f.lines) : f.lines[i] # Torn
WholeButLast(f) == \A i \in 1..(Len(f.lines) - 1) : f.lines[i] # Torn

\* A registry only ever ends in a torn tail; a session may also have one torn
\* final line, which the session_end after a failed append was merged into.
RegistryShape == kind = "registry" => Whole(file)

SessionShape ==
    kind = "session" =>
        /\ file.tail \in {None, Torn}
        /\ WholeButLast(file)
        /\ file.tail = Torn \/ mode \in {"up", "failing"} => Whole(file)
        /\ mode = "up" => file.tail = None

\* Records are numbered in the order they are first written.
FreshIn(f, m) ==
    /\ \A i \in 1..Len(f.lines) : f.lines[i] # Torn => f.lines[i] < m
    /\ f.tail \in Nat => f.tail < m

Fresh == FreshIn(file, next)

IInv ==
    /\ TypeOK
    /\ Fresh
    /\ RegistryShape
    /\ SessionShape
    /\ mode = "failing" => kind = "session"
    /\ mode = "refused" => kind \notin Repairing
    /\ mode = "rewriting" => kind = "registry" /\ file.tail = None
    /\ broken => kind = "registry"
    /\ kind \in Repairing /\ ~broken => acked \subseteq Stored(file)

----------------------------------------------------------------------------
(* Appending a line adds the record it parses to, and nothing else.        *)
LEMMA StoredOfAppend ==
    ASSUME NEW f \in File, NEW x \in Line, NEW g \in File, g.lines = Append(f.lines, x)
    PROVE  Stored(g) = Stored(f) \cup ({x} \ {Torn})
<1>1. f.lines \in Seq(Line) /\ Len(f.lines) \in Nat
  BY DEF File
<1>2. Len(g.lines) = Len(f.lines) + 1 /\ g.lines[Len(f.lines) + 1] = x
  BY <1>1
<1>3. \A i \in 1..Len(f.lines) : g.lines[i] = f.lines[i]
  BY <1>1
<1>4. DOMAIN g.lines = 1..Len(g.lines) /\ DOMAIN f.lines = 1..Len(f.lines)
  BY <1>1 DEF File
<1>5. QED
  BY <1>1, <1>2, <1>3, <1>4 DEF Stored

(* A write, cut short or not, leaves every earlier line and either changes *)
(* only the tail or ends a line, the new record unless it joins a tail.    *)
LEMMA WrittenCases ==
    ASSUME NEW f \in File, NEW r \in Nat, NEW cut \in Cut
    PROVE  LET g == Written(f, r, cut) IN
           /\ g \in File
           /\ \/ g = f
              \/ g.lines = f.lines /\ g.tail = Torn
              \/ g.lines = f.lines /\ g.tail = r /\ f.tail = None /\ cut = "unterminated"
              \/ g.lines = Append(f.lines, Joined(f, r)) /\ g.tail = None
<1>1. Joined(f, r) \in Line
  BY DEF Joined, Line, Record
<1>2. CASE cut = "nothing"
  BY <1>2 DEF Written
<1>3. CASE cut = "partial"
  BY <1>3 DEF Written, File, Line
<1>4. CASE cut = "unterminated"
  BY <1>1, <1>4 DEF Written, File, Joined
<1>5. CASE cut = "whole"
  BY <1>1, <1>5 DEF Written, File
<1>6. QED
  BY <1>2, <1>3, <1>4, <1>5 DEF Cut

(* What DropTail and TruncateTorn keep.                                    *)
LEMMA DropTailKeeps ==
    ASSUME NEW f \in File
    PROVE  /\ DropTail(f) \in File
           /\ DropTail(f).lines = f.lines /\ DropTail(f).tail = None
           /\ Stored(DropTail(f)) = Stored(f)
BY DEF DropTail, File, Stored

(* A rewrite cut short leaves some of the lines of the file, in order and  *)
(* each of them whole, and a tail.                                         *)
LEMMA RemainsKeep ==
    ASSUME NEW f \in File, NEW g \in Remains(f), NEW m \in Nat, FreshIn(f, m), Whole(f)
    PROVE  g \in File /\ Whole(g) /\ FreshIn(g, m) /\ Stored(g) \subseteq Stored(f)
<1>1. f.lines \in Seq(Line) /\ Len(f.lines) \in Nat /\ DOMAIN f.lines = 1..Len(f.lines)
  BY DEF File
<1>2. PICK n \in 0..Len(f.lines) :
        \E tail \in {None, Torn} \cup {f.lines[i] : i \in {n + 1} \cap DOMAIN f.lines} :
           g = [lines |-> SubSeq(f.lines, 1, n), tail |-> tail]
  BY DEF Remains
<1>3. PICK tail \in {None, Torn} \cup {f.lines[i] : i \in {n + 1} \cap DOMAIN f.lines} :
        g = [lines |-> SubSeq(f.lines, 1, n), tail |-> tail]
  BY <1>2
<1>4. /\ g.lines \in Seq(Line) /\ Len(g.lines) = n /\ DOMAIN g.lines = 1..n
      /\ \A i \in 1..n : g.lines[i] = f.lines[i]
  BY <1>1, <1>3
<1>5. g.tail \in {None, Torn} \/ (n + 1 \in 1..Len(f.lines) /\ g.tail = f.lines[n + 1])
  BY <1>1, <1>3
<1>6. g \in File
  BY <1>1, <1>3, <1>4, <1>5 DEF File, Line
<1>7. Whole(g)
  BY <1>1, <1>4 DEF Whole
<1>8. g.tail \in Nat => g.tail < m
  BY <1>1, <1>5, MarkersAssumption DEF FreshIn, Whole
<1>9. FreshIn(g, m)
  BY <1>1, <1>4, <1>8 DEF FreshIn
<1>10. Stored(g) \subseteq Stored(f)
  BY <1>1, <1>4 DEF Stored
<1>11. QED
  BY <1>6, <1>7, <1>9, <1>10

(* What loading a session keeps: Repaired ends with neither a tail nor a   *)
(* torn line, and takes no record away.                                    *)
LEMMA RepairedSession ==
    ASSUME TypeOK, SessionShape, kind = "session"
    PROVE  /\ Repaired(file) \in File
           /\ Repaired(file).tail = None
           /\ Whole(Repaired(file))
           /\ Stored(Repaired(file)) = Stored(file)
           /\ Fresh => FreshIn(Repaired(file), next)
           /\ ~Refuses(file)
<1> DEFINE n == Len(file.lines)
<1>1. file \in File /\ file.lines \in Seq(Line) /\ n \in Nat /\ DOMAIN file.lines = 1..n
  BY DEF TypeOK, File
<1>2. None # Torn /\ Torn \notin Nat /\ None \notin Nat
  BY MarkersAssumption
<1>3. CASE file.tail = Torn
  <2>1. Whole(file)
    BY <1>3 DEF SessionShape
  <2>2. RawLines(file) = Append(file.lines, Torn) /\ Len(RawLines(file)) = n + 1
    BY <1>1, <1>2, <1>3 DEF RawLines, Line
  <2>3. DOMAIN RawLines(file) = 1..(n + 1) /\ RawLines(file)[n + 1] = Torn
    BY <1>1, <2>2 DEF Line
  <2>4. \A i \in 1..n : RawLines(file)[i] = file.lines[i]
    BY <1>1, <2>2 DEF Line
  <2>5. TornLines(file) = {n + 1}
    BY <1>1, <2>1, <2>3, <2>4 DEF TornLines, Whole
  <2>6. Repaired(file) = DropTail(file)
    BY <1>3, <2>5 DEF Repaired, TruncateTorn
  <2>7. ~Refuses(file)
    BY <2>2, <2>5 DEF Refuses
  <2>8. Repaired(file).lines = file.lines
    BY <1>1, <2>6, DropTailKeeps
  <2>9. QED
    BY <1>1, <1>2, <2>1, <2>6, <2>7, <2>8, DropTailKeeps DEF Whole, Fresh, FreshIn
<1>4. CASE file.tail = None
  <2>1. RawLines(file) = file.lines
    BY <1>4 DEF RawLines
  <2>2. \A i \in TornLines(file) : i = n
    BY <1>1, <2>1 DEF TornLines, SessionShape, WholeButLast
  <2>3. ~Refuses(file)
    BY <2>1, <2>2 DEF Refuses
  <2>4. CASE TornLines(file) = {}
    <3>1. Repaired(file) = file /\ Whole(file)
      BY <1>1, <2>1, <2>4 DEF Repaired, TornLines, Whole
    <3>2. QED
      BY <1>1, <1>4, <2>3, <3>1 DEF Fresh
  <2>5. CASE TornLines(file) # {}
    <3> DEFINE g == Repaired(file)
    <3>1. n \in 1..n /\ file.lines[n] = Torn
      BY <1>1, <2>1, <2>2, <2>5 DEF TornLines
    <3>2. g = [file EXCEPT !.lines = SubSeq(file.lines, 1, n - 1)]
      BY <1>2, <1>4, <2>5 DEF Repaired, TruncateTorn
    <3>3. SubSeq(file.lines, 1, n - 1) \in Seq(Line)
      BY <1>1, <3>1
    <3>4. Len(SubSeq(file.lines, 1, n - 1)) = n - 1
      BY <1>1, <3>1
    <3>5. \A i \in 1..(n - 1) : SubSeq(file.lines, 1, n - 1)[i] = file.lines[i]
      BY <1>1, <3>1
    <3>6. g \in File /\ g.tail = None /\ g.lines = SubSeq(file.lines, 1, n - 1)
      BY <1>1, <1>4, <3>2, <3>3 DEF File
    <3>7. \A i \in 1..(n - 1) : file.lines[i] # Torn
      BY DEF SessionShape, WholeButLast
    <3>8. Whole(g)
      BY <3>4, <3>5, <3>6, <3>7 DEF Whole
    <3>9. DOMAIN g.lines = 1..(n - 1)
      BY <3>3, <3>4, <3>6
    <3>10. Stored(g) = Stored(file)
      <4>1. \A i \in 1..(n - 1) : g.lines[i] = file.lines[i]
        BY <3>5, <3>6
      <4>2. 1..n = 1..(n - 1) \cup {n}
        BY <1>1, <3>1
      <4>3. Stored(g) = {g.lines[i] : i \in 1..(n - 1)} \ {Torn}
        BY <3>9 DEF Stored
      <4>4. Stored(file) = {file.lines[i] : i \in 1..(n - 1)} \ {Torn}
        BY <1>1, <3>1, <4>2 DEF Stored
      <4> HIDE DEF n, g
      <4> QED
        BY <4>1, <4>3, <4>4
    <3>11. Fresh => FreshIn(g, next)
      BY <1>1, <1>2, <3>1, <3>4, <3>5, <3>6 DEF Fresh, FreshIn
    <3>12. QED
      BY <2>3, <3>4, <3>6, <3>8, <3>10, <3>11
  <2>6. QED
    BY <2>4, <2>5
<1>5. QED
  BY <1>3, <1>4 DEF SessionShape

(* A registry's reader accepts every registry this code writes.            *)
LEMMA RegistryLoads ==
    ASSUME TypeOK, RegistryShape, kind = "registry"
    PROVE  ~Refuses(file)
<1> DEFINE n == Len(file.lines)
<1>1. file.lines \in Seq(Line) /\ n \in Nat /\ DOMAIN file.lines = 1..n /\ Whole(file)
  BY DEF TypeOK, RegistryShape
<1>2. CASE file.tail = None
  <2>1. TornLines(file) = {}
    BY <1>1, <1>2 DEF TornLines, RawLines, Whole
  <2>2. QED
    BY <2>1 DEF Refuses
<1>3. CASE file.tail # None
  <2>1. file.tail \in Line
    BY <1>3 DEF TypeOK
  <2>2. RawLines(file) = Append(file.lines, file.tail)
    BY <1>3 DEF RawLines
  <2>3. Len(RawLines(file)) = n + 1 /\ DOMAIN RawLines(file) = 1..(n + 1)
    BY <1>1, <2>1, <2>2
  <2>4. \A i \in 1..n : RawLines(file)[i] = file.lines[i]
    BY <1>1, <2>1, <2>2
  <2>5. \A i \in TornLines(file) : i = n + 1
    BY <1>1, <2>3, <2>4 DEF TornLines, Whole
  <2>6. QED
    BY <2>3, <2>5 DEF Refuses
<1>4. QED
  BY <1>2, <1>3

(* An append, cut short or not, keeps the file's shape, every record it    *)
(* stored, and adds at most the one being written.                         *)
LEMMA WriteKeeps ==
    ASSUME TypeOK, Fresh, RegistryShape, NEW cut \in Cut,
           kind = "session" => Whole(file) /\ file.tail \in {None, Torn},
           kind = "session" => cut # "unterminated",
           kind = "registry" => file.tail = None
    PROVE  LET g == Written(file, next, cut) IN
           /\ g \in File
           /\ FreshIn(g, next + 1)
           /\ Stored(file) \subseteq Stored(g)
           /\ Stored(g) \in {Stored(file), Stored(file) \cup {next}}
           /\ kind = "registry" => Whole(g)
           /\ kind = "session" => /\ g.tail \in {None, Torn}
                                  /\ WholeButLast(g)
                                  /\ g.tail = Torn => Whole(g)
                                  /\ file.tail = None => Whole(g)
<1> DEFINE f == file
           g == Written(f, next, cut)
<1>1. /\ file \in File /\ next \in Nat
      /\ kind = "registry" => f.tail = None
  BY DEF TypeOK, File
<1>2. None # Torn /\ Torn \notin Nat /\ None \notin Nat
  BY MarkersAssumption
<1>3. g \in File
  BY <1>1, WrittenCases
<1>4. f.lines \in Seq(Line) /\ Len(f.lines) \in Nat
  BY <1>1 DEF File
<1>5. FreshIn(f, next) /\ (kind = "registry" => Whole(f)) /\ (kind = "session" => Whole(f))
  BY <1>1, <1>2 DEF Fresh, FreshIn, RegistryShape, Whole
<1>6. CASE g.lines = f.lines /\ g.tail \in {f.tail, Torn}
  <2>1. Stored(g) = Stored(f)
    BY <1>6 DEF Stored
  <2>2. FreshIn(g, next + 1)
    BY <1>1, <1>2, <1>3, <1>4, <1>5, <1>6 DEF FreshIn, File, Line, Record
  <2>3. QED
    BY <1>1, <1>2, <1>3, <1>4, <1>5, <1>6, <2>1, <2>2 DEF Whole, WholeButLast
<1>7. CASE g.lines = f.lines /\ g.tail = next /\ cut = "unterminated"
  <2>1. Stored(g) = Stored(f)
    BY <1>7 DEF Stored
  <2>2. FreshIn(g, next + 1)
    BY <1>1, <1>2, <1>3, <1>4, <1>5, <1>7 DEF FreshIn, File, Line, Record
  <2>3. QED
    BY <1>1, <1>2, <1>3, <1>5, <1>7, <2>1, <2>2 DEF Whole
<1>8. CASE g.lines = Append(f.lines, Joined(f, next)) /\ g.tail = None
  <2>1. Joined(f, next) \in {next, Torn} /\ Joined(f, next) \in Line
    BY <1>1 DEF Joined, Line, Record
  <2>2. f.tail = None => Joined(f, next) = next
    BY DEF Joined
  <2>3. Stored(g) = Stored(f) \cup ({Joined(f, next)} \ {Torn})
    BY <1>1, <1>3, <1>8, <2>1, StoredOfAppend
  <2>4. Stored(g) \in {Stored(file), Stored(file) \cup {next}}
    BY <1>1, <1>2, <2>1, <2>3
  <2>5. Len(g.lines) = Len(f.lines) + 1 /\ g.lines[Len(f.lines) + 1] = Joined(f, next)
    BY <1>4, <1>8, <2>1
  <2>6. \A i \in 1..Len(f.lines) : g.lines[i] = f.lines[i]
    BY <1>4, <1>8, <2>1
  <2>7. \A i \in 1..Len(f.lines) : f.lines[i] # Torn => f.lines[i] \in Nat
    BY <1>4 DEF Line, Record
  <2>8. FreshIn(g, next + 1)
    BY <1>1, <1>2, <1>4, <1>5, <1>8, <2>1, <2>5, <2>6, <2>7 DEF FreshIn
  <2>9. (kind \in Repairing => WholeButLast(g)) /\ (f.tail = None /\ kind \in Repairing => Whole(g))
    BY <1>1, <1>2, <1>4, <1>5, <2>2, <2>5, <2>6 DEF Whole, WholeButLast, Repairing
  <2>10. QED
    BY <1>1, <1>2, <1>3, <1>8, <2>3, <2>4, <2>8, <2>9 DEF Repairing
<1>9. QED
  BY <1>1, <1>6, <1>7, <1>8, WrittenCases

(* What every action that writes a record does to the file and to next.    *)
LEMMA WriteStep ==
    ASSUME NoNewlineCut, IInv, kind' = kind, NEW cut \in Cut,
           mode \in {"up", "failing", "rewriting"},
           kind = "session" => cut # "unterminated",
           kind = "registry" => file.tail = None,
           file' = Written(file, next, cut), next' = next + 1
    PROVE  /\ file' \in File /\ next' \in Nat
           /\ Fresh'
           /\ RegistryShape'
           /\ Stored(file) \subseteq Stored(file')
           /\ Stored(file') \in {Stored(file), Stored(file) \cup {next}}
           /\ kind = "session" => /\ file.tail = None => Whole(file')
                                  /\ mode' = "down" => SessionShape'
<1>1. kind = "session" => Whole(file) /\ file.tail \in {None, Torn}
  BY DEF IInv, SessionShape
<1>2. TypeOK /\ Fresh /\ RegistryShape
  BY DEF IInv
<1>3. next' \in Nat
  BY <1>2 DEF TypeOK
<1>4. QED
  BY <1>1, <1>2, <1>3, WriteKeeps DEF Fresh, RegistryShape, SessionShape

(* A well-typed file parses to a set of records.                           *)
LEMMA TypeOKFile == ASSUME TypeOK PROVE file \in File /\ Parsed(file) \in SUBSET Record
<1>1. file \in File /\ file.lines \in Seq(Line) /\ file.tail \in Line \cup {None}
  BY DEF TypeOK, File
<1>2. RawLines(file) \in Seq(Line)
  BY <1>1 DEF RawLines
<1>3. QED
  BY <1>1, <1>2 DEF Parsed, Line

(* What the assumption on cuts says of a kind of file.                     *)
LEMMA CutsTolerated ==
    ASSUME NoNewlineCut, TypeOK, NEW cut \in CutsOf[kind]
    PROVE  cut \in Cut /\ (kind = "session" => cut # "unterminated")
BY CutsAssumption DEF NoNewlineCut, TypeOK

\* What holds of every step that writes a record, or a part of it.
WriteEffect ==
    /\ file' \in File /\ next' \in Nat
    /\ Fresh'
    /\ RegistryShape'
    /\ Stored(file) \subseteq Stored(file')
    /\ Stored(file') \in {Stored(file), Stored(file) \cup {next}}

(* ... of which an append cut short is one.                                *)
LEMMA PartialStep ==
    ASSUME NoNewlineCut, IInv, kind' = kind, mode \in {"up", "failing", "rewriting"},
           kind = "registry" => file.tail = None,
           file' \in Partial, next' = next + 1
    PROVE  /\ WriteEffect
           /\ kind = "session" => /\ file.tail = None => Whole(file') /\ file'.tail \in {None, Torn}
                                  /\ mode' = "down" => SessionShape'
<1>0. TypeOK /\ Fresh /\ RegistryShape
  BY DEF IInv
<1>1. PICK cut \in CutsOf[kind] : file' = Written(file, next, cut)
  BY DEF Partial
<1>2. cut \in Cut /\ (kind = "session" => cut # "unterminated")
  BY <1>0, <1>1, CutsTolerated
<1>3. kind = "session" => Whole(file) /\ file.tail \in {None, Torn}
  BY DEF IInv, SessionShape
<1>4. kind = "session" => file'.tail \in {None, Torn}
  BY <1>0, <1>1, <1>2, <1>3, WriteKeeps
<1>5. QED
  BY <1>1, <1>2, <1>4, WriteStep DEF WriteEffect

(***************************************************************************)
(* The inductive invariant holds initially and is kept by every step.      *)
(***************************************************************************)
LEMMA InitEstablishes == Init => IInv
<1> SUFFICES ASSUME Init PROVE IInv
  OBVIOUS
<1>1. file.lines = <<>> /\ file.tail = None /\ Len(file.lines) = 0 /\ file.lines \in Seq(Line)
  BY DEF Init
<1>2. TypeOK
  BY <1>1, BoundsAssumption DEF Init, TypeOK, Modes
<1>3. FreshIn(file, next) /\ Whole(file) /\ WholeButLast(file)
  BY <1>1, MarkersAssumption DEF FreshIn, Whole, WholeButLast
<1>4. QED
  BY <1>1, <1>2, <1>3 DEF Init, IInv, Fresh, RegistryShape, SessionShape

(* Every action keeps the inductive invariant.                             *)
LEMMA StepKeeps ==
    ASSUME NoNewlineCut, IInv, [Next]_vars
    PROVE  IInv'
<1>0. TypeOK /\ file \in File /\ next \in Nat /\ cuts \in Nat
  BY TypeOKFile DEF IInv, TypeOK
<1>1. CASE AppendEntry
  <2>1. "whole" \in Cut /\ kind' = kind /\ mode \in {"up", "rewriting"} /\ mode' = "up"
    BY <1>1 DEF AppendEntry, Cut
  <2>2. kind \in Repairing => file.tail = None
    BY <1>1, <2>1 DEF AppendEntry, MustRewrite, IInv, SessionShape, Repairing
  <2>3. /\ file' \in File /\ next' \in Nat /\ Fresh' /\ RegistryShape'
        /\ Stored(file) \subseteq Stored(file')
        /\ kind = "session" => (file.tail = None => Whole(file'))
    BY <1>1, <2>1, <2>2, WriteStep DEF AppendEntry, Repairing
  <2>4. file'.tail = None
    BY <1>1 DEF AppendEntry, Written
  <2>5. SessionShape'
    BY <2>1, <2>2, <2>3, <2>4 DEF SessionShape, Whole, WholeButLast, Repairing
  <2>6. kind \in Repairing => next \in Stored(file')
    <3>1. SUFFICES ASSUME kind \in Repairing PROVE next \in Stored(file')
      OBVIOUS
    <3>2. file'.lines = Append(file.lines, next)
      BY <1>1, <2>2, <3>1 DEF AppendEntry, Written, Joined
    <3>3. next \in Line /\ next # Torn
      BY <1>0, MarkersAssumption DEF Line, Record
    <3>4. QED
      BY <1>0, <2>3, <3>2, <3>3, StoredOfAppend
  <2>7. TypeOK'
    BY <1>0, <1>1, <2>3 DEF AppendEntry, TypeOK, File, Record, Modes
  <2>8. QED
    BY <1>1, <2>1, <2>3, <2>5, <2>6, <2>7 DEF IInv, AppendEntry
<1>2. CASE CrashInAppend
  <2>1. kind' = kind /\ mode = "up" /\ mode' = "down" /\ next' = next + 1 /\ file' \in Partial
    BY <1>2 DEF CrashInAppend, Interrupted, CutShort
  <2>2. kind = "registry" => file.tail = None
    BY <1>2 DEF CrashInAppend, MustRewrite
  <2>3. WriteEffect /\ (kind = "session" => SessionShape')
    BY <2>1, <2>2, PartialStep
  <2>4. TypeOK'
    BY <1>0, <1>2, <2>3 DEF WriteEffect, CrashInAppend, Interrupted, CutShort, TypeOK, File, Modes
  <2>5. QED
    BY <1>2, <2>1, <2>3, <2>4 DEF WriteEffect, IInv, CrashInAppend, SessionShape
<1>3. CASE FailAppend
  <2>1. kind = "session" /\ kind' = kind /\ mode = "up" /\ mode' = "failing" /\ next' = next + 1
        /\ file' \in Partial
    BY <1>3 DEF FailAppend, Interrupted, CutShort
  <2>2. file.tail = None
    BY <2>1 DEF IInv, SessionShape
  <2>3. WriteEffect /\ Whole(file') /\ file'.tail \in {None, Torn}
    BY <2>1, <2>2, PartialStep
  <2>4. SessionShape'
    BY <2>1, <2>3 DEF SessionShape, Whole, WholeButLast
  <2>5. TypeOK'
    BY <1>0, <1>3, <2>3 DEF WriteEffect, FailAppend, Interrupted, CutShort, TypeOK, File, Modes
  <2>6. QED
    BY <1>3, <2>1, <2>3, <2>4, <2>5 DEF WriteEffect, IInv, FailAppend, Repairing
<1>4. CASE EndAfterFailure
  <2>1. kind = "session" /\ kind' = kind /\ mode = "failing" /\ mode' = "down" /\ next' = next + 1
    BY <1>4 DEF EndAfterFailure, IInv
  <2>2. file' = Written(file, next, "whole") /\ "whole" \in Cut
    BY <1>4, <2>1 DEF EndAfterFailure, Cut
  <2>3. /\ file' \in File /\ next' \in Nat /\ Fresh' /\ RegistryShape' /\ SessionShape'
        /\ Stored(file) \subseteq Stored(file')
    BY <2>1, <2>2, WriteStep
  <2>4. TypeOK'
    BY <1>0, <1>4, <2>3 DEF EndAfterFailure, TypeOK, File, Modes
  <2>5. QED
    BY <1>4, <2>1, <2>3, <2>4 DEF IInv, EndAfterFailure, Repairing
<1>5. CASE EndSuppressed
  <2>1. kind = "session" /\ kind' = kind /\ mode = "failing" /\ mode' = "down"
    BY <1>5 DEF EndSuppressed, IInv
  <2>2. CASE Interrupted
    <3>1. file' \in Partial /\ next' = next + 1
      BY <2>2 DEF Interrupted, CutShort
    <3>2. WriteEffect /\ SessionShape'
      BY <2>1, <3>1, PartialStep
    <3>3. TypeOK'
      BY <1>0, <1>5, <2>2, <3>2
         DEF WriteEffect, EndSuppressed, Interrupted, CutShort, TypeOK, File, Modes
    <3>4. QED
      BY <1>5, <2>1, <3>2, <3>3 DEF WriteEffect, IInv, EndSuppressed, Repairing
  <2>3. CASE UNCHANGED <<file, next, cuts>>
    <3>1. TypeOK' /\ Fresh' /\ RegistryShape' /\ SessionShape'
      BY <1>5, <2>1, <2>3
         DEF IInv, EndSuppressed, TypeOK, Fresh, RegistryShape, SessionShape, Modes
    <3>2. QED
      BY <1>5, <2>1, <2>3, <3>1 DEF IInv, EndSuppressed, Repairing
  <2>4. QED
    BY <1>5, <2>2, <2>3 DEF EndSuppressed
<1>6. CASE Exit
  BY <1>6 DEF Exit, IInv, TypeOK, Fresh, RegistryShape, SessionShape, Modes
<1>7. CASE Load
  <2>1. kind' = kind /\ mode' = "up" /\ file' = Repaired(file) /\ next' = next
    BY <1>7 DEF Load
  <2>2. CASE kind = "session"
    <3>1. /\ file' \in File /\ file'.tail = None /\ Whole(file')
          /\ Stored(file') = Stored(file) /\ Fresh'
      BY <1>0, <2>1, <2>2, RepairedSession DEF IInv, Fresh
    <3>2. SessionShape' /\ RegistryShape'
      BY <2>1, <2>2, <3>1 DEF SessionShape, RegistryShape, Whole, WholeButLast
    <3>3. TypeOK'
      BY <1>0, <1>7, <3>1, TypeOKFile DEF Load, TypeOK, File, Modes
    <3>4. QED
      BY <1>7, <2>1, <3>1, <3>2, <3>3 DEF IInv, Load
  <2>3. CASE kind # "session"
    <3>1. file' = file
      BY <2>1, <2>3 DEF Repaired
    <3>2. TypeOK'
      BY <1>0, <1>7, <3>1, TypeOKFile DEF Load, TypeOK, Modes
    <3>3. QED
      BY <1>7, <2>1, <2>3, <3>1, <3>2
         DEF IInv, Load, Fresh, RegistryShape, SessionShape
  <2>4. QED
    BY <2>2, <2>3
<1>8. CASE LoadRefused
  <2>1. kind \notin Repairing
    BY <1>0, <1>8, RepairedSession, RegistryLoads DEF LoadRefused, IInv, Repairing
  <2>2. TypeOK'
    BY <1>0, <1>8 DEF LoadRefused, TypeOK, Modes
  <2>3. QED
    BY <1>8, <2>1, <2>2 DEF LoadRefused, IInv, Fresh, RegistryShape, SessionShape
<1>9. CASE UNCHANGED vars
  BY <1>9 DEF vars, IInv, TypeOK, Fresh, RegistryShape, SessionShape
<1>10. CASE Rewrite
  <2>1. kind = "registry" /\ kind' = kind /\ mode' = "rewriting" /\ next' = next
        /\ file' = DropTail(file)
    BY <1>10 DEF Rewrite, MustRewrite
  <2>2. /\ file' \in File /\ file'.lines = file.lines /\ file'.tail = None
        /\ Stored(file') = Stored(file)
    BY <1>0, <2>1, DropTailKeeps
  <2>3. TypeOK'
    BY <1>0, <1>10, <2>2 DEF Rewrite, TypeOK, File, Modes
  <2>4. Fresh' /\ RegistryShape' /\ SessionShape'
    BY <1>0, <2>1, <2>2, MarkersAssumption
       DEF IInv, Fresh, FreshIn, RegistryShape, SessionShape, Whole
  <2>5. QED
    BY <1>10, <2>1, <2>2, <2>3, <2>4 DEF IInv, Rewrite
<1>11. CASE CrashInRewrite
  <2>1. /\ kind = "registry" /\ kind' = kind /\ mode' = "down" /\ next' = next + 1 /\ broken'
        /\ file.tail = None /\ mode = "rewriting"
        /\ file' \in Remains(file) \/ file' \in Partial
    BY <1>11 DEF CrashInRewrite, CutShort, IInv
  <2>2. file' \in File /\ Fresh' /\ RegistryShape'
    <3>1. CASE file' \in Remains(file)
      <4>1. FreshIn(file, next) /\ Whole(file)
        BY <2>1 DEF IInv, Fresh, RegistryShape
      <4>2. file' \in File /\ Whole(file') /\ FreshIn(file', next)
        BY <1>0, <3>1, <4>1, RemainsKeep
      <4>3. \A i \in 1..Len(file'.lines) : file'.lines[i] # Torn => file'.lines[i] \in Nat
        BY <4>2 DEF File, Line, Record
      <4>4. FreshIn(file', next + 1)
        BY <1>0, <4>2, <4>3 DEF FreshIn
      <4>5. QED
        BY <2>1, <4>2, <4>4 DEF Fresh, RegistryShape
    <3>2. CASE file' \in Partial
      BY <2>1, <3>2, PartialStep DEF WriteEffect
    <3>3. QED
      BY <2>1, <3>1, <3>2
  <2>3. TypeOK'
    BY <1>0, <1>11, <2>2 DEF CrashInRewrite, CutShort, TypeOK, File, Modes
  <2>4. QED
    BY <1>11, <2>1, <2>2, <2>3 DEF IInv, SessionShape
<1>12. QED
  BY <1>1, <1>2, <1>3, <1>4, <1>5, <1>6, <1>7, <1>8, <1>9, <1>10, <1>11 DEF Next

(***************************************************************************)
(* For any number of records and crashes, the inductive invariant holds.   *)
(***************************************************************************)
THEOREM Inductive == ASSUME NoNewlineCut PROVE Spec => []IInv
<1>1. Init => IInv
  BY InitEstablishes
<1>2. IInv /\ [Next]_vars => IInv'
  BY StepKeeps
<1>3. QED
  BY <1>1, <1>2, PTL DEF Spec

(***************************************************************************)
(* Every variable keeps its type, for any number of records and crashes.   *)
(***************************************************************************)
THEOREM TypeCorrect == ASSUME NoNewlineCut PROVE Spec => []TypeOK
<1>1. IInv => TypeOK
  BY DEF IInv
<1>2. QED
  BY <1>1, Inductive, PTL

(***************************************************************************)
(* Session journals keep every record whose append returned, and load      *)
(* after any sequence of crashes, full disks, repairs and resumes that     *)
(* never cuts a session line from its newline; the registry loads after    *)
(* any cut, and keeps every such record until a crash meets the rewrite.   *)
(***************************************************************************)
THEOREM AckedRecordsSurvive == ASSUME NoNewlineCut PROVE Spec => []AckedSurvive
<1>1. IInv => AckedSurvive
  BY DEF IInv, AckedSurvive, Repairing
<1>2. QED
  BY <1>1, Inductive, PTL

(* A repaired or untorn session parses to exactly what it stores.          *)
LEMMA ParsedIsStored ==
    ASSUME TypeOK, kind = "session", file.tail \in {None, Torn}
    PROVE  Parsed(file) = Stored(file)
<1>1. file.lines \in Seq(Line) /\ Len(file.lines) \in Nat
  BY DEF TypeOK
<1>2. CASE file.tail = None
  BY <1>2 DEF Parsed, Stored, RawLines
<1>3. CASE file.tail = Torn /\ file.tail # None
  <2> DEFINE raw == Append(file.lines, Torn)
  <2>1. RawLines(file) = raw
    BY <1>3 DEF RawLines
  <2>2. DOMAIN raw = 1..(Len(file.lines) + 1) /\ raw[Len(file.lines) + 1] = Torn
    BY <1>1 DEF Line
  <2>3. \A i \in 1..Len(file.lines) : raw[i] = file.lines[i]
    BY <1>1 DEF Line
  <2>4. DOMAIN file.lines = 1..Len(file.lines)
    BY <1>1
  <2>5. QED
    BY <1>1, <2>1, <2>2, <2>3, <2>4 DEF Parsed, Stored
<1>4. QED
  BY <1>2, <1>3

(***************************************************************************)
(* What a resumed session reasons from is what is on disk: its entries are *)
(* the stored records, no more and no fewer, whenever it runs.             *)
(***************************************************************************)
THEOREM SessionMemoryIsDisk == ASSUME NoNewlineCut PROVE Spec => []MemoryIsDisk
<1>1. Init => MemoryIsDisk
  <2> SUFFICES ASSUME Init PROVE MemoryIsDisk
    OBVIOUS
  <2>1. file.lines = <<>> /\ file.tail = None /\ entries = {}
    BY DEF Init
  <2>2. Stored(file) = {}
    BY <2>1 DEF Stored
  <2>3. QED
    BY <2>1, <2>2 DEF MemoryIsDisk
<1>2. IInv /\ MemoryIsDisk /\ [Next]_vars => MemoryIsDisk'
  <2> SUFFICES ASSUME IInv, MemoryIsDisk, [Next]_vars, kind' = "session", mode' = "up"
               PROVE  entries' = Stored(file') /\ file'.tail = None
    BY DEF MemoryIsDisk
  <2>1. kind = "session" /\ TypeOK /\ SessionShape
    BY DEF IInv, Next, AppendEntry, Rewrite, CrashInAppend, CrashInRewrite, FailAppend,
           EndAfterFailure, EndSuppressed, Exit, Load, LoadRefused, vars
  <2>2. CASE AppendEntry
    <3>0. mode = "up"
      BY <2>1, <2>2 DEF AppendEntry, IInv
    <3>1. file.tail = None /\ entries = Stored(file) /\ file \in File /\ next \in Nat
      BY <2>1, <2>2, <3>0, TypeOKFile DEF MemoryIsDisk, TypeOK
    <3>2. file' = [lines |-> Append(file.lines, next), tail |-> None]
      BY <2>2, <3>1 DEF AppendEntry, Written, Joined
    <3>3. file' \in File /\ file'.lines = Append(file.lines, next)
      BY <3>1, <3>2 DEF File, Line, Record
    <3>4. Stored(file') = Stored(file) \cup {next}
      BY <3>1, <3>3, StoredOfAppend, MarkersAssumption DEF Line, Record
    <3>5. QED
      BY <2>2, <3>1, <3>2, <3>4 DEF AppendEntry
  <2>3. CASE Load
    <3>1. Stored(file') = Stored(file) /\ file'.tail = None
      BY <2>1, <2>3, RepairedSession DEF Load
    <3>2. entries' = Parsed(file)
      BY <2>3 DEF Load
    <3>3. QED
      BY <2>1, <3>1, <3>2, ParsedIsStored DEF SessionShape
  <2>4. CASE UNCHANGED vars
    BY <2>4 DEF vars, MemoryIsDisk
  <2>5. QED
    BY <2>1, <2>2, <2>3, <2>4 DEF Next, Rewrite, CrashInAppend, CrashInRewrite, FailAppend,
       EndAfterFailure, EndSuppressed, Exit, LoadRefused
<1>3. QED
  BY <1>1, <1>2, Inductive, PTL DEF Spec

----------------------------------------------------------------------------
\* The record about to be written is not on disk yet.
NextIsFresh == next \notin Stored(file)

(* The inductive invariant's freshness, in the terms of the log.           *)
LEMMA FreshIsNew == ASSUME TypeOK, Fresh PROVE NextIsFresh
<1>1. file.lines \in Seq(Line) /\ next \in Nat
  BY DEF TypeOK
<1>2. DOMAIN file.lines = 1..Len(file.lines)
  BY <1>1
<1>3. QED
  BY <1>1, <1>2 DEF NextIsFresh, Stored, Fresh, FreshIn

\* The log's variables.
LogVars == <<IF kind \in Repairing THEN Stored(file) ELSE {},
             IF kind \in Repairing THEN acked ELSE {},
             kind \in Repairing => ~broken>>

(* What a step that writes next may do to a repairing file is a log step.  *)
LEMMA LogStep ==
    ASSUME next \in 0..(MaxRecords - 1), NextIsFresh, kind' = kind, broken' = broken,
           \/ kind \in Repairing => /\ Stored(file') = Stored(file)
                                    /\ acked' = acked
           \/ kind \in Repairing => /\ Stored(file') = Stored(file) \cup {next}
                                    /\ acked' = acked
           \/ kind \in Repairing => /\ Stored(file') = Stored(file) \cup {next}
                                    /\ acked' = acked \cup {next}
    PROVE  [Log!Next]_LogVars
BY DEF NextIsFresh, LogVars, Log!Next, Log!Acknowledge, Log!StoreUnacknowledged

(* A step that stores and acknowledges nothing is a stutter of the log.    *)
LEMMA LogStutters ==
    ASSUME kind' = kind, broken' = broken,
           kind \in Repairing => Stored(file') = Stored(file) /\ acked' = acked
    PROVE  [Log!Next]_LogVars
BY DEF LogVars

(***************************************************************************)
(* The repairing files implement the durable log: each step acknowledges   *)
(* the record it writes, or stores it unacknowledged, or breaks off the    *)
(* rewriting of the file, or changes nothing the log shows.                *)
(***************************************************************************)
THEOREM Refinement == ASSUME NoNewlineCut PROVE Spec => ImplementsDurableLog
<1>1. Init => Log!Init
  BY DEF Init, Log!Init, Stored
<1>2. IInv /\ [Next]_vars => [Log!Next]_LogVars
  <2> SUFFICES ASSUME IInv, [Next]_vars PROVE [Log!Next]_LogVars
    OBVIOUS
  <2>1. TypeOK /\ Fresh /\ RegistryShape /\ file \in File /\ next \in Nat /\ NextIsFresh
    BY FreshIsNew, TypeOKFile DEF IInv, TypeOK
  <2>2. next < MaxRecords => next \in 0..(MaxRecords - 1)
    BY <2>1, BoundsAssumption
  <2>3. ASSUME WriteEffect, next < MaxRecords, kind' = kind, acked' = acked, broken' = broken
        PROVE  [Log!Next]_LogVars
    BY <2>1, <2>2, <2>3, LogStep DEF WriteEffect
  <2>4. CASE AppendEntry
    <3>1. /\ kind' = kind /\ mode \in {"up", "rewriting"} /\ next < MaxRecords
          /\ acked' = acked \cup {next} /\ broken' = broken
      BY <2>4 DEF AppendEntry
    <3>2. kind \in Repairing => Stored(file') = Stored(file) \cup {next}
      <4> SUFFICES ASSUME kind \in Repairing PROVE Stored(file') = Stored(file) \cup {next}
        OBVIOUS
      <4>1. file.tail = None
        BY <2>4 DEF AppendEntry, MustRewrite, IInv, SessionShape, Repairing
      <4>2. file' = [lines |-> Append(file.lines, next), tail |-> None]
        BY <2>4, <4>1 DEF AppendEntry, Written, Joined
      <4>3. file' \in File /\ next \in Line /\ next # Torn
        BY <2>1, <4>2, MarkersAssumption DEF File, Line, Record
      <4>4. QED
        BY <2>1, <4>2, <4>3, StoredOfAppend
    <3>3. QED
      BY <2>1, <2>2, <3>1, <3>2, LogStep
  <2>5. CASE CrashInAppend
    <3>1. kind = "registry" => file.tail = None
      BY <2>5 DEF CrashInAppend, MustRewrite
    <3>2. WriteEffect
      BY <2>5, <3>1, PartialStep DEF CrashInAppend, Interrupted, CutShort
    <3>3. QED
      BY <2>3, <2>5, <3>2 DEF CrashInAppend, Interrupted, CutShort
  <2>6. CASE FailAppend
    <3>1. WriteEffect
      BY <2>6, PartialStep DEF FailAppend, Interrupted, CutShort
    <3>2. QED
      BY <2>3, <2>6, <3>1 DEF FailAppend, Interrupted, CutShort
  <2>7. CASE EndAfterFailure
    <3>1. kind = "session" /\ mode = "failing" /\ kind' = kind /\ "whole" \in Cut
      BY <2>7 DEF EndAfterFailure, IInv, Cut
    <3>2. WriteEffect
      BY <2>7, <3>1, WriteStep DEF EndAfterFailure, WriteEffect
    <3>3. QED
      BY <2>3, <2>7, <3>2 DEF EndAfterFailure
  <2>8. CASE EndSuppressed
    <3>1. kind = "session" /\ mode = "failing" /\ kind' = kind /\ acked' = acked /\ broken' = broken
      BY <2>8 DEF EndSuppressed, IInv
    <3>2. CASE Interrupted
      <4>1. WriteEffect
        BY <3>1, <3>2, PartialStep DEF Interrupted, CutShort
      <4>2. QED
        BY <2>3, <3>1, <3>2, <4>1 DEF Interrupted, CutShort
    <3>3. CASE UNCHANGED <<file, next, cuts>>
      BY <3>1, <3>3, LogStutters
    <3>4. QED
      BY <2>8, <3>2, <3>3 DEF EndSuppressed
  <2>9. CASE Load
    <3>1. kind' = kind /\ acked' = acked /\ file' = Repaired(file) /\ broken' = broken
      BY <2>9 DEF Load
    <3>2. Stored(file') = Stored(file)
      BY <2>1, <3>1, RepairedSession DEF IInv, Repaired
    <3>3. QED
      BY <3>1, <3>2, LogStutters
  <2>10. CASE Exit \/ LoadRefused \/ UNCHANGED vars
    <3>1. kind' = kind /\ acked' = acked /\ file' = file /\ broken' = broken
      BY <2>10 DEF Exit, LoadRefused, vars
    <3>2. QED
      BY <3>1, LogStutters
  <2>11. CASE Rewrite
    <3>1. kind' = kind /\ acked' = acked /\ file' = DropTail(file) /\ broken' = broken
      BY <2>11 DEF Rewrite
    <3>2. Stored(file') = Stored(file)
      BY <2>1, <3>1, DropTailKeeps
    <3>3. QED
      BY <3>1, <3>2, LogStutters
  <2>12. CASE CrashInRewrite
    <3>1. /\ kind = "registry" /\ kind' = kind /\ acked' = acked /\ broken' = TRUE
          /\ next \in 0..(MaxRecords - 1) /\ next' = next + 1 /\ mode = "rewriting"
          /\ file.tail = None
          /\ file' \in Remains(file) \/ file' \in Partial
      BY <2>2, <2>12 DEF CrashInRewrite, CutShort, IInv
    <3>2. Stored(file') \subseteq Stored(file) \cup {next}
      <4>1. CASE file' \in Remains(file)
        BY <2>1, <3>1, <4>1, RemainsKeep DEF Fresh, RegistryShape
      <4>2. CASE file' \in Partial
        BY <3>1, <4>2, PartialStep DEF WriteEffect
      <4>3. QED
        BY <3>1, <4>1, <4>2
    <3>3. QED
      BY <3>1, <3>2 DEF LogVars, Log!Next, Log!BreakOff, Repairing
  <2>13. QED
    BY <2>4, <2>5, <2>6, <2>7, <2>8, <2>9, <2>10, <2>11, <2>12 DEF Next
<1>3. QED
  BY <1>1, <1>2, Inductive, PTL DEF Spec, ImplementsDurableLog, Log!Spec, LogVars

----------------------------------------------------------------------------
\* The files whose reader and writer repair nothing.
Lossy == {"quality", "marathon"}

\* A tail is paid for by the write that was cut, and loses the next record.
TailLoses(f) == IF f.tail = None THEN 0 ELSE 1

LossInv ==
    /\ kind \in Kinds
    /\ kind \in Lossy =>
         /\ TypeOK
         /\ mode \notin {"failing", "rewriting"}
         /\ IsFiniteSet(acked)
         /\ Cardinality(acked \ Stored(file)) + TailLoses(file) <= cuts
    /\ kind = "marathon" => mode # "refused"

(* A file that stores more leaves no more records lost.                    *)
LEMMA StoringMoreLosesLess ==
    ASSUME NEW S, IsFiniteSet(S), NEW A, NEW B, A \subseteq B
    PROVE  /\ IsFiniteSet(S \ A) /\ IsFiniteSet(S \ B)
           /\ Cardinality(S \ A) \in Nat /\ Cardinality(S \ B) \in Nat
           /\ Cardinality(S \ B) <= Cardinality(S \ A)
<1>1. IsFiniteSet(S \ A) /\ S \ B \subseteq S \ A
  BY FS_Difference
<1>2. QED
  BY <1>1, FS_Subset, FS_CardinalityType

(* One more element is at most one more.                                   *)
LEMMA OneMoreAtMost ==
    ASSUME NEW S, IsFiniteSet(S), NEW r
    PROVE  IsFiniteSet(S \cup {r}) /\ Cardinality(S \cup {r}) <= Cardinality(S) + 1
<1> DEFINE c == Cardinality(S)
           d == Cardinality(S \cup {r})
<1>1. IsFiniteSet(S \cup {r}) /\ c \in Nat
  BY FS_AddElement, FS_CardinalityType
<1>2. d = c \/ d = c + 1
  BY FS_AddElement
<1> HIDE DEF c, d
<1>3. d <= c + 1
  BY <1>1, <1>2
<1>4. QED
  BY <1>1, <1>3 DEF c, d

(* A write that is cut short loses nothing; its tail will.                 *)
LEMMA CutLosesLater ==
    ASSUME LossInv, kind \in Lossy, Interrupted, acked' = acked
    PROVE  /\ file' \in File /\ next' \in Nat /\ cuts' \in Nat
           /\ Cardinality(acked' \ Stored(file')) + TailLoses(file') <= cuts'
<1>1. PICK cut \in CutsOf[kind] : file' = Written(file, next, cut)
  BY DEF Interrupted, CutShort, Partial
<1>2. TypeOK /\ cut \in Cut /\ next \in Nat /\ cuts \in Nat /\ file \in File
  BY <1>1, CutsAssumption, TypeOKFile DEF LossInv, TypeOK
<1>3. next' = next + 1 /\ cuts' = cuts + 1
  BY DEF Interrupted, CutShort
<1>4. file' \in File /\ next' \in Nat /\ cuts' \in Nat
  <2>1. file' \in File
    BY <1>1, <1>2, WrittenCases
  <2>2. QED
    BY <1>2, <1>3, <2>1
<1>5. Stored(file) \subseteq Stored(file')
  <2>1. CASE file'.lines = file.lines
    BY <2>1 DEF Stored
  <2>2. CASE file'.lines = Append(file.lines, Joined(file, next))
    <3>1. Joined(file, next) \in Line
      BY <1>2 DEF Joined, Line, Record
    <3>2. QED
      BY <1>2, <1>4, <2>2, <3>1, StoredOfAppend
  <2>3. QED
    BY <1>1, <1>2, <2>1, <2>2, WrittenCases
<1>6. /\ Cardinality(acked \ Stored(file)) \in Nat /\ Cardinality(acked \ Stored(file')) \in Nat
      /\ Cardinality(acked \ Stored(file')) <= Cardinality(acked \ Stored(file))
  BY <1>5, StoringMoreLosesLess DEF LossInv
<1>7. TailLoses(file) \in {0, 1} /\ TailLoses(file') \in {0, 1}
  BY DEF TailLoses
<1>8. QED
  BY <1>2, <1>3, <1>4, <1>6, <1>7 DEF LossInv

(* An append loses its record exactly when it meets a tail, and ends it.   *)
LEMMA AppendLosesOne ==
    ASSUME LossInv, kind \in Lossy, AppendEntry
    PROVE  /\ TypeOK' /\ IsFiniteSet(acked')
           /\ Cardinality(acked' \ Stored(file')) + TailLoses(file') <= cuts'
<1> DEFINE x == Joined(file, next)
<1>1. /\ TypeOK /\ file \in File /\ next \in Nat /\ cuts \in Nat /\ cuts' = cuts
      /\ acked' = acked \cup {next} /\ IsFiniteSet(acked)
  BY TypeOKFile DEF LossInv, TypeOK, AppendEntry
<1>2. file' = [lines |-> Append(file.lines, x), tail |-> None]
  BY DEF AppendEntry, Written
<1>3. x \in Line /\ file' \in File
  BY <1>1, <1>2 DEF Joined, Line, Record, File
<1>4. TypeOK'
  <2>1. /\ kind' = kind /\ mode' = "up" /\ broken' = broken /\ next' = next + 1
        /\ entries' = entries \cup {next}
    BY DEF AppendEntry
  <2>2. QED
    BY <1>1, <1>3, <2>1 DEF TypeOK, File, Record, Modes
<1>5. Stored(file') = Stored(file) \cup ({x} \ {Torn})
  BY <1>1, <1>2, <1>3, StoredOfAppend
<1>6. IsFiniteSet(acked') /\ TailLoses(file') = 0
  BY <1>1, <1>2, FS_AddElement DEF TailLoses
<1>7. /\ IsFiniteSet(acked \ Stored(file))
      /\ Cardinality(acked \ Stored(file)) \in Nat
      /\ Cardinality(acked \ Stored(file)) + TailLoses(file) <= cuts
  BY <1>1, FS_Difference, FS_CardinalityType DEF LossInv
<1>8. CASE file.tail = None
  <2>1. acked' \ Stored(file') \subseteq acked \ Stored(file)
    BY <1>1, <1>5, <1>8, MarkersAssumption DEF Joined
  <2>2. /\ Cardinality(acked' \ Stored(file')) <= Cardinality(acked \ Stored(file))
        /\ Cardinality(acked' \ Stored(file')) \in Nat
    BY <1>7, <2>1, FS_Subset, FS_CardinalityType
  <2>3. QED
    BY <1>1, <1>4, <1>6, <1>7, <1>8, <2>2 DEF TailLoses
<1>9. CASE file.tail # None
  <2> DEFINE lost == (acked \ Stored(file)) \cup {next}
  <2>1. acked' \ Stored(file') \subseteq lost
    BY <1>1, <1>5
  <2>2. IsFiniteSet(lost) /\ Cardinality(lost) <= Cardinality(acked \ Stored(file)) + 1
    BY <1>7, OneMoreAtMost
  <2>3. /\ Cardinality(acked' \ Stored(file')) <= Cardinality(lost)
        /\ Cardinality(acked' \ Stored(file')) \in Nat /\ Cardinality(lost) \in Nat
    BY <2>1, <2>2, FS_Subset, FS_CardinalityType
  <2>4. TailLoses(file) = 1
    BY <1>9 DEF TailLoses
  <2> HIDE DEF lost
  <2>5. QED
    BY <1>1, <1>4, <1>6, <1>7, <2>2, <2>3, <2>4
<1>10. QED
  BY <1>8, <1>9

(***************************************************************************)
(* Quality and marathon journals lose at most one acknowledged record for  *)
(* each write cut short, whatever the cuts, and a marathon's always loads. *)
(***************************************************************************)
THEOREM LossesAreBounded == Spec => []LossBounded
<1>1. Init => LossInv
  <2> SUFFICES ASSUME Init PROVE LossInv
    OBVIOUS
  <2>1. file.lines = <<>> /\ file.tail = None /\ file.lines \in Seq(Line)
    BY DEF Init
  <2>2. TypeOK
    BY <2>1, BoundsAssumption DEF Init, TypeOK, Modes
  <2>3. acked \ Stored(file) = {} /\ acked = {}
    BY DEF Init
  <2>4. QED
    BY <2>1, <2>2, <2>3, FS_EmptySet DEF Init, LossInv, TailLoses
<1>2. LossInv /\ [Next]_vars => LossInv'
  <2> SUFFICES ASSUME LossInv, [Next]_vars PROVE LossInv'
    OBVIOUS
  <2>1. kind' = kind
    BY DEF Next, AppendEntry, Rewrite, CrashInAppend, CrashInRewrite, FailAppend,
           EndAfterFailure, EndSuppressed, Exit, Load, LoadRefused, vars
  <2>2. kind' = "marathon" => mode' # "refused"
    BY <2>1 DEF LossInv, Next, AppendEntry, Rewrite, CrashInAppend, CrashInRewrite, FailAppend,
           EndAfterFailure, EndSuppressed, Exit, Load, LoadRefused, Refuses, vars
  <2>3. SUFFICES ASSUME kind \in Lossy
                 PROVE  /\ TypeOK' /\ mode' \notin {"failing", "rewriting"} /\ IsFiniteSet(acked')
                        /\ Cardinality(acked' \ Stored(file')) + TailLoses(file') <= cuts'
    BY <2>1, <2>2 DEF LossInv
  <2>4. TypeOK /\ mode \notin {"failing", "rewriting"} /\ file \in File /\ IsFiniteSet(acked)
    BY <2>3, TypeOKFile DEF LossInv
  <2>5. CASE AppendEntry
    BY <2>3, <2>4, <2>5, AppendLosesOne DEF AppendEntry
  <2>6. CASE CrashInAppend
    <3>1. /\ file' \in File /\ next' \in Nat /\ cuts' \in Nat
          /\ Cardinality(acked' \ Stored(file')) + TailLoses(file') <= cuts'
      BY <2>3, <2>6, CutLosesLater DEF CrashInAppend
    <3>2. TypeOK'
      BY <2>4, <2>6, <3>1 DEF CrashInAppend, TypeOK, File, Modes
    <3>3. QED
      BY <2>4, <2>6, <3>1, <3>2 DEF CrashInAppend
  <2>7. CASE Load
    <3>1. file' = file
      BY <2>3, <2>7 DEF Load, Repaired, Lossy
    <3>2. TypeOK'
      BY <2>4, <2>7, <3>1, TypeOKFile DEF Load, TypeOK, Modes
    <3>3. QED
      BY <2>3, <2>4, <2>7, <3>1, <3>2 DEF Load, LossInv
  <2>8. CASE Exit \/ LoadRefused \/ UNCHANGED vars
    <3>1. UNCHANGED <<kind, file, acked, next, cuts>>
      BY <2>8 DEF Exit, LoadRefused, vars
    <3>2. TypeOK' /\ mode' \notin {"failing", "rewriting"}
      BY <2>4, <2>8 DEF Exit, LoadRefused, vars, TypeOK, Modes
    <3>3. QED
      BY <2>3, <2>4, <3>1, <3>2 DEF LossInv
  <2>9. QED
    BY <2>3, <2>4, <2>5, <2>6, <2>7, <2>8
       DEF Next, Rewrite, MustRewrite, CrashInRewrite, FailAppend, EndAfterFailure,
           EndSuppressed, Lossy
<1>3. LossInv => LossBounded
  <2> SUFFICES ASSUME LossInv, kind \in Lossy
               PROVE  Cardinality(acked \ Stored(file)) <= cuts
    BY DEF LossInv, LossBounded, Lossy
  <2>1. Cardinality(acked \ Stored(file)) \in Nat /\ cuts \in Nat
    BY FS_Difference, FS_CardinalityType DEF LossInv, TypeOK
  <2>2. QED
    BY <2>1 DEF LossInv, TailLoses
<1>4. QED
  BY <1>1, <1>2, <1>3, PTL DEF Spec
=============================================================================
