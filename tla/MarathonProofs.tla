--------------------------- MODULE MarathonProofs ---------------------------
(***************************************************************************)
(* What Marathon's run checks on twelve commands, for any number of        *)
(* rounds, winners, run directories, processes, crashes and signals, and   *)
(* for any ladder of contexts and any order of placements.                 *)
(***************************************************************************)
EXTENDS Marathon, TLAPS, FiniteSetTheorems, WellFoundedInduction

\* A cell is open or being measured; the walk has passed over the placements
\* that do not load, the champion's own included.
AtCell == step \in {"retreat", "measure", "refine"}

WalkInv ==
    /\ AtCell => cell <= Cells
    /\ step = "open" => placement = 1
    /\ failedAt # 0 => grid.depths # 0 /\ ~Loads(1, failedAt) /\ failedAt <= Rung
    /\ step = "retreat" =>
        failedAt # 0 /\ placement >= 2 /\ \A q \in 1..(placement - 1) : ~Loads(q, Rung)
    /\ step \in {"measure", "refine"} => placement \in FirstFit(Rung)

Deferred == {k \in DOMAIN rows : rows[k].status = "deferred"}

\* Rows are as many as closed cells; once one is deferred no cell is measured.
RowsInv ==
    /\ Len(rows) = cell - 1
    /\ Deferred # {} => late /\ ~AtCell
    /\ MatrixIsFirstFit

MatrixInv == MatrixTypeOK /\ WalkInv /\ RowsInv

\* Of the command line's grid only the reuse of evidence may be switched off.
GridInv == grid.reach = world.grid.reach

\* A process of which nothing is left has no directory.
Live == pc \notin {"off", "died"}
Settled == {"finalizing", "ended"}
InRound == {"tuning", "challenge", "record"}

\* Where a process is, and how far its counters of failures may have come there.
StageInv ==
    /\ pc \in {"loop", "closing"} \cup InRound => phase = "rounds"
    /\ pc = "bracket" => phase \in {"rounds", "matrix", "verification"}
    /\ pc = "matrix" => phase = "matrix"
    /\ pc = "verify" => phase = "verification"
    /\ pc \notin Settled => attempts <= 1 /\ failures <= 2 /\ bracketErrors <= 2
    /\ changed => pc \in Settled \cup {"record"}

\* Of one journal: the rounds started and not ended are one number, above
\* that of the rounds completed.
Budget(j) ==
    /\ Cardinality(Completed(j)) <= world.rounds
    /\ \A k \in OpenRounds(j) :
        /\ Cardinality(Completed(j)) < j[k].index /\ j[k].index <= world.rounds
        /\ \A l \in OpenRounds(j) : j[l].index = j[k].index

Opens(i) == \A k \in OpenRounds(Journal) : Journal[k].index = i

AllInBudget == \A r \in DOMAIN runs : Budget(runs[r].journal)

\* The round of a process is above the rounds completed, by any process, and no
\* round is started while another is open.
RoundInv ==
    /\ pc \in {"bracket", "loop"} \cup InRound /\ phase = "rounds" =>
        noChange <= Cardinality(Completed(Journal)) /\ Cardinality(Completed(Journal)) < index
    /\ pc \in InRound => index <= world.rounds /\ Opens(index)
    /\ pc = "resuming" => index <= world.rounds /\ OpenRounds(Journal) # {} /\ Opens(index)
    /\ pc \in {"recon", "loop"} \/ (pc = "bracket" /\ phase = "rounds") =>
        OpenRounds(Journal) = {} \/ stop

WonChallenge(e, i, w) ==
    e.type = "challenge" /\ e.index = i /\ e.winner = w /\ 2 * e.votes > ChallengeBlocks

CrownsWon(j) ==
    \A k \in Crownings(j) :
        \E l \in 1..(k - 1) : WonChallenge(j[l], j[k].index, j[k].winner)

AllCrownsWon == \A r \in DOMAIN runs : CrownsWon(runs[r].journal)

\* A winner on its way into the journal has its challenge there already.
CrownInv ==
    /\ ChampionIsJournaled
    /\ pc = "record" => champion = IF changed THEN contender ELSE Crown(Journal)
    /\ pc = "record" /\ changed =>
        \E l \in DOMAIN Journal : WonChallenge(Journal[l], index, contender)

\* No round this process started has failed.
NoneFailed ==
    \A k \in OwnEntries({"round_failed"}) :
        \A l \in OwnEntries({"round_start"}) : l < k => Journal[l].index # Journal[k].index

ExitInv ==
    /\ pc \in {"stamp", "resume", "resuming", "recon"} => OwnEntries({"round_start"}) = {}
    /\ Live /\ ~failed => NoneFailed
    /\ Live /\ pc \notin Settled /\ phase = "verification" /\ exit = 0 => NoneFailed
    /\ pc \in Settled /\ exit = 0 /\ reason # "dry_run" =>
        champion # None /\ 2 * wins.b > world.blocks /\ NoneFailed

Ends == OwnEntries({"round_end", "round_failed"})
Quiet == OwnEntries({"round_end"})

\* The newest n of the entries S of a journal are n, and all of their kind.
NewestFailed(j, S, n) ==
    /\ Cardinality(LastEntries(S, n)) = n
    /\ \A k \in LastEntries(S, n) : j[k].type = "round_failed"

NewestQuiet(j, S, n) ==
    \A m \in 0..n :
        /\ Cardinality(LastEntries(S, m)) = m
        /\ \A k \in LastEntries(S, m) : ~j[k].changed

\* The counters of a process count the newest of its own entries.
CountInv ==
    /\ pc \in {"stamp", "resume", "resuming", "recon"} => failures = 0 /\ noChange = 0
    /\ pc \in {"challenge", "record"} => failures = 0
    /\ Live => since <= Len(Journal)
    /\ Live => NewestFailed(Journal, Ends, failures)
    /\ Live => NewestQuiet(Journal, Quiet, noChange)

\* The reasons that speak of a counter are given by the counter.
ReasonInv ==
    /\ reason = "circuit_breaker" => failures = 3 /\ pc \in Settled
    /\ reason = "converged" =>
        /\ noChange >= world.converge
        /\ \/ pc \in {"closing", "matrix", "verify"} \cup Settled
           \/ pc = "bracket" /\ phase # "rounds"

Inv ==
    /\ TypeOK
    /\ GridInv
    /\ MatrixInv
    /\ StageInv
    /\ AllInBudget
    /\ RoundInv
    /\ AllCrownsWon
    /\ CrownInv
    /\ ExitInv
    /\ CountInv
    /\ ReasonInv

----------------------------------------------------------------------------
(* The context matrix.                                                     *)
(* The index of a cell over the depths is below the rungs.                 *)
LEMMA DivBelow ==
    ASSUME NEW c \in Nat, NEW r \in Nat, NEW d \in Nat, d # 0, c < r * d
    PROVE  c \div d < r
OBVIOUS

(* The rung never falls from one cell to the next.                         *)
LEMMA DivMonotone ==
    ASSUME NEW c \in Nat, NEW d \in Nat, d # 0
    PROVE  c \div d \in Nat /\ c % d \in Nat /\ c \div d <= (c + 1) \div d
OBVIOUS

(* What the type invariant of the matrix says of its grid.                 *)
LEMMA GridFacts ==
    ASSUME MatrixTypeOK
    PROVE  /\ grid.rungs \in Nat /\ grid.depths \in Nat /\ grid.reach \in Seq(Nat)
           /\ Len(grid.reach) >= 1 /\ (grid.reuse => grid.reach[1] >= 1)
           /\ Placements = 1..Len(grid.reach)
           /\ \A p \in Placements : grid.reach[p] \in Nat
           /\ Cells \in Nat
<1>1. grid.rungs \in Nat /\ grid.depths \in Nat
  BY DEF MatrixTypeOK, Grids
<1>2. Cells \in Nat
  BY <1>1 DEF Cells
<1>3. QED
  BY <1>1, <1>2 DEF MatrixTypeOK, Grids, Placements

(* Every cell has a rung of the ladder; the next cell's is no lower.       *)
LEMMA RungFacts ==
    ASSUME MatrixTypeOK, cell <= Cells
    PROVE  /\ grid.depths # 0 /\ Rung \in 1..grid.rungs /\ Depth \in Nat
           /\ cell' = cell + 1 /\ grid' = grid => Rung' \in Nat /\ Rung' >= Rung
<1>1. cell \in Nat /\ cell >= 1 /\ grid.rungs \in Nat /\ grid.depths \in Nat
  BY GridFacts DEF MatrixTypeOK
<1>2. cell - 1 \in Nat /\ cell - 1 < grid.rungs * grid.depths
  BY <1>1 DEF Cells
<1>3. grid.depths # 0
  BY <1>1, <1>2
<1>4. (cell - 1) \div grid.depths < grid.rungs
  BY <1>1, <1>2, <1>3, DivBelow
<1>5. /\ (cell - 1) \div grid.depths \in Nat /\ (cell - 1) % grid.depths \in Nat
      /\ (cell - 1) \div grid.depths <= ((cell - 1) + 1) \div grid.depths
  BY <1>1, <1>2, <1>3, DivMonotone
<1>6. Rung \in 1..grid.rungs /\ Depth \in Nat
  BY <1>1, <1>4, <1>5 DEF Rung, Depth
<1>7. ASSUME cell' = cell + 1, grid' = grid
      PROVE  Rung' \in Nat /\ Rung' >= Rung
  <2>1. cell \div grid.depths \in Nat
    BY <1>1, <1>3, DivMonotone
  <2>2. Rung' = cell \div grid.depths + 1
    BY <1>1, <1>7 DEF Rung
  <2>3. (cell - 1) + 1 = cell
    BY <1>1
  <2>4. QED
    BY <1>5, <2>1, <2>2, <2>3 DEF Rung
<1>8. QED
  BY <1>3, <1>6, <1>7

(* A cell closed with the first placement that loads, or with none where   *)
(* none does, keeps the matrix right: the argument all five ways of        *)
(* closing a cell share.                                                   *)
LEMMA CloseCellKeeps ==
    ASSUME MatrixInv, cell <= Cells, UNCHANGED <<grid, failedAt>>,
           NEW status \in Statuses, NEW p \in Nat, NEW refined \in BOOLEAN,
           CloseCell(status, p, refined), late' \in {late, TRUE},
           p # 0 => p \in FirstFit(Rung),
           p = 0 /\ status # "deferred" => FirstFit(Rung) = {},
           status = "pruned" => ~Loads(1, Rung - 1),
           status = "deferred" => late',
           status # "deferred" => Deferred = {}
    PROVE  MatrixInv'
<1> DEFINE n == Len(rows)
           row == [rung |-> Rung, depth |-> Depth, status |-> status, placement |-> p,
                   refined |-> refined]
<1>1. /\ grid.depths # 0 /\ Rung \in 1..grid.rungs /\ Depth \in Nat
      /\ grid' = grid /\ cell' = cell + 1
      /\ Rung' \in Nat /\ Rung' >= Rung
  BY RungFacts DEF MatrixInv, CloseCell
<1>2. /\ rows \in Seq(Row) /\ n \in Nat /\ n = cell - 1 /\ rows' = Append(rows, row) /\ row \in Row
      /\ cell \in Nat
  BY <1>1, GridFacts DEF MatrixInv, MatrixTypeOK, RowsInv, CloseCell, Row
<1>3. /\ Len(rows') = n + 1 /\ DOMAIN rows' = 1..(n + 1) /\ DOMAIN rows = 1..n
      /\ \A k \in 1..n : rows'[k] = rows[k]
      /\ rows'[n + 1] = row /\ rows' \in Seq(Row)
  BY <1>2
<1>4. Cells' = Cells /\ Placements' = Placements /\ \A r : FirstFit(r)' = FirstFit(r)
  BY <1>1 DEF Cells, Placements, FirstFit, Loads
<1>5. MatrixTypeOK'
  <2>1. cell' \in 1..(Cells' + 1)
    BY <1>1, <1>2, <1>4, GridFacts DEF MatrixInv
  <2>2. late' \in BOOLEAN
    BY DEF MatrixInv, MatrixTypeOK
  <2>3. 1 \in 1..(Len(grid'.reach) + 1)
    BY <1>1, GridFacts
  <2>4. QED
    BY <1>1, <1>3, <2>1, <2>2, <2>3 DEF MatrixInv, MatrixTypeOK, CloseCell, Refinements
<1>6. WalkInv'
  <2>1. failedAt' = failedAt /\ failedAt \in Nat /\ (failedAt # 0 => failedAt <= Rung')
    BY <1>1, GridFacts DEF MatrixInv, MatrixTypeOK, WalkInv
  <2>2. QED
    BY <1>1, <2>1 DEF MatrixInv, WalkInv, AtCell, CloseCell, Loads
<1>7. Deferred' = Deferred \cup (IF status = "deferred" THEN {n + 1} ELSE {})
  BY <1>2, <1>3 DEF Deferred
<1>8. Len(rows') = cell' - 1 /\ (Deferred' # {} => late' /\ ~AtCell')
  BY <1>1, <1>2, <1>3, <1>7 DEF RowsInv, AtCell, CloseCell
<1>9. MatrixIsFirstFit'
  <2>1. ASSUME NEW k \in 1..n
        PROVE  RowIsFirstFit(k)'
    <3>1. rows'[k] = rows[k] /\ k \in DOMAIN rows /\ RowIsFirstFit(k)
      BY <1>3 DEF MatrixInv, RowsInv, MatrixIsFirstFit, RowIsFirstFit
    <3>2. rows[k].status = "deferred" =>
              status = "deferred" /\ \A l \in k..n : rows[l].status = "deferred"
      BY <3>1 DEF Deferred, RowIsFirstFit
    <3>3. rows[k].status = "deferred" => \A l \in k..(n + 1) : rows'[l].status = "deferred"
      BY <1>2, <1>3, <3>2
    <3>4. rows[k].rung = (k - 1) \div grid.depths + 1 /\ rows[k].depth = ((k - 1) % grid.depths) + 1
      BY <3>1 DEF RowIsFirstFit
    <3>5. /\ rows[k].placement # 0 => rows[k].placement \in FirstFit(rows[k].rung)
          /\ rows[k].placement = 0 /\ rows[k].status # "deferred" => FirstFit(rows[k].rung) = {}
          /\ rows[k].status = "pruned" => ~Loads(1, rows[k].rung - 1)
      BY <3>1 DEF RowIsFirstFit
    <3>6. QED
      BY <1>1, <1>3, <3>1, <3>3, <3>4, <3>5 DEF RowIsFirstFit, FirstFit, Loads, Placements
  <2>2. ASSUME NEW k \in {n + 1}
        PROVE  RowIsFirstFit(k)'
    <3>1. k - 1 = n /\ Rung = (k - 1) \div grid.depths + 1 /\ Depth = ((k - 1) % grid.depths) + 1
      BY <1>2 DEF Rung, Depth
    <3>2. /\ rows'[k].rung = Rung /\ rows'[k].depth = Depth
          /\ rows'[k].status = status /\ rows'[k].placement = p
      BY <1>3
    <3>3. /\ rows'[k].rung = (k - 1) \div grid'.depths + 1
          /\ rows'[k].depth = ((k - 1) % grid'.depths) + 1
      BY <1>1, <3>1, <3>2
    <3>4. rows'[k].placement # 0 => rows'[k].placement \in FirstFit(Rung)
      BY <3>2
    <3>5. rows'[k].placement = 0 /\ rows'[k].status # "deferred" => FirstFit(Rung) = {}
      BY <3>2
    <3>6. rows'[k].status = "pruned" => ~Loads(1, Rung - 1)
      BY <3>2
    <3>7. \A l \in k..Len(rows') : l = k
      BY <1>2, <1>3
    <3>8. rows'[k].status = "deferred" => \A l \in k..Len(rows') : rows'[l].status = "deferred"
      BY <3>7
    <3>9. QED
      BY <1>1, <3>2, <3>3, <3>4, <3>5, <3>6, <3>8 DEF RowIsFirstFit, FirstFit, Loads, Placements
  <2>3. ASSUME NEW k \in DOMAIN rows'
        PROVE  RowIsFirstFit(k)'
    <3>1. k \in 1..n \/ k \in {n + 1}
      BY <1>2, <1>3
    <3>2. QED
      BY <2>1, <2>2, <3>1
  <2>4. QED
    BY <2>3 DEF MatrixIsFirstFit
<1>10. QED
  BY <1>5, <1>6, <1>8, <1>9 DEF MatrixInv, RowsInv

\* Actions that leave the rows alone.
(* Steps within a cell leave the rows right.                               *)
LEMMA RowsStay ==
    ASSUME MatrixInv, UNCHANGED <<grid, rows, cell>>, AtCell' => AtCell \/ Deferred = {},
           late' \in {late, TRUE}
    PROVE  RowsInv'
<1>1. Deferred' = Deferred /\ Cells' = Cells /\ Placements' = Placements
      /\ \A r : FirstFit(r)' = FirstFit(r)
  BY DEF Deferred, Cells, Placements, FirstFit, Loads
<1>2. MatrixIsFirstFit'
  BY <1>1 DEF MatrixInv, RowsInv, MatrixIsFirstFit, RowIsFirstFit, Loads
<1>3. QED
  BY <1>1, <1>2 DEF MatrixInv, RowsInv, AtCell

(* Every step of the walk keeps the invariant of the matrix.               *)
LEMMA MatrixStepKeeps == MatrixInv /\ MatrixStep => MatrixInv'
<1> SUFFICES ASSUME MatrixInv, MatrixStep
             PROVE  MatrixInv'
  OBVIOUS
<1>a. cell \in Nat /\ late \in BOOLEAN /\ placement \in Nat /\ failedAt \in Nat
  BY GridFacts DEF MatrixInv, MatrixTypeOK
<1>b. late => (Look => late')
  BY DEF Look
<1>c. Look => late' \in {late, TRUE}
  BY <1>a DEF Look
<1>d. Look /\ ~late' => Deferred = {}
  BY <1>b DEF MatrixInv, RowsInv
<1>e. AtCell => Deferred = {}
  BY DEF MatrixInv, RowsInv
<1>1. CASE DeferCell
  BY <1>1, <1>c, CloseCellKeeps DEF DeferCell, Statuses
<1>2. CASE ReuseCell
  <2>1. 1 \in FirstFit(Rung)
    <3>1. cell = 1 /\ grid.reuse /\ cell <= Cells
      BY <1>2 DEF ReuseCell
    <3>2. Rung = 1
      <4>1. \A d \in Nat \ {0} : 0 \div d = 0
        OBVIOUS
      <4>2. grid.depths \in Nat \ {0} /\ cell - 1 = 0
        BY <3>1, GridFacts, RungFacts DEF MatrixInv
      <4>3. QED
        BY <4>1, <4>2 DEF Rung
    <3>3. QED
      BY <3>1, <3>2, GridFacts DEF FirstFit, Loads, MatrixInv
  <2>2. QED
    <3>1. /\ CloseCell("ok", 1, FALSE) /\ UNCHANGED <<grid, failedAt>> /\ cell <= Cells
          /\ late' \in {late, TRUE} /\ Deferred = {}
      BY <1>2, <1>c, <1>d DEF ReuseCell
    <3>2. 1 \in Nat /\ "ok" \in Statuses /\ FALSE \in BOOLEAN /\ 1 # 0 /\ "ok" # "deferred"
          /\ "ok" # "pruned"
      BY DEF Statuses
    <3>3. 1 = 0 /\ "ok" # "deferred" => FirstFit(Rung) = {}
      OBVIOUS
    <3>4. QED
      BY <2>1, <3>1, <3>2, <3>3, CloseCellKeeps
<1>3. CASE ProbeChampion
  <2>1. cell <= Cells /\ Rung \in 1..grid.rungs /\ grid.depths # 0
    BY <1>3, RungFacts DEF ProbeChampion, MatrixInv
  <2>2. UNCHANGED <<grid, rows, cell, best, tried>> /\ late' \in {late, TRUE} /\ Deferred = {}
    BY <1>3, <1>c, <1>d DEF ProbeChampion
  <2>3. Cells' = Cells /\ Rung' = Rung /\ Placements' = Placements
        /\ FirstFit(Rung)' = FirstFit(Rung)
    BY <2>2 DEF Cells, Rung, Placements, FirstFit, Loads
  <2>4. RowsInv'
    BY <2>2, RowsStay
  <2>5. CASE failedAt = 0 /\ Loads(1, Rung)
    <3>1. step' = "measure" /\ failedAt' = 0 /\ placement' = 1
      BY <1>3, <2>5 DEF ProbeChampion, MatrixInv, WalkInv
    <3>2. 1 \in FirstFit(Rung)
      BY <2>5, GridFacts DEF FirstFit, MatrixInv
    <3>3. WalkInv'
      BY <2>1, <2>2, <2>3, <3>1, <3>2 DEF WalkInv
    <3>4. MatrixTypeOK'
      <4>1. failedAt' \in 0..grid'.rungs /\ placement' \in 1..(Len(grid'.reach) + 1)
        BY <2>1, <2>2, <3>1, GridFacts DEF MatrixInv
      <4>2. late' \in BOOLEAN
        BY <1>a, <2>2
      <4>3. QED
        BY <2>2, <2>3, <3>1, <4>1, <4>2 DEF MatrixInv, MatrixTypeOK
    <3>5. QED
      BY <2>4, <3>3, <3>4 DEF MatrixInv
  <2>6. CASE ~(failedAt = 0 /\ Loads(1, Rung))
    <3>1. step' = "retreat" /\ placement' = 2 /\ failedAt' = IF failedAt = 0 THEN Rung ELSE failedAt
      BY <1>3, <2>6 DEF ProbeChampion
    <3>2. failedAt' # 0 /\ failedAt' <= Rung /\ failedAt' \in 0..grid.rungs
      BY <1>a, <2>1, <3>1 DEF MatrixInv, MatrixTypeOK, WalkInv
    <3>3. grid.reach[1] \in Nat
      BY GridFacts DEF MatrixInv
    <3>4. ~Loads(1, failedAt') /\ ~Loads(1, Rung)
      BY <1>a, <2>1, <2>6, <3>1, <3>3 DEF MatrixInv, WalkInv, Loads
    <3>5. \A q \in 1..(placement' - 1) : q = 1
      BY <3>1
    <3>6. WalkInv'
      BY <2>1, <2>2, <2>3, <3>1, <3>2, <3>4, <3>5 DEF WalkInv, Loads
    <3>7. MatrixTypeOK'
      <4>1. failedAt' \in 0..grid'.rungs /\ placement' \in 1..(Len(grid'.reach) + 1)
        BY <2>1, <2>2, <3>1, <3>2, GridFacts DEF MatrixInv
      <4>2. late' \in BOOLEAN
        BY <1>a, <2>2
      <4>3. QED
        BY <2>2, <2>3, <3>1, <4>1, <4>2 DEF MatrixInv, MatrixTypeOK
    <3>8. QED
      BY <2>4, <3>6, <3>7 DEF MatrixInv
  <2>7. QED
    BY <2>5, <2>6
<1>4. CASE ProbeRetreat
  <2>1. cell <= Cells /\ step = "retreat" /\ placement \in Placements /\ placement >= 2
    BY <1>4 DEF ProbeRetreat, MatrixInv, WalkInv, AtCell
  <2>2. UNCHANGED <<grid, rows, cell, failedAt, best, tried, late>>
    BY <1>4 DEF ProbeRetreat
  <2>3. Cells' = Cells /\ Rung' = Rung /\ Placements' = Placements
        /\ FirstFit(Rung)' = FirstFit(Rung)
    BY <2>2 DEF Cells, Rung, Placements, FirstFit, Loads
  <2>4. RowsInv'
    BY <1>e, <2>1, <2>2, RowsStay DEF AtCell
  <2>5. CASE Loads(placement, Rung)
    <3>1. step' = "measure" /\ placement' = placement
      BY <1>4, <2>5 DEF ProbeRetreat
    <3>2. placement \in FirstFit(Rung)
      BY <2>1, <2>5 DEF FirstFit, MatrixInv, WalkInv
    <3>3. WalkInv'
      BY <2>1, <2>2, <2>3, <3>1, <3>2 DEF MatrixInv, WalkInv, AtCell, Loads
    <3>4. MatrixTypeOK'
      BY <2>2, <2>3, <3>1 DEF MatrixInv, MatrixTypeOK
    <3>5. QED
      BY <2>4, <3>3, <3>4 DEF MatrixInv
  <2>6. CASE ~Loads(placement, Rung)
    <3>1. step' = "retreat" /\ placement' = placement + 1
      BY <1>4, <2>1, <2>6 DEF ProbeRetreat
    <3>2. \A q \in 1..(placement' - 1) : q = placement \/ q \in 1..(placement - 1)
      BY <1>a, <3>1
    <3>3. \A q \in 1..(placement' - 1) : ~Loads(q, Rung)
      BY <2>1, <2>6, <3>2 DEF MatrixInv, WalkInv
    <3>4. WalkInv'
      BY <1>a, <2>1, <2>2, <2>3, <3>1, <3>3 DEF MatrixInv, WalkInv, AtCell, Loads
    <3>5. placement' \in 1..(Len(grid'.reach) + 1)
      BY <2>1, <2>2, <3>1, GridFacts DEF MatrixInv
    <3>6. MatrixTypeOK'
      BY <2>2, <2>3, <3>1, <3>5 DEF MatrixInv, MatrixTypeOK
    <3>7. QED
      BY <2>4, <3>4, <3>6 DEF MatrixInv
  <2>7. QED
    BY <2>5, <2>6
<1>5. CASE GiveUpCell
  <2>1. /\ cell <= Cells /\ Deferred = {} /\ failedAt # 0 /\ placement \notin Placements
        /\ \A q \in 1..(placement - 1) : ~Loads(q, Rung)
    BY <1>5, <1>e DEF GiveUpCell, MatrixInv, WalkInv, AtCell
  <2>2. \A q \in Placements : q \in 1..(placement - 1)
    <3>1. MatrixTypeOK
      BY DEF MatrixInv
    <3>2. Placements = 1..Len(grid.reach) /\ grid.reach \in Seq(Nat)
      BY <3>1, GridFacts
    <3>3. PICK r \in Nat : r = Len(grid.reach)
      BY <3>2
    <3>4. placement \notin 1..r /\ placement \in 1..(r + 1)
      BY <2>1, <3>1, <3>2, <3>3 DEF MatrixTypeOK
    <3>5. QED
      BY <3>2, <3>3, <3>4
  <2>3. FirstFit(Rung) = {}
    BY <2>1, <2>2 DEF FirstFit
  <2>4. Hopeless => ~Loads(1, Rung - 1)
    <3>1. grid.reach[1] \in Nat /\ Rung \in Nat
      BY <2>1, GridFacts, RungFacts DEF MatrixInv
    <3>2. QED
      BY <1>a, <2>1, <3>1 DEF Hopeless, MatrixInv, WalkInv, Loads
  <2>5. PICK status \in {"pruned", "failed"} :
            CloseCell(status, 0, FALSE) /\ (status = "pruned" => Hopeless)
    BY <1>5 DEF GiveUpCell
  <2>6. UNCHANGED <<grid, failedAt, late>>
    BY <1>5 DEF GiveUpCell
  <2>7. QED
    BY <2>1, <2>3, <2>4, <2>5, <2>6, CloseCellKeeps DEF Statuses
<1>6. CASE Measure
  <2>1. UNCHANGED <<grid, cell, failedAt, placement, tried, late, rows>> /\ step = "measure"
        /\ step' = "refine"
    BY <1>6 DEF Measure
  <2>2. Cells' = Cells /\ Rung' = Rung /\ Placements' = Placements
        /\ FirstFit(Rung)' = FirstFit(Rung)
    BY <2>1 DEF Cells, Rung, Placements, FirstFit, Loads
  <2>3. RowsInv'
    BY <1>e, <2>1, RowsStay DEF AtCell
  <2>4. WalkInv'
    BY <2>1, <2>2 DEF MatrixInv, WalkInv, AtCell, Loads
  <2>5. MatrixTypeOK'
    BY <1>6, <2>1, <2>2 DEF Measure, MatrixInv, MatrixTypeOK
  <2>6. QED
    BY <2>3, <2>4, <2>5 DEF MatrixInv
<1>7. CASE Refine
  <2>1. UNCHANGED <<grid, cell, step, failedAt, placement, rows>> /\ step = "refine"
    BY <1>7 DEF Refine, TriedNow
  <2>2. Cells' = Cells /\ Rung' = Rung /\ Placements' = Placements
        /\ FirstFit(Rung)' = FirstFit(Rung)
    BY <2>1 DEF Cells, Rung, Placements, FirstFit, Loads
  <2>3. late' \in {late, TRUE}
    BY <1>7, <1>c DEF Refine, TriedNow
  <2>4. RowsInv'
    BY <1>e, <2>1, <2>3, RowsStay DEF AtCell
  <2>5. WalkInv'
    BY <2>1, <2>2 DEF MatrixInv, WalkInv, AtCell, Loads
  <2>6. best' \in {"none", "own", "refined"} /\ tried' \in 0..Refinements
    BY <1>7 DEF Refine, TriedNow, Refinable, Refinements, MatrixInv, MatrixTypeOK
  <2>7. MatrixTypeOK'
    BY <1>a, <2>1, <2>2, <2>3, <2>6 DEF MatrixInv, MatrixTypeOK
  <2>8. QED
    BY <2>4, <2>5, <2>7 DEF MatrixInv
<1>8. CASE FinishCell
  <2>1. cell <= Cells /\ Deferred = {} /\ placement \in FirstFit(Rung) /\ placement # 0
    BY <1>8, <1>e, GridFacts DEF FinishCell, MatrixInv, WalkInv, AtCell, FirstFit
  <2>2. PICK status \in {"failed", "ok"}, refined \in BOOLEAN : CloseCell(status, placement,
             refined)
    BY <1>8 DEF FinishCell
  <2>3. UNCHANGED <<grid, failedAt>> /\ late' \in {late, TRUE}
    BY <1>8, <1>c DEF FinishCell
  <2>4. QED
    BY <1>a, <2>1, <2>2, <2>3, CloseCellKeeps DEF Statuses
<1>9. QED
  BY <1>1, <1>2, <1>3, <1>4, <1>5, <1>6, <1>7, <1>8 DEF MatrixStep

----------------------------------------------------------------------------
(* Journals.                                                               *)
(* A non-empty set of positions has a last one.                            *)
LEMMA LastOfIsLast ==
    ASSUME NEW n \in Nat, NEW S \in SUBSET (1..n), S # {}
    PROVE  LastOf(S) \in S /\ \A l \in S : l <= LastOf(S)
<1> DEFINE D == {n - l : l \in S}
<1>1. D \subseteq Nat /\ D # {}
  <2>1. \A l \in S : n - l \in Nat
    OBVIOUS
  <2>2. QED
    BY <2>1
<1>2. PICK d \in D : \A e \in D : ~(<<e, d>> \in OpToRel(<, Nat))
  BY <1>1, NatLessThanWellFounded, WFMin
<1>3. ASSUME NEW e \in D
      PROVE  d <= e
  <2>1. e \in Nat /\ d \in Nat /\ ~(<<e, d>> \in OpToRel(<, Nat))
    BY <1>1, <1>2
  <2>2. ~(e < d)
    BY <2>1 DEF OpToRel
  <2>3. e \in Nat /\ d \in Nat => e < d \/ d <= e
    OBVIOUS
  <2>4. QED
    BY <1>1, <1>2, <2>2, <2>3
<1>4. \E k \in S : \A l \in S : l <= k
  <2>1. PICK k \in S : d = n - k
    BY <1>2
  <2>2. ASSUME NEW l \in S
        PROVE  l <= k
    <3>1. n - l \in D
      OBVIOUS
    <3>2. n - k <= n - l
      BY <1>3, <2>1, <3>1
    <3>3. QED
      BY <3>2
  <2>3. QED
    BY <2>1, <2>2
<1>5. QED
  BY <1>4 DEF LastOf

(* A journal only grows at its end.                                        *)
LEMMA AppendFacts ==
    ASSUME NEW j \in Seq(Entry), NEW e \in Entry, NEW jj, jj = Append(j, e)
    PROVE  /\ jj \in Seq(Entry) /\ Len(j) \in Nat /\ Len(jj) = Len(j) + 1
           /\ DOMAIN j = 1..Len(j) /\ DOMAIN jj = 1..(Len(j) + 1)
           /\ \A k \in 1..Len(j) : jj[k] = j[k]
           /\ jj[Len(j) + 1] = e
           /\ \A k \in DOMAIN jj : k \in 1..Len(j) \/ k = Len(j) + 1
OBVIOUS

(* The completed rounds of a journal can be counted.                       *)
LEMMA CompletedFinite ==
    ASSUME NEW j \in Seq(Entry)
    PROVE  IsFiniteSet(Completed(j)) /\ Cardinality(Completed(j)) \in Nat
<1>1. Completed(j) \in SUBSET (1..Len(j)) /\ Len(j) \in Nat
  BY DEF Completed, Entries
<1>2. IsFiniteSet(Completed(j))
  <2>1. IsFiniteSet(1..Len(j))
    BY <1>1, FS_Interval
  <2>2. QED
    BY <1>1, <2>1, FS_Subset
<1>3. QED
  BY <1>2, FS_CardinalityType

(* Only a round_end adds to the completed rounds.                          *)
LEMMA CompletedAppend ==
    ASSUME NEW j \in Seq(Entry), NEW e \in Entry, NEW jj, jj = Append(j, e)
    PROVE  /\ e.type = "round_end" => Cardinality(Completed(jj)) = Cardinality(Completed(j)) + 1
           /\ e.type # "round_end" => Cardinality(Completed(jj)) = Cardinality(Completed(j))
<1>a. \A type : /\ e.type = type => Entries(jj, type) = Entries(j, type) \cup {Len(j) + 1}
                /\ e.type # type => Entries(jj, type) = Entries(j, type)
  BY AppendFacts DEF Entries
<1>1. CASE e.type = "round_end"
  <2>1. Completed(jj) = Completed(j) \cup {Len(j) + 1}
    BY <1>1, <1>a DEF Completed
  <2>2. Len(j) + 1 \notin Completed(j)
    BY AppendFacts DEF Completed, Entries
  <2>3. QED
    BY <1>1, <2>1, <2>2, CompletedFinite, FS_AddElement
<1>2. CASE e.type # "round_end"
  BY <1>2, <1>a DEF Completed
<1>3. QED
  BY <1>1, <1>2

(* A start opens a round, an end closes all starts of its index.           *)
LEMMA OpenAppend ==
    ASSUME NEW j \in Seq(Entry), NEW e \in Entry, NEW jj, jj = Append(j, e)
    PROVE  /\ e.type \notin {"round_start", "round_end", "round_failed"} =>
                OpenRounds(jj) = OpenRounds(j)
           /\ e.type = "round_start" => OpenRounds(jj) \subseteq OpenRounds(j) \cup {Len(j) + 1}
           /\ e.type \in {"round_end", "round_failed"} =>
                \A k \in OpenRounds(jj) : k \in OpenRounds(j) /\ j[k].index # e.index
           /\ OpenRounds(j) \subseteq 1..Len(j)
<1>a. \A type : /\ e.type = type => Entries(jj, type) = Entries(j, type) \cup {Len(j) + 1}
                /\ e.type # type => Entries(jj, type) = Entries(j, type)
  BY AppendFacts DEF Entries
<1> DEFINE Shut(q) == Completed(q) \cup Entries(q, "round_failed")
           n == Len(j) + 1
<1>1. Shut(j) \subseteq 1..Len(j) /\ Entries(j, "round_start") \subseteq 1..Len(j)
  BY AppendFacts DEF Completed, Entries
<1>2. \A k \in 1..Len(j) : jj[k] = j[k]
  BY AppendFacts
<1>3. CASE e.type \notin {"round_start", "round_end", "round_failed"}
  <2>1. Shut(jj) = Shut(j) /\ Entries(jj, "round_start") = Entries(j, "round_start")
    BY <1>3, <1>a DEF Completed
  <2>2. QED
    BY <1>1, <1>2, <1>3, <2>1 DEF OpenRounds
<1>4. CASE e.type = "round_start"
  <2>1. Shut(jj) = Shut(j) /\ Entries(jj, "round_start") = Entries(j, "round_start") \cup {n}
    BY <1>4, <1>a DEF Completed
  <2>2. QED
    BY <1>1, <1>2, <1>4, <2>1 DEF OpenRounds
<1>5. CASE e.type \in {"round_end", "round_failed"}
  <2>1. /\ Shut(jj) = Shut(j) \cup {n} /\ jj[n] = e
        /\ Entries(jj, "round_start") = Entries(j, "round_start")
    <3>1. jj[n] = e
      BY AppendFacts
    <3>2. QED
      BY <1>5, <1>a, <3>1 DEF Completed
  <2>2. QED
    BY <1>1, <1>2, <1>5, <2>1 DEF OpenRounds
<1>6. QED
  BY <1>1, <1>3, <1>4, <1>5 DEF OpenRounds

(* Only a round_end that says so changes the champion of a journal.        *)
LEMMA CrownAppend ==
    ASSUME NEW j \in Seq(Entry), NEW e \in Entry, NEW jj, jj = Append(j, e)
    PROVE  /\ ~(e.type = "round_end" /\ e.changed) =>
                Crownings(jj) = Crownings(j) /\ Crown(jj) = Crown(j)
           /\ e.type = "round_end" /\ e.changed =>
                Crownings(jj) = Crownings(j) \cup {Len(j) + 1} /\ Crown(jj) = e.winner
           /\ Crownings(j) \subseteq 1..Len(j)
<1>a. \A type : /\ e.type = type => Entries(jj, type) = Entries(j, type) \cup {Len(j) + 1}
                /\ e.type # type => Entries(jj, type) = Entries(j, type)
  BY AppendFacts DEF Entries
<1>1. Completed(j) \subseteq 1..Len(j) /\ Crownings(j) \subseteq 1..Len(j)
  BY AppendFacts DEF Completed, Entries, Crownings
<1>2. CASE ~(e.type = "round_end" /\ e.changed)
  <2>1. Crownings(jj) = Crownings(j)
    <3>1. /\ \A k \in 1..Len(j) : jj[k] = j[k]
          /\ jj[Len(j) + 1] = e /\ Len(j) \in Nat
      BY AppendFacts
    <3>2. Completed(jj) = IF e.type = "round_end" THEN Completed(j) \cup {Len(j) + 1} ELSE Completed(j)
      BY <1>a DEF Completed
    <3>3. QED
      BY <1>1, <1>2, <3>1, <3>2 DEF Crownings
  <2>2. Crownings(j) # {} => jj[LastOf(Crownings(j))] = j[LastOf(Crownings(j))]
    <3>1. Len(j) \in Nat /\ \A k \in 1..Len(j) : jj[k] = j[k]
      BY AppendFacts
    <3>2. Crownings(j) # {} => LastOf(Crownings(j)) \in Crownings(j)
      BY <1>1, <3>1, LastOfIsLast
    <3>3. QED
      BY <1>1, <3>1, <3>2
  <2>3. QED
    BY <1>1, <1>2, <2>1, <2>2 DEF Crown
<1>3. CASE e.type = "round_end" /\ e.changed
  <2>1. Crownings(jj) = Crownings(j) \cup {Len(j) + 1}
    <3>1. /\ \A k \in 1..Len(j) : jj[k] = j[k]
          /\ jj[Len(j) + 1] = e /\ Len(j) \in Nat
      BY AppendFacts
    <3>2. Completed(jj) = IF e.type = "round_end" THEN Completed(j) \cup {Len(j) + 1} ELSE Completed(j)
      BY <1>a DEF Completed
    <3>3. QED
      BY <1>1, <1>3, <3>1, <3>2 DEF Crownings
  <2>2. Crownings(jj) \in SUBSET (1..(Len(j) + 1)) /\ Len(j) + 1 \in Nat
    BY <1>1, <2>1, AppendFacts
  <2>3. LastOf(Crownings(jj)) = Len(j) + 1
    <3>1. Len(j) \in Nat
      BY AppendFacts
    <3>2. /\ LastOf(Crownings(jj)) \in Crownings(jj)
          /\ \A l \in Crownings(jj) : l <= LastOf(Crownings(jj))
      BY <2>1, <2>2, LastOfIsLast
    <3>3. LastOf(Crownings(jj)) \in 1..Len(j) => ~(Len(j) + 1 <= LastOf(Crownings(jj)))
      BY <3>1
    <3>4. QED
      BY <1>1, <2>1, <3>2, <3>3
  <2>4. QED
    BY <1>1, <1>3, <2>1, <2>3, AppendFacts DEF Crown
<1>4. QED
  BY <1>1, <1>2, <1>3

(* Sets of positions are finite.                                           *)
LEMMA FiniteBelow ==
    ASSUME NEW n \in Nat, NEW S \in SUBSET (1..n)
    PROVE  IsFiniteSet(S)
<1>1. IsFiniteSet(1..n)
  BY FS_Interval
<1>2. QED
  BY <1>1, FS_Subset

(* There are no last 0 entries.                                            *)
LEMMA LastNone ==
    ASSUME NEW n \in Nat, NEW S \in SUBSET (1..n)
    PROVE  LastEntries(S, 0) = {}
<1>1. ASSUME NEW k \in S
      PROVE  ~(Cardinality({l \in S : l >= k}) <= 0)
  <2>1. IsFiniteSet(S) /\ {l \in S : l >= k} \in SUBSET S /\ k \in {l \in S : l >= k}
    <3>1. k >= k
      OBVIOUS
    <3>2. QED
      BY <3>1, FiniteBelow
  <2>2. IsFiniteSet({l \in S : l >= k}) /\ {l \in S : l >= k} # {}
    BY <2>1, FS_Subset
  <2>3. Cardinality({l \in S : l >= k}) \in Nat /\ Cardinality({l \in S : l >= k}) # 0
    BY <2>2, FS_CardinalityType, FS_EmptySet
  <2>4. QED
    BY <2>3
<1>2. QED
  BY <1>1 DEF LastEntries

(* With one more entry, the last i + 1 are it and the last i of before.    *)
LEMMA LastGrows ==
    ASSUME NEW n \in Nat, NEW S \in SUBSET (1..n), NEW i \in Nat
    PROVE  /\ LastEntries(S \cup {n + 1}, i + 1) = LastEntries(S, i) \cup {n + 1}
           /\ Cardinality(LastEntries(S \cup {n + 1}, i + 1)) = Cardinality(LastEntries(S, i)) + 1
<1> DEFINE m == n + 1
           Up(k) == {l \in S : l >= k}
           UpAll(k) == {l \in S \cup {m} : l >= k}
<1>1. IsFiniteSet(S)
  BY FiniteBelow
<1>2. ASSUME NEW k \in S
      PROVE  Cardinality(UpAll(k)) <= i + 1 <=> Cardinality(Up(k)) <= i
  <2>1. UpAll(k) = Up(k) \cup {m} /\ m \notin Up(k) /\ Up(k) \in SUBSET S
    OBVIOUS
  <2>2. IsFiniteSet(Up(k))
    BY <1>1, <2>1, FS_Subset
  <2>3. Cardinality(UpAll(k)) = Cardinality(Up(k)) + 1 /\ Cardinality(Up(k)) \in Nat
    BY <2>1, <2>2, FS_AddElement, FS_CardinalityType
  <2>4. QED
    BY <2>3
<1>3. UpAll(m) = {m}
  <2>1. \A l \in S : ~(l >= m)
    OBVIOUS
  <2>2. m >= m
    OBVIOUS
  <2>3. QED
    BY <2>1, <2>2
<1>4. Cardinality(UpAll(m)) = 1
  BY <1>3, FS_Singleton
<1>5. LastEntries(S \cup {m}, i + 1) = LastEntries(S, i) \cup {m}
  <2>1. 1 <= i + 1
    OBVIOUS
  <2> HIDE DEF m
  <2>2. QED
    BY <1>2, <1>4, <2>1 DEF LastEntries
<1>6. LastEntries(S, i) \in SUBSET S /\ m \notin LastEntries(S, i)
  BY DEF LastEntries
<1>7. IsFiniteSet(LastEntries(S, i))
  BY <1>1, <1>6, FS_Subset
<1>8. QED
  BY <1>5, <1>6, <1>7, FS_AddElement

----------------------------------------------------------------------------
(* Marathon.                                                               *)
(* What the assumption on Worlds says of one of them.                      *)
LEMMA WorldFacts ==
    ASSUME world \in Worlds
    PROVE  /\ world.rounds \in Nat /\ world.rounds >= 1 /\ world.converge \in Nat
           /\ world.converge >= 1 /\ world.blocks \in Nat /\ world.blocks >= 3
           /\ world.ids \subseteq Nat /\ world.dry \subseteq BOOLEAN /\ world.timed \in BOOLEAN
           /\ world.winners \subseteq Winners /\ world.grid \in Grids /\ world.runs \in Nat
           /\ world.processes \in Nat /\ world.crashes \in Nat /\ world.signals \in Nat
BY WorldsAssumption DEF World

(* A matrix that starts over is right.                                     *)
LEMMA MatrixResets ==
    ASSUME NEW at \in {"open", "done"}, grid' \in Grids, ResetMatrix(at)
    PROVE  MatrixInv'
<1>1. Cells' \in Nat
  BY DEF Cells, Grids
<1>2. MatrixTypeOK'
  <2>1. Len(grid'.reach) \in Nat /\ grid'.rungs \in Nat
    BY DEF Grids
  <2>2. \A n \in Nat : 1 \in 1..(n + 1) /\ 0 \in 0..n
    OBVIOUS
  <2>3. 0 \in 0..Refinements /\ <<>> \in Seq(Row)
    BY DEF Refinements
  <2>4. QED
    BY <1>1, <2>1, <2>2, <2>3 DEF ResetMatrix, MatrixTypeOK
<1>3. WalkInv'
  BY DEF ResetMatrix, WalkInv, AtCell
<1>4. RowsInv'
  BY DEF ResetMatrix, RowsInv, MatrixIsFirstFit, Deferred
<1>5. QED
  BY <1>2, <1>3, <1>4 DEF MatrixInv

(* Whoever leaves the matrix alone leaves it right.                        *)
LEMMA MatrixStays == MatrixInv /\ UNCHANGED matrixVars => MatrixInv'
BY DEF matrixVars, MatrixInv, MatrixTypeOK, WalkInv, RowsInv, AtCell, Deferred, MatrixIsFirstFit,
       RowIsFirstFit, Cells, Rung, Placements, FirstFit, Loads

(* So does leaving the phase.                                              *)
LEMMA MatrixIsLeft ==
    ASSUME MatrixInv, step' = "done",
           UNCHANGED <<grid, cell, failedAt, placement, best, tried, late, rows>>
    PROVE  MatrixInv'
<1>1. Cells' = Cells /\ Placements' = Placements /\ \A r : FirstFit(r)' = FirstFit(r)
  BY DEF Cells, Placements, FirstFit, Loads
<1>2. MatrixTypeOK'
  BY <1>1 DEF MatrixInv, MatrixTypeOK
<1>6. WalkInv'
  BY <1>1 DEF MatrixInv, WalkInv, AtCell, Rung, Loads
<1>3. RowsInv'
  BY <1>1, RowsStay DEF AtCell, MatrixTypeOK
<1>4. QED
  BY <1>2, <1>3, <1>6 DEF MatrixInv

(* The matrix stays right, whatever else the process does.                 *)
LEMMA MatrixInductive ==
    world \in Worlds /\ GridInv /\ MatrixInv /\ [Next]_vars => GridInv' /\ MatrixInv'
<1> SUFFICES ASSUME world \in Worlds, GridInv, MatrixInv, [Next]_vars
             PROVE  GridInv' /\ MatrixInv'
  OBVIOUS
<1>a. UNCHANGED matrixVars /\ world' = world => GridInv' /\ MatrixInv'
  BY MatrixStays DEF GridInv, matrixVars
<1>b. grid' = world.grid /\ ResetMatrix("done") /\ world' = world => GridInv' /\ MatrixInv'
  BY WorldFacts, MatrixResets DEF GridInv
<1>1. CASE \E id \in world.ids : StartProcess(id)
  BY <1>1, <1>b DEF StartProcess, Blank
<1>2. CASE \E dry \in world.dry : Stamp(dry)
  BY <1>2, <1>a DEF Stamp, life
<1>3. CASE Resume
  BY <1>3, <1>a DEF Resume, life
<1>4. CASE \E type \in {"round_end", "round_failed"} : ResumedRoundEnds(type)
  BY <1>4, <1>a DEF ResumedRoundEnds, life
<1>5. CASE ReconKnown
  BY <1>5, <1>a DEF ReconKnown, Inherited, life
<1>6. CASE ReconPasses
  BY <1>6, <1>a DEF ReconPasses, Inherited, life
<1>7. CASE ReconFails
  BY <1>7, <1>a DEF ReconFails, life
<1>8. CASE BracketHolds
  BY <1>8, <1>a DEF BracketHolds, life
<1>9. CASE BracketErrs
  BY <1>9, <1>a DEF BracketErrs, life
<1>10. CASE LeaveRounds
  BY <1>10, <1>a DEF LeaveRounds, life
<1>11. CASE StartRound
  BY <1>11, <1>a DEF StartRound, life
<1>12. CASE \E w \in world.winners \cup {None} : RoundEnds(w)
  BY <1>12, <1>a DEF RoundEnds, life
<1>13. CASE RoundFails
  BY <1>13, <1>a DEF RoundFails, Tripped, life
<1>14. CASE \E side \in {"a", "b", "tie"} : PlayBlock(side)
  BY <1>14, <1>a DEF PlayBlock, life
<1>15. CASE \E ahead \in {"a", "b", "none"} : EndChallenge(ahead)
  BY <1>15, <1>a DEF EndChallenge, life
<1>16. CASE \E ahead \in {"a", "b", "none"} : EndVerification(ahead)
  BY <1>16, <1>a DEF EndVerification, ExitAfter, life
<1>17. CASE \E covered \in BOOLEAN : RecordRound(covered)
  BY <1>17, <1>a DEF RecordRound, Unchanged, life
<1>18. CASE CloseRounds
  BY <1>18, <1>a DEF CloseRounds, life
<1>19. CASE EnterMatrix
  <2>1. /\ grid' = [grid EXCEPT !.reuse = world.grid.reuse /\ champion # None]
        /\ ResetMatrix("open") /\ world' = world
    BY <1>19 DEF EnterMatrix, life
  <2>2. grid \in Grids /\ world.grid \in Grids /\ grid.reach = world.grid.reach
    BY WorldFacts DEF GridInv, MatrixInv, MatrixTypeOK
  <2>3. grid' \in Grids /\ grid'.reach = world.grid.reach
    BY <2>1, <2>2 DEF Grids
  <2>4. QED
    BY <2>1, <2>3, MatrixResets DEF GridInv
<1>20. CASE MeasureCell
  <2>1. MatrixStep /\ world' = world
    BY <1>20 DEF MeasureCell, life
  <2>2. grid' = grid
    BY <2>1 DEF MatrixStep, DeferCell, ReuseCell, ProbeChampion, ProbeRetreat, GiveUpCell,
           Measure, Refine, FinishCell
  <2>3. QED
    BY <2>1, <2>2, MatrixStepKeeps DEF GridInv
<1>21. CASE LeaveMatrix
  BY <1>21, MatrixIsLeft DEF LeaveMatrix, life, GridInv
<1>22. CASE SkipVerification
  BY <1>22, <1>a DEF SkipVerification, life
<1>23. CASE Finalize
  BY <1>23, <1>a DEF Finalize, life
<1>24. CASE Raises
  BY <1>24, <1>b DEF Raises, Dies, Blank
<1>25. CASE SignalToRun
  BY <1>25, <1>a DEF SignalToRun
<1>26. CASE SignalToEnding
  BY <1>26, <1>b DEF SignalToEnding, Dies, Blank
<1>27. CASE SignalToChild
  BY <1>27, <1>a DEF SignalToChild
<1>28. CASE Crash
  BY <1>28, <1>b DEF Crash, Dies, Blank
<1>29. CASE UNCHANGED vars
  BY <1>29, <1>a DEF vars
<1>30. QED
  BY <1>1, <1>2, <1>3, <1>4, <1>5, <1>6, <1>7, <1>8, <1>9, <1>10, <1>11, <1>12, <1>13, <1>14,
     <1>15, <1>16, <1>17, <1>18, <1>19, <1>20, <1>21, <1>22, <1>23, <1>24, <1>25, <1>26, <1>27,
     <1>28, <1>29 DEF Next, Work


(* The journal of a process that has a directory.                          *)
LEMMA JournalFacts ==
    ASSUME TypeOK, run > 0
    PROVE  run \in DOMAIN runs /\ Journal \in Seq(Entry) /\ Len(Journal) \in Nat
<1>1. runs \in Seq(Directories) /\ run \in 1..Len(runs)
  BY DEF TypeOK
<1>2. run \in DOMAIN runs /\ runs[run] \in Directories
  BY <1>1
<1>3. QED
  BY <1>2 DEF Journal, Directories

(* Journal entries are well-typed.                                         *)
LEMMA NoteFacts ==
    ASSUME NEW type \in {"round_start", "round_end", "round_failed", "challenge", "recon_complete",
                         "marathon_end"}, NEW i \in Nat
    PROVE  Note(type, i) \in Entry
BY DEF Note, Entry

\* What an action that writes leaves behind.
Appended(e) ==
    /\ Journal' = Append(Journal, e)
    /\ runs' \in Seq(Directories)' /\ DOMAIN runs' = DOMAIN runs /\ Len(runs') = Len(runs)
    /\ \A r \in DOMAIN runs : r # run => runs'[r] = runs[r]

(* A write appends to the journal of this run and to no other.             *)
LEMMA WriteAppends ==
    ASSUME TypeOK, run > 0, NEW e \in Entry, Writes(e), UNCHANGED <<run, world>>
    PROVE  Appended(e)
<1>1. run \in DOMAIN runs /\ Journal \in Seq(Entry)
  BY JournalFacts
<1>2. runs \in Seq(Directories) /\ runs' = [runs EXCEPT ![run].journal = Append(Journal, e)]
  BY DEF TypeOK, Writes, Journal
<1>3. Append(Journal, e) \in Seq(Entry)
  BY <1>1
<1>4. Directories' = Directories
  BY DEF Directories
<1>5. runs[run] \in Directories
  BY <1>1, <1>2
<1>6. runs'[run] = [runs[run] EXCEPT !.journal = Append(Journal, e)] /\ Len(runs') = Len(runs)
      /\ DOMAIN runs' = DOMAIN runs /\ \A r \in DOMAIN runs : r # run => runs'[r] = runs[r]
  BY <1>1, <1>2
<1>7. runs'[run] \in Directories /\ runs'[run].journal = Append(Journal, e)
  BY <1>3, <1>5, <1>6 DEF Directories
<1>8. runs' \in Seq(Directories)
  BY <1>1, <1>2, <1>6, <1>7
<1>9. QED
  BY <1>4, <1>6, <1>7, <1>8 DEF Journal, Appended

(* The Boolean variables, in a lemma of their own: Zenon proves it.        *)
LEMMA FlagsInductive ==
    FlagsOK /\ [Next]_vars => FlagsOK'
<1> SUFFICES ASSUME FlagsOK, [Next]_vars
             PROVE  FlagsOK'
  OBVIOUS
<1> USE DEF FlagsOK
<1>1. CASE \E id \in world.ids : StartProcess(id)
  BY <1>1, Zenon DEF StartProcess, Blank
<1>2. CASE \E dry \in world.dry : Stamp(dry)
  BY <1>2, Zenon DEF Stamp, contest, counters
<1>3. CASE Resume
  BY <1>3, Zenon DEF Resume, contest, counters, outcome
<1>4. CASE \E type \in {"round_end", "round_failed"} : ResumedRoundEnds(type)
  BY <1>4, Zenon DEF ResumedRoundEnds, contest, counters, outcome
<1>5. CASE ReconKnown
  BY <1>5, Zenon DEF ReconKnown, Inherited, contest, outcome
<1>6. CASE ReconPasses
  BY <1>6, Zenon DEF ReconPasses, Inherited, contest, outcome
<1>7. CASE ReconFails
  BY <1>7, Zenon DEF ReconFails, Finalizing, contest, outcome
<1>8. CASE BracketHolds
  BY <1>8, Zenon DEF BracketHolds, contest, outcome
<1>9. CASE BracketErrs
  BY <1>9, Zenon DEF BracketErrs, Finalizing, contest, outcome
<1>10. CASE LeaveRounds
  BY <1>10, Zenon DEF LeaveRounds, Closing, contest, counters
<1>11. CASE StartRound
  BY <1>11, Zenon DEF StartRound, contest, counters, outcome
<1>12. CASE \E w \in world.winners \cup {None} : RoundEnds(w)
  BY <1>12, Zenon DEF RoundEnds, outcome
<1>13. CASE RoundFails
  BY <1>13, Zenon DEF RoundFails, Tripped, Finalizing, contest, outcome
<1>14. CASE \E side \in {"a", "b", "tie"} : PlayBlock(side)
  BY <1>14, Zenon DEF PlayBlock, counters, outcome
<1>15. CASE \E ahead \in {"a", "b", "none"} : EndChallenge(ahead)
  BY <1>15, Zenon DEF EndChallenge, counters, outcome
<1>16. CASE \E ahead \in {"a", "b", "none"} : EndVerification(ahead)
  BY <1>16, Zenon DEF EndVerification, Finalizing, ExitAfter, contest, counters
<1>17. CASE \E covered \in BOOLEAN : RecordRound(covered)
  BY <1>17, Zenon DEF RecordRound, Unchanged, Closing, outcome
<1>18. CASE CloseRounds
  BY <1>18, Zenon DEF CloseRounds, Finalizing, contest, counters, outcome
<1>19. CASE EnterMatrix
  BY <1>19, Zenon DEF EnterMatrix, contest, counters, outcome
<1>20. CASE MeasureCell
  BY <1>20, Zenon DEF MeasureCell, contest, counters, outcome
<1>21. CASE LeaveMatrix
  BY <1>21, Zenon DEF LeaveMatrix, contest, counters
<1>22. CASE SkipVerification
  BY <1>22, Zenon DEF SkipVerification, Finalizing, contest, counters
<1>23. CASE Finalize
  BY <1>23, Zenon DEF Finalize, contest, counters, outcome
<1>24. CASE Raises
  BY <1>24, Zenon DEF Raises, Dies, Blank
<1>25. CASE SignalToRun
  BY <1>25, Zenon DEF SignalToRun, Finalizing, contest, counters
<1>26. CASE SignalToEnding
  BY <1>26, Zenon DEF SignalToEnding, Dies, Blank
<1>27. CASE SignalToChild
  BY <1>27, Zenon DEF SignalToChild, contest, counters
<1>28. CASE Crash
  BY <1>28, Zenon DEF Crash, Dies, Blank
<1>29. CASE UNCHANGED vars
  BY <1>29, Zenon DEF vars
<1>30. QED
  BY <1>1, <1>2, <1>3, <1>4, <1>5, <1>6, <1>7, <1>8, <1>9, <1>10, <1>11, <1>12, <1>13, <1>14,
     <1>15, <1>16, <1>17, <1>18, <1>19, <1>20, <1>21, <1>22, <1>23, <1>24, <1>25, <1>26, <1>27,
     <1>28, <1>29 DEF Next, Work

(* Phases, and the counters of failures a process may get there with.      *)
LEMMA StageInductive ==
    TypeOK /\ StageInv /\ [Next]_vars => StageInv'
<1> SUFFICES ASSUME TypeOK, StageInv, [Next]_vars
             PROVE  StageInv'
  OBVIOUS
<1> USE DEF StageInv, InRound, Settled
<1>1. CASE \E id \in world.ids : StartProcess(id)
  BY <1>1 DEF StartProcess, Blank
<1>2. CASE \E dry \in world.dry : Stamp(dry)
  BY <1>2 DEF Stamp, contest, counters
<1>3. CASE Resume
  BY <1>3 DEF Resume, contest, counters
<1>4. CASE \E type \in {"round_end", "round_failed"} : ResumedRoundEnds(type)
  BY <1>4 DEF ResumedRoundEnds, contest, counters
<1>5. CASE ReconKnown
  BY <1>5 DEF ReconKnown, Rebuild, Inherited, contest
<1>6. CASE ReconPasses
  BY <1>6 DEF ReconPasses, Rebuild, Inherited, contest
<1>7. CASE ReconFails
  BY <1>7 DEF ReconFails, Finalizing, contest, TypeOK
<1>8. CASE BracketHolds
  BY <1>8 DEF BracketHolds, AfterBracket, contest
<1>9. CASE BracketErrs
  BY <1>9 DEF BracketErrs, AfterBracket, Finalizing, contest, TypeOK
<1>10. CASE LeaveRounds
  BY <1>10 DEF LeaveRounds, Closing, contest, counters
<1>11. CASE StartRound
  BY <1>11 DEF StartRound, contest, counters
<1>12. CASE \E w \in world.winners \cup {None} : RoundEnds(w)
  BY <1>12 DEF RoundEnds
<1>13. CASE RoundFails
  BY <1>13 DEF RoundFails, Tripped, Finalizing, contest
<1>14. CASE \E side \in {"a", "b", "tie"} : PlayBlock(side)
  BY <1>14 DEF PlayBlock, counters
<1>15. CASE \E ahead \in {"a", "b", "none"} : EndChallenge(ahead)
  BY <1>15 DEF EndChallenge, counters
<1>16. CASE \E ahead \in {"a", "b", "none"} : EndVerification(ahead)
  BY <1>16 DEF EndVerification, Finalizing, ExitAfter
<1>17. CASE \E covered \in BOOLEAN : RecordRound(covered)
  BY <1>17 DEF RecordRound, Unchanged, Closing
<1>18. CASE CloseRounds
  BY <1>18 DEF CloseRounds, Finalizing, contest, counters
<1>19. CASE EnterMatrix
  BY <1>19 DEF EnterMatrix, contest, counters
<1>20. CASE MeasureCell
  BY <1>20 DEF MeasureCell, contest, counters
<1>21. CASE LeaveMatrix
  BY <1>21 DEF LeaveMatrix, contest, counters
<1>22. CASE SkipVerification
  BY <1>22 DEF SkipVerification, Finalizing
<1>23. CASE Finalize
  BY <1>23 DEF Finalize
<1>24. CASE Raises
  BY <1>24 DEF Raises, Dies, Blank
<1>25. CASE SignalToRun
  BY <1>25 DEF SignalToRun, Finalizing, contest, counters
<1>26. CASE SignalToEnding
  BY <1>26 DEF SignalToEnding, Dies, Blank
<1>27. CASE SignalToChild
  BY <1>27 DEF SignalToChild, contest, counters
<1>28. CASE Crash
  BY <1>28 DEF Crash, Dies, Blank
<1>29. CASE UNCHANGED vars
  BY <1>29 DEF vars
<1>30. QED
  BY <1>1, <1>2, <1>3, <1>4, <1>5, <1>6, <1>7, <1>8, <1>9, <1>10, <1>11, <1>12, <1>13, <1>14,
     <1>15, <1>16, <1>17, <1>18, <1>19, <1>20, <1>21, <1>22, <1>23, <1>24, <1>25, <1>26, <1>27,
     <1>28, <1>29 DEF Next, Work

(* No step changes the command line or the machine.                        *)
LEMMA WorldStays == [Next]_vars => world' = world
<1> SUFFICES ASSUME [Next]_vars
             PROVE  world' = world
  OBVIOUS
<1>1. CASE \E id \in world.ids : StartProcess(id)
  BY <1>1 DEF StartProcess
<1>2. CASE \E dry \in world.dry : Stamp(dry)
  BY <1>2 DEF Stamp, life
<1>3. CASE Resume
  BY <1>3 DEF Resume, life
<1>4. CASE \E type \in {"round_end", "round_failed"} : ResumedRoundEnds(type)
  BY <1>4 DEF ResumedRoundEnds, life
<1>5. CASE ReconKnown
  BY <1>5 DEF ReconKnown, Inherited, life
<1>6. CASE ReconPasses
  BY <1>6 DEF ReconPasses, Inherited, life
<1>7. CASE ReconFails
  BY <1>7 DEF ReconFails, life
<1>8. CASE BracketHolds
  BY <1>8 DEF BracketHolds, life
<1>9. CASE BracketErrs
  BY <1>9 DEF BracketErrs, life
<1>10. CASE LeaveRounds
  BY <1>10 DEF LeaveRounds, life
<1>11. CASE StartRound
  BY <1>11 DEF StartRound, life
<1>12. CASE \E w \in world.winners \cup {None} : RoundEnds(w)
  BY <1>12 DEF RoundEnds, life
<1>13. CASE RoundFails
  BY <1>13 DEF RoundFails, Tripped, life
<1>14. CASE \E side \in {"a", "b", "tie"} : PlayBlock(side)
  BY <1>14 DEF PlayBlock, life
<1>15. CASE \E ahead \in {"a", "b", "none"} : EndChallenge(ahead)
  BY <1>15 DEF EndChallenge, life
<1>16. CASE \E ahead \in {"a", "b", "none"} : EndVerification(ahead)
  BY <1>16 DEF EndVerification, ExitAfter, life
<1>17. CASE \E covered \in BOOLEAN : RecordRound(covered)
  BY <1>17 DEF RecordRound, Unchanged, life
<1>18. CASE CloseRounds
  BY <1>18 DEF CloseRounds, life
<1>19. CASE EnterMatrix
  BY <1>19 DEF EnterMatrix, life
<1>20. CASE MeasureCell
  BY <1>20 DEF MeasureCell, life
<1>21. CASE LeaveMatrix
  BY <1>21 DEF LeaveMatrix, life
<1>22. CASE SkipVerification
  BY <1>22 DEF SkipVerification, life
<1>23. CASE Finalize
  BY <1>23 DEF Finalize, life
<1>24. CASE Raises
  BY <1>24 DEF Raises, Dies
<1>25. CASE SignalToRun
  BY <1>25 DEF SignalToRun
<1>26. CASE SignalToEnding
  BY <1>26 DEF SignalToEnding, Dies
<1>27. CASE SignalToChild
  BY <1>27 DEF SignalToChild
<1>28. CASE Crash
  BY <1>28 DEF Crash, Dies
<1>29. CASE UNCHANGED vars
  BY <1>29 DEF vars
<1>30. QED
  BY <1>1, <1>2, <1>3, <1>4, <1>5, <1>6, <1>7, <1>8, <1>9, <1>10, <1>11, <1>12, <1>13, <1>14,
     <1>15, <1>16, <1>17, <1>18, <1>19, <1>20, <1>21, <1>22, <1>23, <1>24, <1>25, <1>26, <1>27,
     <1>28, <1>29 DEF Next, Work

(* The entry of a challenge.                                               *)
LEMMA ChallengeFacts ==
    ASSUME NEW i \in Nat, NEW w \in Winners \cup {None}, NEW v \in Nat
    PROVE  LET e == ChallengeNote(i, w, v)
           IN  /\ e \in Entry
               /\ e.type = "challenge" /\ e.index = i /\ e.winner = w /\ e.votes = v
<1>1. PICK n \in Entry : n = Note("challenge", i) /\ n.type = "challenge" /\ n.index = i
  BY NoteFacts DEF Note
<1>2. [n EXCEPT !.winner = w, !.votes = v] \in Entry
  BY <1>1 DEF Entry
<1>3. LET e == [n EXCEPT !.winner = w, !.votes = v]
      IN  e.type = n.type /\ e.index = n.index /\ e.winner = w /\ e.votes = v
  BY <1>1 DEF Entry
<1>4. QED
  BY <1>1, <1>2, <1>3 DEF ChallengeNote, RoundNote

(* The entry of a completed round.                                         *)
LEMMA RoundEndFacts ==
    ASSUME NEW i \in Nat, NEW w \in Winners \cup {None}, NEW c \in BOOLEAN
    PROVE  LET e == RoundNote(i, w, c)
           IN  /\ e \in Entry
               /\ e.type = "round_end" /\ e.index = i /\ e.winner = w /\ e.changed = c
<1>1. PICK n \in Entry : n = Note("round_end", i) /\ n.type = "round_end" /\ n.index = i
  BY NoteFacts DEF Note
<1>2. [n EXCEPT !.winner = w, !.changed = c] \in Entry
  BY <1>1 DEF Entry
<1>3. LET e == [n EXCEPT !.winner = w, !.changed = c]
      IN  e.type = n.type /\ e.index = n.index /\ e.winner = w /\ e.changed = c
  BY <1>1 DEF Entry
<1>4. QED
  BY <1>1, <1>2, <1>3 DEF ChallengeNote, RoundNote

(* The entry of an end.                                                    *)
LEMMA EndFacts ==
    ASSUME NEW x \in 0..4
    PROVE  EndNote(x) \in Entry /\ EndNote(x).type = "marathon_end"
<1>1. Note("marathon_end", 0) \in Entry /\ Note("marathon_end", 0).type = "marathon_end"
  BY DEF Note, Entry
<1>2. PICK n \in Entry : n = Note("marathon_end", 0) /\ n.type = "marathon_end"
  BY <1>1
<1>3. [n EXCEPT !.exit = x] \in Entry /\ [n EXCEPT !.exit = x].type = n.type
  BY <1>2 DEF Entry
<1>4. QED
  BY <1>2, <1>3 DEF EndNote

RunsOK == runs \in Seq(Directories) /\ run \in 0..Len(runs) /\ (Live => run > 0)

(* Directories and their journals keep their types; a live process is in   *)
(* one of them.                                                            *)
LEMMA RunsInductive == TypeOK /\ [Next]_vars => RunsOK'
<1> SUFFICES ASSUME TypeOK, [Next]_vars
             PROVE  RunsOK'
  OBVIOUS
<1>a. /\ runs \in Seq(Directories) /\ run \in 0..Len(runs) /\ (Live => run > 0) /\ Len(runs) \in Nat
      /\ index \in Nat
  BY WorldFacts DEF TypeOK, Live
<1>b. world' = world
  BY WorldStays
<1>c. Directories' = Directories
  BY <1>b DEF Directories
<1> USE <1>c DEF RunsOK, Live
<1>1. CASE \E id \in world.ids : StartProcess(id)
  <2>1. PICK id \in world.ids : StartProcess(id)
    BY <1>1
  <2>2. CASE Unfinished(id) # {}
    <3>1. Unfinished(id) \in SUBSET (1..Len(runs)) /\ Len(runs) \in Nat
      BY <1>a DEF Unfinished
    <3>2. LastOf(Unfinished(id)) \in 1..Len(runs)
      BY <2>2, <3>1, LastOfIsLast
    <3>3. QED
      BY <1>a, <2>1, <2>2, <3>1, <3>2 DEF StartProcess
  <2>3. CASE Unfinished(id) = {}
    <3>1. [id |-> 0, journal |-> <<>>] \in Directories
      BY DEF Directories
    <3>2. runs' = Append(runs, [id |-> 0, journal |-> <<>>]) /\ run' = Len(runs) + 1
      BY <2>1, <2>3 DEF StartProcess
    <3>3. QED
      BY <1>a, <2>1, <3>1, <3>2 DEF StartProcess
  <2>4. QED
    BY <2>2, <2>3
<1>2. CASE \E dry \in world.dry : Stamp(dry)
  <2>1. identity \in world.ids \cup {0}
    BY DEF TypeOK
  <2>2. run \in DOMAIN runs /\ runs[run] \in Directories
        /\ runs' = [runs EXCEPT ![run].id = identity]
    BY <1>2, <1>a DEF Stamp
  <2>3. [runs[run] EXCEPT !.id = identity] \in Directories
    BY <2>1, <2>2 DEF Directories
  <2>4. runs' \in Seq(Directories) /\ Len(runs') = Len(runs)
    BY <1>a, <2>2, <2>3
  <2>5. QED
    BY <1>2, <1>a, <2>4 DEF Stamp, life
<1>3. CASE Resume
  BY <1>3, <1>a DEF Resume, life
<1>4. CASE \E type \in {"round_end", "round_failed"} : ResumedRoundEnds(type)
  <2>1. PICK e \in Entry : Writes(e)
    BY <1>4, <1>a, NoteFacts DEF ResumedRoundEnds
  <2>2. QED
    BY <1>4, <2>1, <1>a, WriteAppends DEF ResumedRoundEnds, Appended, life
<1>5. CASE ReconKnown
  BY <1>5, <1>a DEF ReconKnown, Inherited, life
<1>6. CASE ReconPasses
  <2>1. PICK e \in Entry : Writes(e)
    BY <1>6, <1>a, NoteFacts DEF ReconPasses
  <2>2. QED
    BY <1>6, <2>1, <1>a, WriteAppends DEF ReconPasses, Appended, life
<1>7. CASE ReconFails
  BY <1>7, <1>a DEF ReconFails, life
<1>8. CASE BracketHolds
  BY <1>8, <1>a DEF BracketHolds, life
<1>9. CASE BracketErrs
  BY <1>9, <1>a DEF BracketErrs, life
<1>10. CASE LeaveRounds
  BY <1>10, <1>a DEF LeaveRounds, life
<1>11. CASE StartRound
  <2>1. PICK e \in Entry : Writes(e)
    BY <1>11, <1>a, NoteFacts DEF StartRound
  <2>2. QED
    BY <1>11, <2>1, <1>a, WriteAppends DEF StartRound, Appended, life
<1>12. CASE \E w \in world.winners \cup {None} : RoundEnds(w)
  BY <1>12, <1>a DEF RoundEnds, life
<1>13. CASE RoundFails
  <2>1. PICK e \in Entry : Writes(e)
    BY <1>13, <1>a, NoteFacts DEF RoundFails, Tripped
  <2>2. QED
    BY <1>13, <2>1, <1>a, WriteAppends DEF RoundFails, Tripped, Appended, life
<1>14. CASE \E side \in {"a", "b", "tie"} : PlayBlock(side)
  BY <1>14, <1>a DEF PlayBlock, life
<1>15. CASE \E ahead \in {"a", "b", "none"} : EndChallenge(ahead)
  <2>1. PICK e \in Entry : Writes(e)
    BY <1>15, <1>a, ChallengeFacts DEF EndChallenge, TypeOK, FlagsOK
  <2>2. QED
    BY <1>15, <2>1, <1>a, WriteAppends DEF EndChallenge, Appended, life
<1>16. CASE \E ahead \in {"a", "b", "none"} : EndVerification(ahead)
  BY <1>16, <1>a DEF EndVerification, ExitAfter, life
<1>17. CASE \E covered \in BOOLEAN : RecordRound(covered)
  <2>1. PICK e \in Entry : Writes(e)
    BY <1>17, <1>a, RoundEndFacts DEF RecordRound, TypeOK, FlagsOK
  <2>2. QED
    BY <1>17, <2>1, <1>a, WriteAppends DEF RecordRound, Appended, life
<1>18. CASE CloseRounds
  BY <1>18, <1>a DEF CloseRounds, life
<1>19. CASE EnterMatrix
  BY <1>19, <1>a DEF EnterMatrix, life
<1>20. CASE MeasureCell
  BY <1>20, <1>a DEF MeasureCell, life
<1>21. CASE LeaveMatrix
  BY <1>21, <1>a DEF LeaveMatrix, life
<1>22. CASE SkipVerification
  BY <1>22, <1>a DEF SkipVerification, life
<1>23. CASE Finalize
  <2>1. PICK e \in Entry : Writes(e)
    BY <1>23, <1>a, EndFacts DEF Finalize, TypeOK, FlagsOK
  <2>2. QED
    BY <1>23, <2>1, <1>a, WriteAppends DEF Finalize, Appended, life
<1>24. CASE Raises
  BY <1>24, <1>a DEF Raises, Dies
<1>25. CASE SignalToRun
  BY <1>25, <1>a DEF SignalToRun, Handling
<1>26. CASE SignalToEnding
  BY <1>26, <1>a DEF SignalToEnding, Dies
<1>27. CASE SignalToChild
  BY <1>27, <1>a DEF SignalToChild
<1>28. CASE Crash
  BY <1>28, <1>a DEF Crash, Dies
<1>29. CASE UNCHANGED vars
  BY <1>29, <1>a DEF vars
<1>30. QED
  BY <1>1, <1>2, <1>3, <1>4, <1>5, <1>6, <1>7, <1>8, <1>9, <1>10, <1>11, <1>12, <1>13, <1>14,
     <1>15, <1>16, <1>17, <1>18, <1>19, <1>20, <1>21, <1>22, <1>23, <1>24, <1>25, <1>26, <1>27,
     <1>28, <1>29 DEF Next, Work

(* The champion found in a journal is a winner or none.                    *)
LEMMA CrownType ==
    ASSUME NEW j \in Seq(Entry)
    PROVE  Crown(j) \in Winners \cup {None}
<1>1. Crownings(j) \subseteq 1..Len(j) /\ Len(j) \in Nat
  BY DEF Crownings, Completed, Entries
<1>2. Crownings(j) # {} => LastOf(Crownings(j)) \in 1..Len(j)
  BY <1>1, LastOfIsLast
<1>3. \A k \in 1..Len(j) : j[k] \in Entry
  OBVIOUS
<1>4. \A e \in Entry : e.winner \in Winners \cup {None}
  BY DEF Entry
<1>5. QED
  BY <1>2, <1>3, <1>4 DEF Crown

PlaceOK ==
    /\ pc \in Places /\ phase \in {"resume", "rounds", "matrix", "verification"}
    /\ reason \in Reasons /\ exit \in 0..4

ProcessOK ==
    /\ processes \in 0..world.processes /\ crashes \in 0..world.crashes
    /\ signals \in 0..world.signals /\ identity \in world.ids \cup {0} /\ since \in Nat

ContestOK ==
    /\ champion \in Winners \cup {None} /\ contender \in Winners \cup {None}
    /\ wins \in [{"a", "b", "tie"} -> Nat]

CountsOK ==
    /\ attempts \in 0..2 /\ index \in 0..(world.rounds + 1)
    /\ noChange \in 0..world.rounds /\ failures \in 0..3 /\ bracketErrors \in 0..3

(* TypeOK, part by part: each part has a lemma of its own.                 *)
LEMMA TypeParts ==
    TypeOK <=>
        world \in Worlds /\ RunsOK /\ FlagsOK /\ MatrixTypeOK /\ PlaceOK /\ ProcessOK
        /\ ContestOK /\ CountsOK
BY DEF TypeOK, RunsOK, Live, PlaceOK, ProcessOK, ContestOK, CountsOK

(* Where a process is, why and how it ends.                                *)
LEMMA PlaceInductive ==
    StageInv /\ PlaceOK /\ [Next]_vars => PlaceOK'
<1> SUFFICES ASSUME StageInv, PlaceOK, [Next]_vars
             PROVE  PlaceOK'
  OBVIOUS
<1> USE DEF StageInv,  PlaceOK, Places, Over, Handling, InChild, Reasons
<1>1. CASE \E id \in world.ids : StartProcess(id)
  BY <1>1 DEF StartProcess, Blank
<1>2. CASE \E dry \in world.dry : Stamp(dry)
  BY <1>2 DEF Stamp
<1>3. CASE Resume
  BY <1>3 DEF Resume, outcome
<1>4. CASE \E type \in {"round_end", "round_failed"} : ResumedRoundEnds(type)
  BY <1>4 DEF ResumedRoundEnds, outcome
<1>5. CASE ReconKnown
  BY <1>5 DEF ReconKnown, Rebuild, Inherited, outcome
<1>6. CASE ReconPasses
  BY <1>6 DEF ReconPasses, Rebuild, Inherited, outcome
<1>7. CASE ReconFails
  BY <1>7 DEF ReconFails, Finalizing, outcome
<1>8. CASE BracketHolds
  BY <1>8 DEF BracketHolds, AfterBracket, outcome
<1>9. CASE BracketErrs
  BY <1>9 DEF BracketErrs, AfterBracket, Finalizing, outcome
<1>10. CASE LeaveRounds
  BY <1>10 DEF LeaveRounds, Closing
<1>11. CASE StartRound
  BY <1>11 DEF StartRound, outcome
<1>12. CASE \E w \in world.winners \cup {None} : RoundEnds(w)
  BY <1>12 DEF RoundEnds, outcome
<1>13. CASE RoundFails
  BY <1>13 DEF RoundFails, Tripped, Finalizing, outcome
<1>14. CASE \E side \in {"a", "b", "tie"} : PlayBlock(side)
  BY <1>14 DEF PlayBlock, outcome
<1>15. CASE \E ahead \in {"a", "b", "none"} : EndChallenge(ahead)
  BY <1>15 DEF EndChallenge, outcome
<1>16. CASE \E ahead \in {"a", "b", "none"} : EndVerification(ahead)
  BY <1>16 DEF EndVerification, Finalizing, ExitAfter
<1>17. CASE \E covered \in BOOLEAN : RecordRound(covered)
  BY <1>17 DEF RecordRound, Unchanged, Closing, outcome
<1>18. CASE CloseRounds
  BY <1>18 DEF CloseRounds, Finalizing, outcome
<1>19. CASE EnterMatrix
  BY <1>19 DEF EnterMatrix, outcome
<1>20. CASE MeasureCell
  BY <1>20 DEF MeasureCell, outcome
<1>21. CASE LeaveMatrix
  BY <1>21 DEF LeaveMatrix
<1>22. CASE SkipVerification
  BY <1>22 DEF SkipVerification, Finalizing
<1>23. CASE Finalize
  BY <1>23 DEF Finalize, outcome
<1>24. CASE Raises
  BY <1>24 DEF Raises, Dies, Blank
<1>25. CASE SignalToRun
  BY <1>25 DEF SignalToRun, Finalizing
<1>26. CASE SignalToEnding
  BY <1>26 DEF SignalToEnding, Dies, Blank
<1>27. CASE SignalToChild
  BY <1>27 DEF SignalToChild
<1>28. CASE Crash
  BY <1>28 DEF Crash, Dies, Blank
<1>29. CASE UNCHANGED vars
  BY <1>29 DEF vars
<1>30. QED
  BY <1>1, <1>2, <1>3, <1>4, <1>5, <1>6, <1>7, <1>8, <1>9, <1>10, <1>11, <1>12, <1>13, <1>14,
     <1>15, <1>16, <1>17, <1>18, <1>19, <1>20, <1>21, <1>22, <1>23, <1>24, <1>25, <1>26, <1>27,
     <1>28, <1>29 DEF Next, Work

(* Processes, crashes and signals stay within their bounds.                *)
LEMMA ProcessInductive ==
    TypeOK /\ [Next]_vars => ProcessOK'
<1> SUFFICES ASSUME TypeOK, [Next]_vars
             PROVE  ProcessOK'
  OBVIOUS
<1>a. ProcessOK /\ RunsOK' /\ world \in Worlds /\ world' = world /\ Directories' = Directories
  BY TypeParts, RunsInductive, WorldStays DEF Directories
<1>1. CASE \E id \in world.ids : StartProcess(id)
  <2>1. since' \in Nat
    <3>1. run' \in DOMAIN runs' /\ runs' \in Seq(Directories)
      BY <1>1, <1>a DEF StartProcess, RunsOK, Live
    <3>2. runs'[run'] \in Directories
      BY <3>1
    <3>3. runs'[run'].journal \in Seq(Entry)
      BY <3>2 DEF Directories
    <3>4. QED
      BY <1>1, <3>3 DEF StartProcess
  <2>2. QED
    BY <1>1, <1>a, <2>1, WorldFacts DEF StartProcess, Blank, ProcessOK
<1>2. CASE \E dry \in world.dry : Stamp(dry)
  BY <1>2, <1>a, WorldFacts DEF Stamp, ProcessOK, life
<1>3. CASE Resume
  BY <1>3, <1>a, WorldFacts DEF Resume, ProcessOK, life
<1>4. CASE \E type \in {"round_end", "round_failed"} : ResumedRoundEnds(type)
  BY <1>4, <1>a, WorldFacts DEF ResumedRoundEnds, ProcessOK, life
<1>5. CASE ReconKnown
  BY <1>5, <1>a, WorldFacts DEF ReconKnown, Inherited, ProcessOK, life
<1>6. CASE ReconPasses
  BY <1>6, <1>a, WorldFacts DEF ReconPasses, Inherited, ProcessOK, life
<1>7. CASE ReconFails
  BY <1>7, <1>a, WorldFacts DEF ReconFails, ProcessOK, life
<1>8. CASE BracketHolds
  BY <1>8, <1>a, WorldFacts DEF BracketHolds, ProcessOK, life
<1>9. CASE BracketErrs
  BY <1>9, <1>a, WorldFacts DEF BracketErrs, ProcessOK, life
<1>10. CASE LeaveRounds
  BY <1>10, <1>a, WorldFacts DEF LeaveRounds, ProcessOK, life
<1>11. CASE StartRound
  BY <1>11, <1>a, WorldFacts DEF StartRound, ProcessOK, life
<1>12. CASE \E w \in world.winners \cup {None} : RoundEnds(w)
  BY <1>12, <1>a, WorldFacts DEF RoundEnds, ProcessOK, life
<1>13. CASE RoundFails
  BY <1>13, <1>a, WorldFacts DEF RoundFails, Tripped, ProcessOK, life
<1>14. CASE \E side \in {"a", "b", "tie"} : PlayBlock(side)
  BY <1>14, <1>a, WorldFacts DEF PlayBlock, ProcessOK, life
<1>15. CASE \E ahead \in {"a", "b", "none"} : EndChallenge(ahead)
  BY <1>15, <1>a, WorldFacts DEF EndChallenge, ProcessOK, life
<1>16. CASE \E ahead \in {"a", "b", "none"} : EndVerification(ahead)
  BY <1>16, <1>a, WorldFacts DEF EndVerification, ExitAfter, ProcessOK, life
<1>17. CASE \E covered \in BOOLEAN : RecordRound(covered)
  BY <1>17, <1>a, WorldFacts DEF RecordRound, Unchanged, ProcessOK, life
<1>18. CASE CloseRounds
  BY <1>18, <1>a, WorldFacts DEF CloseRounds, ProcessOK, life
<1>19. CASE EnterMatrix
  BY <1>19, <1>a, WorldFacts DEF EnterMatrix, ProcessOK, life
<1>20. CASE MeasureCell
  BY <1>20, <1>a, WorldFacts DEF MeasureCell, ProcessOK, life
<1>21. CASE LeaveMatrix
  BY <1>21, <1>a, WorldFacts DEF LeaveMatrix, ProcessOK, life
<1>22. CASE SkipVerification
  BY <1>22, <1>a, WorldFacts DEF SkipVerification, ProcessOK, life
<1>23. CASE Finalize
  BY <1>23, <1>a, WorldFacts DEF Finalize, ProcessOK, life
<1>24. CASE Raises
  BY <1>24, <1>a, WorldFacts DEF Raises, Dies, Blank, ProcessOK
<1>25. CASE SignalToRun
  BY <1>25, <1>a, WorldFacts DEF SignalToRun, ProcessOK
<1>26. CASE SignalToEnding
  BY <1>26, <1>a, WorldFacts DEF SignalToEnding, Dies, Blank, ProcessOK
<1>27. CASE SignalToChild
  BY <1>27, <1>a, WorldFacts DEF SignalToChild, ProcessOK
<1>28. CASE Crash
  BY <1>28, <1>a, WorldFacts DEF Crash, Dies, Blank, ProcessOK
<1>29. CASE UNCHANGED vars
  BY <1>29, <1>a, WorldFacts DEF vars, ProcessOK
<1>30. QED
  BY <1>1, <1>2, <1>3, <1>4, <1>5, <1>6, <1>7, <1>8, <1>9, <1>10, <1>11, <1>12, <1>13, <1>14,
     <1>15, <1>16, <1>17, <1>18, <1>19, <1>20, <1>21, <1>22, <1>23, <1>24, <1>25, <1>26, <1>27,
     <1>28, <1>29 DEF Next, Work

(* Champion, contender and the blocks they won.                            *)
LEMMA ContestInductive ==
    TypeOK /\ [Next]_vars => ContestOK'
<1> SUFFICES ASSUME TypeOK, [Next]_vars
             PROVE  ContestOK'
  OBVIOUS
<1>a. ContestOK /\ (Live => Journal \in Seq(Entry)) /\ world.winners \subseteq Winners
      /\ (pc = "recon" => Live)
  BY TypeParts, JournalFacts, WorldFacts DEF TypeOK, Live
<1>1. CASE \E id \in world.ids : StartProcess(id)
  BY <1>1, <1>a DEF StartProcess, Blank, ContestOK, NoWins
<1>2. CASE \E dry \in world.dry : Stamp(dry)
  BY <1>2, <1>a DEF Stamp, ContestOK, contest, NoWins
<1>3. CASE Resume
  BY <1>3, <1>a DEF Resume, ContestOK, contest, NoWins
<1>4. CASE \E type \in {"round_end", "round_failed"} : ResumedRoundEnds(type)
  BY <1>4, <1>a DEF ResumedRoundEnds, ContestOK, contest, NoWins
<1>5. CASE ReconKnown
  BY <1>5, <1>a, CrownType DEF ReconKnown, Rebuild, Inherited, ContestOK, contest
<1>6. CASE ReconPasses
  BY <1>6, <1>a, CrownType DEF ReconPasses, Rebuild, Inherited, ContestOK, contest
<1>7. CASE ReconFails
  BY <1>7, <1>a DEF ReconFails, ContestOK, contest, NoWins
<1>8. CASE BracketHolds
  BY <1>8, <1>a DEF BracketHolds, ContestOK, contest, NoWins
<1>9. CASE BracketErrs
  BY <1>9, <1>a DEF BracketErrs, ContestOK, contest, NoWins
<1>10. CASE LeaveRounds
  BY <1>10, <1>a DEF LeaveRounds, ContestOK, contest, NoWins
<1>11. CASE StartRound
  BY <1>11, <1>a DEF StartRound, ContestOK, contest, NoWins
<1>12. CASE \E w \in world.winners \cup {None} : RoundEnds(w)
  BY <1>12, <1>a DEF RoundEnds, ContestOK, NoWins
<1>13. CASE RoundFails
  BY <1>13, <1>a DEF RoundFails, Tripped, ContestOK, contest, NoWins
<1>14. CASE \E side \in {"a", "b", "tie"} : PlayBlock(side)
  BY <1>14, <1>a DEF PlayBlock, ContestOK, NoWins
<1>15. CASE \E ahead \in {"a", "b", "none"} : EndChallenge(ahead)
  <2>1. champion' \in Winners \cup {None} /\ contender' = contender
    BY <1>15, <1>a DEF EndChallenge, ContestOK
  <2>2. wins' \in [{"a", "b", "tie"} -> Nat]
    BY <1>15 DEF EndChallenge, NoWins
  <2>3. QED
    BY <1>a, <2>1, <2>2 DEF ContestOK
<1>16. CASE \E ahead \in {"a", "b", "none"} : EndVerification(ahead)
  BY <1>16, <1>a DEF EndVerification, ExitAfter, ContestOK, contest, NoWins
<1>17. CASE \E covered \in BOOLEAN : RecordRound(covered)
  BY <1>17, <1>a DEF RecordRound, Unchanged, ContestOK, NoWins
<1>18. CASE CloseRounds
  BY <1>18, <1>a DEF CloseRounds, ContestOK, contest, NoWins
<1>19. CASE EnterMatrix
  BY <1>19, <1>a DEF EnterMatrix, ContestOK, contest, NoWins
<1>20. CASE MeasureCell
  BY <1>20, <1>a DEF MeasureCell, ContestOK, contest, NoWins
<1>21. CASE LeaveMatrix
  BY <1>21, <1>a DEF LeaveMatrix, ContestOK, contest, NoWins
<1>22. CASE SkipVerification
  BY <1>22, <1>a DEF SkipVerification, ContestOK, contest, NoWins
<1>23. CASE Finalize
  BY <1>23, <1>a DEF Finalize, ContestOK, contest, NoWins
<1>24. CASE Raises
  BY <1>24, <1>a DEF Raises, Dies, Blank, ContestOK, NoWins
<1>25. CASE SignalToRun
  BY <1>25, <1>a DEF SignalToRun, ContestOK, contest, NoWins
<1>26. CASE SignalToEnding
  BY <1>26, <1>a DEF SignalToEnding, Dies, Blank, ContestOK, NoWins
<1>27. CASE SignalToChild
  BY <1>27, <1>a DEF SignalToChild, ContestOK, contest, NoWins
<1>28. CASE Crash
  BY <1>28, <1>a DEF Crash, Dies, Blank, ContestOK, NoWins
<1>29. CASE UNCHANGED vars
  BY <1>29, <1>a DEF vars, ContestOK, NoWins
<1>30. QED
  BY <1>1, <1>2, <1>3, <1>4, <1>5, <1>6, <1>7, <1>8, <1>9, <1>10, <1>11, <1>12, <1>13, <1>14,
     <1>15, <1>16, <1>17, <1>18, <1>19, <1>20, <1>21, <1>22, <1>23, <1>24, <1>25, <1>26, <1>27,
     <1>28, <1>29 DEF Next, Work

(* The counters stay in their ranges: noChange because of the budget of    *)
(* rounds, failures because the breaker opens at three.                    *)
LEMMA CountsInductive ==
    TypeOK /\ StageInv /\ AllInBudget /\ RoundInv /\ [Next]_vars => CountsOK'
<1> SUFFICES ASSUME TypeOK, StageInv, AllInBudget, RoundInv, [Next]_vars
             PROVE  CountsOK'
  OBVIOUS
<1>c. Live => run \in DOMAIN runs /\ Journal \in Seq(Entry)
  BY JournalFacts DEF Live, TypeOK
<1>d. /\ CountsOK /\ world' = world /\ world.rounds \in Nat
      /\ index \in Nat /\ noChange \in Nat /\ failures \in Nat
  BY TypeParts, WorldStays, WorldFacts DEF CountsOK
<1> USE DEF CountsOK, Live
<1>1. CASE \E id \in world.ids : StartProcess(id)
  BY <1>1, <1>d DEF StartProcess, Blank
<1>2. CASE \E dry \in world.dry : Stamp(dry)
  BY <1>2, <1>d DEF Stamp, counters
<1>3. CASE Resume
  <2>1. index' \in 0..(world.rounds + 1)
    <3>1. CASE UNCHANGED index
      BY <1>d, <3>1
    <3>2. CASE /\ OpenRounds(Journal) # {}
               /\ index' = Journal[LastOf(OpenRounds(Journal))].index
      <4>1. Journal \in Seq(Entry) /\ run \in DOMAIN runs
        BY <1>3, <1>c DEF Resume
      <4>2. OpenRounds(Journal) \in SUBSET (1..Len(Journal)) /\ Len(Journal) \in Nat
        BY <4>1 DEF OpenRounds, Entries
      <4>3. LastOf(OpenRounds(Journal)) \in OpenRounds(Journal)
        BY <3>2, <4>2, LastOfIsLast
      <4>4. Journal[LastOf(OpenRounds(Journal))] \in Entry
        BY <4>1, <4>2, <4>3
      <4>5. index' \in Nat
        BY <3>2, <4>4 DEF Entry
      <4>6. Budget(Journal)
        BY <4>1 DEF AllInBudget, Journal
      <4>7. index' <= world.rounds
        BY <3>2, <4>3, <4>6 DEF Budget
      <4>8. QED
        BY <1>d, <4>5, <4>7
    <3>3. QED
      BY <1>3, <3>1, <3>2 DEF Resume
  <2>2. QED
    BY <1>3, <1>d, <2>1 DEF Resume, counters
<1>4. CASE \E type \in {"round_end", "round_failed"} : ResumedRoundEnds(type)
  BY <1>4, <1>d DEF ResumedRoundEnds, counters
<1>5. CASE ReconKnown
  <2>1. index' \in 0..(world.rounds + 1)
    <3>1. Budget(Journal)
      BY <1>5, <1>c DEF ReconKnown, AllInBudget, Journal
    <3>2. Cardinality(Completed(Journal)) \in Nat /\ Cardinality(Completed(Journal)) <= world.rounds
      BY <1>5, <1>c, <3>1, CompletedFinite DEF ReconKnown, Budget
    <3>3. index' = Cardinality(Completed(Journal)) + 1
      BY <1>5 DEF ReconKnown, Rebuild, FirstRound
    <3>4. QED
      BY <1>d, <3>2, <3>3
  <2>2. QED
    BY <1>5, <1>d, <2>1 DEF ReconKnown, Rebuild
<1>6. CASE ReconPasses
  <2>1. index' \in 0..(world.rounds + 1)
    <3>1. Budget(Journal)
      BY <1>6, <1>c DEF ReconPasses, AllInBudget, Journal
    <3>2. Cardinality(Completed(Journal)) \in Nat /\ Cardinality(Completed(Journal)) <= world.rounds
      BY <1>6, <1>c, <3>1, CompletedFinite DEF ReconPasses, Budget
    <3>3. index' = Cardinality(Completed(Journal)) + 1
      BY <1>6 DEF ReconPasses, Rebuild, FirstRound
    <3>4. QED
      BY <1>d, <3>2, <3>3
  <2>2. QED
    BY <1>6, <1>d, <2>1 DEF ReconPasses, Rebuild
<1>7. CASE ReconFails
  BY <1>7, <1>d DEF ReconFails, StageInv, Settled
<1>8. CASE BracketHolds
  BY <1>8, <1>d DEF BracketHolds
<1>9. CASE BracketErrs
  BY <1>9, <1>d DEF BracketErrs, StageInv, Settled
<1>10. CASE LeaveRounds
  BY <1>10, <1>d DEF LeaveRounds, counters
<1>11. CASE StartRound
  BY <1>11, <1>d DEF StartRound, counters
<1>12. CASE \E w \in world.winners \cup {None} : RoundEnds(w)
  BY <1>12, <1>d DEF RoundEnds
<1>13. CASE RoundFails
  <2>1. index <= world.rounds /\ failures <= 2
    BY <1>13 DEF RoundFails, RoundInv, InRound, StageInv, Settled
  <2>2. index' \in 0..(world.rounds + 1) /\ failures' \in 0..3
    BY <1>13, <2>1, <1>d DEF RoundFails, Tripped
  <2>3. QED
    BY <1>13, <1>d, <2>2 DEF RoundFails
<1>14. CASE \E side \in {"a", "b", "tie"} : PlayBlock(side)
  BY <1>14, <1>d DEF PlayBlock, counters
<1>15. CASE \E ahead \in {"a", "b", "none"} : EndChallenge(ahead)
  BY <1>15, <1>d DEF EndChallenge, counters
<1>16. CASE \E ahead \in {"a", "b", "none"} : EndVerification(ahead)
  BY <1>16, <1>d DEF EndVerification, ExitAfter, counters
<1>17. CASE \E covered \in BOOLEAN : RecordRound(covered)
  <2>1. noChange <= Cardinality(Completed(Journal)) /\ Cardinality(Completed(Journal)) < index
        /\ index <= world.rounds
    BY <1>17 DEF RecordRound, RoundInv, InRound, StageInv
  <2>2. Cardinality(Completed(Journal)) \in Nat
    BY <1>17, <1>c, CompletedFinite DEF RecordRound
  <2>3. noChange + 1 <= world.rounds /\ index + 1 <= world.rounds + 1
    BY <2>1, <2>2, <1>d
  <2>4. noChange' \in 0..world.rounds /\ index' \in 0..(world.rounds + 1)
    BY <1>17, <2>3, <1>d DEF RecordRound, Unchanged
  <2>5. QED
    BY <1>17, <1>d, <2>4 DEF RecordRound
<1>18. CASE CloseRounds
  BY <1>18, <1>d DEF CloseRounds, counters
<1>19. CASE EnterMatrix
  BY <1>19, <1>d DEF EnterMatrix, counters
<1>20. CASE MeasureCell
  BY <1>20, <1>d DEF MeasureCell, counters
<1>21. CASE LeaveMatrix
  BY <1>21, <1>d DEF LeaveMatrix, counters
<1>22. CASE SkipVerification
  BY <1>22, <1>d DEF SkipVerification, counters
<1>23. CASE Finalize
  BY <1>23, <1>d DEF Finalize, counters
<1>24. CASE Raises
  BY <1>24, <1>d DEF Raises, Dies, Blank
<1>25. CASE SignalToRun
  BY <1>25, <1>d DEF SignalToRun, counters
<1>26. CASE SignalToEnding
  BY <1>26, <1>d DEF SignalToEnding, Dies, Blank
<1>27. CASE SignalToChild
  BY <1>27, <1>d DEF SignalToChild, counters
<1>28. CASE Crash
  BY <1>28, <1>d DEF Crash, Dies, Blank
<1>29. CASE UNCHANGED vars
  BY <1>29, <1>d DEF vars
<1>30. QED
  BY <1>1, <1>2, <1>3, <1>4, <1>5, <1>6, <1>7, <1>8, <1>9, <1>10, <1>11, <1>12, <1>13, <1>14,
     <1>15, <1>16, <1>17, <1>18, <1>19, <1>20, <1>21, <1>22, <1>23, <1>24, <1>25, <1>26, <1>27,
     <1>28, <1>29 DEF Next, Work

(* TypeOK is preserved.                                                    *)
LEMMA TypeInductive ==
    TypeOK /\ GridInv /\ MatrixInv /\ StageInv /\ AllInBudget /\ RoundInv /\ [Next]_vars => TypeOK'
<1> SUFFICES ASSUME TypeOK, GridInv, MatrixInv, StageInv, AllInBudget, RoundInv, [Next]_vars
             PROVE  TypeOK'
  OBVIOUS
<1>1. world' \in Worlds /\ FlagsOK /\ PlaceOK /\ world \in Worlds
  BY TypeParts, WorldStays
<1>2. RunsOK' /\ FlagsOK' /\ MatrixTypeOK'
  BY <1>1, RunsInductive, FlagsInductive, MatrixInductive DEF MatrixInv
<1>3. PlaceOK' /\ ProcessOK' /\ ContestOK' /\ CountsOK'
  BY <1>1, PlaceInductive, ProcessInductive, ContestInductive, CountsInductive
<1>4. QED
  BY <1>1, <1>2, <1>3 DEF TypeOK, RunsOK, Live, PlaceOK, ProcessOK, ContestOK, CountsOK

(* An entry keeps a journal within its rounds if a start opens no second   *)
(* round and lies above those completed, and an end belongs to the open    *)
(* round.                                                                  *)
LEMMA BudgetAppend ==
    ASSUME world \in Worlds, NEW j \in Seq(Entry), NEW e \in Entry, NEW jj, jj = Append(j, e),
           Budget(j),
           e.type = "round_start" =>
               /\ OpenRounds(j) = {}
               /\ Cardinality(Completed(j)) < e.index /\ e.index <= world.rounds,
           e.type = "round_end" =>
               /\ Cardinality(Completed(j)) < world.rounds
               /\ \A k \in OpenRounds(j) : j[k].index = e.index
    PROVE  /\ Budget(jj)
           /\ /\ e.type \in {"round_end", "round_failed"}
              /\ \A k \in OpenRounds(j) : j[k].index = e.index
              => OpenRounds(jj) = {}
<1> DEFINE c == Cardinality(Completed(j))
           cc == Cardinality(Completed(jj))
<1>1. c \in Nat /\ world.rounds \in Nat /\ c <= world.rounds
  BY CompletedFinite, WorldFacts DEF Budget
<1>2. (e.type = "round_end" => cc = c + 1) /\ (e.type # "round_end" => cc = c)
  BY CompletedAppend
<1>3. /\ OpenRounds(j) \subseteq 1..Len(j) /\ jj[Len(j) + 1] = e
      /\ \A k \in OpenRounds(j) : jj[k] = j[k]
  BY OpenAppend, AppendFacts
<1>4. /\ e.type \in {"round_end", "round_failed"}
      /\ \A k \in OpenRounds(j) : j[k].index = e.index
      => OpenRounds(jj) = {}
  <2>1. e.type \in {"round_end", "round_failed"} =>
            \A k \in OpenRounds(jj) : k \in OpenRounds(j) /\ j[k].index # e.index
    BY OpenAppend
  <2>2. QED
    BY <2>1
<1>5. cc <= world.rounds
  BY <1>1, <1>2
<1>6. \A k, l \in OpenRounds(jj) : cc < jj[k].index /\ jj[k].index <= world.rounds
      /\ jj[l].index = jj[k].index
  <2>1. CASE e.type = "round_start"
    <3>1. OpenRounds(jj) \subseteq {Len(j) + 1}
      BY <2>1, OpenAppend
    <3>2. QED
      BY <1>2, <1>3, <2>1, <3>1
  <2>2. CASE e.type = "round_end"
    BY <1>4, <2>2
  <2>3. CASE e.type \notin {"round_start", "round_end"}
    <3>1. OpenRounds(jj) \subseteq OpenRounds(j)
      <4>1. CASE e.type = "round_failed"
        <5>1. \A k \in OpenRounds(jj) : k \in OpenRounds(j) /\ j[k].index # e.index
          BY <4>1, OpenAppend
        <5>2. QED
          BY <5>1
      <4>2. CASE e.type # "round_failed"
        BY <2>3, <4>2, OpenAppend
      <4>3. QED
        BY <4>1, <4>2
    <3>2. QED
      BY <1>2, <1>3, <2>3, <3>1 DEF Budget
  <2>4. QED
    BY <2>1, <2>2, <2>3
<1>7. QED
  BY <1>4, <1>5, <1>6 DEF Budget

(* Only the journal written to has to be looked at.                        *)
LEMMA BudgetWrites ==
    ASSUME AllInBudget, run \in DOMAIN runs, UNCHANGED <<world, run>>, NEW e, Appended(e),
           Budget(Journal')
    PROVE  AllInBudget'
<1>1. \A j : Budget(j)' = Budget(j)
  BY DEF Budget
<1>2. ASSUME NEW r \in DOMAIN runs
      PROVE  Budget(runs'[r].journal)
  <2>1. CASE r = run
    BY <2>1 DEF Journal
  <2>2. CASE r # run
    BY <2>2 DEF AllInBudget, Appended
  <2>3. QED
    BY <2>1, <2>2
<1>3. QED
  BY <1>1, <1>2 DEF AllInBudget, Appended

(* What each writing action appends.                                       *)
LEMMA StartRoundAppends ==
    ASSUME TypeOK, StartRound
    PROVE  \E e \in Entry : Appended(e) /\ e.type = "round_start" /\ e.index = index
<1>1. Note("round_start", index) \in Entry /\ index \in Nat /\ run > 0
  BY NoteFacts, WorldFacts DEF TypeOK, StartRound
<1>2. Appended(Note("round_start", index))
  BY <1>1, WriteAppends DEF StartRound, life
<1>3. QED
  BY <1>1, <1>2 DEF Note

(* The round that a resume continues ends under its own index.             *)
LEMMA ResumedRoundAppends ==
    ASSUME TypeOK, NEW type \in {"round_end", "round_failed"}, ResumedRoundEnds(type)
    PROVE  \E e \in Entry : Appended(e) /\ e.type = type /\ e.index = index /\ e.changed = FALSE
<1>1. Note(type, index) \in Entry /\ index \in Nat /\ run > 0
  BY NoteFacts, WorldFacts DEF TypeOK, ResumedRoundEnds
<1>2. Appended(Note(type, index))
  BY <1>1, WriteAppends DEF ResumedRoundEnds, life
<1>3. QED
  BY <1>1, <1>2 DEF Note

(* Passed reconnaissance is journaled as complete.                         *)
LEMMA ReconAppends ==
    ASSUME TypeOK, ReconPasses
    PROVE  \E e \in Entry : Appended(e) /\ e.type = "recon_complete"
<1>1. Note("recon_complete", 0) \in Entry /\ run > 0
  BY NoteFacts DEF TypeOK, ReconPasses
<1>2. Appended(Note("recon_complete", 0))
  BY <1>1, WriteAppends DEF ReconPasses, life
<1>3. QED
  BY <1>1, <1>2 DEF Note

(* A round that fails is journaled under its index.                        *)
LEMMA RoundFailsAppends ==
    ASSUME TypeOK, RoundFails
    PROVE  \E e \in Entry : Appended(e) /\ e.type = "round_failed" /\ e.index = index
<1>1. Note("round_failed", index) \in Entry /\ index \in Nat /\ run > 0
  BY NoteFacts, WorldFacts DEF TypeOK, RoundFails
<1>2. Appended(Note("round_failed", index))
  BY <1>1, WriteAppends DEF RoundFails, life
<1>3. QED
  BY <1>1, <1>2 DEF Note

(* A challenge is journaled with its contender and the votes it won by.    *)
LEMMA ChallengeAppends ==
    ASSUME TypeOK, NEW ahead \in {"a", "b", "none"}, EndChallenge(ahead)
    PROVE  \E e \in Entry :
            /\ Appended(e) /\ e.type = "challenge" /\ e.index = index /\ e.winner = contender
            /\ e.votes = IF Verdict(wins, Blocks, ahead) = "b" THEN wins.b ELSE 0
<1> DEFINE votes == IF Verdict(wins, Blocks, ahead) = "b" THEN wins.b ELSE 0
<1>1. votes \in Nat /\ index \in Nat /\ contender \in Winners \cup {None} /\ run > 0
  BY WorldFacts DEF TypeOK, EndChallenge
<1>2. PICK e \in Entry :
          /\ e = ChallengeNote(index, contender, votes)
          /\ e.type = "challenge" /\ e.index = index /\ e.winner = contender /\ e.votes = votes
  BY <1>1, ChallengeFacts
<1>3. Writes(e) /\ UNCHANGED <<run, world>>
  BY <1>2 DEF EndChallenge, life
<1>4. Appended(e)
  BY <1>1, <1>2, <1>3, WriteAppends
<1>5. QED
  BY <1>2, <1>4

(* A completed round is journaled with its winner.                         *)
LEMMA RecordAppends ==
    ASSUME TypeOK, NEW covered \in BOOLEAN, RecordRound(covered)
    PROVE  \E e \in Entry :
            /\ Appended(e) /\ e.type = "round_end" /\ e.index = index /\ e.winner = contender
            /\ e.changed = changed
<1>1. changed \in BOOLEAN /\ index \in Nat /\ contender \in Winners \cup {None} /\ run > 0
  BY WorldFacts DEF TypeOK, FlagsOK, RecordRound
<1>2. PICK e \in Entry :
          /\ e = RoundNote(index, contender, changed)
          /\ e.type = "round_end" /\ e.index = index /\ e.winner = contender /\ e.changed = changed
  BY <1>1, RoundEndFacts
<1>3. Writes(e) /\ UNCHANGED <<run, world>>
  BY <1>2 DEF RecordRound, life
<1>4. Appended(e)
  BY <1>1, <1>2, <1>3, WriteAppends
<1>5. QED
  BY <1>2, <1>4

(* The end of a run is journaled with its reason.                          *)
LEMMA EndAppends ==
    ASSUME TypeOK, Finalize
    PROVE  \E e \in Entry : Appended(e) /\ e.type = "marathon_end"
<1>1. EndNote(exit) \in Entry /\ EndNote(exit).type = "marathon_end" /\ run > 0
  BY EndFacts DEF TypeOK, Finalize
<1>2. Appended(EndNote(exit))
  BY <1>1, WriteAppends DEF Finalize, life
<1>3. QED
  BY <1>1, <1>2

(* Every journal stays within its rounds.                                  *)
LEMMA BudgetInductive ==
    TypeOK /\ StageInv /\ RoundInv /\ AllInBudget /\ [Next]_vars => AllInBudget'
<1> SUFFICES ASSUME TypeOK, StageInv, RoundInv, AllInBudget, [Next]_vars
             PROVE  AllInBudget'
  OBVIOUS
<1>a. /\ TypeOK /\ world \in Worlds
      /\ Live => run \in DOMAIN runs /\ Journal \in Seq(Entry) /\ Budget(Journal)
  BY JournalFacts DEF TypeOK, Live, AllInBudget, Journal
<1>b. /\ \A j : Budget(j)' = Budget(j)
      /\ UNCHANGED runs => AllInBudget'
  BY WorldStays DEF Budget, AllInBudget
<1>1. CASE \E id \in world.ids : StartProcess(id)
  <2>1. PICK id \in world.ids : StartProcess(id)
    BY <1>1
  <2>2. CASE Unfinished(id) # {}
    BY <1>b, <2>1, <2>2 DEF StartProcess
  <2>3. CASE Unfinished(id) = {}
    <3>1. runs' = Append(runs, [id |-> 0, journal |-> <<>>])
      BY <2>1, <2>3 DEF StartProcess
    <3>2. /\ DOMAIN runs' = DOMAIN runs \cup {Len(runs) + 1}
          /\ \A r \in DOMAIN runs : runs'[r] = runs[r]
          /\ runs'[Len(runs) + 1].journal = <<>>
      BY <1>a, <3>1
    <3>3. Budget(<<>>)
      <4>1. Completed(<<>>) = {} /\ OpenRounds(<<>>) = {}
        BY DEF Completed, Entries, OpenRounds
      <4>2. Cardinality(Completed(<<>>)) = 0 /\ world.rounds \in Nat
        BY <1>a, <4>1, FS_EmptySet, WorldFacts
      <4>3. QED
        BY <4>1, <4>2 DEF Budget
    <3>4. QED
      BY <1>b, <3>2, <3>3 DEF AllInBudget
  <2>4. QED
    BY <2>2, <2>3
<1>2. CASE \E dry \in world.dry : Stamp(dry)
  <2>1. run \in DOMAIN runs /\ runs \in Seq(Directories)
    BY <1>2, <1>a DEF Stamp, TypeOK
  <2>2. /\ DOMAIN runs' = DOMAIN runs
        /\ \A r \in DOMAIN runs : runs'[r].journal = runs[r].journal
    BY <1>2, <2>1 DEF Stamp, Directories
  <2>3. QED
    BY <1>b, <2>2 DEF AllInBudget
<1>3. CASE Resume
  BY <1>3, <1>b DEF Resume
<1>4. CASE \E type \in {"round_end", "round_failed"} : ResumedRoundEnds(type)
  <2>1. PICK e \in Entry :
            Appended(e) /\ e.type \in {"round_end", "round_failed"} /\ e.index = index
            /\ e.changed = FALSE
    BY <1>4, <1>a, ResumedRoundAppends
  <2>2. Live /\ UNCHANGED <<run, world>>
    BY <1>4 DEF ResumedRoundEnds, life, Live
  <2>3. /\ Cardinality(Completed(Journal)) < world.rounds
        /\ \A k \in OpenRounds(Journal) : Journal[k].index = index
    <3>1. index <= world.rounds /\ OpenRounds(Journal) # {} /\ Opens(index)
      BY <1>4 DEF ResumedRoundEnds, RoundInv
    <3>2. Cardinality(Completed(Journal)) < index
      BY <1>a, <2>2, <3>1 DEF Budget, Opens
    <3>3. Cardinality(Completed(Journal)) \in Nat /\ index \in Nat /\ world.rounds \in Nat
      BY <1>a, <2>2, CompletedFinite, WorldFacts DEF TypeOK
    <3>4. QED
      BY <3>1, <3>2, <3>3 DEF Opens
  <2>4. Budget(Journal')
    <3>1. Journal \in Seq(Entry) /\ Budget(Journal) /\ Journal' = Append(Journal, e)
      BY <1>a, <2>1, <2>2 DEF Appended
    <3>2. QED
      BY <1>a, <2>1, <2>3, <3>1, BudgetAppend
  <2>5. QED
    BY <1>a, <2>1, <2>2, <2>4, BudgetWrites
<1>5. CASE ReconKnown
  BY <1>5, <1>b DEF ReconKnown, Inherited
<1>6. CASE ReconPasses
  <2>1. PICK e \in Entry :
            Appended(e) /\ e.type = "recon_complete"
    BY <1>6, <1>a, ReconAppends
  <2>2. Live /\ UNCHANGED <<run, world>>
    BY <1>6 DEF ReconPasses, Inherited, life, Live
  <2>3. Budget(Journal')
    <3>1. Journal \in Seq(Entry) /\ Budget(Journal) /\ Journal' = Append(Journal, e)
      BY <1>a, <2>1, <2>2 DEF Appended
    <3>2. QED
      BY <1>a, <2>1, <3>1, BudgetAppend
  <2>4. QED
    BY <1>a, <2>1, <2>2, <2>3, BudgetWrites
<1>7. CASE ReconFails
  BY <1>7, <1>b DEF ReconFails
<1>8. CASE BracketHolds
  BY <1>8, <1>b DEF BracketHolds
<1>9. CASE BracketErrs
  BY <1>9, <1>b DEF BracketErrs
<1>10. CASE LeaveRounds
  BY <1>10, <1>b DEF LeaveRounds
<1>11. CASE StartRound
  <2>1. PICK e \in Entry :
            Appended(e) /\ e.type = "round_start" /\ e.index = index
    BY <1>11, <1>a, StartRoundAppends
  <2>2. Live /\ UNCHANGED <<run, world>>
    BY <1>11 DEF StartRound, life, Live
  <2>3. /\ OpenRounds(Journal) = {} /\ Cardinality(Completed(Journal)) < index
        /\ index <= world.rounds
    BY <1>11 DEF StartRound, RoundInv, StageInv
  <2>4. Budget(Journal')
    <3>1. Journal \in Seq(Entry) /\ Budget(Journal) /\ Journal' = Append(Journal, e)
      BY <1>a, <2>1, <2>2 DEF Appended
    <3>2. QED
      BY <1>a, <2>1, <2>3, <3>1, BudgetAppend
  <2>5. QED
    BY <1>a, <2>1, <2>2, <2>4, BudgetWrites
<1>12. CASE \E w \in world.winners \cup {None} : RoundEnds(w)
  BY <1>12, <1>b DEF RoundEnds
<1>13. CASE RoundFails
  <2>1. PICK e \in Entry :
            Appended(e) /\ e.type = "round_failed" /\ e.index = index
    BY <1>13, <1>a, RoundFailsAppends
  <2>2. Live /\ UNCHANGED <<run, world>>
    BY <1>13 DEF RoundFails, Tripped, life, Live
  <2>3. Budget(Journal')
    <3>1. Journal \in Seq(Entry) /\ Budget(Journal) /\ Journal' = Append(Journal, e)
      BY <1>a, <2>1, <2>2 DEF Appended
    <3>2. QED
      BY <1>a, <2>1, <3>1, BudgetAppend
  <2>4. QED
    BY <1>a, <2>1, <2>2, <2>3, BudgetWrites
<1>14. CASE \E side \in {"a", "b", "tie"} : PlayBlock(side)
  BY <1>14, <1>b DEF PlayBlock
<1>15. CASE \E ahead \in {"a", "b", "none"} : EndChallenge(ahead)
  <2>1. PICK e \in Entry :
            Appended(e) /\ e.type = "challenge" /\ e.index = index /\ e.winner = contender
    BY <1>15, <1>a, ChallengeAppends
  <2>2. Live /\ UNCHANGED <<run, world>>
    BY <1>15 DEF EndChallenge, life, Live
  <2>3. Budget(Journal')
    <3>1. Journal \in Seq(Entry) /\ Budget(Journal) /\ Journal' = Append(Journal, e)
      BY <1>a, <2>1, <2>2 DEF Appended
    <3>2. QED
      BY <1>a, <2>1, <3>1, BudgetAppend
  <2>4. QED
    BY <1>a, <2>1, <2>2, <2>3, BudgetWrites
<1>16. CASE \E ahead \in {"a", "b", "none"} : EndVerification(ahead)
  BY <1>16, <1>b DEF EndVerification, ExitAfter
<1>17. CASE \E covered \in BOOLEAN : RecordRound(covered)
  <2>1. PICK e \in Entry :
            Appended(e) /\ e.type = "round_end" /\ e.index = index /\ e.winner = contender
            /\ e.changed = changed
    BY <1>17, <1>a, RecordAppends
  <2>2. Live /\ UNCHANGED <<run, world>>
    BY <1>17 DEF RecordRound, Unchanged, life, Live
  <2>3. /\ Cardinality(Completed(Journal)) < world.rounds
        /\ \A k \in OpenRounds(Journal) : Journal[k].index = index
    <3>1. Cardinality(Completed(Journal)) < index /\ index <= world.rounds /\ Opens(index)
      BY <1>17 DEF RecordRound, RoundInv, StageInv, InRound
    <3>2. Cardinality(Completed(Journal)) \in Nat /\ index \in Nat /\ world.rounds \in Nat
      BY <1>a, <2>2, CompletedFinite, WorldFacts DEF TypeOK
    <3>3. QED
      BY <3>1, <3>2 DEF Opens
  <2>4. Budget(Journal')
    <3>1. Journal \in Seq(Entry) /\ Budget(Journal) /\ Journal' = Append(Journal, e)
      BY <1>a, <2>1, <2>2 DEF Appended
    <3>2. QED
      BY <1>a, <2>1, <2>3, <3>1, BudgetAppend
  <2>5. QED
    BY <1>a, <2>1, <2>2, <2>4, BudgetWrites
<1>18. CASE CloseRounds
  BY <1>18, <1>b DEF CloseRounds
<1>19. CASE EnterMatrix
  BY <1>19, <1>b DEF EnterMatrix
<1>20. CASE MeasureCell
  BY <1>20, <1>b DEF MeasureCell
<1>21. CASE LeaveMatrix
  BY <1>21, <1>b DEF LeaveMatrix
<1>22. CASE SkipVerification
  BY <1>22, <1>b DEF SkipVerification
<1>23. CASE Finalize
  <2>1. PICK e \in Entry :
            Appended(e) /\ e.type = "marathon_end"
    BY <1>23, <1>a, EndAppends
  <2>2. Live /\ UNCHANGED <<run, world>>
    BY <1>23 DEF Finalize, life, Live
  <2>3. Budget(Journal')
    <3>1. Journal \in Seq(Entry) /\ Budget(Journal) /\ Journal' = Append(Journal, e)
      BY <1>a, <2>1, <2>2 DEF Appended
    <3>2. QED
      BY <1>a, <2>1, <3>1, BudgetAppend
  <2>4. QED
    BY <1>a, <2>1, <2>2, <2>3, BudgetWrites
<1>24. CASE Raises
  BY <1>24, <1>b DEF Raises, Dies
<1>25. CASE SignalToRun
  BY <1>25, <1>b DEF SignalToRun
<1>26. CASE SignalToEnding
  BY <1>26, <1>b DEF SignalToEnding, Dies
<1>27. CASE SignalToChild
  BY <1>27, <1>b DEF SignalToChild
<1>28. CASE Crash
  BY <1>28, <1>b DEF Crash, Dies
<1>29. CASE UNCHANGED vars
  BY <1>29, <1>b DEF vars
<1>30. QED
  BY <1>1, <1>2, <1>3, <1>4, <1>5, <1>6, <1>7, <1>8, <1>9, <1>10, <1>11, <1>12, <1>13, <1>14,
     <1>15, <1>16, <1>17, <1>18, <1>19, <1>20, <1>21, <1>22, <1>23, <1>24, <1>25, <1>26, <1>27,
     <1>28, <1>29 DEF Next, Work

\* The journal of a process that writes nothing, and what is said of it.
(* The journal, for actions that write nothing.                            *)
LEMMA JournalStays ==
    ASSUME UNCHANGED <<runs, run>>
    PROVE  Journal' = Journal
BY DEF Journal

(* The round of a process stays above the rounds its journal completed,    *)
(* whoever completed them.                                                 *)
LEMMA RoundInductive ==
    TypeOK /\ StageInv /\ AllInBudget /\ RoundInv /\ [Next]_vars => RoundInv'
<1> SUFFICES ASSUME TypeOK, StageInv, AllInBudget, RoundInv, [Next]_vars
             PROVE  RoundInv'
  OBVIOUS
<1>a. /\ TypeOK /\ index \in Nat /\ noChange \in Nat
      /\ Live => run \in DOMAIN runs /\ Journal \in Seq(Entry) /\ Budget(Journal)
  BY JournalFacts, WorldFacts DEF TypeOK, Live, AllInBudget, Journal
<1>b. UNCHANGED <<runs, run>> => Journal' = Journal
  BY JournalStays
<1>c. world' = world
  BY WorldStays
<1>1. CASE \E id \in world.ids : StartProcess(id)
  BY <1>1 DEF StartProcess, RoundInv, InRound
<1>2. CASE \E dry \in world.dry : Stamp(dry)
  BY <1>2 DEF Stamp, RoundInv, InRound
<1>3. CASE Resume
  <2>1. Journal' = Journal /\ Journal \in Seq(Entry) /\ Budget(Journal)
    BY <1>3, <1>a, <1>b DEF Resume, life, Live
  <2>2. CASE OpenRounds(Journal) # {} /\ ~stop
    <3>1. OpenRounds(Journal) \in SUBSET (1..Len(Journal)) /\ Len(Journal) \in Nat
      BY <2>1 DEF OpenRounds, Entries
    <3>2. LastOf(OpenRounds(Journal)) \in OpenRounds(Journal)
      BY <2>2, <3>1, LastOfIsLast
    <3>3. index' = Journal[LastOf(OpenRounds(Journal))].index /\ pc' = "resuming"
      BY <1>3, <2>2 DEF Resume
    <3>4. index' <= world.rounds /\ \A k \in OpenRounds(Journal) : Journal[k].index = index'
      BY <2>1, <3>2, <3>3 DEF Budget
    <3>5. QED
      BY <2>1, <2>2, <3>3, <3>4, <1>c DEF RoundInv, InRound, Opens
  <2>3. CASE ~(OpenRounds(Journal) # {} /\ ~stop)
    <3>1. pc' = "recon" /\ stop' = stop
      BY <1>3, <2>3 DEF Resume, outcome
    <3>2. QED
      BY <2>1, <2>3, <3>1 DEF RoundInv, InRound
  <2>4. QED
    BY <2>2, <2>3
<1>4. CASE \E type \in {"round_end", "round_failed"} : ResumedRoundEnds(type)
  <2>1. PICK e \in Entry :
            Appended(e) /\ e.type \in {"round_end", "round_failed"} /\ e.index = index
            /\ e.changed = FALSE
    BY <1>4, <1>a, ResumedRoundAppends
  <2>2. Live /\ Journal \in Seq(Entry) /\ Journal' = Append(Journal, e)
    BY <1>4, <1>a, <2>1 DEF ResumedRoundEnds, Live, Appended
  <2>3. \A k \in OpenRounds(Journal) : Journal[k].index = index
    BY <1>4 DEF ResumedRoundEnds, RoundInv, Opens
  <2>4. OpenRounds(Journal') = {}
    <3>1. \A k \in OpenRounds(Journal') : k \in OpenRounds(Journal) /\ Journal[k].index # e.index
      BY <2>1, <2>2, OpenAppend
    <3>2. QED
      BY <2>1, <2>3, <3>1
  <2>5. QED
    BY <1>4, <2>4, <1>a DEF ResumedRoundEnds, RoundInv, InRound
<1>5. CASE ReconKnown
  <2>1. Journal' = Journal /\ Journal \in Seq(Entry)
    BY <1>5, <1>a, <1>b DEF ReconKnown, life, Live
  <2>2. Cardinality(Completed(Journal)) \in Nat
    BY <2>1, CompletedFinite
  <2>3. noChange' <= Cardinality(Completed(Journal)) /\ Cardinality(Completed(Journal)) < index'
    BY <1>5, <2>2 DEF ReconKnown, Rebuild, FirstRound
  <2>4. QED
    BY <1>5, <2>1, <2>3 DEF ReconKnown, Rebuild, outcome, RoundInv, InRound
<1>6. CASE ReconPasses
  <2>1. PICK e \in Entry :
            Appended(e) /\ e.type = "recon_complete"
    BY <1>6, <1>a, ReconAppends
  <2>2. Live /\ Journal \in Seq(Entry) /\ Journal' = Append(Journal, e)
    BY <1>6, <1>a, <2>1 DEF ReconPasses, Inherited, Live, Appended
  <2>3. Cardinality(Completed(Journal')) = Cardinality(Completed(Journal))
    BY <2>1, <2>2, CompletedAppend
  <2>4. OpenRounds(Journal') = OpenRounds(Journal)
    BY <2>1, <2>2, OpenAppend
  <2>5. Cardinality(Completed(Journal)) \in Nat
    BY <2>2, CompletedFinite
  <2>6. noChange' <= Cardinality(Completed(Journal)) /\ Cardinality(Completed(Journal)) < index'
    BY <1>6, <2>5 DEF ReconPasses, Rebuild, FirstRound
  <2>7. QED
    BY <1>6, <2>3, <2>4, <2>6 DEF ReconPasses, Rebuild, outcome, RoundInv, InRound
<1>7. CASE ReconFails
  BY <1>7, <1>b, <1>c DEF ReconFails, Finalizing, life, outcome, RoundInv, InRound, Opens
<1>8. CASE BracketHolds
  BY <1>8, <1>b, <1>c DEF BracketHolds, AfterBracket, life, outcome, StageInv, RoundInv, InRound,
         Opens
<1>9. CASE BracketErrs
  BY <1>9, <1>b, <1>c DEF BracketErrs, AfterBracket, Finalizing, life, outcome, StageInv,
         RoundInv, InRound, Opens
<1>10. CASE LeaveRounds
  BY <1>10, <1>b, <1>c DEF LeaveRounds, Closing, RoundInv, InRound, Opens
<1>11. CASE StartRound
  <2>1. PICK e \in Entry :
            Appended(e) /\ e.type = "round_start" /\ e.index = index
    BY <1>11, <1>a, StartRoundAppends
  <2>2. Live /\ Journal \in Seq(Entry) /\ Journal' = Append(Journal, e)
    BY <1>11, <1>a, <2>1 DEF StartRound, Live, Appended
  <2>3. OpenRounds(Journal) = {}
    BY <1>11 DEF StartRound, RoundInv
  <2>4. OpenRounds(Journal') \subseteq {Len(Journal) + 1}
    BY <2>1, <2>2, <2>3, OpenAppend
  <2>5. Journal'[Len(Journal) + 1] = e
    BY <2>2, AppendFacts
  <2>6. \A k \in OpenRounds(Journal') : Journal'[k].index = index
    BY <2>1, <2>4, <2>5
  <2>7. Cardinality(Completed(Journal')) = Cardinality(Completed(Journal))
    BY <2>1, <2>2, CompletedAppend
  <2>8. noChange <= Cardinality(Completed(Journal)) /\ Cardinality(Completed(Journal)) < index
    BY <1>11 DEF StartRound, RoundInv, StageInv
  <2>9. QED
    BY <1>11, <1>c, <2>6, <2>7, <2>8 DEF StartRound, counters, RoundInv, Opens
<1>12. CASE \E w \in world.winners \cup {None} : RoundEnds(w)
  BY <1>12, <1>b, <1>c DEF RoundEnds, life, RoundInv, InRound, Opens
<1>13. CASE RoundFails
  <2>1. PICK e \in Entry :
            Appended(e) /\ e.type = "round_failed" /\ e.index = index
    BY <1>13, <1>a, RoundFailsAppends
  <2>2. Live /\ Journal \in Seq(Entry) /\ Journal' = Append(Journal, e)
    BY <1>13, <1>a, <2>1 DEF RoundFails, Tripped, Live, Appended
  <2>3. \A k \in OpenRounds(Journal) : Journal[k].index = index
    BY <1>13 DEF RoundFails, RoundInv, Opens, InRound
  <2>4. OpenRounds(Journal') = {}
    <3>1. \A k \in OpenRounds(Journal') : k \in OpenRounds(Journal) /\ Journal[k].index # e.index
      BY <2>1, <2>2, OpenAppend
    <3>2. QED
      BY <2>1, <2>3, <3>1
  <2>5. Cardinality(Completed(Journal')) = Cardinality(Completed(Journal))
    BY <2>1, <2>2, CompletedAppend
  <2>6. noChange <= Cardinality(Completed(Journal)) /\ Cardinality(Completed(Journal)) < index
        /\ Cardinality(Completed(Journal)) \in Nat
    BY <1>13, <2>2, CompletedFinite DEF RoundFails, RoundInv, StageInv, InRound
  <2>7. Cardinality(Completed(Journal)) < index + 1
    BY <1>a, <2>6
  <2>8. QED
    BY <1>13, <2>4, <2>5, <2>6, <2>7 DEF RoundFails, Finalizing, RoundInv, InRound
<1>14. CASE \E side \in {"a", "b", "tie"} : PlayBlock(side)
  BY <1>14, <1>b, <1>c DEF PlayBlock, life, counters, RoundInv, Opens
<1>15. CASE \E ahead \in {"a", "b", "none"} : EndChallenge(ahead)
  <2>1. PICK e \in Entry :
            Appended(e) /\ e.type = "challenge" /\ e.index = index /\ e.winner = contender
    BY <1>15, <1>a, ChallengeAppends
  <2>2. Live /\ Journal \in Seq(Entry) /\ Journal' = Append(Journal, e)
    BY <1>15, <1>a, <2>1 DEF EndChallenge, Live, Appended
  <2>3. Cardinality(Completed(Journal')) = Cardinality(Completed(Journal))
    BY <2>1, <2>2, CompletedAppend
  <2>4. /\ OpenRounds(Journal') = OpenRounds(Journal)
        /\ \A k \in OpenRounds(Journal) : Journal'[k] = Journal[k]
    <3>1. OpenRounds(Journal') = OpenRounds(Journal)
          /\ OpenRounds(Journal) \subseteq 1..Len(Journal)
      BY <2>1, <2>2, OpenAppend
    <3>2. \A k \in 1..Len(Journal) : Journal'[k] = Journal[k]
      BY <2>1, <2>2, AppendFacts
    <3>3. QED
      BY <3>1, <3>2
  <2>5. QED
    BY <1>15, <1>c, <2>3, <2>4 DEF EndChallenge, counters, RoundInv, InRound, Opens
<1>16. CASE \E ahead \in {"a", "b", "none"} : EndVerification(ahead)
  BY <1>16 DEF EndVerification, Finalizing, ExitAfter, RoundInv, InRound
<1>17. CASE \E covered \in BOOLEAN : RecordRound(covered)
  <2>1. PICK e \in Entry :
            Appended(e) /\ e.type = "round_end" /\ e.index = index /\ e.winner = contender
            /\ e.changed = changed
    BY <1>17, <1>a, RecordAppends
  <2>2. Live /\ Journal \in Seq(Entry) /\ Journal' = Append(Journal, e)
    BY <1>17, <1>a, <2>1 DEF RecordRound, Unchanged, Live, Appended
  <2>3. \A k \in OpenRounds(Journal) : Journal[k].index = index
    BY <1>17 DEF RecordRound, RoundInv, Opens, InRound
  <2>4. OpenRounds(Journal') = {}
    <3>1. \A k \in OpenRounds(Journal') : k \in OpenRounds(Journal) /\ Journal[k].index # e.index
      BY <2>1, <2>2, OpenAppend
    <3>2. QED
      BY <2>1, <2>3, <3>1
  <2>5. Cardinality(Completed(Journal')) = Cardinality(Completed(Journal)) + 1
    BY <2>1, <2>2, CompletedAppend
  <2>6. noChange <= Cardinality(Completed(Journal)) /\ Cardinality(Completed(Journal)) < index
        /\ Cardinality(Completed(Journal)) \in Nat
    BY <1>17, <2>2, CompletedFinite DEF RecordRound, RoundInv, StageInv, InRound
  <2>7. /\ noChange' <= Cardinality(Completed(Journal))+ 1
        /\ Cardinality(Completed(Journal)) + 1 < index + 1
    BY <1>17, <1>a, <2>6 DEF RecordRound, Unchanged
  <2>8. QED
    BY <1>17, <2>4, <2>5, <2>7 DEF RecordRound, Closing, RoundInv, InRound
<1>18. CASE CloseRounds
  BY <1>18 DEF CloseRounds, Finalizing, RoundInv, InRound
<1>19. CASE EnterMatrix
  BY <1>19, <1>b, <1>c DEF EnterMatrix, RoundInv, InRound, Opens
<1>20. CASE MeasureCell
  BY <1>20, <1>b, <1>c DEF MeasureCell, RoundInv, InRound, Opens
<1>21. CASE LeaveMatrix
  BY <1>21 DEF LeaveMatrix, RoundInv, InRound
<1>22. CASE SkipVerification
  BY <1>22 DEF SkipVerification, Finalizing, RoundInv, InRound
<1>23. CASE Finalize
  <2>1. PICK e \in Entry :
            Appended(e) /\ e.type = "marathon_end"
    BY <1>23, <1>a, EndAppends
  <2>2. Live /\ Journal \in Seq(Entry) /\ Journal' = Append(Journal, e)
    BY <1>23, <1>a, <2>1 DEF Finalize, Live, Appended
  <2>3. QED
    BY <1>23 DEF Finalize, RoundInv, InRound
<1>24. CASE Raises
  BY <1>24 DEF Raises, Dies, RoundInv, InRound
<1>25. CASE SignalToRun
  BY <1>25, <1>b, <1>c DEF SignalToRun, Finalizing, counters, RoundInv, InRound, Opens
<1>26. CASE SignalToEnding
  BY <1>26 DEF SignalToEnding, Dies, RoundInv, InRound
<1>27. CASE SignalToChild
  BY <1>27, <1>b, <1>c DEF SignalToChild, counters, InChild, RoundInv, Opens
<1>28. CASE Crash
  BY <1>28 DEF Crash, Dies, RoundInv, InRound
<1>29. CASE UNCHANGED vars
  BY <1>29, <1>b, <1>c DEF vars, RoundInv, Opens
<1>30. QED
  BY <1>1, <1>2, <1>3, <1>4, <1>5, <1>6, <1>7, <1>8, <1>9, <1>10, <1>11, <1>12, <1>13, <1>14,
     <1>15, <1>16, <1>17, <1>18, <1>19, <1>20, <1>21, <1>22, <1>23, <1>24, <1>25, <1>26, <1>27,
     <1>28, <1>29 DEF Next, Work

(* A crowning is right if its challenge is in the journal before it.       *)
LEMMA CrownsWonAppend ==
    ASSUME NEW j \in Seq(Entry), NEW e \in Entry, NEW jj, jj = Append(j, e), CrownsWon(j),
           e.type = "round_end" /\ e.changed =>
               \E l \in 1..Len(j) : WonChallenge(j[l], e.index, e.winner)
    PROVE  CrownsWon(jj)
<1>1. /\ Len(j) \in Nat /\ jj[Len(j) + 1] = e
      /\ \A k \in 1..Len(j) : jj[k] = j[k]
  BY AppendFacts
<1>2. Crownings(j) \subseteq 1..Len(j)
  BY CrownAppend
<1>3. Crownings(jj) \subseteq Crownings(j) \cup {Len(j) + 1}
  BY CrownAppend
<1>4. Len(j) + 1 \in Crownings(jj) => e.type = "round_end" /\ e.changed
  <2>1. ~(e.type = "round_end" /\ e.changed) => Crownings(jj) = Crownings(j)
    BY CrownAppend
  <2>2. Len(j) + 1 \notin 1..Len(j)
    BY <1>1
  <2>3. QED
    BY <1>2, <2>1, <2>2
<1>5. ASSUME NEW k \in Crownings(j)
      PROVE  \E l \in 1..(k - 1) : WonChallenge(jj[l], jj[k].index, jj[k].winner)
  <2>1. PICK l \in 1..(k - 1) : WonChallenge(j[l], j[k].index, j[k].winner)
    BY DEF CrownsWon
  <2>2. l \in 1..Len(j) /\ k \in 1..Len(j)
    BY <1>1, <1>2
  <2>3. QED
    BY <1>1, <2>1, <2>2
<1>6. ASSUME Len(j) + 1 \in Crownings(jj)
      PROVE  \E l \in 1..((Len(j) + 1) - 1) : WonChallenge(jj[l], e.index, e.winner)
  <2>1. PICK l \in 1..Len(j) : WonChallenge(j[l], e.index, e.winner)
    BY <1>4, <1>6
  <2>2. l \in 1..((Len(j) + 1) - 1) /\ jj[l] = j[l]
    BY <1>1
  <2>3. QED
    BY <2>1, <2>2
<1>7. QED
  BY <1>1, <1>3, <1>5, <1>6 DEF CrownsWon

(* Only the journal written to has to be looked at.                        *)
LEMMA CrownsWonWrites ==
    ASSUME AllCrownsWon, run \in DOMAIN runs, UNCHANGED <<world, run>>, NEW e, Appended(e),
           CrownsWon(Journal')
    PROVE  AllCrownsWon'
<1>1. \A j : CrownsWon(j)' = CrownsWon(j)
  BY DEF CrownsWon, WonChallenge, ChallengeBlocks
<1>2. ASSUME NEW r \in DOMAIN runs
      PROVE  CrownsWon(runs'[r].journal)
  <2>1. CASE r = run
    BY <2>1 DEF Journal
  <2>2. CASE r # run
    BY <2>2 DEF AllCrownsWon, Appended
  <2>3. QED
    BY <2>1, <2>2
<1>3. QED
  BY <1>1, <1>2 DEF AllCrownsWon, Appended

(* Every crowning of every journal was won.                                *)
LEMMA CrownsWonInductive ==
    TypeOK /\ CrownInv /\ AllCrownsWon /\ [Next]_vars => AllCrownsWon'
<1> SUFFICES ASSUME TypeOK, CrownInv, AllCrownsWon, [Next]_vars
             PROVE  AllCrownsWon'
  OBVIOUS
<1>a. /\ TypeOK
      /\ Live => run \in DOMAIN runs /\ Journal \in Seq(Entry) /\ CrownsWon(Journal)
  <2>1. Live => run > 0
    BY DEF TypeOK, Live
  <2>2. run > 0 => run \in DOMAIN runs /\ Journal \in Seq(Entry)
    BY JournalFacts
  <2>3. run \in DOMAIN runs => CrownsWon(Journal)
    BY DEF AllCrownsWon, Journal
  <2>4. QED
    BY <2>1, <2>2, <2>3
<1>b. /\ \A j : CrownsWon(j)' = CrownsWon(j)
      /\ UNCHANGED runs => AllCrownsWon'
  BY WorldStays DEF CrownsWon, AllCrownsWon, WonChallenge, ChallengeBlocks
<1>1. CASE \E id \in world.ids : StartProcess(id)
  <2>1. PICK id \in world.ids : StartProcess(id)
    BY <1>1
  <2>2. CASE Unfinished(id) # {}
    BY <1>b, <2>1, <2>2 DEF StartProcess
  <2>3. CASE Unfinished(id) = {}
    <3>1. runs' = Append(runs, [id |-> 0, journal |-> <<>>])
      BY <2>1, <2>3 DEF StartProcess
    <3>2. /\ DOMAIN runs' = DOMAIN runs \cup {Len(runs) + 1}
          /\ \A r \in DOMAIN runs : runs'[r] = runs[r]
          /\ runs'[Len(runs) + 1].journal = <<>>
      BY <1>a, <3>1
    <3>3. CrownsWon(<<>>)
      BY DEF CrownsWon, Crownings, Completed, Entries
    <3>4. QED
      BY <1>b, <3>2, <3>3 DEF AllCrownsWon
  <2>4. QED
    BY <2>2, <2>3
<1>2. CASE \E dry \in world.dry : Stamp(dry)
  <2>1. run \in DOMAIN runs /\ runs \in Seq(Directories)
    BY <1>2, <1>a DEF Stamp, TypeOK
  <2>2. /\ DOMAIN runs' = DOMAIN runs
        /\ \A r \in DOMAIN runs : runs'[r].journal = runs[r].journal
    BY <1>2, <2>1 DEF Stamp, Directories
  <2>3. QED
    BY <1>b, <2>2 DEF AllCrownsWon
<1>3. CASE Resume
  BY <1>3, <1>b DEF Resume
<1>4. CASE \E type \in {"round_end", "round_failed"} : ResumedRoundEnds(type)
  <2>1. PICK e \in Entry :
            Appended(e) /\ e.type \in {"round_end", "round_failed"} /\ e.index = index
            /\ e.changed = FALSE
    BY <1>4, <1>a, ResumedRoundAppends
  <2>2. Live /\ UNCHANGED <<run, world>>
    BY <1>4 DEF ResumedRoundEnds, life, Live
  <2>3. CrownsWon(Journal')
    <3>1. Journal \in Seq(Entry) /\ CrownsWon(Journal) /\ Journal' = Append(Journal, e)
      BY <1>a, <2>1, <2>2 DEF Appended
    <3>2. QED
      BY <2>1, <3>1, CrownsWonAppend
  <2>4. QED
    BY <1>a, <2>1, <2>2, <2>3, CrownsWonWrites
<1>5. CASE ReconKnown
  BY <1>5, <1>b DEF ReconKnown, Inherited
<1>6. CASE ReconPasses
  <2>1. PICK e \in Entry :
            Appended(e) /\ e.type = "recon_complete"
    BY <1>6, <1>a, ReconAppends
  <2>2. Live /\ UNCHANGED <<run, world>>
    BY <1>6 DEF ReconPasses, Inherited, life, Live
  <2>3. CrownsWon(Journal')
    <3>1. Journal \in Seq(Entry) /\ CrownsWon(Journal) /\ Journal' = Append(Journal, e)
      BY <1>a, <2>1, <2>2 DEF Appended
    <3>2. QED
      BY <2>1, <3>1, CrownsWonAppend
  <2>4. QED
    BY <1>a, <2>1, <2>2, <2>3, CrownsWonWrites
<1>7. CASE ReconFails
  BY <1>7, <1>b DEF ReconFails
<1>8. CASE BracketHolds
  BY <1>8, <1>b DEF BracketHolds
<1>9. CASE BracketErrs
  BY <1>9, <1>b DEF BracketErrs
<1>10. CASE LeaveRounds
  BY <1>10, <1>b DEF LeaveRounds
<1>11. CASE StartRound
  <2>1. PICK e \in Entry :
            Appended(e) /\ e.type = "round_start" /\ e.index = index
    BY <1>11, <1>a, StartRoundAppends
  <2>2. Live /\ UNCHANGED <<run, world>>
    BY <1>11 DEF StartRound, life, Live
  <2>3. CrownsWon(Journal')
    <3>1. Journal \in Seq(Entry) /\ CrownsWon(Journal) /\ Journal' = Append(Journal, e)
      BY <1>a, <2>1, <2>2 DEF Appended
    <3>2. QED
      BY <2>1, <3>1, CrownsWonAppend
  <2>4. QED
    BY <1>a, <2>1, <2>2, <2>3, CrownsWonWrites
<1>12. CASE \E w \in world.winners \cup {None} : RoundEnds(w)
  BY <1>12, <1>b DEF RoundEnds
<1>13. CASE RoundFails
  <2>1. PICK e \in Entry :
            Appended(e) /\ e.type = "round_failed" /\ e.index = index
    BY <1>13, <1>a, RoundFailsAppends
  <2>2. Live /\ UNCHANGED <<run, world>>
    BY <1>13 DEF RoundFails, Tripped, life, Live
  <2>3. CrownsWon(Journal')
    <3>1. Journal \in Seq(Entry) /\ CrownsWon(Journal) /\ Journal' = Append(Journal, e)
      BY <1>a, <2>1, <2>2 DEF Appended
    <3>2. QED
      BY <2>1, <3>1, CrownsWonAppend
  <2>4. QED
    BY <1>a, <2>1, <2>2, <2>3, CrownsWonWrites
<1>14. CASE \E side \in {"a", "b", "tie"} : PlayBlock(side)
  BY <1>14, <1>b DEF PlayBlock
<1>15. CASE \E ahead \in {"a", "b", "none"} : EndChallenge(ahead)
  <2>1. PICK e \in Entry :
            Appended(e) /\ e.type = "challenge" /\ e.index = index /\ e.winner = contender
    BY <1>15, <1>a, ChallengeAppends
  <2>2. Live /\ UNCHANGED <<run, world>>
    BY <1>15 DEF EndChallenge, life, Live
  <2>3. CrownsWon(Journal')
    <3>1. Journal \in Seq(Entry) /\ CrownsWon(Journal) /\ Journal' = Append(Journal, e)
      BY <1>a, <2>1, <2>2 DEF Appended
    <3>2. QED
      BY <2>1, <3>1, CrownsWonAppend
  <2>4. QED
    BY <1>a, <2>1, <2>2, <2>3, CrownsWonWrites
<1>16. CASE \E ahead \in {"a", "b", "none"} : EndVerification(ahead)
  BY <1>16, <1>b DEF EndVerification, ExitAfter
<1>17. CASE \E covered \in BOOLEAN : RecordRound(covered)
  <2>1. PICK e \in Entry :
            Appended(e) /\ e.type = "round_end" /\ e.index = index /\ e.winner = contender
            /\ e.changed = changed
    BY <1>17, <1>a, RecordAppends
  <2>2. Live /\ UNCHANGED <<run, world>>
    BY <1>17 DEF RecordRound, Unchanged, life, Live
  <2>3. changed => \E l \in 1..Len(Journal) : WonChallenge(Journal[l], index, contender)
    BY <1>17, <1>a, <2>2 DEF RecordRound, CrownInv
  <2>4. CrownsWon(Journal')
    <3>1. Journal \in Seq(Entry) /\ CrownsWon(Journal) /\ Journal' = Append(Journal, e)
      BY <1>a, <2>1, <2>2 DEF Appended
    <3>2. QED
      BY <2>1, <2>3, <3>1, CrownsWonAppend
  <2>5. QED
    BY <1>a, <2>1, <2>2, <2>4, CrownsWonWrites
<1>18. CASE CloseRounds
  BY <1>18, <1>b DEF CloseRounds
<1>19. CASE EnterMatrix
  BY <1>19, <1>b DEF EnterMatrix
<1>20. CASE MeasureCell
  BY <1>20, <1>b DEF MeasureCell
<1>21. CASE LeaveMatrix
  BY <1>21, <1>b DEF LeaveMatrix
<1>22. CASE SkipVerification
  BY <1>22, <1>b DEF SkipVerification
<1>23. CASE Finalize
  <2>1. PICK e \in Entry :
            Appended(e) /\ e.type = "marathon_end"
    BY <1>23, <1>a, EndAppends
  <2>2. Live /\ UNCHANGED <<run, world>>
    BY <1>23 DEF Finalize, life, Live
  <2>3. CrownsWon(Journal')
    <3>1. Journal \in Seq(Entry) /\ CrownsWon(Journal) /\ Journal' = Append(Journal, e)
      BY <1>a, <2>1, <2>2 DEF Appended
    <3>2. QED
      BY <2>1, <3>1, CrownsWonAppend
  <2>4. QED
    BY <1>a, <2>1, <2>2, <2>3, CrownsWonWrites
<1>24. CASE Raises
  BY <1>24, <1>b DEF Raises, Dies
<1>25. CASE SignalToRun
  BY <1>25, <1>b DEF SignalToRun
<1>26. CASE SignalToEnding
  BY <1>26, <1>b DEF SignalToEnding, Dies
<1>27. CASE SignalToChild
  BY <1>27, <1>b DEF SignalToChild
<1>28. CASE Crash
  BY <1>28, <1>b DEF Crash, Dies
<1>29. CASE UNCHANGED vars
  BY <1>29, <1>b DEF vars
<1>30. QED
  BY <1>1, <1>2, <1>3, <1>4, <1>5, <1>6, <1>7, <1>8, <1>9, <1>10, <1>11, <1>12, <1>13, <1>14,
     <1>15, <1>16, <1>17, <1>18, <1>19, <1>20, <1>21, <1>22, <1>23, <1>24, <1>25, <1>26, <1>27,
     <1>28, <1>29 DEF Next, Work

(* The champion in memory and the one in the journal agree, but for the    *)
(* time between a challenge won and the end of its round.                  *)
LEMMA CrownInductive ==
    TypeOK /\ StageInv /\ CrownInv /\ [Next]_vars => CrownInv'
<1> SUFFICES ASSUME TypeOK, StageInv, CrownInv, [Next]_vars
             PROVE  CrownInv'
  OBVIOUS
<1>a. /\ TypeOK /\ changed \in BOOLEAN
      /\ Live => run \in DOMAIN runs /\ Journal \in Seq(Entry)
  BY JournalFacts DEF TypeOK, FlagsOK, Live
<1>b. UNCHANGED <<runs, run>> => Journal' = Journal
  BY JournalStays
<1>c. world' = world
  BY WorldStays
<1>d. \A e, i, w : WonChallenge(e, i, w)' = WonChallenge(e, i, w)
  BY <1>c DEF WonChallenge, ChallengeBlocks
<1>1. CASE \E id \in world.ids : StartProcess(id)
  BY <1>1 DEF StartProcess, CrownInv, Rebuilt, ChampionIsJournaled
<1>2. CASE \E dry \in world.dry : Stamp(dry)
  BY <1>2 DEF Stamp, CrownInv, Rebuilt, ChampionIsJournaled
<1>3. CASE Resume
  BY <1>3, <1>b, <1>d DEF Resume, CrownInv, Rebuilt, ChampionIsJournaled
<1>4. CASE \E type \in {"round_end", "round_failed"} : ResumedRoundEnds(type)
  BY <1>4 DEF ResumedRoundEnds, CrownInv, Rebuilt, ChampionIsJournaled
<1>5. CASE ReconKnown
  BY <1>5, <1>b, <1>d DEF ReconKnown, Rebuild, Inherited, life, CrownInv, Rebuilt,
         ChampionIsJournaled
<1>6. CASE ReconPasses
  <2>1. PICK e \in Entry :
            Appended(e) /\ e.type = "recon_complete"
    BY <1>6, <1>a, ReconAppends
  <2>2. Live /\ Journal \in Seq(Entry) /\ Journal' = Append(Journal, e)
    BY <1>6, <1>a, <2>1 DEF ReconPasses, Inherited, Live, Appended
  <2>3. Crown(Journal') = Crown(Journal)
    BY <2>1, <2>2, CrownAppend
  <2>4. QED
    BY <1>6, <2>3 DEF ReconPasses, Rebuild, Inherited, CrownInv, Rebuilt, ChampionIsJournaled
<1>7. CASE ReconFails
  BY <1>7, <1>b, <1>d DEF ReconFails, Finalizing, CrownInv, Rebuilt, ChampionIsJournaled
<1>8. CASE BracketHolds
  BY <1>8, <1>b, <1>d DEF BracketHolds, AfterBracket, StageInv, life, CrownInv, Rebuilt,
         ChampionIsJournaled
<1>9. CASE BracketErrs
  BY <1>9, <1>b, <1>d DEF BracketErrs, AfterBracket, Finalizing, StageInv, life, CrownInv,
         Rebuilt, ChampionIsJournaled
<1>10. CASE LeaveRounds
  BY <1>10, <1>b, <1>d DEF LeaveRounds, Closing, life, CrownInv, Rebuilt, ChampionIsJournaled
<1>11. CASE StartRound
  <2>1. PICK e \in Entry :
            Appended(e) /\ e.type = "round_start" /\ e.index = index
    BY <1>11, <1>a, StartRoundAppends
  <2>2. Live /\ Journal \in Seq(Entry) /\ Journal' = Append(Journal, e)
    BY <1>11, <1>a, <2>1 DEF StartRound, Live, Appended
  <2>3. Crown(Journal') = Crown(Journal)
    BY <2>1, <2>2, CrownAppend
  <2>4. QED
    BY <1>11, <2>3 DEF StartRound, CrownInv, Rebuilt, ChampionIsJournaled
<1>12. CASE \E w \in world.winners \cup {None} : RoundEnds(w)
  <2>1. ~changed /\ UNCHANGED <<champion, changed, runs, run>> /\ champion = Crown(Journal)
    BY <1>12 DEF RoundEnds, life, StageInv, Settled, CrownInv, Rebuilt, ChampionIsJournaled
  <2>2. pc' \in {"challenge", "record"}
    BY <1>12 DEF RoundEnds
  <2>3. QED
    BY <1>b, <2>1, <2>2 DEF CrownInv, Rebuilt, ChampionIsJournaled
<1>13. CASE RoundFails
  <2>1. PICK e \in Entry :
            Appended(e) /\ e.type = "round_failed" /\ e.index = index
    BY <1>13, <1>a, RoundFailsAppends
  <2>2. Live /\ Journal \in Seq(Entry) /\ Journal' = Append(Journal, e)
    BY <1>13, <1>a, <2>1 DEF RoundFails, Tripped, Live, Appended
  <2>3. Crown(Journal') = Crown(Journal)
    BY <2>1, <2>2, CrownAppend
  <2>4. QED
    BY <1>13, <2>3 DEF RoundFails, Tripped, Finalizing, CrownInv, Rebuilt, ChampionIsJournaled
<1>14. CASE \E side \in {"a", "b", "tie"} : PlayBlock(side)
  BY <1>14, <1>b, <1>d DEF PlayBlock, life, CrownInv, Rebuilt, ChampionIsJournaled
<1>15. CASE \E ahead \in {"a", "b", "none"} : EndChallenge(ahead)
  <2>1. PICK ahead \in {"a", "b", "none"} : EndChallenge(ahead)
    BY <1>15
  <2>2. PICK e \in Entry :
            /\ Appended(e) /\ e.type = "challenge" /\ e.index = index /\ e.winner = contender
            /\ e.votes = IF Verdict(wins, Blocks, ahead) = "b" THEN wins.b ELSE 0
    BY <1>a, <2>1, ChallengeAppends
  <2>3. Live /\ Journal \in Seq(Entry) /\ Journal' = Append(Journal, e)
    BY <1>a, <2>1, <2>2 DEF EndChallenge, Live, Appended
  <2>4. Crown(Journal') = Crown(Journal)
    BY <2>2, <2>3, CrownAppend
  <2>5. champion = Crown(Journal) /\ ~changed
    BY <2>1 DEF EndChallenge, CrownInv, Rebuilt, StageInv, Settled, ChampionIsJournaled
  <2>6. Len(Journal) + 1 \in DOMAIN Journal' /\ Journal'[Len(Journal) + 1] = e
    BY <2>3, AppendFacts
  <2>7. changed' => WonChallenge(e, index, contender)'
    <3>1. ASSUME changed'
          PROVE  2 * e.votes > ChallengeBlocks
      <4>1. Verdict(wins, Blocks, ahead) = "b" /\ e.votes = wins.b /\ Blocks = ChallengeBlocks
        BY <2>1, <2>2, <3>1 DEF EndChallenge, Blocks
      <4>2. wins.b >= Majority(ChallengeBlocks)
        BY <4>1 DEF Verdict
      <4>3. wins.b \in Nat /\ ChallengeBlocks \in Nat
        BY WorldFacts DEF TypeOK, ChallengeBlocks
      <4>4. QED
        BY <4>1, <4>2, <4>3 DEF Majority
    <3>2. ChallengeBlocks' = ChallengeBlocks /\ index' = index /\ contender' = contender
      BY <1>c, <2>1 DEF EndChallenge, ChallengeBlocks
    <3>3. QED
      BY <2>2, <3>1, <3>2 DEF WonChallenge
  <2>8. pc' = "record" /\ champion' = IF changed' THEN contender' ELSE champion
    BY <2>1 DEF EndChallenge
  <2>9. QED
    BY <2>2, <2>4, <2>5, <2>6, <2>7, <2>8 DEF CrownInv, Rebuilt, WonChallenge, ChampionIsJournaled
<1>16. CASE \E ahead \in {"a", "b", "none"} : EndVerification(ahead)
  BY <1>16, <1>b, <1>d DEF EndVerification, Finalizing, ExitAfter, CrownInv, Rebuilt,
         ChampionIsJournaled
<1>17. CASE \E covered \in BOOLEAN : RecordRound(covered)
  <2>1. PICK e \in Entry :
            Appended(e) /\ e.type = "round_end" /\ e.index = index /\ e.winner = contender
            /\ e.changed = changed
    BY <1>17, <1>a, RecordAppends
  <2>2. Live /\ Journal \in Seq(Entry) /\ Journal' = Append(Journal, e)
    BY <1>17, <1>a, <2>1 DEF RecordRound, Unchanged, Live, Appended
  <2>3. Crown(Journal') = IF changed THEN contender ELSE Crown(Journal)
    BY <1>a, <2>1, <2>2, CrownAppend
  <2>4. QED
    BY <1>17, <2>3 DEF RecordRound, CrownInv, Rebuilt, ChampionIsJournaled
<1>18. CASE CloseRounds
  BY <1>18, <1>b, <1>d DEF CloseRounds, Finalizing, life, CrownInv, Rebuilt, ChampionIsJournaled
<1>19. CASE EnterMatrix
  BY <1>19, <1>b, <1>d DEF EnterMatrix, life, CrownInv, Rebuilt, ChampionIsJournaled
<1>20. CASE MeasureCell
  BY <1>20, <1>b, <1>d DEF MeasureCell, life, CrownInv, Rebuilt, ChampionIsJournaled
<1>21. CASE LeaveMatrix
  BY <1>21, <1>b, <1>d DEF LeaveMatrix, life, CrownInv, Rebuilt, ChampionIsJournaled
<1>22. CASE SkipVerification
  BY <1>22, <1>b, <1>d DEF SkipVerification, Finalizing, CrownInv, Rebuilt, ChampionIsJournaled
<1>23. CASE Finalize
  BY <1>23 DEF Finalize, CrownInv, Rebuilt, ChampionIsJournaled
<1>24. CASE Raises
  BY <1>24 DEF Raises, Dies, CrownInv, Rebuilt, ChampionIsJournaled
<1>25. CASE SignalToRun
  <2>1. UNCHANGED <<champion, changed, contender, index, runs, run>> /\ pc' \in {pc, "finalizing"}
    BY <1>25 DEF SignalToRun, Finalizing, contest
  <2>2. QED
    BY <1>b, <1>d, <2>1 DEF CrownInv, Rebuilt, ChampionIsJournaled
<1>26. CASE SignalToEnding
  BY <1>26 DEF SignalToEnding, Dies, CrownInv, Rebuilt, ChampionIsJournaled
<1>27. CASE SignalToChild
  BY <1>27, <1>b, <1>d DEF SignalToChild, contest, CrownInv, Rebuilt, ChampionIsJournaled
<1>28. CASE Crash
  BY <1>28 DEF Crash, Dies, CrownInv, Rebuilt, ChampionIsJournaled
<1>29. CASE UNCHANGED vars
  BY <1>29, <1>b, <1>d DEF vars, CrownInv, Rebuilt, ChampionIsJournaled
<1>30. QED
  BY <1>1, <1>2, <1>3, <1>4, <1>5, <1>6, <1>7, <1>8, <1>9, <1>10, <1>11, <1>12, <1>13, <1>14,
     <1>15, <1>16, <1>17, <1>18, <1>19, <1>20, <1>21, <1>22, <1>23, <1>24, <1>25, <1>26, <1>27,
     <1>28, <1>29 DEF Next, Work

(* Counters start at zero.                                                 *)
LEMMA NewestNone ==
    ASSUME NEW j, NEW n \in Nat, NEW S \in SUBSET (1..n)
    PROVE  NewestFailed(j, S, 0) /\ NewestQuiet(j, S, 0)
<1>1. LastEntries(S, 0) = {} /\ Cardinality(LastEntries(S, 0)) = 0
  BY LastNone, FS_EmptySet
<1>2. \A m \in 0..0 : m = 0
  OBVIOUS
<1>3. QED
  BY <1>1, <1>2 DEF NewestFailed, NewestQuiet

(* Entries of other kinds leave the counters right.                        *)
LEMMA NewestKept ==
    ASSUME NEW j \in Seq(Entry), NEW e \in Entry, NEW jj, jj = Append(j, e),
           NEW S \in SUBSET (1..Len(j)),
           NEW n \in Nat
    PROVE  /\ NewestFailed(j, S, n) => NewestFailed(jj, S, n)
           /\ NewestQuiet(j, S, n) => NewestQuiet(jj, S, n)
<1>1. \A k \in S : jj[k] = j[k]
  BY AppendFacts
<1>2. \A m : LastEntries(S, m) \subseteq S
  BY DEF LastEntries
<1>3. QED
  BY <1>1, <1>2 DEF NewestFailed, NewestQuiet

(* An entry of the kind counted raises its counter by one.                 *)
LEMMA NewestGrow ==
    ASSUME NEW j \in Seq(Entry), NEW e \in Entry, NEW jj, jj = Append(j, e),
           NEW S \in SUBSET (1..Len(j)),
           NEW n \in Nat
    PROVE  /\ e.type = "round_failed" /\ NewestFailed(j, S, n) =>
                NewestFailed(jj, S \cup {Len(j) + 1}, n + 1)
           /\ ~e.changed /\ NewestQuiet(j, S, n) =>
                NewestQuiet(jj, S \cup {Len(j) + 1}, n + 1)
<1> DEFINE top == Len(j) + 1
           SS == S \cup {top}
<1>1. /\ jj[top] = e /\ Len(j) \in Nat
      /\ \A k \in S : jj[k] = j[k]
  BY AppendFacts
<1>2. ASSUME NEW m \in Nat
      PROVE  /\ LastEntries(SS, m + 1) = LastEntries(S, m) \cup {top}
             /\ Cardinality(LastEntries(SS, m + 1)) = Cardinality(LastEntries(S, m)) + 1
             /\ LastEntries(S, m) \subseteq S
  <2>1. /\ LastEntries(S \cup {Len(j) + 1}, m + 1) = LastEntries(S, m) \cup {Len(j) + 1}
        /\ Cardinality(LastEntries(S \cup {Len(j) + 1}, m + 1)) = Cardinality(LastEntries(S, m)) + 1
    BY <1>1, LastGrows
  <2>2. LastEntries(S, m) \subseteq S
    BY DEF LastEntries
  <2>3. QED
    BY <2>1, <2>2
<1>3. ASSUME e.type = "round_failed", NewestFailed(j, S, n)
      PROVE  NewestFailed(jj, SS, n + 1)
  <2>1. Cardinality(LastEntries(SS, n + 1)) = n + 1
    BY <1>2, <1>3 DEF NewestFailed
  <2>2. \A k \in LastEntries(SS, n + 1) : jj[k].type = "round_failed"
    BY <1>1, <1>2, <1>3 DEF NewestFailed
  <2>3. QED
    BY <2>1, <2>2 DEF NewestFailed
<1>4. ASSUME ~e.changed, NewestQuiet(j, S, n), NEW m \in 0..(n + 1)
      PROVE  Cardinality(LastEntries(SS, m)) = m /\ \A k \in LastEntries(SS, m) : ~jj[k].changed
  <2>1. CASE m = 0
    <3>1. SS \in SUBSET (1..(Len(j) + 1)) /\ Len(j) + 1 \in Nat
      <4>1. 1..Len(j) \subseteq 1..(Len(j) + 1) /\ top \in 1..(Len(j) + 1) /\ Len(j) + 1 \in Nat
        BY <1>1
      <4>2. QED
        BY <4>1
    <3>2. LastEntries(SS, 0) = {}
      BY <3>1, LastNone
    <3>3. QED
      BY <2>1, <3>2, FS_EmptySet
  <2>2. CASE m # 0
    <3>1. PICK i \in 0..n : m = i + 1
      <4>1. m - 1 \in 0..n /\ m = (m - 1) + 1
        BY <2>2
      <4>2. QED
        BY <4>1
    <3>2. /\ Cardinality(LastEntries(S, i)) = i
          /\ \A k \in LastEntries(S, i) : ~j[k].changed
      BY <1>4 DEF NewestQuiet
    <3>3. /\ LastEntries(SS, m) = LastEntries(S, i) \cup {top}
          /\ Cardinality(LastEntries(SS, m)) = i + 1
          /\ LastEntries(S, i) \subseteq S
      <4>1. i \in Nat
        OBVIOUS
      <4> HIDE DEF SS, top
      <4>2. QED
        BY <1>2, <3>1, <3>2, <4>1
    <3>4. QED
      BY <1>1, <1>4, <3>1, <3>2, <3>3
  <2>3. QED
    BY <2>1, <2>2
<1>5. QED
  BY <1>3, <1>4 DEF NewestQuiet

(* A process's own entries are in its journal.                             *)
LEMMA OwnBelow ==
    ASSUME Len(Journal) \in Nat, since \in Nat, NEW types
    PROVE  OwnEntries(types) \in SUBSET (1..Len(Journal))
BY DEF OwnEntries

(* A process's own entries, for actions that write nothing.                *)
LEMMA OwnStays ==
    ASSUME UNCHANGED <<runs, run, since>>
    PROVE  /\ Journal' = Journal /\ Ends' = Ends /\ Quiet' = Quiet /\ (NoneFailed' <=> NoneFailed)
           /\ OwnEntries({"round_start"})' = OwnEntries({"round_start"})
BY DEF Journal, Ends, Quiet, OwnEntries, NoneFailed

(* A process's own entries after a write.                                  *)
LEMMA OwnAppends ==
    ASSUME Journal \in Seq(Entry), NEW e \in Entry, Journal' = Append(Journal, e), since' = since,
           since \in Nat, since <= Len(Journal), NEW types
    PROVE  /\ e.type \in types => OwnEntries(types)' = OwnEntries(types) \cup {Len(Journal) + 1}
           /\ e.type \notin types => OwnEntries(types)' = OwnEntries(types)
<1>1. /\ Len(Journal) \in Nat /\ Len(Journal') = Len(Journal) + 1
      /\ \A k \in 1..Len(Journal) : Journal'[k] = Journal[k]
      /\ Journal'[Len(Journal) + 1] = e
  BY AppendFacts
<1>2. /\ (since + 1)..Len(Journal') = ((since + 1)..Len(Journal)) \cup {Len(Journal) + 1}
      /\ (since + 1)..Len(Journal) \subseteq 1..Len(Journal)
  BY <1>1
<1>3. QED
  BY <1>1, <1>2 DEF OwnEntries

(* A failed round is not forgotten, and nothing else counts as one.        *)
LEMMA NoneFailedAppends ==
    ASSUME Journal \in Seq(Entry), NEW e \in Entry, Journal' = Append(Journal, e), since' = since,
           since \in Nat, since <= Len(Journal), NoneFailed,
           e.type # "round_failed" \/ OwnEntries({"round_start"}) = {}
    PROVE  NoneFailed'
<1>1. /\ Len(Journal) \in Nat
      /\ \A k \in 1..Len(Journal) : Journal'[k] = Journal[k]
  BY AppendFacts
<1>2. /\ OwnEntries({"round_failed"}) \in SUBSET (1..Len(Journal))
      /\ OwnEntries({"round_start"}) \in SUBSET (1..Len(Journal))
  BY <1>1, OwnBelow
<1>3. CASE e.type = "round_failed"
  <2>1. OwnEntries({"round_start"})' = {}
    BY <1>3, OwnAppends
  <2>2. QED
    BY <2>1 DEF NoneFailed
<1>4. CASE e.type # "round_failed"
  <2>1. OwnEntries({"round_failed"})' = OwnEntries({"round_failed"})
    BY <1>4, OwnAppends
  <2>2. OwnEntries({"round_start"})' \subseteq OwnEntries({"round_start"}) \cup {Len(Journal) + 1}
    BY OwnAppends
  <2>3. ASSUME NEW k \in OwnEntries({"round_failed"}), NEW l \in OwnEntries({"round_start"})', l < k
        PROVE  l \in OwnEntries({"round_start"}) /\ Journal'[k] = Journal[k]
               /\ Journal'[l] = Journal[l]
    BY <1>1, <1>2, <2>2, <2>3
  <2>4. QED
    BY <2>1, <2>3 DEF NoneFailed
<1>5. QED
  BY <1>3, <1>4

(* The exit code a process is heading for agrees with its journal.         *)
LEMMA ExitInductive ==
    TypeOK /\ StageInv /\ CountInv /\ ExitInv /\ [Next]_vars => ExitInv'
<1> SUFFICES ASSUME TypeOK, StageInv, CountInv, ExitInv, [Next]_vars
             PROVE  ExitInv'
  OBVIOUS
<1>a. /\ TypeOK /\ since \in Nat /\ world' = world
      /\ Live => /\ run \in DOMAIN runs /\ Journal \in Seq(Entry) /\ Len(Journal) \in Nat
                 /\ since <= Len(Journal)
  BY JournalFacts, WorldStays DEF TypeOK, Live, CountInv
<1>b. UNCHANGED <<runs, run, since>> =>
          /\ Journal' = Journal /\ Ends' = Ends /\ Quiet' = Quiet /\ (NoneFailed' <=> NoneFailed)
          /\ OwnEntries({"round_start"})' = OwnEntries({"round_start"})
  BY OwnStays
<1>1. CASE \E id \in world.ids : StartProcess(id)
  <2>1. Len(Journal') \in Nat /\ since' = Len(Journal')
    BY <1>1, <1>a, ProcessInductive DEF StartProcess, Journal
  <2>2. \A types : OwnEntries(types)' = {}
    BY <2>1 DEF OwnEntries
  <2>3. OwnEntries({"round_start"})' = {} /\ NoneFailed'
    BY <2>2 DEF NoneFailed
  <2>4. pc' \notin Settled
    BY <1>1 DEF StartProcess, Settled
  <2>5. QED
    BY <2>3, <2>4 DEF ExitInv
<1>2. CASE \E dry \in world.dry : Stamp(dry)
  <2>1. run \in DOMAIN runs /\ runs \in Seq(Directories) /\ run' = run /\ since' = since
    BY <1>2, <1>a DEF Stamp, TypeOK, life
  <2>2. Journal' = Journal
    <3>1. runs[run] \in Directories /\ runs' = [runs EXCEPT ![run].id = identity]
      BY <1>2, <2>1 DEF Stamp
    <3>2. runs'[run] = [runs[run] EXCEPT !.id = identity]
      BY <2>1, <3>1
    <3>3. runs'[run].journal = runs[run].journal
      BY <3>1, <3>2 DEF Directories
    <3>4. QED
      BY <2>1, <3>3 DEF Journal
  <2>3. OwnEntries({"round_start"})' = {}
    BY <1>2, <2>1, <2>2 DEF Stamp, ExitInv, OwnEntries
  <2>4. NoneFailed'
    BY <2>3 DEF NoneFailed
  <2>5. pc' \in Settled => reason' = "dry_run"
    BY <1>2 DEF Stamp, Settled
  <2>6. QED
    BY <2>3, <2>4, <2>5 DEF ExitInv
<1>3. CASE Resume
  BY <1>3, <1>a, <1>b DEF Resume, ExitInv, Live, Settled, life, counters, outcome
<1>4. CASE \E type \in {"round_end", "round_failed"} : ResumedRoundEnds(type)
  <2>1. PICK e \in Entry :
            Appended(e) /\ e.type \in {"round_end", "round_failed"} /\ e.index = index
            /\ e.changed = FALSE
    BY <1>4, <1>a, ResumedRoundAppends
  <2>2. /\ Live /\ Journal \in Seq(Entry) /\ Journal' = Append(Journal, e) /\ since' = since
        /\ since \in Nat /\ since <= Len(Journal)
    BY <1>4, <1>a, <2>1 DEF ResumedRoundEnds, life, Live, Appended
  <2>3. OwnEntries({"round_start"}) = {}
    BY <1>4 DEF ResumedRoundEnds, ExitInv
  <2>4. OwnEntries({"round_start"})' = {}
    BY <2>1, <2>2, <2>3, OwnAppends
  <2>5. NoneFailed'
    BY <2>4 DEF NoneFailed
  <2>6. pc' \notin Settled
    BY <1>4 DEF ResumedRoundEnds, Settled
  <2>7. QED
    BY <2>4, <2>5, <2>6 DEF ExitInv
<1>5. CASE ReconKnown
  BY <1>5, <1>a, <1>b DEF ReconKnown, Rebuild, Inherited, ExitInv, Live, Settled, life
<1>6. CASE ReconPasses
  <2>1. PICK e \in Entry :
            Appended(e) /\ e.type = "recon_complete"
    BY <1>6, <1>a, ReconAppends
  <2>2. /\ Live /\ Journal \in Seq(Entry) /\ Journal' = Append(Journal, e) /\ since' = since
        /\ since \in Nat /\ since <= Len(Journal)
    BY <1>6, <1>a, <2>1 DEF ReconPasses, Inherited, life, Live, Appended
  <2>3. OwnEntries({"round_start"}) = {}
    BY <1>6 DEF ReconPasses, ExitInv
  <2>4. OwnEntries({"round_start"})' = {}
    BY <2>1, <2>2, <2>3, OwnAppends
  <2>5. NoneFailed'
    BY <2>4 DEF NoneFailed
  <2>6. pc' \notin Settled
    BY <1>6 DEF ReconPasses, Rebuild, Inherited, Settled
  <2>7. QED
    BY <2>4, <2>5, <2>6 DEF ExitInv
<1>7. CASE ReconFails
  BY <1>7, <1>a, <1>b DEF ReconFails, Finalizing, ExitInv, Live, Settled, life, outcome
<1>8. CASE BracketHolds
  BY <1>8, <1>a, <1>b DEF BracketHolds, AfterBracket, ExitInv, Live, Settled, StageInv, life,
         outcome
<1>9. CASE BracketErrs
  BY <1>9, <1>a, <1>b DEF BracketErrs, AfterBracket, Finalizing, ExitInv, Live, Settled, StageInv,
         life, outcome
<1>10. CASE LeaveRounds
  BY <1>10, <1>a, <1>b DEF LeaveRounds, Closing, ExitInv, Live, Settled, life, counters
<1>11. CASE StartRound
  <2>1. PICK e \in Entry :
            Appended(e) /\ e.type = "round_start" /\ e.index = index
    BY <1>11, <1>a, StartRoundAppends
  <2>2. /\ Live /\ Journal \in Seq(Entry) /\ Journal' = Append(Journal, e) /\ since' = since
        /\ since \in Nat /\ since <= Len(Journal)
    BY <1>11, <1>a, <2>1 DEF StartRound, life, Live, Appended
  <2>3. NoneFailed => NoneFailed'
    BY <2>1, <2>2, NoneFailedAppends
  <2>4. QED
    BY <1>11, <2>3, <1>a DEF StartRound, ExitInv, StageInv, Live, Settled, counters
<1>12. CASE \E w \in world.winners \cup {None} : RoundEnds(w)
  BY <1>12, <1>a, <1>b DEF RoundEnds, ExitInv, Live, Settled, StageInv, InRound, life
<1>13. CASE RoundFails
  <2>1. PICK e \in Entry :
            Appended(e) /\ e.type = "round_failed" /\ e.index = index
    BY <1>13, <1>a, RoundFailsAppends
  <2>2. /\ Live /\ Journal \in Seq(Entry) /\ Journal' = Append(Journal, e) /\ since' = since
        /\ since \in Nat /\ since <= Len(Journal)
    BY <1>13, <1>a, <2>1 DEF RoundFails, Tripped, life, Live, Appended
  <2>3. phase' = "rounds" /\ failed' /\ (pc' = "loop" \/ exit' = 3)
    BY <1>13 DEF RoundFails, Tripped, Finalizing, StageInv, InRound
  <2>4. pc' \in {"loop", "finalizing"}
    BY <1>13 DEF RoundFails, Tripped, Finalizing
  <2>5. QED
    BY <2>3, <2>4 DEF ExitInv, Settled
<1>14. CASE \E side \in {"a", "b", "tie"} : PlayBlock(side)
  BY <1>14, <1>a, <1>b DEF PlayBlock, ExitInv, Live, Settled, life, counters, outcome
<1>15. CASE \E ahead \in {"a", "b", "none"} : EndChallenge(ahead)
  <2>1. PICK e \in Entry :
            Appended(e) /\ e.type = "challenge" /\ e.index = index /\ e.winner = contender
    BY <1>15, <1>a, ChallengeAppends
  <2>2. /\ Live /\ Journal \in Seq(Entry) /\ Journal' = Append(Journal, e) /\ since' = since
        /\ since \in Nat /\ since <= Len(Journal)
    BY <1>15, <1>a, <2>1 DEF EndChallenge, life, Live, Appended
  <2>3. NoneFailed => NoneFailed'
    BY <2>1, <2>2, NoneFailedAppends
  <2>4. QED
    BY <1>15, <2>3, <1>a DEF EndChallenge, ExitInv, StageInv, InRound, Live, Settled, counters
<1>16. CASE \E ahead \in {"a", "b", "none"} : EndVerification(ahead)
  <2>1. PICK ahead \in {"a", "b", "none"} : EndVerification(ahead)
    BY <1>16
  <2>2. /\ pc' = "finalizing" /\ champion' = champion /\ champion # None /\ wins' = wins
        /\ phase = "verification" /\ UNCHANGED <<runs, run, since, failed, phase>> /\ Live
             /\ pc \notin Settled
    BY <2>1 DEF EndVerification, Finalizing, contest, counters, life, StageInv, Live, Settled
  <2>3. exit' = 0 => exit = 0 /\ Verdict(wins, world.blocks, ahead) = "b"
    BY <2>1 DEF EndVerification, Finalizing, ExitAfter, Blocks
  <2>4. exit' = 0 => wins.b >= Majority(world.blocks)
    BY <2>3 DEF Verdict
  <2>5. wins.b \in Nat /\ world.blocks \in Nat
    BY <1>a, WorldFacts DEF TypeOK
  <2>6. exit' = 0 => 2 * wins.b > world.blocks
    BY <2>4, <2>5 DEF Majority
  <2>7. exit' = 0 => NoneFailed'
    BY <1>b, <2>2, <2>3 DEF ExitInv
  <2>8. ~failed' => NoneFailed'
    BY <1>b, <2>2 DEF ExitInv
  <2>9. QED
    BY <1>a, <2>2, <2>6, <2>7, <2>8 DEF ExitInv
<1>17. CASE \E covered \in BOOLEAN : RecordRound(covered)
  <2>1. PICK e \in Entry :
            Appended(e) /\ e.type = "round_end" /\ e.index = index /\ e.winner = contender
            /\ e.changed = changed
    BY <1>17, <1>a, RecordAppends
  <2>2. /\ Live /\ Journal \in Seq(Entry) /\ Journal' = Append(Journal, e) /\ since' = since
        /\ since \in Nat /\ since <= Len(Journal)
    BY <1>17, <1>a, <2>1 DEF RecordRound, Unchanged, life, Live, Appended
  <2>3. NoneFailed => NoneFailed'
    BY <2>1, <2>2, NoneFailedAppends
  <2>4. QED
    BY <1>17, <2>3, <1>a DEF RecordRound, Unchanged, Closing, ExitInv, StageInv, InRound, Live,
           Settled
<1>18. CASE CloseRounds
  BY <1>18, <1>a, <1>b DEF CloseRounds, Finalizing, ExitInv, Live, Settled, life, counters
<1>19. CASE EnterMatrix
  BY <1>19, <1>a, <1>b DEF EnterMatrix, ExitInv, Live, Settled, StageInv, life, counters
<1>20. CASE MeasureCell
  BY <1>20, <1>a, <1>b DEF MeasureCell, ExitInv, Live, Settled, StageInv, life, counters
<1>21. CASE LeaveMatrix
  <2>1. /\ pc' = "bracket" /\ UNCHANGED <<runs, run, since, failed>> /\ Live
        /\ (exit' = 0 => ~failed)
    BY <1>21 DEF LeaveMatrix, life, counters, Live
  <2>2. QED
    BY <1>b, <2>1 DEF ExitInv, Settled
<1>22. CASE SkipVerification
  BY <1>22, <1>a, <1>b DEF SkipVerification, Finalizing, ExitInv, Live, life, counters
<1>23. CASE Finalize
  <2>1. PICK e \in Entry :
            Appended(e) /\ e.type = "marathon_end"
    BY <1>23, <1>a, EndAppends
  <2>2. /\ Live /\ Journal \in Seq(Entry) /\ Journal' = Append(Journal, e) /\ since' = since
        /\ since \in Nat /\ since <= Len(Journal)
    BY <1>23, <1>a, <2>1 DEF Finalize, life, Live, Appended
  <2>3. NoneFailed => NoneFailed'
    BY <2>1, <2>2, NoneFailedAppends
  <2>4. QED
    BY <1>23, <2>3, <1>a DEF Finalize, ExitInv, Live, Settled, counters, contest, outcome
<1>24. CASE Raises
  BY <1>24 DEF Raises, Dies, ExitInv, Live, Settled
<1>25. CASE SignalToRun
  <2>1. /\ UNCHANGED <<runs, run, since, failed, phase, champion, wins>> /\ Live
        /\ \/ UNCHANGED <<pc, reason, exit>>
           \/ pc' = "finalizing" /\ exit' = 4
    BY <1>25 DEF SignalToRun, Finalizing, counters, contest, Handling, Live
  <2>2. QED
    BY <1>a, <1>b, <2>1 DEF ExitInv
<1>26. CASE SignalToEnding
  BY <1>26 DEF SignalToEnding, Dies, ExitInv, Live, Settled
<1>27. CASE SignalToChild
  BY <1>27, <1>a, <1>b DEF SignalToChild, ExitInv, Live, counters, contest
<1>28. CASE Crash
  BY <1>28 DEF Crash, Dies, ExitInv, Live, Settled
<1>29. CASE UNCHANGED vars
  BY <1>29, <1>a, <1>b DEF vars, ExitInv, Live
<1>30. QED
  BY <1>1, <1>2, <1>3, <1>4, <1>5, <1>6, <1>7, <1>8, <1>9, <1>10, <1>11, <1>12, <1>13, <1>14,
     <1>15, <1>16, <1>17, <1>18, <1>19, <1>20, <1>21, <1>22, <1>23, <1>24, <1>25, <1>26, <1>27,
     <1>28, <1>29 DEF Next, Work

(* failures and no_change count the newest of the process's own entries.   *)
LEMMA CountInductive ==
    TypeOK /\ StageInv /\ CountInv /\ [Next]_vars => CountInv'
<1> SUFFICES ASSUME TypeOK, StageInv, CountInv, [Next]_vars
             PROVE  CountInv'
  OBVIOUS
<1>a. /\ TypeOK /\ since \in Nat /\ world' = world
      /\ Live => /\ run \in DOMAIN runs /\ Journal \in Seq(Entry) /\ Len(Journal) \in Nat
                 /\ since <= Len(Journal)
  BY JournalFacts, WorldStays DEF TypeOK, Live, CountInv
<1>b. UNCHANGED <<runs, run, since>> =>
          /\ Journal' = Journal /\ Ends' = Ends /\ Quiet' = Quiet /\ (NoneFailed' <=> NoneFailed)
          /\ OwnEntries({"round_start"})' = OwnEntries({"round_start"})
  BY OwnStays
<1>c. /\ Live => Ends \in SUBSET (1..Len(Journal)) /\ Quiet \in SUBSET (1..Len(Journal))
      /\ failures \in Nat /\ noChange \in Nat
  <2>1. ASSUME Live, NEW types
        PROVE  OwnEntries(types) \in SUBSET (1..Len(Journal))
    <3>1. \A k \in (since + 1)..Len(Journal) : k \in 1..Len(Journal)
      BY <1>a, <2>1
    <3>2. QED
      BY <3>1 DEF OwnEntries
  <2>2. failures \in Nat /\ noChange \in Nat
    BY WorldFacts DEF TypeOK
  <2>3. QED
    BY <2>1, <2>2 DEF Ends, Quiet
<1>1. CASE \E id \in world.ids : StartProcess(id)
  <2>1. Len(Journal') \in Nat /\ since' = Len(Journal')
    BY <1>1, <1>a, ProcessInductive DEF StartProcess, Journal
  <2>2. \A types : OwnEntries(types)' = {}
    BY <2>1 DEF OwnEntries
  <2>3. Ends' \in SUBSET (1..0) /\ Quiet' \in SUBSET (1..0)
    BY <2>2 DEF Ends, Quiet
  <2>4. NewestFailed(Journal', Ends', 0) /\ NewestQuiet(Journal', Quiet', 0)
    BY <2>3, NewestNone
  <2>5. failures' = 0 /\ noChange' = 0 /\ pc' = "stamp"
    BY <1>1 DEF StartProcess, Blank
  <2>6. QED
    BY <2>1, <2>4, <2>5 DEF CountInv
<1>2. CASE \E dry \in world.dry : Stamp(dry)
  <2>1. run \in DOMAIN runs /\ runs \in Seq(Directories) /\ run' = run /\ since' = since
    BY <1>2, <1>a DEF Stamp, TypeOK, life
  <2>2. Journal' = Journal
    <3>1. runs[run] \in Directories /\ runs' = [runs EXCEPT ![run].id = identity]
      BY <1>2, <2>1 DEF Stamp
    <3>2. runs'[run] = [runs[run] EXCEPT !.id = identity]
      BY <2>1, <3>1
    <3>3. runs'[run].journal = runs[run].journal
      BY <3>1, <3>2 DEF Directories
    <3>4. QED
      BY <2>1, <3>3 DEF Journal
  <2>3. Ends' = Ends /\ Quiet' = Quiet
    BY <2>1, <2>2 DEF Ends, Quiet, OwnEntries
  <2>4. QED
    BY <1>2, <2>1, <2>2, <2>3 DEF Stamp, counters, CountInv, Live
<1>3. CASE Resume
  BY <1>3, <1>b DEF Resume, CountInv, Live, life, counters
<1>4. CASE \E type \in {"round_end", "round_failed"} : ResumedRoundEnds(type)
  <2>1. PICK e \in Entry :
            Appended(e) /\ e.type \in {"round_end", "round_failed"} /\ e.index = index
            /\ e.changed = FALSE
    BY <1>4, <1>a, ResumedRoundAppends
  <2>2. /\ Live /\ Journal \in Seq(Entry) /\ Journal' = Append(Journal, e) /\ since' = since
        /\ since \in Nat /\ since <= Len(Journal) /\ since' <= Len(Journal')
    BY <1>4, <1>a, <2>1, AppendFacts DEF ResumedRoundEnds, life, Live, Appended
  <2>3. /\ Len(Journal') \in Nat /\ Ends' \in SUBSET (1..Len(Journal'))
        /\ Quiet' \in SUBSET (1..Len(Journal'))
    <3>1. /\ Len(Journal) \in Nat /\ Len(Journal') = Len(Journal) + 1
      BY <2>1, <2>2, AppendFacts
    <3>2. 1..Len(Journal) \subseteq 1..Len(Journal') /\ Len(Journal) + 1 \in 1..Len(Journal')
          /\ Len(Journal') \in Nat
      BY <3>1
    <3>3. /\ Ends' = Ends \cup {Len(Journal) + 1}
          /\ Quiet' \subseteq Quiet \cup {Len(Journal) + 1}
      BY <2>1, <2>2, OwnAppends DEF Ends, Quiet
    <3>4. QED
      BY <1>c, <2>2, <3>2, <3>3
  <2>4. NewestFailed(Journal', Ends', 0) /\ NewestQuiet(Journal', Quiet', 0)
    BY <2>3, NewestNone
  <2>5. failures' = 0 /\ noChange' = 0
    BY <1>4 DEF ResumedRoundEnds, counters, CountInv
  <2>6. QED
    BY <2>2, <2>4, <2>5 DEF CountInv
<1>5. CASE ReconKnown
  <2>1. Live /\ UNCHANGED <<runs, run, since>> /\ failures' = 0 /\ noChange' = 0 /\ pc' = "bracket"
    BY <1>5 DEF ReconKnown, Rebuild, life, Live
  <2>2. NewestFailed(Journal', Ends', 0) /\ NewestQuiet(Journal', Quiet', 0)
    BY <1>a, <1>b, <1>c, <2>1, NewestNone
  <2>3. QED
    BY <1>b, <2>1, <2>2 DEF CountInv
<1>6. CASE ReconPasses
  <2>1. PICK e \in Entry :
            Appended(e) /\ e.type = "recon_complete"
    BY <1>6, <1>a, ReconAppends
  <2>2. /\ Live /\ Journal \in Seq(Entry) /\ Journal' = Append(Journal, e) /\ since' = since
        /\ since \in Nat /\ since <= Len(Journal) /\ since' <= Len(Journal')
    BY <1>6, <1>a, <2>1, AppendFacts DEF ReconPasses, Inherited, life, Live, Appended
  <2>3. Ends' = Ends /\ Quiet' = Quiet
    BY <2>1, <2>2, OwnAppends DEF Ends, Quiet
  <2>4. NewestFailed(Journal', Ends, 0) /\ NewestQuiet(Journal', Quiet, 0)
    BY <1>a, <1>c, <2>2, NewestNone
  <2>5. QED
    BY <1>6, <2>2, <2>3, <2>4 DEF ReconPasses, Rebuild, CountInv
<1>7. CASE ReconFails
  BY <1>7, <1>b DEF ReconFails, CountInv, Live, life
<1>8. CASE BracketHolds
  BY <1>8, <1>b DEF BracketHolds, AfterBracket, StageInv, CountInv, Live, life
<1>9. CASE BracketErrs
  BY <1>9, <1>b DEF BracketErrs, AfterBracket, Finalizing, StageInv, CountInv, Live, life
<1>10. CASE LeaveRounds
  BY <1>10, <1>b DEF LeaveRounds, Closing, CountInv, Live, life, counters
<1>11. CASE StartRound
  <2>1. PICK e \in Entry :
            Appended(e) /\ e.type = "round_start" /\ e.index = index
    BY <1>11, <1>a, StartRoundAppends
  <2>2. /\ Live /\ Journal \in Seq(Entry) /\ Journal' = Append(Journal, e) /\ since' = since
        /\ since \in Nat /\ since <= Len(Journal) /\ since' <= Len(Journal')
    BY <1>11, <1>a, <2>1, AppendFacts DEF StartRound, life, Live, Appended
  <2>3. Ends' = Ends /\ Quiet' = Quiet
    BY <2>1, <2>2, OwnAppends DEF Ends, Quiet
  <2>4. /\ NewestFailed(Journal, Ends, failures) /\ NewestQuiet(Journal, Quiet, noChange)
        /\ Ends \in SUBSET (1..Len(Journal)) /\ Quiet \in SUBSET (1..Len(Journal))
    BY <1>c, <2>2 DEF CountInv
  <2>5. NewestFailed(Journal', Ends, failures) /\ NewestQuiet(Journal', Quiet, noChange)
    BY <1>c, <2>1, <2>2, <2>4, NewestKept
  <2>6. QED
    BY <1>11, <2>2, <2>3, <2>5 DEF StartRound, counters, CountInv
<1>12. CASE \E w \in world.winners \cup {None} : RoundEnds(w)
  <2>1. /\ Live /\ UNCHANGED <<runs, run, since, noChange>> /\ failures' = 0
        /\ pc' \in {"challenge", "record"}
    BY <1>12 DEF RoundEnds, life, Live
  <2>2. NewestFailed(Journal', Ends', 0)
    BY <1>a, <1>b, <1>c, <2>1, NewestNone
  <2>3. QED
    BY <1>b, <2>1, <2>2 DEF CountInv
<1>13. CASE RoundFails
  <2>1. PICK e \in Entry :
            Appended(e) /\ e.type = "round_failed" /\ e.index = index
    BY <1>13, <1>a, RoundFailsAppends
  <2>2. /\ Live /\ Journal \in Seq(Entry) /\ Journal' = Append(Journal, e) /\ since' = since
        /\ since \in Nat /\ since <= Len(Journal) /\ since' <= Len(Journal')
    BY <1>13, <1>a, <2>1, AppendFacts DEF RoundFails, Tripped, life, Live, Appended
  <2>3. Ends' = Ends \cup {Len(Journal) + 1} /\ Quiet' = Quiet
    BY <2>1, <2>2, OwnAppends DEF Ends, Quiet
  <2>4. /\ NewestFailed(Journal, Ends, failures) /\ NewestQuiet(Journal, Quiet, noChange)
        /\ Ends \in SUBSET (1..Len(Journal)) /\ Quiet \in SUBSET (1..Len(Journal))
    BY <1>c, <2>2 DEF CountInv
  <2>5. NewestFailed(Journal', Ends', failures + 1)
    BY <1>c, <2>1, <2>2, <2>3, <2>4, NewestGrow
  <2>6. NewestQuiet(Journal', Quiet, noChange)
    BY <1>c, <2>1, <2>2, <2>4, NewestKept
  <2>7. /\ failures' = failures + 1 /\ noChange' = noChange
        /\ pc' \in {"loop", "finalizing"}
    BY <1>13 DEF RoundFails, Finalizing
  <2>8. QED
    BY <2>2, <2>3, <2>5, <2>6, <2>7 DEF CountInv
<1>14. CASE \E side \in {"a", "b", "tie"} : PlayBlock(side)
  BY <1>14, <1>b DEF PlayBlock, CountInv, Live, life, counters
<1>15. CASE \E ahead \in {"a", "b", "none"} : EndChallenge(ahead)
  <2>1. PICK e \in Entry :
            Appended(e) /\ e.type = "challenge" /\ e.index = index /\ e.winner = contender
    BY <1>15, <1>a, ChallengeAppends
  <2>2. /\ Live /\ Journal \in Seq(Entry) /\ Journal' = Append(Journal, e) /\ since' = since
        /\ since \in Nat /\ since <= Len(Journal) /\ since' <= Len(Journal')
    BY <1>15, <1>a, <2>1, AppendFacts DEF EndChallenge, life, Live, Appended
  <2>3. Ends' = Ends /\ Quiet' = Quiet
    BY <2>1, <2>2, OwnAppends DEF Ends, Quiet
  <2>4. /\ NewestFailed(Journal, Ends, failures) /\ NewestQuiet(Journal, Quiet, noChange)
        /\ Ends \in SUBSET (1..Len(Journal)) /\ Quiet \in SUBSET (1..Len(Journal))
    BY <1>c, <2>2 DEF CountInv
  <2>5. NewestFailed(Journal', Ends, failures) /\ NewestQuiet(Journal', Quiet, noChange)
    BY <1>c, <2>1, <2>2, <2>4, NewestKept
  <2>6. QED
    BY <1>15, <2>2, <2>3, <2>5 DEF EndChallenge, counters, CountInv
<1>16. CASE \E ahead \in {"a", "b", "none"} : EndVerification(ahead)
  BY <1>16, <1>b DEF EndVerification, Finalizing, ExitAfter, CountInv, Live, life, counters
<1>17. CASE \E covered \in BOOLEAN : RecordRound(covered)
  <2>1. PICK e \in Entry :
            Appended(e) /\ e.type = "round_end" /\ e.index = index /\ e.winner = contender
            /\ e.changed = changed
    BY <1>17, <1>a, RecordAppends
  <2>2. /\ Live /\ Journal \in Seq(Entry) /\ Journal' = Append(Journal, e) /\ since' = since
        /\ since \in Nat /\ since <= Len(Journal) /\ since' <= Len(Journal')
    BY <1>17, <1>a, <2>1, AppendFacts DEF RecordRound, Unchanged, life, Live, Appended
  <2>3. Ends' = Ends \cup {Len(Journal) + 1} /\ Quiet' = Quiet \cup {Len(Journal) + 1}
    BY <2>1, <2>2, OwnAppends DEF Ends, Quiet
  <2>4. /\ NewestQuiet(Journal, Quiet, noChange)
        /\ Ends \in SUBSET (1..Len(Journal)) /\ Quiet \in SUBSET (1..Len(Journal))
    BY <1>c, <2>2 DEF CountInv
  <2>5. Ends' \in SUBSET (1..Len(Journal')) /\ Quiet' \in SUBSET (1..Len(Journal'))
        /\ Len(Journal') \in Nat
    <3>1. /\ Len(Journal) \in Nat /\ Len(Journal') = Len(Journal) + 1
      BY <2>1, <2>2, AppendFacts
    <3>2. 1..Len(Journal) \subseteq 1..Len(Journal') /\ Len(Journal) + 1 \in 1..Len(Journal')
          /\ Len(Journal') \in Nat
      BY <3>1
    <3>3. QED
      BY <2>3, <2>4, <3>2
  <2>6. NewestFailed(Journal', Ends', 0) /\ NewestQuiet(Journal', Quiet', 0)
    BY <2>5, NewestNone
  <2>7. ~changed => NewestQuiet(Journal', Quiet', noChange + 1)
    BY <1>c, <2>1, <2>2, <2>3, <2>4, NewestGrow
  <2>8. /\ failures' = 0 /\ noChange' = IF changed THEN 0 ELSE noChange + 1
        /\ pc' \in {"loop", "closing"}
    BY <1>17 DEF RecordRound, Closing, Unchanged, CountInv
  <2>9. NewestQuiet(Journal', Quiet', noChange')
    BY <2>6, <2>7, <2>8
  <2>10. QED
    BY <2>2, <2>6, <2>8, <2>9 DEF CountInv
<1>18. CASE CloseRounds
  BY <1>18, <1>b DEF CloseRounds, Finalizing, CountInv, Live, life, counters
<1>19. CASE EnterMatrix
  BY <1>19, <1>b DEF EnterMatrix, CountInv, Live, life, counters
<1>20. CASE MeasureCell
  BY <1>20, <1>b DEF MeasureCell, CountInv, Live, life, counters
<1>21. CASE LeaveMatrix
  BY <1>21, <1>b DEF LeaveMatrix, CountInv, Live, life, counters
<1>22. CASE SkipVerification
  BY <1>22, <1>b DEF SkipVerification, Finalizing, CountInv, Live, life, counters
<1>23. CASE Finalize
  <2>1. PICK e \in Entry :
            Appended(e) /\ e.type = "marathon_end"
    BY <1>23, <1>a, EndAppends
  <2>2. /\ Live /\ Journal \in Seq(Entry) /\ Journal' = Append(Journal, e) /\ since' = since
        /\ since \in Nat /\ since <= Len(Journal) /\ since' <= Len(Journal')
    BY <1>23, <1>a, <2>1, AppendFacts DEF Finalize, life, Live, Appended
  <2>3. Ends' = Ends /\ Quiet' = Quiet
    BY <2>1, <2>2, OwnAppends DEF Ends, Quiet
  <2>4. /\ NewestFailed(Journal, Ends, failures) /\ NewestQuiet(Journal, Quiet, noChange)
        /\ Ends \in SUBSET (1..Len(Journal)) /\ Quiet \in SUBSET (1..Len(Journal))
    BY <1>c, <2>2 DEF CountInv
  <2>5. NewestFailed(Journal', Ends, failures) /\ NewestQuiet(Journal', Quiet, noChange)
    BY <1>c, <2>1, <2>2, <2>4, NewestKept
  <2>6. QED
    BY <1>23, <2>2, <2>3, <2>5 DEF Finalize, counters, CountInv
<1>24. CASE Raises
  BY <1>24 DEF Raises, Dies, CountInv, Live
<1>25. CASE SignalToRun
  <2>1. /\ UNCHANGED <<runs, run, since, failures, noChange>> /\ pc' \in {pc, "finalizing"}
        /\ (Live' => Live)
    BY <1>25 DEF SignalToRun, Finalizing, counters, Handling, Live
  <2>2. QED
    BY <1>b, <2>1 DEF CountInv
<1>26. CASE SignalToEnding
  BY <1>26 DEF SignalToEnding, Dies, CountInv, Live
<1>27. CASE SignalToChild
  BY <1>27, <1>b DEF SignalToChild, CountInv, Live, counters
<1>28. CASE Crash
  BY <1>28 DEF Crash, Dies, CountInv, Live
<1>29. CASE UNCHANGED vars
  BY <1>29, <1>b DEF vars, CountInv, Live
<1>30. QED
  BY <1>1, <1>2, <1>3, <1>4, <1>5, <1>6, <1>7, <1>8, <1>9, <1>10, <1>11, <1>12, <1>13, <1>14,
     <1>15, <1>16, <1>17, <1>18, <1>19, <1>20, <1>21, <1>22, <1>23, <1>24, <1>25, <1>26, <1>27,
     <1>28, <1>29 DEF Next, Work

(* The reasons that speak of a counter are given by the counter.           *)
LEMMA ReasonInductive ==
    TypeOK /\ StageInv /\ ReasonInv /\ [Next]_vars => ReasonInv'
<1> SUFFICES ASSUME TypeOK, StageInv, ReasonInv, [Next]_vars
             PROVE  ReasonInv'
  OBVIOUS
<1>a. world' = world
  BY WorldStays
<1>1. CASE \E id \in world.ids : StartProcess(id)
  BY <1>1, <1>a DEF StartProcess, Blank, ReasonInv
<1>2. CASE \E dry \in world.dry : Stamp(dry)
  BY <1>2, <1>a DEF Stamp, ReasonInv, Settled
<1>3. CASE Resume
  BY <1>3, <1>a DEF Resume, ReasonInv, Settled, outcome
<1>4. CASE \E type \in {"round_end", "round_failed"} : ResumedRoundEnds(type)
  BY <1>4, <1>a DEF ResumedRoundEnds, ReasonInv, Settled, outcome
<1>5. CASE ReconKnown
  BY <1>5, <1>a DEF ReconKnown, Inherited, ReasonInv, Settled, outcome
<1>6. CASE ReconPasses
  BY <1>6, <1>a DEF ReconPasses, Inherited, ReasonInv, Settled, outcome
<1>7. CASE ReconFails
  BY <1>7, <1>a DEF ReconFails, Finalizing, ReasonInv, outcome
<1>8. CASE BracketHolds
  BY <1>8, <1>a DEF BracketHolds, AfterBracket, ReasonInv, StageInv, Settled, outcome
<1>9. CASE BracketErrs
  BY <1>9, <1>a DEF BracketErrs, AfterBracket, Finalizing, ReasonInv, StageInv, Settled, outcome
<1>10. CASE LeaveRounds
  BY <1>10, <1>a DEF LeaveRounds, Closing, ReasonInv, Settled
<1>11. CASE StartRound
  BY <1>11, <1>a DEF StartRound, ReasonInv, Settled, outcome
<1>12. CASE \E w \in world.winners \cup {None} : RoundEnds(w)
  BY <1>12, <1>a DEF RoundEnds, ReasonInv, Settled, outcome
<1>13. CASE RoundFails
  <2>1. failures \in Nat /\ failures <= 2
    BY <1>13, WorldFacts DEF RoundFails, TypeOK, StageInv, Settled
  <2>2. Tripped => failures' = 3
    BY <1>13, <2>1 DEF RoundFails, Tripped
  <2>3. reason \notin {"circuit_breaker", "converged"} /\ noChange' = noChange
    BY <1>13 DEF RoundFails, ReasonInv, Settled
  <2>4. QED
    BY <1>13, <2>2, <2>3 DEF RoundFails, Finalizing, outcome, ReasonInv, Settled
<1>14. CASE \E side \in {"a", "b", "tie"} : PlayBlock(side)
  BY <1>14, <1>a DEF PlayBlock, ReasonInv, counters, outcome
<1>15. CASE \E ahead \in {"a", "b", "none"} : EndChallenge(ahead)
  BY <1>15, <1>a DEF EndChallenge, ReasonInv, Settled, outcome
<1>16. CASE \E ahead \in {"a", "b", "none"} : EndVerification(ahead)
  BY <1>16, <1>a DEF EndVerification, Finalizing, ExitAfter, ReasonInv, Settled, counters
<1>17. CASE \E covered \in BOOLEAN : RecordRound(covered)
  BY <1>17, <1>a DEF RecordRound, Unchanged, Closing, ReasonInv, Settled, outcome
<1>18. CASE CloseRounds
  BY <1>18, <1>a DEF CloseRounds, Finalizing, ReasonInv, Settled, counters, outcome
<1>19. CASE EnterMatrix
  BY <1>19, <1>a DEF EnterMatrix, ReasonInv, counters, outcome
<1>20. CASE MeasureCell
  BY <1>20, <1>a DEF MeasureCell, ReasonInv, counters, outcome
<1>21. CASE LeaveMatrix
  BY <1>21, <1>a DEF LeaveMatrix, ReasonInv, Settled, counters
<1>22. CASE SkipVerification
  BY <1>22, <1>a DEF SkipVerification, Finalizing, ReasonInv, Settled, counters
<1>23. CASE Finalize
  BY <1>23, <1>a DEF Finalize, ReasonInv, Settled, counters, outcome
<1>24. CASE Raises
  BY <1>24, <1>a DEF Raises, Dies, Blank, ReasonInv
<1>25. CASE SignalToRun
  BY <1>25, <1>a DEF SignalToRun, Finalizing, ReasonInv, counters
<1>26. CASE SignalToEnding
  BY <1>26, <1>a DEF SignalToEnding, Dies, Blank, ReasonInv
<1>27. CASE SignalToChild
  BY <1>27, <1>a DEF SignalToChild, ReasonInv, Settled, InChild
<1>28. CASE Crash
  BY <1>28, <1>a DEF Crash, Dies, Blank, ReasonInv
<1>29. CASE UNCHANGED vars
  BY <1>29, <1>a DEF vars, ReasonInv
<1>30. QED
  BY <1>1, <1>2, <1>3, <1>4, <1>5, <1>6, <1>7, <1>8, <1>9, <1>10, <1>11, <1>12, <1>13, <1>14,
     <1>15, <1>16, <1>17, <1>18, <1>19, <1>20, <1>21, <1>22, <1>23, <1>24, <1>25, <1>26, <1>27,
     <1>28, <1>29 DEF Next, Work


----------------------------------------------------------------------------
(* The initial states satisfy the inductive invariant.                     *)
LEMMA Initially == Init => Inv
<1> SUFFICES ASSUME Init
             PROVE  Inv
  OBVIOUS
<1>1. world \in Worlds /\ grid = world.grid /\ grid \in Grids
  BY WorldFacts DEF Init
<1>2. MatrixInv
  <2>1. MatrixTypeOK
    <3>1. Len(grid.reach) \in Nat /\ grid.rungs \in Nat /\ Cells \in Nat
      BY <1>1 DEF Grids, Cells
    <3>2. \A n \in Nat : 1 \in 1..(n + 1) /\ 0 \in 0..n
      OBVIOUS
    <3>3. 0 \in 0..Refinements /\ <<>> \in Seq(Row)
      BY DEF Refinements
    <3>4. QED
      BY <1>1, <3>1, <3>2, <3>3 DEF Init, InitMatrix, MatrixTypeOK
  <2>2. WalkInv
    BY DEF Init, InitMatrix, WalkInv, AtCell
  <2>3. RowsInv
    BY DEF Init, InitMatrix, RowsInv, MatrixIsFirstFit, Deferred
  <2>4. QED
    BY <2>1, <2>2, <2>3 DEF MatrixInv
<1>3. TypeOK
  <2>1. RunsOK /\ FlagsOK
    <3>1. <<>> \in Seq(Directories) /\ Len(<<>>) = 0 /\ 0 \in 0..0
      OBVIOUS
    <3>2. RunsOK
      BY <3>1 DEF Init, RunsOK, Live
    <3>3. FlagsOK
      BY Zenon DEF Init, FlagsOK
    <3>4. QED
      BY <3>2, <3>3
  <2>2. PlaceOK /\ ProcessOK
    BY WorldFacts, <1>1 DEF Init, PlaceOK, Places, Over, Reasons, ProcessOK
  <2>3. ContestOK /\ CountsOK
    BY WorldFacts, <1>1 DEF Init, ContestOK, CountsOK, NoWins
  <2>4. QED
    BY <1>1, <1>2, <2>1, <2>2, <2>3, TypeParts DEF MatrixInv
<1>4. pc = "off" /\ phase = "resume" /\ runs = <<>> /\ reason = "none" /\ ~changed
  BY DEF Init
<1>5. StageInv /\ RoundInv /\ ReasonInv /\ GridInv
  BY <1>1, <1>4 DEF StageInv, RoundInv, ReasonInv, GridInv, InRound, Init
<1>6. AllInBudget /\ AllCrownsWon
  BY <1>4 DEF AllInBudget, AllCrownsWon
<1>7. CrownInv /\ ExitInv /\ CountInv
  BY <1>4 DEF CrownInv, ExitInv, CountInv, Rebuilt, Live, Settled, ChampionIsJournaled
<1>8. QED
  BY <1>2, <1>3, <1>5, <1>6, <1>7 DEF Inv

(* The inductive invariant holds in every reachable state.                 *)
THEOREM Inductive == Spec => []Inv
<1>1. Inv /\ [Next]_vars => Inv'
  <2> SUFFICES ASSUME Inv, [Next]_vars
               PROVE  Inv'
    OBVIOUS
  <2>1. world \in Worlds
    BY DEF Inv, TypeOK
  <2>2. TypeOK' /\ GridInv' /\ MatrixInv' /\ StageInv'
    BY <2>1, TypeInductive, MatrixInductive, StageInductive DEF Inv
  <2>3. AllInBudget' /\ RoundInv'
    BY BudgetInductive, RoundInductive DEF Inv
  <2>4. AllCrownsWon' /\ CrownInv'
    BY CrownsWonInductive, CrownInductive DEF Inv
  <2>5. ExitInv' /\ CountInv' /\ ReasonInv'
    BY ExitInductive, CountInductive, ReasonInductive DEF Inv
  <2>6. QED
    BY <2>2, <2>3, <2>4, <2>5 DEF Inv
<1>2. QED
  BY Initially, <1>1, PTL DEF Spec

(* Types, and the bounds of every counter, for any command line.           *)
THEOREM TypeCorrect == Spec => []TypeOK
<1>1. Inv => TypeOK
  BY DEF Inv
<1>2. QED
  BY <1>1, Inductive, PTL

(* Every row of a context matrix is what walking the placements afresh     *)
(* would give, though the champion is not probed again once it failed.     *)
THEOREM MatrixIsRight == Spec => []MatrixIsFirstFit
<1>1. Inv => MatrixIsFirstFit
  BY DEF Inv, MatrixInv, RowsInv
<1>2. QED
  BY <1>1, Inductive, PTL

(* What a process takes for the champion is what its journal crowned, and  *)
(* a crown is won in a journaled challenge of its own round, through every *)
(* crash and re-entry.                                                     *)
THEOREM ChampionsAreWon == Spec => []ChampionIsWon
<1>1. Inv => ChampionIsWon
  <2> SUFFICES ASSUME Inv
               PROVE  ChampionIsWon
    OBVIOUS
  <2>1. ChampionIsJournaled
    BY DEF Inv, CrownInv
  <2>2. ASSUME NEW r \in DOMAIN runs, NEW k \in Crownings(runs[r].journal)
        PROVE  \E l \in 1..(k - 1) :
                    /\ runs[r].journal[l].type = "challenge"
                    /\ runs[r].journal[l].index = runs[r].journal[k].index
                    /\ runs[r].journal[l].winner = runs[r].journal[k].winner
                    /\ 2 * runs[r].journal[l].votes > ChallengeBlocks
    <3>1. CrownsWon(runs[r].journal)
      BY DEF Inv, AllCrownsWon
    <3>2. QED
      BY <2>2, <3>1 DEF CrownsWon, WonChallenge
  <2>3. QED
    BY <2>1, <2>2 DEF ChampionIsWon, CrownsAreWon
<1>2. QED
  BY <1>1, Inductive, PTL

(* The reason a run gives for its end and its exit code agree with what    *)
(* this process journaled, and all processes of a run together stay within *)
(* its rounds.                                                             *)
THEOREM EndsAreHonest == Spec => []EndIsHonest
<1>1. Inv => EndIsHonest
  <2> SUFFICES ASSUME Inv
               PROVE  EndIsHonest
    OBVIOUS
  <2>1. \A r \in DOMAIN runs : Cardinality(Completed(runs[r].journal)) <= world.rounds
    BY DEF Inv, AllInBudget, Budget
  <2>2. ASSUME pc = "ended"
        PROVE  /\ reason = "circuit_breaker" =>
                    /\ Cardinality(Ends) >= 3
                    /\ \A k \in LastEntries(Ends, 3) : Journal[k].type = "round_failed"
               /\ reason = "converged" =>
                    /\ Cardinality(LastEntries(Quiet, world.converge)) = world.converge
                    /\ \A k \in LastEntries(Quiet, world.converge) : ~Journal[k].changed
    <3>1. /\ NewestFailed(Journal, Ends, failures) /\ NewestQuiet(Journal, Quiet, noChange)
          /\ Live /\ since \in Nat /\ run > 0
      BY <2>2 DEF Inv, CountInv, Live, TypeOK
    <3>2. IsFiniteSet(Ends)
      <4>1. Len(Journal) \in Nat
        BY <3>1, JournalFacts DEF Inv
      <4>2. Ends \in SUBSET (1..Len(Journal))
        <5>1. \A k \in (since + 1)..Len(Journal) : k \in 1..Len(Journal)
          BY <3>1, <4>1
        <5>2. QED
          BY <5>1 DEF Ends, OwnEntries
      <4>3. QED
        BY <4>1, <4>2, FiniteBelow
    <3>3. ASSUME reason = "circuit_breaker"
          PROVE  Cardinality(Ends) >= 3
                 /\ \A k \in LastEntries(Ends, 3) : Journal[k].type = "round_failed"
      <4>1. failures = 3
        BY <3>3 DEF Inv, ReasonInv
      <4>2. Cardinality(LastEntries(Ends, 3)) = 3
            /\ \A k \in LastEntries(Ends, 3) : Journal[k].type = "round_failed"
        BY <3>1, <4>1 DEF NewestFailed
      <4>3. LastEntries(Ends, 3) \in SUBSET Ends
        BY DEF LastEntries
      <4>4. Cardinality(LastEntries(Ends, 3)) <= Cardinality(Ends) /\ Cardinality(Ends) \in Nat
        BY <3>2, <4>3, FS_Subset, FS_CardinalityType
      <4>5. QED
        BY <4>2, <4>4
    <3>4. ASSUME reason = "converged"
          PROVE  Cardinality(LastEntries(Quiet, world.converge)) = world.converge
                 /\ \A k \in LastEntries(Quiet, world.converge) : ~Journal[k].changed
      <4>1. world.converge \in 0..noChange
        BY <3>4, WorldFacts DEF Inv, ReasonInv, TypeOK
      <4>2. QED
        BY <3>1, <4>1 DEF NewestQuiet
    <3>5. QED
      BY <3>3, <3>4
  <2>3. StopReasonIsTrue
    BY <2>1, <2>2 DEF StopReasonIsTrue, Ends, Quiet
  <2>4. ExitIsHonest
    BY DEF Inv, ExitInv, ExitIsHonest, NoneFailed, Settled
  <2>5. QED
    BY <2>3, <2>4 DEF EndIsHonest
<1>2. QED
  BY <1>1, Inductive, PTL

----------------------------------------------------------------------------
(* Every step lowers the height of the processes, in an order that has no  *)
(* infinite descent.                                                       *)

\* Processes to come.
Coming == world.processes - processes

\* A process that lives, and the signals it may still be sent.
Life == IF pc \in Over THEN 0 ELSE 1 + (world.signals - signals)

\* The stages follow one another.
AtRound == {"loop"} \cup InRound

Stage ==
    CASE pc = "stamp" -> 12 [] pc = "resume" -> 11 [] pc = "resuming" -> 10 [] pc = "recon" -> 9
      [] pc = "bracket" ->
           (CASE phase = "rounds" -> 8 [] phase = "matrix" -> 5 [] OTHER -> 3)
      [] pc \in AtRound -> 7 [] pc = "closing" -> 6 [] pc = "matrix" -> 4 [] pc = "verify" -> 2
      [] pc = "finalizing" -> 1 [] OTHER -> 0

\* Attempts at a reconnaissance, rounds, or cells, the matrix itself among them.
Remaining ==
    CASE pc = "recon" -> 2 - attempts
      [] pc \in AtRound -> (world.rounds + 1) - index
      [] pc = "matrix" -> (IF step = "done" THEN Cells + 1 ELSE (Cells + 1) - cell)
      [] OTHER -> 0

\* What becomes of the round or the cell at hand.
Turn ==
    CASE pc = "loop" -> 3 [] pc = "tuning" -> 2 [] pc = "challenge" -> 1
      [] pc = "matrix" ->
           (CASE step = "open" -> 3 [] step = "retreat" -> 2 [] step = "measure" -> 1 [] OTHER -> 0)
      [] OTHER -> 0

\* Blocks to play, placements to probe, or refinements to try.
Moves ==
    CASE pc \in {"challenge", "verify"} -> (IF Played < Blocks THEN Blocks - Played ELSE 0)
      [] pc = "matrix" /\ step = "retreat" -> (Len(grid.reach) + 1) - placement
      [] pc = "matrix" /\ step = "refine" -> Refinements - tried
      [] OTHER -> 0

Height == <<Coming, Life, Stage, Remaining, Turn, Moves>>

\* The order of the dictionary.
Descent == LexProductOrdering(OpToRel(<, Nat), Nat, 6)

HeightOK ==
    /\ Coming \in Nat /\ Life \in Nat /\ Stage \in Nat /\ Remaining \in Nat /\ Turn \in Nat
    /\ Moves \in Nat

\* Some part of the height falls, and those before it stay.
FallsInStage ==
    \/ Remaining' < Remaining
    \/ Remaining' = Remaining /\ Turn' < Turn
    \/ Remaining' = Remaining /\ Turn' = Turn /\ Moves' < Moves

FallsInProcess == Stage' < Stage \/ (Stage' = Stage /\ FallsInStage)

Falls ==
    \/ Coming' < Coming
    \/ Coming' = Coming /\ Life' < Life
    \/ Coming' = Coming /\ Life' = Life /\ FallsInProcess

Descends == <<Height', Height>> \in Descent

(* The order has no infinite descent.                                      *)
THEOREM DescentEnds == IsWellFoundedOn(Descent, [1..6 -> Nat])
<1>1. IsWellFoundedOn(OpToRel(<, Nat), Nat)
  BY NatLessThanWellFounded
<1>2. 6 \in Nat
  OBVIOUS
<1>3. QED
  BY <1>1, <1>2, WFLexProductOrdering DEF Descent

(* What falls first, falls in the order.                                   *)
LEMMA FallsInOrder ==
    ASSUME HeightOK, HeightOK', Falls
    PROVE  Descends
<1>1. PICK g, h : g = Height /\ h = Height'
  OBVIOUS
<1>2. /\ g \in [1..6 -> Nat] /\ h \in [1..6 -> Nat]
      /\ g[1] = Coming /\ g[2] = Life /\ g[3] = Stage /\ g[4] = Remaining /\ g[5] = Turn
      /\ g[6] = Moves
      /\ h[1] = Coming' /\ h[2] = Life' /\ h[3] = Stage' /\ h[4] = Remaining' /\ h[5] = Turn'
      /\ h[6] = Moves'
  BY <1>1 DEF Height, HeightOK
<1>3. /\ \A i \in 1..(1 - 1) : FALSE
      /\ \A i \in 1..(2 - 1) : i = 1
      /\ \A i \in 1..(3 - 1) : i \in {1, 2}
      /\ \A i \in 1..(4 - 1) : i \in {1, 2, 3}
      /\ \A i \in 1..(5 - 1) : i \in {1, 2, 3, 4}
      /\ \A i \in 1..(6 - 1) : i \in {1, 2, 3, 4, 5}
  OBVIOUS
<1>4. \E j \in 1..6 : h[j] < g[j] /\ \A i \in 1..(j - 1) : h[i] = g[i]
  <2>1. CASE h[1] < g[1]
    BY <1>3, <2>1
  <2>2. CASE h[1] = g[1] /\ h[2] < g[2]
    BY <1>3, <2>2
  <2>3. CASE h[1] = g[1] /\ h[2] = g[2] /\ h[3] < g[3]
    BY <1>3, <2>3
  <2>4. CASE h[1] = g[1] /\ h[2] = g[2] /\ h[3] = g[3] /\ h[4] < g[4]
    BY <1>3, <2>4
  <2>5. CASE h[1] = g[1] /\ h[2] = g[2] /\ h[3] = g[3] /\ h[4] = g[4] /\ h[5] < g[5]
    BY <1>3, <2>5
  <2>6. CASE /\ h[1] = g[1] /\ h[2] = g[2] /\ h[3] = g[3] /\ h[4] = g[4] /\ h[5] = g[5]
             /\ h[6] < g[6]
    BY <1>3, <2>6
  <2>7. QED
    BY <1>2, <2>1, <2>2, <2>3, <2>4, <2>5, <2>6 DEF Falls, FallsInProcess, FallsInStage
<1>5. PICK j \in 1..6 : h[j] < g[j] /\ \A i \in 1..(j - 1) : h[i] = g[i]
  BY <1>4
<1>6. <<h[j], g[j]>> \in OpToRel(<, Nat)
  BY <1>2, <1>5 DEF OpToRel
<1>7. <<h, g>> \in Descent
  BY <1>2, <1>5, <1>6 DEF Descent, LexProductOrdering
<1>8. QED
  BY <1>1, <1>7 DEF Descends

(* A height is six numbers.                                                *)
LEMMA HeightIsNat ==
    ASSUME TypeOK, MatrixInv, StageInv
    PROVE  HeightOK
<1>1. /\ processes \in Nat /\ processes <= world.processes /\ world.processes \in Nat
      /\ signals \in Nat /\ signals <= world.signals /\ world.signals \in Nat
      /\ index \in Nat /\ world.rounds \in Nat /\ index <= world.rounds + 1 /\ attempts \in 0..2
  BY WorldFacts DEF TypeOK
<1>2. Coming \in Nat /\ Life \in Nat
  BY <1>1 DEF Coming, Life
<1>3. Stage \in Nat /\ Turn \in Nat
  BY DEF Stage, Turn
<1>4. Remaining \in Nat
  <2>1. Cells \in Nat
    BY GridFacts DEF MatrixInv
  <2>2. PICK n \in Nat : n = Cells
    BY <2>1
  <2>3. cell \in 1..(n + 1)
    BY <2>2 DEF MatrixInv, MatrixTypeOK
  <2>4. QED
    BY <1>1, <2>2, <2>3 DEF Remaining
<1>5. Moves \in Nat
  <2>1. Played \in Nat /\ Blocks \in Nat
    <3>1. wins.a \in Nat /\ wins.b \in Nat /\ wins.tie \in Nat
      BY DEF TypeOK
    <3>2. world.blocks \in Nat /\ world.blocks >= 3
      BY WorldFacts DEF TypeOK
    <3>3. QED
      BY <3>1, <3>2 DEF Played, Blocks, ChallengeBlocks
  <2>2. PICK n \in Nat : n = Len(grid.reach)
    BY DEF MatrixInv, MatrixTypeOK, Grids
  <2>3. placement \in 1..(n + 1) /\ tried \in 0..2
    BY <2>2 DEF MatrixInv, MatrixTypeOK, Refinements
  <2>4. PICK p \in Nat, b \in Nat : p = Played /\ b = Blocks
    BY <2>1
  <2>5. QED
    BY <2>2, <2>3, <2>4 DEF Moves, Refinements
<1>6. QED
  BY <1>2, <1>3, <1>4, <1>5 DEF HeightOK

(* Within a stage each measurement brings the matrix nearer to its end.    *)
LEMMA MatrixFalls ==
    ASSUME MatrixInv, MatrixInv', pc = "matrix", pc' = pc, phase' = phase, MatrixStep
    PROVE  FallsInStage
<1>1. Cells' = Cells /\ Len(grid.reach)' = Len(grid.reach) /\ Placements = 1..Len(grid.reach)
  <2>1. grid' = grid
    BY DEF MatrixStep, DeferCell, ReuseCell, ProbeChampion, ProbeRetreat, GiveUpCell, Measure,
       Refine, FinishCell
  <2>2. grid.reach \in Seq(Nat)
    BY DEF MatrixInv, MatrixTypeOK, Grids
  <2>3. QED
    BY <2>1, <2>2 DEF Cells, Placements
<1>2. Cells \in Nat /\ Len(grid.reach) \in Nat
  <2>1. Cells \in Nat
    BY GridFacts DEF MatrixInv
  <2>2. grid.reach \in Seq(Nat)
    BY DEF MatrixInv, MatrixTypeOK, Grids
  <2>3. QED
    BY <2>1, <2>2
<1>3. PICK n \in Nat : n = Cells
  BY <1>2
<1>4. PICK r \in Nat : r = Len(grid.reach)
  BY <1>2
<1>5. /\ cell \in 1..(n + 1) /\ placement \in 1..(r + 1) /\ tried \in 0..2 /\ step # "done"
      /\ Cells' = n /\ Len(grid'.reach) = r
  <2>1. step # "done"
    BY DEF MatrixStep, DeferCell, ReuseCell, ProbeChampion, ProbeRetreat, GiveUpCell, Measure,
       Refine, FinishCell
  <2>2. QED
    BY <1>1, <1>3, <1>4, <2>1 DEF MatrixInv, MatrixTypeOK, Refinements
<1>6. CASE DeferCell \/ ReuseCell \/ GiveUpCell \/ FinishCell
  <2>1. cell' = cell + 1 /\ step' = "open" /\ cell <= Cells
    BY <1>6 DEF DeferCell, ReuseCell, GiveUpCell, FinishCell, CloseCell, MatrixInv, WalkInv, AtCell
  <2>2. Remaining = (n + 1) - cell /\ Remaining' = (n + 1) - (cell + 1)
    BY <1>3, <1>5, <2>1 DEF Remaining, AtRound, InRound
  <2>3. QED
    BY <1>5, <2>2 DEF FallsInStage
<1>7. CASE UNCHANGED cell /\ step' # "done"
  <2>1. Remaining' = Remaining
    BY <1>3, <1>5, <1>7 DEF Remaining, AtRound, InRound
  <2>2. CASE ProbeChampion
    <3>1. Turn' < Turn
      BY <2>2 DEF ProbeChampion, Turn
    <3>2. QED
      BY <2>1, <3>1 DEF FallsInStage
  <2>3. CASE ProbeRetreat /\ step' = "measure"
    <3>1. Turn' < Turn
      BY <2>3 DEF ProbeRetreat, Turn
    <3>2. QED
      BY <2>1, <3>1 DEF FallsInStage
  <2>4. CASE ProbeRetreat /\ step' # "measure"
    <3>1. step = "retreat" /\ step' = step /\ placement' = placement + 1 /\ placement \in Placements
      BY <2>4 DEF ProbeRetreat
    <3>2. Turn' = Turn
      BY <3>1 DEF Turn
    <3>3. Moves = (r + 1) - placement /\ Moves' = (r + 1) - (placement + 1)
      BY <1>4, <1>5, <3>1 DEF Moves
    <3>4. placement \in Nat
      BY <1>5
    <3>5. Moves' < Moves
      BY <3>3, <3>4
    <3>6. QED
      BY <2>1, <3>2, <3>5 DEF FallsInStage
  <2>5. CASE Measure
    <3>1. Turn' < Turn
      BY <2>5 DEF Measure, Turn
    <3>2. QED
      BY <2>1, <3>1 DEF FallsInStage
  <2>6. CASE Refine
    <3>1. step = "refine" /\ step' = step /\ tried' = tried + 1
      BY <2>6 DEF Refine, TriedNow
    <3>2. Turn' = Turn
      BY <3>1 DEF Turn
    <3>3. Moves = 2 - tried /\ Moves' = 2 - (tried + 1)
      BY <3>1 DEF Moves, Refinements
    <3>4. Moves' < Moves
      BY <1>5, <3>3
    <3>5. QED
      BY <2>1, <3>2, <3>4 DEF FallsInStage
  <2>7. CASE DeferCell \/ ReuseCell \/ GiveUpCell \/ FinishCell
    BY <2>7, <1>6
  <2>8. QED
    BY <2>2, <2>3, <2>4, <2>5, <2>6, <2>7 DEF MatrixStep
<1>8. QED
  BY <1>6, <1>7 DEF MatrixStep, ProbeChampion, ProbeRetreat, Measure, Refine, TriedNow

(* The matrix begins with all of its cells.                                *)
LEMMA EnterMatrixFalls ==
    ASSUME MatrixInv, EnterMatrix
    PROVE  FallsInStage
<1>1. pc = "matrix" /\ pc' = pc /\ step = "done" /\ step' = "open" /\ cell' = 1
  BY DEF EnterMatrix, ResetMatrix
<1>2. Cells' = Cells
  <2>1. grid'.rungs = grid.rungs /\ grid'.depths = grid.depths
    BY DEF EnterMatrix, MatrixInv, MatrixTypeOK, Grids
  <2>2. QED
    BY <2>1 DEF Cells
<1>3. PICK n \in Nat : n = Cells
  BY GridFacts DEF MatrixInv
<1>4. Remaining = n + 1 /\ Remaining' = (n + 1) - 1
  BY <1>1, <1>2, <1>3 DEF Remaining, AtRound, InRound
<1>5. QED
  BY <1>4 DEF FallsInStage

(* A block of an A/B is one less to play.                                  *)
LEMMA PlayBlockFalls ==
    ASSUME TypeOK, NEW side \in {"a", "b", "tie"}, PlayBlock(side)
    PROVE  Stage' = Stage /\ FallsInStage
<1>1. pc \in {"challenge", "verify"} /\ UNCHANGED <<world, pc, phase, index, attempts>>
  BY DEF PlayBlock, life, counters
<1>2. world.blocks \in Nat /\ world.blocks >= 3
  BY WorldFacts DEF TypeOK
<1>3. Blocks' = Blocks /\ Blocks \in Nat
  BY <1>1, <1>2 DEF Blocks, ChallengeBlocks
<1>4. Played \in Nat /\ Played' = Played + 1 /\ Played < Blocks
  <2>1. wins.a \in Nat /\ wins.b \in Nat /\ wins.tie \in Nat /\ wins \in [{"a", "b", "tie"} -> Nat]
    BY DEF TypeOK
  <2>2. CASE side = "a"
    BY <2>1, <2>2 DEF PlayBlock, Played
  <2>3. CASE side = "b"
    BY <2>1, <2>3 DEF PlayBlock, Played
  <2>4. CASE side = "tie"
    BY <2>1, <2>4 DEF PlayBlock, Played
  <2>5. QED
    BY <2>2, <2>3, <2>4
<1>5. Stage' = Stage /\ Turn' = Turn /\ Remaining' = Remaining
  BY <1>1 DEF Stage, Turn, Remaining, AtRound, InRound
<1>6. Moves' < Moves
  <2>1. PICK p \in Nat, b \in Nat : p = Played /\ b = Blocks
    BY <1>3, <1>4
  <2>2. QED
    BY <1>1, <1>3, <1>4, <2>1 DEF Moves
<1>7. QED
  BY <1>5, <1>6 DEF FallsInStage

(* What a process does by itself brings it nearer to its end.              *)
LEMMA WorkFalls ==
    ASSUME Inv, Inv', Work, pc' \notin Over
    PROVE  FallsInProcess
<1>a. /\ index \in Nat /\ world.rounds \in Nat /\ attempts \in 0..2
      /\ TypeOK /\ MatrixInv /\ StageInv /\ RoundInv
  BY WorldFacts DEF Inv, TypeOK
<1>1. CASE \E dry \in world.dry : Stamp(dry)
  <2>1. pc = "stamp" /\ pc' \in {"finalizing", "resume"}
    BY <1>1 DEF Stamp
  <2>2. QED
    BY <2>1 DEF Stage, AtRound, InRound, FallsInProcess
<1>2. CASE Resume
  <2>1. pc = "resume" /\ pc' \in {"resuming", "recon"}
    BY <1>2 DEF Resume
  <2>2. QED
    BY <2>1 DEF Stage, AtRound, InRound, FallsInProcess
<1>3. CASE \E type \in {"round_end", "round_failed"} : ResumedRoundEnds(type)
  <2>1. pc = "resuming" /\ pc' = "recon"
    BY <1>3 DEF ResumedRoundEnds
  <2>2. QED
    BY <2>1 DEF Stage, AtRound, InRound, FallsInProcess
<1>4. CASE ReconKnown \/ ReconPasses
  <2>1. pc = "recon" /\ pc' = "bracket" /\ phase' = "rounds"
    BY <1>4 DEF ReconKnown, ReconPasses, Rebuild
  <2>2. QED
    BY <2>1 DEF Stage, AtRound, InRound, FallsInProcess
<1>5. CASE ReconFails
  <2>1. CASE pc' = "finalizing"
    <3>1. pc = "recon"
      BY <1>5 DEF ReconFails
    <3>2. QED
      BY <2>1, <3>1 DEF Stage, AtRound, InRound, FallsInProcess
  <2>2. CASE pc' = pc
    <3>1. pc = "recon" /\ attempts' = attempts + 1 /\ UNCHANGED phase
      BY <1>5 DEF ReconFails
    <3>2. Stage' = Stage
      BY <2>2, <3>1 DEF Stage
    <3>3. Remaining = 2 - attempts /\ Remaining' = 2 - (attempts + 1)
      BY <2>2, <3>1 DEF Remaining, AtRound, InRound
    <3>4. QED
      BY <1>a, <3>2, <3>3 DEF FallsInProcess, FallsInStage
  <2>3. QED
    BY <1>5, <2>1, <2>2 DEF ReconFails, Finalizing
<1>6. CASE BracketHolds \/ BracketErrs
  <2>1. pc = "bracket" /\ pc' \in {AfterBracket, "finalizing"}
    BY <1>6 DEF BracketHolds, BracketErrs, Finalizing
  <2>2. phase \in {"rounds", "matrix", "verification"}
    BY <1>a, <2>1 DEF StageInv
  <2>3. QED
    BY <2>1, <2>2 DEF AfterBracket, Stage, AtRound, InRound, FallsInProcess
<1>7. CASE LeaveRounds \/ ((\E covered \in BOOLEAN : RecordRound(covered)) /\ pc' # "loop")
  <2>1. pc \in AtRound /\ pc' = "closing"
    BY <1>7 DEF LeaveRounds, RecordRound, Closing, AtRound, InRound
  <2>2. QED
    BY <2>1 DEF Stage, AtRound, InRound, FallsInProcess
<1>8. CASE StartRound \/ (\E w \in world.winners \cup {None} : RoundEnds(w))
           \/ (\E ahead \in {"a", "b", "none"} : EndChallenge(ahead))
  <2>1. /\ pc \in AtRound /\ pc' \in AtRound /\ UNCHANGED <<world, index>>
        /\ Turn' < Turn
    BY <1>8 DEF StartRound, RoundEnds, EndChallenge, life, AtRound, InRound, Turn
  <2>2. Stage' = Stage /\ Remaining' = Remaining
    BY <2>1 DEF Stage, Remaining, AtRound, InRound
  <2>3. QED
    BY <2>1, <2>2 DEF FallsInProcess, FallsInStage
<1>9. CASE (RoundFails \/ \E covered \in BOOLEAN : RecordRound(covered)) /\ pc' = "loop"
  <2>1. pc \in InRound /\ index' = index + 1 /\ UNCHANGED world
    BY <1>9 DEF RoundFails, RecordRound, Finalizing, Closing, InRound, life
  <2>2. pc \in AtRound /\ pc' \in AtRound
    BY <1>9, <2>1 DEF AtRound
  <2>3. Stage' = Stage
    BY <2>2 DEF Stage, AtRound, InRound
  <2>4. Remaining = (world.rounds + 1) - index /\ Remaining' = (world.rounds + 1) - (index + 1)
    BY <2>1, <2>2 DEF Remaining, AtRound, InRound
  <2>5. QED
    BY <1>a, <2>3, <2>4 DEF FallsInProcess, FallsInStage
<1>10. CASE RoundFails /\ pc' # "loop"
  <2>1. pc = "tuning" /\ pc' = "finalizing"
    BY <1>10 DEF RoundFails, Finalizing
  <2>2. QED
    BY <2>1 DEF Stage, AtRound, InRound, FallsInProcess
<1>11. CASE \E side \in {"a", "b", "tie"} : PlayBlock(side)
  BY <1>a, <1>11, PlayBlockFalls DEF FallsInProcess
<1>12. CASE CloseRounds
  <2>1. pc = "closing" /\ (pc' = "finalizing" \/ (pc' = "bracket" /\ phase' = "matrix"))
    BY <1>12 DEF CloseRounds, Finalizing
  <2>2. QED
    BY <2>1 DEF Stage, AtRound, InRound, FallsInProcess
<1>13. CASE EnterMatrix
  <2>1. Stage' = Stage
    BY <1>13 DEF EnterMatrix, Stage
  <2>2. QED
    BY <1>a, <1>13, <2>1, EnterMatrixFalls DEF FallsInProcess
<1>14. CASE MeasureCell
  <2>1. UNCHANGED <<pc, phase>> /\ pc = "matrix" /\ MatrixStep
    BY <1>14 DEF MeasureCell
  <2>2. Stage' = Stage
    BY <2>1 DEF Stage
  <2>3. QED
    BY <1>a, <2>1, <2>2, MatrixFalls DEF FallsInProcess, Inv
<1>15. CASE LeaveMatrix
  <2>1. pc = "matrix" /\ pc' = "bracket" /\ phase' = "verification"
    BY <1>15 DEF LeaveMatrix
  <2>2. QED
    BY <2>1 DEF Stage, AtRound, InRound, FallsInProcess
<1>16. CASE SkipVerification \/ \E ahead \in {"a", "b", "none"} : EndVerification(ahead)
  <2>1. pc = "verify" /\ pc' = "finalizing"
    BY <1>16 DEF SkipVerification, EndVerification, Finalizing
  <2>2. QED
    BY <2>1 DEF Stage, AtRound, InRound, FallsInProcess
<1>17. ~Finalize
  BY DEF Finalize, Over
<1>18. QED
  BY <1>1, <1>2, <1>3, <1>4, <1>5, <1>6, <1>7, <1>8, <1>9, <1>10, <1>11, <1>12, <1>13, <1>14,
     <1>15, <1>16, <1>17 DEF Work

(* What a process does by itself concerns this process alone.              *)
LEMMA WorkStays ==
    ASSUME Work
    PROVE  pc \notin Over /\ UNCHANGED <<world, processes, signals>>
<1>1. CASE \/ \E dry \in world.dry : Stamp(dry)
           \/ Resume
           \/ \E type \in {"round_end", "round_failed"} : ResumedRoundEnds(type)
           \/ ReconKnown \/ ReconPasses \/ ReconFails \/ BracketHolds \/ BracketErrs
  BY <1>1 DEF Stamp, Resume, ResumedRoundEnds, ReconKnown, ReconPasses, ReconFails, BracketHolds,
     BracketErrs, life, Over
<1>2. CASE \/ LeaveRounds \/ StartRound \/ RoundFails
           \/ \E w \in world.winners \cup {None} : RoundEnds(w)
           \/ \E side \in {"a", "b", "tie"} : PlayBlock(side)
  BY <1>2 DEF LeaveRounds, StartRound, RoundFails, RoundEnds, PlayBlock, life, Over
<1>3. CASE \/ \E ahead \in {"a", "b", "none"} : EndChallenge(ahead) \/ EndVerification(ahead)
           \/ \E covered \in BOOLEAN : RecordRound(covered)
           \/ CloseRounds \/ EnterMatrix \/ MeasureCell \/ LeaveMatrix \/ SkipVerification
           \/ Finalize
  BY <1>3 DEF EndChallenge, EndVerification, RecordRound, CloseRounds, EnterMatrix, MeasureCell,
     LeaveMatrix, SkipVerification, Finalize, life, Over
<1>4. QED
  BY <1>1, <1>2, <1>3 DEF Work

(***************************************************************************)
(* A process comes to its end, and so do the processes: every step, of the *)
(* run, of a child that raises, of a signal or of a crash, lowers the      *)
(* height, and there is no infinite descent from any height.               *)
(* (the loops of run_marathon and run_matrix, run_ab's blocks, and the     *)
(* user who starts the program again)                                      *)
(***************************************************************************)
THEOREM ProcessDescends == Spec => [][Descends]_vars
<1>1. ASSUME Inv, Inv', Next
      PROVE  Falls
  <2>1. /\ processes \in Nat /\ world.processes \in Nat /\ signals \in Nat
        /\ signals <= world.signals /\ world.signals \in Nat
    BY <1>1, WorldFacts DEF Inv, TypeOK
  <2>2. CASE \E id \in world.ids : StartProcess(id)
    <3>1. processes' = processes + 1 /\ processes < world.processes /\ world' = world
      BY <2>2 DEF StartProcess
    <3>2. QED
      BY <2>1, <3>1 DEF Coming, Falls
  <2>3. CASE Work
    <3>1. pc \notin Over /\ UNCHANGED <<world, processes, signals>>
      BY <2>3, WorkStays
    <3>2. Coming' = Coming
      BY <3>1 DEF Coming
    <3>3. CASE pc' \in Over
      <4>1. Life' < Life
        BY <2>1, <3>1, <3>3 DEF Life
      <4>2. QED
        BY <3>2, <4>1 DEF Falls
    <3>4. CASE pc' \notin Over
      <4>1. Life' = Life
        BY <3>1, <3>4 DEF Life
      <4>2. QED
        BY <1>1, <2>3, <3>2, <3>4, <4>1, WorkFalls DEF Falls
    <3>5. QED
      BY <3>3, <3>4
  <2>4. CASE Raises \/ SignalToEnding \/ Crash
    <3>1. pc \notin Over /\ pc' \in Over /\ UNCHANGED <<world, processes>>
      BY <2>4 DEF Raises, SignalToEnding, Crash, Dies, Over, InChild
    <3>2. Coming' = Coming /\ Life' < Life
      BY <2>1, <3>1 DEF Coming, Life
    <3>3. QED
      BY <3>2 DEF Falls
  <2>5. CASE SignalToRun \/ SignalToChild
    <3>1. /\ pc \notin Over /\ UNCHANGED <<world, processes>>
          /\ signals' = signals + 1 /\ signals < world.signals
      BY <2>5 DEF SignalToRun, SignalToChild, Over, Handling, InChild
    <3>2. Coming' = Coming
      BY <3>1 DEF Coming
    <3>3. Life' < Life
      BY <2>1, <3>1 DEF Life
    <3>4. QED
      BY <3>2, <3>3 DEF Falls
  <2>6. QED
    BY <1>1, <2>2, <2>3, <2>4, <2>5 DEF Next
<1>2. Inv => HeightOK
  BY HeightIsNat DEF Inv
<1>3. Inv /\ Inv' /\ HeightOK /\ HeightOK' /\ [Next]_vars => [Descends]_vars
  BY <1>1, FallsInOrder
<1>4. QED
  BY <1>2, <1>3, Inductive, PTL DEF Spec
=============================================================================
