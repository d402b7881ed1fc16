--------------------------- MODULE ContextMatrix ---------------------------
(***************************************************************************)
(* run_matrix: the operating points of one configuration, each context of  *)
(* an ascending ladder at each depth.  A cell keeps the champion's         *)
(* placement when it can be loaded at that context, and otherwise the      *)
(* first placement of its retreat order that can; a context the champion   *)
(* failed at settles every later cell.                                     *)
(*                                                                         *)
(* Placement 1 is the champion's own, 2, 3, ... its retreats in order.     *)
(* Cells are numbered rung by rung, the depths of a rung in order.         *)
(***************************************************************************)
EXTENDS Naturals, Sequences

VARIABLES
    grid,       \* what is asked for, and the machine it is measured on
    cell,       \* the cell at hand
    step,       \* within the cell: "open", "retreat", "measure", "refine", "done"
    failedAt,   \* the rung the champion failed at, 0 if none
    placement,  \* the placement at hand
    best,       \* what the cell has so far: "none", "own", or a refinement of it
    tried,      \* refinements tried
    late,       \* no time is left for another measurement
    rows        \* the rows of the matrix, which the journal has too

matrixVars == <<grid, cell, step, failedAt, placement, best, tried, late, rows>>

Statuses == {"ok", "failed", "pruned", "deferred"}
Refinements == 2

\* rungs, depths: sizes of the ladder and of the depth grid; reach: the highest
\* rung each placement can be loaded at; reuse: the first cell has evidence
\* from the champion's session, which loaded it there; refine, deadline: the options.
Grids ==
    {g \in [rungs : Nat, depths : Nat, reach : Seq(Nat), reuse : BOOLEAN, refine : BOOLEAN,
            deadline : BOOLEAN] :
        Len(g.reach) >= 1 /\ (g.reuse => g.reach[1] >= 1)}

Row == [rung : Nat, depth : Nat, status : Statuses, placement : Nat, refined : BOOLEAN]

Cells == grid.rungs * grid.depths
Rung == (cell - 1) \div grid.depths + 1
Depth == ((cell - 1) % grid.depths) + 1
Placements == DOMAIN grid.reach
Loads(p, rung) == rung <= grid.reach[p]

ResetMatrix(at) ==
    /\ cell' = 1 /\ step' = at /\ failedAt' = 0 /\ placement' = 1
    /\ best' = "none" /\ tried' = 0 /\ late' = FALSE /\ rows' = <<>>

InitMatrix ==
    /\ cell = 1 /\ step = "done" /\ failedAt = 0 /\ placement = 1
    /\ best = "none" /\ tried = 0 /\ late = FALSE /\ rows = <<>>

\* A look at the clock; time only runs out.
Look == late' \in (IF grid.deadline THEN {late, TRUE} ELSE {late})

CloseCell(status, p, refined) ==
    /\ rows' = Append(rows, [rung |-> Rung, depth |-> Depth, status |-> status,
                             placement |-> p, refined |-> refined])
    /\ cell' = cell + 1
    /\ step' = "open" /\ placement' = 1 /\ best' = "none" /\ tried' = 0

DeferCell ==
    /\ step = "open" /\ cell <= Cells
    /\ Look /\ late'
    /\ CloseCell("deferred", 0, FALSE)
    /\ UNCHANGED <<grid, failedAt>>

\* The champion's session has measured the required context at depth 0.
ReuseCell ==
    /\ step = "open" /\ cell <= Cells
    /\ Look /\ ~late'
    /\ grid.reuse /\ cell = 1
    /\ CloseCell("ok", 1, FALSE)
    /\ UNCHANGED <<grid, failedAt>>

\* The champion is probed unless it failed at an earlier cell.
ProbeChampion ==
    /\ step = "open" /\ cell <= Cells
    /\ Look /\ ~late'
    /\ ~(grid.reuse /\ cell = 1)
    /\ IF failedAt = 0 /\ Loads(1, Rung)
       THEN step' = "measure" /\ UNCHANGED <<failedAt, placement>>
       ELSE /\ step' = "retreat" /\ placement' = 2
            /\ failedAt' = IF failedAt = 0 THEN Rung ELSE failedAt
    /\ UNCHANGED <<grid, cell, best, tried, rows>>

ProbeRetreat ==
    /\ step = "retreat" /\ placement \in Placements
    /\ IF Loads(placement, Rung)
       THEN step' = "measure" /\ UNCHANGED placement
       ELSE placement' = placement + 1 /\ UNCHANGED step
    /\ UNCHANGED <<grid, cell, failedAt, best, tried, late, rows>>

\* Mutant of Hopeless: a failure at this very rung counts as one below it.
HopelessHere == Rung >= failedAt

Hopeless == Rung > failedAt

\* No placement loads here.
GiveUpCell ==
    /\ step = "retreat" /\ placement \notin Placements
    /\ CloseCell(IF Hopeless THEN "pruned" ELSE "failed", 0, FALSE)
    /\ UNCHANGED <<grid, failedAt, late>>

\* One measurement at the cell's depth; it may fail although the probe passed.
Measure ==
    /\ step = "measure"
    /\ best' \in {"none", "own"}
    /\ step' = "refine"
    /\ UNCHANGED <<grid, cell, failedAt, placement, tried, late, rows>>

Refinable == grid.refine /\ best # "none" /\ tried < Refinements

\* Mutant of TriedNow: a refinement that wins is refined in its turn.
TriedAnew == IF best' = "refined" THEN 0 ELSE tried + 1

\* Only the placement that loaded is refined, whichever wins.
TriedNow == tried + 1

Refine ==
    /\ step = "refine" /\ Refinable
    /\ Look /\ ~late'
    /\ best' \in {best, "refined"}
    /\ tried' = TriedNow
    /\ UNCHANGED <<grid, cell, step, failedAt, placement, rows>>

FinishCell ==
    /\ step = "refine"
    /\ Look /\ (~Refinable \/ late')
    /\ CloseCell(IF best = "none" THEN "failed" ELSE "ok", placement, best = "refined")
    /\ UNCHANGED <<grid, failedAt>>

MatrixStep ==
    \/ DeferCell \/ ReuseCell \/ ProbeChampion \/ ProbeRetreat \/ GiveUpCell
    \/ Measure \/ Refine \/ FinishCell

MatrixDone == step = "open" /\ cell > Cells

----------------------------------------------------------------------------
MatrixTypeOK ==
    /\ grid \in Grids
    /\ cell \in 1..(Cells + 1)
    /\ step \in {"open", "retreat", "measure", "refine", "done"}
    /\ failedAt \in 0..grid.rungs
    /\ placement \in 1..(Len(grid.reach) + 1)
    /\ best \in {"none", "own", "refined"}
    /\ tried \in 0..Refinements
    /\ late \in BOOLEAN
    /\ rows \in Seq(Row)

\* The definition the walk is compared with: the first placement that loads.
FirstFit(rung) ==
    {p \in Placements : Loads(p, rung) /\ \A q \in 1..(p - 1) : ~Loads(q, rung)}

RowIsFirstFit(k) ==
    /\ rows[k].rung = (k - 1) \div grid.depths + 1
    /\ rows[k].depth = ((k - 1) % grid.depths) + 1
    /\ rows[k].placement # 0 => rows[k].placement \in FirstFit(rows[k].rung)
    /\ rows[k].placement = 0 /\ rows[k].status # "deferred" => FirstFit(rows[k].rung) = {}
    /\ rows[k].status = "pruned" => ~Loads(1, rows[k].rung - 1)
    /\ rows[k].status = "deferred" => \A l \in k..Len(rows) : rows[l].status = "deferred"

\* Every row names its own cell, and its placement is the first of the retreat
\* order that loads at its context, though most placements were never probed
\* there: a cell without one is a cell where none loads, and "pruned" is said
\* only above a context the champion failed at.  Deferred cells come last.
\* (run_matrix carries champion_failed_at from cell to cell)
MatrixIsFirstFit == \A k \in DOMAIN rows : RowIsFirstFit(k)

=============================================================================
