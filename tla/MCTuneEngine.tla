---------------------------- MODULE MCTuneEngine ----------------------------
(* Bounded instances of TuneEngine.                                        *)
EXTENDS TuneEngine

\* Measurements below, at and above what a promotion and a confirmation need.
ScoreLevels == {1, 3}

Line(budget, ctx, clock, cli, batch, baseline_only, over, fallbacks, warm, builds) ==
    [budget |-> budget, runs |-> 3, ctx |-> ctx, clock |-> clock, cli |-> cli,
     batch |-> batch, baseline_only |-> baseline_only, over |-> over, fallbacks |-> fallbacks,
     warm |-> warm, builds |-> builds]

\* Budgets that leave the search a few executions, or none at all; the fourth
\* line may be resumed after a rebuild, and by a build whose hash is unreadable.
CommandLines ==
    {Line(7, FALSE, TRUE, FALSE, FALSE, FALSE, {}, {}, TRUE, {"old"}),
     Line(8, FALSE, FALSE, FALSE, TRUE, FALSE, {}, {}, FALSE, {"old"}),
     Line(7, FALSE, FALSE, FALSE, FALSE, FALSE, {Default}, {}, FALSE, {"old"}),
     Line(7, FALSE, FALSE, FALSE, FALSE, FALSE, {}, {}, FALSE, {"old", "new", None}),
     Line(9, TRUE, FALSE, FALSE, FALSE, FALSE, {}, Others, TRUE, {"old"}),
     Line(8, TRUE, FALSE, TRUE, FALSE, FALSE, {Default}, Others, FALSE, {"old"}),
     Line(3, FALSE, FALSE, FALSE, FALSE, FALSE, {}, {}, FALSE, {"old"}),
     Line(4, FALSE, FALSE, FALSE, FALSE, TRUE, {Default}, {}, FALSE, {"old"})}

\* An ordinary command line of the violation run: no process dies.
WithContext == {Line(9, TRUE, FALSE, FALSE, FALSE, FALSE, {}, Others, FALSE, {"old"})}
=============================================================================
