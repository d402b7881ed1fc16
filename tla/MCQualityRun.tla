---------------------------- MODULE MCQualityRun ----------------------------
(* Bounded instances of QualityRun.                                        *)
EXTENDS QualityRun

Case(suites, short, reps, sides, perplexity, obeys, processes_, crashes_, signals_) ==
    [suites |-> suites, short |-> short, reps |-> reps, sides |-> sides,
     perplexity |-> perplexity, obeys |-> obeys, processes |-> processes_, crashes |-> crashes_,
     signals |-> signals_]

\* Two suites with repetitions and a lossless side, in one process; the same
\* grid, smaller, through a crash and through two signals; a suite that is
\* skipped; perplexity alone; more signals than anyone asks for; a server deaf to
\* SIGTERM, through a crash and through the two signals that make its process hang.
Cases ==
    {Case(<<2, 1>>, {}, 2, 1, FALSE, TRUE, 1, 0, 0),
     Case(<<1, 1>>, {}, 1, 2, TRUE, TRUE, 2, 1, 0),
     Case(<<2>>, {}, 1, 2, TRUE, TRUE, 2, 0, 2),
     Case(<<1, 2>>, {1}, 2, 1, FALSE, TRUE, 2, 1, 1),
     Case(<<>>, {}, 1, 2, TRUE, TRUE, 1, 1, 2),
     Case(<<1>>, {}, 1, 1, TRUE, TRUE, 1, 0, 4),
     Case(<<1, 1>>, {}, 1, 1, FALSE, FALSE, 2, 1, 1),
     Case(<<1>>, {}, 1, 1, FALSE, FALSE, 1, 0, 2)}

=============================================================================
