----------------------------- MODULE MCMarathon -----------------------------
(* Bounded instances of Marathon.                                          *)
EXTENDS Marathon

CONSTANTS w1, w2

Grid(rungs, depths, reach, deadline) ==
    [rungs |-> rungs, depths |-> depths, reach |-> reach, reuse |-> TRUE, refine |-> TRUE,
     deadline |-> deadline]

NoCells == Grid(0, 1, <<1>>, FALSE)

Command(rounds, converge, ids, dry, timed, winners, cells, dirs, most, lost, sent) ==
    [rounds |-> rounds, converge |-> converge, blocks |-> 3, ids |-> ids, dry |-> dry,
     timed |-> timed, winners |-> winners, grid |-> cells, runs |-> dirs, processes |-> most,
     crashes |-> lost, signals |-> sent]

\* Rounds up to the breaker and to convergence in one process; two rounds of
\* one run through a crash; two runs, of two identities or of one, with dry
\* runs; signals around a crash; and one round whose matrix has up to four
\* cells, on machines that load more or less.
Commands ==
    {Command(3, 2, {1}, {FALSE}, FALSE, Winners, NoCells, 1, 1, 0, 0),
     Command(5, 2, {1}, {FALSE}, FALSE, {}, NoCells, 1, 1, 0, 0),
     Command(2, 1, {1}, {FALSE}, FALSE, {w1}, NoCells, 1, 2, 1, 0),
     Command(1, 1, {1, 2}, BOOLEAN, TRUE, {w1}, NoCells, 2, 2, 0, 0),
     Command(1, 1, {1}, BOOLEAN, FALSE, {w1}, NoCells, 1, 2, 1, 2),
     Command(1, 1, {1}, {FALSE}, FALSE, {w1}, Grid(1, 2, <<1>>, FALSE), 1, 1, 0, 0)}
    \cup {Command(1, 1, {1}, {FALSE}, hurry, {}, Grid(2, 2, reach, hurry), 1, 1, 0, 0) :
             hurry \in BOOLEAN, reach \in {<<2, 0, 2>>, <<1, 0, 2>>, <<1, 1, 0>>}}

\* One round and one signal; one round and failing brackets.
OneRound == {Command(1, 1, {1}, {FALSE}, FALSE, {w1}, NoCells, 1, 2, 0, 1)}
=============================================================================
