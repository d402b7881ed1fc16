---------------------------- MODULE MCNightshift ----------------------------
(* Bounded instances of Nightshift.                                        *)
EXTENDS Nightshift

Alone == [m \in Models |-> m]
\* The last model is a sibling of the first.
Twins == [m \in Models |-> IF m = NumModels THEN 1 ELSE m]

Open(m, cut) == [model |-> m, analysis |-> FALSE, marked |-> cut, cut |-> cut, ctx |-> FALSE]
Full(m, ctx) == [model |-> m, analysis |-> TRUE, marked |-> TRUE, cut |-> FALSE, ctx |-> ctx]

Night(found, rep, time, deepens, ss, nights, sent) ==
    [found |-> found, rep |-> rep, deadline |-> time > 0, time |-> time, deepens |-> deepens,
     sessions |-> ss, nights |-> nights, signals |-> sent]

Unended(m) == [model |-> m, analysis |-> TRUE, marked |-> FALSE, cut |-> FALSE, ctx |-> TRUE]

Older == <<Full(1, TRUE), Open(1, FALSE)>>

\* One night of three models, copies or not, from nothing; one with a deadline
\* and spare time; two nights of one model or of two copies, from nothing, from
\* an interrupted session, from a record with a session cut short after it; and
\* two where the record of a copy is hidden during the night, one that may run
\* out of time and one with another record of it in sight.
Directories ==
    {Night({1, 2, 3}, rep, 0, FALSE, <<>>, 1, 2) : rep \in {Alone, Twins}}
    \cup {Night({1, 2, 3}, Twins, 3, TRUE, <<Full(2, TRUE), Full(1, TRUE)>>, 1, 0),
          Night({1}, Alone, 3, TRUE, Older, 1, 2),
          Night({1, 3}, Twins, 0, FALSE, <<>>, 2, 1),
          Night({1, 3}, Twins, 0, FALSE, Older, 2, 0),
          Night({1, 3}, Twins, 3, FALSE, <<Full(3, TRUE), Open(3, FALSE)>>, 1, 0),
          Night({1, 2, 3}, Twins, 0, FALSE, <<Full(3, TRUE), Open(3, FALSE), Unended(3)>>, 1, 0)}
    \cup {Night({1}, Alone, 0, FALSE, ss, 2, 2) : ss \in {<<>>, <<Open(1, TRUE)>>, Older}}

\* The violation runs.
OneOlder == {Night({1}, Alone, 0, FALSE, Older, 1, 0)}
CutShort == {Night({1}, Alone, 0, FALSE, <<Open(1, TRUE)>>, 1, 0)}
=============================================================================
