-------------------------- MODULE MCBoundarySearch --------------------------
(* Bounded instances of BoundarySearch.                                    *)
EXTENDS BoundarySearch

\* The GPU holds `room` layer equivalents and each CPU MoE layer frees a half.
Largest(room, moe) == room + moe \div 2

\* Machines that answer by size; failures are OOMs, or crashes that prune nothing.
Exact(room, failure) ==
    [c \in Config |-> IF c.ngl <= Largest(room, c.moe) THEN {"ok"} ELSE {failure}]

\* A machine that may go either way just above the boundary, on two rungs.
Wavering(room) ==
    [c \in Config |->
        IF c.ngl <= Largest(room, c.moe) THEN {"ok"}
        ELSE IF c.moe \in {4, NLayer} /\ c.ngl = Largest(room, c.moe) + 1
             THEN {"ok", "oom"} ELSE {"crash"}]

Machines ==
    {Exact(room, f) : room \in {-5, -1, 3, NglAll}, f \in {"oom", "crash"}}
        \cup {Wavering(1)}

\* No neighbour beats the baseline; the boundary does; a lower neighbour does.
ScoreFunctions ==
    {[c \in Config |-> 0], [c \in Config |-> 2 + c.ngl], [c \in Config |-> 9 - c.ngl]}

Line(max, ngl, moe, default, verified, limit) ==
    [max_ngl |-> max, initial_ngl |-> ngl, initial_moe |-> moe,
     default |-> default, verified |-> verified,
     limit |-> limit]

\* Defaults that offload everything, past a --max-gpu-layers or not; the CPU
\* fallback; a rung-zero default measured to fit; hints of where to begin.
CommandLines ==
    {Line(NglAll - 1, None, None, At(0, NglAll), TRUE, 60),
     Line(NglAll, None, None, At(0, 2), TRUE, 60),
     Line(NglAll, 5, None, At(0, 0), FALSE, 20),
     Line(NglAll, None, 3, At(0, 0), FALSE, 60)}
=============================================================================
