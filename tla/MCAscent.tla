------------------------------ MODULE MCAscent ------------------------------
(* Bounded instances of the ascent and its conclusion.                     *)
EXTENDS Conclusion

Ubatches == <<1, 2, 4>>
Batches == <<2, 4, 8>>

Base ==
    [gpu_layers |-> 2, moe_cpu_layers |-> 0, flash_attn |-> FALSE, ubatch |-> 2, batch |-> 4,
     threads |-> 4, threads_batch |-> None, mmap |-> TRUE, no_kv_offload |-> FALSE,
     cache_type_k |-> "f16", cache_type_v |-> "f16", placement |-> <<>>, ot_spec |-> <<>>]

Common ==
    [start |-> [cfg |-> Base, score |-> 100], default |-> Base, measured |-> FALSE,
     machine |-> "flat", layers |-> 2, experts |-> 0, gpu |-> TRUE, vram |-> <<>>,
     cores |-> [physical |-> 4, logical |-> 8, fast |-> 0], caps |-> {}, pressure |-> FALSE,
     lossy |-> FALSE, ot_search |-> FALSE, ctx |-> NoCtx, ladder |-> <<>>,
     boundaries |-> <<>>, ooms |-> {}, depths |-> <<>>, budget |-> 60, reserve |-> 2, runs |-> 1,
     clock |-> FALSE, cli |-> FALSE, corpus |-> FALSE]

\* What a machine makes of a configuration.
Score(machine, c) ==
    CASE machine = "flat" -> 110 + (IF c.cache_type_k = "q8_0" THEN 6 ELSE 0)
      [] machine = "sweeps" ->
            100 + (IF c.flash_attn THEN 20 ELSE 0) + 5 * c.ubatch
                + (IF c.batch = 8 /\ c.flash_attn THEN 30 ELSE 0) - (IF c.batch = 2 THEN 20 ELSE 0)
      [] machine \in {"threads", "mapped"} ->
            140 - 5 * (IF c.threads > 10 THEN c.threads - 10 ELSE 10 - c.threads)
                + (IF c.mmap THEN 0 ELSE 20)
                + (IF c.threads_batch # None /\ c.threads_batch > 5 THEN 10 ELSE 0)
      [] machine = "experts" ->
            200 - 12 * (IF c.moe_cpu_layers > 1 THEN c.moe_cpu_layers - 1 ELSE 1 - c.moe_cpu_layers)
                + (IF c.ot_spec # <<>> THEN 60 ELSE 0) + 3 * c.gpu_layers
                + (IF c.threads = 2 THEN 12 ELSE 0)
      [] machine = "wary" -> 100 + (IF c.ubatch = 4 THEN 10 ELSE 0)
      [] machine = "moody" -> IF c.moe_cpu_layers = 4 THEN 120 ELSE 100
      [] machine = "devices" ->
            100 + (IF c.placement = <<<<1, 1>>, "row">> THEN 10 ELSE 0)

\* The benchmark wavers on mmap, fails on small batches, runs out of memory.
Outcomes(machine, c) ==
    IF machine = "sweeps" /\ c.ubatch = 4 /\ c.batch = 4 THEN {Outcome("crash", 0)}
    ELSE IF machine = "experts" /\ c.gpu_layers - c.moe_cpu_layers > 1 THEN {Outcome("oom", 0)}
    ELSE IF machine = "moody" /\ c.moe_cpu_layers = 7 THEN {Outcome("oom", 0)}
    ELSE IF machine = "mapped" /\ c.mmap /\ c.threads = 10
         THEN {Outcome("ok", Score(machine, c)), Outcome("ok", Score(machine, c) + 19)}
    ELSE {Outcome("ok", Score(machine, c))}

Weight(c) ==
    4 * (c.gpu_layers - c.moe_cpu_layers) - Rank(c.cache_type_k) - Rank(c.cache_type_v)

Statuses(machine, c, ctx) ==
    IF machine = "flat" /\ Weight(c) + 2 * ctx > 9 THEN {"oom"}
    ELSE IF machine = "sweeps" /\ c.ubatch = 1 THEN {"oom"}
    ELSE {"ok"}

----------------------------------------------------------------------------
\* Flash attention opens the way for batches.
Sweeps == [Common EXCEPT !.machine = "sweeps", !.caps = {"fa"}]
Tight == [Sweeps EXCEPT !.measured = TRUE, !.budget = 11]

\* A passing shortage of memory: joint discovery saw less than the defaults fail.
Wary == [Common EXCEPT !.machine = "wary", !.ooms = {[Base EXCEPT !.gpu_layers = 1]}]
Known == [Wary EXCEPT !.measured = TRUE, !.budget = 14, !.reserve = 3, !.runs = 3]

OnCpu(cfg) == [cfg EXCEPT !.gpu_layers = 0]
Threads ==
    [Common EXCEPT !.machine = "threads", !.gpu = FALSE,
                   !.cores = [physical |-> 8, logical |-> 16, fast |-> 0],
                   !.start.cfg = OnCpu(Base), !.default = OnCpu(Base), !.budget = 40]
Mapped == [Threads EXCEPT !.machine = "mapped", !.caps = {"mmp"}, !.budget = 20]

Experts ==
    [Common EXCEPT !.machine = "experts", !.experts = 8, !.start.cfg.moe_cpu_layers = 6,
                   !.caps = {"ncmoe", "ot", "tb"}, !.ot_search = TRUE, !.ctx = 1, !.measured = TRUE,
                   !.reserve = 3]

\* What a joint pass promotes, it later sees ruled out by an OOM of its own.
Moody ==
    [Common EXCEPT !.machine = "moody", !.experts = 8, !.start.cfg.moe_cpu_layers = 6,
                   !.caps = {"ncmoe"}, !.measured = TRUE]

Devices == [Common EXCEPT !.machine = "devices", !.vram = <<8, 8>>, !.budget = 6, !.clock = TRUE]

\* A lossy winner whose ladder needs smaller placements and cache types.
Ladder ==
    [Common EXCEPT !.start.cfg.flash_attn = TRUE, !.start.score = 110, !.measured = TRUE,
                   !.ctx = 1, !.ladder = <<2, 3, 4>>, !.reserve = 2, !.lossy = TRUE,
                   !.boundaries = <<[moe |-> 0, max_ok |-> 2]>>, !.depths = <<1, 2>>,
                   !.caps = {"ctk", "ctv"}, !.cli = TRUE, !.corpus = TRUE]
Instances == {Sweeps, Tight, Wary, Known, Threads, Mapped, Experts, Moody, Devices, Ladder}
=============================================================================
