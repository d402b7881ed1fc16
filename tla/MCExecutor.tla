----------------------------- MODULE MCExecutor -----------------------------
(* Bounded instances of Executor.                                          *)
EXTENDS Executor

OutErr == {"stdout", "stderr"}

Writes(out, err) == [s \in OutErr |-> IF s = "stdout" THEN out ELSE err]

Child(out, err, hangs, helper, ends, obeys, disk) ==
    [writes |-> Writes(out, err), hangs |-> hangs, helper |-> helper, helper_ends |-> ends,
     obeys |-> obeys, disk |-> disk]

\* Quiet and noisy children, with and without a helper that ends by itself;
\* noisy writes more than a capture and a pipe hold together.
Children ==
    {Child(out, 1, hangs, helper, TRUE, obeys, disk) :
        out \in {1, 4}, hangs \in BOOLEAN, helper \in BOOLEAN,
        obeys \in SUBSET Procs, disk \in {{}, {"stdout"}}}

=============================================================================
