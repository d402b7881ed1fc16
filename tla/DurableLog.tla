----------------------------- MODULE DurableLog -----------------------------
(***************************************************************************)
(* What an append-only evidence file of llamatune promises, without any    *)
(* file in it: a record whose append returned to its caller is stored; a   *)
(* record whose append was cut short is stored or not, but takes nothing   *)
(* else with it.  A file that is written anew as a whole promises this     *)
(* only while no such rewrite is broken off.                               *)
(***************************************************************************)
CONSTANT Record

VARIABLES
    stored,   \* the records in the file
    acked,    \* the records whose append returned
    whole     \* no rewrite of the file was broken off

Init == stored = {} /\ acked = {} /\ whole = TRUE

\* append() returned: the record is stored, and the caller relies on it.
Acknowledge(r) ==
    /\ r \notin stored
    /\ stored' = stored \cup {r}
    /\ acked' = acked \cup {r}
    /\ UNCHANGED whole

\* append() was cut short, but the line reached the disk all the same.
StoreUnacknowledged(r) ==
    /\ r \notin stored
    /\ stored' = stored \cup {r}
    /\ UNCHANGED <<acked, whole>>

\* append() was cut short while it wrote the file anew: any part of it is left.
BreakOff(r) ==
    /\ stored' \in SUBSET (stored \cup {r})
    /\ whole' = FALSE
    /\ UNCHANGED acked

Next == \E r \in Record : Acknowledge(r) \/ StoreUnacknowledged(r) \/ BreakOff(r)

Spec == Init /\ [][Next]_<<stored, acked, whole>>
=============================================================================
