--------------------------- MODULE MCEvidenceLog ---------------------------
(* Bounded instances of EvidenceLog.                                       *)
EXTENDS EvidenceLog

AllKinds == {"session", "registry", "quality", "marathon"}

\* Each file with the cuts its policy is built for.  A session survives every
\* cut but the one between a line and its newline; the two journals that are
\* never repaired meet every cut, and no durability is claimed of them.
ToleratedCuts ==
    [k \in AllKinds |->
        CASE k = "session"  -> Cut \ {"unterminated"}
          [] OTHER          -> Cut]

SessionOnly == {"session"}
AnySessionCut == [k \in SessionOnly |-> Cut]
=============================================================================
