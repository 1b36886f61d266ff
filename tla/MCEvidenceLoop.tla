--------------------------- MODULE MCEvidenceLoop ---------------------------
(* Small instances of EvidenceLoop for TLC.                                *)
EXTENDS EvidenceLoop, TLC

\* No property tells two handlers, two requests, two papers or two approvals apart.
Names == Permutations(Desk) \cup Permutations(Requests)
         \cup Permutations(Approvals) \cup Permutations(DocTypes)

\* A stale copy can only be dropped: no action of this specification writes it, and
\* a current one is equal to `doc`.  So which stale copy a handler holds makes no
\* difference to what can happen next, and states that differ only in it are one.
Seen == <<doc, acked, fresh, {c \in Calls : Holds(c)}>>

=============================================================================
