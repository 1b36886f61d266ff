--------------------------- MODULE MCDecisionLoop ---------------------------
(* Small instances of DecisionLoop for TLC.                                *)
EXTENDS DecisionLoop, TLC

Names == Permutations(Desk) \cup Permutations(Requests)
         \cup Permutations(Approvals) \cup Permutations(DocTypes)

=============================================================================
