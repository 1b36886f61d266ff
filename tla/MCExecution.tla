---------------------------- MODULE MCExecution -----------------------------
(* Small instances of Execution for TLC.                                   *)
EXTENDS Execution, TLC

\* Handlers are interchangeable: which one makes a call is told by no property.
Handlers == Permutations(Executors)

=============================================================================
