-------------------------------- MODULE MCAudit --------------------------------
(* A small instance of AuditIntake for TLC: one shipment posted under two      *)
(* references.                                                                 *)
EXTENDS AuditIntake

CONSTANTS p1, p2
MCPostOf == [p \in {p1, p2} |-> [reference |-> IF p = p1 THEN "r1" ELSE "r2", shipment |-> "s1"]]

===============================================================================
