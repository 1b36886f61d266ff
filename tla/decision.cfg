SPECIFICATION DecisionSpec
CONSTANTS
  Calls = {d1, e1}
  Desk = {d1}
  Executors = {e1}
  Approvals = {a1, a2}
  Requests = {r1}
  DocTypes = {t1, t2}
  NoDoc = NoDoc
  NoState = NoState
  NoEval = NoEval
  NoMessage = NoMessage
  NoApproval = NoApproval
  Ledger = FALSE
  Faults = {"crash"}
  MaxVersion = 2
  MaxSeq = 1
  MaxMessages = 1
  MaxExecutions = 2
SYMMETRY Names
CHECK_DEADLOCK FALSE
INVARIANTS
  PublishedOnCurrentEvidence
  AppliedReleaseIsBacked
