SPECIFICATION Spec
CONSTANTS
  Calls = {e1, e2}
  Executors = {e1, e2}
  Approvals = {a1}
  Requests = {}
  DocTypes = {}
  NoDoc = NoDoc
  NoState = NoState
  NoEval = NoEval
  NoMessage = NoMessage
  NoApproval = NoApproval
  Ledger = TRUE
  Faults = {"slow", "late", "save", "miss"}
  MaxMessages = 2
  MaxExecutions = 2
SYMMETRY Handlers
CHECK_DEADLOCK FALSE
INVARIANTS
  RowProvesPublish
PROPERTIES
  KeepsDelivery
