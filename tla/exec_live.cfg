SPECIFICATION FairSpec
CONSTANTS
  Calls = {e1, e2}
  Executors = {e1, e2}
  Approvals = {a1}
  Requests = {}
  DocTypes = {}
  NoDoc = NoDoc
  NoState = NoState
  NoEval = NoEval
  NoMessage = NoMessage
  NoApproval = NoApproval
  Ledger = TRUE
  Faults = {"crash", "store", "save", "ledger"}
  MaxMessages = 2
  MaxExecutions = 3
CHECK_DEADLOCK FALSE
INVARIANTS
  TypeOK
  OneSender
  AtMostOneMessage
  TrailComplete
  NeverStranded
PROPERTIES
  ExecutionSettles
  ImplementsDelivery
