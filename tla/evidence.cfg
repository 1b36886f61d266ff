SPECIFICATION LoopSpec
CONSTANTS
  Calls = {d1, d2}
  Desk = {d1, d2}
  Approvals = {a1}
  Requests = {r1, r2}
  DocTypes = {t1, t2}
  NoDoc = NoDoc
  NoState = NoState
  NoEval = NoEval
  NoMessage = NoMessage
  MaxVersion = 2
  MaxSeq = 2
VIEW Seen
SYMMETRY Names
INVARIANTS
  NoUploadLost
  StandingApprovalIsCurrent
  ComesBackToAPerson
PROPERTIES
  RetiredLinkNeverCounts
