CONSTANTS
  p1 = p1
  p2 = p2
  Posts = {p1, p2}
  Workers = {w1}
  PostOf <- MCPostOf
  Impatient = TRUE
  TURNS = 3
  MaxTries = 2
  MaxWork = 2
SPECIFICATION AuditSpec
CHECK_DEADLOCK FALSE
INVARIANTS OneVerdict
