SPECIFICATION ScenesSpec
CONSTANTS
  d1 = d1
  d2 = d2
  e1 = e1
  u1 = u1
  r1 = r1
  Drains = {d1, d2}
  Ticks = {d2}
  Deliveries = {e1}
  Uploads = {u1}
  Reviewers = {r1}
  MAX_ATTEMPTS = 2
  MaxFaults = 2
  MaxReviews = 2
  QUERY_LIMIT = 1
  MaxAhead = 0
  NoCase = NoCase
VIEW Seen
CHECK_DEADLOCK FALSE
INVARIANTS
  StateIsBacked
  AnnouncedWasDone
  AttemptsAreFailures
PROPERTIES
  ReviewerDecisionStands
