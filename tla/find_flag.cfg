SPECIFICATION Spec
CONSTANTS
  Drains = {d1}
  Ticks = {}
  Deliveries = {}
  Uploads = {u1}
  Reviewers = {}
  MAX_ATTEMPTS = 2
  MaxFaults = 0
  MaxReviews = 0
  QUERY_LIMIT = 1
  MaxAhead = 0
  NoCase = NoCase
CHECK_DEADLOCK FALSE
INVARIANTS
  TriggerStopsTheRelease
