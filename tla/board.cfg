SPECIFICATION FairSpec
CONSTANTS
  Drains = {d1}
  Ticks = {}
  Deliveries = {e1}
  Uploads = {}
  Reviewers = {}
  MAX_ATTEMPTS = 2
  MaxFaults = 1
  MaxReviews = 0
  QUERY_LIMIT = 1
  MaxAhead = 1
  NoCase = NoCase
CHECK_DEADLOCK FALSE
PROPERTIES
  LeavesTheBoard
