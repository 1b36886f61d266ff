SPECIFICATION DoorsSpec
CONSTANTS
  DRIFT_MIN_SAMPLE = 1
  DRIFT_MAX_AUTO_RELEASE_RATE = 85
  DRIFT_MAX_VETO_RATE = 60
  DRIFT_MAX_INJECTION_RATE = 20
  Owners = {t1}
  Agents = {a1, a2}
  People = {p1}
  Drafts <- AllDrafts
  Shipments <- AllShipments
  proposal <- Proposal
  MaxVersion = 2
  MaxCases = 2
  Window = 2
  NoBoundary = NoBoundary
  account = account
  source = source
  l1 = l1
  l2 = l2
  l3 = l3
  Attempts <- MCAttempts
  Buckets <- MCKeys
  Order <- MCOrder
  Tries <- MCRequests
  Limit <- MCLimit
  Span = 1
  MaxClock = 1
  Backends = {"memory", "firestore"}
  acme = acme
  beta = beta
  home = home
  ann = ann
  guest = guest
  annSub = annSub
  k1 = k1
  k2 = k2
  s1 = s1
  s2 = s2
  c1 = c1
  c2 = c2
  c3 = c3
  SERVICE = SERVICE
  DEV = DEV
  NoOne = NoOne
  Unreadable = Unreadable
  Tenants = {acme, beta, home}
  SINGLE_TENANT_ID = home
  MAX_SESSION_LIFETIME = 4
  Envs <- MCEnvs
  Cases = {c1, c2, c3}
  owner <- MCOwner
  Routes <- MCRoutes
  Identities <- MCIdentities
  Accounts = {ann}
  TTL_SECONDS = 2
  ONE_CLICK_TTL_SECONDS = 1
  Skew = 9
  MaxTime = 3
  MaxTokens = 1
VIEW Seen
SYMMETRY Alike
CHECK_DEADLOCK FALSE
INVARIANTS
  ActedUnderAuthority
  OutcomesAreInTheTrail
  AdmittedWithinLimit
  RowTellsHowTheyCameIn
  OfferedChoicesWork
PROPERTIES
  HistoryIsKept
  RevocationHolds
