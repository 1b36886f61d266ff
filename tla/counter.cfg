SPECIFICATION CounterSpec
CONSTANTS
  Jobs = {"j1", "j2"}
  SdnRows <- MCSdn
  AltNames <- MCAlt
  UnRecords <- MCUn
  Additions <- MCAdditions
  Natural <- MCNatural
  Usable = {"DOE, Jane", "DOE, J", "ZORN TRADING"}
  Feed <- MCFeed
  Unreadable = Unreadable
  Commands <- MCCommands
  Readings <- MCReadings
  Nothing = Nothing
  Cases = {1, 2, 3}
  Facts <- MCFacts
  PAGE = 1
  SCAN_LIMIT = 2
  ITEMS_PER_BUCKET = 1
  Windows <- MCWindows
  MaxMoves = 3
  Never = Never
  Handlers = {h1, h2}
  Stage <- Bucket
  Content <- Contents
  limit = 1
  MODEL_ARMOR = TRUE
  MaxEvents = 1
  MaxFaults = 1
  p1 = p1
  p2 = p2
  Posts = {p1, p2}
  Workers = {w1}
  PostOf <- MCPostOf
  Impatient = FALSE
  TURNS = 3
  MaxTries = 2
  MaxWork = 3
  NoName = "not stated"
  Malformed = Malformed
  Alphabet <- MCAlphabet
  CountryOf <- MCCountryOf
  HUB_ALIASES <- MCHubs
  HIGH_RISK_DESTINATIONS = {"iran"}
  DUAL_USE_HS_PREFIXES = {"8542"}
  is_dual_use = {"8542"}
  CIRCUMVENTION_WATCH <- MCWatch
  LANE_BASELINES <- MCBaselines
  DEFAULT_LANE_BASELINE = 500
  _BOOK <- MCBook
  Defaults <- MCDefaults
  Shipments <- MCShipments
  Papers <- MCPapers
  MaxPapers = 3
  Editors = {"e1"}
  Patches <- MCPatches
  Saved <- MCSaved
  Lists <- MCLists
  Bundles <- MCBundles
  Scores <- MCScores
  Statuses = {"CLEARED", "UNKNOWN"}
  HsVerdicts <- MCHs
  NewsVerdicts <- MCNews
  Debates <- MCDebates
  Pasts <- MCPasts
VIEW Seen
CHECK_DEADLOCK FALSE
INVARIANTS
  NobodyForgotten
  FlagSticks
  OneVerdict
  FloorStands
  ReleasedIsScreened
  ContradictionEscalates
PROPERTIES
  StaysInForce
  StagedFilesAreTaken
