SPECIFICATION ScreeningSpec
CONSTANTS
  NoName = "not stated"
  Malformed = Malformed
  Alphabet <- MCAlphabet
  CountryOf <- MCCountryOf
  HUB_ALIASES <- MCHubs
  HIGH_RISK_DESTINATIONS = {"iran"}
  DUAL_USE_HS_PREFIXES = {"8542"}
  is_dual_use = {"8542"}
  CIRCUMVENTION_WATCH <- MCWatch
  LANE_BASELINES <- MCBaselines
  DEFAULT_LANE_BASELINE = 500
  _BOOK <- MCBook
  Defaults <- MCDefaults
  Shipments <- MCShipments
  Papers <- MCPapers
  MaxPapers = 3
  Editors = {"e1"}
  Patches <- MCPatches
  Saved <- MCSaved
  Lists <- MCLists
  Bundles <- MCBundles
  Scores <- MCScores
  Statuses = {"CLEARED", "UNKNOWN"}
  HsVerdicts <- MCHs
  NewsVerdicts <- MCNews
  Debates <- MCDebates
  Pasts <- MCPasts
CHECK_DEADLOCK FALSE
PROPERTIES
  ReevaluatedUnderTodaysRules
