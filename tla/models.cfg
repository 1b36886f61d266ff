SPECIFICATION ModelsSpec
CONSTANTS
  Tenants = {"acme", "globex"}
  Cases = {"acme_case", "globex_case"}
  Handlers = {"h1", "h2"}
  Processes = {"p1", "p2"}
  SINGLE_TENANT_ID = "acme"
  Owner <- Home
  Begin <- First
  Coded = {"acme_case"}
  RunsIn <- Placed
  Ceiling = 2
  MAX_ATTEMPTS = 2
  MaxFaults = 1
  MaxExtra = 1
  NoFigure = NoFigure
  Names = {"alfa", "bravo"}
  Dossiers = {"through", "beside", "blank"}
  Named <- NamedBy
  Gated = {"through"}
  Disputed = {"through"}
  CACHE_MAX_ENTRIES = 1
  MAX_TOOL_ROUNDS = 2
  max_tool_rounds = 2
  Searches <- SearchCalls
  Motions <- AuditCalls
CHECK_DEADLOCK FALSE
INVARIANTS
  RecordedWasPaid
PROPERTIES
  RefusedOnlyWhenSpent
  SpendComesToRest
  SearchedIsTrue
  OnlyAJudgementMoves
