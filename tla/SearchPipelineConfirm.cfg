SPECIFICATION Spec
CONSTANTS
  Requests = {r1, r2}
  Shapes <- ConfirmShapes
  Queries = {q, long}
  DeepQueries = {q}
  VectorQueries = {}
  BudgetQueries = {q}
  Names = {memory, digital, personal, unknown}
  Collections = {memory, digital, personal}
  Tier1 = {memory}
  Tier2 = {digital}
  RequireExplicit = {personal}
  SafetyPrompt = {personal}
  HasDeepQuery = TRUE
  HasVector = FALSE
  FallbackEnabled = TRUE
  TopK = 3
  MaxEntries = 1
  All = All
  r1 = r1
  r2 = r2
  q = q
  long = long
  memory = memory
  digital = digital
  personal = personal
  unknown = unknown
INVARIANTS ConfirmRequired
