SPECIFICATION Spec
CONSTANTS
  Calls = {c1, c2, c3}
  Queries = {q1, q2}
  Scopes = {all}
  DeepNegativeTTL = 2
  DeepNegativeScopeCooldown = 3
  ScopeFailWindow = 2
  AllowCPUDeepQuery = TRUE
  MaxDelay = 1
  Any = Any
INVARIANTS TypeOK ThreeFailuresCoolScope FailureSkippedForTTL
PROPERTIES DeepOpensAgain
