CONSTANTS
    Searches = {s1, s2}
    OverloadMaxConcurrentSearch = 1
    QueryMaxConcurrency = 1
    HasDeepQuery = TRUE
    HasVector = FALSE
    MaxAbandoned = 1
SPECIFICATION Spec
INVARIANTS TypeOK TokensAccounted WaitedQueriesBounded
PROPERTIES TokensAreSemaphore SlotsAreSemaphore EveryCallReturns
