SPECIFICATION SpecRefresh
CONSTANTS
  refreshLoop = refreshLoop
  refreshCall = refreshCall
  embedCall = embedCall
  Loops = {refreshLoop}
  Admins = {refreshCall, embedCall}
  Task <- TaskOf
  Searches = {s1, s2}
  VersionAware = TRUE
  MaxRetries = 1
  MaxDocs = 1
  None = None
INVARIANTS RefreshTypeOK TasksExclusive
PROPERTIES EveryTaskEnds EveryChangeServed
