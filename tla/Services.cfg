CONSTANTS
  Targets <- MCTargets
  Own = 1
  Slots = {1, 2}
  MaxEvents = 1
  Outcomes = {"linked", "too_far"}
  BeginMidIngest = FALSE
  HasOrigins = TRUE
  QueueDepth = 1
  BuiltSpans <- MCBuiltSpans
  RawSpans <- MCRawSpans
  Budgets <- MCBudgets
  Callers = {1, 2}
  None = 0
  QueueCap = 1
  ChannelCap = 1
  MaxBatches <- MCMaxBatches
  StSubs = {1}
  StWriters = {"recorder", "ingest"}
  StMaxWrites = 1
  StMaxInstalls = 2
SPECIFICATION ServicesSpec
CHECK_DEADLOCK FALSE
INVARIANTS  NamesNeverWrong DiagnosticsAgree  DrainAccounted
PROPERTIES GateFollowsRun CancelReleases 
