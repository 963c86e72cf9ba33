CONSTANTS
  Clients = {c1}
  Ops = {"start", "save", "open"}
  Paths = {p1}
  ForeignIds = {}
  MaxRuns = 1
  MaxSamples = 1
SPECIFICATION Spec
INVARIANTS HistoryKeepsHostedRun
