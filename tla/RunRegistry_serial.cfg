CONSTANTS
  Clients = {c1}
  Ops = {"start", "wait", "save", "open", "select"}
  Paths = {p1}
  ForeignIds = {1}
  MaxRuns = 2
  MaxSamples = 1
SPECIFICATION Spec
INVARIANTS QueryStateIsSelected ArchiveOfOneRun
PROPERTIES FreshRunId
