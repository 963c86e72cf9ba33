CONSTANTS
  Clients = {c1, c2}
  Ops = {"start", "stop"}
  Paths = {p1}
  ForeignIds = {}
  MaxRuns = 2
  MaxSamples = 1
SPECIFICATION FairSpec
INVARIANTS TypeOK OneRecorder HostedRunAccounted SnapshotIsOwnRun StopReturnsOwnRun
PROPERTIES HistoryStable ImplementsLifecycle 
