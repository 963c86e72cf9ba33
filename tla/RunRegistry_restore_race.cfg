CONSTANTS
  Clients = {c1, c2}
  Ops = {"start", "select"}
  Paths = {p1}
  ForeignIds = {}
  MaxRuns = 2
  MaxSamples = 1
SPECIFICATION Spec
PROPERTIES RestoreRefusesWhileRecording
