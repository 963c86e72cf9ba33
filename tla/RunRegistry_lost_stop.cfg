CONSTANTS
  Clients = {c1, c2}
  Ops = {"start", "stop"}
  Paths = {p1}
  ForeignIds = {}
  MaxRuns = 1
  MaxSamples = 1
SPECIFICATION FairSpec
PROPERTIES StopHonoured
