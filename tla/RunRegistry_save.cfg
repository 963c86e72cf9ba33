CONSTANTS
  Clients = {c1, c2}
  Ops = {"start", "mark", "save"}
  Paths = {p1}
  ForeignIds = {}
  MaxRuns = 1
  MaxSamples = 2
SPECIFICATION Spec
SYMMETRY ClientSymmetry
INVARIANTS SavedCountNotAhead
