SPECIFICATION Spec
CONSTANTS
  Tids = {t1}
  CpuCount = 1
  MaxGap = 2
  Staleness = 4
  RingCap = 8
  MaxTime = 6
CHECK_DEADLOCK FALSE
INVARIANTS WakerIsOfInterval
