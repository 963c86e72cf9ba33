SPECIFICATION Spec
CONSTANTS
  Tids = {t1}
  CpuCount = 2
  MaxGap = 2
  Staleness = 4
  RingCap = 8
  MaxTime = 5
CHECK_DEADLOCK FALSE
INVARIANTS OffCpuReal
