SPECIFICATION Spec
CONSTANTS
  Tids = {t1}
  CpuCount = 2
  MaxGap = 2
  Staleness = 4
  RingCap = 3
  MaxTime = 6
CHECK_DEADLOCK FALSE
INVARIANTS TypeOK OnCpuDisjoint OffCpuExact CreditedOwn
