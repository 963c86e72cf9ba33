CONSTANTS
  KpCpus = {1, 2}
  KpTids = {1, 2}
  Walks <- MCWalks
  Unseen = Unseen
  Chunk = 2
  KpMaxTime = 5
  MaxWalks = 1
  MaxWakes = 1
  JitEntries <- MCJitEntries
  JitMmaps <- MCJitMmaps
  Elves <- MCElves
  ElfMmaps <- MCElfMmaps
  Page = 2
  MinExtent = 1
  NoName = NoName
  MaxAnnounced = 3
  ContractSet <- MCContracts
  CtIds = {1}
  NoCorr = 0
  NoViolation = NoViolation
  CtMaxTime = 5
  CtMaxSignals = 3
  SgBatches <- MCSgBatches
  SgPid = 7
  SgBounds <- MCBounds
  SgSlop = 1
  SgCap = 3
  SgMaxBatches = 3
  SgNone = SgNone
  LqTid = 1
  LqLane = 9
  LqAll = 0
  SymbolOf <- MCSymbolOf
  NoSymbol = NoSymbol
  Stacks <- MCStacks
  SpanStack <- MCSpanStack
  ReasonOf <- MCReasonOf
  Filters <- MCFilters
  LogCap = 3
  DrillCap = 1
  WakerCap = 1
  Wakeups <- MCWakeups
  LqMaxTime = 3
  LqMaxWakes = 4
  LqMaxSamples = 2
  LqMaxSpans = 1
  EgClients = {1, 2}
  EgNobody = 0
  EgModes = {"detail", "counts"}
  EgLines <- MCLines
  EgLength <- MCLength
  EgNodeLimit = 2
  EgTop = 3
  MaxCaptures = 2
  EgMaxImports = 4
  ArSnapshots <- MCSnapshots
  ArLimits <- MCLimits
  ArNoText = ArNoText
  ArTorn = ArTorn
  ArMaxSaves = 3
  ArMaxCuts = 2
  RcClients = {1, 2}
  Batches = 3
  WorkerCap = 1
  ScannerCap = 1
  PfCpus = 2
  PfCounters <- MCCounters
  RgSize = 4
  RgSizes = {1, 2, 3}
  RgMaxWrites = 5
  CfBase = 4
  CfCodes <- MCCodes
  CfWord = 2
  CfMaxInstr = 2
  CfFar = 1
SPECIFICATION AnalysisSpec
CHECK_DEADLOCK FALSE
INVARIANTS MarkersKept
