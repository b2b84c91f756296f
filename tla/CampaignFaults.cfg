SPECIFICATION Spec
CONSTANTS
  ParallelCount = 2
  ForkCount = 1
  GenerationCount = 3
  MaxStateCount = 2
  CrashLimits <- MCCrashLimits
  Scores = {0, 1}
  Debug = FALSE
  SameFilesystem = TRUE
  TargetMayBlock = TRUE
  IntMax = 6
  Torn = Torn
  MaxFaults = 1
  MaxExec = 0
  MaxGeneration = 0
CHECK_DEADLOCK FALSE
INVARIANTS
  ReapAlone
  PublishedWhole
  CrashKept
PROPERTIES
  CrashesStay
