SPECIFICATION Spec
CONSTANTS
  ParallelCount = 2
  ForkCount <- MCForever
  GenerationCount = 1
  MaxStateCount = 1
  CrashLimits <- MCCrashLimits
  Scores = {0, 1}
  Debug = FALSE
  SameFilesystem = TRUE
  TargetMayBlock = FALSE
  IntMax = 3
  Torn = Torn
  MaxFaults = 0
  MaxExec = 2
  MaxGeneration = 1
INVARIANTS
  OwnDirectory
