SPECIFICATION Spec
CONSTANTS
  ParallelCount = 2
  ForkCount = 1
  GenerationCount = 1
  MaxStateCount = 1
  CrashLimits <- MCCrashLimits
  Scores = {0, 1}
  Debug = FALSE
  SameFilesystem = FALSE
  TargetMayBlock = FALSE
  IntMax = 2
  Torn = Torn
  MaxFaults = 0
  MaxExec = 0
  MaxGeneration = 0
INVARIANTS
  CrashKept
