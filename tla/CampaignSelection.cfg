SPECIFICATION Spec
CONSTANTS
  ParallelCount = 1
  ForkCount = 4
  GenerationCount = 2
  MaxStateCount = 2
  CrashLimits <- MCCrashLimits
  Scores = {0, 1, 2}
  Debug = FALSE
  SameFilesystem = TRUE
  TargetMayBlock = FALSE
  IntMax = 8
  Torn = Torn
  MaxFaults = 0
  MaxExec = 0
  MaxGeneration = 0
INVARIANTS
  PopulationBounded
  BestSurvive
  CrashBudget
