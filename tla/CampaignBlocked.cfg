SPECIFICATION Spec
CONSTANTS
  ParallelCount = 2
  ForkCount = 1
  GenerationCount = 1
  MaxStateCount = 1
  CrashLimits <- MCCrashLimits
  Scores = {0, 1}
  Debug = FALSE
  SameFilesystem = TRUE
  TargetMayBlock = TRUE
  IntMax = 2
  Torn = Torn
  MaxFaults = 0
  MaxExec = 0
  MaxGeneration = 0
CHECK_DEADLOCK FALSE
PROPERTIES
  CampaignEnds
