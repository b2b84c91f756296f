SPECIFICATION Spec
CONSTANTS
  ParallelCount = 2
  ForkCount = 2
  GenerationCount = 2
  MaxStateCount = 1
  CrashLimits <- MCCrashLimits
  Scores = {0, 1}
  Debug = FALSE
  SameFilesystem = TRUE
  TargetMayBlock = FALSE
  IntMax = 8
  Torn = Torn
  MaxFaults = 0
  MaxExec = 0
  MaxGeneration = 0
INVARIANTS
  TypeOK
  OwnDirectory
  ParentsResolve
PROPERTIES
  CampaignEnds
  ImplementsCorpus
