SPECIFICATION Spec
CONSTANTS
  Argument <- MCArgument
  Values <- MCValues
  Garbage <- MCGarbage
  Generations = 3
INVARIANTS
  ReplayExact
  ReplaySurvives
  BeginOnce
PROPERTIES
  KeepsInherited
