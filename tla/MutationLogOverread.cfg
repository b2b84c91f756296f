SPECIFICATION Spec
CONSTANTS
  Argument <- MCArgument
  Values <- MCValues
  Garbage <- MCGarbage
  Generations = 1
INVARIANTS
  ResizeInside
