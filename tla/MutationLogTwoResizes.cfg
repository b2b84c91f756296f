SPECIFICATION Spec
CONSTANTS
  Argument <- MCArgument
  Values <- MCValues
  Garbage <- MCGarbage
  Generations = 2
INVARIANTS
  ReplayAlwaysExact
