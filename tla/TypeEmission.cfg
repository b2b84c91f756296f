SPECIFICATION Spec
CONSTANTS
  Graphs <- MCGraphs
  RecursionLimit = 12
INVARIANTS
  DeclaredBeforeUse
  CompleteBeforeUse
  OnlyEarlyConstPointers
  CyclesBroken
  IncompleteOnlyOpaque
PROPERTIES
  NothingToDiscover
  StatusNeverFalls
