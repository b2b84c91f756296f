CONSTANTS
  Shapes <- MCShapes
  MaxDepth = 3
  MaxMembers = 3
  CounterSize = 16
SPECIFICATION Spec
INVARIANTS
  EveryMember
  ReachesMember
  DeclaredOnce
  OnlyUnnamedStructsRaise
  OneMember
  CountingKeeps
  ChangesLogged
  ForcesWhatWasCounted
