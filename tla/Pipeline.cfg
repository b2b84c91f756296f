SPECIFICATION Spec
CONSTANTS
  Binaries = {"a", "b", "asan", "m", "lib"}
  Units = {"u", "v", "w"}
  Types = {"S", "T", "P"}
  Under <- MCUnder
  Runnable = {"f", "g", "h", "do_nothing"}
  Worlds <- MCWorlds
  CommandLines <- MCCommandLines
  MaxFaults = 1
INVARIANTS
  NoClash
  Resolves
  OwnLibraries
  FailsAlone
  AllBuilt
  RebuildSame
