SPECIFICATION DiffSpec
CONSTANTS
  Recorders = {p1}
  Scopes = {s1, s2}
  Commands = {build, test}
  ActCounts = {1}
  AllCached = {FALSE}
  ExitCodes = {0}
  Keep = 2
  KeepGlobal = 3
  MaxId = 4
  AskedIds = {1, 3}
  None = None
SYMMETRY AnyName
INVARIANTS DiffTypeOK ComparesWholeBuilds ComparesNeighbours MissesOnlySuperseded
CHECK_DEADLOCK FALSE
