\* Two processes, two scopes, faults, fair scheduling.
SPECIFICATION FairSpec
CONSTANTS
  Recorders = {p1, p2}
  Scopes = {s1, s2}
  Commands = {build}
  ActCounts = {0, 1}
  AllCached = {FALSE}
  ExitCodes = {0}
  Keep = 1
  KeepGlobal = 2
  MaxId = 3
  None = None
INVARIANTS TypeOK RunsAreWhole PrevIsNeighbour HistoryBounded
PROPERTIES KeepsHistory RecordingEnds
CHECK_DEADLOCK FALSE
