SPECIFICATION Spec
CONSTANTS
  Recorders = {p1}
  Scopes = {s1, s2}
  Commands = {build}
  ActCounts = {1}
  AllCached = {FALSE, TRUE}
  ExitCodes = {0}
  Keep = 2
  KeepGlobal = 3
  MaxId = 5
  None = None
INVARIANT AdvertisedBuildsExist
CHECK_DEADLOCK FALSE
