SPECIFICATION Spec
CONSTANTS
  N = 4
  Graphs <- MCGraphs
  q = q
  p = p
  ptest = ptest
  plink = plink
  Variants = {q, p, ptest, plink}
  Package <- MCPackage
  Mode <- MCMode
  Deps <- MCDeps
  Tasks = {1, 2, 3, 4}
  Waits <- MCWaits
  KindOf <- MCKindOf
  Cores = 2
  MaxTime = 5
INVARIANTS AnalysisTypeOK PathIsAChain FindsHeaviest BlastIsReach ListsAreTrue NothingIsMissed CandidateRootIsEdited SpanIsBound FullyCachedRanNothing
PROPERTY AnalysisEnds
\* An analysis ends, and so does a build.
CHECK_DEADLOCK FALSE
