SPECIFICATION Spec
CONSTANTS
  N = 1
  Graphs = {}
  q = q
  p = p
  ptest = ptest
  plink = plink
  Variants = {q, p, ptest, plink}
  Package <- MCPackage
  Mode <- MCMode
  Deps <- MCDeps
  Tasks = {1, 2}
  Waits <- MCWaits
  KindOf <- MCKindOf
  Cores = 1
  MaxTime = 2
INVARIANT FullyCachedIsTrue
\* A build ends.
CHECK_DEADLOCK FALSE
