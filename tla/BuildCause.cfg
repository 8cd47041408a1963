SPECIFICATION Spec
CONSTANTS
  Message = Message
  p = p
  prog = prog
  Names = {p, prog}
  MaxInstances = 2
  MaxInputs = 2
  Retained = {1, 2}
  MaxMessages = 1
  PipeSize = 4
  Deps <- MCDeps
  Imports <- MCImports
  Tried <- MCTried
INVARIANTS LogTypeOK OnlyRemovesItsOwn BlocksAreTrue RootsAreHonest RootsAreTight
\* A build ends.
CHECK_DEADLOCK FALSE
