SPECIFICATION ArgvSpec
CONSTANTS
  Tokens = {"-C=dir", "build", "pkg", "-v"}
  MaxArgs = 4
INVARIANT NeverRejected
\* The command line stops growing at MaxArgs.
CHECK_DEADLOCK FALSE
