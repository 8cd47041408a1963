SPECIFICATION WrapSpec
CONSTANTS
  ExitCodes = {0, 1}
  Signals = {2, 9}
  MaxWrites = 2
  MaxInterrupts = 2
  Tokens = {"-C", "-C=dir", "-C=/abs", "dir", "build", "test", "run", "env", "-v", "pkg", "-debug-actiongraph=user", "-debug-actiongraph", "-args", "--"}
  MaxArgs = 5
INVARIANTS SessionTypeOK ExitIsChilds NoStaleReport OutputBeforeReport GraphIsWritten ScopeIsWhereGoRuns HonorsUsersGraph
PROPERTIES ExitsAfterChild InterruptIsForwarded
\* Longpole has exited and its descendants have ended; the command line stops
\* growing at MaxArgs.
CHECK_DEADLOCK FALSE
