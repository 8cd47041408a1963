SPECIFICATION Spec
CONSTANTS
  MaxWorkflows = 2
  Names = {"build", "test"}
  Works = {0, 8, 20, 30, 45}
  LimitPct = 50
  KeepRuns = 3
INVARIANT CatchesRegressions
\* The workflow runs end.
CHECK_DEADLOCK FALSE
