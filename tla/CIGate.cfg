SPECIFICATION Spec
CONSTANTS
  MaxWorkflows = 3
  Names = {"build"}
  Works = {0, 8, 20, 30, 45}
  LimitPct = 50
  KeepRuns = 2
INVARIANTS GateTypeOK NoRegressionIsSaved CatchesRegressions
\* The workflow runs end.
CHECK_DEADLOCK FALSE
