SPECIFICATION Spec
CONSTANTS
  Workers = {w1, w2}
  N = 2
  Repetitions = 2
  MaxRuns = 1
  MaxTime = 5
CHECK_DEADLOCK FALSE
INVARIANTS
  BrokenTelemetryFails
