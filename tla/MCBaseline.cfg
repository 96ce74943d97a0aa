SPECIFICATION Spec
CONSTANTS
  Commands = {"mvl-baseline", "qualified-baseline"}
  Matrix <- TheMatrix
  Repetitions = 2
  WarmupPasses = 1
  Tasks = 2
  CanaryTasks = 2
  MaxTurns = 2
  TTL = 6
  TaskTimeout = 2
  Sessions <- TheSessions
  Freezes <- TheFreezes
  FreezeTasks = 4
  MaxTime = 9
INVARIANTS TypeOK RequestsInSession MatrixFitsSession
CHECK_DEADLOCK FALSE
