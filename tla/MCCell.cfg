SPECIFICATION LiveSpec
CONSTANTS
  Workers = {w1, w2}
  N = 2
  Repetitions = 2
  MaxRuns = 2
  MaxTime = 2
CHECK_DEADLOCK FALSE
INVARIANTS
  EachTaskOnce
  ResultIsBacked
  ResultCountsEveryTask
PROPERTIES
  PublishedInOrder
  RunEnds
