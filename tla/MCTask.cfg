SPECIFICATION LiveSpec
CONSTANTS
  Contracts <- MCContracts
  MaxTurns = 4
  WarningAt = 1
  Deadline = 2
  ReadTimeout = 2
  QueueWaits = {0, 2}
  Lookups <- MCLookups
  Recommendations <- MCRecommendations
  Candidates = {"d1", "d2"}
  Pattern <- MCPattern
  Malformed = Malformed
  NoRefs = NoRefs
  NoCall = NoCall
INVARIANTS TypeOK CompletedIsGrounded CountsMatchTrace OneCallPerTurn ExhaustedWasWarned DeadlineHolds
PROPERTIES ProgressIsOrderly TaskEnds
CHECK_DEADLOCK FALSE
