SPECIFICATION Spec
CONSTANTS
  Stages = {"development"}
  Catalog = {TRUE}
  Outcomes <- TheOutcomes
  Cuts <- TheCuts
  MaxBlocks = 3
INVARIANT AnalysisIsOfAResult
CHECK_DEADLOCK FALSE
