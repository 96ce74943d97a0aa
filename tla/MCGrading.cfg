SPECIFICATION Spec
CONSTANTS
  Stages = {"development", "holdout", "freeze", "canary"}
  Catalog = {TRUE, FALSE}
  Outcomes <- TheOutcomes
  Cuts <- TheCuts
  MaxBlocks = 3
INVARIANTS
  TypeOK
  VerdictIsEarned
  MeritedStageContinues
CHECK_DEADLOCK FALSE
