SPECIFICATION Spec
CONSTANTS
  Attempts = {a1, a2}
  Readers = {r1}
  Sets = {s1, s2}
  TASKS_PER_STAGE = 2
  MaxRunning = 2
  Stubborn <- StubbornPaths
  NoSet = NoSet
  NoPath = NoPath
  Unreadable = Unreadable
SYMMETRY Symmetry
CONSTRAINTS ReadersUntilOverlap SmallOverlappingScrubs
CHECK_DEADLOCK FALSE
INVARIANTS
  TypeOK
  
  ReceiptedSetStaysWhole
  SealedOverWholeBody
  ReadsOneSet
PROPERTIES
  WriteOnce
