SPECIFICATION Spec
CONSTANTS
  a = a
  b = b
  Calls = {a, b}
  Turns <- MCTurns
  Indexes = {0, 1}
  NamePieces = 1
  ArgPieces = 2
  MaxChunks = 1
  BadIndex = BadIndex
  NoCall = NoCall
INVARIANTS ExecutedAsSaid CleanCallIsExecuted OutputIsTimed
CHECK_DEADLOCK FALSE
