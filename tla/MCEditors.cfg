SPECIFICATION EdSpec
CONSTANTS
  MaxLines = 3
  MaxCol = 4
  YankMax = 8
  ReadSize = 4
  Budget = 3
  Paths = {f, g}
  Absent = Absent
  Char <- MCChar
  Typed <- MCTyped
  ViTyped <- MCTyped
  Stale <- MCStale
  Patterns <- MCPatterns
  Reps <- MCReps
  Starts <- MCStarts
INVARIANTS
  BufferSound
  UndoRestores
  Reversible
  RoundTrip
PROPERTIES
  LeaveSaved
