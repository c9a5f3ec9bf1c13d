SPECIFICATION IFairSpec
CONSTANTS
  MaxKeys = 4
  MaxCrowd = 2
  Typed <- MCTyped
  Size = 3
  HistLen = 1
  HistMax = 3
INVARIANTS UsedOnce NoneLost LineSound
PROPERTY KeyTakesEffect
