SPECIFICATION ESpec
CONSTANTS
  Names = {na, nb, nc}
  Units <- MCUnits
  NInodes = 4
  NBlocks = 4
  BlockUnits = 3
  SectorUnits = 2
  NDirect = 1
  PtrsPerBlock = 2
  SizeMod = 32
  WriteSizes = {3}
  TruncSizes = {0}
  MaxLinks = 4
  MaxBoots = 0
CONSTRAINT Unmarked
VIEW Relevant
SYMMETRY MCNames
INVARIANT OthersStay
