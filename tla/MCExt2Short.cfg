SPECIFICATION ESpec
CONSTANTS
  Names = {na, nb}
  Units <- MCUnits
  NInodes = 3
  NBlocks = 6
  BlockUnits = 3
  SectorUnits = 2
  NDirect = 1
  PtrsPerBlock = 2
  SizeMod = 32
  WriteSizes = {1, 3, 4}
  TruncSizes = {0}
  MaxLinks = 4
  MaxBoots = 0
CONSTRAINT Unmarked
VIEW Relevant
SYMMETRY MCNames
INVARIANT AppendComplete
