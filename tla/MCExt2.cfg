SPECIFICATION ESpec
CONSTANTS
  Names = {na, nb}
  Units <- MCUnits
  NInodes = 3
  NBlocks = 4
  BlockUnits = 3
  SectorUnits = 2
  NDirect = 1
  PtrsPerBlock = 2
  SizeMod = 32
  WriteSizes = {1, 3}
  TruncSizes = {0, 4}
  MaxLinks = 4
  MaxBoots = 2
CONSTRAINT Unmarked
VIEW Relevant
SYMMETRY MCNames
INVARIANTS ETypeOK BlocksOwned NamesSound CountsExact DirIsMap
