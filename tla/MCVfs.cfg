SPECIFICATION VSpec
CONSTANTS
  Names = {na, nb}
  NInodes = 4
  NNodes = 2
  MaxOpen = 2
  MaxDepth = 3
CONSTRAINT Explored
VIEW Relevant
SYMMETRY MCNames
INVARIANTS FdKept AllNamed
PROPERTIES MoveExact RmTreeExact
