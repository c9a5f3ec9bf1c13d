SPECIFICATION TFairSpec
CONSTANTS
  BufSize = 2
  RespSize = 3
  Req = 2
  Total = 4
  Mss = 2
  Ports <- MCPorts
  Old <- MCOld
  MaxConn = 1
  MaxAmiss = 1
  MaxNest = 2
INVARIANTS TTypeOK StreamIntact EndHonest NoDangling
PROPERTY CallsReturn
