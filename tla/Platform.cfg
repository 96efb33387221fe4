SPECIFICATION PlatformSpec
CONSTANTS
  a1 = a1
  a2 = a2
  ip1 = ip1
  ip2 = ip2
  r1 = r1
  r2 = r2
  Addrs <- TwoAddrs
  ConnBacklog = 1
  ReadBufferSize = 2
  MaxConns = 3
  Items = {1, 2}
  Zero = 0
  MaxItems = 7
  IPs <- TwoIPs
  Requests <- TwoRequests
  Every = 2
  Burst = 2
  MaxStall = 1
  MaxDebt = 0
SYMMETRY PlatformSymmetry
INVARIANTS
  PlatformTypeOK
  TableSound
  SocketOutlivesConns
  ListInAccessOrder
  BudgetKept
PROPERTIES
  ImplementsFifo
CHECK_DEADLOCK FALSE
