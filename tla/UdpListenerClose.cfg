SPECIFICATION FairSpec
CONSTANTS
  a1 = a1
  a2 = a2
  Addrs <- TwoAddrs
  ConnBacklog = 1
  ReadBufferSize = 2
  MaxConns = 2
PROPERTIES
  CloseReturns
CHECK_DEADLOCK FALSE
