SPECIFICATION FairSpec
CONSTANTS
  a = a
  b = b
  private = private
  c1 = c1
  c2 = c2
  c3 = c3
  NoConn = NoConn
  Peers <- TwoPeers
  IDOf <- SmallAndLarge
  Dialers <- OnePath
  Slots <- ThreeSlots
INVARIANTS
  TypeOK
  ConnectResult
PROPERTIES
  PeersConnect
CHECK_DEADLOCK FALSE
