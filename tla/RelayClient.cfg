SPECIFICATION SidesSpec
CONSTANTS
  s1 = s1
  s2 = s2
  Setups <- TwoSetups
  Ends <- ThreeEnds
  NoEnd = NoEnd
  MaxJoins = 2
  MaxCommands = 2
INVARIANTS
  TypeOK
  WaiterFindable
  CallTells
PROPERTIES
  ImplementsMeeting
  Rendezvous
  Forgotten
  RelayEnds
  CloseReturns
  CallsReturn
CHECK_DEADLOCK FALSE
