SPECIFICATION FairSpec
CONSTANTS
  r1 = r1
  r2 = r2
  r3 = r3
  Requests <- TwoRequests
  NoRequest = NoRequest
  MaxSessions = 2
  Busy <- FirstSession
  MaxConns = 2
INVARIANTS
  TypeOK
  SessionOwned
PROPERTIES
  StoppedSessionEnds
CHECK_DEADLOCK FALSE
