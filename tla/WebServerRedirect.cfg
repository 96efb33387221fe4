SPECIFICATION Spec
CONSTANTS
  r1 = r1
  r2 = r2
  r3 = r3
  Requests <- ThreeRequests
  NoRequest = NoRequest
  MaxSessions = 2
  Busy <- FirstSession
  MaxConns = 2
INVARIANTS
  SessionNotNil
CHECK_DEADLOCK FALSE
