SPECIFICATION FairSpec
CONSTANTS
  h1 = h1
  h2 = h2
  p1 = p1
  p2 = p2
  k1 = k1
  NoOne = NoOne
  Keys <- OneKey
  Hosters <- TwoHosters
  Joiners <- OneJoiner
  KeyOf <- Takeover
INVARIANTS
  OwnEntry
PROPERTIES
  SessionCAStable
  HostForgotten
CHECK_DEADLOCK FALSE
