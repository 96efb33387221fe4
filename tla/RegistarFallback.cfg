SPECIFICATION Spec
CONSTANTS
  h1 = h1
  h2 = h2
  p1 = p1
  p2 = p2
  k1 = k1
  NoOne = NoOne
  Keys <- OneKey
  Hosters <- TwoHosters
  Joiners <- OneJoiner
  KeyOf <- Takeover
SYMMETRY HosterSymmetry
INVARIANTS
  OneConnPerSession
CHECK_DEADLOCK FALSE
