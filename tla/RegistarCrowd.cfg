SPECIFICATION FairSpec
CONSTANTS
  h1 = h1
  h2 = h2
  p1 = p1
  p2 = p2
  k1 = k1
  NoOne = NoOne
  Keys <- OneKey
  Hosters <- OneHoster
  Joiners <- TwoJoiners
  KeyOf <- Crowd
INVARIANTS
  TypeOK
  AnswersBelongToHolder
  CountedBothDelivered
PROPERTIES
  JoinTerminates
CHECK_DEADLOCK FALSE
