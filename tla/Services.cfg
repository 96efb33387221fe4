SPECIFICATION ServicesSpec
CONSTANTS
  a1 = a1
  a2 = a2
  w1 = w1
  w2 = w2
  c1 = c1
  pub1 = pub1
  pub2 = pub2
  p1 = p1
  k1 = k1
  g1 = g1
  b1 = b1
  b2 = b2
  NoAddr = NoAddr
  NoPublic = NoPublic
  Addrs <- TwoAddrs
  Workers <- TwoWorkers
  MaxPackets = 5
  Clients <- OneClient
  Publics <- TwoPublics
  MaxCalls = 2
  Pages <- OnePage
  Capacity = 2
  ChanCap = 2
  MaxLines = 6
  Keys <- OneKey
  Callers <- OneCaller
  Browsers <- TwoBrowsers
  H3Browsers <- FirstBrowser
  Compressed = {}
  EventBuffer = 1
  MaxEvents = 3
  RingSize = 2
  MaxScrapes = 5
  MaxBytes = 3
INVARIANTS
  ServicesTypeOK
  NothingLost
  AnswerOfThisCall
  HistoryIsNewest
  NoGapNoRepeat
  ChannelClosedOnce
  EventsInOrder
  GraphFitsWindow
PROPERTIES
  ServersStop
  BindReturns
  DisconnectedEnds
  ShutdownEnds
CHECK_DEADLOCK FALSE
