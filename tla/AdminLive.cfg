SPECIFICATION AdminFairSpec
CONSTANTS
  k1 = k1
  g1 = g1
  b1 = b1
  Keys <- OneKey
  Callers <- OneCaller
  Browsers <- OneBrowser
  H3Browsers = {}
  Compressed <- OneBrowser
  EventBuffer = 1
  MaxEvents = 2
PROPERTIES
  EventsLive
CHECK_DEADLOCK FALSE
