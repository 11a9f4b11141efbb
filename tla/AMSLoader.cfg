CONSTANTS
  a = a
  b = b
  w1 = w1
  w2 = w2
  None = None
  BadVersion = BadVersion
  Keys = {a, b}
  Objects <- MCObjects
  MaxClock = 2
  Watchers = {w1}
  Filter <- MCFilter
  TypeOf <- MCTypeOf
  Responses <- MCResponses
  ChanCap = 1
  MaxResponses = 2
SPECIFICATION FairSpec
INVARIANTS HeapSound AckedIsCached AtLeastOnce
PROPERTIES CacheImproves CloseReturns
CHECK_DEADLOCK FALSE
