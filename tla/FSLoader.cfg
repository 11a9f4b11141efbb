CONSTANTS
  a = a
  b = b
  f1 = f1
  f2 = f2
  w1 = w1
  w2 = w2
  None = None
  Garbage = Garbage
  Absent = Absent
  Keys = {a, b}
  Files = {f1, f2}
  Contents <- MCContents
  Watchers = {w2}
  Filter <- MCFilter
  TypeOf <- MCTypeOf
  ChanCap = 1
  MaxOps = 2
SPECIFICATION FairSpec
INVARIANTS CacheFollowsDisk AtLeastOnce
PROPERTY CloseReturns
CHECK_DEADLOCK FALSE
