CONSTANTS
  a = a
  v1 = v1
  v2 = v2
  None = None
  Names = {a}
  Versions = {v1, v2}
  Chans = {1, 2}
  InCap = 1
  MaxStarts = 2
  MaxItems = 2
SPECIFICATION FairSpec
INVARIANT NoStrayCollector
PROPERTIES CancelledEnd SamplesPublished ShutsDown
CHECK_DEADLOCK FALSE
