CONSTANTS
  None = None
  Bad = Bad
  Failed = Failed
  MinInterval = 2
  MaxInterval = 3
  Word = 65536
  TopProcesses = 1
  CleanupSize = 2
  Files <- MCFiles
  Config <- MCConfig
  Capabilities <- MCCapabilities
  ChanCap = 1
  Kmsg = 2
  Steps = {1, 3}
  MaxGrowth = 3
  MaxFaults = 2
SPECIFICATION Spec
INVARIANTS
  NeverOvercounts
  NoGrowthLost
PROPERTIES
  SampledWhenReadable
  StopsWhenCancelled
CHECK_DEADLOCK FALSE
