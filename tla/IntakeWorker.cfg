CONSTANTS
  None = None
  MaxBatchSize = 2
  MaxEvents = 2
  MaxBeats = 1
  MaxBreaks = 2
SPECIFICATION FairSpec
INVARIANTS NothingForgotten InOrderUntilFailure
PROPERTIES EventsSent Terminates
CHECK_DEADLOCK FALSE
