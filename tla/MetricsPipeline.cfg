CONSTANTS
  p1 = p1
  Zero = Zero
  Publishers = {p1}
  Cap = 3
  ExportBatchSize = 2
  MaxEvents = 6
SPECIFICATION FairSpec
INVARIANTS NoLostWakeup FinalDrain DropsCounted
PROPERTIES ImplementsQueue EventsProcessed
CHECK_DEADLOCK FALSE
