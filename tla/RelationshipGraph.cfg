CONSTANTS
  r1 = r1
  r2 = r2
  r3 = r3
  p1 = p1
  p2 = p2
  None = None
  Refs <- MCRefs
  Preds <- MCPreds
  HashOrder <- MCHashOrder
  Batches <- MCBatches
  Times = {1}
  MaxCopies = 2
SPECIFICATION Spec
INVARIANTS LiveIffIndexedAtBothEnds PredicateIndexComplete QueriesSound
PROPERTY CascadeDelete
