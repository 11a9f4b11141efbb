CONSTANTS
  r1 = r1
  r2 = r2
  p1 = p1
  s1 = s1
  s2 = s2
  None = None
  Refs <- MCRefs
  Preds = {p1}
  HashOrder <- MCHashOrder
  Batches <- MCBatches
  Clients = {c1, c2}
  Subs = {s1}
  Filter <- MCFilter
  TypeOf <- MCTypeOf
  RelTypeOf <- MCRelTypeOf
  ChanCap = 1
  MaxEvents = 2
SPECIFICATION FairSpec
PROPERTIES CloseCompletes WritersReturn
CHECK_DEADLOCK FALSE
