SPECIFICATION Spec
CONSTANTS
  None = None
  Bad = Bad
  Failed = Failed
  Machine <- MCMachine
  MaxChanges = 1
  MaxFaults = 1
INVARIANTS
  HardwareEdgesJoinNodes
  NoDuplicateEdges
PROPERTIES
  EventuallyInventoried
