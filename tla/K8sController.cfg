SPECIFICATION Spec
CONSTANTS
  None = None
  Failed = Failed
  Retry = Retry
  KnownKinds <- MCKinds
  Versions <- MCVersions
  Settings <- MCSettings
  MaxDeletes = 1
  MaxRelists = 1
  MaxFaults = 1
INVARIANTS
  ContainmentJoinsResources
PROPERTIES
  EventuallyIndexed
  StopsWhenCancelled
