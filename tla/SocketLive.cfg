\* Streams or pipes; one slab entry is used twice.
SPECIFICATION FairSpec
CONSTANTS
  None = None
  MaxId = 2
  Width = 2
  MaxOps = 3
  MaxSpawns = 1
INVARIANTS
  TokensResolve
  EventsKnown
  NoLostEvent
PROPERTIES
  OperationsEnd
  RefusalReported
