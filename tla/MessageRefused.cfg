CONSTANTS
  NameLength = 2
  ChunkLength = 12
  Origin <- MCOrigin
  Destination <- MCDestination
  Payload <- MCPayload
  Id = {0, 258}
  Stale = 35
  Fragile = {}
  Foreign <- MCForeign
SPECIFICATION Spec
INVARIANTS
  WholeMessageAccepted
CHECK_DEADLOCK FALSE
