CONSTANTS
  NameLength = 2
  ChunkLength = 12
  Origin <- MCOrigin
  Destination <- MCDestination
  Payload <- MCPayload
  Id = {0, 258}
  Stale = 35
  Fragile = {2, 3, 5, 8, 14}
  Foreign <- MCForeign
SPECIFICATION Spec
INVARIANTS
  FieldsWhole
  HeaderRead
  ChecksumsAreDivision
  ErrorsFound
CHECK_DEADLOCK FALSE
