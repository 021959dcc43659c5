CONSTANTS
  m1 = m1
  m2 = m2
  Dev = {1, 2}
  Msg <- MCMsg
  NoMessage = NoMessage
  NoDevice = NoDevice
  Length <- MCLength
  Capacity <- MCCapacity
  ChunkLength = 3
  MaxHopAttempts = 1
SPECIFICATION Spec
INVARIANTS TypeOK ChunkExact
PROPERTIES SendsInOrder
