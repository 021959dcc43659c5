CONSTANTS
  m1 = m1
  m2 = m2
  Dev = {1}
  Msg <- MCLongMsg
  NoMessage = NoMessage
  NoDevice = NoDevice
  Length <- MCLongLength
  Capacity <- MCLongCapacity
  ChunkLength = 3
  MaxHopAttempts = 1
SPECIFICATION Spec
INVARIANT AllBytesSent
