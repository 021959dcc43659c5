CONSTANTS
  m1 = m1
  Dev = {1}
  Msg <- MCMsg
  NoMessage = NoMessage
  NoDevice = NoDevice
  Length <- MCLength
  Capacity <- MCCapacity
  ChunkLength = 3
  MaxHopAttempts = 0
  HeaderLength = 2
  ExpectedLength = 5
  Byte <- MCByte
  NoByte = NoByte
  MaxChunks = 2
  Counts <- MCCounts
SPECIFICATION FairSpec
INVARIANT TypeOK
PROPERTIES SendingRefined SendingCompletes ReceiverFreed
