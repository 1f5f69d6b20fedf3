SPECIFICATION ImageSpec
CONSTANTS
  Size = 3
  MaxLen = 9
  MaxRecorded = 12
  PlayBufSize = 9
  Piece = 2
  FileSizes <- MCFileSizes
  Limit = 2
  SendSize = 2
  Rounds = 2
  MaxData = 4
  skt1 = skt1
  skt2 = skt2
  skt3 = skt3
  SktThreads <- ThreeThreads
  Descriptors <- FourDescriptors
  MaxOpens = 3
  Room = 2
  MaxWrites = 3
  MaxChanges = 2
  ByteSize = 16
  Ip4Numbers <- MCIp4Numbers
  BlockValues <- MCBlockValues
INVARIANT EmptyBlockForRuns
CHECK_DEADLOCK FALSE
