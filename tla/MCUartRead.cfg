CONSTANTS
  Fifo = 2
  Almost = 1
  Byte <- Six
  ByteCount = 6
  BufLen = 3
  IntMax = 5
  Timeout = 2
  HasTimer = FALSE
  HostTalks = TRUE
  Calls = {"read"}
  Counts = {0, 1, 4}
  TimeoutArgs = {0, 3}
SPECIFICATION ReadingSpec
INVARIANTS
  ReceiverAwake
  UserBytesDue
PROPERTIES
  RxPipe
  BytesArrive
