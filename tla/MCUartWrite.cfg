CONSTANTS
  Fifo = 2
  Almost = 1
  Byte <- Six
  ByteCount = 6
  BufLen = 3
  IntMax = 5
  Timeout = 2
  HasTimer = TRUE
  HostTalks = FALSE
  Calls = {"write", "read", "close"}
  Counts = {0, 1, 4}
  TimeoutArgs = {3}
SPECIFICATION AloneSpec
INVARIANTS
  TransmitterAwake
  RoomForWhatIsGiven
PROPERTIES
  TxPipe
  CallsReturn
