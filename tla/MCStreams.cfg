SPECIFICATION MCSpec
CONSTANTS
  Parts = {"send", "recv", "recv_chunks", "send_chunks"}
  MaxOff = 3
  MaxFrames = 2
  MaxQueued = 2
  InitMaxData = 2
  IsBidi = TRUE
  None = None
  MaxRecv = 4
  MaxConn = 5
  ConnWindow = 3
  MaxConnWindow = 6
  Window = 2
  MaxWindow = 4
  RecvBidi = TRUE
  NoOff = None
  RcMaxOff = 6
  RcWindow = 5
  RcMaxWindow = 6
  ScMaxOff = 4
  ScInitMaxData = 3
  ChunkSize = 2
INVARIANTS
  NoLostByte ReadyIsQueued BufferSound ReadyIsListed CreditIsDue
PROPERTIES
  ImplementsRecvBuf ImplementsSendBuf
CHECK_DEADLOCK FALSE
