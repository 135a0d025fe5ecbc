SPECIFICATION FairSpec
CONSTANTS
  MaxOff = 3
  MaxRecv = 3
  MaxFrames = 9
  MaxCtl = 6
  MaxQueued = 4
  MaxConn = 9
  MaxConnWindow = 9
  ConnWindow = 2
  MaxLoss = 1
  Window = 2
  MaxWindow = 2
  InitMaxData = 2
  MayReset = FALSE
  MayStop = FALSE
  None = None
  NoOff = None
  IsBidi = FALSE
  RecvBidi = FALSE
PROPERTY
  ConnWriterGetsCredit
CHECK_DEADLOCK FALSE
