SPECIFICATION FairSpec
CONSTANTS
  MaxOff = 1
  MaxRecv = 1
  MaxFrames = 6
  MaxCtl = 6
  MaxQueued = 4
  MaxConn = 9
  MaxConnWindow = 9
  ConnWindow = 9
  MaxLoss = 1
  Window = 1
  MaxWindow = 1
  InitMaxData = 1
  MayReset = FALSE
  MayStop = FALSE
  None = None
  NoOff = None
  IsBidi = FALSE
  RecvBidi = FALSE
PROPERTY
  FinIsReceived
CHECK_DEADLOCK FALSE
