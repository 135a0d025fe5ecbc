SPECIFICATION MCSpec
CONSTANTS
  Parts = {"conn", "recovery"}
  CnModes <- MCCnModes
  CnThreshold = 2
  CnCapacity = 1
  CnDgramCap = 2
  CnMaxProbes = 2
  CnMaxPkts = 99
  DataFrames <- MCDataFrames
  PktThresh = 2
  MaxProbes = 2
  MaxNonEliciting = 1
  PtoLinear = 0
  MaxPto = 8
  MaxAckDelay = 1
  AckDelays = {1}
  InitRtt = 1
  Cwnd = 2
  MaxPkts <- MCMaxPkts
  MaxNow <- MCMaxNow
  MaxLoss = 2
INVARIANTS AckIsDue ConfirmedIsMutual NothingForgotten InFlightNotOvercounted
PROPERTIES ConnectionSettles Delivered
CHECK_DEADLOCK FALSE
