SPECIFICATION MCSpec
CONSTANTS
  Parts = {"credit", "ids", "congestion"}
  Streams = {s1, s2}
  MaxOff = 2
  MaxConn = 2
  MaxWrite = 2
  InitMaxData = 1
  InitConnMax = 1
  None = None
  Role = 1
  Types = {0, 1}
  MaxSeq = 2
  InitLimit <- MCInitLimit
  NoId = NoId
  Mds = 10
  MinCwnd = 20
  InitialCwnd = 40
  InitialRtt = 30
  Infinite = 100000000
  BtlBwFilterLen = 4
  FullBwCountThreshold = 2
  RtpropFilterLen = 150
  ProbeRttDuration = 20
  FullLossCount = 1
  ExtraAckedFilterLen = 3
  MinRttFilterLen = 300
  ProbeRttInterval = 150
  NRttSample = 3
  CssRounds = 2
  SlowStartDelta = 50
  SteadyDelta = 4
  UseStandingRtt = TRUE
  MinBurst = 3
  CcModes <- MCModes
  CcPackets = 36
  CcFaults = 1
  LinkRtt = 20
  LinkDelay = 15
  IdleTimes <- MCIdle
  Waits <- MCWaits
SYMMETRY StreamSymmetry
INVARIANTS
  CreditConserved WriterIsListed CreditOnce PeerConcurrencyBounded BwIsMeasured
PROPERTY OneCutPerFlight
