SPECIFICATION FairSpec
CONSTANTS
  SentCap = 2
  Level = 0
  Cwnd = 3
  SendLen = 1
  QCap = 1
  PtoPeriod = 0
  MaxPn = 0
  MaxRecv = 1
  MaxTime = 1
  Delays = {1}
  MaxGen = 1
INVARIANTS PtoArmedIffInFlight FreshNumbers
PROPERTIES RecoveryFirst AmpSpec AckNotStarved
