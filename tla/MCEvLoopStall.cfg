SPECIFICATION FairSpec
CONSTANTS
  SentCap = 2
  Level = 0
  Cwnd = 3
  SendLen = 1
  QCap = 2
  PtoPeriod = 0
  MaxPn = 1
  MaxRecv = 1
  MaxTime = 0
  Delays = {0}
  MaxGen = 0
PROPERTIES AckEventuallySent
