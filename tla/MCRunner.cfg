SPECIFICATION Spec
CONSTANTS
  SentCap = 2
  Level = 0
  Cwnd = 2
  SendLen = 1
  QCap = 1
  PtoPeriod = 1
  ReasmCap = 1
  MaxData = 1
  Pto = 1
  Cids = {0, 1, 2}
  Versions = {1}
  MetaCap = 2
  Datagrams <- MixedDatagrams
  Thresholds = {0, 1}
  MaxCalls = 3
  MaxTime = 3
  MaxGen = 2
INVARIANTS RingTracksSent
PROPERTIES RetryOnce RetainedThreePto
