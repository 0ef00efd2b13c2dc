SPECIFICATION PacketSpec
CONSTANTS
  SentCap = 3
  ReasmCap = 2
  MaxData = 2
  Payloads <- MixedPayloads
  Lens = {1}
  MaxCalls = 3
  MaxPeerPn = 0
  MaxGot = 2
  Window = 2
  RangeCap = 3
  Spaces = {0, 2}
  PacketThreshold = 2
  LossDelay = 1
  MaxSent <- OneAndFour
  MaxTime = 1
  TableCap = 4
  PktThreshold = 2
  MaxDatagram = 2
  InitPackets = 3
  Infinite = 100
  InitialRtt = 1
  Granularity = 1
  BackoffMax = 1
  RtxSlots = 3
  RtxFrame = 2
  Data = {1, 2, 3}
  SenderTime = 2
  AckDelays = {1}
  MaxAckDelay = 0
  MaxPto = 1
  MaxReported = 2
INVARIANTS NumbersUnique LevelsEarned UnackedTrackedAtOneLevel
  AcksHonest Accounted
  BytesInFlightExact NothingForgotten WindowCutOnce SmoothedWithinSamples
