SPECIFICATION TransportSpec
CONSTANTS
  ReasmCap = 2
  MaxStreamsLimit = 8
  NumStreams = 2
  StreamLen = 2
  Chunk = 2
  ConnWindow = 2
  StreamWindow = 1
  InitStreams = 1
  ReadCap = 2
  Resets = {2}
  Resends = {6}
  LocalIdle = 2
  PeerIdle = 0
  PtoTicks = 1
  MaxData = 1
  CidLimit = 2
  ChallengeSize = 2
  MaxReceived = 2
  MaxChallenges = 3
  MaxCids = 4
  PathLimits = {1200, 1263, 1264, 1350, 1451, 1452, 1500}
  MaxSpurious = 1
INVARIANTS NoFalseError StreamsDelivered ClosingExact PathsProved
PROPERTIES StreamsNeverGoBack EveryStreamEnds BothEndsFinish PmtuSearchEnds
CHECK_DEADLOCK FALSE
