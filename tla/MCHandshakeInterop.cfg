SPECIFICATION TlsSpec
CONSTANTS
  TranscriptMax = 8
  ServerTranscriptMax = 8
  Size <- MCSize
  Pairs <- MCRepositoryPair
  Certs <- MCGood
  Policies <- MCPolicies
  SentCap = 6
  ReasmCap = 7
  MaxData = 1
  MaxFeeds = 1
  MayAlter = FALSE
PROPERTIES ClientDrivenToConfirmed
CHECK_DEADLOCK FALSE
