SPECIFICATION TlsSpec
CONSTANTS
  TranscriptMax = 8
  ServerTranscriptMax = 8
  Size <- MCSize
  Pairs <- MCPairs
  Certs <- MCCerts
  Policies <- MCPolicies
  SentCap = 6
  ReasmCap = 7
  MaxData = 1
  MaxFeeds = 6
  MayAlter = TRUE
INVARIANTS DriversAgree ClientAuthenticates KeysAgree ServerCompleteMeansClientVerified
PROPERTIES HandshakeConfirmed HandshakeCompletes
CHECK_DEADLOCK FALSE
