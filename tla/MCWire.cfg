SPECIFICATION CodecSpec
CONSTANTS
  VarintMax = 2147483646
  AckMaxRanges = 4
  MinInitialDatagram = 100
  AesBlock <- MCAesBlock
  GhashMul <- MCGhashMul
  ChaChaBlock <- MCChaChaBlock
  Poly1305 <- MCPoly1305
  FrameCases <- MCFrames
  PayloadCases <- MCPayloads
  HeaderCases <- MCHeaders
  DatagramCases <- MCDatagrams
  NumberCases <- MCNumbers
  PacketCases <- MCPackets
  RawCases <- MCRaw
  CertChainMax = 2
  HelloCases <- MCHellos
  AnswerCases <- MCAnswers
  ExtCases <- MCExts
  ParamCases <- MCParams
  ChainCases <- MCChains
  Digest <- MCDigest
  EcSig <- MCEcSig
  RsaSig <- MCRsaSig
  EdSig <- MCEdSig
  RsaMinN = 16
  DerCases <- MCDer
  CertCases <- MCCerts
  SelfCases <- MCSelves
  PathCases <- MCPaths
  HostCases <- MCHosts
  RequestAlgCases <- MCRequestAlgs
  Octets <- MCOctets
  QpackCases <- MCQpack
  HuffmanCases <- MCHuffman
  H3Cases <- MCH3
  RequestCases <- MCRequests
  ResponseCases <- MCResponses
  OrderCases <- MCOrders
  ControlCases <- MCControls
  FieldCases <- MCFields
  TunnelCases <- MCTunnels
  Fields <- SmallFields
  RingSlots = 3
  MaxName = 20
  MaxValue = 100
  Capacity = 150
  MaxInserts = 11
  MaxSections = 2
INVARIANT TablesAgree
PROPERTIES PacketsReadBack TlsReadBack CertsTrusted HttpAgrees
