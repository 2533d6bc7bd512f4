SPECIFICATION ToolsSpec
CONSTANTS
  HEX_BYTE = 8
  SEGMENT = 4
  BLOCK = 2
  HexFiles <- HexFileSet
  Listings <- ListingSet
  MAX_INTERFACES = 2
  CaptureFiles <- CaptureSet
  B64Files <- PlainFiles
  LineSizes = {6, 8}
  NoiseChars <- NoiseSet
  MaxNoise = 2
  BinJobs <- JobSet
  BinBytes = {1, 9}
  TEXT_MAX = 3
  LAST_BYTES = 3
  MAX_DISPLAY_ITEMS = 2
  MEGA = 2
  SIZE_WORD = 8
  QrJobs <- QrJobSet
  DrawnVersions = {1, 2, 5, 7, 10}
  SumJobs <- SumJobSet
  LINE_SIZE = 6
  HEADER_MAX = 12
  PACKET_MAX = 19
  NS_IN6ADDRSZ = 6
  DhcpJobs <- DhcpJobSet
  OPTIONS_LEN = 40
  FILE_LEN = 4
  SNAME_LEN = 3
  IcmpJobs <- IcmpJobSet
  IcmpPeers <- IcmpPeerSet
  IpHeaders = {5, 6}
  IcmpId <- IcmpBytes
  PacketJobs <- PacketJobSet
  READ_MAX = 5
  TOKEN_SIZE = 4
  LONG_DIGITS = 3
  BUF_SIZE = 3
  CertJobs <- CertJobSet
  OldFiles <- OldFileSet
  DigestJobs <- DigestJobSet
  MAX_FILE_SIZE = 5
  G_BUF = 16
  MD5_BLOCK = 8
  WORD_BITS = 8
  NameJobs <- NameJobSet
CHECK_DEADLOCK FALSE
INVARIANTS ToolsTypeOK ConvertersAreTrue ToolsAreExact SymbolIsRead SumsVerify MessagesAreTrue TextsAreTrue  DigestsAreTrue
