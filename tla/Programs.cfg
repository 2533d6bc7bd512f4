SPECIFICATION ProgramsSpec
CONSTANTS
  Signals = {10, 15}
  Deadly = {15}
  SIGSTOP = 19
  ExitCodes = {0, 1}
  MaxSent = 3
  MaxInterrupts = 2
  CHUNK = 1
  ECHO_CHUNK = 2
  FORWARD = 2
  BACK = 3
  MaxTyped = 8
  MAX_BUFF_SIZE = 3
  SOCKET_PACKET_LEN = 2
  Sizes = {0, 4}
  Lines <- LineLengths
  MaxTrouble = 1
  HZ = 2
  WORD = 4096
  Intervals = {0, 1, 2}
  Loops = {0, 2}
  Blanks = {0, 1}
  Moving = {13, 17}
  MaxTicks = 2
  MaxReuse = 1
  Groups4 = {"group", "other"}
  Groups6 = {"six"}
  Sends <- SendSet
  MgroupRuns <- MgroupSet
  EXIT <- ExitWord
  MAX_MSG_SIZE = 3
  MaxUnicast = 1
CHECK_DEADLOCK FALSE
INVARIANTS ProgramsTypeOK SignalsAreKept NoStandstill DatagramsAreTrue PercentIsTrue
PROPERTIES SignalsArrive EchoesTyped EchoPrinted ProgramsEnd
