SPECIFICATION Spec
CONSTANTS
  p1 = p1  p2 = p2  n1 = n1  n2 = n2
  Procs <- OneProc
  UUIDS_PER_TICK = 1
  RESOLUTION = 2
  SAVE_PERIOD = 4
  SEQ_WORD = 2
  SEQ_FIELD = 2
  NodeIds = {n1}
  ZeroNode = ZeroNode  NoFile = NoFile  Torn = Torn
  MaxClock = 6
  MaxUuids = 2
  MaxRuns = 2
  MaxSetBacks = 0
CHECK_DEADLOCK FALSE
INVARIANTS NodeIsRandom
