SPECIFICATION FairSpec
CONSTANTS
  p1 = p1  p2 = p2  n1 = n1  n2 = n2
  Procs <- OneProc
  UUIDS_PER_TICK = 1
  RESOLUTION = 2
  SAVE_PERIOD = 3
  SEQ_WORD = 4
  SEQ_FIELD = 2
  NodeIds = {n1, n2}
  ZeroNode = ZeroNode  NoFile = NoFile  Torn = Torn
  MaxClock = 8
  MaxUuids = 4
  MaxRuns = 2
  MaxSetBacks = 1
CHECK_DEADLOCK FALSE
INVARIANTS TypeOK UniqueUuids SeqFollowsClock LossWindow
PROPERTIES NodeFileStable CallReturns
