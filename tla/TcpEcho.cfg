SPECIFICATION FairSpec
CONSTANTS
  c1 = c1  c2 = c2  c3 = c3
  Clients <- ThreeClients
  Listener = Listener  Free = Free
  MAX_SOCKET_NUM = 6
  BUFFER = 2
  ROOM = 1
  MaxBytes <- Load
  MaxSignals = 1
CHECK_DEADLOCK FALSE
INVARIANTS TypeOK TableMatchesKernel NeverBlocks
PROPERTIES ImplementsEcho EveryByteReturns SignalEndsSelect
