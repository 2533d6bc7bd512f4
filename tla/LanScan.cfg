SPECIFICATION TrafficSpec
CONSTANTS
  Prefix <- LanPrefix
  Target = 0
  First = 1
  Last = 2
  Senders <- Mixed
  MACs = {m1, m2, m3}
  MAC_SLOTS = 2
  MaxFrames = 3
  MaxQueue = 1
CHECK_DEADLOCK FALSE
INVARIANTS TypeOK TableIsTrue TakenAsFilled ProbedAll
PROPERTIES CloseEndsReceiver
