SPECIFICATION ThreadSpec
CONSTANTS
  Prefix <- LanPrefix
  Target = 2
  First = 1
  Last = 3
  Senders <- LanOnly
  MACs = {m1}
  MAC_SLOTS = 1
  MaxFrames = 1
  MaxQueue = 1
CHECK_DEADLOCK FALSE
PROPERTIES CloseEndsReceiver
