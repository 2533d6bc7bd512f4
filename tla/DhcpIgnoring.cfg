SPECIFICATION Spec
CONSTANTS
  Xids <- TwoXids
  Foreign <- OtherHosts
  COUNT = 2
  SECOND = 2
  NAP = 1
  MaxQueue = 1
  MaxZero = 1
CHECK_DEADLOCK FALSE
INVARIANTS IgnoresIgnored
