SPECIFICATION Spec
CONSTANTS
  Signals = {10, 12, 15}
  Deadly = {15}
  SIGSTOP = 19
  ExitCodes = {0, 1}
  MaxSent = 3
  MaxInterrupts = 2
CHECK_DEADLOCK FALSE
INVARIANTS GotSignal
