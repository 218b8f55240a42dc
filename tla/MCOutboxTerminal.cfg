SPECIFICATION Spec
CONSTANTS
  s1 = s1
  v1 = v1
  Signal <- MCSignal
  Result <- MCNone
  Gates <- MCNone
  MaxAttempts = 2
  Period = 2
  MaxFaults = 0
  MaxRetries = 0
PROPERTIES
  TerminalStaysTerminal
CHECK_DEADLOCK FALSE
