SPECIFICATION Spec
CONSTANTS
  s1 = s1
  v1 = v1
  Signal <- MCSignal
  Result <- MCResult
  Gates <- MCGates
  MaxAttempts = 1
  Period = 1
  MaxFaults = 0
  MaxRetries = 0
PROPERTIES
  EveryRowSettles
CHECK_DEADLOCK FALSE
