SPECIFICATION Spec
CONSTANTS
  s1 = s1
  v1 = v1
  Signal <- MCSignal
  Result <- MCNone
  Gates <- MCNone
  MaxAttempts = 2
  Period = 2
  MaxFaults = 1
  MaxRetries = 1
INVARIANTS
  TypeOK
  WakeNotLost
  FilterSeesSignals
  OneCopyUnlessTrouble
PROPERTIES
  ImplementsPromise
  EveryRowSettles
  KilledNeverSentAgain
CHECK_DEADLOCK FALSE
