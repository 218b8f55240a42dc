SPECIFICATION Spec
CONSTANTS
  r1 = r1
  r2 = r2
  w1 = w1
  Run <- MCRun
  Eager <- MCEager
  Sweep <- MCSweep
  MaxFaults = 1
INVARIANTS
  TypeOK
  GradedIsMatched
  LearnedOnce
  JobAndMarkerAgree
  ReportedIsCounted
PROPERTIES
  FlaggedStaysOut
  ImplementsSettlement
  CrashedRowLeaves
  FeedbackSettles
CHECK_DEADLOCK FALSE
