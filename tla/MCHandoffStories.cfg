SPECIFICATION StoriesSpec
CONSTANTS
  pr = pr
  bg = bg
  ed = ed
  poll = poll
  pr1 = pr1
  bg1 = bg1
  bg2 = bg2
  ed1 = ed1
  rec = rec
  pl = pl
  n1 = n1
  n2 = n2
  t1 = t1
  t2 = t2
  Cooldown = cooldown
  NoOwner = none
  Seed = seed
  Owner <- MCOwner
  SourceOf <- MCSourceOf
  Attempt <- Deliveries
  OwnerOf <- DeliveriesOwnerOf
  ImmediateRecovery = {rec}
  Validator = {n1, n2, t1, t2}
  RoundOf <- AllRoundOf
SYMMETRY Alike
CHECK_DEADLOCK FALSE
INVARIANTS
  OneSignalPerTarget
  BgEdClaimIsWorkedOn
  GradedOnce
  LossesArm
  ArmedClosesTarget
PROPERTIES
  NoFreshAttemptAfterArm
