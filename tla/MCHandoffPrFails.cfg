SPECIFICATION Spec
CONSTANTS
  pr = pr
  bg = bg
  ed = ed
  poll = poll
  pr1 = pr1
  bg1 = bg1
  bg2 = bg2
  ed1 = ed1
  rec = rec
  pl = pl
  n1 = n1
  n2 = n2
  t1 = t1
  t2 = t2
  Cooldown = cooldown
  NoOwner = none
  Seed = seed
  Owner <- MCOwner
  SourceOf <- MCSourceOf
  Attempt <- TwoBg
  OwnerOf <- TwoBgOwnerOf
  ImmediateRecovery = {}
  Validator = {n1}
  RoundOf <- OneRoundOf
CHECK_DEADLOCK FALSE
INVARIANTS
  FailedPrimaryFreesTarget
