SPECIFICATION Spec
CONSTANTS
  t1 = t1
  t2 = t2
  pr = pr
  bg = bg
  ed = ed
  poll = poll
  Cooldown = cooldown
  NoOwner = none
  Target <- MCTarget
  Owner <- MCOwner
  SourceOf <- MCSourceOf
  MaxEntries = 1
SYMMETRY TargetsAlike
INVARIANTS
  TypeOK
  Coherent
  OnePrimaryHolder
  HolderIsOwnerOrClosed
  GatesAgree
PROPERTIES
  ClosedStaysClosed
  ImplementsOwnership
