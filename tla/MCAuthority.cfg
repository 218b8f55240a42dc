SPECIFICATION Spec
CONSTANTS
  a = a
  b = b
  Worker <- MCWorker
  NoOwner = none
  Ttl = 4
  Beat = 5
  MaxIncidents = 2
INVARIANTS
  TypeOK
  DemotedHoldsNothing
  OverlapIsShort
PROPERTIES
  TakeoverProvesExpiry
  ImplementsLease
  SomeoneServes
