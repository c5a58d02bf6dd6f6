SPECIFICATION FairSpec
CONSTANTS
  n1 = n1
  n2 = n2
  n3 = n3
  s1 = s1
  s2 = s2
  Nodes = {n1, n2, n3}
  Slots = {s1, s2}
  InitialOwner <- TwoMasters
  Foreign = {n1}
  ForceOverride = FALSE
  Callers = {c1}
  MaxChanges = 2
ACTION_CONSTRAINT DoneEarly
INVARIANTS
  TypeOK
  SubscriptionsBounded
  NeverDeaf
  CoveredAfterSuccess
PROPERTIES
  EventuallyCovered
CHECK_DEADLOCK FALSE
