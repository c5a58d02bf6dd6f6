SPECIFICATION Spec
CONSTANTS
  c1 = c1
  c2 = c2
  c3 = c3
  t1 = t1
  t2 = t2
  s1 = s1
  s2 = s2
  scan1 = scan1
  scan2 = scan2
  claim1 = claim1
  claim2 = claim2
  Tasks = {t1}
  Streams = {s1}
  StreamOf <- OwnStream
  Poison = {}
  Consumers = {c1, c2}
  Faulty = TRUE
  MaxStalls = 0
  Backpressure = FALSE
  LongLived = {}
  Scanners = {scan1}
  Claimers = {claim2}
  Host <- HostOf
  MaxRetries = 2
  BatchSize = 2
  Mortal = {c1, c2}
  MaxCrashes = 1
INVARIANTS
  TypeOK
  OneLiveEntry
  NoResurrection
  NothingVanishes
  RetryBudget
  PendingHasPayload
PROPERTIES
  ImplementsLifecycle
CHECK_DEADLOCK FALSE
