SPECIFICATION Spec
CONSTANTS
  c1 = c1
  c2 = c2
  c3 = c3
  t1 = t1
  t2 = t2
  s1 = s1
  s2 = s2
  scan1 = scan1
  scan2 = scan2
  claim1 = claim1
  claim2 = claim2
  Tasks = {t1}
  Streams = {s1}
  StreamOf <- OwnStream
  Poison = {}
  Consumers = {c1, c2}
  Faulty = FALSE
  MaxStalls = 0
  Backpressure = FALSE
  LongLived = {}
  Scanners = {scan1, scan2}
  Claimers = {claim2}
  Host <- HostOf
  MaxRetries = 1
  BatchSize = 2
  Mortal = {c1, c2}
  MaxCrashes = 2
INVARIANTS
  SingleProcessor
  OwnerInv
PROPERTIES
  FinishedNotRequeued
CHECK_DEADLOCK FALSE
