SPECIFICATION FairSpec
CONSTANTS
  c1 = c1
  c2 = c2
  c3 = c3
  t1 = t1
  t2 = t2
  s1 = s1
  s2 = s2
  scan1 = scan1
  scan2 = scan2
  claim1 = claim1
  claim2 = claim2
  Tasks = {t1, t2}
  Streams = {s1, s2}
  StreamOf <- OwnStream
  Poison = {}
  Consumers = {c1, c2}
  Faulty = FALSE
  MaxStalls = 0
  Backpressure = FALSE
  LongLived = {t1}
  Scanners = {scan2}
  Claimers = {}
  Host <- HostOf
  MaxRetries = 1
  BatchSize = 1
  Mortal = {c1}
  MaxCrashes = 1
PROPERTIES
  TaskSettles
CHECK_DEADLOCK FALSE
