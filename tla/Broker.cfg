SPECIFICATION FairSpec
CONSTANTS
  Senders = {s1, s2, s3}
  Closers = {k1, k2}
  InCap = 2
  OutCap = 1
  MaxSends = 4
INVARIANTS
  TypeOK
  InOrder
  OutputClosedLast
  NoneParked
PROPERTIES
  AcceptedReceived
  ImplementsContract
CHECK_DEADLOCK FALSE
