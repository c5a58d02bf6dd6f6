SPECIFICATION Spec
CONSTANTS
  Senders = {s1, s2, s3}
  Closers = {k1}
  InCap = 2
  OutCap = 1
  MaxSends = 4
INVARIANTS
  NoPanic
CHECK_DEADLOCK FALSE
