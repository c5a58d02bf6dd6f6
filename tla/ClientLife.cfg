SPECIFICATION FairSpec
CONSTANTS
  MaxEntries = 2
  Senders <- MCSenders
  Closers = {1, 2}
  MaxDone = 2
  Defaults <- MCDefaults
  HBInterval = 2
  Minute = 60
  OptionLists <- MCOptionLists
  Others <- MCOthers
  Payloads = {"expired", "set"}
  KspCap = 1
  MaxErrors = 3
  Lives <- MCLives
INVARIANTS
  TypeOK
  ConfigUsable
  BackoffExact
  ExpiryNamesEntry
  NoOrphan
  DoneFinishesSnapshot
  NoSecondClose
PROPERTIES
  GivesUpInTime
  DoneReleases
  DoneReturns
  GiveUpIsTold
  CancelStops
CHECK_DEADLOCK FALSE
