SPECIFICATION FairSpec
CONSTANTS
  MaxEntries = 1
  Senders <- MCSenders
  Closers = {1}
  MaxDone = 1
  Defaults <- MCDefaults
  HBInterval = 2
  Minute = 60
  OptionLists <- MCOptionLists
  Others <- MCOthers
  Payloads = {"expired", "set"}
  KspCap = 1
  MaxErrors = 3
  Lives <- MCQuiet
PROPERTY
  DoneCleansUp
CHECK_DEADLOCK FALSE
