SPECIFICATION FairSpec
CONSTANTS
  Threads = {t1, t2}
  QSize = 2
  Polls = 1
  MaxFiles = 2
  MaxSize = 1
  MaxEntries = 2
  MaxCrashes = 2
  Closes = TRUE
INVARIANTS
  TypeOK
  WrittenInOrder
  KeptInOrder
  Retention
  FlushMissesOne
  CloseDrains
PROPERTIES
  Logged
  ImplementsKeptLog
CHECK_DEADLOCK FALSE
