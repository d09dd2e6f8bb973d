SPECIFICATION FairSpec
CONSTANTS
  Conns = {c1}
  Ress = {r1, r2, r3}
  EvalThreads = {e1, e2}
  NULL = NULL
  MaxReqs = 3
  MsgLen = 2
  MaxEarly = 0
  Kinds <- KeepAlive
  Pipelining = TRUE
  Disconnects = TRUE
  Timeouts = TRUE
PROPERTIES
  Answered
  Reaped
CHECK_DEADLOCK FALSE
