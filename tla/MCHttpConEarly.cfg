SPECIFICATION Spec
CONSTANTS
  Conns = {c1}
  Ress = {r1, r2, r3, r4}
  EvalThreads = {e1, e2}
  NULL = NULL
  MaxReqs = 1
  MsgLen = 2
  MaxEarly = 1
  Kinds <- EvalOnly
  Pipelining = TRUE
  Disconnects = FALSE
  Timeouts = FALSE
PROPERTIES
  FinishedIsSent
CHECK_DEADLOCK FALSE
