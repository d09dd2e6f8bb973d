SPECIFICATION Spec
CONSTANTS
  Conns = {c1}
  Ress = {r1, r2, r3, r4}
  EvalThreads = {e1, e2}
  NULL = NULL
  MaxReqs = 1
  MsgLen = 2
  MaxEarly = 0
  Kinds <- EvalClose
  Pipelining = TRUE
  Disconnects = TRUE
  Timeouts = FALSE
INVARIANTS
  ReadyToClose
CHECK_DEADLOCK FALSE
