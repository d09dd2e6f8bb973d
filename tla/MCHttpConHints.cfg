SPECIFICATION Spec
CONSTANTS
  Conns = {c1, c2}
  Ress = {r1, r2, r3}
  EvalThreads = {e1, e2}
  NULL = NULL
  MaxReqs = 2
  MsgLen = 1
  MaxEarly = 1
  Kinds <- EvalOnly
  Pipelining = TRUE
  Disconnects = FALSE
  Timeouts = FALSE
SYMMETRY Symmetry
INVARIANTS
  SafeRecycle
  HintsInOrder
CHECK_DEADLOCK FALSE
