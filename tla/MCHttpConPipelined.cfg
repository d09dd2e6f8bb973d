SPECIFICATION Spec
CONSTANTS
  Conns = {c1, c2}
  Ress = {r1, r2, r3}
  EvalThreads = {e1, e2}
  NULL = NULL
  MaxReqs = 2
  MsgLen = 1
  MaxEarly = 0
  Kinds <- Usual
  Pipelining = TRUE
  Disconnects = TRUE
  Timeouts = FALSE
SYMMETRY Symmetry
INVARIANTS
  TypeOK
  InOrder
  SafeRecycle
  OneOwner
  ReadyToClose
  CloseIsLast
PROPERTIES
  FinishedIsSent
CHECK_DEADLOCK FALSE
