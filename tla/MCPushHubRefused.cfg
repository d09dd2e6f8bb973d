SPECIFICATION Spec
CONSTANTS
  LoopCnt = 2
  Ups = {u1}
  Home <- OnFirst
  Threads = {t1, t2}
  NULL = NULL
  MaxPending = 1
  CallbackWrites = TRUE
  CallKinds <- OnlyWrites
  Callbacks <- Both
  MaxCalls = 3
SYMMETRY Symmetry
INVARIANTS
  ConReference
CHECK_DEADLOCK FALSE
