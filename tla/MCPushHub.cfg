SPECIFICATION Spec
CONSTANTS
  LoopCnt = 2
  Ups = {u1}
  Home <- OnFirst
  Threads = {t1, t2}
  NULL = NULL
  MaxPending = 1
  CallbackWrites = FALSE
  CallKinds <- Kinds
  Callbacks <- Both
  MaxCalls = 3
SYMMETRY Symmetry
INVARIANTS
  TypeOK
  RefExact
  PendingExact
  WritesBounded
  SenderOrder
  LastReleaseFrees
CHECK_DEADLOCK FALSE
