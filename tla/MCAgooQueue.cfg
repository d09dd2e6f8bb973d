SPECIFICATION Spec
CONSTANTS
  Pushers = {p1, p2}
  Poppers = {c1, c2}
  Items = {i1, i2, i3, i4}
  NULL = NULL
  QSizeArg = 2
  MultiPush = TRUE
  MultiPop = TRUE
  WaitCnts = {0, 1}
  PipeMax = 1
  MaxPipes = 2
CONSTRAINT OneListener
SYMMETRY Symmetry
INVARIANTS
  TypeOK
  LockInv
  SlotInv
  PipeInv
  EmptyIffEmpty
  OnePlace
PROPERTY ImplementsFifo
