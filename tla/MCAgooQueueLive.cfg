SPECIFICATION FairSpec
CONSTANTS
  Pushers = {p1}
  Poppers = {c1}
  Items = {i1, i2, i3, i4}
  NULL = NULL
  QSizeArg = 4
  MultiPush = FALSE
  MultiPop = FALSE
  WaitCnts = {1, 2}
  PipeMax = 1
  MaxPipes = 1
PROPERTIES
  ImplementsFairFifo
  Delivered
