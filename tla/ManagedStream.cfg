SPECIFICATION FairSpec
CONSTANTS
  Pushers = {p1, p2}
  Schemas = {a, b, c}
  Wider = {c}
  None = None
  MaxPushes = 3
  MaxDrops = 1
INVARIANTS
  TypeOK
  ReadAsPushed
  InOrder
PROPERTY
  Arrives
CHECK_DEADLOCK FALSE
