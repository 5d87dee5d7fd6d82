SPECIFICATION Spec
CONSTANTS
  Ids = {i1, i2, i3, i4}
  RequestIds = {q1}
  NoRequest = NoRequest
  MaxParallel = 2
SYMMETRY Symmetry
INVARIANTS
  TypeOK
  NothingWaits
  SentSparingly
\* every request has ended
CHECK_DEADLOCK FALSE
