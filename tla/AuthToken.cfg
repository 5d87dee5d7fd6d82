SPECIFICATION Spec
CONSTANTS
  Requests = {q1, q2, q3}
  \* times scaled down, in the order that they have
  Grace = 2
  UrgentRotateTime = 2
  Interval = 3
  Lifetime = 6
  Short = 1
  Start = 4
  MaxTime = 11
  MaxSends = 4
  NoRow = NoRow
SYMMETRY Symmetry
INVARIANTS
  TypeOK
  CookieAccepted
PROPERTY
  NeverRestored
\* the session has ended, or the time
CHECK_DEADLOCK FALSE
