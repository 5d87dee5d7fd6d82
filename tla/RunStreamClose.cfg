SPECIFICATION Spec
CONSTANTS
  Requests = {r1, r2}
  Channels = {c1}
  NoRequest = NoRequest
  MaxChecks = 1
INVARIANT
  CloseNotifyOnExit
CHECK_DEADLOCK FALSE
