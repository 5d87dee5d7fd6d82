SPECIFICATION Spec
CONSTANTS
  Requests = {r1, r2}
  Own = {k1, k2}
  Others = {}
  None = None
  MaxFailures = 1
PROPERTY
  MadeWhenMissing
