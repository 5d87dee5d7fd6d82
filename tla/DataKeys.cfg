SPECIFICATION FairSpec
CONSTANTS
  Requests = {r1, r2}
  Own = {k1, k2}
  Others = {k3}
  None = None
  MaxFailures = 1
INVARIANTS
  TypeOK
  SecretsKeepTheirKey
  FewActiveKeys
PROPERTY
  RotationTakesEffect
