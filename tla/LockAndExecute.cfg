SPECIFICATION Spec
CONSTANTS
  Servers = {n1, n2, n3}
  Interval = 2
  MaxTime = 5
  NoRow = NoRow
SYMMETRY Symmetry
INVARIANTS
  TypeOK
  ExecutionsApart
PROPERTY
  ClaimsApart
