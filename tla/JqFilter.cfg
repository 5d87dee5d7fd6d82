SPECIFICATION FilterSpec
CONSTANTS
  Keys = {a, b, c, d}
  Operator = Operator
  MaxTokens = 3
  MaxKeys = 4
SYMMETRY Symmetry
INVARIANTS
  KeptIsPrefix
  FilterMeaning
\* a run ends with the last key
CHECK_DEADLOCK FALSE
