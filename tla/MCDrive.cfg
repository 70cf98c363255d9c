SPECIFICATION Spec
CONSTANTS
  Blank = Blank
  Garbage = Garbage
  Absent = Absent
  Address = {1, 2}
  TokenAddress = {11, 12}
  MaxOf <- MCMaxOf
  Configs <- MCConfigs
  Nonces = {0, 1, 2}
  Values = {0, 1, 4}
  Widths = {1, 2, 8}
  MaxOps = 4
INVARIANTS
  ReadsBack
  ReopenAgrees
CHECK_DEADLOCK FALSE
