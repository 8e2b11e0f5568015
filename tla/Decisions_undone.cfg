SPECIFICATION Spec
CONSTANTS
  Records = {rec1, rec2}
  Values = {a, b}
  Changes = {c1, c2}
  Large = {c2}
  None = None
  MaxLog = 4
  MaxItems = 1
  MaxNames = 1
SYMMETRY Symmetry
INVARIANTS
  UndoneIsUndone
CHECK_DEADLOCK FALSE
